------------------------------ MODULE DnsConfig ------------------------------
(***************************************************************************)
(* The resolver's options: src/base/net/dns/DnsConfig.  The constructor   *)
(* reads the "dns" object of the JSON configuration; the object is a      *)
(* function whose domain is the keys present with a value of the getter's *)
(* type.  The Json::get* helpers are not in the repository: each returns  *)
(* its default for any other key (spec "Configuration surface").  A name  *)
(* is the sequence of its labels.                                         *)
(***************************************************************************)
EXTENDS Naturals

\* The keys DnsConfig recognizes (kIPv ... kDoHFallback).
Keys == {"ip_version", "ttl", "pool-ns", "pool-ns-timeout", "doh-primary", "doh-fallback"}

\* Json::getUint / getBool / getString(value, key, default).
Get(v, key, default) == IF key \in DOMAIN v THEN v[key] ELSE default

\* The member initializers: what DnsConfig() holds.
Defaults == [ipv |-> 0, ttl |-> 30, poolNs |-> TRUE, poolNsTimeout |-> 1000,
             dohPrimary |-> <<"dns", "google">>,
             dohFallback |-> <<"dns", "nextdns", "io">>]

\* DnsConfig(const rapidjson::Value &): an ip_version other than 0, 4 or 6
\* keeps the default; the ttl is floored at one second, with std::max; the
\* timeout is taken as it is, 0 included.
ParseDnsConfig(v) ==
    LET ipv == Get(v, "ip_version", Defaults.ipv)
        ttl == Get(v, "ttl", Defaults.ttl)
    IN  [ipv |-> IF ipv \in {0, 4, 6} THEN ipv ELSE Defaults.ipv,
         ttl |-> IF ttl >= 1 THEN ttl ELSE 1,
         poolNs |-> Get(v, "pool-ns", Defaults.poolNs),
         poolNsTimeout |-> Get(v, "pool-ns-timeout", Defaults.poolNsTimeout),
         dohPrimary |-> Get(v, "doh-primary", Defaults.dohPrimary),
         dohFallback |-> Get(v, "doh-fallback", Defaults.dohFallback)]

\* DnsConfig::isDoHServer: the host is one of the two configured DoH servers.
IsDoHServer(cfg, host) == host \in {cfg.dohPrimary, cfg.dohFallback}

\* The registry's choice in Dns::resolve: a new host gets a
\* DnsPoolNsBackend when pool-ns is on and the host is neither an IP
\* literal nor a DoH server; any other host gets the system backend.
UsesPoolNs(cfg, host, isIp) == cfg.poolNs /\ ~isIp /\ ~IsDoHServer(cfg, host)
=============================================================================

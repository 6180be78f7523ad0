------------------------- MODULE MCDnsPoolNsBackend -------------------------
(* Instances of DnsPoolNsBackend for TLC.                                  *)
EXTENDS DnsPoolNsBackend, DomainUtils, DnsConfig, BagsExt

CONSTANTS h1, h2, d1, d2

\* The labels of the pool hosts: xmr.pool.example.com, and a second pool
\* host on another domain.
HostLabels(h) == IF h = h1 THEN <<"xmr", "pool", "example", "com">>
                 ELSE <<"pool", "other", "net">>

\* The two registered domains, by their labels.
DomainLabels(d) == IF d = d1 THEN <<"example", "com">> ELSE <<"other", "net">>

\* m_baseDomain, as resolve() computes it for a pool host (never an IP):
\* the domain whose labels extractBaseDomain returns.
MCBaseOf(h) ==
    CHOOSE d \in {d1, d2} : DomainLabels(d) = ExtractBaseDomain(HostLabels(h), FALSE)

\* The "dns" object of the configuration the runs use: only "ttl", given
\* as 30 seconds (the default); the other options keep their defaults.
ConfigValue == [k \in {"ttl"} |-> 30]

\* Dns::m_config, built by the DnsConfig constructor.
MCConfig == ParseDnsConfig(ConfigValue)

\* DnsConfig::m_ttl, as the backend's cache reads it.
MCTtl == MCConfig.ttl

\* Every pool host of the model is one the registry gives a DnsPoolNsBackend.
ASSUME \A h \in {h1, h2} : UsesPoolNs(MCConfig, HostLabels(h), FALSE)

\* Every name the model meets has labels of at most 63 bytes.
MCEncodable(n) == TRUE

\* Two backends at once: at most two DoH fetches in flight in all.
InFlightBound == BagCardinality(http) <= 2
=============================================================================

--------------------------- MODULE DnsPoolNsBackend ---------------------------
(***************************************************************************)
(* The authoritative-first resolver of src/base/net/dns/DnsPoolNsBackend.  *)
(* One backend per pool host (the registry keeps them sticky), all on one *)
(* event loop.  Each callback of the code (resolve, onHttpData,           *)
(* onPoolDoHResponse, onTcpQueryComplete, onTimeout, the system-resolver  *)
(* FallbackListener) is one action; the helpers it calls (startNsLookup,  *)
(* tryNextNs, notify, ...) are operators on the backend record, so an     *)
(* action is the whole synchronous call chain.                            *)
(*                                                                         *)
(* DoH fetches in flight form a bag: the transport answers each exactly   *)
(* once, in any order, and may answer after the backend's own step timer  *)
(* has fired (both are armed with pool-ns-timeout; which fires first is   *)
(* decided by the HTTP client, outside this code).  Nothing in the code   *)
(* matches an answer to the query that produced it.                       *)
(***************************************************************************)
EXTENDS Integers, FiniteSets, Sequences, Bags

CONSTANTS
    Hosts,          \* pool host names resolved through this backend kind
    BaseOf(_),      \* DomainUtils::extractBaseDomain
    Encodable(_),   \* DnsWireFormat::buildQuery succeeds (no label > 63)
    MaxNs,          \* most NS records an NS answer carries
    MaxRequests,    \* bound on resolve() calls (DnsRequest objects)
    Ttl,            \* DnsConfig::m_ttl, seconds (floored at 1 by DnsConfig::load)
    Ages,           \* values of now - m_ts (ms) the model tells apart
    None            \* model value: empty slot

ASSUME MaxNs \in Nat \ {0} /\ MaxRequests \in Nat \ {0}
ASSUME Ttl \in Nat \ {0} /\ Ages \subseteq Nat /\ 0 \in Ages

\* DnsConfig::ttl(): m_ttl * 1000U, computed in 32 bits.  TLC's integers
\* are 32-bit signed, so the product is kept as ttl() / 8: with 1000 = 8 * 125
\* it is m_ttl * 125 mod 2^29, multiplied in 16-bit halves.
TtlMsDiv8 ==
    LET t == Ttl % 2^29
        hi == t \div 2^16
        lo == t % 2^16
    IN  (((hi * 125) % 2^13) * 2^16 + lo * 125) % 2^29

\* x <= ttl(), for an age x in ms (ttl() is a multiple of 8).
WithinTtl(x) == (x + 7) \div 8 <= TtlMsDiv8

\* now - m_ts before any result: m_ts is 0, so as old as the model allows.
MaxAge == CHOOSE a \in Ages : \A x \in Ages : x <= a

Reqs == 1..MaxRequests
States == {"IDLE", "NS_LOOKUP", "NS_RESOLVE", "POOL_QUERY", "SIMPLE_DOH", "FALLBACK"}

\* The i-th (0-based) NS host of a base domain, as an NS answer lists it.
NsName(d, i) == <<d, i>>
NsNames == {NsName(BaseOf(h), i) : h \in Hosts, i \in 0..MaxNs-1}
\* Names whose A records a response can carry.
Names == Hosts \cup NsNames

\* dohPrimary or dohFallback, as m_dohServerIndex selects: no handler reads
\* which of the two answered, so the model does not tell them apart.
DoH == <<"doh">>

\* A fetch(): which listener gets the answer (the backend itself, or the
\* PoolDoHListener), what was asked, and of which server (DoH for
\* a well-known DoH resolver, or an NS host for a direct pool query).
Fetches == [host : Hosts, to : {"backend", "pool"}, qtype : {"NS", "A"},
            name : Names \cup {BaseOf(h) : h \in Hosts}, srv : {DoH} \cup NsNames]

\* Persistent fields of a backend; the other fields of the record an
\* operator returns are the effects of one step.
Fields == {"host", "state", "dohServerIndex", "nsServers", "currentNsIndex",
           "poolQueryDoH", "addedToActiveSet", "nsEntry", "records", "status",
           "age", "timer", "tcpClient", "fallbackPending", "queue", "oob"}

VARIABLES
    bk,         \* bk[h]: the DnsPoolNsBackend of host h
    http,       \* bag of fetches in flight
    resolving,  \* Dns::m_resolving (Dns::beginResolving / endResolving)
    active,     \* s_activeBaseDomains
    reqHost,    \* reqHost[r]: host of DnsRequest r, None before it exists
    answers     \* answers[r]: the onResolved calls request r received

vars == <<bk, http, resolving, active, reqHost, answers>>

Backend == [host : Hosts, state : States, dohServerIndex : 0..2,
            nsServers : 0..MaxNs, currentNsIndex : 0..MaxNs + 1,
            poolQueryDoH : BOOLEAN, addedToActiveSet : BOOLEAN,
            nsEntry : Names \cup {None}, records : Names \cup {None},
            status : {0, -1}, age : Ages, timer : BOOLEAN,
            tcpClient : Names \cup {None}, fallbackPending : BOOLEAN,
            queue : SUBSET Reqs, oob : BOOLEAN]

\* m_nsServers[m_currentNsIndex]; reading it past the end is recorded in oob.
NsServer(b) == NsName(BaseOf(b.host), b.currentNsIndex)
ReadNs(b) == [b EXCEPT !.oob = @ \/ b.currentNsIndex >= b.nsServers]

(***************************************************************************)
(* Helpers of DnsPoolNsBackend.cpp.  Effects: sent (the fetch issued),     *)
(* killPool (m_poolDoHListener replaced, so answers to the old one are    *)
(* dropped by the weak_ptr), dres (begin/endResolving), delivered (the    *)
(* requests notify() called back).                                        *)
(***************************************************************************)

Fetch(b, q) == [b EXCEPT !.sent = q, !.timer = TRUE]

FallbackToSystem(b) ==
    [b EXCEPT !.state = "FALLBACK", !.timer = FALSE, !.fallbackPending = TRUE]

\* Mutants of notify() (a forgotten m_queue.clear(); a forgotten
\* Dns::endResolving(); the whole release block forgotten).
NotifyKeepsQueue(b) ==
    [b EXCEPT !.dres = IF b.addedToActiveSet THEN @ - 1 ELSE @,
              !.addedToActiveSet = FALSE, !.delivered = b.queue]
NotifyNoEndResolving(b) ==
    [b EXCEPT !.addedToActiveSet = FALSE, !.delivered = b.queue, !.queue = {}]
NotifyKeepsSlot(b) == [b EXCEPT !.delivered = b.queue, !.queue = {}]

Notify(b) ==
    [b EXCEPT !.dres = IF b.addedToActiveSet THEN @ - 1 ELSE @,
              !.addedToActiveSet = FALSE,
              !.delivered = b.queue, !.queue = {}]

StartSimpleDoH(b) ==
    LET b1 == [b EXCEPT !.state = "SIMPLE_DOH"] IN
    IF ~Encodable(b.host) THEN FallbackToSystem(b1)
    ELSE Fetch(b1, [host |-> b.host, to |-> "backend", qtype |-> "A",
                    name |-> b.host, srv |-> DoH])

StartNsLookup(b) ==
    LET b1 == [b EXCEPT !.state = "NS_LOOKUP"] IN
    IF ~Encodable(BaseOf(b.host)) THEN FallbackToSystem(b1)
    ELSE Fetch(b1, [host |-> b.host, to |-> "backend", qtype |-> "NS",
                    name |-> BaseOf(b.host), srv |-> DoH])

FallbackToSimpleDoH(b) == StartSimpleDoH([b EXCEPT !.dohServerIndex = 0])

RECURSIVE TryNextNs(_), StartPoolQuery(_), StartNsResolve(_), StartPoolQueryTcp(_)

StartNsResolve(b) ==
    IF b.currentNsIndex >= b.nsServers THEN FallbackToSystem(b)
    ELSE LET b1 == [b EXCEPT !.state = "NS_RESOLVE"] IN
         IF ~Encodable(NsServer(b)) THEN TryNextNs(b1)
         ELSE Fetch(b1, [host |-> b.host, to |-> "backend", qtype |-> "A",
                         name |-> NsServer(b), srv |-> DoH])

StartPoolQueryDoH(b) ==
    IF ~Encodable(b.host) THEN StartNsResolve(b)
    ELSE [Fetch(b, [host |-> b.host, to |-> "pool", qtype |-> "A",
                    name |-> b.host, srv |-> NsServer(b)]) EXCEPT !.killPool = TRUE]

StartPoolQuery(b) ==
    IF b.currentNsIndex >= b.nsServers THEN FallbackToSystem(b)
    ELSE StartPoolQueryDoH([b EXCEPT !.state = "POOL_QUERY", !.poolQueryDoH = TRUE])

\* TCP/53 to the IP of m_nsEntries.back(); the step timer is stopped.
StartPoolQueryTcp(b) ==
    IF b.nsEntry = None THEN TryNextNs(b)
    ELSE [b EXCEPT !.state = "POOL_QUERY", !.poolQueryDoH = FALSE,
                   !.timer = FALSE, !.tcpClient = b.nsEntry]

TryNextNs(b) ==
    LET b1 == [b EXCEPT !.currentNsIndex = @ + 1, !.poolQueryDoH = TRUE] IN
    IF b1.currentNsIndex < b1.nsServers THEN StartPoolQuery(b1)
    ELSE FallbackToSimpleDoH(b1)

\* The peer IP of a failed pool DoH answer is the IP of the NS it reached.
TryTcpWithCachedIp(b, peer) == StartPoolQueryTcp([ReadNs(b) EXCEPT !.nsEntry = peer])

OnNsLookupComplete(b, k) == StartPoolQuery([b EXCEPT !.nsServers = k])

\* The log line names m_nsServers[m_currentNsIndex] when the list is not empty.
OnPoolQueryComplete(b) ==
    LET b1 == IF b.nsServers > 0 THEN ReadNs(b) ELSE b IN
    Notify([b1 EXCEPT !.state = "IDLE"])

Succeed(b, name) ==
    [b EXCEPT !.records = name, !.status = 0, !.age = 0]
(***************************************************************************)
(* Callbacks.  out is the transport's answer: "ok" (HTTP 200 carrying     *)
(* records of the type asked), "empty" (HTTP 200 without them) or "error" *)
(* (non-200, transport failure, or the client's own timeout).  A 200 body *)
(* parses as the type the current state expects only if it answers a     *)
(* query of that type: the parsers look at record types, never at the    *)
(* query id or name.                                                      *)
(***************************************************************************)
Outcomes == {"ok", "empty", "error"}
Parses(f, out, qtype) == out = "ok" /\ f.qtype = qtype

\* ++m_dohServerIndex < 2 on the DoH-rotating steps (NS_LOOKUP, SIMPLE_DOH).
NextDoh(b) == [b EXCEPT !.dohServerIndex = @ + 1]

\* Mutant: the `++m_dohServerIndex < 2` bound of the NS_LOOKUP retry dropped.
OnHttpErrorNoBound(b) ==
    CASE b.state = "NS_LOOKUP" -> StartNsLookup(NextDoh(b))
      [] b.state = "SIMPLE_DOH" /\ b.dohServerIndex + 1 < 2 -> StartSimpleDoH(NextDoh(b))
      [] b.state = "NS_RESOLVE" -> StartPoolQueryTcp(b)
      [] b.state = "SIMPLE_DOH" -> FallbackToSystem(NextDoh(b))
      [] OTHER -> FallbackToSystem(b)

OnHttpError(b) ==
    CASE b.state = "NS_LOOKUP" /\ b.dohServerIndex + 1 < 2 -> StartNsLookup(NextDoh(b))
      [] b.state = "SIMPLE_DOH" /\ b.dohServerIndex + 1 < 2 -> StartSimpleDoH(NextDoh(b))
      [] b.state = "NS_RESOLVE" -> StartPoolQueryTcp(b)
      [] b.state \in {"NS_LOOKUP", "SIMPLE_DOH"} -> FallbackToSystem(NextDoh(b))
      [] OTHER -> FallbackToSystem(b)

OnHttpOk(b, f, out, k) ==
    CASE b.state = "NS_LOOKUP" ->
            IF Parses(f, out, "NS") THEN OnNsLookupComplete(b, k)
            ELSE IF b.dohServerIndex + 1 < 2 THEN StartNsLookup(NextDoh(b))
            ELSE FallbackToSystem(NextDoh(b))
      [] b.state = "NS_RESOLVE" ->
            IF Parses(f, out, "A")
            THEN StartPoolQueryTcp([ReadNs(b) EXCEPT !.nsEntry = f.name])
            ELSE TryNextNs(b)
      [] b.state = "SIMPLE_DOH" ->
            IF Parses(f, out, "A")
            THEN Notify([Succeed(b, f.name) EXCEPT !.state = "IDLE"])
            ELSE IF b.dohServerIndex + 1 < 2 THEN StartSimpleDoH(NextDoh(b))
            ELSE FallbackToSystem(NextDoh(b))
      [] OTHER -> b

\* DnsPoolNsBackend::onHttpData
OnHttpData(b, f, out, k) ==
    IF b.state \in {"IDLE", "FALLBACK"} THEN b
    ELSE LET b1 == [b EXCEPT !.timer = FALSE] IN
         IF out = "error" THEN OnHttpError(b1) ELSE OnHttpOk(b1, f, out, k)

\* Mutant: a failed pool DoH answer is dropped instead of retried over TCP/53.
OnPoolDoHResponseNoRetry(b, f, out, peer) ==
    LET b1 == [b EXCEPT !.timer = FALSE] IN
    IF b.state # "POOL_QUERY" \/ out = "error" THEN b1
    ELSE IF Parses(f, out, "A") THEN OnPoolQueryComplete(Succeed(b1, f.name))
    ELSE IF peer THEN TryTcpWithCachedIp(b1, f.srv) ELSE StartNsResolve(b1)

\* DnsPoolNsBackend::onPoolDoHResponse; peer: the answer carries data.ip().
OnPoolDoHResponse(b, f, out, peer) ==
    LET b1 == [b EXCEPT !.timer = FALSE]
        retry == IF peer THEN TryTcpWithCachedIp(b1, f.srv) ELSE StartNsResolve(b1)
    IN  IF b.state # "POOL_QUERY" THEN b1
        ELSE IF Parses(f, out, "A") THEN OnPoolQueryComplete(Succeed(b1, f.name))
        ELSE IF out = "error" THEN LET b2 == ReadNs(b1) IN
                                   IF peer THEN TryTcpWithCachedIp(b2, f.srv)
                                   ELSE StartNsResolve(b2)
        ELSE retry

\* DnsPoolNsBackend::onTcpQueryComplete; the answer is about m_host.
OnTcpQueryComplete(b, ok) ==
    LET b1 == [b EXCEPT !.tcpClient = None] IN
    IF ok THEN OnPoolQueryComplete(Succeed(b1, b.host)) ELSE TryNextNs(b1)

\* DnsPoolNsBackend::onTimeout
OnTimeout(b) ==
    CASE b.state = "NS_LOOKUP" /\ b.dohServerIndex + 1 < 2 -> StartNsLookup(NextDoh(b))
      [] b.state = "NS_RESOLVE" -> TryNextNs(b)
      [] b.state = "POOL_QUERY" /\ b.poolQueryDoH -> StartNsResolve(b)
      [] b.state = "POOL_QUERY" -> TryNextNs(b)
      [] b.state = "NS_LOOKUP" -> FallbackToSystem(NextDoh(b))
      [] OTHER -> FallbackToSystem(b)

\* Mutant: the system resolver's status is not copied (m_status stays 0).
OnSystemResolvedDropsStatus(b, ok) ==
    Notify([b EXCEPT !.records = IF ok THEN b.host ELSE None,
                     !.age = 0, !.state = "IDLE", !.fallbackPending = FALSE])

\* FallbackListener::onResolved: the system resolver's answer.
OnSystemResolved(b, ok) ==
    Notify([b EXCEPT !.records = IF ok THEN b.host ELSE None,
                     !.status = IF ok THEN 0 ELSE -1,
                     !.age = 0, !.state = "IDLE", !.fallbackPending = FALSE])

\* Mutant of the TTL check: the cache taken as stale at exactly ttl().
CacheHitStrict(b) == (b.age + 8) \div 8 <= TtlMsDiv8 /\ b.records # None

\* The TTL cache check of resolve(): now - m_ts <= config.ttl() and records.
CacheHit(b) == WithinTtl(b.age) /\ b.records # None

\* Mutant of resolve(): the recursion guard checks only the base domain,
\* not Dns::isResolving().
OnResolveNoDepthCheck(b, r) ==
    LET b0 == [b EXCEPT !.queue = @ \cup {r}]
        b1 == [b0 EXCEPT !.status = 0, !.nsServers = 0, !.nsEntry = None,
                         !.currentNsIndex = 0, !.dohServerIndex = 0,
                         !.poolQueryDoH = TRUE, !.addedToActiveSet = FALSE,
                         !.tcpClient = None, !.killPool = TRUE]
    IN  IF CacheHit(b) THEN Notify(b0)
        ELSE IF b.state # "IDLE" THEN b0
        ELSE IF BaseOf(b.host) \in active THEN StartSimpleDoH(b1)
        ELSE StartNsLookup([b1 EXCEPT !.addedToActiveSet = TRUE, !.dres = 1])

\* DnsPoolNsBackend::resolve for request r (Dns::resolve has created r).
OnResolve(b, r) ==
    LET b0 == [b EXCEPT !.queue = @ \cup {r}]
        b1 == [b0 EXCEPT !.status = 0, !.nsServers = 0, !.nsEntry = None,
                         !.currentNsIndex = 0, !.dohServerIndex = 0,
                         !.poolQueryDoH = TRUE, !.addedToActiveSet = FALSE,
                         !.tcpClient = None, !.killPool = TRUE]
    IN  IF CacheHit(b) THEN Notify(b0)
        ELSE IF b.state # "IDLE" THEN b0
        ELSE IF resolving > 0 \/ BaseOf(b.host) \in active THEN StartSimpleDoH(b1)
        ELSE StartNsLookup([b1 EXCEPT !.addedToActiveSet = TRUE, !.dres = 1])

(***************************************************************************)
(* Steps.  Begin adds the effect fields, Commit applies them.             *)
(***************************************************************************)
Begin(h) == [k \in Fields \cup {"sent", "killPool", "dres", "delivered"} |->
                CASE k = "sent" -> None [] k = "killPool" -> FALSE
                  [] k = "dres" -> 0 [] k = "delivered" -> {}
                  [] OTHER -> bk[h][k]]

Result(b) == [rec |-> b.records, status |-> b.status]

\* http0: the bag after the consumed fetch is removed.
Commit(h, s, http0) ==
    LET kept == IF s.killPool
                THEN [f \in {g \in DOMAIN http0 : ~(g.host = h /\ g.to = "pool")} |-> http0[f]]
                ELSE http0
    IN
    /\ bk' = [bk EXCEPT ![h] = [k \in Fields |-> s[k]]]
    /\ http' = IF s.sent = None THEN kept ELSE kept (+) SetToBag({s.sent})
    /\ resolving' = resolving + s.dres
    /\ active' = CASE s.dres = 1 -> active \cup {BaseOf(h)}
                   [] s.dres = -1 -> active \ {BaseOf(h)}
                   [] OTHER -> active
    /\ answers' = [r \in Reqs |-> IF r \in s.delivered
                                 THEN Append(answers[r], Result(s)) ELSE answers[r]]

-----------------------------------------------------------------------------
Idle(h) == [host |-> h, state |-> "IDLE", dohServerIndex |-> 0, nsServers |-> 0,
            currentNsIndex |-> 0, poolQueryDoH |-> TRUE, addedToActiveSet |-> FALSE,
            nsEntry |-> None, records |-> None, status |-> 0, age |-> MaxAge,
            timer |-> FALSE, tcpClient |-> None, fallbackPending |-> FALSE,
            queue |-> {}, oob |-> FALSE]

Init ==
    /\ bk = [h \in Hosts |-> Idle(h)]
    /\ http = EmptyBag
    /\ resolving = 0
    /\ active = {}
    /\ reqHost = [r \in Reqs |-> None]
    /\ answers = [r \in Reqs |-> <<>>]

\* Dns::resolve(host, listener): a new DnsRequest r handed to the backend.
Resolve(h) ==
    \E r \in Reqs :
        /\ reqHost[r] = None
        /\ \A q \in 1..r-1 : reqHost[q] # None
        /\ reqHost' = [reqHost EXCEPT ![r] = h]
        /\ Commit(h, OnResolve(Begin(h), r), http)

\* The HTTP client answers a fetch whose listener is the backend with out.
DeliverHttp(f, out) ==
    /\ f \in BagToSet(http) /\ f.to = "backend"
    /\ \E k \in IF f.qtype = "NS" /\ out = "ok" THEN 1..MaxNs ELSE {MaxNs} :
       Commit(f.host, OnHttpData(Begin(f.host), f, out, k), http (-) SetToBag({f}))
    /\ UNCHANGED reqHost

\* The HTTP client answers a pool DoH fetch whose PoolDoHListener is alive.
DeliverPoolDoH(f) ==
    /\ f \in BagToSet(http) /\ f.to = "pool"
    /\ \E out \in Outcomes, peer \in BOOLEAN :
          Commit(f.host, OnPoolDoHResponse(Begin(f.host), f, out, peer),
                 http (-) SetToBag({f}))
    /\ UNCHANGED reqHost

\* DnsPoolNsBackend::onTimer: the step timer fires.
Timeout(h) ==
    /\ bk[h].timer
    /\ Commit(h, OnTimeout([Begin(h) EXCEPT !.timer = FALSE]), http)
    /\ UNCHANGED reqHost

\* The DnsTcpClient callback (it fires once, unless the client was destroyed).
TcpDone(h) ==
    /\ bk[h].tcpClient # None
    /\ \E ok \in BOOLEAN : Commit(h, OnTcpQueryComplete(Begin(h), ok), http)
    /\ UNCHANGED reqHost

\* The system resolver (DnsUvBackend) answers the current FallbackListener.
SystemResolved(h) ==
    /\ bk[h].fallbackPending
    /\ \E ok \in BOOLEAN : Commit(h, OnSystemResolved(Begin(h), ok), http)
    /\ UNCHANGED reqHost

\* Time passes: now - m_ts grows.  Only a backend holding records can tell
\* (every write of m_records also sets m_ts).
Tick(h) ==
    /\ bk[h].records # None
    /\ \E a \in Ages : a > bk[h].age /\ bk' = [bk EXCEPT ![h].age = a]
    /\ UNCHANGED <<http, resolving, active, reqHost, answers>>

Next ==
    \/ \E h \in Hosts : Resolve(h) \/ Timeout(h) \/ TcpDone(h) \/ SystemResolved(h) \/ Tick(h)
    \/ \E f \in Fetches : DeliverPoolDoH(f) \/ \E out \in Outcomes : DeliverHttp(f, out)

\* The loop runs ready callbacks: while fetches are in flight the transport
\* keeps answering them (every fetch is answered once, so this is weaker
\* than what the HTTP client gives), armed timers fire, the TCP client and
\* the system resolver complete.  Callers (Resolve) and the clock (Tick)
\* are not obliged to act.
Fairness ==
    /\ WF_vars(\E f \in Fetches : DeliverPoolDoH(f) \/ \E out \in Outcomes : DeliverHttp(f, out))
    /\ \A h \in Hosts : WF_vars(Timeout(h)) /\ WF_vars(TcpDone(h)) /\ WF_vars(SystemResolved(h))

Spec == Init /\ [][Next]_vars /\ Fairness

-----------------------------------------------------------------------------
TypeOK ==
    /\ bk \in [Hosts -> Backend]
    /\ BagToSet(http) \subseteq Fetches
    /\ resolving \in Nat
    /\ active \subseteq {BaseOf(h) : h \in Hosts}
    /\ reqHost \in [Reqs -> Hosts \cup {None}]
    /\ \A r \in Reqs : answers[r] \in Seq([rec : Names \cup {None}, status : {0, -1}])

\* The recursion guard (resolve, notify): Dns::m_resolving and
\* s_activeBaseDomains count exactly the backends holding a slot, and at most
\* one backend is on the authoritative path at a time (spec 8.4).
GuardAccounting ==
    /\ resolving = Cardinality({h \in Hosts : bk[h].addedToActiveSet})
    /\ active = {BaseOf(h) : h \in {g \in Hosts : bk[g].addedToActiveSet}}
    /\ resolving <= 1

\* A backend that took the process-wide slot gives it back: otherwise every
\* later resolution in the process skips the authoritative path for good.
ActiveSlotReleased ==
    \A h \in Hosts : bk[h].addedToActiveSet ~> ~bk[h].addedToActiveSet

\* A listener told status 0 receives addresses of the host it asked for.
RecordsAreForHost ==
    \A r \in Reqs : \A i \in 1..Len(answers[r]) :
        answers[r][i].status = 0 => answers[r][i].rec = reqHost[r]

\* The NS server a step works on is the one m_currentNsIndex names, and it
\* exists (onPoolQueryComplete, onHttpData and tryTcpWithCachedIp read
\* m_nsServers[m_currentNsIndex]; startPoolQueryTcp connects to
\* m_nsEntries.back()): the index is only read in range, and a TCP/53 pool
\* query goes to an IP of the NS server the backend is on.
NsSelectionConsistent ==
    \A h \in Hosts :
        /\ ~bk[h].oob
        /\ (bk[h].state = "POOL_QUERY" /\ ~bk[h].poolQueryDoH /\ bk[h].tcpClient # None)
               => bk[h].tcpClient = NsServer(bk[h])

\* The system resolver is the last resort, reached only as spec 4.5.2 says
\* (fallbackToSystem and its callers in onHttpData, onTimeout and
\* onTcpQueryComplete): FALLBACK is entered from NS_LOOKUP when the DoH
\* servers error or time out, never on an HTTP 200 without NS records (that
\* goes to SIMPLE_DOH); from SIMPLE_DOH only once the second DoH server has
\* failed; never from NS_RESOLVE or POOL_QUERY; and it is left only through
\* the FallbackListener callback.
SystemFallbackAsSpecified ==
    [][\A h \in Hosts :
         LET enters == bk[h].state # "FALLBACK" /\ bk'[h].state = "FALLBACK" IN
         /\ enters => bk[h].state \in {"IDLE", "NS_LOOKUP", "SIMPLE_DOH"}
         /\ enters /\ bk[h].state = "SIMPLE_DOH" => bk[h].dohServerIndex = 1
         /\ enters /\ bk[h].state = "NS_LOOKUP" =>
               ~\E f \in Fetches : f.host = h /\ DeliverHttp(f, "empty")
         /\ (bk[h].state = "FALLBACK" /\ ~enters /\ bk'[h].state # "FALLBACK")
               => (bk[h].fallbackPending /\ ~bk'[h].fallbackPending)]_vars
-----------------------------------------------------------------------------
(***************************************************************************)
(* Refinement: seen through the requests, their onResolved calls and the  *)
(* TTL cache, the backends implement DnsResolver.                         *)
(***************************************************************************)
\* What onResolved may report: the records of one name with status 0, or
\* no records with status -1.
Results == {[rec |-> n, status |-> 0] : n \in Names} \cup {[rec |-> None, status |-> -1]}

\* The result resolve() may serve from the cache, with ttl_ms as spec 3
\* defines it: m_ttl * 1000 without a 32-bit wrap.
CachedResult(b) == IF b.records # None /\ (b.age + 999) \div 1000 <= Ttl THEN Result(b) ELSE None

Resolver == INSTANCE DnsResolver WITH cache <- [h \in Hosts |-> CachedResult(bk[h])]

\* Every step of resolve(), the DoH/TCP/system callbacks and the clock is a
\* step of DnsResolver: each request answered at most once (8.1), the
\* requests waiting on a host answered together by one notify() with one
\* result (8.3), a request made within the TTL of a success answered at
\* once with it (8.2), and a reported success carrying records.
RefinesResolverSafety == Resolver!SafetySpec

\* The same, with DnsResolver's liveness: every request is eventually
\* called back; no interleaving of late answers, timers and TCP completions
\* leaves a backend waiting on nothing, under the loop's fairness.
RefinesResolver == Resolver!Spec
=============================================================================

------------------------------ MODULE DnsResolver ------------------------------
(***************************************************************************)
(* What Dns::resolve promises its callers, per host: the resolver as a    *)
(* caller sees it (spec 4.5.1, 5 and laws 8.1-8.3), with no NS lookup,    *)
(* DoH, TCP/53 or system resolver in it.                                  *)
(*                                                                         *)
(*   - a request is answered once;                                        *)
(*   - the requests of a host waiting at the same time are answered by    *)
(*     one completion, with one result (single flight);                   *)
(*   - a request made while a success is still fresh is answered at once *)
(*     with it, without network I/O (cache freshness);                    *)
(*   - a success carries records, a failure carries none;                 *)
(*   - every waiting request is eventually answered.                      *)
(***************************************************************************)
EXTENDS Naturals, Sequences

CONSTANTS
    Hosts,      \* host names
    Reqs,       \* DnsRequest objects
    Results,    \* what onResolved can report: [rec, status]
    None        \* no host yet / no cached result

VARIABLES
    reqHost,    \* reqHost[r]: the host request r asked for
    answers,    \* answers[r]: the onResolved calls r received
    cache       \* cache[h]: the fresh successful result of h, or None

vars == <<reqHost, answers, cache>>

\* The requests of h still waiting for their answer.
Pending(h) == {r \in Reqs : reqHost[r] = h /\ answers[r] = <<>>}

Init ==
    /\ reqHost = [r \in Reqs |-> None]
    /\ answers = [r \in Reqs |-> <<>>]
    /\ cache = [h \in Hosts |-> None]

\* A caller asks for h; a fresh cached success answers it in the same call.
Request(r, h) ==
    /\ reqHost[r] = None
    /\ reqHost' = [reqHost EXCEPT ![r] = h]
    /\ answers' = IF cache[h] = None THEN answers
                  ELSE [answers EXCEPT ![r] = <<cache[h]>>]
    /\ UNCHANGED cache

\* A resolution of h completes: everyone waiting gets res, and a success
\* becomes the cached result.
Complete(h, res) ==
    /\ answers' = [r \in Reqs |-> IF r \in Pending(h) THEN <<res>> ELSE answers[r]]
    /\ cache' = [cache EXCEPT ![h] = IF res.status = 0 THEN res ELSE None]
    /\ UNCHANGED reqHost

\* The cached result outlives its TTL.
Expire(h) ==
    /\ cache[h] # None
    /\ cache' = [cache EXCEPT ![h] = None]
    /\ UNCHANGED <<reqHost, answers>>

Next ==
    \E h \in Hosts :
        \/ \E r \in Reqs : Request(r, h)
        \/ \E res \in Results : Complete(h, res)
        \/ Expire(h)

\* A host with waiting requests does not stay unanswered.
Answering(h) == Pending(h) # {} /\ \E res \in Results : Complete(h, res)

Spec == Init /\ [][Next]_vars /\ \A h \in Hosts : WF_vars(Answering(h))

\* The safety part alone: what every finite run must respect.
SafetySpec == Init /\ [][Next]_vars

TypeOK ==
    /\ reqHost \in [Reqs -> Hosts \cup {None}]
    /\ answers \in [Reqs -> Seq(Results)]
    /\ cache \in [Hosts -> Results \cup {None}]
=============================================================================

--------------------------- MODULE MCDnsWireFormat ---------------------------
(***************************************************************************)
(* The codec on well-formed responses.  A case is a question (name, type) *)
(* and up to two answers; the response is built the way a DNS server     *)
(* answers: the header with QR set and the answer count, the question    *)
(* copied from BuildQuery, and each answer as owner, type, class, ttl,   *)
(* rdlength and rdata, its owner often a compression pointer to the      *)
(* question name (offset 12).  What each parser must return is stated    *)
(* from the wire format (spec 4.1), not computed by the code.            *)
(***************************************************************************)
EXTENDS DnsWireFormat

\* Names: "a", "a.b".
Na == <<<<97>>>>
Nab == <<<<97>>, <<98>>>>
QNames == {Na, Nab}
QTypes == {A, NS, AAAA}

PtrToQuestion == <<192, 12>>
V6 == <<32, 1, 13, 184, 0, 0, 0, 0, 0, 0, 0, 0, 0, 0, 0, 1>>

\* Answer kinds.  owner: bytes of the owner name; rdata: the record data;
\* ns: the name an NS rdata spells ("q": the question name, by pointer).
AnswerKinds ==
    { [owner |-> PtrToQuestion, type |-> A, rdata |-> <<1, 2, 3, 4>>, ns |-> <<>>],
      [owner |-> EncodeName(Na).bytes, type |-> A, rdata |-> <<5, 6, 7, 8>>, ns |-> <<>>],
      [owner |-> PtrToQuestion, type |-> A, rdata |-> <<9, 9>>, ns |-> <<>>],
      [owner |-> PtrToQuestion, type |-> NS, rdata |-> EncodeName(Nab).bytes, ns |-> Nab],
      [owner |-> PtrToQuestion, type |-> NS, rdata |-> PtrToQuestion, ns |-> "q"],
      [owner |-> PtrToQuestion, type |-> AAAA, rdata |-> V6, ns |-> <<>>] }

Cases == [q : QNames, qtype : QTypes, answers : SeqOf(AnswerKinds, 2)]

AnswerBytes(an) ==
    an.owner \o U16(an.type) \o <<0, 1>> \o <<0, 0, 0, 60>> \o U16(Len(an.rdata)) \o an.rdata

\* The server's response to BuildQuery(q, qtype, id): flags 0x8180, rcode 0.
Response(cs) ==
    LET query == BuildQuery(cs.q, cs.qtype, 7) IN
    SubSeq(query, 1, 2) \o <<129, 128>> \o U16(1) \o U16(Len(cs.answers)) \o <<0, 0, 0, 0>>
    \o SubSeq(query, 13, Len(query))
    \o FlattenSeq([i \in 1..Len(cs.answers) |-> AnswerBytes(cs.answers[i])])

\* What parseResponse(type) must return: the rdata of every answer of that
\* type, A only with 4 bytes, AAAA only with 16, NS as the name it spells.
Wanted(cs, t) ==
    LET keep(an) == an.type = t /\ (t = A => Len(an.rdata) = 4) /\ (t = AAAA => Len(an.rdata) = 16)
        kept == SelectSeq(cs.answers, keep)
        value(an) == IF t = NS THEN (IF an.ns = "q" THEN cs.q ELSE an.ns) ELSE an.rdata
    IN  [i \in 1..Len(kept) |-> value(kept[i])]

\* What parseAddressRecords(family) must return, in answer order.
WantedAddresses(cs, family) ==
    LET keep(an) == \/ an.type = A /\ Len(an.rdata) = 4 /\ family \in {AF_UNSPEC, AF_INET}
                    \/ an.type = AAAA /\ Len(an.rdata) = 16 /\ family \in {AF_UNSPEC, AF_INET6}
        kept == SelectSeq(cs.answers, keep)
    IN  [i \in 1..Len(kept) |-> kept[i].rdata]

VARIABLE cs

Init == cs \in Cases
Next == cs' \in Cases
Spec == Init /\ [][Next]_cs

-----------------------------------------------------------------------------
\* Codec round-trip (spec 4.1 law 5): parseResponse of a server's answer
\* to buildQuery returns exactly the records of the asked type, with
\* compression pointers in owners and NS rdata followed, and reads nothing
\* past the message.
ParseResponseRoundTrip ==
    \A t \in QTypes :
        LET w == Wanted(cs, t) IN
        ParseResponse(Response(cs), t) = [ok |-> w # <<>>, results |-> w, oob |-> FALSE]

\* parseAddressRecords keeps the A and AAAA records that ai_family allows,
\* in answer order, and nothing else.
AddressRecordsRoundTrip ==
    \A fam \in {AF_UNSPEC, AF_INET, AF_INET6} :
        LET w == WantedAddresses(cs, fam) IN
        ParseAddressRecords(Response(cs), fam) = [ok |-> w # <<>>, records |-> w, oob |-> FALSE]
====

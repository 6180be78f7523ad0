---------------------- MODULE MCDnsWireFormatAdversarial ----------------------
(***************************************************************************)
(* The codec on hostile responses: a header (flags 0x8180, QDCOUNT 0 or  *)
(* 1, ANCOUNT 1 or 2), then one name from a set of well-formed and       *)
(* malformed encodings at offset 12, then the first k bytes of an A      *)
(* record's fixed part and rdata.  Truncation at every k puts the end of *)
(* the message at every field boundary after the name.                   *)
(***************************************************************************)
EXTENDS DnsWireFormat

Names ==
    { <<0>>,                   \* root
      <<1, 97, 0>>,            \* "a"
      <<2, 97, 98, 0>>,        \* "ab"
      <<1, 97>>,               \* no terminating zero label
      <<192, 12>>,             \* pointer to itself
      <<192, 14, 192, 12>>,    \* two pointers to each other
      <<192>>,                 \* pointer cut short
      <<192, 40>> }            \* pointer past the end

\* type A, class IN, ttl 60, rdlength 4, rdata 1.2.3.4
RecordTail == <<0, 1, 0, 1, 0, 0, 0, 60, 0, 4, 1, 2, 3, 4>>

Messages ==
    { <<0, 7, 129, 128>> \o U16(qd) \o U16(an) \o <<0, 0, 0, 0>> \o nm \o SubSeq(RecordTail, 1, k) :
        qd \in {0, 1}, an \in {1, 2}, nm \in Names, k \in 0..Len(RecordTail) }

(***************************************************************************)
(* Reference name decoder, as spec 4.1 states it: follow at most 10      *)
(* pointers and fail on the 11th ("hops"), fail on a label or pointer    *)
(* crossing the end or on running off the end without the zero label     *)
(* ("overrun").                                                           *)
(***************************************************************************)
RECURSIVE SpecName(_, _, _, _)
SpecName(data, pos, hops, name) ==
    LET len == Len(data)
        b == Byte(data, pos)
        fail(why) == [ok |-> FALSE, name |-> name, why |-> why]
    IN
    IF pos >= len THEN fail("overrun")
    ELSE IF b = 0 THEN [ok |-> TRUE, name |-> name, why |-> "none"]
    ELSE IF b >= 192 THEN
        IF pos + 1 >= len THEN fail("overrun")
        ELSE IF hops = 10 THEN fail("hops")
        ELSE SpecName(data, (b % 64) * 256 + Byte(data, pos + 1), hops + 1, name)
    ELSE IF pos + 1 + b > len THEN fail("overrun")
    ELSE SpecName(data, pos + 1 + b, hops, Append(name, Bytes(data, pos + 1, b)))

\* Every answer the header announces lies whole inside the message.
RECURSIVE AnswersFit(_, _, _)
AnswersFit(data, n, offset) ==
    IF n = 0 THEN TRUE
    ELSE LET d == DecodeName(data, Len(data), offset) IN
         /\ SpecName(data, offset, 0, <<>>).ok
         /\ d.offset + 10 <= Len(data)
         /\ LET rl == ReadU16(data, Len(data), d.offset + 8).v IN
            /\ d.offset + 10 + rl <= Len(data)
            /\ AnswersFit(data, n - 1, d.offset + 10 + rl)

VARIABLE msg

Init == msg \in Messages
Next == msg' \in Messages
Spec == Init /\ [][Next]_msg

-----------------------------------------------------------------------------
\* Name decoder soundness (spec 4.1 law 6 and "failure on overruns"): a
\* name whose pointers need more than 10 jumps, or that runs off the end
\* of the message without its zero label, is rejected.  decodeName leaves
\* its while loop on either condition and returns true.
NameDecodeRejectsMalformed ==
    DecodeName(msg, Len(msg), HeaderLen).ok => SpecName(msg, HeaderLen, 0, <<>>).ok

\* A truncated or malformed answer section is rejected safely (spec 4.1
\* law 7 and spec 5, "invalid messages yield parse failure"): no parse path
\* reads past len, and parseAddressRecords succeeds only when every
\* announced answer is whole.  Both hinge on the answer loops' bounds
\* checks: offset + 10 <= len is tested before the owner name is decoded,
\* and parseAddressRecords breaks out keeping what it has.
TruncatedAnswersRejected ==
    LET q == SkipQuestions(msg, Len(msg), ReadU16(msg, Len(msg), 4).v, HeaderLen) IN
    \A fam \in {AF_UNSPEC, AF_INET, AF_INET6} :
        /\ ~ParseAddressRecords(msg, fam).oob
        /\ ParseAddressRecords(msg, fam).ok => AnswersFit(msg, ReadU16(msg, Len(msg), 6).v, q.offset)
        /\ \A t \in {A, NS, AAAA} : ~ParseResponse(msg, t).oob

\* A hostile message is rejected, never half-read (spec 4.1 laws 6 and 7,
\* spec 5): its names decode only when well formed, and its answer section
\* parses only when whole and without a read past len.  Both are the same
\* promise of the codec's two layers, decodeName and the answer loops that
\* call it.
MalformedMessagesRejected == NameDecodeRejectsMalformed /\ TruncatedAnswersRejected
====

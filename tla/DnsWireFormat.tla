---------------------------- MODULE DnsWireFormat ----------------------------
(***************************************************************************)
(* The DNS message codec of src/base/net/dns/DnsWireFormat, as operators   *)
(* over byte sequences.  A message is a sequence of naturals in 0..255;    *)
(* the code's 0-based offset o is element o + 1.  Each loop of the code is *)
(* a RECURSIVE operator carrying the loop's variables.  Every read also    *)
(* reports whether it was beyond len ("oob"): the byte such a read returns *)
(* is whatever lies past the buffer, taken here as 0.                      *)
(*                                                                         *)
(* A decoded name is the sequence of its labels (each a byte sequence);   *)
(* the 255-byte buffer decodeName joins them into never fills for the     *)
(* short messages checked here.  An address is its raw rdata bytes, which *)
(* uv_inet_ntop turns into a string one-to-one.                           *)
(***************************************************************************)
EXTENDS Naturals, Sequences, SequencesExt

\* DnsWireFormat::Type
A == 1
NS == 2
CNAME == 5
AAAA == 28

\* ai_family values of DnsConfig::ai_family
AF_UNSPEC == 0
AF_INET == 2
AF_INET6 == 10

HeaderLen == 12     \* sizeof(DnsHeader)

\* data[o], or 0 past the end.
Byte(data, o) == IF o < Len(data) THEN data[o + 1] ELSE 0

\* DnsWireFormat::readU16: big-endian; oob when either byte is past len.
ReadU16(data, len, o) ==
    [v |-> Byte(data, o) * 256 + Byte(data, o + 1), oob |-> o + 1 >= len]

\* The bytes data[o .. o + n - 1].
Bytes(data, o, n) == SubSeq(data, o + 1, o + n)

(***************************************************************************)
(* DnsWireFormat::encodeName and buildQuery.  A name is a sequence of     *)
(* labels; the empty sequence is the empty String.                        *)
(***************************************************************************)
EncodeName(name) ==
    IF name = <<>> THEN [ok |-> TRUE, bytes |-> <<0>>]
    ELSE [ok |-> \A i \in 1..Len(name) : Len(name[i]) <= 63,
          bytes |-> FlattenSeq([i \in 1..Len(name) |-> <<Len(name[i])>> \o name[i]]) \o <<0>>]

U16(v) == <<v \div 256, v % 256>>

\* id is rand() in the code; a failed encodeName gives the empty query.
BuildQuery(name, type, id) ==
    LET en == EncodeName(name) IN
    IF ~en.ok THEN <<>>
    ELSE U16(id) \o <<1, 0>> \o <<0, 1>> \o <<0, 0, 0, 0, 0, 0>>
         \o en.bytes \o U16(type) \o <<0, 1>>

(***************************************************************************)
(* DnsWireFormat::decodeName: the while loop over pos with the jump       *)
(* budget.  Returns ok, the caller's new offset, the labels and oob.      *)
(***************************************************************************)
NameFail == [ok |-> FALSE, offset |-> 0, name |-> <<>>]

\* Mutant of decodeName: after a pointer the caller resumes one byte early.
RECURSIVE DecodeLoopPtrOffset(_, _, _, _, _, _, _)
DecodeLoopPtrOffset(data, len, pos, jumped, maxJumps, offset, name) ==
    LET done == [ok |-> TRUE, offset |-> IF jumped THEN offset ELSE pos + 1, name |-> name]
        labelLen == Byte(data, pos)
    IN
    IF ~(pos < len /\ maxJumps > 0) \/ labelLen = 0 THEN done
    ELSE IF labelLen >= 192 THEN
        IF pos + 1 >= len THEN NameFail
        ELSE DecodeLoopPtrOffset(data, len, (labelLen % 64) * 256 + Byte(data, pos + 1), TRUE,
                                 maxJumps - 1, IF jumped THEN offset ELSE pos + 1, name)
    ELSE IF pos + 1 + labelLen > len THEN NameFail
    ELSE DecodeLoopPtrOffset(data, len, pos + 1 + labelLen, jumped, maxJumps, offset,
                             Append(name, Bytes(data, pos + 1, labelLen)))

RECURSIVE DecodeLoop(_, _, _, _, _, _, _)
DecodeLoop(data, len, pos, jumped, maxJumps, offset, name) ==
    LET done == [ok |-> TRUE, offset |-> IF jumped THEN offset ELSE pos + 1, name |-> name]
        labelLen == Byte(data, pos)
    IN
    IF ~(pos < len /\ maxJumps > 0) \/ labelLen = 0 THEN done
    ELSE IF labelLen >= 192 THEN
        IF pos + 1 >= len THEN NameFail
        ELSE DecodeLoop(data, len, (labelLen % 64) * 256 + Byte(data, pos + 1), TRUE,
                        maxJumps - 1, IF jumped THEN offset ELSE pos + 2, name)
    ELSE IF pos + 1 + labelLen > len THEN NameFail
    ELSE DecodeLoop(data, len, pos + 1 + labelLen, jumped, maxJumps, offset,
                    Append(name, Bytes(data, pos + 1, labelLen)))

DecodeName(data, len, offset) == DecodeLoop(data, len, offset, FALSE, 10, offset, <<>>)

(***************************************************************************)
(* The question loop both parsers share: decode each name, skip type and  *)
(* class, fail when that passes len.                                      *)
(***************************************************************************)
RECURSIVE SkipQuestions(_, _, _, _)
SkipQuestions(data, len, n, offset) ==
    IF n = 0 THEN [ok |-> TRUE, offset |-> offset]
    ELSE LET d == DecodeName(data, len, offset) IN
         IF ~d.ok \/ d.offset + 4 > len THEN [ok |-> FALSE, offset |-> 0]
         ELSE SkipQuestions(data, len, n - 1, d.offset + 4)

\* An answer's owner name, then type at +0 and rdlength at +8 past it; the
\* rdata starts at +10.  Nothing re-checks len after the name.
AnswerHeader(data, len, offset) ==
    LET d == DecodeName(data, len, offset)
        atype == ReadU16(data, len, d.offset)
        rdlength == ReadU16(data, len, d.offset + 8)
    IN  [ok |-> d.ok, atype |-> atype.v, rdlength |-> rdlength.v,
         rdata |-> d.offset + 10, oob |-> d.ok /\ (atype.oob \/ rdlength.oob)]

\* What parseResponse pushes for one answer of the wanted type.
AnswerValue(data, len, type, r) ==
    IF r.atype # type THEN <<>>
    ELSE IF type \in {NS, CNAME}
         THEN LET d == DecodeName(data, len, r.rdata) IN IF d.ok THEN <<d.name>> ELSE <<>>
    ELSE IF type = A /\ r.rdlength = 4 THEN <<Bytes(data, r.rdata, 4)>>
    ELSE IF type = AAAA /\ r.rdlength = 16 THEN <<Bytes(data, r.rdata, 16)>>
    ELSE <<>>

\* The answer loop of parseResponse: any malformed answer fails the parse.
RECURSIVE ResponseAnswers(_, _, _, _, _, _, _)
ResponseAnswers(data, len, type, n, offset, results, oob) ==
    LET fail(o) == [ok |-> FALSE, results |-> <<>>, oob |-> o]
        r == AnswerHeader(data, len, offset)
    IN
    IF n = 0 THEN [ok |-> results # <<>>, results |-> results, oob |-> oob]
    ELSE IF offset + 10 > len \/ ~r.ok THEN fail(oob)
    ELSE IF r.rdata + r.rdlength > len THEN fail(oob \/ r.oob)
    ELSE ResponseAnswers(data, len, type, n - 1, r.rdata + r.rdlength,
                         results \o AnswerValue(data, len, type, r), oob \/ r.oob)

\* The header checks both parsers share; rcode is the low nibble of flags.
HeaderOk(data) == Len(data) >= HeaderLen /\ ReadU16(data, Len(data), 2).v % 16 = 0

\* DnsWireFormat::parseResponse(data, len, results, type)
ParseResponse(data, type) ==
    LET len == Len(data)
        q == SkipQuestions(data, len, ReadU16(data, len, 4).v, HeaderLen)
    IN  IF ~HeaderOk(data) \/ ~q.ok THEN [ok |-> FALSE, results |-> <<>>, oob |-> FALSE]
        ELSE ResponseAnswers(data, len, type, ReadU16(data, len, 6).v, q.offset, <<>>, FALSE)

\* Mutant of the family filter of parseAddressRecords: ai_family ignored.
AcceptsAnyFamily(family, atype, rdlength) ==
    (atype = A /\ rdlength = 4) \/ (atype = AAAA /\ rdlength = 16)

\* The address records parseAddressRecords keeps for ai_family.
Accepts(family, atype, rdlength) ==
    \/ atype = A /\ rdlength = 4 /\ family \in {AF_UNSPEC, AF_INET}
    \/ atype = AAAA /\ rdlength = 16 /\ family \in {AF_UNSPEC, AF_INET6}

\* The answer loop of parseAddressRecords: a malformed answer ends the loop
\* (break) and keeps the records collected so far.
RECURSIVE AddressAnswers(_, _, _, _, _, _, _)
AddressAnswers(data, len, family, n, offset, records, oob) ==
    LET stop(o) == [ok |-> records # <<>>, records |-> records, oob |-> o]
        r == AnswerHeader(data, len, offset)
    IN
    IF n = 0 \/ offset + 10 > len \/ ~r.ok THEN stop(oob)
    ELSE IF r.rdata + r.rdlength > len THEN stop(oob \/ r.oob)
    ELSE AddressAnswers(data, len, family, n - 1, r.rdata + r.rdlength,
                        IF Accepts(family, r.atype, r.rdlength)
                        THEN Append(records, Bytes(data, r.rdata, r.rdlength))
                        ELSE records,
                        oob \/ r.oob)

\* DnsWireFormat::parseAddressRecords(data, len, records, ai_family)
ParseAddressRecords(data, family) ==
    LET len == Len(data)
        q == SkipQuestions(data, len, ReadU16(data, len, 4).v, HeaderLen)
    IN  IF ~HeaderOk(data) \/ ~q.ok THEN [ok |-> FALSE, records |-> <<>>, oob |-> FALSE]
        ELSE AddressAnswers(data, len, family, ReadU16(data, len, 6).v, q.offset, <<>>, FALSE)
====

----------------------------- MODULE DomainUtils -----------------------------
(***************************************************************************)
(* src/base/net/dns/DomainUtils.cpp.  A host name is handled as the list  *)
(* of its dot-separated labels, the parts String::split('.') returns, and *)
(* a base domain as the labels snprintf("%s.%s") joins.  Whether the host *)
(* is an IP literal (isIpAddress, uv_inet_pton) is an input: the backends *)
(* modelled here are only created for names (Dns::resolve).               *)
(***************************************************************************)
EXTENDS Naturals, Sequences

\* DomainUtils::extractBaseDomain: an empty host, an IP literal or a name of
\* at most two labels is its own base domain; otherwise the last two labels.
ExtractBaseDomain(labels, isIp) ==
    IF labels = <<>> \/ isIp \/ Len(labels) <= 2 THEN labels
    ELSE SubSeq(labels, Len(labels) - 1, Len(labels))
=============================================================================

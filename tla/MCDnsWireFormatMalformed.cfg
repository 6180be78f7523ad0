\* Hostile messages: QDCOUNT 0 or 1, ANCOUNT 1 or 2, eight name encodings, the record cut at every length.
SPECIFICATION Spec
INVARIANT MalformedMessagesRejected

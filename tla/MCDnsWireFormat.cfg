\* Questions "a" and "a.b" of type A, NS or AAAA, each with up to two answers from six kinds (pointer and literal owners, a short A record, NS by name and by pointer, AAAA).
SPECIFICATION Spec
INVARIANT ParseResponseRoundTrip
INVARIANT AddressRecordsRoundTrip

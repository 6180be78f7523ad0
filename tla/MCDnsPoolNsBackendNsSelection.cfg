\* The NS server a step reads: the index after tryNextNs and the IP startPoolQueryTcp connects to.
CONSTANTS
    Hosts = {h1}
    h1 = h1
    h2 = h2
    d1 = d1
    d2 = d2
    None = None
    BaseOf <- MCBaseOf
    Encodable <- MCEncodable

    MaxNs = 2
    MaxRequests = 1
    Ttl <- MCTtl
    Ages = {0, 30001}
SPECIFICATION Spec
CHECK_DEADLOCK FALSE
INVARIANT NsSelectionConsistent

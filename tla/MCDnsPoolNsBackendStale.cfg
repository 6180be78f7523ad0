\* A late DoH answer of an abandoned step is taken for the answer of the current step.
CONSTANTS
    Hosts = {h1}
    h1 = h1
    h2 = h2
    d1 = d1
    d2 = d2
    None = None
    BaseOf <- MCBaseOf
    Encodable <- MCEncodable

    MaxNs = 2
    MaxRequests = 1
    Ttl <- MCTtl
    Ages = {0, 30001}
SPECIFICATION Spec
CHECK_DEADLOCK FALSE
INVARIANT RecordsAreForHost

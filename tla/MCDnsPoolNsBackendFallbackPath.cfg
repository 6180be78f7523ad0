\* Where the backend falls back to the system resolver, and how it leaves that fallback.
CONSTANTS
    Hosts = {h1}
    h1 = h1
    h2 = h2
    d1 = d1
    d2 = d2
    None = None
    BaseOf <- MCBaseOf
    Encodable <- MCEncodable

    MaxNs = 2
    MaxRequests = 1
    Ttl <- MCTtl
    Ages = {0, 30001}
SPECIFICATION Spec
CHECK_DEADLOCK FALSE
PROPERTY SystemFallbackAsSpecified

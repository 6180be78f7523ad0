\* Two pool hosts on different base domains, one request each or two for one host: the recursion guard across backends (spec 8.4), with at most two DoH fetches in flight.
CONSTANTS
    Hosts = {h1, h2}
    h1 = h1
    h2 = h2
    d1 = d1
    d2 = d2
    None = None
    BaseOf <- MCBaseOf
    Encodable <- MCEncodable

    MaxNs = 1
    MaxRequests = 2
    Ttl <- MCTtl
    Ages = {0, 30001}
SPECIFICATION Spec
CHECK_DEADLOCK FALSE
CONSTRAINT InFlightBound
PROPERTY RefinesResolverSafety
INVARIANT GuardAccounting

\* One pool host with one NS server; two requests, so a second resolve() can join a cycle in flight, hit the cache (at the TTL boundary, now - m_ts = ttl, and past it), or start a new cycle while answers of the old one are still in flight.
CONSTANTS
    Hosts = {h1}
    h1 = h1
    h2 = h2
    d1 = d1
    d2 = d2
    None = None
    BaseOf <- MCBaseOf
    Encodable <- MCEncodable

    MaxNs = 1
    MaxRequests = 2
    Ttl <- MCTtl
    Ages = {0, 30000, 30001}
SPECIFICATION Spec
CHECK_DEADLOCK FALSE
INVARIANT TypeOK
PROPERTY RefinesResolverSafety
INVARIANT GuardAccounting

\* One fetch: two statuses, two DATA payloads, at most two DATA frames on
\* our stream, at most two TLS records per read().
CONSTANTS
    Statuses = {200, 503}
    MaxRecords = 2
    Chunks = {"x", "y"}
    MaxData = 2
SPECIFICATION Spec
INVARIANT ResponseFromOwnStream
CHECK_DEADLOCK FALSE

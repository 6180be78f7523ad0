CONSTANTS
    Statuses = {200, 503}
    MaxRecords = 2
    Chunks = {"x"}
    MaxData = 1
SPECIFICATION Spec
INVARIANT AtMostOnceDelivery
CHECK_DEADLOCK FALSE

\* One client; the server's length prefix is either shorter than a DNS header or a 12-byte message.
CONSTANTS
    FrameLens = {3, 12}
SPECIFICATION Spec
CHECK_DEADLOCK FALSE
INVARIANT TypeOK
INVARIANT SuccessOnlyOnWholeFrame
PROPERTY ClientFinishes
PROPERTY HandlesReleased

SPECIFICATION Spec
CONSTANTS
    Requests = {close1, close2}
    Processes = {daemon, cli}
    NoRequest = NoRequest
    Quantity = 2
    MaxFaults = 0
INVARIANT
    FailedCloseReleased
CHECK_DEADLOCK FALSE

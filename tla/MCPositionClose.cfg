SPECIFICATION FairSpec
CONSTANTS
    Requests = {close1, close2}
    Processes = {daemon, cli}
    NoRequest = NoRequest
    Quantity = 2
    MaxFaults = 1
INVARIANTS
    SellsCovered
    CloseIsTrue
PROPERTY
    FilledCloseAccounted
CHECK_DEADLOCK FALSE

\* Two notices, two consumers, two attempts, one operator retry, one fault; an order of
\* quantity 2 with up to three versions, some with equal timestamps.
SPECIFICATION StoreSpec
CONSTANTS
    Notices = {n1, n2}
    Consumers = {c1, c2}
    NoOne = NoOne
    MaxAttempts = 2
    MaxRequeues = 1
    MaxFaults = 1
    Quantity = 2
    MaxVersions = 3
\* Every notice may end delivered or dead with its retries used.
CHECK_DEADLOCK FALSE
INVARIANTS
    ProjectionIsTrue
PROPERTIES
    ClaimsHold
    NoticesSettle
    NeverRollsBack
    DeadEntryReleased

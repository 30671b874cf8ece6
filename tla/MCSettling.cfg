\* Two cards and one dispatching task that may crash or lose its lease twice; one cancelling
\* process with two faults.
SPECIFICATION SettlingSpec
CONSTANTS
    s1 = s1
    s2 = s2
    w1 = w1
    r1 = r1
    NoOne = NoOne
    Signals = {s1, s2}
    Workers = {w1}
    Recoverers = {r1}
    MaxFaults = 2
    Processes = {daemon}
PROPERTIES
    EntriesSettle
    CancelSettles
\* A cancellation that is settled has nothing left to do.
CHECK_DEADLOCK FALSE

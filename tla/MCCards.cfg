\* A card and the slot of its replacement, one tapping client and the sweep, one fault.  Scans: one
\* scheduled scan and two background scans of a configured and a screened name.  The capture of five
\* dates with one filing, one failed request and one restart.
SPECIFICATION CardsSpec
CONSTANTS
    Cards = {c1, c2}
    Scanned = {c1}
    Clients = {t1}
    Sweep = sweep
    NoCard = NoCard
    MaxFaults = 1
    configured = configured
    screened = screened
    NoSetup = NoSetup
\* Every card may have ended, and the bounds are used up.
CHECK_DEADLOCK FALSE
INVARIANTS
    OneEntryPerThesis
    FollowUpIsTrue
PROPERTIES
    VetoKept
    CardEnds
    RequestAnswered
    CaptureCatchesUp

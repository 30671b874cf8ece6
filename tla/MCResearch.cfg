\* Registry: three versions, one probe slot, one position.  Daily campaign: two sessions, one
\* comparison.  Pooled campaigns: two processes and three starts.  Session decisions: two
\* processes, one claim a poll, four polls.  Budget: two studies and a diagnostic or a test over
\* three days.
SPECIFICATION ResearchSpec
CONSTANTS
    a1 = a1
    b1 = b1
    c1 = c1
    x = x
    Versions <- MCVersions
    Catalog <- MCCatalog
    AlphaOf <- MCAlphaOf
    SymbolsOf <- MCSymbolsOf
    MaxProbes = 1
    MaxTerm = 1
    KillR <- MCKillR
    Results <- MCResults
    MaxClock = 2
    MaxEntries = 1
    Sessions <- MCSessions
    NativeClose <- MCClose
    Available <- MCClose
    Expires <- MCExpires
    OutcomeFrom <- MCOutcomeFrom
    OutcomeUntil <- MCOutcomeUntil
    Comparisons = {"k"}
    LastTime = 4
    Campaigns <- MCCampaigns
    Proposals <- MCProposals
    Frozen <- MCFrozen
    Windows <- MCWindows
    Runs = {p1, p2}
    Budget = 2
    MaxStarts = 3
    Bars <- MCBars
    SessionOf <- MCSessionOf
    AvailableAt <- MCAvailableAt
    ExpiresAt <- MCExpiresAt
    Dates <- MCDates
    Midnight <- MCMidnight
    DateOf <- MCDateOf
    HistoryDays = 2
    Limit = 1
    Services = {p1, p2}
    MaxGeneration = 1
    MaxPolls = 4
    LastInstant = 4
    Days <- MCDays
    Studies = {p1, p2}
    Diagnostics = {g1}
    Tests = {h1}
    Allowance = 2
\* Every lane may come to rest at its bounds.
CHECK_DEADLOCK FALSE
SYMMETRY MCSymmetry
INVARIANTS
    OneOwner
    CampaignSound
    LaneSound
PROPERTIES
    DecisionsSound
    HoldoutUnseen

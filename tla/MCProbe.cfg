\* Two positions of one probe: one that reaches the kill rule, one that closes after it.
SPECIFICATION Spec
CONSTANTS
    alpha = alpha
    Versions <- MCVersions
    Catalog = {}
    AlphaOf <- MCAlphaOf
    SymbolsOf <- MCSymbolsOf
    MaxProbes = 1
    MaxTerm = 2
    KillR <- MCKillR
    Results <- MCResults
    MaxClock = 1
    MaxEntries = 2
INVARIANT
    KillIsSticky
CHECK_DEADLOCK FALSE

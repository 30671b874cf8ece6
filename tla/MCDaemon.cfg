\* A cancelling daemon and command-line process with two faults.  Scans: a configured contract, a
\* screened name and an insider event on the configured contract; two scans over two dates and
\* one background scan, every allowance one card.  The insider watch: five dates, of which EDGAR is
\* closed on the first and the third is a weekend; two filings, two releases, one fault and one
\* restart.
SPECIFICATION DaemonSpec
CONSTANTS
    Processes = {daemon, cli}
    MaxFaults = 2
    configured = configured
    screened = screened
    insider = insider
    NoSetup = NoSetup
    Natives = {configured}
    Dynamics = {screened}
    Events = {insider}
    Watch = {insider}
    Carried = {configured}
    Dynamic = "dynamic"
    SourceOf <- EventSource
    ContractOf <- SetupContract
    GroupsOf <- SetupGroups
    MaxPerScan = 1
    MaxPerSession = 1
    MaxPerGroup = 1
    MaxPerSource = 1
    MaxLLM = 2
    DayLength = 1
    DedupTime = 0
    MaxClock = 1
    MaxScans = 2
    MaxRequests = 1
    MaxReprices = 1
    MaxMoves = 2
    Business = {1, 2, 4, 5}
    Closed = {1}
    Sessions = {2, 4, 5}
    Documents = {"b1", "b2"}
    FiledOn <- FilingDate
    IssuerOf <- FilingIssuer
    Unreadable = {}
    Builds = {"r1", "r2"}
    First = "r1"
    ScopeOf <- Cohort
    ArchiveThrough <- LastArchived
    BackfillFrom = 1
    Span = 2
    LastDay = 5
    MaxRequestFaults = 1
    MaxRestarts = 1
SYMMETRY Symmetry
INVARIANTS
    OneCancel
    SettledIsTrue
    CardsRationed
    ScanAccounted
    OneLiveCard
    WatchComplete
\* A settled cancellation has nothing left to do, and the scans' bounds are used up.
CHECK_DEADLOCK FALSE

\* The ledger: two importers, four activities, two changes at the broker and two imports or
\* rebuilds.  Incidents: one check over two alert windows and the quiet period between them.
\* Release exit: two processes and a restart.  Trailing stop: three stop orders, prices in half
\* cents.  Reads: two callers, two providers, two threads, three reads.
SPECIFICATION DeskSpec
CONSTANTS
    deposit = deposit
    journalled = journalled
    fill = fill
    fee = fee
    Activities <- MCActivities
    Kind <- MCKind
    Amount <- MCAmount
    Revised <- MCRevised
    Opening <- MCOpening
    Accounts = {acctA, acctB}
    NoAccount = NoAccount
    Marks = {0, 1}
    Importers = {p1, p2}
    MaxChanges = 2
    MaxBegins = 2
    MaxAge = 1
    Components = {feed}
    FailureTime = 1
    RecoveryTime = 1
    ReminderTime = 2
    AlertLength = 3
    DayLength = 6
    MaxTime = 7
    MaxSummaryFailures = 1
    Positions = {n1}
    Native = {n1}
    Daemons = {p1, p2}
    MaxRestarts = 1
    Prices <- MCPrices
    EntryPrice = 8
    InitialStop = 5
    BreakevenTrigger = 2
    BreakevenBuffer = 1
    TrailTrigger = 3
    TrailDistance = 3
    TrailStep = 1
    MaxStops = 3
    Providers <- MCProviders
    Callers = {p1, p2}
    Workers = 2
    MaxRetries = 1
    MaxReads = 3
\* Every service may come to rest at its bounds.
CHECK_DEADLOCK FALSE
SYMMETRY MCSymmetry
INVARIANTS
    DrawdownIsTrading
    OperatorTold
    ReleaseAccounted
    ReadsBounded
PROPERTIES
    EvidenceNeverOlder
    RiskHistoryKept
    ProtectionRatchets

CONSTANTS
    Cards = {c1}
    Scanned = {c1}
    Clients = {t1}
    Sweep = sweep
    NoCard = NoCard
    MaxFaults = 1
SPECIFICATION FairSpec
PROPERTIES
    ExpiredCardStruck
CHECK_DEADLOCK FALSE

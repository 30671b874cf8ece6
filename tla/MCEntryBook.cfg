\* The queue: two cards, two dispatching tasks, one recoverer, two faults (a crash, or a lease
\* that lapses under its worker).  The book: the two cards, of one symbol, and a third.
SPECIFICATION EntriesSpec
CONSTANTS
    s1 = s1
    s2 = s2
    w1 = w1
    w2 = w2
    r1 = r1
    NoOne = NoOne
    Signals = {s1, s2}
    Workers = {w1, w2}
    Recoverers = {r1}
    MaxFaults = 2
    other = other
SYMMETRY Sym
INVARIANTS
    OnePostPerEntry
    ExposureIsReserved
    HaltBoundsPosts
PROPERTIES
    PostsInQueueOrder
    ReservationPromise
    BookAdmitted

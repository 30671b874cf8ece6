\* The halt against a concurrent resume: one dispatching task, no faults needed.
SPECIFICATION Spec
CONSTANTS
    s1 = s1
    s2 = s2
    w1 = w1
    r1 = r1
    NoOne = NoOne
    Signals = {s1, s2}
    Workers = {w1}
    Recoverers = {r1}
    MaxFaults = 0
SYMMETRY Sym
INVARIANT UnknownKeepsHalt

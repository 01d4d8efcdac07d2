SPECIFICATION Spec
CONSTANTS
    Procs = {p1, p2}
    Pids = {i1, i2, i3}
    Events <- MCEvents
    MaxSeq = 2
    MaxDamage = 1
    Genesis = Genesis
    Original = Original
    NoPid = NoPid
SYMMETRY Symmetry
INVARIANTS LogNeverForks JournalReopens
PROPERTY OpenedIsAuthentic

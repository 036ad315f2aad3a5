SPECIFICATION Spec
CONSTANTS
    Titles = {t1}
    Submitters = {s1}
    Ids = {i1, i2}
    Jobs = {j1, j2}
    ClientFaults = FALSE
    Foreign = FALSE
    Restarts = FALSE
    None = None
    r1 = r1
    r2 = r2
    Intents <- MC_GrabOrSwap
SYMMETRY Symmetry
INVARIANTS UnresolvedAcceptanceBlocks

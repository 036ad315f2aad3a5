\* One title, three attempts that grab or replace, a client that fails at times,
\* restarts.
SPECIFICATION Spec
CONSTANTS
    Titles = {t1}
    Submitters = {s1, s2}
    Ids = {i1, i2, i3}
    Jobs = {j1, j2}
    ClientFaults = TRUE
    Foreign = FALSE
    Restarts = TRUE
    None = None
    r1 = r1
    r2 = r2
    Intents <- MC_GrabOrSwap
SYMMETRY Symmetry
INVARIANTS IInv JobIsTracked DoubleGrabWasBlind ClaimFencesTitle

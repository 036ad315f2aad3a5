\* Attempts on one title, a client that may already hold the release, restarts,
\* and the fairness of the pollers.
SPECIFICATION FairSpec
CONSTANTS
    Titles = {t1}
    Submitters = {s1}
    Ids = {i1, i2}
    Jobs = {j1}
    ClientFaults = TRUE
    Foreign = TRUE
    Restarts = TRUE
    None = None
    r1 = r1
    r2 = r2
    Intents <- MC_GrabOrSwap
INVARIANTS OneDownloadPerJob
PROPERTIES IntentsResolve

\* Two titles that want one release share the cached listing of the queue.
SPECIFICATION Spec
CONSTANTS
    Titles = {t1, t2}
    Submitters = {s1, s2}
    Ids = {i1, i2, i3}
    Jobs = {j1, j2}
    ClientFaults = FALSE
    Foreign = FALSE
    Restarts = FALSE
    None = None
    r1 = r1
    r2 = r2
    Intents <- MC_GrabSame
SYMMETRY Symmetry
INVARIANTS CachedListingCoversGrabs
PROPERTIES ImplementsGrabs

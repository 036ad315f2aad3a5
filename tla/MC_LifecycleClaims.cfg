\* One request and everything that can happen to its lease over two days.
SPECIFICATION FairSpec
CONSTANTS
    Requests = {1}
    Closable = {1}
    Titles = {t1, t2}
    Durations = {1}
    SweepLimit = 1
    OrphanLimit = 1
    MaxTime = 2
    None = None
INVARIANTS IInv LeaseLastsAsGranted
PROPERTIES ClockStartsOnce ExtensionIsKept OverIsFinal LeaseStarts LeaseExpires OrphansReleased

\* One request that is approved and dismissed at the same time.
SPECIFICATION Spec
CONSTANTS
    Requests = {1}
    Closable = {1}
    Titles = {t1, t2}
    Durations = {1}
    SweepLimit = 1
    OrphanLimit = 1
    MaxTime = 1
    None = None
PROPERTIES DismissalSparesApproved

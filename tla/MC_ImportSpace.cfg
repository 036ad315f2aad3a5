\* Two files of one client job, two volumes, an item id used twice, reports that
\* are lost or late.
SPECIFICATION FairSpec
CONSTANTS
    Files = {f1, f2}
    Jobs = {j1}
    JobOf <- MC_JobOf
    Dests = {a, b}
    Ids = {d1, d2}
    MaxInFlight = 2
    MaxEvents = 3
    None = None
INVARIANTS IInv
PROPERTIES SparesOtherDownloads OneAlertPerIncident RecoveryIsObserved ImplementsLog DeadMembersCleared

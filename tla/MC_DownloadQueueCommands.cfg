SPECIFICATION Spec
CONSTANTS
  d1 = d1
  d2 = d2
  Ids = {d1, d2}
  k1 = k1
  k2 = k2
  Items = {k1}
  MaxCommands = 1
  MaxRequests = 1
  MaxRetries = 0
  MaxListed = 1
  Orphans = {d1}
  Tagging = {TRUE, FALSE}
  Places = {"queue"}
  Outcomes = {}
  Protected = {}
  Foreign = TRUE
  MaxPurges = 0
  Faults = TRUE
  Restarts = TRUE
  None = None
INVARIANTS IInv OneHolderPerItem
PROPERTIES DeletedStaysDeleted ImplementsIdentity

SPECIFICATION Spec
CONSTANTS
  d1 = d1
  d2 = d2
  Ids = {d1, d2}
  k1 = k1
  k2 = k2
  Items = {k1, k2}
  MaxCommands = 1
  MaxRequests = 0
  MaxRetries = 1
  MaxListed = 0
  Orphans = {}
  Tagging = {TRUE}
  Places = {"queue"}
  Outcomes = {}
  Protected = {d1}
  Foreign = FALSE
  MaxPurges = 1
  Faults = FALSE
  Restarts = FALSE
  None = None
SYMMETRY Symmetry
INVARIANT CompletedDeleteIsOver
PROPERTY ImplementsIdentity

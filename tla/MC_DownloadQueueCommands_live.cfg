SPECIFICATION LiveSpec
CONSTANTS
  d1 = d1
  d2 = d2
  Ids = {d1}
  k1 = k1
  k2 = k2
  Items = {k1}
  MaxCommands = 1
  MaxRequests = 1
  MaxRetries = 0
  MaxListed = 1
  Orphans = {}
  Tagging = {TRUE}
  Places = {"queue", "history"}
  Outcomes = {"kept"}
  Protected = {}
  Foreign = FALSE
  MaxPurges = 0
  Faults = TRUE
  Restarts = TRUE
  None = None
PROPERTY DeletesComplete

\* Three events, two targets that may refuse, two attempts, one stop.
\* The system may stop: all events are delivered and no more will come.
SPECIFICATION FairSpec
CONSTANTS
    Dests = {a}
    Targets = {x, y}
    BatchLimit = 2
    MaxAttempts = 2
    MaxEvents = 3
    MaxStops = 1
    None = None
INVARIANTS IInv RepeatsAreLostReceipts
PROPERTIES InOrder EveryEventPasses
CHECK_DEADLOCK FALSE

SPECIFICATION FairSpec
CONSTANTS
    Workers = {w1, w2, w3}
    Jobs = {j1, j2, j3, j4}
    NoJob = NoJob
INVARIANTS
    DestroyDrains
    FenceMeansDone
PROPERTIES
    EveryJobSignals
    DestroyReturns
    ImplementsService
CHECK_DEADLOCK FALSE

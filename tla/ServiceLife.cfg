SPECIFICATION LifeSpec
CONSTANTS
    Record = {a, b}
    Worker = {w1, w2}
    NoRecord = NoRecord
    Capacity = 1
    Failures = TRUE
    MaxCrash = 2
INVARIANTS OnePlace ServingHasSchema SchemaSettles
PROPERTIES RowsSurvive LoggingNeverBlocks QueuedIsStored
CHECK_DEADLOCK FALSE

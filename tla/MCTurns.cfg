SPECIFICATION Spec
CONSTANTS
    None = None
    Turns = 2
    Field = {"search", "draft"}
    MaxFaults = 1
    Threshold = 0
    MaxEvents = 3
INVARIANTS TypeOK CopyIsFresh LoopBounded
PROPERTIES LossNeedsOverlap EveryTurnEnds
CHECK_DEADLOCK FALSE

SPECIFICATION Spec
CONSTANTS
    FullShuffle = 4
    MaxEdits = 3
INVARIANTS
    OnlyMeaningMoves
    Grounded
    NothingStale
    ReceiptsHold
    
CHECK_DEADLOCK FALSE

\* Three invocations take the same candidate; any may be interrupted or killed at any point.
SPECIFICATION FairSpec
CONSTANTS
    p1 = p1
    p2 = p2
    p3 = p3
    NoOne = NoOne
    Procs = {p1, p2, p3}
    Arms = {"evolve"}
    Evolve = "evolve"
    ArmLists <- EvolveOnly
    Scores = {1}
    Epoch = 1
    MaxIndex = 1
    Interrupts = TRUE
    LateInterrupts = TRUE
    HardKills = TRUE
INVARIANTS EvidenceChain PromotedOnce
PROPERTIES AttemptsSettle
CHECK_DEADLOCK FALSE

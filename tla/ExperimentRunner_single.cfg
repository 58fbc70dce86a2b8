\* One invocation at a time, of both arms, stopped in every way, then invoked again.
SPECIFICATION Spec
CONSTANTS
    p1 = p1
    NoOne = NoOne
    Procs = {p1}
    Arms = {"greedy", "evolve"}
    Evolve = "evolve"
    ArmLists <- BothArms
    Scores = {0, 1}
    Epoch = 2
    MaxIndex = 2
    Interrupts = TRUE
    LateInterrupts = TRUE
    HardKills = TRUE
INVARIANTS LineageSound
 
CHECK_DEADLOCK FALSE

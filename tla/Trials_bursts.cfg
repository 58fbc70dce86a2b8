\* Every trial of seven steps, restored once from any snapshot.
SPECIFICATION TrialsSpec
CONSTANTS
    origin = origin
    near = near
    far = far
    broken = broken
    Infeasible = Infeasible
    None = None
    Points = {origin, near, far, broken}
    Origin = origin
    Score <- Scores
    Niche <- TwoNiches
    Costs <- TwoCosts
    Draws <- SomeDraws
    Budget = 7
    QdLimit = 3
    Window = 2
    BestStall = 3
    QdStall = 4
    MaxBurst = 2
    EarlyEnd = 1
    Cooldown = 2
    MaxRestores = 1
    Ar0Dimension = 4
    MaxOnes = 2
    Ar1Targets <- TwoTargets
    Ar2Targets <- SixBits
    Rotations = {1}
    Flips = {1, 3, 4}
    Cuts = {2}
    Radicals <- FewRadicals
    StepsOf <- FewSteps
    Ln <- Logarithms
INVARIANTS  BurstsApart RestoredRepeats SearchAccounted
CHECK_DEADLOCK FALSE

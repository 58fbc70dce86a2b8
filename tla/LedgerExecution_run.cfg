\* Every file under every hash onto five addresses, replayed against every claim.
SPECIFICATION FairRunSpec
CONSTANTS
    Programs <- Files
    Addresses = {0, 1, 2, 3, 4}
    MaxInt = 3
    LitValue <- Texts
INVARIANTS NoSilentMerge BuildVerdict
INVARIANTS RunMatchesSource EvaluationProceeds ReplayVerdict
PROPERTIES RunEnds
CHECK_DEADLOCK FALSE

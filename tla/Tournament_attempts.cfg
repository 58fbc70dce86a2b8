\* Attempts are set aside, some of their rows kept, and any call may die before its row.
SPECIFICATION Spec
CONSTANTS
    luna = luna
    gemini = gemini
    canaryGemini = canaryGemini
    Board = Board
    Reviewers <- TwoReviewers
    Canaries <- OneCanary
    Worst <- UnitCosts
    Overrun = 1
    TournamentCap = 2
    BoardCap = 1
    GlobalCap = 3
    Reserve = 1
    Kills = TRUE
    MaxCalls = 3
    MaxArchives = 1
    MaxBoards = 1
PROPERTIES BoardWithinGlobal
CHECK_DEADLOCK FALSE

\* Killed anywhere up to three times, resumed up to four.
SPECIFICATION FairSpec
CONSTANTS
    Trials = 3
    Budget = 3
    MaxResumes = 4
    MaxKills = 3
INVARIANTS RowsFollowSchedule GatePassed CompletedIsWhole EditsCaught
PROPERTIES ResumeCompletes
CHECK_DEADLOCK FALSE

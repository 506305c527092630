\* Any reports on a task, two restarts, everybody runs.
SPECIFICATION FairSpec
CONSTANTS
    Task = {t1}
    Late = TRUE
    MaxReports = 4
    MaxRestarts = 2
CHECK_DEADLOCK FALSE
INVARIANTS OwnIsWatched NilIsUnknown EndIsTold
PROPERTIES OwnLeaves

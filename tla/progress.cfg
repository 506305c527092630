\* One actor at a time; the server restarts once, anywhere.
SPECIFICATION Spec
CONSTANTS
    f1 = f1  f2 = f2
    File = {f1, f2}
    NumSegs <- NumSegsOf
    Handler = {h1}
    Observer = observer
    Serial = TRUE
    Repeats = FALSE
    MaxLoads = 5
    MaxReports = 6
    MaxCreates = 1
    MaxRestarts = 1
CHECK_DEADLOCK FALSE
INVARIANTS DoneIsComplete CacheIsExact AllDoneIsFinished NotifiedOnce
PROPERTIES FinishIsDeserved DoneIsNotPaused ProgressIsKept

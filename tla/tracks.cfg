\* One http handler at a time, two receivers, no overlap.
SPECIFICATION FairSpec
CONSTANTS
    p1 = p1  owner = owner
    Uid = {owner, u1, u2}
    Pid = {p1}
    Owner <- OwnerOf
    Empty = {}
    Handler = {h1}
    NoJob = NoJob
    Overlap = FALSE
    MaxReports = 3
INVARIANTS  TrackedExists DownloadIsMonitored
PROPERTIES FinishedLeaves
CHECK_DEADLOCK FALSE

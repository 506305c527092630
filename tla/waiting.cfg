\* Two connections of a node, a goroutine that works with nodes, one answer each.
SPECIFICATION Spec
CONSTANTS
    Conn = {c1, c2}
    First = c1
    Actor = {a1}
    Routine = routine
    NoConn = none
    Free = free
    Lost = lost
    MaxCopies = 1
CHECK_DEADLOCK FALSE
INVARIANT NobodyWaitsInACircle
PROPERTY ActivitiesEnd
PROPERTY ReadersGoOn

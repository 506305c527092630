\* One node with two connections, relogins, and a handler that edits zones.
SPECIFICATION Spec
CONSTANTS
    c1 = c1  c2 = c2  c3 = c3  n1 = n1  n2 = n2
    Conn = {c1, c2}
    Nid = {n1}
    NidOf <- Pair
    Zone = {z1, z2}
    Admin = {a1}
    NoConn = NoConn  NoZone = NoZone  Free = Free
    MaxLogins = 2
    MaxZoneEdits = 1
INVARIANTS OnlineIsSchedulable OnlineIsInItsZone DoneIsOffline CrashedIsOffline WedgeHasReason
CHECK_DEADLOCK FALSE

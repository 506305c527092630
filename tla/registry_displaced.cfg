\* Two connections of one node; the first is displaced.
SPECIFICATION Spec
CONSTANTS
    c1 = c1  c2 = c2  c3 = c3  n1 = n1  n2 = n2
    Conn = {c1, c2}
    Nid = {n1}
    NidOf <- Pair
    Zone = {}
    Admin = {}
    NoConn = NoConn  NoZone = NoZone  Free = Free
    MaxLogins = 1
    MaxZoneEdits = 0
INVARIANTS DoneIsNotScheduled
CHECK_DEADLOCK FALSE

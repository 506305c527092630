\* Both ways to delete, two requests at a time, a transfer, a restart.
SPECIFICATION RemovalFairSpec
CONSTANTS
    File = {f1, f2}
    Empty = {f2}
    Owner = owner
    User = {u1}
    Remover = {r1, r2}
    Kinds = {"one", "bulk"}
    MaxTransfers = 1
    MaxRemovals = 2
    MaxTroubles = 1
CHECK_DEADLOCK FALSE
INVARIANTS LeftIsMissed FreedHasNoReceiver
PROPERTIES MarkedIsFreed

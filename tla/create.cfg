\* Two requests at once, of one second or two, and new configurations.
SPECIFICATION FairSpec
CONSTANTS
    Uid = {u1, u2}
    Handler = {h1, h2}
    Word = 32
    Conf <- Confs
    Sizes <- SomeSizes
    NumFiles = {2, 3}
    MaxFiles = 2
    None = None
    MaxTime = 1
    MaxCreations = 2
    MaxRestarts = 1
CHECK_DEADLOCK FALSE
INVARIANTS OneConfiguration EveryByteOnce AtMostMaxSegNum ReceiversHaveSender
PROPERTIES PkgsStay RequestsEnd

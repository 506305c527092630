\* Restricted by file; two requests at once, nodes of one storage, a restart.
SPECIFICATION Spec
CONSTANTS
    f1 = f1  f2 = f2  p1 = p1  n1 = n1  n2 = n2  n3 = n3  disk = disk  nas = nas
    File = {f1, f2}
    Pid = {p1}
    PidOf <- OnePackage
    Node = {n1, n2, n3}
    Place = {disk, nas}
    PlaceOf <- Places
    Mode = "fid"
    Handler = {h1, h2}
    NoNode = NoNode  NoPlace = NoPlace
    MaxRequests = 3
    MaxRestarts = 1
CHECK_DEADLOCK FALSE
INVARIANTS StorageHoldsAll StorageHoldsSome

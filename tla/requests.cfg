\* Two calls, a login that displaces the connection, answers sent twice.
SPECIFICATION FairSpec
CONSTANTS
    Req = {r1, r2}
    Displacer = {d1}
    Reader = Reader  NoReq = NoReq
    MaxSeq = 3
    MaxCopies = 2
INVARIANTS EntryIsFound
PROPERTIES ImplementsSyncCalls EveryCallReturns
CHECK_DEADLOCK FALSE

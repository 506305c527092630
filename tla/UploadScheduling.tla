-------------------------- MODULE UploadScheduling --------------------------
(***************************************************************************)
(* To which transfer node the segments of a file are uploaded: the http    *)
(* handlers of upload requests (transfer.go, processUpload), the scheduler *)
(* they ask (default_scheduler.go, restrict.go) and the storage they write *)
(* into the row of the file, where downloads look for it.                  *)
(*                                                                         *)
(* The place of a node is the storage it answers with: file:// with its    *)
(* own nid, or nas:// with its zone, shared by the nodes of the zone.  How *)
(* nodes get online and into the queues of the schedulers is the subject   *)
(* of NodeRegistry.  A node has room for a request or not; which changes   *)
(* with every keepalive, so each dispatch finds the set of those that do.  *)
(* That a handler refuses a file that is DOING, five times, is left out.   *)
(***************************************************************************)
EXTENDS Integers

CONSTANTS
    File, Pid,
    PidOf,          \* PidOf[f]: the package of f
    Node, Place,
    PlaceOf,        \* PlaceOf[n]: the storage of n
    Mode,           \* restrict_mode of the configuration
    Handler,        \* http handlers running at a time
    NoNode, NoPlace,
    MaxRequests,    \* bound: upload requests
    MaxRestarts     \* bound: restarts of the server

ASSUME SchedulingAssumption ==
    /\ PidOf \in [File -> Pid] /\ PlaceOf \in [Node -> Place]
    /\ Mode \in {"pid", "fid"}
    /\ NoNode \notin Node /\ NoPlace \notin Place
    /\ MaxRequests \in Nat /\ MaxRestarts \in Nat

VARIABLES
    online,      \* NodeManager.id_map
    resource,    \* RestrictUploadScheduler.resource
    storage,     \* column storage of the files
    handler,     \* handler[h]: where a handler is and what it holds
    kept,        \* kept[f]: the nodes that clients were told to send f to
    overlapped,  \* history: files about which there were two requests at once
    requests, restarts

bounds == <<requests, restarts>>
vars == <<online, resource, storage, handler, kept, overlapped, bounds>>

-----------------------------------------------------------------------------
Xid == Pid \cup File
XidOf(f) == IF Mode = "pid" THEN PidOf[f] ELSE f

Resource == [nid: Node \cup {NoNode}, expired: BOOLEAN]
NoResource == [nid |-> NoNode, expired |-> FALSE]

Busy == [pc: {"restrict", "fallback", "ask", "watch", "store"}, file: File,
         seen: Place \cup {NoPlace}, node: Node \cup {NoNode}]
Idle == [pc |-> "idle"]

TypeOK ==
    /\ online \subseteq Node
    /\ resource \in [Xid -> Resource]
    /\ storage \in [File -> Place \cup {NoPlace}]
    /\ handler \in [Handler -> Busy \cup {Idle}]
    /\ \A h \in Handler :     \* no request is sent to a node that is nil
         handler[h].pc \in {"ask", "watch", "store"} => handler[h].node # NoNode
    /\ kept \in [File -> SUBSET Node] /\ overlapped \subseteq File
    /\ requests \in 0..MaxRequests /\ restarts \in 0..MaxRestarts

Init ==
    /\ online = {}
    /\ resource = [x \in Xid |-> NoResource]
    /\ storage = [f \in File |-> NoPlace]
    /\ handler = [h \in Handler |-> Idle]
    /\ kept = [f \in File |-> {}] /\ overlapped = {}
    /\ requests = 0 /\ restarts = 0

-----------------------------------------------------------------------------
DelExpired(R) == [x \in Xid |-> IF R[x].expired THEN NoResource ELSE R[x]]

At(h, pc) == handler[h].pc = pc
Ask(h, n) == handler' = [handler EXCEPT ![h].pc = "ask", ![h].node = n]
Goto(h, pc) == handler' = [handler EXCEPT ![h].pc = pc]
Fail(h) == handler' = [handler EXCEPT ![h] = Idle]

(* A request for segments of f: the row of the file is read once.          *)
Request(h, f) ==
    /\ handler[h] = Idle
    /\ overlapped' = IF \E g \in Handler : handler[g] # Idle /\ handler[g].file = f
                       THEN overlapped \cup {f} ELSE overlapped
    /\ requests < MaxRequests /\ requests' = requests + 1
    /\ handler' = [handler EXCEPT ![h] =
                     [pc |-> "restrict", file |-> f, seen |-> storage[f],
                      node |-> NoNode]]
    /\ UNCHANGED <<online, resource, storage, kept, restarts>>

(* RestrictUploadScheduler.DispatchUpload, under its lock: the node that   *)
(* the package or the file was given to, if it is online and has room.     *)
Restrict(h) ==
    LET R == DelExpired(resource)
        r == R[XidOf(handler[h].file)]
    IN
    /\ At(h, "restrict")
    /\ resource' = R
    /\ \/ r.nid \in online /\ Ask(h, r.nid)
       \/ Goto(h, "fallback")
    /\ UNCHANGED <<online, storage, kept, overlapped, bounds>>

(* Mutant: a file whose node is not there goes to any other node.          *)
ByStorage_Any(h) ==
    /\ At(h, "fallback") /\ handler[h].seen # NoPlace
    /\ \/ \E n \in online : Ask(h, n)
       \/ online = {} /\ Fail(h)
    /\ UNCHANGED <<online, resource, storage, kept, overlapped, bounds>>

(* issue-31: a file that has a storage goes to a node of this storage.     *)
ByStorage(h) ==
    LET there == {n \in online : PlaceOf[n] = handler[h].seen} IN
    /\ At(h, "fallback") /\ handler[h].seen # NoPlace
    /\ \/ \E n \in there : Ask(h, n)
       \/ there = {} /\ Fail(h)
    /\ UNCHANGED <<online, resource, storage, kept, overlapped, bounds>>

(* A new file goes to the next node of the round robin that has room.      *)
RoundRobin(h) ==
    /\ At(h, "fallback") /\ handler[h].seen = NoPlace
    /\ \/ \E n \in online : Ask(h, n)
       \/ Fail(h)
    /\ UNCHANGED <<online, resource, storage, kept, overlapped, bounds>>

(* The node accepts the task in time; it does not, or nobody hears of it.  *)
Asked(h) ==
    /\ At(h, "ask")
    /\ \/ handler[h].node \in online /\ Goto(h, "watch")
       \/ Fail(h)
    /\ UNCHANGED <<online, resource, storage, kept, overlapped, bounds>>

(* RestrictUploadScheduler.AddTask: what was there before is replaced.     *)
AddTask(h) ==
    /\ At(h, "watch")
    /\ resource' = [DelExpired(resource) EXCEPT ![XidOf(handler[h].file)] =
                      [nid |-> handler[h].node, expired |-> FALSE]]
    /\ Goto(h, "store")
    /\ UNCHANGED <<online, storage, kept, overlapped, bounds>>

(* Mutant: the storage of the node the resource names is written.          *)
Store_OfResource(h) ==
    LET f == handler[h].file
        r == resource[XidOf(f)]
    IN
    /\ At(h, "store")
    /\ storage' = IF handler[h].seen = NoPlace /\ r.nid # NoNode
                    THEN [storage EXCEPT ![f] = PlaceOf[r.nid]] ELSE storage
    /\ kept' = [kept EXCEPT ![f] = @ \cup {handler[h].node}]
    /\ handler' = [handler EXCEPT ![h] = Idle]
    /\ UNCHANGED <<online, resource, overlapped, bounds>>

(* The storage is written if there was none when the handler began, and    *)
(* the client is told the node.                                            *)
Store(h) ==
    LET f == handler[h].file IN
    /\ At(h, "store")
    /\ storage' = IF handler[h].seen = NoPlace
                    THEN [storage EXCEPT ![f] = PlaceOf[handler[h].node]]
                    ELSE storage
    /\ kept' = [kept EXCEPT ![f] = @ \cup {handler[h].node}]
    /\ handler' = [handler EXCEPT ![h] = Idle]
    /\ UNCHANGED <<online, resource, overlapped, bounds>>

-----------------------------------------------------------------------------
(* TaskStateNotify: a report of node n about f, expired or not, keeps the  *)
(* resource for five more minutes.                                         *)
Reported(f, n) ==
    /\ n \in kept[f]
    /\ resource[XidOf(f)] = [nid |-> n, expired |-> TRUE]
    /\ resource' = [resource EXCEPT ![XidOf(f)].expired = FALSE]
    /\ UNCHANGED <<online, storage, handler, kept, overlapped, bounds>>

Expire(x) ==
    /\ resource[x].nid # NoNode /\ ~resource[x].expired
    /\ resource' = [resource EXCEPT ![x].expired = TRUE]
    /\ UNCHANGED <<online, storage, handler, kept, overlapped, bounds>>

NodeComes(n) ==
    /\ n \notin online /\ online' = online \cup {n}
    /\ UNCHANGED <<resource, storage, handler, kept, overlapped, bounds>>

NodeGoes(n) ==
    /\ n \in online /\ online' = online \ {n}
    /\ UNCHANGED <<resource, storage, handler, kept, overlapped, bounds>>

(* The server stops anywhere and starts again, the rows stay.              *)
Restart ==
    /\ restarts < MaxRestarts /\ restarts' = restarts + 1
    /\ online' = {}
    /\ resource' = [x \in Xid |-> NoResource]
    /\ handler' = [h \in Handler |-> Idle]
    /\ UNCHANGED <<storage, kept, overlapped, requests>>

-----------------------------------------------------------------------------
Serve(h) ==
    \/ Restrict(h) \/ ByStorage(h) \/ RoundRobin(h) \/ Asked(h)
    \/ AddTask(h) \/ Store(h)

Next ==
    \/ \E h \in Handler, f \in File : Request(h, f)
    \/ \E h \in Handler : Serve(h)
    \/ \E f \in File, n \in Node : Reported(f, n)
    \/ \E x \in Xid : Expire(x)
    \/ \E n \in Node : NodeComes(n) \/ NodeGoes(n)
    \/ Restart

Spec == Init /\ [][Next]_vars

-----------------------------------------------------------------------------
(* Whatever a client has uploaded of a file, asking for one node at a time, *)
(* is where downloads look for it, whichever nodes come and go, answers    *)
(* are lost or the server stops (processUpload, issue-31).                 *)
StorageHoldsAll ==
    \A f \in File \ overlapped : \A n \in kept[f] : PlaceOf[n] = storage[f]

(* Even if a client asks twice at a time about one file, the storage of    *)
(* the file is that of a node that has some of it.                         *)
StorageHoldsSome ==
    \A f \in File : kept[f] # {} => \E n \in kept[f] : PlaceOf[n] = storage[f]

(* default_scheduler.go:62, "All segments of one file should be dispatched *)
(* to the same node!!", or at least to the same storage.                   *)
SegmentsTogether ==
    \A f \in File : \A m, n \in kept[f] : PlaceOf[m] = PlaceOf[n]
=============================================================================

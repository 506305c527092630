---------------------------- MODULE NodeRegistry ----------------------------
(***************************************************************************)
(* The registry of transfer nodes: NodeManager.id_map, the goroutine       *)
(* (ws_server.go, connHandle) that serves each websocket connection, and   *)
(* the two schedulers that observe the registry, the upload round robin    *)
(* (rr_upload.go) and the round robin per zone (nas_rr.go).                *)
(*                                                                         *)
(* A connection owns one *Node object, so a connection stands for both.    *)
(* The process behind a connection logs in with the nid its registration   *)
(* was given, so reconnecting is a second connection with the same nid.    *)
(*                                                                         *)
(* NodeManager.mux is held for a whole AddNode, DelNode or NodeZoneChange, *)
(* so each of those is one step; mux is a variable only because a handler  *)
(* that blocks while holding it never gives it back.  What Close does to   *)
(* the requests in flight is the subject of PendingRequests; here a flag   *)
(* says that a request is left behind with its channel closed (leaked) and *)
(* another that req_lock was lost, in a panic or to a reader that blocks   *)
(* with it held (jammed).                                                  *)
(***************************************************************************)
EXTENDS Integers, FiniteSets, RoundRobin

CONSTANTS
    Conn,            \* websocket connections over the life of the server
    Nid,             \* registered transfer nodes
    NidOf,           \* NidOf[c]: the nid the process behind c logs in with
    Zone,            \* zone ids
    Admin,           \* http handlers that edit zones
    NoConn, NoZone, Free,
    MaxLogins,       \* bound: logins per connection
    MaxZoneEdits     \* bound: zone edits in all

ASSUME ConstAssumption ==
    /\ NidOf \in [Conn -> Nid] /\ IsFiniteSet(Conn)
    /\ NoConn \notin Conn /\ NoZone \notin Zone /\ Free \notin Conn
    /\ MaxLogins \in Nat /\ MaxZoneEdits \in Nat

VARIABLES
    pc,         \* pc[c]: where connHandle of c is
    logins,     \* logins[c]: how often c has logged in
    closed,     \* closed[c]: Node.closed, the socket is shut
    leaked,     \* leaked[c]: a closed channel is still in pending_reqs
    jammed,     \* jammed[c]: req_lock is locked for ever
    zoneId,     \* zoneId[c]: Node.ZoneId
    idMap,      \* NodeManager.id_map
    mux,        \* the handler that blocks with NodeManager.mux held, or Free
    uploadQ,    \* the queue of the upload scheduler
    zoneQ,      \* zoneQ[z]: the queue of zone z, empty when the map has none
    dbZone,     \* the zone_id column of the node table
    reload,     \* reload[a]: where ReloadNodeModel of handler a is
    edits       \* how many zone edits were made

connVars == <<pc, logins, closed, leaked, jammed, zoneId>>
mapVars  == <<idMap, uploadQ, zoneQ>>
vars == <<connVars, mapVars, mux, dbZone, reload, edits>>

-----------------------------------------------------------------------------
ConnPC == {"open", "adding", "closing", "deleting", "done", "stuck",
           "crashed", "choked"}
ReloadPC == {"idle", "clear", "lookup", "read", "change", "assign"}
ZoneOrNone == Zone \cup {NoZone}
Reload == [pc: ReloadPC, todo: SUBSET Nid, node: Conn \cup {NoConn},
           old: ZoneOrNone, new: ZoneOrNone]
Idle == [pc |-> "idle", todo |-> {}, node |-> NoConn, old |-> NoZone,
         new |-> NoZone]

TypeOK ==
    /\ pc \in [Conn -> ConnPC]
    /\ logins \in [Conn -> 0..MaxLogins]
    /\ closed \in [Conn -> BOOLEAN]
    /\ leaked \in [Conn -> BOOLEAN]
    /\ jammed \in [Conn -> BOOLEAN]
    /\ zoneId \in [Conn -> ZoneOrNone]
    /\ idMap \in [Nid -> Conn \cup {NoConn}]
    /\ mux \in Conn \cup {Free}
    /\ uploadQ \in Seq(Conn)
    /\ zoneQ \in [Zone -> Seq(Conn)]
    /\ dbZone \in [Nid -> ZoneOrNone]
    /\ reload \in [Admin -> Reload]
    /\ edits \in 0..MaxZoneEdits
    /\ \A a \in Admin :      \* ReloadModel is never called on a nil node
         reload[a].pc \in {"read", "change", "assign"} => reload[a].node # NoConn

(* Every connection has been accepted and none has sent a message yet; the *)
(* zones are what the last run of the server has left in the database.     *)
Init ==
    /\ pc = [c \in Conn |-> "open"]
    /\ logins = [c \in Conn |-> 0]
    /\ closed = [c \in Conn |-> FALSE]
    /\ leaked = [c \in Conn |-> FALSE]
    /\ jammed = [c \in Conn |-> FALSE]
    /\ zoneId = [c \in Conn |-> NoZone]
    /\ idMap = [n \in Nid |-> NoConn]
    /\ mux = Free
    /\ uploadQ = << >>
    /\ zoneQ = [z \in Zone |-> << >>]
    /\ dbZone \in [Nid -> ZoneOrNone]
    /\ reload = [a \in Admin |-> Idle]
    /\ edits = 0

-----------------------------------------------------------------------------
(* The observers' handlers, as what they make of their queues.             *)

ZonePut(zq, z, c) == IF z = NoZone THEN zq ELSE [zq EXCEPT ![z] = Put(@, c)]
ZonePop(zq, z, c) == IF z = NoZone THEN zq ELSE [zq EXCEPT ![z] = Pop(@, c)]

(* Mutant: the upload queue skips nodes without a zone, as the other does. *)
ObserversAddNode_ZonedOnly(c) ==
    /\ uploadQ' = IF zoneId[c] = NoZone THEN uploadQ ELSE Put(uploadQ, c)
    /\ zoneQ' = ZonePut(zoneQ, zoneId[c], c)

ObserversAddNode(c) ==
    /\ uploadQ' = Put(uploadQ, c)
    /\ zoneQ' = ZonePut(zoneQ, zoneId[c], c)

ObserversDelNode(c) ==
    /\ uploadQ' = Pop(uploadQ, c)
    /\ zoneQ' = ZonePop(zoneQ, zoneId[c], c)

(* Node.Close up to the call of DelNode: the channels of the requests in   *)
(* flight are closed; their callers may be gone before they delete the     *)
(* entries, which then stay.                                               *)
CloseOk(c) == ~jammed[c] /\ ~leaked[c]
ClosePanics(c) == ~jammed[c] /\ leaked[c]
ShutDown(c) ==
    /\ closed' = [closed EXCEPT ![c] = TRUE]
    /\ \E left \in BOOLEAN : leaked' = [leaked EXCEPT ![c] = left]

-----------------------------------------------------------------------------
(* connHandle of one connection.                                           *)

(* handleLogin up to the call of AddNode: a node that is not answered yet  *)
(* sends nothing more, so there is no login on a closed connection.        *)
Login(c) ==
    /\ pc[c] = "open" /\ ~closed[c]
    /\ logins[c] < MaxLogins
    /\ logins' = [logins EXCEPT ![c] = @ + 1]
    /\ zoneId' = [zoneId EXCEPT ![c] = dbZone[NidOf[c]]]
    /\ pc' = [pc EXCEPT ![c] = "adding"]
    /\ UNCHANGED <<closed, leaked, jammed, mapVars, mux, dbZone, reload, edits>>

(* Mutant: only a node that is not in id_map is put there.                 *)
AddNode_KeepsOld(c) ==
    LET old == idMap[NidOf[c]] IN
    /\ pc[c] = "adding" /\ mux = Free
    /\ IF old = NoConn
         THEN /\ idMap' = [idMap EXCEPT ![NidOf[c]] = c]
              /\ UNCHANGED <<closed, leaked>>
         ELSE CloseOk(old) /\ ShutDown(old) /\ UNCHANGED idMap
    /\ ObserversAddNode(c)
    /\ pc' = [pc EXCEPT ![c] = "open"]
    /\ UNCHANGED <<logins, jammed, zoneId, mux, dbZone, reload, edits>>

(* NodeManager.AddNode: the connection registered under the same nid, if   *)
(* any, is closed without being removed from the observers.                *)
AddNode(c) ==
    LET old == idMap[NidOf[c]] IN
    /\ pc[c] = "adding" /\ mux = Free
    /\ IF old = NoConn
         THEN UNCHANGED <<closed, leaked>>
         ELSE CloseOk(old) /\ ShutDown(old)
    /\ idMap' = [idMap EXCEPT ![NidOf[c]] = c]
    /\ ObserversAddNode(c)
    /\ pc' = [pc EXCEPT ![c] = "open"]
    /\ UNCHANGED <<logins, jammed, zoneId, mux, dbZone, reload, edits>>

(* Mutant: AddNode recovers from the panic and tries again.                *)
AddNodePanics_Retries(c) ==
    LET old == idMap[NidOf[c]] IN
    /\ pc[c] = "adding" /\ mux = Free
    /\ old # NoConn /\ ClosePanics(old)
    /\ jammed' = [jammed EXCEPT ![old] = TRUE]
    /\ UNCHANGED <<pc, logins, closed, leaked, zoneId, mapVars, mux, dbZone,
                   reload, edits>>

(* AddNode closes a channel for the second time: the panic unwinds to the  *)
(* deferred Close(true) of the new connection, req_lock of the old one     *)
(* stays locked, mux is released by its own defer.                         *)
AddNodePanics(c) ==
    LET old == idMap[NidOf[c]] IN
    /\ pc[c] = "adding" /\ mux = Free
    /\ old # NoConn /\ ClosePanics(old)
    /\ jammed' = [jammed EXCEPT ![old] = TRUE]
    /\ pc' = [pc EXCEPT ![c] = "closing"]
    /\ UNCHANGED <<logins, closed, leaked, zoneId, mapVars, mux, dbZone, reload,
                   edits>>

(* AddNode waits for a req_lock nobody will release, with mux held.        *)
AddNodeBlocks(c) ==
    LET old == idMap[NidOf[c]] IN
    /\ pc[c] = "adding" /\ mux = Free
    /\ old # NoConn /\ jammed[old]
    /\ mux' = c
    /\ pc' = [pc EXCEPT ![c] = "stuck"]
    /\ UNCHANGED <<logins, closed, leaked, jammed, zoneId, mapVars, dbZone, reload,
                   edits>>

(* The receive loop ends: the peer is gone, the deadline has passed, the   *)
(* socket was shut by Close, or a message was refused.                     *)
ReadFails(c) ==
    /\ pc[c] = "open"
    /\ pc' = [pc EXCEPT ![c] = "closing"]
    /\ UNCHANGED <<logins, closed, leaked, jammed, zoneId, mapVars, mux, dbZone,
                   reload, edits>>

(* A response that was already in the buffer is delivered to a channel the *)
(* displacing login has closed: HandleMsg panics with req_lock held, and   *)
(* the deferred Close waits for that lock forever.                         *)
LateResponse(c) ==
    /\ pc[c] = "open" /\ closed[c] /\ leaked[c]
    /\ jammed' = [jammed EXCEPT ![c] = TRUE]
    /\ pc' = [pc EXCEPT ![c] = "stuck"]
    /\ UNCHANGED <<logins, closed, leaked, zoneId, mapVars, mux, dbZone, reload,
                   edits>>

(* A repeated response finds the channel of its request, which holds one   *)
(* response, full, and a requester that has stopped listening waits for    *)
(* req_lock itself: HandleMsg blocks with req_lock held, and the handler   *)
(* reads nothing more, so it never ends.                                   *)
RepeatedResponse(c) ==
    /\ pc[c] = "open" /\ logins[c] > 0 /\ ~jammed[c]
    /\ jammed' = [jammed EXCEPT ![c] = TRUE]
    /\ pc' = [pc EXCEPT ![c] = "choked"]
    /\ UNCHANGED <<logins, closed, leaked, zoneId, mapVars, mux, dbZone, reload,
                   edits>>

(* Mutant: the deferred call is Close(false).                              *)
CloseSelf_KeepsEntry(c) ==
    /\ pc[c] = "closing" /\ CloseOk(c) /\ ShutDown(c)
    /\ pc' = [pc EXCEPT ![c] = "done"]
    /\ UNCHANGED <<jammed, logins, zoneId, mapVars, mux, dbZone, reload, edits>>

(* The deferred Close(true), up to the call of DelNode; a connection that  *)
(* never logged in has no manager to leave.                                *)
CloseSelf(c) ==
    /\ pc[c] = "closing"
    /\ \/ /\ CloseOk(c) /\ ShutDown(c)
          /\ pc' = [pc EXCEPT ![c] = IF logins[c] = 0 THEN "done" ELSE "deleting"]
          /\ UNCHANGED jammed
       \/ /\ ClosePanics(c)
          /\ jammed' = [jammed EXCEPT ![c] = TRUE]
          /\ pc' = [pc EXCEPT ![c] = "crashed"]
          /\ UNCHANGED <<closed, leaked>>
       \/ /\ jammed[c]
          /\ pc' = [pc EXCEPT ![c] = "stuck"]
          /\ UNCHANGED <<closed, leaked, jammed>>
    /\ UNCHANGED <<logins, zoneId, mapVars, mux, dbZone, reload, edits>>

(* NodeManager.DelNode works by nid: it removes whatever connection is     *)
(* registered under the nid now.                                           *)
DelNode(c) ==
    LET node == idMap[NidOf[c]] IN
    /\ pc[c] = "deleting" /\ mux = Free
    /\ IF node = NoConn
         THEN UNCHANGED mapVars
         ELSE /\ idMap' = [idMap EXCEPT ![NidOf[c]] = NoConn]
              /\ ObserversDelNode(node)
    /\ pc' = [pc EXCEPT ![c] = "done"]
    /\ UNCHANGED <<logins, closed, leaked, jammed, zoneId, mux, dbZone, reload,
                   edits>>

-----------------------------------------------------------------------------
(* The dispatchers of the two schedulers.  Which units the size filter     *)
(* accepts does not matter here.                                           *)

DispatchUpload ==
    /\ \E Ok \in SUBSET Conn :
         Found(uploadQ, Ok) /\ uploadQ' = Get(uploadQ, Ok)
    /\ UNCHANGED <<connVars, idMap, zoneQ, mux, dbZone, reload, edits>>

DispatchDownload(z) ==
    /\ Found(zoneQ[z], Conn)
    /\ zoneQ' = [zoneQ EXCEPT ![z] = Get(@, Conn)]
    /\ UNCHANGED <<connVars, idMap, uploadQ, mux, dbZone, reload, edits>>

-----------------------------------------------------------------------------
(* Zone edits: an http handler writes the database, then ReloadNodeModel   *)
(* visits the nodes of its list one by one.                                *)

Edit(a, S, zones) ==
    /\ reload[a].pc = "idle" /\ S # {}
    /\ edits < MaxZoneEdits /\ edits' = edits + 1
    /\ dbZone' = zones
    /\ reload' = [reload EXCEPT ![a] = [Idle EXCEPT !.pc = "lookup", !.todo = S]]
    /\ UNCHANGED <<connVars, mapVars, mux>>

(* NodeZoneController.Put: one node goes to a zone, or to none.            *)
PutZone(a, n, z) == Edit(a, {n}, [dbZone EXCEPT ![n] = z])

(* ZoneNodesController.Put: of the nodes to delete only those go that are  *)
(* in the zone once the others have been added.                            *)
PutNodes(a, z, add, del) ==
    Edit(a, add \cup del,
         [n \in Nid |-> IF n \in del /\ (n \in add \/ dbZone[n] = z) THEN NoZone
                       ELSE IF n \in add THEN z ELSE dbZone[n]])

(* ZoneController.Delete and ZoneNodesController.Delete ask for the nodes  *)
(* of the zone ...                                                         *)
ListZone(a, z) ==
    /\ reload[a].pc = "idle"
    /\ edits < MaxZoneEdits /\ edits' = edits + 1
    /\ reload' = [reload EXCEPT ![a] =
          [Idle EXCEPT !.pc = "clear", !.todo = {n \in Nid : dbZone[n] = z},
                       !.new = z]]
    /\ UNCHANGED <<connVars, mapVars, mux, dbZone>>

NextNid(r) == [Idle EXCEPT !.pc = IF r.todo = {} THEN "idle" ELSE "lookup",
                           !.todo = r.todo]

(* ... and take the zone from the nodes that are in it by then.            *)
ClearZone(a) ==
    LET r == reload[a] IN
    /\ r.pc = "clear"
    /\ dbZone' = [n \in Nid |-> IF dbZone[n] = r.new THEN NoZone ELSE dbZone[n]]
    /\ reload' = [reload EXCEPT ![a] = NextNid(r)]
    /\ UNCHANGED <<connVars, mapVars, mux, edits>>

(* GetByNid of the next nid of the list, under mux.                        *)
Lookup(a, n) ==
    LET rest == [reload[a] EXCEPT !.todo = @ \ {n}] IN
    /\ reload[a].pc = "lookup" /\ n \in reload[a].todo /\ mux = Free
    /\ reload' = [reload EXCEPT ![a] =
                     IF idMap[n] = NoConn
                       THEN NextNid(rest)
                       ELSE [rest EXCEPT !.pc = "read", !.node = idMap[n]]]
    /\ UNCHANGED <<connVars, mapVars, mux, dbZone, edits>>

(* Node.ReloadModel: the zone is read from the database and compared with  *)
(* the one in memory, with no lock held.                                   *)
ReadModel(a) ==
    LET r == reload[a]
        fresh == dbZone[NidOf[r.node]]
    IN
    /\ r.pc = "read"
    /\ reload' = [reload EXCEPT ![a] =
                     IF fresh = zoneId[r.node]
                       THEN NextNid(r)
                       ELSE [r EXCEPT !.pc = "change", !.old = zoneId[r.node],
                                      !.new = fresh]]
    /\ UNCHANGED <<connVars, mapVars, mux, dbZone, edits>>

(* Mutant: the two ifs of the observer become an if and an else.           *)
NodeZoneChange_ElsePut(a) ==
    LET r == reload[a] IN
    /\ r.pc = "change" /\ mux = Free
    /\ zoneQ' = IF r.old # NoZone THEN ZonePop(zoneQ, r.old, r.node)
                                 ELSE ZonePut(zoneQ, r.new, r.node)
    /\ reload' = [reload EXCEPT ![a].pc = "assign"]
    /\ UNCHANGED <<connVars, idMap, uploadQ, mux, dbZone, edits>>

(* NodeManager.NodeZoneChange moves the node from queue to queue ...       *)
NodeZoneChange(a) ==
    LET r == reload[a] IN
    /\ r.pc = "change" /\ mux = Free
    /\ zoneQ' = ZonePut(ZonePop(zoneQ, r.old, r.node), r.new, r.node)
    /\ reload' = [reload EXCEPT ![a].pc = "assign"]
    /\ UNCHANGED <<connVars, idMap, uploadQ, mux, dbZone, edits>>

(* ... and Node.ZoneId follows once mux has been released.                 *)
AssignZone(a) ==
    LET r == reload[a] IN
    /\ r.pc = "assign"
    /\ zoneId' = [zoneId EXCEPT ![r.node] = r.new]
    /\ reload' = [reload EXCEPT ![a] = NextNid(r)]
    /\ UNCHANGED <<pc, logins, closed, leaked, jammed, mapVars, mux, dbZone, edits>>

-----------------------------------------------------------------------------
Handler(c) ==
    \/ Login(c) \/ AddNode(c) \/ AddNodePanics(c) \/ AddNodeBlocks(c)
    \/ ReadFails(c) \/ LateResponse(c) \/ RepeatedResponse(c)
    \/ CloseSelf(c) \/ DelNode(c)

ZoneEdit(a) ==
    \/ \E n \in Nid, z \in ZoneOrNone : PutZone(a, n, z)
    \/ \E z \in Zone, add, del \in SUBSET Nid : PutNodes(a, z, add, del)
    \/ \E z \in Zone : ListZone(a, z)

Reloader(a) ==
    \/ ClearZone(a)
    \/ \E n \in Nid : Lookup(a, n)
    \/ ReadModel(a) \/ NodeZoneChange(a) \/ AssignZone(a)

Next ==
    \/ \E c \in Conn : Handler(c)
    \/ DispatchUpload
    \/ \E z \in Zone : DispatchDownload(z)
    \/ \E a \in Admin : ZoneEdit(a) \/ Reloader(a)

Spec == Init /\ [][Next]_vars

-----------------------------------------------------------------------------
(* A node that is online (IsOnline, GetByNid) can be given uploads: its    *)
(* connection is in the queue of the upload scheduler.  AddNode and        *)
(* DelNode of the observers run under mux with the change of id_map, but   *)
(* the queue is told of one connection while id_map is about another.      *)
OnlineIsSchedulable ==
    \A n \in Nid : idMap[n] # NoConn => Contains(uploadQ, idMap[n])

(* While zones are edited one at a time, a node that is online with a zone *)
(* is in the queue of that zone, so its files can be downloaded: AddNode,  *)
(* a relogin and the three steps of a reload agree on the zone they use.   *)
OnlineIsInItsZone ==
    \A n \in Nid :
        LET c == idMap[n] IN
        \/ c = NoConn
        \/ pc[c] = "adding"
        \/ \E a \in Admin : reload[a].pc = "assign" /\ reload[a].node = c
        \/ zoneId[c] # NoZone => Contains(zoneQ[zoneId[c]], c)

(* A connection whose handler has returned is never the one IsOnline and   *)
(* GetByNid answer with: Close(true) works by nid and other connections    *)
(* register and unregister under the same nid in between.                  *)
DoneIsOffline ==
    \A c \in Conn : pc[c] = "done" => \A n \in Nid : idMap[n] # c

(* Nor is one whose handler died or hangs in Close, which a channel that   *)
(* is closed twice brings about, unless it logged in twice: then nothing   *)
(* ever takes it out of id_map.  (A reader that a repeated response has    *)
(* blocked, "choked", has not come to Close: its node stays online.)       *)
CrashedIsOffline ==
    \A c \in Conn : pc[c] \in {"crashed", "stuck"} /\ logins[c] < 2
                      => \A n \in Nid : idMap[n] # c

(* A handler that waits, with mux held, for a lock nobody will release     *)
(* stops every login, lookup and dispatch by nid.  A node that reconnects  *)
(* does not bring that about by itself, even if the old connection and the *)
(* new one overlap: it takes a second login on one connection, a repeated  *)
(* response that has blocked a reader, or a third connection, and all of   *)
(* it of that very node.                                                   *)
Logged(n) == {c \in Conn : NidOf[c] = n /\ logins[c] > 0}
WedgeHasReason ==
    mux # Free =>
      \/ \E c \in Logged(NidOf[mux]) : logins[c] > 1 \/ pc[c] = "choked"
      \/ Cardinality(Logged(NidOf[mux])) > 2

(* rr_upload.go:57, "remove the node that lost its connection": once the   *)
(* handler of a connection has returned, no upload is dispatched to it.    *)
DoneIsNotScheduled ==
    \A c \in Conn : pc[c] = "done" => ~Contains(uploadQ, c)

(* The same comment, on the other side: DelNode of an observer is only for *)
(* a node that lost its connection, never for one that is being served.    *)
OnlyLostNodesGoOffline ==
    [][\A n \in Nid :
         idMap[n] # NoConn /\ idMap'[n] = NoConn =>
           closed[idMap[n]] \/ pc[idMap[n]] # "open"]_vars

(* nas_rr.go:61, the same comment on the zone queues.                      *)
DoneIsNotInZone ==
    \A c \in Conn, z \in Zone : pc[c] = "done" => ~Contains(zoneQ[z], c)

(* node.go:141, "a node has to reload what the database says, for instance *)
(* after a change of its zone": with no edit and no login under way, the   *)
(* zone of an online node is the one in the database.                      *)
ZoneIsFresh ==
    (\A a \in Admin : reload[a] = Idle) /\ (\A c \in Conn : pc[c] # "adding")
    => \A n \in Nid : idMap[n] # NoConn => zoneId[idMap[n]] = dbZone[n]
=============================================================================

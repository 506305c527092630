----------------------- MODULE UploadSchedulingProofs -----------------------
(***************************************************************************)
(* Theorems about UploadScheduling, for any files, nodes and storages, any *)
(* number of handlers, requests and restarts.                              *)
(*                                                                         *)
(* That some node of the storage of a file has some of it holds in either  *)
(* mode; that all of it is there needs the restriction by file, as         *)
(* uploads_split shows, and requests one at a time.  Then the one handler  *)
(* of a file knows its storage, and the resource of the file is a node of  *)
(* this storage, unless the handler is just about to write it.             *)
(***************************************************************************)
EXTENDS UploadScheduling, TLAPS

USE SchedulingAssumption

Serving(h, f) == handler[h] # Idle /\ handler[h].file = f

LEMMA BusyType ==
    ASSUME TypeOK, NEW h \in Handler, handler[h] # Idle
    PROVE  /\ handler[h] \in Busy
           /\ handler[h].file \in File
           /\ handler[h].seen \in Place \cup {NoPlace}
           /\ handler[h].node \in Node \cup {NoNode}
BY DEF TypeOK, Busy

LEMMA PcIsBusy ==
    ASSUME NEW h \in Handler, handler[h].pc # "idle" PROVE handler[h] # Idle
BY DEF Idle

LEMMA XidType == ASSUME NEW f \in File PROVE XidOf(f) \in Xid
BY DEF XidOf, Xid

LEMMA DelExpiredType ==
    ASSUME resource \in [Xid -> Resource]
    PROVE  /\ DelExpired(resource) \in [Xid -> Resource]
           /\ \A x \in Xid : DelExpired(resource)[x].nid \in {NoNode, resource[x].nid}
BY DEF DelExpired, Resource, NoResource

LEMMA AskIs ==
    ASSUME TypeOK, NEW h \in Handler, handler[h] # Idle, NEW n \in Node, Ask(h, n)
    PROVE  handler' = [handler EXCEPT ![h] = [handler[h] EXCEPT !.pc = "ask", !.node = n]]
<1>1. handler[h] \in Busy
  BY BusyType
<1>2. handler \in [Handler -> Busy \cup {Idle}]
  BY DEF TypeOK
<1>. QED BY <1>1, <1>2 DEF Ask

LEMMA AskStep ==
    ASSUME TypeOK, NEW h \in Handler, handler[h] # Idle, NEW n \in Node, Ask(h, n)
    PROVE  /\ \A g \in Handler : g # h => handler'[g] = handler[g]
           /\ handler'[h].pc = "ask" /\ handler'[h].node = n
           /\ handler'[h].file = handler[h].file
           /\ handler'[h].seen = handler[h].seen
<1>. DEFINE r == handler[h]
            s == [r EXCEPT !.pc = "ask", !.node = n]
<1>1. r \in Busy /\ handler \in [Handler -> Busy \cup {Idle}]
  BY BusyType DEF TypeOK
<1>2. handler' = [handler EXCEPT ![h] = s]
  BY AskIs
<1>3. s.pc = "ask" /\ s.node = n /\ s.file = r.file /\ s.seen = r.seen
  BY <1>1 DEF Busy
<1>. HIDE DEF s
<1>. QED BY <1>1, <1>2, <1>3

(* A step of one handler, which gets the record v.                         *)
Gets(h, v) == handler' = [handler EXCEPT ![h] = v]
Good(v) == /\ v \in Busy \cup {Idle}
           /\ v.pc \in {"ask", "watch", "store"} => v.node # NoNode

(* Every variable keeps its type, above all no request goes to a nil node. *)
LEMMA InitTypeOK == Init => TypeOK
BY DEF Init, TypeOK, Resource, NoResource, Idle

LEMMA NextTypeOK == TypeOK /\ [Next]_vars => TypeOK'
<1>. SUFFICES ASSUME TypeOK, [Next]_vars PROVE TypeOK'
  OBVIOUS
<1>. USE DEF bounds
<1>0. /\ handler \in [Handler -> Busy \cup {Idle}]
      /\ \A h \in Handler :
           handler[h].pc \in {"ask", "watch", "store"} => handler[h].node # NoNode
      /\ resource \in [Xid -> Resource]
      /\ storage \in [File -> Place \cup {NoPlace}]
      /\ kept \in [File -> SUBSET Node] /\ overlapped \subseteq File
      /\ online \subseteq Node
      /\ requests \in 0..MaxRequests /\ restarts \in 0..MaxRestarts
  BY DEF TypeOK
<1>1. ASSUME NEW h \in Handler, NEW v, Gets(h, v), Good(v)
      PROVE  /\ handler' \in [Handler -> Busy \cup {Idle}]
             /\ \A g \in Handler :
                  handler'[g].pc \in {"ask", "watch", "store"} => handler'[g].node # NoNode
  BY <1>0, <1>1 DEF Gets, Good
<1>2. Good(Idle)
  BY DEF Idle, Good
<1>3. ASSUME NEW h \in Handler, handler[h] # Idle
      PROVE  Good([handler[h] EXCEPT !.pc = "fallback"])
  <2>1. handler[h] \in Busy
    BY <1>3, BusyType
  <2>. QED BY <2>1 DEF Good, Busy
<1>4. ASSUME NEW h \in Handler, handler[h] # Idle, NEW n \in Node, Ask(h, n)
      PROVE  \E v : Gets(h, v) /\ Good(v)
  <2>1. Gets(h, [handler[h] EXCEPT !.pc = "ask", !.node = n])
    BY <1>4, AskIs DEF Gets
  <2>2. Good([handler[h] EXCEPT !.pc = "ask", !.node = n])
    <3>1. handler[h] \in Busy
      BY <1>4, BusyType
    <3>. QED BY <3>1 DEF Good, Busy
  <2>. QED BY <2>1, <2>2
<1>5. ASSUME NEW h \in Handler, handler[h].pc \in {"ask", "watch"},
             NEW p \in {"watch", "store"}
      PROVE  Good([handler[h] EXCEPT !.pc = p])
  <2>1. handler[h] # Idle /\ handler[h].node # NoNode
    BY <1>0, <1>5, PcIsBusy
  <2>2. handler[h] \in Busy
    BY <2>1, BusyType
  <2>. QED BY <1>5, <2>1, <2>2 DEF Good, Busy
<1>6. ASSUME NEW h \in Handler, NEW f \in File, Request(h, f) PROVE TypeOK'
  <2>. DEFINE v == [pc |-> "restrict", file |-> f, seen |-> storage[f], node |-> NoNode]
  <2>1. Gets(h, v) /\ Good(v)
    BY <1>0, <1>6 DEF Request, Busy, Gets, Good
  <2>. HIDE DEF v
  <2>. QED BY <1>0, <1>1, <1>6, <2>1 DEF Request, TypeOK
<1>7. ASSUME NEW h \in Handler, Restrict(h) PROVE TypeOK'
  <2>1. handler[h] # Idle
    BY <1>7, PcIsBusy DEF Restrict, At
  <2>2. resource' \in [Xid -> Resource]
    BY <1>0, <1>7, DelExpiredType DEF Restrict
  <2>3. \E v : Gets(h, v) /\ Good(v)
    <3>1. CASE \E n \in Node : Ask(h, n)
      BY <1>4, <2>1, <3>1
    <3>2. CASE Goto(h, "fallback")
      BY <1>3, <2>1, <3>2 DEF Goto, Gets
    <3>. QED BY <1>0, <1>7, <3>1, <3>2 DEF Restrict
  <2>. QED BY <1>0, <1>1, <1>7, <2>2, <2>3 DEF Restrict, TypeOK
<1>8. ASSUME NEW h \in Handler, ByStorage(h) \/ RoundRobin(h) PROVE TypeOK'
  <2>1. handler[h] # Idle
    BY <1>8, PcIsBusy DEF ByStorage, RoundRobin, At
  <2>3. \E v : Gets(h, v) /\ Good(v)
    <3>1. CASE \E n \in Node : Ask(h, n)
      BY <1>4, <2>1, <3>1
    <3>2. CASE Fail(h)
      BY <1>2, <3>2 DEF Fail, Gets
    <3>. QED BY <1>0, <1>8, <3>1, <3>2 DEF ByStorage, RoundRobin
  <2>. QED BY <1>0, <1>1, <1>8, <2>3 DEF ByStorage, RoundRobin, TypeOK
<1>9. ASSUME NEW h \in Handler, Asked(h) PROVE TypeOK'
  <2>3. \E v : Gets(h, v) /\ Good(v)
    BY <1>2, <1>5, <1>9 DEF Asked, At, Goto, Fail, Gets
  <2>. QED BY <1>0, <1>1, <1>9, <2>3 DEF Asked, TypeOK
<1>10. ASSUME NEW h \in Handler, AddTask(h) PROVE TypeOK'
  <2>1. handler[h] # Idle
    BY <1>10, PcIsBusy DEF AddTask, At
  <2>2. resource' \in [Xid -> Resource]
    BY <1>0, <1>10, <2>1, DelExpiredType, XidType, BusyType DEF AddTask, Resource
  <2>3. \E v : Gets(h, v) /\ Good(v)
    BY <1>5, <1>10 DEF AddTask, At, Goto, Gets
  <2>. QED BY <1>0, <1>1, <1>10, <2>2, <2>3 DEF AddTask, TypeOK
<1>11. ASSUME NEW h \in Handler, Store(h) PROVE TypeOK'
  <2>1. handler[h] # Idle /\ handler[h].node \in Node
    BY <1>0, <1>11, PcIsBusy, BusyType DEF Store, At
  <2>2. /\ storage' \in [File -> Place \cup {NoPlace}]
        /\ kept' \in [File -> SUBSET Node]
    BY <1>0, <1>11, <2>1, BusyType DEF Store
  <2>3. Gets(h, Idle)
    BY <1>11 DEF Store, Gets
  <2>. QED BY <1>0, <1>1, <1>2, <1>11, <2>2, <2>3 DEF Store, TypeOK
<1>12. ASSUME NEW f \in File, NEW n \in Node, Reported(f, n) PROVE TypeOK'
  BY <1>0, <1>12, XidType DEF Reported, Resource, TypeOK
<1>13. ASSUME NEW x \in Xid, Expire(x) PROVE TypeOK'
  BY <1>0, <1>13, ZenonT(60) DEF Expire, Resource, TypeOK
<1>14. ASSUME NEW n \in Node, NodeComes(n) \/ NodeGoes(n) PROVE TypeOK'
  BY <1>0, <1>14 DEF NodeComes, NodeGoes, TypeOK
<1>15. CASE Restart
  BY <1>0, <1>15 DEF Restart, Resource, NoResource, Idle, TypeOK
<1>16. CASE UNCHANGED vars
  BY <1>0, <1>16 DEF vars, TypeOK
<1>. QED
  BY <1>6, <1>7, <1>8, <1>9, <1>10, <1>11, <1>12, <1>13, <1>14, <1>15, <1>16
     DEF Next, Serve

THEOREM TypeCorrect == Spec => []TypeOK
BY InitTypeOK, NextTypeOK, PTL DEF Spec

-----------------------------------------------------------------------------
(* A step of a handler keeps the file and what was seen of its row; the    *)
(* node is chosen when it is asked.                                        *)
LEMMA ServeStep ==
    ASSUME TypeOK, NEW h \in Handler, Serve(h)
    PROVE  /\ handler[h] # Idle
           /\ \A g \in Handler : g # h => handler'[g] = handler[g]
           /\ handler'[h] # Idle =>
                /\ handler'[h].file = handler[h].file
                /\ handler'[h].seen = handler[h].seen
                /\ handler'[h].pc \in {"watch", "store"} =>
                     handler'[h].node = handler[h].node
                /\ handler'[h].pc # "restrict"
<1>0. handler \in [Handler -> Busy \cup {Idle}]
  BY DEF TypeOK
<1>1. handler[h] # Idle
  BY PcIsBusy DEF Serve, Restrict, ByStorage, RoundRobin, Asked, AddTask, Store, At
<1>2. handler[h] \in Busy
  BY <1>1, BusyType
<1>3. CASE \E n \in Node : Ask(h, n)
  BY <1>1, <1>3, AskStep
<1>4. ASSUME NEW p \in {"fallback", "watch", "store"}, Goto(h, p)
      PROVE  /\ \A g \in Handler : g # h => handler'[g] = handler[g]
             /\ handler'[h].file = handler[h].file
             /\ handler'[h].seen = handler[h].seen
             /\ handler'[h].node = handler[h].node
             /\ handler'[h].pc # "restrict"
  BY <1>0, <1>2, <1>4 DEF Busy, Goto
<1>5. CASE Fail(h)
  BY <1>0, <1>1, <1>5 DEF Fail
<1>6. CASE Restrict(h)
  <2>1. DelExpired(resource)[XidOf(handler[h].file)].nid \in Node \cup {NoNode}
    BY <1>1, BusyType, XidType, DelExpiredType DEF TypeOK, Resource
  <2>2. online \subseteq Node
    BY DEF TypeOK
  <2>. QED BY <1>1, <1>3, <1>4, <1>6, <2>2 DEF Restrict
<1>7. CASE ByStorage(h) \/ RoundRobin(h)
  <2>1. online \subseteq Node
    BY DEF TypeOK
  <2>. QED BY <1>3, <1>5, <1>7, <2>1 DEF ByStorage, RoundRobin
<1>8. CASE Asked(h)
  BY <1>1, <1>4, <1>5, <1>8 DEF Asked
<1>9. CASE AddTask(h)
  BY <1>1, <1>4, <1>9 DEF AddTask
<1>10. CASE Store(h)
  BY <1>0, <1>1, <1>10 DEF Store
<1>. QED BY <1>6, <1>7, <1>8, <1>9, <1>10 DEF Serve

-----------------------------------------------------------------------------
(* A storage in a row, or seen in it, was that of a node in kept.          *)
SomeInv ==
    /\ \A f \in File : storage[f] # NoPlace => kept[f] # {}
    /\ \A h \in Handler : handler[h] # Idle /\ handler[h].seen # NoPlace
                            => kept[handler[h].file] # {}
    /\ StorageHoldsSome

LEMMA InitSomeInv == Init => SomeInv
BY DEF Init, SomeInv, StorageHoldsSome

LEMMA NextSomeInv == TypeOK /\ SomeInv /\ [Next]_vars => SomeInv'
<1>. SUFFICES ASSUME TypeOK, SomeInv, [Next]_vars PROVE SomeInv'
  OBVIOUS
<1>. USE DEF SomeInv, StorageHoldsSome
<1>0. /\ handler \in [Handler -> Busy \cup {Idle}]
      /\ storage \in [File -> Place \cup {NoPlace}] /\ kept \in [File -> SUBSET Node]
  BY DEF TypeOK
<1>1. ASSUME NEW h \in Handler, NEW f \in File, Request(h, f) PROVE SomeInv'
  <2>1. UNCHANGED <<storage, kept>>
    BY <1>1 DEF Request
  <2>2. handler'[h].seen = storage[f] /\ handler'[h].file = f
    BY <1>0, <1>1 DEF Request
  <2>3. \A g \in Handler : g # h => handler'[g] = handler[g]
    BY <1>0, <1>1 DEF Request
  <2>. QED BY <2>1, <2>2, <2>3
<1>2. ASSUME NEW h \in Handler, Serve(h), UNCHANGED <<storage, kept>> PROVE SomeInv'
  BY <1>2, ServeStep
<1>3. ASSUME NEW h \in Handler, Store(h) PROVE SomeInv'
  <2>. DEFINE f == handler[h].file
  <2>1. f \in File /\ handler[h].node \in Node /\ handler[h] # Idle
    BY <1>3, PcIsBusy, BusyType DEF TypeOK, Store, At
  <2>2. /\ kept' = [kept EXCEPT ![f] = @ \cup {handler[h].node}]
        /\ storage' = IF handler[h].seen = NoPlace
                        THEN [storage EXCEPT ![f] = PlaceOf[handler[h].node]]
                        ELSE storage
    BY <1>3 DEF Store
  <2>3. \A g \in File : kept[g] # {} => kept'[g] # {}
    BY <1>0, <2>2
  <2>4. ASSUME NEW g \in File
        PROVE  /\ storage'[g] # NoPlace => kept'[g] # {}
               /\ kept'[g] # {} => \E n \in kept'[g] : PlaceOf[n] = storage'[g]
    <3>1. CASE g = f
      BY <1>0, <2>1, <2>2, <3>1
    <3>2. CASE g # f
      BY <1>0, <2>1, <2>2, <3>2
    <3>. QED BY <3>1, <3>2
  <2>5. \A g \in Handler : handler'[g] = IF g = h THEN Idle ELSE handler[g]
    BY <1>0, <1>3 DEF Store
  <2>6. \A g \in Handler : handler[g] # Idle => handler[g].file \in File
    BY BusyType
  <2>. QED BY <2>3, <2>4, <2>5, <2>6
<1>4. ASSUME UNCHANGED <<storage, kept>>, handler' \in {handler, [h \in Handler |-> Idle]}
      PROVE  SomeInv'
  BY <1>4
<1>5. ASSUME NEW h \in Handler, Serve(h) PROVE SomeInv'
  BY <1>2, <1>3, <1>5 DEF Serve, Restrict, ByStorage, RoundRobin, Asked, AddTask
<1>6. CASE (\E f \in File, n \in Node : Reported(f, n)) \/ (\E x \in Xid : Expire(x))
           \/ (\E n \in Node : NodeComes(n) \/ NodeGoes(n)) \/ Restart \/ UNCHANGED vars
  BY <1>4, <1>6 DEF Reported, Expire, NodeComes, NodeGoes, Restart, vars
<1>. QED BY <1>1, <1>5, <1>6 DEF Next

(* However many requests there are at a time and in either mode, a file    *)
(* that clients have uploaded some of has the storage of a node of it.     *)
THEOREM HoldsSome == Spec => []StorageHoldsSome
<1>1. SomeInv => StorageHoldsSome
  BY DEF SomeInv
<1>2. Spec => []SomeInv
  BY InitTypeOK, NextTypeOK, InitSomeInv, NextSomeInv, PTL DEF Spec
<1>. QED BY <1>1, <1>2, PTL

-----------------------------------------------------------------------------
(* Restricted by file, for a file that nobody asks for twice at a time.    *)
AboutToStore(f) ==
    \E h \in Handler : /\ Serving(h, f) /\ handler[h].pc = "store"
                       /\ handler[h].seen = NoPlace
                       /\ handler[h].node = resource[f].nid

HeldTogether(f) ==
    /\ \A g, h \in Handler : Serving(g, f) /\ Serving(h, f) => g = h
    /\ \A h \in Handler : Serving(h, f) =>
         /\ handler[h].seen = storage[f]
         /\ handler[h].pc \in {"ask", "watch", "store"} /\ storage[f] # NoPlace =>
              PlaceOf[handler[h].node] = storage[f]
    /\ resource[f].nid # NoNode =>
         PlaceOf[resource[f].nid] = storage[f] \/ AboutToStore(f)
    /\ \A n \in kept[f] : PlaceOf[n] = storage[f]

AllInv == \A f \in File \ overlapped : HeldTogether(f)

LEMMA InitAllInv == Init => AllInv
<1>. SUFFICES ASSUME Init, NEW f \in File PROVE HeldTogether(f)
  BY DEF AllInv
<1>1. \A h \in Handler : ~Serving(h, f)
  BY DEF Init, Serving
<1>2. resource[f].nid = NoNode /\ kept[f] = {}
  BY DEF Init, Xid, NoResource
<1>. QED BY <1>1, <1>2 DEF HeldTogether

LEMMA RequestAll ==
    ASSUME TypeOK, AllInv, NEW h \in Handler, NEW f \in File, Request(h, f)
    PROVE  AllInv'
<1>0. /\ handler \in [Handler -> Busy \cup {Idle}]
      /\ UNCHANGED <<resource, storage, kept>>
      /\ overlapped \subseteq overlapped'
  BY DEF TypeOK, Request
<1>1. /\ handler'[h].file = f /\ handler'[h].seen = storage[f]
      /\ handler'[h].pc = "restrict"
      /\ handler[h] = Idle
  BY <1>0 DEF Request
<1>2. \A g \in Handler : g # h => handler'[g] = handler[g]
  BY <1>0 DEF Request
<1>3. f \notin overlapped' => \A g \in Handler : ~Serving(g, f)
  BY DEF Request, Serving
<1>4. ASSUME NEW e \in File \ overlapped' PROVE HeldTogether(e)'
  <2>1. HeldTogether(e)
    BY <1>0 DEF AllInv
  <2>2. CASE e = f
    BY <1>0, <1>1, <1>2, <1>3, <2>1, <2>2 DEF HeldTogether, Serving, AboutToStore
  <2>3. CASE e # f
    <3>1. \A g \in Handler : Serving(g, e)' <=> Serving(g, e) /\ g # h
      BY <1>1, <1>2, <2>3 DEF Serving
    <3>2. AboutToStore(e) => AboutToStore(e)'
      BY <1>0, <1>2, <3>1, <1>1 DEF AboutToStore, Serving
    <3>. QED BY <1>0, <1>2, <2>1, <3>1, <3>2 DEF HeldTogether
  <2>. QED BY <2>2, <2>3
<1>. QED BY <1>4 DEF AllInv

(* Steps of a handler up to AddTask, which change no row.                  *)
LEMMA ServeAll ==
    ASSUME Mode = "fid", TypeOK, AllInv, NEW h \in Handler,
           Restrict(h) \/ ByStorage(h) \/ RoundRobin(h) \/ Asked(h)
    PROVE  AllInv'
<1>0. /\ handler \in [Handler -> Busy \cup {Idle}] /\ resource \in [Xid -> Resource]
      /\ online \subseteq Node
      /\ UNCHANGED <<storage, kept, overlapped>>
  BY DEF TypeOK, Restrict, ByStorage, RoundRobin, Asked
<1>1. /\ handler[h] # Idle /\ handler[h].pc # "store" /\ handler[h] \in Busy
      /\ handler[h].file \in File
  BY PcIsBusy, BusyType DEF Restrict, ByStorage, RoundRobin, Asked, At
<1>2. /\ \A g \in Handler : g # h => handler'[g] = handler[g]
      /\ handler'[h] # Idle => /\ handler'[h].file = handler[h].file
                               /\ handler'[h].seen = handler[h].seen
                               /\ handler'[h].pc \in {"watch", "store"} =>
                                    handler'[h].node = handler[h].node
  BY ServeStep DEF Serve
<1>3. \A x \in Xid : resource'[x].nid \in {NoNode, resource[x].nid}
  BY <1>0, DelExpiredType DEF Restrict, ByStorage, RoundRobin, Asked
<1>4. ASSUME handler'[h] # Idle,
             handler'[h].pc \in {"watch", "store"}
      PROVE  handler[h].pc = "ask"
  <2>1. ASSUME NEW n \in Node, Ask(h, n) PROVE FALSE
    <3>1. handler'[h].pc = "ask"
      BY <1>1, <2>1, AskStep
    <3>. QED BY <1>4, <3>1
  <2>2. ~Goto(h, "fallback")
    BY <1>0, <1>1, <1>4 DEF Goto, Busy
  <2>3. ~Fail(h)
    BY <1>0, <1>4 DEF Fail
  <2>4. ~ByStorage(h) /\ ~RoundRobin(h)
    BY <1>0, <2>1, <2>3 DEF ByStorage, RoundRobin
  <2>5. ~Restrict(h)
    BY <1>0, <2>1, <2>2 DEF Restrict
  <2>. QED BY <2>4, <2>5 DEF Asked, At
<1>5. ASSUME handler'[h] # Idle, handler'[h].pc = "ask",
             handler[h].file \notin overlapped, storage[handler[h].file] # NoPlace
      PROVE  PlaceOf[handler'[h].node] = storage[handler[h].file]
  <2>. DEFINE f == handler[h].file
  <2>1. HeldTogether(f) /\ Serving(h, f)
    BY <1>1, <1>5 DEF AllInv, Serving
  <2>2. handler[h].seen = storage[f]
    BY <2>1 DEF HeldTogether
  <2>3. \A n \in Node : Ask(h, n) => handler'[h].node = n
    BY <1>1, AskStep
  <2>4. CASE Restrict(h)
    <3>1. ~Goto(h, "fallback")
      BY <1>0, <1>1, <1>5 DEF Goto, Busy
    <3>2. /\ resource'[f].nid \in Node /\ Ask(h, resource'[f].nid)
      BY <1>0, <2>4, <3>1 DEF Restrict, XidOf
    <3>3. f \in Xid
      BY <1>1 DEF Xid
    <3>4. resource'[f].nid = resource[f].nid /\ resource[f].nid # NoNode
      BY <1>3, <3>2, <3>3
    <3>5. ~AboutToStore(f)
      BY <1>5, <2>1 DEF AboutToStore, HeldTogether
    <3>. QED BY <2>1, <2>3, <3>2, <3>4, <3>5 DEF HeldTogether
  <2>5. CASE ByStorage(h)
    <3>1. ~Fail(h)
      BY <1>0, <1>5 DEF Fail
    <3>. QED BY <1>0, <2>2, <2>3, <2>5, <3>1 DEF ByStorage
  <2>6. CASE RoundRobin(h)
    BY <1>5, <2>2, <2>6 DEF RoundRobin
  <2>7. CASE Asked(h)
    <3>1. ~Goto(h, "watch") /\ ~Fail(h)
      BY <1>0, <1>1, <1>5 DEF Goto, Fail, Busy
    <3>. QED BY <2>7, <3>1 DEF Asked
  <2>. QED BY <2>4, <2>5, <2>6, <2>7
<1>6. ASSUME NEW e \in File \ overlapped' PROVE HeldTogether(e)'
  <2>1. HeldTogether(e) /\ e \in Xid
    BY <1>0 DEF AllInv, Xid
  <2>2. \A g \in Handler : Serving(g, e)' => Serving(g, e)
    BY <1>1, <1>2 DEF Serving
  <2>3. resource'[e].nid # NoNode /\ AboutToStore(e) => AboutToStore(e)'
    BY <1>1, <1>2, <1>3, <2>1 DEF AboutToStore, Serving
  <2>4. ASSUME NEW g \in Handler, Serving(g, e)',
               handler'[g].pc \in {"ask", "watch", "store"}, storage[e] # NoPlace
        PROVE  PlaceOf[handler'[g].node] = storage[e]
    <3>1. CASE g # h
      BY <1>2, <2>1, <2>2, <2>4, <3>1 DEF HeldTogether
    <3>2. CASE g = h /\ handler'[h].pc = "ask"
      <4>1. handler[h].file = e /\ handler'[h] # Idle
        BY <2>2, <2>4, <3>2 DEF Serving
      <4>. QED BY <1>0, <1>5, <2>4, <3>2, <4>1
    <3>3. CASE g = h /\ handler'[h].pc # "ask"
      <4>1. handler'[h] # Idle /\ handler[h].pc = "ask"
             /\ handler'[h].node = handler[h].node
        BY <1>2, <1>4, <2>4, <3>3 DEF Serving
      <4>. QED BY <2>1, <2>2, <2>4, <3>3, <4>1 DEF HeldTogether
    <3>. QED BY <3>1, <3>2, <3>3
  <2>5. \A g \in Handler : Serving(g, e)' => handler'[g].seen = storage[e]
    BY <1>2, <2>1, <2>2 DEF HeldTogether, Serving
  <2>6. resource'[e].nid # NoNode =>
          PlaceOf[resource'[e].nid] = storage[e] \/ AboutToStore(e)'
    BY <1>3, <2>1, <2>3 DEF HeldTogether
  <2>. QED BY <1>0, <2>1, <2>2, <2>4, <2>5, <2>6 DEF HeldTogether
<1>. QED BY <1>6 DEF AllInv

LEMMA AddTaskAll ==
    ASSUME Mode = "fid", TypeOK, AllInv, NEW h \in Handler, AddTask(h)
    PROVE  AllInv'
<1>. DEFINE f == handler[h].file
<1>0. /\ handler \in [Handler -> Busy \cup {Idle}] /\ resource \in [Xid -> Resource]
      /\ UNCHANGED <<storage, kept, overlapped>>
      /\ handler[h].pc = "watch" /\ Goto(h, "store")
  BY DEF TypeOK, AddTask, At
<1>1. /\ handler[h] # Idle /\ handler[h] \in Busy /\ f \in File
      /\ handler[h].node \in Node \cup {NoNode}
  BY <1>0, PcIsBusy, BusyType
<1>2. /\ \A g \in Handler : g # h => handler'[g] = handler[g]
      /\ handler'[h].file = f /\ handler'[h].seen = handler[h].seen
      /\ handler'[h].pc = "store" /\ handler'[h].node = handler[h].node
  BY <1>0, <1>1 DEF Goto, Busy
<1>3. handler'[h] # Idle
  BY <1>2 DEF Idle
<1>4. /\ resource'[f].nid = handler[h].node
      /\ \A x \in Xid : x # f => resource'[x].nid \in {NoNode, resource[x].nid}
  <2>1. resource' = [DelExpired(resource) EXCEPT ![f] =
                       [nid |-> handler[h].node, expired |-> FALSE]]
    BY DEF AddTask, XidOf
  <2>2. f \in Xid
    BY <1>1 DEF Xid
  <2>. HIDE DEF f
  <2>. QED BY <1>0, <2>1, <2>2, DelExpiredType
<1>5. ASSUME NEW e \in File \ overlapped' PROVE HeldTogether(e)'
  <2>1. HeldTogether(e) /\ e \in Xid
    BY <1>0 DEF AllInv, Xid
  <2>2. \A g \in Handler : Serving(g, e)' <=> Serving(g, e)
    BY <1>1, <1>2, <1>3 DEF Serving
  <2>3. \A g \in Handler : Serving(g, e)' =>
          /\ handler'[g].seen = storage[e]
          /\ handler'[g].pc \in {"ask", "watch", "store"} /\ storage[e] # NoPlace =>
               PlaceOf[handler'[g].node] = storage[e]
    BY <1>0, <1>2, <2>1, <2>2 DEF HeldTogether
  <2>4. resource'[e].nid # NoNode =>
          PlaceOf[resource'[e].nid] = storage[e] \/ AboutToStore(e)'
    <3>1. CASE e = f
      <4>1. Serving(h, e)' /\ handler[h].seen = storage[e]
        BY <1>1, <1>2, <1>3, <2>1, <3>1 DEF Serving, HeldTogether
      <4>2. CASE storage[e] = NoPlace
        BY <1>2, <1>4, <3>1, <4>1, <4>2 DEF AboutToStore
      <4>3. CASE storage[e] # NoPlace
        BY <1>2, <1>4, <2>3, <3>1, <4>1, <4>3
      <4>. QED BY <4>2, <4>3
    <3>2. CASE e # f
      <4>1. resource'[e].nid # NoNode /\ AboutToStore(e) => AboutToStore(e)'
        BY <1>0, <1>2, <1>4, <2>1, <2>2, <3>2 DEF AboutToStore, Serving
      <4>. QED BY <1>4, <2>1, <3>2, <4>1 DEF HeldTogether
    <3>. QED BY <3>1, <3>2
  <2>. QED BY <1>0, <2>1, <2>2, <2>3, <2>4 DEF HeldTogether
<1>. QED BY <1>5 DEF AllInv

LEMMA StoreAll ==
    ASSUME TypeOK, AllInv, NEW h \in Handler, Store(h)
    PROVE  AllInv'
<1>. DEFINE f == handler[h].file
            n == handler[h].node
<1>0. /\ handler \in [Handler -> Busy \cup {Idle}]
      /\ storage \in [File -> Place \cup {NoPlace}] /\ kept \in [File -> SUBSET Node]
      /\ UNCHANGED <<resource, overlapped>>
      /\ handler[h].pc = "store"
  BY DEF TypeOK, Store, At
<1>1. handler[h] # Idle /\ f \in File /\ n \in Node
  BY <1>0, PcIsBusy, BusyType DEF TypeOK
<1>2. \A g \in Handler : handler'[g] = IF g = h THEN Idle ELSE handler[g]
  BY <1>0 DEF Store
<1>3. /\ storage' = IF handler[h].seen = NoPlace
                      THEN [storage EXCEPT ![f] = PlaceOf[n]] ELSE storage
      /\ kept' = [kept EXCEPT ![f] = @ \cup {n}]
  BY DEF Store
<1>4. ASSUME NEW e \in File \ overlapped' PROVE HeldTogether(e)'
  <2>1. HeldTogether(e)
    BY <1>0 DEF AllInv
  <2>2. \A g \in Handler : Serving(g, e)' <=> Serving(g, e) /\ g # h
    BY <1>2 DEF Serving
  <2>3. CASE e # f
    <3>1. UNCHANGED <<storage[e], kept[e]>>
      BY <1>0, <1>3, <2>3
    <3>2. AboutToStore(e) => AboutToStore(e)'
      BY <1>0, <1>2, <2>2, <2>3 DEF AboutToStore, Serving
    <3>. QED BY <1>0, <1>2, <2>1, <2>2, <3>1, <3>2 DEF HeldTogether
  <2>4. CASE e = f
    <3>1. Serving(h, e)
      BY <1>1, <2>4 DEF Serving
    <3>2. /\ handler[h].seen = storage[e]
          /\ \A g \in Handler : ~Serving(g, e)'
          /\ storage[e] # NoPlace => PlaceOf[n] = storage[e]
      BY <1>0, <2>1, <2>2, <3>1 DEF HeldTogether
    <3>3. storage'[e] = PlaceOf[n]
      BY <1>0, <1>1, <1>3, <2>4, <3>2
    <3>4. \A m \in kept[e] : PlaceOf[m] = PlaceOf[n]
      <4>1. storage[e] = NoPlace => kept[e] = {}
        BY <1>0, <2>1 DEF HeldTogether
      <4>. QED BY <2>1, <3>2, <4>1 DEF HeldTogether
    <3>5. resource[e].nid # NoNode => PlaceOf[resource[e].nid] = PlaceOf[n]
      <4>1. CASE AboutToStore(e)
        BY <2>1, <3>1, <4>1 DEF AboutToStore, HeldTogether
      <4>2. CASE ~AboutToStore(e) /\ resource[e].nid # NoNode
        <5>1. PlaceOf[resource[e].nid] = storage[e]
          BY <2>1, <4>2 DEF HeldTogether
        <5>2. resource[e].nid \in Node
          BY <4>2 DEF TypeOK, Resource, Xid
        <5>. QED BY <3>2, <5>1, <5>2
      <4>. QED BY <4>1, <4>2
    <3>. QED BY <1>0, <1>1, <1>3, <2>4, <3>2, <3>3, <3>4, <3>5 DEF HeldTogether
  <2>. QED BY <2>3, <2>4
<1>. QED BY <1>4 DEF AllInv

LEMMA NextAllInv ==
    Mode = "fid" /\ TypeOK /\ AllInv /\ [Next]_vars => AllInv'
<1>. SUFFICES ASSUME Mode = "fid", TypeOK, AllInv, [Next]_vars PROVE AllInv'
  OBVIOUS
<1>1. ASSUME NEW h \in Handler, Serve(h) PROVE AllInv'
  BY <1>1, ServeAll, AddTaskAll, StoreAll DEF Serve
<1>2. ASSUME UNCHANGED <<handler, storage, kept, overlapped>>,
             \A f \in File : resource'[f].nid = resource[f].nid
      PROVE  AllInv'
  BY <1>2 DEF AllInv, HeldTogether, AboutToStore, Serving
<1>3. ASSUME NEW f \in File, NEW n \in Node, Reported(f, n) PROVE AllInv'
  <2>1. \A e \in File : resource'[e].nid = resource[e].nid
    BY <1>3 DEF Reported, TypeOK, Resource, Xid
  <2>. QED BY <1>2, <1>3, <2>1 DEF Reported
<1>4. ASSUME NEW x \in Xid, Expire(x) PROVE AllInv'
  <2>1. \A e \in File : resource'[e].nid = resource[e].nid
    BY <1>4 DEF Expire, TypeOK, Resource, Xid
  <2>. QED BY <1>2, <1>4, <2>1 DEF Expire
<1>5. CASE Restart
  <2>1. \A e \in File, h \in Handler : ~Serving(h, e)'
    BY <1>5 DEF Restart, Serving
  <2>2. \A e \in File : resource'[e].nid = NoNode
    BY <1>5 DEF Restart, NoResource, Xid
  <2>3. UNCHANGED <<storage, kept, overlapped>>
    BY <1>5 DEF Restart
  <2>. QED BY <2>1, <2>2, <2>3 DEF AllInv, HeldTogether
<1>6. CASE (\E n \in Node : NodeComes(n) \/ NodeGoes(n)) \/ UNCHANGED vars
  BY <1>2, <1>6 DEF NodeComes, NodeGoes, vars
<1>. QED BY <1>1, <1>3, <1>4, <1>5, <1>6, RequestAll DEF Next

(* Restricted by file, everything a client has uploaded of a file, asking  *)
(* once at a time, is on the storage where downloads look for it.          *)
THEOREM HoldsAll == ASSUME Mode = "fid" PROVE Spec => []StorageHoldsAll
<1>1. AllInv => StorageHoldsAll
  BY DEF AllInv, HeldTogether, StorageHoldsAll
<1>2. Mode = "fid"
  OBVIOUS
<1>3. Spec => []AllInv
  BY <1>2, InitTypeOK, NextTypeOK, InitAllInv, NextAllInv, PTL DEF Spec
<1>. QED BY <1>1, <1>3, PTL
=============================================================================

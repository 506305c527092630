------------------------- MODULE NodeRegistryProofs -------------------------
(***************************************************************************)
(* Proofs about NodeRegistry, for any sets of connections, nodes, zones    *)
(* and handlers and any bounds.                                            *)
(***************************************************************************)
EXTENDS NodeRegistry, SequenceTheorems, WellFoundedInduction,
        FiniteSetTheorems, TLAPS

-----------------------------------------------------------------------------
(* RoundRobin: what the operations of a unit queue preserve, for queues of *)
(* any length over any set of units.                                       *)

(* The least of a nonempty set of positions is one of them, and least.     *)
LEMMA MinOfPositions ==
    ASSUME NEW I \in SUBSET Nat, I # {}
    PROVE  Min(I) \in I /\ \A i \in I : Min(I) <= i
<1>1. PICK x \in I : \A y \in I : ~(<<y, x>> \in OpToRel(<, Nat))
  BY NatLessThanWellFounded, WFMin
<1>2. ASSUME NEW y \in I PROVE x <= y
  <2>1. <<y, x>> \in Nat \X Nat
    OBVIOUS
  <2>2. ~(y < x)
    BY <1>1, <2>1 DEF OpToRel
  <2>. QED BY <2>2
<1>. QED
  BY <1>2 DEF Min

(* Taking one position out of a queue leaves the other units in place.     *)
LEMMA RemoveAtKeeps ==
    ASSUME NEW U, NEW q \in Seq(U), NEW i \in 1..Len(q)
    PROVE  /\ RemoveAt(q, i) \in Seq(U)
           /\ Len(RemoveAt(q, i)) = Len(q) - 1
           /\ \A j \in 1..Len(q)-1 :
                RemoveAt(q, i)[j] = IF j < i THEN q[j] ELSE q[j+1]
<1>. DEFINE front == SubSeq(q, 1, i-1)
            back  == SubSeq(q, i+1, Len(q))
<1>1. Len(q) \in Nat /\ \A j \in 1..Len(q) : q[j] \in U
  BY LenProperties, ElementOfSeq
<1>2. /\ front \in Seq(U) /\ Len(front) = i-1
      /\ \A j \in 1..i-1 : front[j] = q[j]
  BY <1>1, SubSeqProperties
<1>3. /\ back \in Seq(U) /\ Len(back) = Len(q) - i
      /\ \A j \in 1..Len(q)-i : back[j] = q[i+j]
  <2>1. \A j \in i+1..Len(q) : q[j] \in U
    BY <1>1
  <2>2. /\ back \in Seq(U)
        /\ Len(back) = IF i+1 <= Len(q) THEN Len(q)-(i+1)+1 ELSE 0
        /\ \A j \in 1..Len(q)-(i+1)+1 : back[j] = q[(i+1)+j-1]
    BY <1>1, <2>1, SubSeqProperties
  <2>. QED BY <1>1, <2>2
<1>4. /\ front \o back \in Seq(U)
      /\ Len(front \o back) = Len(front) + Len(back)
      /\ \A j \in 1..Len(front)+Len(back) :
           (front \o back)[j] =
             IF j <= Len(front) THEN front[j] ELSE back[j - Len(front)]
  BY <1>2, <1>3, ConcatProperties
<1>5. RemoveAt(q, i) = front \o back
  BY DEF RemoveAt
<1>. HIDE DEF front, back
<1>6. Len(front) + Len(back) = Len(q) - 1
  BY <1>1, <1>2, <1>3
<1>7. ASSUME NEW j \in 1..Len(q)-1
      PROVE  (front \o back)[j] = IF j < i THEN q[j] ELSE q[j+1]
  <2>1. CASE j < i
    BY <1>1, <1>2, <1>4, <1>6, <2>1
  <2>2. CASE ~(j < i)
    <3>1. ~(j <= Len(front)) /\ j - Len(front) \in 1..Len(q)-i
      BY <1>1, <1>2, <2>2
    <3>2. back[j - Len(front)] = q[i + (j - Len(front))]
      BY <1>3, <3>1
    <3>. QED BY <1>1, <1>2, <1>4, <1>6, <2>2, <3>1, <3>2
  <2>. QED BY <2>1, <2>2
<1>. QED
  BY <1>4, <1>5, <1>6, <1>7

(* Every unit of a queue but the one at the position taken out is kept.    *)
LEMMA RemoveAtContains ==
    ASSUME NEW U, NEW q \in Seq(U), NEW i \in 1..Len(q), NEW v
    PROVE  /\ Contains(RemoveAt(q, i), v) => Contains(q, v)
           /\ Contains(q, v) /\ v # q[i] => Contains(RemoveAt(q, i), v)
<1>1. /\ Len(q) \in Nat /\ Len(RemoveAt(q, i)) = Len(q) - 1
      /\ \A j \in 1..Len(q)-1 :
           RemoveAt(q, i)[j] = IF j < i THEN q[j] ELSE q[j+1]
  BY RemoveAtKeeps, LenProperties
<1>2. ASSUME Contains(RemoveAt(q, i), v) PROVE Contains(q, v)
  BY <1>1, <1>2 DEF Contains
<1>3. ASSUME Contains(q, v), v # q[i] PROVE Contains(RemoveAt(q, i), v)
  <2>1. PICK k \in 1..Len(q) : q[k] = v
    BY <1>3 DEF Contains
  <2>2. CASE k < i
    BY <1>1, <2>1, <2>2 DEF Contains
  <2>3. CASE k > i
    <3>1. k-1 \in 1..Len(q)-1 /\ ~(k-1 < i) /\ (k-1)+1 = k
      BY <1>1, <2>3
    <3>. QED BY <1>1, <2>1, <3>1 DEF Contains
  <2>. QED BY <1>3, <2>1, <2>2, <2>3, <1>1
<1>. QED BY <1>2, <1>3

(* Put keeps what is queued and adds one unit.                             *)
LEMMA PutKeeps ==
    ASSUME NEW U, NEW q \in Seq(U), NEW u \in U
    PROVE  /\ Put(q, u) \in Seq(U)
           /\ \A v : Contains(Put(q, u), v) <=> Contains(q, v) \/ v = u
<1>1. /\ Append(q, u) \in Seq(U) /\ Len(q) \in Nat
      /\ Len(Append(q, u)) = Len(q)+1
      /\ \A i \in 1..Len(q) : Append(q, u)[i] = q[i]
      /\ Append(q, u)[Len(q)+1] = u
  BY AppendProperties, LenProperties
<1>. QED
  BY <1>1 DEF Put, Contains

(* Pop keeps every other unit and adds none.                               *)
LEMMA PopKeeps ==
    ASSUME NEW U, NEW q \in Seq(U), NEW u
    PROVE  /\ Pop(q, u) \in Seq(U)
           /\ \A v : v # u /\ Contains(q, v) => Contains(Pop(q, u), v)
           /\ \A v : Contains(Pop(q, u), v) => Contains(q, v)
<1>. DEFINE I == {i \in 1..Len(q) : q[i] = u}
<1>1. CASE \E i \in 1..Len(q) : q[i] = u
  <2>1. I \in SUBSET Nat /\ I # {}
    BY <1>1, LenProperties
  <2>2. Min(I) \in I
    BY <2>1, MinOfPositions
  <2>3. Pop(q, u) = RemoveAt(q, Min(I))
    BY <1>1, <2>1 DEF Pop, RemoveFirst, SelectInSeq
  <2>4. q[Min(I)] = u /\ Min(I) \in 1..Len(q)
    BY <2>2
  <2>. HIDE DEF I
  <2>. QED
    BY <2>3, <2>4, RemoveAtKeeps, RemoveAtContains
<1>2. CASE ~ \E i \in 1..Len(q) : q[i] = u
  BY <1>2 DEF Pop, RemoveFirst
<1>. QED BY <1>1, <1>2

(* A dispatch only reorders the queue: no unit is gained or lost.          *)
LEMMA GetKeeps ==
    ASSUME NEW U, NEW q \in Seq(U), NEW Ok, Found(q, Ok)
    PROVE  /\ Get(q, Ok) \in Seq(U)
           /\ \A v : Contains(Get(q, Ok), v) <=> Contains(q, v)
<1>. DEFINE i == Pick(q, Ok)
<1>1. i \in 1..Len(q)
  <2>1. DOMAIN q = 1..Len(q) /\ Len(q) \in Nat
    BY LenProperties
  <2>2. Accepted(q, Ok) \in SUBSET Nat /\ Accepted(q, Ok) # {}
    BY <2>1 DEF Accepted, Found
  <2>3. Pick(q, Ok) \in Accepted(q, Ok)
    BY <2>2, MinOfPositions DEF Pick
  <2>. QED BY <2>1, <2>3 DEF Accepted
<1>2. q[i] \in U
  BY <1>1, ElementOfSeq
<1>3. RemoveAt(q, i) \in Seq(U)
  BY <1>1, RemoveAtKeeps
<1>4. Get(q, Ok) = Put(RemoveAt(q, i), q[i])
  BY DEF Get, MoveToBack, Put
<1>5. Contains(q, q[i])
  BY <1>1 DEF Contains
<1>. HIDE DEF i
<1>6. /\ Put(RemoveAt(q, i), q[i]) \in Seq(U)
      /\ \A v : Contains(Put(RemoveAt(q, i), q[i]), v)
                <=> Contains(RemoveAt(q, i), v) \/ v = q[i]
  <2>. DEFINE rest == RemoveAt(q, i)
              u == q[i]
  <2>1. rest \in Seq(U) /\ u \in U
    BY <1>2, <1>3
  <2>. HIDE DEF rest, u
  <2>2. /\ Put(rest, u) \in Seq(U)
        /\ \A v : Contains(Put(rest, u), v) <=> Contains(rest, v) \/ v = u
    BY <2>1, PutKeeps
  <2>. QED BY <2>2 DEF rest, u
<1>7. ASSUME NEW v PROVE Contains(Get(q, Ok), v) <=> Contains(q, v)
  BY <1>1, <1>4, <1>5, <1>6, RemoveAtContains
<1>. QED
  BY <1>4, <1>6, <1>7

-----------------------------------------------------------------------------
(* NodeRegistry: the types.                                                *)

USE ConstAssumption

(* What AddNode and DelNode of the observers make of the zone queues.      *)
LEMMA ZonePutType ==
    ASSUME NEW zq \in [Zone -> Seq(Conn)], NEW z \in ZoneOrNone, NEW c \in Conn
    PROVE  ZonePut(zq, z, c) \in [Zone -> Seq(Conn)]
BY PutKeeps DEF ZonePut, ZoneOrNone

LEMMA ZonePopType ==
    ASSUME NEW zq \in [Zone -> Seq(Conn)], NEW z \in ZoneOrNone, NEW c \in Conn
    PROVE  ZonePop(zq, z, c) \in [Zone -> Seq(Conn)]
BY PopKeeps DEF ZonePop, ZoneOrNone

(* Every value NextNid gives to a reloader is well typed.                  *)
LEMMA NextNidType ==
    ASSUME NEW r \in Reload
    PROVE  NextNid(r) \in Reload
BY DEF NextNid, Reload, ReloadPC, Idle, ZoneOrNone

LEMMA InitTypeOK == Init => TypeOK
BY EmptySeq DEF Init, TypeOK, Idle, Reload, ReloadPC,
                ZoneOrNone, ConnPC

(* One step per action; the handlers of a connection leave reload alone.   *)
LEMMA NextTypeOK == TypeOK /\ [Next]_vars => TypeOK'
<1>. SUFFICES ASSUME TypeOK, [Next]_vars PROVE TypeOK'
  OBVIOUS
<1>. USE DEF TypeOK, connVars, mapVars
<1>1. ASSUME NEW c \in Conn, Login(c) PROVE TypeOK'
  BY <1>1 DEF Login, ConnPC
<1>2. ASSUME NEW c \in Conn, AddNode(c) PROVE TypeOK'
  <2>1. uploadQ' \in Seq(Conn) /\ zoneQ' \in [Zone -> Seq(Conn)]
    BY <1>2, PutKeeps, ZonePutType DEF AddNode, ObserversAddNode
  <2>2. closed' \in [Conn -> BOOLEAN] /\ leaked' \in [Conn -> BOOLEAN]
    BY <1>2 DEF AddNode, ShutDown
  <2>. QED BY <1>2, <2>1, <2>2 DEF AddNode, ConnPC
<1>3. ASSUME NEW c \in Conn, AddNodePanics(c) PROVE TypeOK'
  BY <1>3 DEF AddNodePanics, ConnPC
<1>4. ASSUME NEW c \in Conn, AddNodeBlocks(c) PROVE TypeOK'
  BY <1>4 DEF AddNodeBlocks, ConnPC
<1>5. ASSUME NEW c \in Conn, ReadFails(c) PROVE TypeOK'
  BY <1>5 DEF ReadFails, ConnPC
<1>6. ASSUME NEW c \in Conn, LateResponse(c) PROVE TypeOK'
  BY <1>6 DEF LateResponse, ConnPC
<1>18. ASSUME NEW c \in Conn, RepeatedResponse(c) PROVE TypeOK'
  BY <1>18 DEF RepeatedResponse, ConnPC
<1>7. ASSUME NEW c \in Conn, CloseSelf(c) PROVE TypeOK'
  BY <1>7 DEF CloseSelf, ShutDown, ConnPC
<1>8. ASSUME NEW c \in Conn, DelNode(c) PROVE TypeOK'
  <2>1. uploadQ' \in Seq(Conn) /\ zoneQ' \in [Zone -> Seq(Conn)]
    <3>1. CASE idMap[NidOf[c]] = NoConn
      BY <1>8, <3>1 DEF DelNode
    <3>2. CASE idMap[NidOf[c]] # NoConn
      <4>1. idMap[NidOf[c]] \in Conn
        BY <3>2
      <4>2. /\ uploadQ' = Pop(uploadQ, idMap[NidOf[c]])
            /\ zoneQ' = ZonePop(zoneQ, zoneId[idMap[NidOf[c]]], idMap[NidOf[c]])
        BY <1>8, <3>2 DEF DelNode, ObserversDelNode
      <4>3. Pop(uploadQ, idMap[NidOf[c]]) \in Seq(Conn)
        BY PopKeeps
      <4>4. zoneId[idMap[NidOf[c]]] \in ZoneOrNone
        BY <4>1
      <4>. QED BY <4>1, <4>2, <4>3, <4>4, ZonePopType
    <3>. QED BY <3>1, <3>2
  <2>. QED BY <1>8, <2>1 DEF DelNode, ConnPC
<1>9. CASE DispatchUpload
  <2>1. PICK Ok \in SUBSET Conn :
          Found(uploadQ, Ok) /\ uploadQ' = Get(uploadQ, Ok)
    BY <1>9 DEF DispatchUpload
  <2>2. Get(uploadQ, Ok) \in Seq(Conn)
    BY <2>1, GetKeeps
  <2>3. UNCHANGED <<connVars, idMap, zoneQ, mux, dbZone, reload, edits>>
    BY <1>9 DEF DispatchUpload
  <2>. QED BY <2>1, <2>2, <2>3
<1>10. ASSUME NEW z \in Zone, DispatchDownload(z) PROVE TypeOK'
  <2>. DEFINE q == zoneQ[z]
  <2>0. q \in Seq(Conn) /\ Found(q, Conn)
    BY <1>10 DEF DispatchDownload
  <2>. HIDE DEF q
  <2>1. Get(q, Conn) \in Seq(Conn)
    BY <2>0, GetKeeps
  <2>2. zoneQ' = [zoneQ EXCEPT ![z] = Get(q, Conn)]
    BY <1>10 DEF DispatchDownload, q
  <2>. QED BY <1>10, <2>1, <2>2 DEF DispatchDownload
<1>11. ASSUME NEW a \in Admin, ZoneEdit(a) PROVE TypeOK'
  <2>1. ASSUME NEW S \in SUBSET Nid, NEW zones \in [Nid -> ZoneOrNone],
               Edit(a, S, zones)
        PROVE  TypeOK'
    <3>. DEFINE r == [Idle EXCEPT !.pc = "lookup", !.todo = S]
    <3>1. r \in Reload /\ r.pc = "lookup"
      BY DEF Reload, ReloadPC, Idle, ZoneOrNone
    <3>. HIDE DEF r
    <3>2. reload' = [reload EXCEPT ![a] = r]
      BY <2>1 DEF Edit, r
    <3>3. edits' \in 0..MaxZoneEdits /\ dbZone' \in [Nid -> ZoneOrNone]
      BY <2>1 DEF Edit
    <3>. QED BY <2>1, <3>1, <3>2, <3>3 DEF Edit
  <2>2. ASSUME NEW n \in Nid, NEW z \in ZoneOrNone, PutZone(a, n, z)
        PROVE  TypeOK'
    <3>1. [dbZone EXCEPT ![n] = z] \in [Nid -> ZoneOrNone] /\ {n} \in SUBSET Nid
      OBVIOUS
    <3>. QED BY <2>1, <2>2, <3>1 DEF PutZone
  <2>3. ASSUME NEW z \in Zone, NEW add \in SUBSET Nid, NEW del \in SUBSET Nid,
               PutNodes(a, z, add, del)
        PROVE  TypeOK'
    <3>. DEFINE zones == [n \in Nid |->
                   IF n \in del /\ (n \in add \/ dbZone[n] = z) THEN NoZone
                   ELSE IF n \in add THEN z ELSE dbZone[n]]
    <3>1. zones \in [Nid -> ZoneOrNone] /\ add \cup del \in SUBSET Nid
      BY DEF ZoneOrNone
    <3>2. Edit(a, add \cup del, zones)
      BY <2>3 DEF PutNodes
    <3>. HIDE DEF zones
    <3>. QED BY <2>1, <3>1, <3>2
  <2>4. ASSUME NEW z \in Zone, ListZone(a, z) PROVE TypeOK'
    <3>. DEFINE r == [Idle EXCEPT !.pc = "clear",
                       !.todo = {n \in Nid : dbZone[n] = z}, !.new = z]
    <3>1. r \in Reload /\ r.pc = "clear"
      BY DEF Reload, ReloadPC, Idle, ZoneOrNone
    <3>. HIDE DEF r
    <3>2. reload' = [reload EXCEPT ![a] = r]
      BY <2>4 DEF ListZone, r
    <3>. QED BY <2>4, <3>1, <3>2 DEF ListZone
  <2>. QED BY <1>11, <2>2, <2>3, <2>4 DEF ZoneEdit
<1>17. ASSUME NEW a \in Admin, ClearZone(a) PROVE TypeOK'
  <2>1. reload[a] \in Reload
    OBVIOUS
  <2>2. NextNid(reload[a]) \in Reload
        /\ NextNid(reload[a]).pc \in {"idle", "lookup"}
    BY <2>1, NextNidType DEF NextNid, Idle
  <2>3. /\ reload' = [reload EXCEPT ![a] = NextNid(reload[a])]
        /\ dbZone' \in [Nid -> ZoneOrNone]
    BY <1>17 DEF ClearZone, ZoneOrNone
  <2>. QED BY <1>17, <2>2, <2>3 DEF ClearZone
<1>12. ASSUME NEW a \in Admin, NEW n \in Nid, Lookup(a, n) PROVE TypeOK'
  <2>. DEFINE rest == [reload[a] EXCEPT !.todo = @ \ {n}]
  <2>0. reload[a] \in Reload
    OBVIOUS
  <2>1. rest \in Reload
    BY <2>0 DEF Reload
  <2>2. NextNid(rest) \in Reload /\ NextNid(rest).pc \in {"idle", "lookup"}
    BY <2>1, NextNidType DEF NextNid, Idle
  <2>3. CASE idMap[n] = NoConn
    <3>1. reload' = [reload EXCEPT ![a] = NextNid(rest)]
      BY <1>12, <2>3 DEF Lookup
    <3>. QED BY <1>12, <2>2, <3>1, ZenonT(60) DEF Lookup
  <2>4. CASE idMap[n] # NoConn
    <3>1. reload' = [reload EXCEPT ![a] = [rest EXCEPT !.pc = "read",
                                                       !.node = idMap[n]]]
      BY <1>12, <2>4 DEF Lookup
    <3>2. idMap[n] \in Conn
      BY <2>4
    <3>3. [rest EXCEPT !.pc = "read", !.node = idMap[n]] \in Reload
      BY <2>1, <3>2 DEF Reload, ReloadPC
    <3>4. [rest EXCEPT !.pc = "read", !.node = idMap[n]].node = idMap[n]
      BY <2>1 DEF Reload
    <3>. QED BY <1>12, <3>1, <3>2, <3>3, <3>4 DEF Lookup
  <2>. QED BY <2>3, <2>4
<1>13. ASSUME NEW a \in Admin, ReadModel(a) PROVE TypeOK'
  <2>. DEFINE r == reload[a]
              fresh == dbZone[NidOf[r.node]]
              next == [r EXCEPT !.pc = "change", !.old = zoneId[r.node],
                                !.new = fresh]
  <2>0. reload[a] \in Reload
    OBVIOUS
  <2>1. r \in Reload /\ r.node \in Conn
    BY <1>13, <2>0 DEF ReadModel, Reload
  <2>2. NextNid(r) \in Reload /\ NextNid(r).pc \in {"idle", "lookup"}
    BY <2>1, NextNidType DEF NextNid, Idle
  <2>3. next \in Reload /\ next.node = r.node
    BY <2>1 DEF Reload, ReloadPC
  <2>4. \/ reload' = [reload EXCEPT ![a] = NextNid(r)]
        \/ reload' = [reload EXCEPT ![a] = next]
    BY <1>13 DEF ReadModel
  <2>. HIDE DEF r, next
  <2>. QED BY <1>13, <2>1, <2>2, <2>3, <2>4 DEF ReadModel
<1>14. ASSUME NEW a \in Admin, NodeZoneChange(a) PROVE TypeOK'
  <2>1. /\ reload[a].node \in Conn
        /\ reload[a].old \in ZoneOrNone /\ reload[a].new \in ZoneOrNone
    BY <1>14 DEF NodeZoneChange, Reload
  <2>2. zoneQ' \in [Zone -> Seq(Conn)]
    BY <1>14, <2>1, ZonePutType, ZonePopType DEF NodeZoneChange
  <2>3. reload' \in [Admin -> Reload]
      /\ \A b \in Admin : reload'[b].pc \in {"read", "change", "assign"}
                         => reload'[b].node # NoConn
    BY <1>14, <2>1, ZenonT(60) DEF NodeZoneChange, Reload, ReloadPC
  <2>. QED BY <1>14, <2>2, <2>3 DEF NodeZoneChange
<1>15. ASSUME NEW a \in Admin, AssignZone(a) PROVE TypeOK'
  <2>1. /\ reload[a] \in Reload /\ reload[a].node \in Conn
        /\ reload[a].new \in ZoneOrNone
    BY <1>15 DEF AssignZone, Reload
  <2>2. NextNid(reload[a]) \in Reload
        /\ NextNid(reload[a]).pc \in {"idle", "lookup"}
    BY <2>1, NextNidType DEF NextNid, Idle
  <2>3. reload' = [reload EXCEPT ![a] = NextNid(reload[a])]
    BY <1>15 DEF AssignZone
  <2>. QED BY <1>15, <2>1, <2>2, <2>3 DEF AssignZone
<1>16. CASE UNCHANGED vars
  BY <1>16 DEF vars
<1>. QED
  BY <1>1, <1>2, <1>3, <1>4, <1>5, <1>6, <1>7, <1>8, <1>9, <1>10, <1>11,
     <1>12, <1>13, <1>14, <1>15, <1>16, <1>17, <1>18 DEF Next, Handler, Reloader

(* Every variable keeps its type.                                          *)
THEOREM TypeCorrect == Spec => []TypeOK
BY InitTypeOK, NextTypeOK, PTL DEF Spec

-----------------------------------------------------------------------------
(* The inductive invariant.  id_map holds a connection only under its own  *)
(* nid, so DelNode, which works by nid, takes the queue entry of the very  *)
(* connection it takes out of id_map; and a connection that was registered *)
(* has logged in, so its handler cannot have returned without DelNode.     *)
RegistryInv ==
    /\ \A n \in Nid : idMap[n] # NoConn =>
         /\ NidOf[idMap[n]] = n
         /\ Contains(uploadQ, idMap[n])
         /\ logins[idMap[n]] > 0
         /\ pc[idMap[n]] # "done"
    /\ \A c \in Conn : pc[c] = "adding" => logins[c] > 0

LEMMA InitRegistryInv == Init => RegistryInv
BY DEF Init, RegistryInv

LEMMA NextRegistryInv ==
    TypeOK /\ RegistryInv /\ [Next]_vars => RegistryInv'
<1>. SUFFICES ASSUME TypeOK, RegistryInv, [Next]_vars PROVE RegistryInv'
  OBVIOUS
<1>0. /\ pc \in [Conn -> ConnPC] /\ logins \in [Conn -> 0..MaxLogins]
      /\ idMap \in [Nid -> Conn \cup {NoConn}] /\ uploadQ \in Seq(Conn)
  BY DEF TypeOK
<1>. USE <1>0 DEF connVars, mapVars, RegistryInv, ConnPC
<1>1. ASSUME NEW c \in Conn, Login(c) PROVE RegistryInv'
  BY <1>1 DEF Login
<1>2. ASSUME NEW c \in Conn, AddNode(c) PROVE RegistryInv'
  <2>1. \A d : Contains(uploadQ', d) <=> Contains(uploadQ, d) \/ d = c
    BY <1>2, PutKeeps DEF AddNode, ObserversAddNode
  <2>. QED BY <1>2, <2>1 DEF AddNode
<1>3. ASSUME NEW c \in Conn, AddNodePanics(c) PROVE RegistryInv'
  BY <1>3 DEF AddNodePanics
<1>4. ASSUME NEW c \in Conn, AddNodeBlocks(c) PROVE RegistryInv'
  BY <1>4 DEF AddNodeBlocks
<1>5. ASSUME NEW c \in Conn, ReadFails(c) PROVE RegistryInv'
  BY <1>5 DEF ReadFails
<1>6. ASSUME NEW c \in Conn, LateResponse(c) PROVE RegistryInv'
  BY <1>6 DEF LateResponse
<1>14. ASSUME NEW c \in Conn, RepeatedResponse(c) PROVE RegistryInv'
  BY <1>14 DEF RepeatedResponse
<1>7. ASSUME NEW c \in Conn, CloseSelf(c) PROVE RegistryInv'
  BY <1>7 DEF CloseSelf
<1>8. ASSUME NEW c \in Conn, DelNode(c) PROVE RegistryInv'
  <2>1. CASE idMap[NidOf[c]] = NoConn
    BY <1>8, <2>1 DEF DelNode
  <2>2. CASE idMap[NidOf[c]] # NoConn
    <3>1. idMap' = [idMap EXCEPT ![NidOf[c]] = NoConn]
          /\ uploadQ' = Pop(uploadQ, idMap[NidOf[c]])
      BY <1>8, <2>2 DEF DelNode, ObserversDelNode
    <3>2. \A d : d # idMap[NidOf[c]] /\ Contains(uploadQ, d) => Contains(uploadQ', d)
      BY <3>1, PopKeeps
    <3>. QED BY <1>8, <3>1, <3>2 DEF DelNode
  <2>. QED BY <2>1, <2>2
<1>9. CASE DispatchUpload
  <2>1. \A d : Contains(uploadQ', d) <=> Contains(uploadQ, d)
    BY <1>9, GetKeeps DEF DispatchUpload
  <2>. QED BY <1>9, <2>1 DEF DispatchUpload
<1>10. ASSUME NEW z \in Zone, DispatchDownload(z) PROVE RegistryInv'
  BY <1>10 DEF DispatchDownload
<1>11. ASSUME NEW a \in Admin, ZoneEdit(a) PROVE RegistryInv'
  BY <1>11 DEF ZoneEdit, PutZone, PutNodes, ListZone, Edit
<1>12. ASSUME NEW a \in Admin, Reloader(a) PROVE RegistryInv'
  BY <1>12 DEF Reloader, ClearZone, Lookup, ReadModel, NodeZoneChange, AssignZone
<1>13. CASE UNCHANGED vars
  BY <1>13 DEF vars
<1>. QED
  BY <1>1, <1>2, <1>3, <1>4, <1>5, <1>6, <1>7, <1>8, <1>9, <1>10, <1>11,
     <1>12, <1>13, <1>14 DEF Next, Handler

LEMMA RegistryInvariant == Spec => []RegistryInv
BY InitTypeOK, NextTypeOK, InitRegistryInv, NextRegistryInv, PTL DEF Spec

(* A node that is online can be given uploads.                             *)
THEOREM OnlineSchedulable == Spec => []OnlineIsSchedulable
<1>1. RegistryInv => OnlineIsSchedulable
  BY DEF RegistryInv, OnlineIsSchedulable
<1>. QED BY <1>1, RegistryInvariant, PTL

(* A connection whose handler has returned is offline.                     *)
THEOREM DoneOffline == Spec => []DoneIsOffline
<1>1. RegistryInv => DoneIsOffline
  BY DEF RegistryInv, DoneIsOffline
<1>. QED BY <1>1, RegistryInvariant, PTL

-----------------------------------------------------------------------------
(* Only a connection that was closed has a channel to close twice, and who *)
(* is closed does not log in: so a connection that waits for AddNode while *)
(* it is registered is open, and so is one that is registered after its    *)
(* first login, until its own handler closes it or is blocked reading.     *)
Online(c) == idMap[NidOf[c]] = c

ClosedRight(c) ==
    /\ leaked[c] => closed[c]
    /\ jammed[c] => leaked[c] \/ pc[c] = "choked"
    /\ logins[c] = 0 /\ pc[c] = "open" => ~closed[c]
    /\ Online(c) /\ pc[c] = "adding" => ~closed[c] /\ logins[c] > 1
    /\ logins[c] < 2 /\ pc[c] = "adding" => ~closed[c]
    /\ logins[c] < 2 /\ Online(c) =>
         \/ pc[c] \in {"deleting", "choked"}
         \/ pc[c] \in {"open", "closing"} /\ ~closed[c]

CloseInv == \A c \in Conn : ClosedRight(c)

LEMMA InitCloseInv == Init => CloseInv
BY DEF Init, CloseInv, ClosedRight, Online

LEMMA NextCloseInv ==
    TypeOK /\ RegistryInv /\ CloseInv /\ [Next]_vars => CloseInv'
<1>. SUFFICES ASSUME TypeOK, RegistryInv, CloseInv, [Next]_vars,
                     NEW d \in Conn
              PROVE  ClosedRight(d)'
  BY DEF CloseInv
<1>0. /\ pc \in [Conn -> ConnPC] /\ logins \in [Conn -> 0..MaxLogins]
      /\ idMap \in [Nid -> Conn \cup {NoConn}]
      /\ closed \in [Conn -> BOOLEAN] /\ leaked \in [Conn -> BOOLEAN]
      /\ jammed \in [Conn -> BOOLEAN]
  BY DEF TypeOK
<1>r. \A c \in Conn : Online(c) => logins[c] > 0
  BY DEF RegistryInv, Online
<1>s. \A c \in Conn : ClosedRight(c)
  BY DEF CloseInv
<1>. USE <1>0, <1>r, <1>s DEF connVars, mapVars, ConnPC, ClosedRight, Online
<1>1. ASSUME NEW c \in Conn, Login(c) PROVE ClosedRight(d)'
  BY <1>1 DEF Login
<1>2. ASSUME NEW c \in Conn, AddNode(c) PROVE ClosedRight(d)'
  <2>1. CASE idMap[NidOf[c]] = NoConn
    BY <1>2, <2>1 DEF AddNode
  <2>2. CASE idMap[NidOf[c]] # NoConn
    <3>. DEFINE old == idMap[NidOf[c]]
    <3>1. old \in Conn /\ NidOf[old] = NidOf[c]
      BY <2>2 DEF RegistryInv
    <3>2. /\ ~jammed[old] /\ ~leaked[old]
          /\ closed' = [closed EXCEPT ![old] = TRUE]
          /\ leaked' \in {[leaked EXCEPT ![old] = TRUE], [leaked EXCEPT ![old] = FALSE]}
          /\ idMap' = [idMap EXCEPT ![NidOf[c]] = c]
          /\ pc[c] = "adding" /\ pc' = [pc EXCEPT ![c] = "open"]
          /\ UNCHANGED <<logins, jammed>>
      BY <1>2, <2>2 DEF AddNode, CloseOk, ShutDown
    <3>3. logins[c] > 0 /\ logins[old] > 0
      BY <3>1, <3>2 DEF RegistryInv
    <3>. HIDE DEF old
    <3>4. CASE d = c /\ d # old
      BY <3>1, <3>2, <3>3, <3>4
    <3>5. CASE d = old /\ d # c
      <4>1. closed'[d] /\ ~jammed'[d]
        BY <3>1, <3>2, <3>5
      <4>2. idMap'[NidOf[d]] # d /\ logins'[d] > 0
        BY <3>1, <3>2, <3>3, <3>5
      <4>3. logins[d] < 2 /\ pc[d] = "adding" => FALSE
        BY <3>1, <3>5 DEF old
      <4>. QED BY <3>2, <3>5, <4>1, <4>2, <4>3
    <3>6. CASE d = c /\ d = old
      <4>1. closed'[d] /\ ~jammed'[d] /\ pc'[d] = "open" /\ logins'[d] > 0
        BY <3>1, <3>2, <3>3, <3>6
      <4>2. Online(d) /\ pc[d] = "adding"
        BY <3>1, <3>2, <3>6 DEF old
      <4>3. logins'[d] \in Nat /\ logins'[d] > 1
        BY <3>2, <4>2
      <4>. QED BY <4>1, <4>3
    <3>7. CASE d # c /\ d # old
      BY <3>1, <3>2, <3>7
    <3>. QED BY <3>4, <3>5, <3>6, <3>7
  <2>. QED BY <2>1, <2>2
<1>3. ASSUME NEW c \in Conn, AddNodePanics(c) PROVE ClosedRight(d)'
  BY <1>3 DEF AddNodePanics, ClosePanics, RegistryInv
<1>4. ASSUME NEW c \in Conn, AddNodeBlocks(c) PROVE ClosedRight(d)'
  BY <1>4 DEF AddNodeBlocks
<1>5. ASSUME NEW c \in Conn, ReadFails(c) PROVE ClosedRight(d)'
  BY <1>5 DEF ReadFails
<1>6. ASSUME NEW c \in Conn, LateResponse(c) PROVE ClosedRight(d)'
  BY <1>6 DEF LateResponse
<1>14. ASSUME NEW c \in Conn, RepeatedResponse(c) PROVE ClosedRight(d)'
  BY <1>14 DEF RepeatedResponse
<1>7. ASSUME NEW c \in Conn, CloseSelf(c) PROVE ClosedRight(d)'
  BY <1>7 DEF CloseSelf, ShutDown, CloseOk, ClosePanics
<1>8. ASSUME NEW c \in Conn, DelNode(c) PROVE ClosedRight(d)'
  BY <1>8 DEF DelNode
<1>9. CASE DispatchUpload
  BY <1>9 DEF DispatchUpload
<1>10. ASSUME NEW z \in Zone, DispatchDownload(z) PROVE ClosedRight(d)'
  BY <1>10 DEF DispatchDownload
<1>11. ASSUME NEW a \in Admin, ZoneEdit(a) PROVE ClosedRight(d)'
  BY <1>11 DEF ZoneEdit, PutZone, PutNodes, ListZone, Edit
<1>12. ASSUME NEW a \in Admin, Reloader(a) PROVE ClosedRight(d)'
  BY <1>12 DEF Reloader, ClearZone, Lookup, ReadModel, NodeZoneChange, AssignZone
<1>13. CASE UNCHANGED vars
  BY <1>13 DEF vars
<1>. QED
  BY <1>1, <1>2, <1>3, <1>4, <1>5, <1>6, <1>7, <1>8, <1>9, <1>10, <1>11,
     <1>12, <1>13, <1>14 DEF Next, Handler

LEMMA CloseInvariant == Spec => []CloseInv
BY InitTypeOK, NextTypeOK, InitRegistryInv, NextRegistryInv, InitCloseInv,
   NextCloseInv, PTL DEF Spec

(* A connection whose handler died or hangs is offline, unless it has      *)
(* logged in twice.                                                        *)
THEOREM CrashedOffline == Spec => []CrashedIsOffline
<1>1. RegistryInv /\ CloseInv => CrashedIsOffline
  BY DEF RegistryInv, CloseInv, ClosedRight, Online, CrashedIsOffline
<1>. QED BY <1>1, RegistryInvariant, CloseInvariant, PTL

-----------------------------------------------------------------------------
(* While the connections of a node log in once and none of their readers   *)
(* is blocked, one of them is jammed while it is online only by another    *)
(* one that has crashed in AddNode, and a third one hangs.                 *)
Excused(n) ==
    \E c \in Conn : NidOf[c] = n /\ logins[c] > 0 /\ (logins[c] > 1 \/ pc[c] = "choked")

Gone(d) == logins[d] > 0 /\ pc[d] \notin {"open", "adding"}
Jammed(c) == Online(c) /\ jammed[c]
Crowd(b, c, d) ==
    /\ b # c /\ b # d /\ c # d
    /\ NidOf[b] = NidOf[c] /\ NidOf[c] = NidOf[d]
    /\ logins[b] > 0 /\ logins[c] > 0 /\ logins[d] > 0

Wedge(n) ==
    \/ Excused(n)
    \/ /\ \A c \in Conn : NidOf[c] = n /\ Jammed(c) =>
            \E d \in Conn : d # c /\ NidOf[d] = n /\ Gone(d)
       /\ mux # Free /\ NidOf[mux] = n =>
            \E b, c, d \in Conn : NidOf[b] = n /\ Crowd(b, c, d)

WedgeInv == \A n \in Nid : Wedge(n)

LEMMA InitWedgeInv == Init => WedgeInv
BY DEF Init, WedgeInv, Wedge, Jammed

(* Steps that jam nobody of the node who is online.                        *)
LEMMA WedgeKept ==
    ASSUME NEW n \in Nid, Wedge(n), mux' = mux,
           \A c \in Conn : logins[c] > 0 => logins'[c] > 0,
           \A c \in Conn : logins[c] > 1 => logins'[c] > 1,
           \A c \in Conn : pc[c] = "choked" => pc'[c] = "choked",
           \A d \in Conn : Gone(d) => Gone(d)',
           \A c \in Conn : NidOf[c] = n /\ Jammed(c)' => Jammed(c) \/ Excused(n)'
    PROVE  Wedge(n)'
<1>1. Excused(n) => Excused(n)'
  BY DEF Excused
<1>2. \A b, c, d \in Conn : Crowd(b, c, d) => Crowd(b, c, d)'
  BY DEF Crowd
<1>. QED BY <1>1, <1>2, Zenon DEF Wedge

LEMMA NextWedgeInv ==
    TypeOK /\ RegistryInv /\ CloseInv /\ WedgeInv /\ [Next]_vars => WedgeInv'
<1>. SUFFICES ASSUME TypeOK, RegistryInv, CloseInv, WedgeInv, [Next]_vars,
                     NEW n \in Nid
              PROVE  Wedge(n)'
  BY DEF WedgeInv
<1>0. /\ pc \in [Conn -> ConnPC] /\ logins \in [Conn -> 0..MaxLogins]
      /\ idMap \in [Nid -> Conn \cup {NoConn}]
      /\ leaked \in [Conn -> BOOLEAN] /\ jammed \in [Conn -> BOOLEAN]
  BY DEF TypeOK
<1>s. (\A c \in Conn : ClosedRight(c)) /\ Wedge(n)
  BY DEF CloseInv, WedgeInv
<1>k. ASSUME UNCHANGED <<logins, mux>>,
             \A c \in Conn : pc[c] = "choked" => pc'[c] = "choked",
             \A d \in Conn : Gone(d) => Gone(d)',
             \A c \in Conn : NidOf[c] = n /\ Jammed(c)' => Jammed(c) \/ Excused(n)'
      PROVE  Wedge(n)'
  BY <1>k, <1>s, WedgeKept
<1>. USE <1>0 DEF connVars, mapVars, ConnPC, Gone, Jammed, Online
<1>1. ASSUME NEW c \in Conn, Login(c) PROVE Wedge(n)'
  BY <1>1, <1>s, WedgeKept DEF Login
<1>2. ASSUME NEW c \in Conn, AddNode(c) PROVE Wedge(n)'
  <2>1. jammed[c] /\ NidOf[c] = n => Excused(n)'
    <3>1. jammed[c] => logins[c] > 1
      BY <1>2, <1>s DEF AddNode, ClosedRight
    <3>. QED BY <1>2, <3>1 DEF AddNode, Excused
  <2>2. \A d \in Conn : NidOf[d] = n /\ Jammed(d)' => Jammed(d) \/ Excused(n)'
    BY <1>2, <2>1 DEF AddNode
  <2>3. /\ \A d \in Conn : Gone(d) => Gone(d)'
        /\ \A d \in Conn : pc[d] = "choked" => pc'[d] = "choked"
        /\ UNCHANGED <<logins, mux>>
    BY <1>2 DEF AddNode
  <2>. HIDE DEF Gone, Jammed
  <2>. QED BY <1>k, <2>2, <2>3
<1>3. ASSUME NEW c \in Conn, AddNodePanics(c) PROVE Wedge(n)'
  <2>. DEFINE old == idMap[NidOf[c]]
  <2>1. old \in Conn /\ NidOf[old] = NidOf[c] /\ logins[c] > 0
    BY <1>3 DEF AddNodePanics, RegistryInv
  <2>2. old # c \/ logins[c] > 1
    BY <1>3, <1>s, <2>1 DEF AddNodePanics, ClosePanics, ClosedRight
  <2>3. Gone(c)'
    BY <1>3, <2>1 DEF AddNodePanics
  <2>4. \A d \in Conn : Jammed(d)' => Jammed(d) \/ d = old
    BY <1>3, <2>1 DEF AddNodePanics
  <2>5. /\ \A d \in Conn : Gone(d) => Gone(d)'
        /\ \A d \in Conn : pc[d] = "choked" => pc'[d] = "choked"
        /\ UNCHANGED <<logins, mux>>
    BY <1>3 DEF AddNodePanics
  <2>. HIDE DEF Gone, Jammed, old
  <2>6. Excused(n) \/ (NidOf[c] = n /\ logins[c] > 1) => Excused(n)'
    BY <2>1, <2>5 DEF Excused
  <2>7. ASSUME ~Excused(n)' PROVE Wedge(n)'
    <3>1. mux' # Free /\ NidOf[mux'] = n =>
            \E b, e, d \in Conn : NidOf[b] = n /\ Crowd(b, e, d)'
      BY <1>s, <2>5, <2>6, <2>7 DEF Wedge, Crowd
    <3>2. ASSUME NEW e \in Conn, NidOf[e] = n, Jammed(e)'
          PROVE  \E d \in Conn : d # e /\ NidOf[d] = n /\ Gone(d)'
      <4>1. CASE e = old
        BY <2>1, <2>2, <2>3, <2>6, <2>7, <3>2, <4>1
      <4>2. CASE e # old
        <5>1. Jammed(e) /\ ~Excused(n)
          BY <2>4, <2>6, <2>7, <3>2, <4>2
        <5>. QED BY <1>s, <2>5, <3>2, <5>1, Zenon DEF Wedge
      <4>. QED BY <4>1, <4>2
    <3>. QED BY <3>1, <3>2, Zenon DEF Wedge
  <2>. QED BY <2>7 DEF Wedge
<1>4. ASSUME NEW c \in Conn, AddNodeBlocks(c) PROVE Wedge(n)'
  <2>1. PICK old \in Conn :
          /\ old = idMap[NidOf[c]] /\ NidOf[old] = NidOf[c] /\ logins[c] > 0
          /\ logins[old] > 0 /\ jammed[old] /\ pc[c] = "adding"
    BY <1>4 DEF AddNodeBlocks, RegistryInv
  <2>2. UNCHANGED <<logins, idMap, jammed>> /\ mux = Free /\ mux' = c
    BY <1>4 DEF AddNodeBlocks
  <2>3. Jammed(old) /\ (old # c \/ logins[c] > 1)
    BY <1>s, <2>1 DEF ClosedRight
  <2>4. \A d \in Conn : /\ Gone(d) => Gone(d)'
                        /\ Jammed(d)' => Jammed(d)
                        /\ pc[d] = "choked" => pc'[d] = "choked"
    BY <1>4 DEF AddNodeBlocks
  <2>. HIDE DEF Gone, Jammed
  <2>5. Excused(n) \/ (NidOf[c] = n /\ logins[c] > 1) => Excused(n)'
    BY <2>1, <2>2, <2>4 DEF Excused
  <2>6. ASSUME ~Excused(n)' PROVE Wedge(n)'
    <3>1. \A e \in Conn : NidOf[e] = n /\ Jammed(e)' =>
            \E f \in Conn : f # e /\ NidOf[f] = n /\ Gone(f)'
      BY <1>s, <2>4, <2>5, <2>6, Zenon DEF Wedge
    <3>2. ASSUME NidOf[c] = n
          PROVE  \E b, e, d \in Conn : NidOf[b] = n /\ Crowd(b, e, d)'
      <4>1. PICK d \in Conn : d # old /\ NidOf[d] = n /\ Gone(d)
        BY <1>s, <2>1, <2>3, <2>5, <2>6, <3>2, Zenon DEF Wedge
      <4>2. d # c /\ logins[d] > 0
        BY <2>1, <4>1 DEF Gone
      <4>3. Crowd(old, c, d)'
        BY <2>1, <2>2, <2>3, <2>5, <2>6, <3>2, <4>1, <4>2 DEF Crowd
      <4>. QED BY <2>1, <3>2, <4>3, Zenon
    <3>. QED BY <2>2, <3>1, <3>2, Zenon DEF Wedge
  <2>. QED BY <2>6 DEF Wedge
<1>5. ASSUME NEW c \in Conn, ReadFails(c) PROVE Wedge(n)'
  BY <1>5, <1>k DEF ReadFails
<1>6. ASSUME NEW c \in Conn, LateResponse(c) PROVE Wedge(n)'
  <2>1. Online(c) => logins[c] > 1
    BY <1>6, <1>s DEF LateResponse, ClosedRight
  <2>2. Online(c) /\ NidOf[c] = n => Excused(n)'
    BY <1>6, <2>1 DEF LateResponse, Excused
  <2>. QED BY <1>6, <1>k, <2>2 DEF LateResponse
<1>12. ASSUME NEW c \in Conn, RepeatedResponse(c) PROVE Wedge(n)'
  <2>1. NidOf[c] = n => Excused(n)'
    BY <1>12 DEF RepeatedResponse, Excused
  <2>. QED BY <1>12, <1>k, <2>1 DEF RepeatedResponse
<1>7. ASSUME NEW c \in Conn, CloseSelf(c) PROVE Wedge(n)'
  <2>1. ClosePanics(c) /\ Online(c) => logins[c] > 1
    BY <1>7, <1>s DEF CloseSelf, ClosePanics, ClosedRight
  <2>2. ClosePanics(c) /\ Online(c) /\ NidOf[c] = n => Excused(n)'
    BY <1>7, <2>1 DEF CloseSelf, Excused
  <2>. QED BY <1>7, <1>k, <2>2 DEF CloseSelf
<1>8. ASSUME NEW c \in Conn, DelNode(c) PROVE Wedge(n)'
  BY <1>8, <1>k DEF DelNode
<1>9. CASE UNCHANGED <<pc, logins, idMap, jammed, mux>>
  BY <1>9, <1>k
<1>10. DispatchUpload \/ (\E z \in Zone : DispatchDownload(z)) \/ UNCHANGED vars
       => UNCHANGED <<pc, logins, idMap, jammed, mux>>
  BY Zenon DEF DispatchUpload, DispatchDownload, vars
<1>11. ASSUME NEW a \in Admin, ZoneEdit(a) \/ Reloader(a)
       PROVE  UNCHANGED <<pc, logins, idMap, jammed, mux>>
  BY <1>11 DEF ZoneEdit, PutZone, PutNodes, ListZone, Edit,
               Reloader, ClearZone, Lookup, ReadModel, NodeZoneChange, AssignZone
<1>. HIDE DEF Gone, Jammed, Online
<1>. QED
  BY <1>1, <1>2, <1>3, <1>4, <1>5, <1>6, <1>7, <1>8, <1>9, <1>10, <1>11, <1>12
     DEF Next, Handler

LEMMA ThreeAreMoreThanTwo ==
    ASSUME NEW S, IsFiniteSet(S), NEW b \in S, NEW c \in S, NEW d \in S,
           b # c, b # d, c # d
    PROVE  Cardinality(S) > 2
<1>. DEFINE B == {b}  C == B \cup {c}  D == C \cup {d}
<1>1. IsFiniteSet(B) /\ Cardinality(B) = 1
  BY FS_Singleton
<1>2. IsFiniteSet(C) /\ Cardinality(C) = Cardinality(B) + 1
  <2>1. c \notin B
    OBVIOUS
  <2>. HIDE DEF B
  <2>. QED BY <1>1, <2>1, FS_AddElement, Zenon
<1>3. Cardinality(D) = Cardinality(C) + 1
  <2>1. d \notin C
    OBVIOUS
  <2>. HIDE DEF B, C
  <2>. QED BY <1>2, <2>1, FS_AddElement, Zenon
<1>4. Cardinality(D) <= Cardinality(S)
  <2>1. D \in SUBSET S
    OBVIOUS
  <2>. HIDE DEF D
  <2>. QED BY <2>1, FS_Subset
<1>5. Cardinality(S) \in Nat
  BY FS_CardinalityType
<1>. HIDE DEF B, C, D
<1>. QED BY <1>1, <1>2, <1>3, <1>4, <1>5

(* The lock of the registry is lost only by a second login on one          *)
(* connection, a repeated response or three connections, of one node.      *)
THEOREM WedgeNeedsReason == Spec => []WedgeHasReason
<1>1. TypeOK /\ WedgeInv => WedgeHasReason
  <2>. DEFINE n == NidOf[mux]
  <2>. SUFFICES ASSUME TypeOK, WedgeInv, mux # Free, ~Excused(n)
                PROVE  Cardinality(Logged(n)) > 2
    BY DEF WedgeHasReason, Excused, Logged
  <2>1. n \in Nid
    BY DEF TypeOK
  <2>. HIDE DEF n
  <2>2. PICK b, c, d \in Conn : NidOf[b] = n /\ Crowd(b, c, d)
    BY <2>1 DEF WedgeInv, Wedge, n
  <2>3. b \in Logged(n) /\ c \in Logged(n) /\ d \in Logged(n)
    BY <2>2 DEF Logged, Crowd
  <2>4. IsFiniteSet(Logged(n))
    BY FS_Subset DEF Logged
  <2>. QED BY <2>2, <2>3, <2>4, ThreeAreMoreThanTwo DEF Crowd
<1>2. Spec => []WedgeInv
  BY InitTypeOK, NextTypeOK, InitRegistryInv, NextRegistryInv, InitCloseInv,
     NextCloseInv, InitWedgeInv, NextWedgeInv, PTL DEF Spec
<1>. QED BY <1>1, <1>2, TypeCorrect, PTL

-----------------------------------------------------------------------------
(* Zones, for one administrator: between the read of the zone and its      *)
(* assignment the database does not change, and the queue a reload has put *)
(* the node into keeps it, unless DelNode takes it out; then the node has  *)
(* logged in again meanwhile and knows the new zone already.               *)
OneAdmin == \A a, b \in Admin : a = b

Has(z, c) == z # NoZone => Contains(zoneQ[z], c)
Assigning(c) == \E a \in Admin : reload[a].pc = "assign" /\ reload[a].node = c

Settled(a) ==
    /\ reload[a].pc \in {"change", "assign"} =>
         dbZone[NidOf[reload[a].node]] = reload[a].new
    /\ reload[a].pc = "assign" =>
         \/ Has(reload[a].new, reload[a].node)
         \/ ~Online(reload[a].node) /\ zoneId[reload[a].node] = reload[a].new

InZone(c) ==
    Online(c) => pc[c] = "adding" \/ Assigning(c) \/ Has(zoneId[c], c)

ZoneInv == (\A a \in Admin : Settled(a)) /\ \A c \in Conn : InZone(c)

LEMMA ZonePutKeeps ==
    ASSUME NEW zq \in [Zone -> Seq(Conn)], NEW z \in ZoneOrNone, NEW c \in Conn
    PROVE  /\ \A y \in Zone, d \in Conn :
                Contains(zq[y], d) => Contains(ZonePut(zq, z, c)[y], d)
           /\ z # NoZone => Contains(ZonePut(zq, z, c)[z], c)
BY PutKeeps DEF ZonePut, ZoneOrNone

LEMMA ZonePopKeeps ==
    ASSUME NEW zq \in [Zone -> Seq(Conn)], NEW z \in ZoneOrNone, NEW c \in Conn
    PROVE  \A y \in Zone, d \in Conn :
              Contains(zq[y], d) /\ (d # c \/ y # z) => Contains(ZonePop(zq, z, c)[y], d)
BY PopKeeps DEF ZonePop, ZoneOrNone

LEMMA InitZoneInv == Init => ZoneInv
BY DEF Init, ZoneInv, Settled, InZone, Online, Idle

(* Steps of connections that change nothing of zones but what they add.    *)
LEMMA ZoneKept ==
    ASSUME TypeOK, ZoneInv, UNCHANGED <<dbZone, reload, zoneId>>,
           \A y \in Zone, d \in Conn : Contains(zoneQ[y], d) => Contains(zoneQ'[y], d),
           \A d \in Conn : Online(d)' /\ pc'[d] # "adding" =>
               (Online(d) /\ pc[d] # "adding") \/ Has(zoneId[d], d)',
           \A d \in Conn : Online(d)' => Online(d) \/ Has(zoneId[d], d)'
    PROVE  ZoneInv'
<1>0. /\ zoneId \in [Conn -> ZoneOrNone]
      /\ \A a \in Admin : reload[a] \in Reload
      /\ \A a \in Admin : reload[a].pc = "assign" => reload[a].node # NoConn
  BY DEF TypeOK
<1>1. \A z \in ZoneOrNone, d \in Conn : Has(z, d) => Has(z, d)'
  BY DEF Has, ZoneOrNone
<1>2. ASSUME NEW a \in Admin PROVE Settled(a)'
  <2>1. CASE reload[a].pc = "assign"
    <3>1. reload[a].node \in Conn /\ reload[a].new \in ZoneOrNone
      BY <1>0, <2>1 DEF Reload
    <3>2. CASE Has(reload[a].new, reload[a].node)
      BY <1>1, <2>1, <3>1, <3>2 DEF ZoneInv, Settled
    <3>3. CASE ~Online(reload[a].node) /\ zoneId[reload[a].node] = reload[a].new
      BY <2>1, <3>1, <3>3 DEF ZoneInv, Settled, Has
    <3>. QED BY <2>1, <3>2, <3>3 DEF ZoneInv, Settled
  <2>2. CASE reload[a].pc # "assign"
    BY <2>2 DEF ZoneInv, Settled
  <2>. QED BY <2>1, <2>2
<1>3. ASSUME NEW c \in Conn PROVE InZone(c)'
  <2>1. Assigning(c)' = Assigning(c)
    BY DEF Assigning
  <2>2. zoneId[c] \in ZoneOrNone /\ InZone(c)
    BY <1>0 DEF ZoneInv
  <2>. QED BY <1>1, <2>1, <2>2 DEF InZone
<1>. QED BY <1>2, <1>3 DEF ZoneInv

LEMMA LoginZone == ASSUME TypeOK, ZoneInv, NEW c \in Conn, Login(c) PROVE ZoneInv'
<1>. USE DEF Login, mapVars
<1>0. zoneId \in [Conn -> ZoneOrNone] /\ pc \in [Conn -> ConnPC]
  BY DEF TypeOK
<1>1. ASSUME NEW a \in Admin PROVE Settled(a)'
  <2>1. Settled(a)
    BY DEF ZoneInv
  <2>2. \A z : Has(z, reload[a].node)' = Has(z, reload[a].node)
    BY DEF Has
  <2>. QED BY <1>0, <2>1, <2>2 DEF Settled, Online
<1>2. ASSUME NEW d \in Conn PROVE InZone(d)'
  <2>1. InZone(d)
    BY DEF ZoneInv
  <2>. QED BY <1>0, <2>1 DEF InZone, Online, Has, Assigning, ConnPC
<1>. QED BY <1>1, <1>2 DEF ZoneInv

LEMMA AddNodeZone ==
    ASSUME TypeOK, ZoneInv, NEW c \in Conn, AddNode(c)
    PROVE  ZoneInv'
<1>. USE DEF AddNode
<1>0. /\ zoneId \in [Conn -> ZoneOrNone] /\ zoneQ \in [Zone -> Seq(Conn)]
      /\ pc \in [Conn -> ConnPC] /\ idMap \in [Nid -> Conn \cup {NoConn}]
  BY DEF TypeOK
<1>1. zoneQ' = ZonePut(zoneQ, zoneId[c], c)
  BY DEF ObserversAddNode
<1>2. \A y \in Zone, d \in Conn : Contains(zoneQ[y], d) => Contains(zoneQ'[y], d)
  BY <1>0, <1>1, ZonePutKeeps
<1>3. Has(zoneId[c], c)'
  BY <1>0, <1>1, ZonePutKeeps DEF Has
<1>4. \A d \in Conn : d # c /\ Online(d)' => Online(d) /\ pc'[d] = pc[d]
  BY <1>0 DEF Online
<1>. HIDE DEF AddNode
<1>5. UNCHANGED <<dbZone, reload, zoneId>>
  BY DEF AddNode
<1>. QED BY <1>2, <1>3, <1>4, <1>5, ZoneKept

LEMMA DelNodeZone ==
    ASSUME TypeOK, RegistryInv, ZoneInv, NEW c \in Conn, DelNode(c)
    PROVE  ZoneInv'
<1>. DEFINE old == idMap[NidOf[c]]
<1>0. /\ zoneId \in [Conn -> ZoneOrNone] /\ zoneQ \in [Zone -> Seq(Conn)]
      /\ pc \in [Conn -> ConnPC] /\ idMap \in [Nid -> Conn \cup {NoConn}]
      /\ \A a \in Admin : reload[a] \in Reload
      /\ \A a \in Admin : reload[a].pc = "assign" => reload[a].node # NoConn
  BY DEF TypeOK
<1>1. /\ UNCHANGED <<dbZone, reload, zoneId>>
      /\ \A d \in Conn : pc'[d] = "adding" <=> pc[d] = "adding"
  BY <1>0 DEF DelNode, ConnPC
<1>2. CASE old = NoConn
  BY <1>1, <1>2, ZoneKept DEF DelNode, mapVars, Online
<1>3. CASE old # NoConn
  <2>1. old \in Conn /\ NidOf[old] = NidOf[c] /\ zoneId[old] \in ZoneOrNone
    BY <1>0, <1>3 DEF RegistryInv
  <2>2. /\ idMap' = [idMap EXCEPT ![NidOf[c]] = NoConn]
        /\ zoneQ' = ZonePop(zoneQ, zoneId[old], old)
    BY <1>3 DEF DelNode, ObserversDelNode
  <2>3. \A d \in Conn : Online(d)' <=> Online(d) /\ d # old
    BY <1>0, <2>1, <2>2 DEF Online
  <2>. HIDE DEF old
  <2>4. \A y \in Zone, d \in Conn :
          Contains(zoneQ[y], d) /\ (d # old \/ y # zoneId[old]) => Contains(zoneQ'[y], d)
    <3>1. \A y \in Zone, d \in Conn :
            Contains(zoneQ[y], d) /\ (d # old \/ y # zoneId[old])
              => Contains(ZonePop(zoneQ, zoneId[old], old)[y], d)
      BY <1>0, <2>1, ZonePopKeeps
    <3>. QED BY <2>2, <3>1
  <2>5. \A z \in ZoneOrNone, d \in Conn :
          Has(z, d) /\ (d # old \/ z # zoneId[old]) => Has(z, d)'
    BY <2>4 DEF Has, ZoneOrNone
  <2>6. ASSUME NEW a \in Admin PROVE Settled(a)'
    <3>1. Settled(a)
      BY DEF ZoneInv
    <3>2. reload[a].pc = "assign" => reload[a].node \in Conn /\ reload[a].new \in ZoneOrNone
      BY <1>0 DEF Reload
    <3>. QED BY <1>1, <2>3, <2>5, <3>1, <3>2 DEF Settled
  <2>7. ASSUME NEW d \in Conn PROVE InZone(d)'
    <3>1. InZone(d) /\ zoneId[d] \in ZoneOrNone
      BY <1>0 DEF ZoneInv
    <3>2. Assigning(d)' = Assigning(d)
      BY <1>1 DEF Assigning
    <3>. QED BY <1>1, <2>3, <2>5, <3>1, <3>2 DEF InZone
  <2>. QED BY <2>6, <2>7 DEF ZoneInv
<1>. QED BY <1>2, <1>3

(* The other steps of a connection, and uploads.                           *)
LEMMA OthersZone ==
    ASSUME TypeOK, CloseInv, ZoneInv,
           \/ DispatchUpload
           \/ \E c \in Conn : AddNodePanics(c) \/ AddNodeBlocks(c) \/ ReadFails(c)
                             \/ LateResponse(c) \/ RepeatedResponse(c)
                             \/ CloseSelf(c)
    PROVE  ZoneInv'
<1>0. pc \in [Conn -> ConnPC] /\ leaked \in [Conn -> BOOLEAN] /\ jammed \in [Conn -> BOOLEAN]
  BY DEF TypeOK
<1>1. UNCHANGED <<dbZone, reload, zoneId, idMap, zoneQ>>
  BY DEF DispatchUpload, AddNodePanics, AddNodeBlocks, ReadFails, LateResponse,
         RepeatedResponse, CloseSelf, connVars, mapVars
<1>2. \A d \in Conn : Online(d) /\ pc[d] = "adding" => ~leaked[d] /\ ~jammed[d]
  BY DEF CloseInv, ClosedRight
<1>3. ASSUME NEW d \in Conn, Online(d), pc[d] = "adding"
      PROVE  pc'[d] = "adding"
  BY <1>0, <1>2, <1>3
     DEF DispatchUpload, AddNodePanics, AddNodeBlocks, ReadFails, LateResponse,
         RepeatedResponse, CloseSelf, ClosePanics, Online, connVars
<1>. QED BY <1>1, <1>3, ZoneKept DEF Online

LEMMA DownloadZone ==
    ASSUME TypeOK, ZoneInv, NEW z \in Zone, DispatchDownload(z)
    PROVE  ZoneInv'
<1>. DEFINE q == zoneQ[z]
<1>0. q \in Seq(Conn) /\ Found(q, Conn) /\ zoneQ \in [Zone -> Seq(Conn)]
  BY DEF DispatchDownload, TypeOK
<1>1. zoneQ' = [zoneQ EXCEPT ![z] = Get(q, Conn)]
  BY DEF DispatchDownload
<1>. HIDE DEF q
<1>2. \A v : Contains(Get(q, Conn), v) <=> Contains(q, v)
  BY <1>0, GetKeeps
<1>3. \A y \in Zone, d \in Conn : Contains(zoneQ[y], d) => Contains(zoneQ'[y], d)
  BY <1>0, <1>1, <1>2 DEF q
<1>4. UNCHANGED <<dbZone, reload, zoneId, idMap, pc>>
  BY DEF DispatchDownload, connVars
<1>. QED BY <1>3, <1>4, ZoneKept DEF Online

(* The steps of the only administrator.                                    *)
LEMMA EditZone ==
    ASSUME OneAdmin, TypeOK, ZoneInv, NEW a \in Admin, ZoneEdit(a) \/ ClearZone(a)
    PROVE  ZoneInv'
<1>0. /\ UNCHANGED <<idMap, zoneQ, zoneId, pc>>
      /\ reload[a].pc \notin {"change", "assign"}
      /\ reload'[a].pc \notin {"change", "assign"}
  <2>1. reload \in [Admin -> Reload]
    BY DEF TypeOK
  <2>2. CASE ZoneEdit(a)
    <3>1. ASSUME NEW S, NEW zones, Edit(a, S, zones) PROVE <1>0!:
      BY <2>1, <3>1 DEF Edit, connVars, mapVars, Idle
    <3>2. ASSUME NEW z \in Zone, ListZone(a, z) PROVE <1>0!:
      BY <2>1, <3>2 DEF ListZone, connVars, mapVars, Idle
    <3>. QED BY <2>2, <3>1, <3>2 DEF ZoneEdit, PutZone, PutNodes
  <2>3. CASE ClearZone(a)
    BY <2>1, <2>3 DEF ClearZone, NextNid, connVars, mapVars, Idle
  <2>. QED BY <2>2, <2>3
<1>1. ASSUME NEW b \in Admin PROVE Settled(b)'
  <2>1. b = a
    BY DEF OneAdmin
  <2>. QED BY <1>0, <2>1 DEF Settled
<1>2. ASSUME NEW d \in Conn PROVE InZone(d)'
  <2>1. ~Assigning(d)
    BY <1>0 DEF Assigning, OneAdmin
  <2>2. InZone(d)
    BY DEF ZoneInv
  <2>. QED BY <1>0, <2>1, <2>2 DEF InZone, Online, Has
<1>. QED BY <1>1, <1>2 DEF ZoneInv

LEMMA ReadZone ==
    ASSUME OneAdmin, TypeOK, ZoneInv, NEW a \in Admin,
           ReadModel(a) \/ \E n \in Nid : Lookup(a, n)
    PROVE  ZoneInv'
<1>0. /\ UNCHANGED <<idMap, zoneQ, zoneId, pc, dbZone>>
      /\ reload[a].pc # "assign" /\ reload'[a].pc # "assign"
      /\ reload'[a].pc = "change" => reload'[a].new = dbZone[NidOf[reload'[a].node]]
  <2>1. reload \in [Admin -> Reload]
    BY DEF TypeOK
  <2>2. CASE ReadModel(a)
    BY <2>1, <2>2 DEF ReadModel, NextNid, connVars, mapVars, Idle, Reload
  <2>3. ASSUME NEW n \in Nid, Lookup(a, n) PROVE <1>0!:
    <3>1. /\ UNCHANGED <<idMap, zoneQ, zoneId, pc, dbZone>>
          /\ reload[a].pc = "lookup"
      BY <2>3 DEF Lookup, connVars, mapVars
    <3>2. reload'[a].pc \in {"idle", "lookup", "read"}
      <4>1. CASE idMap[n] = NoConn
        BY <2>1, <2>3, <4>1 DEF Lookup, NextNid, Idle
      <4>2. CASE idMap[n] # NoConn
        <5>. DEFINE rest == [reload[a] EXCEPT !.todo = @ \ {n}]
        <5>1. rest \in Reload
          BY <2>1 DEF Reload
        <5>2. reload'[a] = [rest EXCEPT !.pc = "read", !.node = idMap[n]]
          BY <2>1, <2>3, <4>2 DEF Lookup
        <5>. HIDE DEF rest
        <5>. QED BY <5>1, <5>2 DEF Reload
      <4>. QED BY <4>1, <4>2
    <3>. QED BY <3>1, <3>2
  <2>. QED BY <2>2, <2>3
<1>1. ASSUME NEW b \in Admin PROVE Settled(b)'
  <2>1. b = a
    BY DEF OneAdmin
  <2>. QED BY <1>0, <2>1 DEF Settled
<1>2. ASSUME NEW d \in Conn PROVE InZone(d)'
  <2>1. ~Assigning(d)
    BY <1>0 DEF Assigning, OneAdmin
  <2>2. InZone(d)
    BY DEF ZoneInv
  <2>. QED BY <1>0, <2>1, <2>2 DEF InZone, Online, Has
<1>. QED BY <1>1, <1>2 DEF ZoneInv

LEMMA ChangeZone ==
    ASSUME OneAdmin, TypeOK, ZoneInv, NEW a \in Admin, NodeZoneChange(a)
    PROVE  ZoneInv'
<1>. DEFINE c == reload[a].node
            old == reload[a].old
            new == reload[a].new
<1>0. /\ zoneId \in [Conn -> ZoneOrNone] /\ zoneQ \in [Zone -> Seq(Conn)]
      /\ reload \in [Admin -> Reload] /\ reload[a].pc = "change"
      /\ UNCHANGED <<idMap, zoneId, pc, dbZone>>
  BY DEF TypeOK, NodeZoneChange, connVars
<1>1. c \in Conn /\ old \in ZoneOrNone /\ new \in ZoneOrNone
  BY <1>0 DEF TypeOK, Reload
<1>2. /\ zoneQ' = ZonePut(ZonePop(zoneQ, old, c), new, c)
      /\ reload' = [reload EXCEPT ![a].pc = "assign"]
  BY DEF NodeZoneChange
<1>3. reload'[a].pc = "assign" /\ reload'[a].node = c /\ reload'[a].new = new
  BY <1>0, <1>2 DEF Reload
<1>. HIDE DEF old, new, c
<1>. DEFINE popped == ZonePop(zoneQ, old, c)
<1>4. popped \in [Zone -> Seq(Conn)]
  BY <1>0, <1>1, ZonePopType
<1>5. \A y \in Zone, d \in Conn :
        Contains(zoneQ[y], d) /\ d # c => Contains(popped[y], d)
  BY <1>0, <1>1, ZonePopKeeps
<1>. HIDE DEF popped
<1>6. /\ \A y \in Zone, d \in Conn :
           Contains(popped[y], d) => Contains(ZonePut(popped, new, c)[y], d)
      /\ new # NoZone => Contains(ZonePut(popped, new, c)[new], c)
  BY <1>1, <1>4, ZonePutKeeps
<1>7. zoneQ' = ZonePut(popped, new, c)
  BY <1>2 DEF popped
<1>8. ASSUME NEW b \in Admin PROVE Settled(b)'
  <2>1. b = a
    BY DEF OneAdmin
  <2>2. dbZone[NidOf[c]] = new
    BY <1>0 DEF ZoneInv, Settled, c, new
  <2>3. Has(reload[a].new, reload[a].node)'
    BY <1>3, <1>6, <1>7 DEF Has
  <2>. QED BY <1>0, <1>3, <2>1, <2>2, <2>3 DEF Settled
<1>9. ASSUME NEW d \in Conn PROVE InZone(d)'
  <2>1. CASE d = c
    BY <1>3, <2>1 DEF InZone, Assigning
  <2>2. CASE d # c
    <3>1. ~Assigning(d) /\ InZone(d) /\ zoneId[d] \in ZoneOrNone
      BY <1>0 DEF Assigning, OneAdmin, ZoneInv
    <3>2. Has(zoneId[d], d) => Has(zoneId[d], d)'
      BY <1>0, <1>5, <1>6, <1>7, <2>2, <3>1 DEF Has, ZoneOrNone
    <3>. QED BY <1>0, <3>1, <3>2 DEF InZone, Online
  <2>. QED BY <2>1, <2>2
<1>. QED BY <1>8, <1>9 DEF ZoneInv

LEMMA AssignedZone ==
    ASSUME OneAdmin, TypeOK, ZoneInv, NEW a \in Admin, AssignZone(a)
    PROVE  ZoneInv'
<1>. DEFINE c == reload[a].node
<1>0. /\ zoneId \in [Conn -> ZoneOrNone] /\ reload \in [Admin -> Reload]
      /\ reload[a].pc = "assign" /\ c \in Conn
      /\ UNCHANGED <<idMap, zoneQ, pc, dbZone>>
  BY DEF TypeOK, AssignZone, mapVars, Reload
<1>1. /\ zoneId' = [zoneId EXCEPT ![c] = reload[a].new]
      /\ reload'[a].pc \notin {"change", "assign"}
  BY <1>0 DEF AssignZone, NextNid, Idle
<1>2. ASSUME NEW b \in Admin PROVE Settled(b)'
  BY <1>1 DEF OneAdmin, Settled
<1>3. ASSUME NEW d \in Conn PROVE InZone(d)'
  <2>1. CASE d = c
    <3>1. Has(reload[a].new, c) \/ ~Online(c)
      BY <1>0 DEF ZoneInv, Settled
    <3>. QED BY <1>0, <1>1, <2>1, <3>1 DEF InZone, Online, Has
  <2>2. CASE d # c
    <3>1. ~Assigning(d) /\ InZone(d)
      BY <1>0, <2>2 DEF Assigning, OneAdmin, ZoneInv
    <3>. QED BY <1>0, <1>1, <2>2, <3>1 DEF InZone, Online, Has
  <2>. QED BY <2>1, <2>2
<1>. QED BY <1>2, <1>3 DEF ZoneInv

LEMMA NextZoneInv ==
    OneAdmin /\ TypeOK /\ RegistryInv /\ CloseInv /\ ZoneInv /\ [Next]_vars => ZoneInv'
<1>. SUFFICES ASSUME OneAdmin, TypeOK, RegistryInv, CloseInv, ZoneInv, [Next]_vars
              PROVE  ZoneInv'
  OBVIOUS
<1>1. ASSUME NEW c \in Conn, Handler(c) PROVE ZoneInv'
  BY <1>1, LoginZone, AddNodeZone, DelNodeZone, OthersZone DEF Handler
<1>2. CASE DispatchUpload
  BY <1>2, OthersZone
<1>3. ASSUME NEW z \in Zone, DispatchDownload(z) PROVE ZoneInv'
  BY <1>3, DownloadZone
<1>4. ASSUME NEW a \in Admin, ZoneEdit(a) \/ Reloader(a) PROVE ZoneInv'
  BY <1>4, EditZone, ReadZone, ChangeZone, AssignedZone DEF Reloader
<1>5. CASE UNCHANGED vars
  BY <1>5, ZoneKept DEF vars, connVars, mapVars, Online
<1>. QED BY <1>1, <1>2, <1>3, <1>4, <1>5 DEF Next

(* With one administrator, an online node is in the queue of its zone.     *)
THEOREM OnlineInZone == ASSUME OneAdmin PROVE Spec => []OnlineIsInItsZone
<1>1. TypeOK /\ RegistryInv /\ ZoneInv => OnlineIsInItsZone
  <2>. SUFFICES ASSUME TypeOK, RegistryInv, ZoneInv, NEW n \in Nid, idMap[n] # NoConn
                PROVE  \/ pc[idMap[n]] = "adding"
                       \/ \E a \in Admin : reload[a].pc = "assign"
                                           /\ reload[a].node = idMap[n]
                       \/ zoneId[idMap[n]] # NoZone
                            => Contains(zoneQ[zoneId[idMap[n]]], idMap[n])
    BY DEF OnlineIsInItsZone
  <2>1. idMap[n] \in Conn /\ NidOf[idMap[n]] = n
    BY DEF TypeOK, RegistryInv
  <2>. QED BY <2>1 DEF ZoneInv, InZone, Online, Assigning, Has
<1>2. Spec => []ZoneInv
  BY InitTypeOK, NextTypeOK, InitRegistryInv, NextRegistryInv, InitCloseInv,
     NextCloseInv, InitZoneInv, NextZoneInv, OneAdmin, PTL DEF Spec
<1>. QED BY <1>1, <1>2, TypeCorrect, RegistryInvariant, PTL
=============================================================================

-------------------------- MODULE JobProgressProofs --------------------------
(***************************************************************************)
(* Theorems about JobProgress, for any files, segments, handlers, reports, *)
(* restarts.  The types hold whatever interleaves; the other theorems are  *)
(* about actors that wait for each other (Serial) and clients that do not  *)
(* transfer again what the server has (~Repeats), as in the run progress.  *)
(* The cache is cleared and the server restarts at any time all the same.  *)
(*                                                                         *)
(* At the end, theorems about Notifications, which tells the users of the  *)
(* end of a job: for any events, publishers, mailers and tries.            *)
(***************************************************************************)
EXTENDS JobProgress, Notifications, FiniteSetTheorems, SequenceTheorems, TLAPS

-----------------------------------------------------------------------------
(* The types, with what TypeOK leaves out: the objects and the actors.     *)

PC == {"idle", "add", "start", "del", "pause", "update", "count", "save",
       "skip", "resume", "process", "finish", "notify"}
Value == {"none", "all", "some", "PAUSE", "DOING", "DONE"}
Obj == [det: [File -> Detail], state: State, times: Nat, unfinished: Int,
        cached: BOOLEAN]
Work == [pc: PC, obj: 0..MaxLoads, file: File, value: Value, seen: Int]

Bounded(det) == \A f \in File : det[f].segs <= NumSegs[f]

Types ==
    /\ db \in Row /\ Bounded(db.det)
    /\ objs \in [1..MaxLoads -> Obj]
    /\ \A i \in 1..MaxLoads : Bounded(objs[i].det)
    /\ loads \in 0..MaxLoads /\ cache \in 0..loads
    /\ cache # 0 => objs[cache].cached
    /\ actor \in [Actor -> Work]
    /\ \A a \in Actor :
         /\ actor[a] # Idle => actor[a].pc # "idle" /\ actor[a].obj \in 1..loads
         /\ actor[a].pc = "update" => actor[a].value \in {"PAUSE", "DOING", "DONE"}
    /\ delayed \in Nat /\ told \in Nat /\ tasks \subseteq File
    /\ has \in [File -> Nat] /\ \A f \in File : has[f] <= NumSegs[f]
    /\ calls \in 0..MaxReports /\ creates \in 0..MaxCreates
    /\ restarts \in 0..MaxRestarts

-----------------------------------------------------------------------------
(* One actor at a time                                                     *)

Alone(a) == \A b \in Actor \ {a} : actor[b] = Idle

(* The rows: a DONE file has all its segments, a finished job is DONE.     *)
Rows(d) ==
    /\ \A f \in File : d.det[f].state = "DONE" => d.det[f].segs = NumSegs[f]
    /\ d.times > 0 <=> d.state = "DONE"

(* An object o that says what the rows d say.                              *)
Exact(o, d) ==
    /\ o.det = d.det /\ o.state = d.state /\ o.times = d.times
    /\ o.unfinished = Unfinished(d.det)
    /\ o.cached \/ Unfinished(d.det) = 0

(* Between the change of a detail and its row, the object is ahead of the  *)
(* rows in that detail only; a handler writes the row before it counts.    *)
Ahead(o, f, d) ==
    /\ o.det = [d.det EXCEPT ![f] = o.det[f]]
    /\ o.det[f].started = d.det[f].started
    /\ o.det[f].state = "DONE" => o.det[f].segs = NumSegs[f]
    /\ o.state = d.state /\ o.times = d.times /\ o.cached

Working(a) ==
    LET o == objs[actor[a].obj]
        f == actor[a].file
        pc == actor[a].pc
    IN
    /\ cache \in {0, actor[a].obj}
    /\ a = Observer \/ pc \in {"skip", "resume", "count", "process", "finish", "notify"}
    /\ pc \in {"skip", "resume"} => a # Observer
    /\ pc \notin {"count", "save"} => Exact(o, db)
    /\ pc \in {"add", "pause", "update", "save", "skip", "resume"} =>
         db.det[f].state # "DONE"
    /\ pc = "count" =>
         /\ Ahead(o, f, db) /\ o.det[f].state = "DONE"
         /\ actor[a].seen = o.unfinished
         /\ a = Observer => /\ db.det[f].state # "DONE"
                            /\ o.unfinished = Unfinished(db.det)
         /\ a # Observer => /\ o.det = db.det
                            /\ o.unfinished = Unfinished(db.det) + 1
    /\ pc = "save" => Ahead(o, f, db) /\ o.unfinished = Unfinished(o.det)
    /\ actor[a].value = "some" => pc \in {"add", "start"}
    /\ pc = "notify" => db.times > 0

(* All details are DONE, but the job is not: a is about to see it.         *)
Ending(a) ==
    Unfinished(db.det) = 0 /\ db.times = 0 =>
        actor[a].pc \in {"count", "process", "finish"}

Telling(a) ==
    /\ told \in {0, 1}
    /\ told = 1 => db.times > 0
    /\ actor[a].pc = "notify" /\ told = 1 => db.times > 1
    /\ restarts = 0 /\ db.times > 0 =>
         told = 1 \/ (db.times = 1 /\ actor[a].pc = "notify")

(* Without restarts no segment is counted that was not transferred.        *)
Counted(a) ==
    LET g == actor[a].file
        d == objs[actor[a].obj].det[g]
        pc == actor[a].pc
    IN
    /\ \A f \in File : db.det[f].segs <= has[f] \/ (pc = "resume" /\ f = g)
    /\ pc = "update" /\ actor[a].value = "DONE" =>
         db.det[g].segs < has[g] \/ has[g] = NumSegs[g]
    /\ pc \in {"count", "save"} => d.segs <= has[g]
    /\ pc = "skip" => has[g] = NumSegs[g]

(* Without a re-creation too, what has segments or a task has started.     *)
Started(a) ==
    \A f \in File :
        /\ has[f] > 0 => db.det[f].started
                          \/ (actor[a].pc = "skip" /\ actor[a].file = f)
        /\ f \in tasks => db.det[f].started
                           \/ (actor[a].pc = "add" /\ actor[a].file = f)

(* a works, or nobody does and a stands for any actor.                     *)
Serially(a) ==
    /\ Alone(a) /\ Rows(db)
    /\ actor[a] = Idle /\ cache # 0 => Exact(objs[cache], db)
    /\ actor[a] # Idle => Working(a)
    /\ Ending(a) /\ Telling(a)
    /\ restarts = 0 => Counted(a)
    /\ restarts = 0 /\ creates = 0 => Started(a)

SerialInv == \E a \in Actor : Serially(a)

-----------------------------------------------------------------------------
(* How many details are not DONE                                           *)

USE ProgressAssumption

LEMMA UnfinishedType ==
    ASSUME NEW det
    PROVE  Unfinished(det) \in Nat
  <1>1. {f \in File : det[f].state # "DONE"} \in SUBSET File
    OBVIOUS
  <1>. QED  BY <1>1, FS_Subset, FS_CardinalityType DEF Unfinished

LEMMA UnfinishedZero ==
    ASSUME NEW det
    PROVE  Unfinished(det) = 0 <=> \A f \in File : det[f].state = "DONE"
  <1>1. IsFiniteSet({f \in File : det[f].state # "DONE"})
    BY FS_Subset
  <1>. QED  BY <1>1, FS_EmptySet DEF Unfinished

(* The count depends on which details are DONE, nothing else.              *)
LEMMA UnfinishedSame ==
    ASSUME NEW det, NEW new,
           \A f \in File : new[f].state = "DONE" <=> det[f].state = "DONE"
    PROVE  Unfinished(new) = Unfinished(det)
  <1>1. {f \in File : new[f].state # "DONE"} = {f \in File : det[f].state # "DONE"}
    OBVIOUS
  <1>. QED  BY <1>1 DEF Unfinished

LEMMA UnfinishedLess ==
    ASSUME NEW det, NEW new, NEW f \in File,
           det[f].state # "DONE", new[f].state = "DONE",
           \A g \in File \ {f} : new[g].state = "DONE" <=> det[g].state = "DONE"
    PROVE  Unfinished(new) = Unfinished(det) - 1
  <1>. DEFINE D == {g \in File : det[g].state # "DONE"}
              N == {g \in File : new[g].state # "DONE"}
  <1>1. IsFiniteSet(D)
    BY FS_Subset
  <1>2. N = D \ {f} /\ f \in D
    OBVIOUS
  <1>3. Cardinality(D \ {f}) = Cardinality(D) - 1
    BY <1>1, <1>2, FS_RemoveElement
  <1>. QED  BY <1>2, <1>3 DEF Unfinished

-----------------------------------------------------------------------------
(* Types                                                                   *)

LEMMA RecordTypes ==
    /\ NewDetail \in Detail /\ NoObj \in Obj
    /\ Idle \in Work /\ Idle.pc = "idle" /\ Idle.value = "none"
    /\ \A f \in File : NumSegs[f] \in Nat /\ NumSegs[f] > 0
  <1>1. (CHOOSE f \in File : TRUE) \in File
    OBVIOUS
  <1>2. NewDetail \in Detail
    BY DEF NewDetail, Detail, State
  <1>3. NoObj \in Obj
    BY <1>2 DEF NoObj, Obj, State
  <1>4. Idle \in Work /\ Idle.pc = "idle" /\ Idle.value = "none"
    BY <1>1 DEF Idle, Work, PC, Value
  <1>. QED  BY <1>2, <1>3, <1>4

LEMMA InitTypes == Init => Types
  <1>. SUFFICES ASSUME Init PROVE Types
    OBVIOUS
  <1>1. db \in Row /\ Bounded(db.det)
    BY RecordTypes DEF Init, Row, Bounded, NewDetail, State
  <1>2. objs \in [1..MaxLoads -> Obj] /\ \A i \in 1..MaxLoads : Bounded(objs[i].det)
    BY RecordTypes DEF Init, NoObj, Bounded, NewDetail
  <1>3. actor \in [Actor -> Work] /\ \A a \in Actor : actor[a] = Idle
    BY RecordTypes DEF Init
  <1>. QED  BY <1>1, <1>2, <1>3, RecordTypes DEF Init, Types

ActorTypes ==
    /\ actor \in [Actor -> Work]
    /\ \A a \in Actor :
         /\ actor[a] # Idle => actor[a].pc # "idle" /\ actor[a].obj \in 1..loads
         /\ actor[a].pc = "update" => actor[a].value \in {"PAUSE", "DOING", "DONE"}

ObjTypes ==
    /\ objs \in [1..MaxLoads -> Obj]
    /\ \A i \in 1..MaxLoads : Bounded(objs[i].det)
    /\ loads \in 0..MaxLoads /\ cache \in 0..loads
    /\ cache # 0 => objs[cache].cached

(* What a step makes of the actors.                                        *)
LEMMA GotoIs ==
    ASSUME Types, NEW a \in Actor, actor[a] # Idle, loads' = loads,
           NEW pc \in PC \ {"idle", "update"}, Goto(a, pc)
    PROVE  /\ ActorTypes'
           /\ \A b \in Actor \ {a} : actor'[b] = actor[b]
           /\ actor'[a] # Idle /\ actor'[a].pc = pc
           /\ actor'[a].obj = actor[a].obj /\ actor'[a].file = actor[a].file
           /\ actor'[a].value = actor[a].value /\ actor'[a].seen = actor[a].seen
  <1>1. actor \in [Actor -> Work]
    BY DEF Types
  <1>2. actor' = [actor EXCEPT ![a] = [actor[a] EXCEPT !.pc = pc]]
    BY DEF Goto
  <1>3. [actor[a] EXCEPT !.pc = pc] \in Work
    BY <1>1 DEF Work
  <1>4. actor'[a] = [actor[a] EXCEPT !.pc = pc] /\ actor' \in [Actor -> Work]
    BY <1>1, <1>2, <1>3
  <1>5. \A b \in Actor \ {a} : actor'[b] = actor[b]
    BY <1>1, <1>2
  <1>6. /\ actor'[a].pc = pc /\ actor'[a].obj = actor[a].obj
        /\ actor'[a].file = actor[a].file /\ actor'[a].value = actor[a].value
        /\ actor'[a].seen = actor[a].seen
    BY <1>1, <1>4 DEF Work
  <1>7. actor'[a] # Idle
    BY <1>6 DEF Idle
  <1>8. ActorTypes'
    BY <1>4, <1>5, <1>6 DEF ActorTypes, Types
  <1>. QED  BY <1>5, <1>6, <1>7, <1>8

LEMMA EndIs ==
    ASSUME Types, NEW a \in Actor, loads' = loads, End(a)
    PROVE  /\ ActorTypes'
           /\ \A b \in Actor \ {a} : actor'[b] = actor[b]
           /\ actor'[a] = Idle /\ actor'[a].pc = "idle" /\ actor'[a].value = "none"
  <1>1. actor \in [Actor -> Work] /\ actor' = [actor EXCEPT ![a] = Idle]
    BY DEF Types, End
  <1>2. /\ \A b \in Actor \ {a} : actor'[b] = actor[b]
        /\ actor'[a] = Idle /\ actor'[a].pc = "idle" /\ actor'[a].value = "none"
    BY <1>1 DEF Idle
  <1>3. ActorTypes'
    BY <1>1, <1>2, RecordTypes DEF ActorTypes, Types
  <1>. QED  BY <1>2, <1>3

(* The object that getJob returns is that of the cache, or was read.       *)
LEMMA GetJobIs ==
    ASSUME Types, NEW a \in Actor, NEW pc \in PC \ {"idle"}, NEW f \in File,
           NEW value \in Value, GetJob(a, pc, f, value),
           pc = "update" => value \in {"PAUSE", "DOING", "DONE"}
    PROVE  /\ ActorTypes' /\ ObjTypes'
           /\ \A b \in Actor \ {a} : actor'[b] = actor[b]
           /\ actor'[a] # Idle /\ actor'[a].pc = pc /\ actor'[a].file = f
           /\ actor'[a].value = value /\ actor'[a].obj \in 1..MaxLoads
           /\ \/ cache = actor'[a].obj /\ objs' = objs /\ cache' = cache
              \/ /\ cache = 0 /\ objs'[actor'[a].obj] = Loaded
                 /\ cache' \in {0, actor'[a].obj}
  <1>. DEFINE i == IF cache # 0 THEN cache ELSE loads + 1
              w == [pc |-> pc, obj |-> i, file |-> f, value |-> value, seen |-> 0]
  <1>1. i \in 1..MaxLoads /\ i \in 1..loads' /\ loads' \in 0..MaxLoads /\ loads <= loads'
    BY DEF GetJob, Types
  <1>2. actor' = [actor EXCEPT ![a] = w] /\ actor \in [Actor -> Work]
    BY DEF GetJob, Types
  <1>3. w \in Work
    BY <1>1 DEF Work
  <1>4. /\ \A b \in Actor \ {a} : actor'[b] = actor[b]
        /\ actor'[a] = w /\ actor' \in [Actor -> Work]
    BY <1>2, <1>3
  <1>5. /\ actor'[a] # Idle /\ actor'[a].pc = pc /\ actor'[a].file = f
        /\ actor'[a].value = value /\ actor'[a].obj = i
    BY <1>4 DEF Idle
  <1>6. ActorTypes'
    <2>1. ASSUME NEW b \in Actor \ {a}
          PROVE  /\ actor'[b] # Idle => actor'[b].pc # "idle" /\ actor'[b].obj \in 1..loads'
                 /\ actor'[b].pc = "update" => actor'[b].value \in {"PAUSE", "DOING", "DONE"}
      BY <1>1, <1>4 DEF Types
    <2>. QED  BY <1>1, <1>4, <1>5, <2>1 DEF ActorTypes
  <1>7. Loaded \in Obj /\ Bounded(Loaded.det)
    BY UnfinishedType DEF Types, Loaded, Obj, Row
  <1>8. CASE cache # 0
    <2>1. i = cache /\ objs' = objs /\ cache' = cache /\ loads' = loads
      BY <1>8 DEF GetJob
    <2>2. ObjTypes'
      BY <2>1 DEF Types, ObjTypes
    <2>. QED  BY <1>1, <1>4, <1>5, <1>6, <2>1, <2>2
  <1>9. CASE cache = 0
    <2>1. /\ i = loads + 1 /\ loads' = i /\ objs' = [objs EXCEPT ![i] = Loaded]
          /\ cache' = IF Loaded.cached THEN i ELSE 0
      BY <1>9 DEF GetJob
    <2>2. /\ objs' \in [1..MaxLoads -> Obj] /\ objs'[i] = Loaded
          /\ \A j \in 1..MaxLoads : j # i => objs'[j] = objs[j]
      BY <1>1, <1>7, <2>1 DEF Types
    <2>3. \A j \in 1..MaxLoads : Bounded(objs'[j].det)
      BY <1>7, <2>2 DEF Types
    <2>4. cache' \in {0, i} /\ (cache' # 0 => objs'[cache'].cached)
      BY <2>1, <2>2
    <2>5. ObjTypes'
      <3>1. /\ objs' \in [1..MaxLoads -> Obj]
            /\ (\A j \in 1..MaxLoads : Bounded(objs[j].det))'
        BY <2>2, <2>3 DEF Bounded
      <3>. QED  BY <1>1, <2>1, <2>4, <3>1 DEF ObjTypes
    <2>. QED  BY <1>1, <1>4, <1>5, <1>6, <1>9, <2>2, <2>4, <2>5
  <1>. QED  BY <1>8, <1>9

(* What a change of one object makes of the objects.                       *)
LEMMA ObjIs ==
    ASSUME Types, NEW i \in 1..loads, NEW o \in Obj, Bounded(o.det),
           o.cached = objs[i].cached, objs' = [objs EXCEPT ![i] = o],
           UNCHANGED <<cache, loads>>
    PROVE  /\ ObjTypes' /\ objs'[i] = o
           /\ \A j \in 1..MaxLoads : j # i => objs'[j] = objs[j]
  <1>1. i \in 1..MaxLoads /\ objs \in [1..MaxLoads -> Obj]
    BY DEF Types
  <1>2. /\ \A j \in 1..MaxLoads : j # i => objs'[j] = objs[j]
        /\ objs'[i] = o /\ objs' \in [1..MaxLoads -> Obj]
    BY <1>1
  <1>3. \A j \in 1..MaxLoads : \A f \in File : objs'[j].det[f].segs <= NumSegs[f]
    <2>1. \A f \in File : objs'[i].det[f].segs <= NumSegs[f]
      BY <1>2 DEF Bounded
    <2>2. \A j \in 1..MaxLoads : j # i =>
            \A f \in File : objs'[j].det[f].segs <= NumSegs[f]
      BY <1>2 DEF Types, Bounded
    <2>. QED  BY <2>1, <2>2
  <1>4. cache' # 0 => objs'[cache'].cached
    <2>1. cache' = cache /\ cache \in 0..MaxLoads /\ (cache # 0 => objs[cache].cached)
      BY DEF Types
    <2>. QED  BY <1>2, <2>1
  <1>5. loads' \in 0..MaxLoads /\ cache' \in 0..loads'
    BY DEF Types
  <1>6. (\A j \in 1..MaxLoads : Bounded(objs[j].det))'
    BY <1>3 DEF Bounded
  <1>. QED  BY <1>2, <1>4, <1>5, <1>6 DEF ObjTypes

(* What a change of a detail and its row makes of the object and the rows. *)
LEMMA SaveIs ==
    ASSUME Types, NEW a \in Actor, actor[a] # Idle, UNCHANGED <<cache, loads>>,
           NEW d \in Detail, d.segs <= NumSegs[actor[a].file], SaveDetail(a, d)
    PROVE  LET i == actor[a].obj
               f == actor[a].file
           IN
           /\ ObjTypes' /\ db' \in Row /\ Bounded(db'.det)
           /\ f \in File /\ i \in 1..loads
           /\ db'.det = [db.det EXCEPT ![f] = d]
           /\ db'.state = db.state /\ db'.times = db.times
           /\ \A j \in 1..MaxLoads : j # i => objs'[j] = objs[j]
           /\ objs'[i].det = [objs[i].det EXCEPT ![f] = d]
           /\ objs'[i].state = objs[i].state /\ objs'[i].times = objs[i].times
           /\ objs'[i].unfinished = objs[i].unfinished
           /\ objs'[i].cached = objs[i].cached
  <1>. DEFINE i == actor[a].obj
              f == actor[a].file
              o == [objs[i] EXCEPT !.det = [objs[i].det EXCEPT ![f] = d]]
  <1>1. i \in 1..loads /\ i \in 1..MaxLoads /\ f \in File
    BY DEF Types, Work
  <1>2. objs[i] \in Obj /\ objs \in [1..MaxLoads -> Obj]
    BY <1>1 DEF Types
  <1>3. objs' = [objs EXCEPT ![i] = o]
    BY DEF SaveDetail
  <1>4. /\ o.det = [objs[i].det EXCEPT ![f] = d]
        /\ o.state = objs[i].state /\ o.times = objs[i].times
        /\ o.unfinished = objs[i].unfinished /\ o.cached = objs[i].cached
    BY <1>2 DEF Obj
  <1>5. o.det \in [File -> Detail] /\ o \in Obj
    BY <1>1, <1>2, <1>4 DEF Obj
  <1>6. Bounded(o.det)
    BY <1>1, <1>2, <1>4 DEF Bounded, Types, Obj
  <1>7. /\ ObjTypes' /\ objs'[i] = o
        /\ \A j \in 1..MaxLoads : j # i => objs'[j] = objs[j]
    <2>. HIDE DEF o, i
    <2>. QED  BY <1>1, <1>3, <1>4, <1>5, <1>6, ObjIs
  <1>9. /\ db' = [db EXCEPT !.det = [db.det EXCEPT ![f] = d]]
        /\ db \in Row /\ Bounded(db.det)
    BY DEF SaveDetail, Types
  <1>10. /\ db'.det = [db.det EXCEPT ![f] = d] /\ db' \in Row
         /\ db'.state = db.state /\ db'.times = db.times
    BY <1>1, <1>9 DEF Row
  <1>11. Bounded(db'.det)
    BY <1>1, <1>9, <1>10 DEF Bounded, Row
  <1>. QED  BY <1>1, <1>4, <1>7, <1>10, <1>11

(* Types, put together again.                                              *)
LEMMA TypesAre ==
    Types <=> /\ db \in Row /\ Bounded(db.det)
              /\ ObjTypes /\ ActorTypes
              /\ delayed \in Nat /\ told \in Nat /\ tasks \subseteq File
              /\ has \in [File -> Nat] /\ \A f \in File : has[f] <= NumSegs[f]
              /\ calls \in 0..MaxReports /\ creates \in 0..MaxCreates
              /\ restarts \in 0..MaxRestarts
  BY DEF Types, ObjTypes, ActorTypes

LEMMA NewTypes ==
    ASSUME (db \in Row)', Bounded(db'.det), ObjTypes', ActorTypes',
           (delayed \in Nat)', (told \in Nat)', (tasks \subseteq File)',
           (has \in [File -> Nat])', (\A f \in File : has[f] <= NumSegs[f])',
           (calls \in 0..MaxReports)', (creates \in 0..MaxCreates)',
           (restarts \in 0..MaxRestarts)'
    PROVE  Types'
  <1>1. Bounded(db.det)' /\ (\A i \in 1..MaxLoads : Bounded(objs[i].det))'
    BY DEF ObjTypes, Bounded
  <1>. QED  BY <1>1 DEF Types, ObjTypes, ActorTypes

LEMMA UpdatedIs ==
    ASSUME NEW f \in File, NEW d \in Detail, d.segs <= NumSegs[f],
           NEW s \in {"PAUSE", "DOING", "DONE"}
    PROVE  LET new == Updated(f, d, s) IN
           /\ new \in Detail /\ new.segs <= NumSegs[f]
           /\ new.started = d.started
           /\ new.state = "DONE" <=> new.segs = NumSegs[f]
           /\ new.segs = d.segs
              \/ (s = "DONE" /\ new.segs = d.segs + 1 /\ new.segs <= NumSegs[f])
  <1>. DEFINE segs == IF s # "DONE" THEN d.segs
                      ELSE IF d.segs < NumSegs[f] THEN d.segs + 1 ELSE NumSegs[f]
              state == IF segs = NumSegs[f] THEN "DONE"
                       ELSE IF s = "DONE" THEN "PAUSE" ELSE s
              new == Updated(f, d, s)
  <1>1. NumSegs[f] \in Nat /\ NumSegs[f] > 0
    BY RecordTypes
  <1>2. /\ new.segs = segs /\ new.state = state /\ new.started = d.started
        /\ new = [d EXCEPT !.segs = segs, !.state = state]
    BY DEF Updated, Detail
  <1>3. segs \in Nat /\ segs <= NumSegs[f] /\ state \in State
    BY <1>1 DEF Detail, State
  <1>4. new \in Detail
    <2>. HIDE DEF segs, state, new
    <2>. QED  BY <1>2, <1>3 DEF Detail
  <1>5. segs = d.segs \/ (s = "DONE" /\ segs = d.segs + 1)
    BY <1>1 DEF Detail
  <1>6. state = "DONE" <=> segs = NumSegs[f]
    OBVIOUS
  <1>. QED  BY <1>2, <1>3, <1>4, <1>5, <1>6

-----------------------------------------------------------------------------
LEMMA NextTypes == Types /\ [Next]_vars => Types'
  <1>. SUFFICES ASSUME Types, [Next]_vars PROVE Types'
    OBVIOUS
  <1>. USE DEF store, ghosts, bounds
  <1>0. /\ db \in Row /\ Bounded(db.det) /\ ObjTypes /\ ActorTypes
        /\ objs \in [1..MaxLoads -> Obj] /\ actor \in [Actor -> Work]
        /\ Observer \in Actor /\ \A h \in Handler : h \in Actor
    BY TypesAre DEF Types, Actor
  <1>K. UNCHANGED <<db, objs, cache, loads>> => ObjTypes' /\ db' \in Row /\ Bounded(db'.det)
    BY <1>0 DEF ObjTypes, Bounded
  <1>B. ASSUME NEW a \in Actor, actor[a].pc # "idle"
        PROVE  /\ actor[a] # Idle
               /\ actor[a].obj \in 1..loads /\ actor[a].obj \in 1..MaxLoads
               /\ actor[a].file \in File
               /\ Mine(a) \in Obj /\ Bounded(Mine(a).det)
               /\ MyDetail(a) \in Detail /\ MyDetail(a).segs <= NumSegs[actor[a].file]
    <2>1. actor[a] # Idle /\ actor[a].obj \in 1..loads /\ actor[a].obj \in 1..MaxLoads
      BY <1>B, RecordTypes DEF Types
    <2>2. actor[a].file \in File
      BY <1>0 DEF Work
    <2>3. Mine(a) \in Obj /\ Bounded(Mine(a).det)
      BY <2>1 DEF Types, Mine
    <2>4. MyDetail(a) \in Detail
      BY <2>2, <2>3 DEF MyDetail, Obj
    <2>5. MyDetail(a).segs <= NumSegs[actor[a].file]
      BY <2>2, <2>3 DEF MyDetail, Bounded
    <2>. QED  BY <2>1, <2>2, <2>3, <2>4, <2>5
  <1>1. ASSUME NEW f \in File, NEW n \in 1..NumSegs[f], AddTask(f, n)
        PROVE  Types'
    <2>1. ActorTypes' /\ ObjTypes'
      BY <1>0, <1>1, GetJobIs DEF AddTask, PC, Value
    <2>. QED  BY <1>0, <1>1, <2>1, NewTypes DEF AddTask, MayStart, Types
  <1>2. CASE ResetDetail
    <2>1. [NewDetail EXCEPT !.started = TRUE] \in Detail
          /\ [NewDetail EXCEPT !.started = TRUE].segs = 0
      BY DEF NewDetail, Detail, State
    <2>2. Observer \in Actor /\ actor[Observer].pc # "idle" /\ loads' = loads
      BY <1>0, <1>2 DEF ResetDetail
    <2>3. ActorTypes'
      BY <1>2, <1>B, <2>2, GotoIs DEF ResetDetail, PC
    <2>4. ObjTypes' /\ db' \in Row /\ Bounded(db'.det)
      <3>1. CASE SaveDetail(Observer, [NewDetail EXCEPT !.started = TRUE])
        <4>1. 0 <= NumSegs[actor[Observer].file]
          BY <1>B, <2>2, RecordTypes
        <4>2. UNCHANGED <<cache, loads>>
          BY <1>2 DEF ResetDetail
        <4>. QED  BY <1>B, <2>1, <2>2, <3>1, <4>1, <4>2, SaveIs
      <3>2. CASE UNCHANGED <<db, objs>>
        BY <1>2, <1>K, <3>2 DEF ResetDetail
      <3>. QED  BY <1>2, <3>1, <3>2 DEF ResetDetail
    <2>. QED  BY <1>2, <2>3, <2>4, NewTypes DEF ResetDetail, Types
  <1>3. CASE StartJob
    <2>1. Observer \in Actor /\ actor[Observer].pc # "idle" /\ loads' = loads
      BY <1>0, <1>3 DEF StartJob
    <2>2. ActorTypes'
      BY <1>3, <2>1, EndIs DEF StartJob
    <2>3. ObjTypes' /\ db' \in Row /\ Bounded(db'.det)
      <3>1. CASE UNCHANGED <<db, objs>>
        BY <1>3, <1>K, <3>1 DEF StartJob
      <3>2. CASE /\ objs' = [objs EXCEPT ![actor[Observer].obj].state = "DOING"]
                 /\ db' = [db EXCEPT !.state = "DOING"]
        <4>. DEFINE i == actor[Observer].obj
                    o == [objs[i] EXCEPT !.state = "DOING"]
        <4>1. i \in 1..loads /\ objs[i] \in Obj /\ Bounded(objs[i].det)
          BY <1>B, <2>1 DEF Mine
        <4>2. o \in Obj /\ o.det = objs[i].det /\ o.cached = objs[i].cached
          BY <4>1 DEF Obj, State
        <4>3. objs' = [objs EXCEPT ![i] = o] /\ UNCHANGED <<cache, loads>>
          BY <1>3, <3>2 DEF StartJob
        <4>4. ObjTypes'
          <5>. HIDE DEF o, i
          <5>. QED  BY <4>1, <4>2, <4>3, ObjIs
        <4>5. db' \in Row /\ db'.det = db.det
          BY <1>0, <3>2 DEF Row, State
        <4>. QED  BY <1>0, <4>4, <4>5
      <3>. QED  BY <1>3, <3>1, <3>2 DEF StartJob
    <2>. QED  BY <1>3, <2>2, <2>3, NewTypes DEF StartJob, Types
  <1>4. ASSUME NEW f \in File, DelTask(f)
        PROVE  Types'
    <2>1. ActorTypes' /\ ObjTypes'
      BY <1>0, <1>4, GetJobIs DEF DelTask, PC, Value
    <2>. QED  BY <1>0, <1>4, <2>1, NewTypes DEF DelTask, MayStart, Types
  <1>5. CASE CheckDone
    <2>1. Observer \in Actor /\ actor[Observer].pc # "idle" /\ loads' = loads
      BY <1>0, <1>5 DEF CheckDone
    <2>2. ActorTypes'
      BY <1>5, <1>B, <2>1, GotoIs, EndIs DEF CheckDone, PC
    <2>. QED  BY <1>5, <1>K, <2>2, NewTypes DEF CheckDone, Types
  <1>6. CASE PauseDetail
    <2>1. Observer \in Actor /\ actor[Observer].pc # "idle" /\ loads' = loads
      BY <1>0, <1>6 DEF PauseDetail
    <2>2. /\ [MyDetail(Observer) EXCEPT !.state = "PAUSE"] \in Detail
          /\ [MyDetail(Observer) EXCEPT !.state = "PAUSE"].segs = MyDetail(Observer).segs
      BY <1>B, <2>1 DEF Detail, State
    <2>3. ActorTypes'
      BY <1>6, <2>1, EndIs DEF PauseDetail
    <2>4. ObjTypes' /\ db' \in Row /\ Bounded(db'.det)
      BY <1>6, <1>B, <2>1, <2>2, SaveIs DEF PauseDetail
    <2>. QED  BY <1>6, <2>3, <2>4, NewTypes DEF PauseDetail, Types
  <1>7. ASSUME NEW f \in File, NEW s \in {"DOING", "PAUSE", "DONE"}, Report(f, s)
        PROVE  Types'
    <2>1. ActorTypes' /\ ObjTypes'
      <3>1. GetJob(Observer, "update", f, s) /\ "update" \in PC \ {"idle"} /\ s \in Value
        BY <1>7 DEF Report, PC, Value
      <3>. QED  BY <1>0, <3>1, GetJobIs
    <2>2. has' \in [File -> Nat] /\ \A g \in File : has'[g] <= NumSegs[g]
      <3>1. \/ has[f] < NumSegs[f] /\ has' = [has EXCEPT ![f] = @ + 1]
            \/ has' = has
        BY <1>7 DEF Report
      <3>2. has \in [File -> Nat] /\ \A g \in File : has[g] <= NumSegs[g]
        BY DEF Types
      <3>. QED  BY <3>1, <3>2, RecordTypes
    <2>. QED  BY <1>0, <1>7, <2>1, <2>2, NewTypes DEF Report, MayStart, Types
  <1>8. CASE UpdateDetail
    <2>. DEFINE a == Observer
                i == actor[a].obj
                f == actor[a].file
                d == Updated(f, MyDetail(a), actor[a].value)
                o == [objs[i] EXCEPT !.det = [objs[i].det EXCEPT ![f] = d]]
                w == [actor[a] EXCEPT !.pc = IF d.state = "DONE" THEN "count" ELSE "save",
                                      !.seen = objs[i].unfinished]
    <2>1. a \in Actor /\ actor[a].pc # "idle" /\ loads' = loads /\ cache' = cache
          /\ actor[a].value \in {"PAUSE", "DOING", "DONE"}
      BY <1>0, <1>8 DEF UpdateDetail, ActorTypes
    <2>2. d \in Detail /\ d.segs <= NumSegs[f]
      BY <1>B, <2>1, UpdatedIs
    <2>3. /\ objs' = [objs EXCEPT ![i] = o] /\ actor' = [actor EXCEPT ![a] = w]
      BY <1>8 DEF UpdateDetail
    <2>4. o \in Obj /\ Bounded(o.det) /\ o.cached = objs[i].cached
      <3>1. /\ objs[i] \in Obj /\ Bounded(objs[i].det) /\ f \in File
        BY <1>B, <2>1 DEF Mine
      <3>2. o.det = [objs[i].det EXCEPT ![f] = d] /\ o.cached = objs[i].cached
        BY <3>1 DEF Obj
      <3>. HIDE DEF d, i, f
      <3>3. o \in Obj
        BY <2>2, <3>1 DEF Obj
      <3>4. Bounded(o.det)
        BY <2>2, <3>1, <3>2 DEF Bounded, Obj
      <3>. QED  BY <3>2, <3>3, <3>4
    <2>5. ObjTypes'
      <3>1. i \in 1..loads
        BY <1>B, <2>1
      <3>. HIDE DEF o, i
      <3>. QED  BY <2>1, <2>3, <2>4, <3>1, ObjIs
    <2>6. w \in Work /\ w.pc \notin {"idle", "update"} /\ w.obj = i
      <3>1. actor[a] \in Work /\ objs[i].unfinished \in Int
        BY <1>0, <1>B, <2>1 DEF Mine, Obj
      <3>. HIDE DEF d
      <3>. QED  BY <3>1 DEF Work, PC
    <2>7. ActorTypes'
      BY <1>0, <1>B, <2>1, <2>3, <2>6 DEF ActorTypes
    <2>. QED  BY <1>0, <1>8, <2>5, <2>7, NewTypes DEF UpdateDetail, Types
  <1>9. CASE Save
    <2>1. Observer \in Actor /\ actor[Observer].pc # "idle" /\ loads' = loads
      BY <1>0, <1>9 DEF Save
    <2>3. ActorTypes'
      BY <1>9, <1>B, <2>1, GotoIs DEF Save, PC
    <2>4. ObjTypes' /\ db' \in Row /\ Bounded(db'.det)
      BY <1>9, <1>B, <2>1, SaveIs DEF Save
    <2>. QED  BY <1>9, <2>3, <2>4, NewTypes DEF Save, Types
  <1>10. ASSUME NEW h \in Handler, NEW f \in File, Skip(h, f)
         PROVE  Types'
    <2>1. ActorTypes' /\ ObjTypes'
      BY <1>0, <1>10, GetJobIs DEF Skip, PC, Value
    <2>2. has' \in [File -> Nat] /\ \A g \in File : has'[g] <= NumSegs[g]
      BY <1>10, RecordTypes DEF Skip, Types
    <2>. QED  BY <1>0, <1>10, <2>1, <2>2, NewTypes DEF Skip, MayStart, Types
  <1>11. ASSUME NEW h \in Handler, NEW f \in File, Resume(h, f)
         PROVE  Types'
    <2>1. ActorTypes' /\ ObjTypes'
      BY <1>0, <1>11, GetJobIs DEF Resume, PC, Value
    <2>2. has' \in [File -> Nat] /\ \A g \in File : has'[g] <= NumSegs[g]
      <3>1. has' \in {has, [has EXCEPT ![f] = 0]}
        BY <1>11 DEF Resume
      <3>2. has \in [File -> Nat] /\ \A g \in File : has[g] <= NumSegs[g]
        BY DEF Types
      <3>. QED  BY <3>1, <3>2, RecordTypes
    <2>. QED  BY <1>0, <1>11, <2>1, <2>2, NewTypes DEF Resume, MayStart, Types
  <1>12. ASSUME NEW h \in Handler, SkipDetail(h)
         PROVE  Types'
    <2>. DEFINE f == actor[h].file
                d == [state |-> "DONE", segs |-> NumSegs[f], started |-> TRUE]
                w == [actor[h] EXCEPT !.pc = IF Mine(h).cached THEN "count" ELSE "process",
                                      !.seen = Mine(h).unfinished]
    <2>1. h \in Actor /\ actor[h].pc # "idle" /\ loads' = loads /\ cache' = cache
      BY <1>0, <1>12 DEF SkipDetail
    <2>2. d \in Detail /\ d.segs <= NumSegs[f]
      BY <1>B, <2>1, RecordTypes DEF Detail, State
    <2>3. ObjTypes' /\ db' \in Row /\ Bounded(db'.det)
      BY <1>12, <1>B, <2>1, <2>2, SaveIs DEF SkipDetail
    <2>4. actor' = [actor EXCEPT ![h] = w]
      BY <1>12 DEF SkipDetail
    <2>5. w \in Work /\ w.pc \notin {"idle", "update"} /\ w.obj = actor[h].obj
      <3>1. actor[h] \in Work /\ Mine(h).unfinished \in Int
        BY <1>0, <1>B, <2>1 DEF Obj
      <3>. QED  BY <3>1 DEF Work, PC
    <2>6. ActorTypes'
      BY <1>0, <1>B, <2>1, <2>4, <2>5 DEF ActorTypes
    <2>. QED  BY <1>12, <2>3, <2>6, NewTypes DEF SkipDetail, Types
  <1>13. ASSUME NEW h \in Handler, ResumeDetail(h)
         PROVE  Types'
    <2>. DEFINE d == [MyDetail(h) EXCEPT !.segs = has[actor[h].file]]
    <2>1. h \in Actor /\ actor[h].pc # "idle" /\ loads' = loads
      BY <1>0, <1>13 DEF ResumeDetail
    <2>2. d \in Detail /\ d.segs <= NumSegs[actor[h].file]
      BY <1>B, <2>1 DEF Detail, State, Types
    <2>3. ActorTypes'
      BY <1>13, <2>1, EndIs DEF ResumeDetail
    <2>4. ObjTypes' /\ db' \in Row /\ Bounded(db'.det)
      BY <1>13, <1>B, <2>1, <2>2, SaveIs DEF ResumeDetail
    <2>. QED  BY <1>13, <2>3, <2>4, NewTypes DEF ResumeDetail, Types
  <1>14. ASSUME NEW h \in Handler, Recreate(h)
         PROVE  Types'
    <2>1. db' \in Row /\ Bounded(db'.det)
      <3>1. /\ db'.det = [f \in File |-> NewDetail] /\ db' \in Row
        BY <1>0, <1>14, RecordTypes DEF Recreate, Row
      <3>. QED  BY <3>1, RecordTypes DEF Bounded, NewDetail
    <2>2. ObjTypes' /\ ActorTypes'
      BY <1>0, <1>14 DEF Recreate, ObjTypes, ActorTypes, Bounded
    <2>. QED  BY <1>14, <2>1, <2>2, NewTypes, SMTT(30) DEF Recreate, Types
  <1>15. ASSUME NEW a \in Actor, Count(a)
         PROVE  Types'
    <2>. DEFINE i == actor[a].obj
                o == [objs[i] EXCEPT !.unfinished = actor[a].seen - 1]
    <2>1. actor[a].pc # "idle" /\ loads' = loads /\ cache' = cache
      BY <1>15 DEF Count
    <2>2. ActorTypes'
      BY <1>15, <1>B, <2>1, GotoIs DEF Count, PC
    <2>3. o \in Obj /\ o.det = objs[i].det /\ o.cached = objs[i].cached
      <3>1. objs[i] \in Obj /\ actor[a].seen \in Int
        BY <1>0, <1>B, <2>1 DEF Work, Mine
      <3>. QED  BY <3>1 DEF Obj
    <2>4. ObjTypes'
      <3>1. i \in 1..loads /\ Bounded(objs[i].det) /\ objs' = [objs EXCEPT ![i] = o]
        BY <1>15, <1>B, <2>1 DEF Count, Mine
      <3>. HIDE DEF o, i
      <3>. QED  BY <2>1, <2>3, <3>1, ObjIs
    <2>. QED  BY <1>0, <1>15, <2>2, <2>4, NewTypes DEF Count, Types
  <1>16. ASSUME NEW a \in Actor, ProcessJob(a)
         PROVE  Types'
    <2>1. ActorTypes' /\ ObjTypes'
      BY <1>0, <1>B, <1>16, GetJobIs DEF ProcessJob, PC, Value
    <2>. QED  BY <1>0, <1>16, <2>1, NewTypes DEF ProcessJob, Types
  <1>17. ASSUME NEW a \in Actor, Finish(a)
         PROVE  Types'
    <2>. DEFINE i == actor[a].obj
                o == [objs[i] EXCEPT !.times = @ + 1, !.state = "DONE"]
    <2>1. actor[a].pc # "idle" /\ loads' = loads /\ cache' = cache
      BY <1>17 DEF Finish
    <2>2. ActorTypes'
      BY <1>17, <1>B, <2>1, GotoIs, EndIs DEF Finish, PC
    <2>3. CASE End(a) /\ UNCHANGED <<db, objs, delayed>>
      BY <1>17, <1>K, <2>2, <2>3, NewTypes DEF Finish, Types
    <2>4. CASE /\ objs' = [objs EXCEPT ![i].times = @ + 1, ![i].state = "DONE"]
               /\ db' = [db EXCEPT !.times = objs[i].times + 1, !.state = "DONE"]
               /\ delayed' = delayed + 1
      <3>0. objs[i] \in Obj
        BY <1>B, <2>1 DEF Mine
      <3>1. o \in Obj /\ o.det = objs[i].det /\ o.cached = objs[i].cached
        <4>1. objs[i].times + 1 \in Nat
          BY <3>0 DEF Obj
        <4>. QED  BY <3>0, <4>1 DEF Obj, State
      <3>2. objs' = [objs EXCEPT ![i] = o]
        BY <1>0, <1>B, <2>1, <2>4 DEF Obj, Mine
      <3>5. ObjTypes'
        <4>1. i \in 1..loads /\ Bounded(objs[i].det)
          BY <1>B, <2>1 DEF Mine
        <4>. HIDE DEF o, i
        <4>. QED  BY <2>1, <3>1, <3>2, <4>1, ObjIs
      <3>6. db' \in Row /\ db'.det = db.det
        <4>1. objs[i].times + 1 \in Nat
          BY <3>0 DEF Obj
        <4>. QED  BY <1>0, <2>4, <4>1 DEF Row, State
      <3>7. Bounded(db'.det)
        BY <1>0, <3>6
      <3>8. /\ delayed' \in Nat /\ told' \in Nat /\ tasks' \subseteq File
            /\ has' \in [File -> Nat] /\ \A f \in File : has'[f] <= NumSegs[f]
            /\ calls' \in 0..MaxReports /\ creates' \in 0..MaxCreates
            /\ restarts' \in 0..MaxRestarts
        BY <1>17, <2>4 DEF Finish, Types
      <3>. QED  BY <2>2, <2>4, <3>5, <3>6, <3>7, <3>8, NewTypes
    <2>. QED  BY <1>17, <2>3, <2>4 DEF Finish
  <1>18. ASSUME NEW a \in Actor, NotifyFinish(a)
         PROVE  Types'
    <2>1. loads' = loads
      BY <1>18 DEF NotifyFinish
    <2>2. ActorTypes'
      BY <1>18, <2>1, EndIs DEF NotifyFinish
    <2>. QED  BY <1>18, <1>K, <2>2, NewTypes DEF NotifyFinish, Types
  <1>19. CASE DropCache
    <2>1. ObjTypes' /\ ActorTypes'
      BY <1>0, <1>19 DEF DropCache, ObjTypes, ActorTypes, Bounded
    <2>. QED  BY <1>0, <1>19, <2>1, NewTypes DEF DropCache, Types
  <1>20. CASE Restart
    <2>1. ActorTypes'
      BY <1>20, RecordTypes DEF Restart, Stop, ActorTypes
    <2>2. ObjTypes'
      BY <1>0, <1>20 DEF Restart, Stop, ObjTypes, Bounded
    <2>3. db' \in Row /\ Bounded(db'.det)
      <3>. DEFINE det == [f \in File |-> [db.det[f] EXCEPT !.state =
                                            IF @ = "DOING" THEN "PAUSE" ELSE @]]
      <3>1. det \in [File -> Detail] /\ \A f \in File : det[f].segs = db.det[f].segs
        BY <1>0, ZenonT(60) DEF Row, Detail, State
      <3>2. db'.det = det /\ db' \in Row
        BY <1>0, <1>20, <3>1 DEF Restart, Row, State
      <3>. QED  BY <1>0, <3>1, <3>2 DEF Bounded
    <2>. QED  BY <1>20, <2>1, <2>2, <2>3, NewTypes DEF Restart, Stop, Types
  <1>21. CASE UNCHANGED vars
    <2>1. ObjTypes' /\ ActorTypes'
      BY <1>0, <1>21 DEF vars, ObjTypes, ActorTypes, Bounded
    <2>. QED  BY <1>0, <1>21, <2>1, NewTypes DEF vars, Types
  <1>. QED  BY <1>1, <1>2, <1>3, <1>4, <1>5, <1>6, <1>7, <1>8, <1>9, <1>10, <1>11,
               <1>12, <1>13, <1>14, <1>15, <1>16, <1>17, <1>18, <1>19, <1>20, <1>21
            DEF Next

(* Whatever interleaves: the rows, the objects and the counters have their *)
(* types, no detail has more segments than its file (old-cdxs-22), and the *)
(* cache holds an object that was marked as cached.                        *)
THEOREM TypeCorrect == Spec => []TypeOK
  <1>1. Types => TypeOK
    BY DEF Types, TypeOK, Bounded, Obj
  <1>. QED  BY <1>1, InitTypes, NextTypes, PTL DEF Spec

-----------------------------------------------------------------------------
(* One actor at a time: what the steps of the one that works preserve      *)

LEMMA Current ==
    ASSUME Types, SerialInv, NEW a \in Actor, actor[a] # Idle \/ Quiet
    PROVE  Serially(a)
  <1>1. PICK b \in Actor : Serially(b)
    BY DEF SerialInv
  <1>2. CASE a = b
    BY <1>1, <1>2
  <1>3. CASE a # b
    <2>1. actor[a] = Idle
      BY <1>1, <1>3 DEF Serially, Alone
    <2>2. \A c \in Actor : actor[c] = Idle
      BY <2>1 DEF Quiet
    <2>. QED  BY <1>1, <2>2 DEF Serially, Alone, Ending, Telling, Counted, Started
  <1>. QED  BY <1>2, <1>3

LEMMA InitSerial == Init => SerialInv
  <1>. SUFFICES ASSUME Init PROVE Serially(Observer)
    BY DEF SerialInv, Actor
  <1>1. /\ db.det = [f \in File |-> NewDetail] /\ db.state = "IDLE" /\ db.times = 0
        /\ cache = 0 /\ told = 0 /\ tasks = {} /\ has = [f \in File |-> 0]
        /\ \A a \in Actor : actor[a] = Idle
        /\ Observer \in Actor
    BY DEF Init, Actor
  <1>2. Unfinished(db.det) # 0
    BY <1>1, UnfinishedZero DEF NewDetail
  <1>3. Rows(db)
    BY <1>1 DEF Rows, NewDetail
  <1>4. Counted(Observer) /\ Started(Observer)
    BY <1>1, RecordTypes DEF Counted, Started, NewDetail
  <1>5. Ending(Observer) /\ Telling(Observer)
    BY <1>1, <1>2, RecordTypes DEF Ending, Telling
  <1>. QED  BY <1>1, <1>3, <1>4, <1>5 DEF Serially, Alone

(* getJob returns an object that says what the rows say.                   *)
LEMMA GetJobExact ==
    ASSUME Types, NEW a \in Actor, Serially(a),
           actor[a] = Idle \/ actor[a].pc = "process", UNCHANGED db,
           NEW pc \in PC \ {"idle"}, NEW f \in File, NEW value \in Value,
           pc = "update" => value \in {"PAUSE", "DOING", "DONE"},
           GetJob(a, pc, f, value)
    PROVE  /\ Alone(a)' /\ cache' \in {0, actor'[a].obj}
           /\ actor'[a] # Idle /\ actor'[a].pc = pc /\ actor'[a].file = f
           /\ actor'[a].value = value
           /\ Exact(objs'[actor'[a].obj], db')
  <1>1. /\ \A b \in Actor \ {a} : actor'[b] = actor[b]
        /\ actor'[a] # Idle /\ actor'[a].pc = pc /\ actor'[a].file = f
        /\ actor'[a].value = value /\ actor'[a].obj \in 1..MaxLoads
        /\ \/ cache = actor'[a].obj /\ objs' = objs /\ cache' = cache
           \/ /\ cache = 0 /\ objs'[actor'[a].obj] = Loaded
              /\ cache' \in {0, actor'[a].obj}
    BY GetJobIs
  <1>2. Alone(a)'
    BY <1>1 DEF Alone, Serially
  <1>3. CASE cache = actor'[a].obj /\ objs' = objs /\ cache' = cache
    <2>1. Exact(objs[cache], db)
      BY <1>1, <1>3, RecordTypes DEF Serially, Working
    <2>. QED  BY <1>1, <1>2, <1>3, <2>1
  <1>4. CASE objs'[actor'[a].obj] = Loaded /\ cache' \in {0, actor'[a].obj}
    <2>1. Exact(Loaded, db)
      <3>1. Unfinished(db.det) > 0 \/ Unfinished(db.det) = 0
        BY UnfinishedType
      <3>2. /\ Loaded.det = db.det /\ Loaded.state = db.state
            /\ Loaded.times = db.times /\ Loaded.unfinished = Unfinished(db.det)
            /\ Loaded.cached = (Unfinished(db.det) > 0)
        BY DEF Loaded
      <3>. QED  BY <3>1, <3>2 DEF Exact
    <2>. QED  BY <1>1, <1>2, <1>4, <2>1
  <1>. QED  BY <1>1, <1>3, <1>4

(* What is left to show when a, which worked or began to work, is at pc    *)
(* and the rows are as they were.                                          *)
LEMMA Rest ==
    ASSUME Types, NEW a \in Actor, Serially(a), Unfinished(db.det) # 0,
           UNCHANGED <<db, told, restarts>>,
           actor[a].pc # "notify", actor'[a].pc # "notify"
    PROVE  Rows(db)' /\ Ending(a)' /\ Telling(a)'
  <1>1. Rows(db) /\ Telling(a)
    BY DEF Serially
  <1>. QED  BY <1>1 DEF Rows, Ending, Telling

LEMMA AddTaskSerial ==
    ASSUME Types, SerialInv, Serial, ~Repeats,
           NEW f \in File, NEW n \in 1..NumSegs[f], AddTask(f, n)
    PROVE  SerialInv'
  <1>. DEFINE a == Observer
              value == IF n = NumSegs[f] THEN "all" ELSE "some"
  <1>1. a \in Actor /\ actor[a] = Idle /\ actor[a].pc = "idle" /\ Quiet
    BY RecordTypes DEF AddTask, MayStart, Actor, Quiet
  <1>2. Serially(a)
    BY <1>1, Current
  <1>3. /\ GetJob(a, "add", f, value) /\ db.det[f].state # "DONE"
        /\ tasks' = tasks \cup {f}
        /\ UNCHANGED <<db, delayed, told, has, creates, restarts>>
    BY DEF AddTask, MayStart, MayTransfer
  <1>4. /\ Alone(a)' /\ cache' \in {0, actor'[a].obj}
        /\ actor'[a] # Idle /\ actor'[a].pc = "add" /\ actor'[a].file = f
        /\ Exact(objs'[actor'[a].obj], db')
    BY <1>1, <1>2, <1>3, GetJobExact DEF PC, Value
  <1>5. Working(a)'
    BY <1>3, <1>4 DEF Working
  <1>6. Rows(db)' /\ Ending(a)' /\ Telling(a)'
    BY <1>1, <1>2, <1>3, <1>4, Rest, UnfinishedZero
  <1>7. restarts' = 0 => Counted(a)'
    BY <1>1, <1>2, <1>3, <1>4 DEF Serially, Counted
  <1>8. restarts' = 0 /\ creates' = 0 => Started(a)'
    BY <1>1, <1>2, <1>3, <1>4 DEF Serially, Started
  <1>. QED  BY <1>1, <1>4, <1>5, <1>6, <1>7, <1>8 DEF SerialInv, Serially

(* Where the object of a is exact, a changes a detail that is not DONE to  *)
(* another that is not.                                                    *)
LEMMA SaveDetailSerial ==
    ASSUME Types, NEW a \in Actor, Serially(a), actor[a] # Idle,
           actor[a].pc \in {"add", "pause", "resume"},
           NEW d \in Detail, d.segs <= NumSegs[actor[a].file], d.state # "DONE",
           SaveDetail(a, d), UNCHANGED <<cache, loads, told, restarts>>,
           \A b \in Actor \ {a} : actor'[b] = actor[b],
           actor'[a].pc \in {"idle", "start"}
    PROVE  LET f == actor[a].file IN
           /\ f \in File /\ db'.det = [db.det EXCEPT ![f] = d]
           /\ Exact(objs'[actor[a].obj], db') /\ cache' \in {0, actor[a].obj}
           /\ Alone(a)' /\ Rows(db)' /\ Ending(a)' /\ Telling(a)'
  <1>. DEFINE i == actor[a].obj
              f == actor[a].file
  <1>1. /\ Exact(objs[i], db) /\ db.det[f].state # "DONE" /\ Rows(db)
        /\ cache \in {0, i} /\ Telling(a)
    BY DEF Serially, Working
  <1>2. /\ f \in File /\ db'.det = [db.det EXCEPT ![f] = d]
        /\ db'.state = db.state /\ db'.times = db.times
        /\ objs'[i].det = [objs[i].det EXCEPT ![f] = d]
        /\ objs'[i].state = objs[i].state /\ objs'[i].times = objs[i].times
        /\ objs'[i].unfinished = objs[i].unfinished
        /\ objs'[i].cached = objs[i].cached
    BY SaveIs
  <1>3. db.det \in [File -> Detail]
    BY DEF Types, Row
  <1>4. Exact(objs'[i], db') /\ Unfinished(db'.det) # 0 /\ Rows(db')
    <2>. HIDE DEF i, f
    <2>1. \A g \in File : db'.det[g] = IF g = f THEN d ELSE db.det[g]
      BY <1>2, <1>3
    <2>2. Unfinished(db'.det) = Unfinished(db.det)
      BY <1>1, <2>1, UnfinishedSame
    <2>3. Unfinished(db'.det) # 0
      <3>1. Unfinished(db.det) # 0
        BY <1>1, <1>2, UnfinishedZero
      <3>. QED  BY <2>2, <3>1
    <2>4. Rows(db')
      BY <1>1, <1>2, <2>1 DEF Rows
    <2>5. Exact(objs'[i], db')
      BY <1>1, <1>2, <2>2 DEF Exact
    <2>. QED  BY <2>3, <2>4, <2>5
  <1>5. Rows(db)' /\ Ending(a)' /\ Telling(a)'
    BY <1>1, <1>2, <1>4 DEF Ending, Telling
  <1>6. Alone(a)'
    BY DEF Alone, Serially
  <1>. QED  BY <1>1, <1>2, <1>4, <1>5, <1>6

LEMMA ResetDetailSerial ==
    ASSUME Types, SerialInv, ResetDetail
    PROVE  SerialInv'
  <1>. DEFINE a == Observer
              f == actor[a].file
              d == [NewDetail EXCEPT !.started = TRUE]
  <1>1. a \in Actor /\ actor[a].pc = "add" /\ actor[a] # Idle
    BY RecordTypes DEF ResetDetail, Actor
  <1>2. Serially(a) /\ Working(a) /\ f \in File
    BY <1>1, Current DEF Serially, Types, Work
  <1>3. UNCHANGED <<cache, loads, delayed, told, tasks, has, creates, restarts>>
    BY DEF ResetDetail, ghosts, bounds
  <1>4. /\ \A b \in Actor \ {a} : actor'[b] = actor[b]
        /\ actor'[a] # Idle /\ actor'[a].pc = "start"
        /\ actor'[a].obj = actor[a].obj /\ actor'[a].file = f
    BY <1>1, <1>3, GotoIs DEF ResetDetail, PC
  <1>5. /\ \/ db'.det = [db.det EXCEPT ![f] = d]
           \/ db' = db /\ db.det[f].started
        /\ Exact(objs'[actor[a].obj], db') /\ cache' \in {0, actor[a].obj}
        /\ Alone(a)' /\ Rows(db)' /\ Ending(a)' /\ Telling(a)'
    <2>1. CASE SaveDetail(a, d)
      <3>1. d \in Detail /\ d.segs <= NumSegs[f] /\ d.state # "DONE"
        <4>1. d \in Detail /\ d.segs = 0 /\ d.state = "IDLE"
          BY DEF NewDetail, Detail, State
        <4>2. 0 <= NumSegs[f]
          BY <1>2, RecordTypes
        <4>. HIDE DEF d
        <4>. QED  BY <4>1, <4>2
      <3>. HIDE DEF d
      <3>. QED  BY <1>1, <1>2, <1>3, <1>4, <2>1, <3>1, SaveDetailSerial
    <2>2. CASE MyDetail(a).started /\ UNCHANGED <<db, objs>>
      <3>1. Exact(objs[actor[a].obj], db) /\ db.det[f].state # "DONE"
        BY <1>1, <1>2 DEF Working
      <3>2. Rows(db)' /\ Ending(a)' /\ Telling(a)'
        BY <1>1, <1>2, <1>3, <1>4, <2>2, <3>1, Rest, UnfinishedZero
      <3>3. db.det[f].started
        BY <2>2, <3>1 DEF Exact, MyDetail, Mine
      <3>. QED  BY <1>2, <1>3, <1>4, <2>2, <3>1, <3>2, <3>3
                DEF Serially, Alone, Working
    <2>. QED  BY <2>1, <2>2 DEF ResetDetail
  <1>6. d.segs = 0 /\ d.started
    BY DEF NewDetail
  <1>7. Working(a)'
    BY <1>1, <1>2, <1>4, <1>5 DEF Working
  <1>8. db.det \in [File -> Detail] /\ has \in [File -> Nat]
    BY DEF Types, Row
  <1>9. restarts' = 0 => Counted(a)'
    <2>. HIDE DEF d
    <2>. QED  BY <1>1, <1>2, <1>3, <1>4, <1>5, <1>6, <1>8 DEF Serially, Counted
  <1>10. restarts' = 0 /\ creates' = 0 => Started(a)'
    <2>. HIDE DEF d
    <2>. QED  BY <1>1, <1>2, <1>3, <1>4, <1>5, <1>6, <1>8 DEF Serially, Started
  <1>. QED  BY <1>1, <1>4, <1>5, <1>7, <1>9, <1>10 DEF SerialInv, Serially

(* The object and the row of the job go from IDLE to DOING.                *)
LEMMA StartJobSerial ==
    ASSUME Types, SerialInv, StartJob
    PROVE  SerialInv'
  <1>. DEFINE a == Observer
              i == actor[a].obj
  <1>1. a \in Actor /\ actor[a].pc = "start" /\ actor[a] # Idle
    BY RecordTypes DEF StartJob, Actor
  <1>2. /\ Serially(a) /\ Exact(objs[i], db) /\ cache \in {0, i}
        /\ Rows(db) /\ i \in 1..MaxLoads /\ objs[i] \in Obj /\ db \in Row
    <2>1. Serially(a)
      BY <1>1, Current
    <2>2. Working(a) /\ Rows(db)
      BY <1>1, <2>1 DEF Serially
    <2>3. i \in 1..MaxLoads /\ objs[i] \in Obj /\ db \in Row
      <3>1. actor[a] \in Work /\ db \in Row /\ objs \in [1..MaxLoads -> Obj]
        BY <1>1 DEF Types
      <3>2. i \in 1..MaxLoads
        BY <1>1 DEF Types
      <3>. QED  BY <3>1, <3>2
    <2>4. Exact(objs[i], db) /\ cache \in {0, i}
      BY <1>1, <2>2 DEF Working
    <2>. QED  BY <2>1, <2>2, <2>3, <2>4
  <1>3. UNCHANGED <<cache, loads, delayed, told, tasks, has, creates, restarts>>
    BY DEF StartJob, ghosts, bounds
  <1>4. /\ \A b \in Actor \ {a} : actor'[b] = actor[b]
        /\ actor'[a] = Idle /\ actor'[a].pc = "idle"
    BY <1>1, <1>3, EndIs DEF StartJob
  <1>5. db'.det = db.det /\ db'.times = db.times /\ Exact(objs'[i], db') /\ Rows(db')
    <2>1. CASE UNCHANGED <<db, objs>>
      BY <1>2, <2>1
    <2>2. CASE /\ Mine(a).state = "IDLE"
               /\ objs' = [objs EXCEPT ![i].state = "DOING"]
               /\ db' = [db EXCEPT !.state = "DOING"]
      <3>1. /\ objs'[i].det = objs[i].det /\ objs'[i].times = objs[i].times
            /\ objs'[i].unfinished = objs[i].unfinished
            /\ objs'[i].cached = objs[i].cached /\ objs'[i].state = "DOING"
        BY <1>2, <2>2 DEF Obj, Types
      <3>2. db'.det = db.det /\ db'.times = db.times /\ db'.state = "DOING"
        BY <1>2, <2>2 DEF Row
      <3>3. ~(db.times > 0)
        BY <1>2, <2>2 DEF Rows, Exact, Mine
      <3>. QED  BY <1>2, <3>1, <3>2, <3>3 DEF Exact, Rows
    <2>. QED  BY <2>1, <2>2 DEF StartJob
  <1>6. Ending(a)' /\ Telling(a)'
    BY <1>1, <1>2, <1>3, <1>4, <1>5 DEF Serially, Ending, Telling
  <1>7. /\ restarts' = 0 => Counted(a)'
        /\ restarts' = 0 /\ creates' = 0 => Started(a)'
    BY <1>1, <1>2, <1>3, <1>4, <1>5 DEF Serially, Counted, Started
  <1>8. Alone(a)'
    BY <1>2, <1>4 DEF Alone, Serially
  <1>. QED  BY <1>1, <1>2, <1>3, <1>4, <1>5, <1>6, <1>7, <1>8 DEF SerialInv, Serially

LEMMA DelTaskSerial ==
    ASSUME Types, SerialInv, Serial, NEW f \in File, DelTask(f)
    PROVE  SerialInv'
  <1>. DEFINE a == Observer
  <1>1. a \in Actor /\ actor[a] = Idle /\ actor[a].pc = "idle" /\ Quiet
    BY RecordTypes DEF DelTask, MayStart, Actor, Quiet
  <1>2. Serially(a)
    BY <1>1, Current
  <1>3. /\ GetJob(a, "del", f, "PAUSE")
        /\ UNCHANGED <<db, delayed, told, tasks, has, creates, restarts>>
    BY DEF DelTask, MayStart, ghosts
  <1>4. /\ Alone(a)' /\ cache' \in {0, actor'[a].obj}
        /\ actor'[a] # Idle /\ actor'[a].pc = "del" /\ actor'[a].value = "PAUSE"
        /\ Exact(objs'[actor'[a].obj], db')
    BY <1>1, <1>2, <1>3, GetJobExact DEF PC, Value
  <1>5. Working(a)'
    BY <1>3, <1>4 DEF Working
  <1>6. Rows(db)' /\ Ending(a)' /\ Telling(a)'
    BY <1>1, <1>2, <1>3, <1>4 DEF Serially, Rows, Ending, Telling
  <1>7. /\ restarts' = 0 => Counted(a)'
        /\ restarts' = 0 /\ creates' = 0 => Started(a)'
    BY <1>1, <1>2, <1>3, <1>4 DEF Serially, Counted, Started
  <1>. QED  BY <1>1, <1>4, <1>5, <1>6, <1>7 DEF SerialInv, Serially

LEMMA CheckDoneSerial ==
    ASSUME Types, SerialInv, CheckDone
    PROVE  SerialInv'
  <1>. DEFINE a == Observer
              i == actor[a].obj
  <1>1. a \in Actor /\ actor[a].pc = "del" /\ actor[a] # Idle
    BY RecordTypes DEF CheckDone, Actor
  <1>2. Serially(a) /\ Working(a) /\ Exact(objs[i], db)
    BY <1>1, Current DEF Serially, Working
  <1>3. UNCHANGED <<db, objs, cache, loads, delayed, told, tasks, has, creates, restarts>>
    BY DEF CheckDone, store, ghosts, bounds
  <1>4. /\ \A b \in Actor \ {a} : actor'[b] = actor[b]
        /\ \/ actor'[a] = Idle /\ actor'[a].pc = "idle"
           \/ /\ actor'[a] # Idle /\ actor'[a].pc = "pause"
              /\ actor'[a].obj = i /\ actor'[a].file = actor[a].file
              /\ actor'[a].value = actor[a].value
              /\ db.det[actor[a].file].state # "DONE"
    <2>1. CASE End(a)
      BY <1>1, <1>3, <2>1, EndIs
    <2>2. CASE Goto(a, "pause") /\ MyDetail(a).state # "DONE"
      <3>1. db.det[actor[a].file].state # "DONE"
        BY <1>2, <2>2 DEF MyDetail, Mine, Exact
      <3>. QED  BY <1>1, <1>3, <2>2, <3>1, GotoIs DEF PC
    <2>. QED  BY <2>1, <2>2 DEF CheckDone
  <1>5. actor'[a] # Idle => Working(a)'
    BY <1>1, <1>2, <1>3, <1>4 DEF Working
  <1>6. actor'[a] = Idle /\ cache' # 0 => Exact(objs'[cache'], db')
    BY <1>1, <1>2, <1>3 DEF Working
  <1>7. Rows(db)' /\ Ending(a)' /\ Telling(a)'
    BY <1>1, <1>2, <1>3, <1>4 DEF Serially, Rows, Ending, Telling
  <1>8. /\ restarts' = 0 => Counted(a)'
        /\ restarts' = 0 /\ creates' = 0 => Started(a)'
    BY <1>1, <1>2, <1>3, <1>4 DEF Serially, Counted, Started
  <1>9. Alone(a)'
    BY <1>2, <1>4 DEF Alone, Serially
  <1>. QED  BY <1>1, <1>5, <1>6, <1>7, <1>8, <1>9 DEF SerialInv, Serially

LEMMA PauseDetailSerial ==
    ASSUME Types, SerialInv, PauseDetail
    PROVE  SerialInv'
  <1>. DEFINE a == Observer
              f == actor[a].file
              d == [MyDetail(a) EXCEPT !.state = "PAUSE"]
  <1>1. a \in Actor /\ actor[a].pc = "pause" /\ actor[a] # Idle
    BY RecordTypes DEF PauseDetail, Actor
  <1>2. Serially(a) /\ Working(a) /\ Exact(objs[actor[a].obj], db) /\ f \in File
    BY <1>1, Current DEF Serially, Working, Types, Work
  <1>3. UNCHANGED <<cache, loads, delayed, told, tasks, has, creates, restarts>>
    BY DEF PauseDetail, ghosts, bounds
  <1>4. /\ \A b \in Actor \ {a} : actor'[b] = actor[b]
        /\ actor'[a] = Idle /\ actor'[a].pc = "idle"
    BY <1>1, <1>3, EndIs DEF PauseDetail
  <1>5. /\ d \in Detail /\ d.segs = db.det[f].segs /\ d.segs <= NumSegs[f]
        /\ d.started = db.det[f].started /\ d.state = "PAUSE"
    <2>1. MyDetail(a) = db.det[f] /\ db.det[f] \in Detail /\ db.det[f].segs <= NumSegs[f]
      BY <1>2 DEF MyDetail, Mine, Exact, Types, Row, Bounded
    <2>. QED  BY <2>1 DEF Detail, State
  <1>. HIDE DEF d
  <1>6. /\ db'.det = [db.det EXCEPT ![f] = d]
        /\ Exact(objs'[actor[a].obj], db') /\ cache' \in {0, actor[a].obj}
        /\ Alone(a)' /\ Rows(db)' /\ Ending(a)' /\ Telling(a)'
    BY <1>1, <1>2, <1>3, <1>4, <1>5, SaveDetailSerial DEF PauseDetail, d
  <1>7. db.det \in [File -> Detail] /\ has \in [File -> Nat]
    BY DEF Types, Row
  <1>8. restarts' = 0 => Counted(a)'
    BY <1>1, <1>2, <1>3, <1>4, <1>5, <1>6, <1>7 DEF Serially, Counted
  <1>9. restarts' = 0 /\ creates' = 0 => Started(a)'
    BY <1>1, <1>2, <1>3, <1>4, <1>5, <1>6, <1>7 DEF Serially, Started
  <1>. QED  BY <1>1, <1>4, <1>6, <1>8, <1>9 DEF SerialInv, Serially

LEMMA ResumeDetailSerial ==
    ASSUME Types, SerialInv, NEW a \in Handler, ResumeDetail(a)
    PROVE  SerialInv'
  <1>. DEFINE f == actor[a].file
              d == [MyDetail(a) EXCEPT !.segs = has[f]]
  <1>1. a \in Actor /\ actor[a].pc = "resume" /\ actor[a] # Idle
    BY RecordTypes DEF ResumeDetail, Actor
  <1>2. /\ Serially(a) /\ Working(a) /\ Exact(objs[actor[a].obj], db) /\ f \in File
        /\ db.det[f].state # "DONE"
    BY <1>1, Current DEF Serially, Working, Types, Work
  <1>3. UNCHANGED <<cache, loads, delayed, told, tasks, has, creates, restarts>>
    BY DEF ResumeDetail, ghosts, bounds
  <1>4. /\ \A b \in Actor \ {a} : actor'[b] = actor[b]
        /\ actor'[a] = Idle /\ actor'[a].pc = "idle"
    BY <1>1, <1>3, EndIs DEF ResumeDetail
  <1>5. /\ d \in Detail /\ d.segs = has[f] /\ d.segs <= NumSegs[f]
        /\ d.started = db.det[f].started /\ d.state # "DONE"
    <2>1. MyDetail(a) = db.det[f] /\ db.det[f] \in Detail
      BY <1>2 DEF MyDetail, Mine, Exact, Types, Row
    <2>2. has[f] \in Nat /\ has[f] <= NumSegs[f]
      BY <1>2 DEF Types
    <2>. QED  BY <1>2, <2>1, <2>2 DEF Detail
  <1>. HIDE DEF d
  <1>6. /\ db'.det = [db.det EXCEPT ![f] = d]
        /\ Exact(objs'[actor[a].obj], db') /\ cache' \in {0, actor[a].obj}
        /\ Alone(a)' /\ Rows(db)' /\ Ending(a)' /\ Telling(a)'
    BY <1>1, <1>2, <1>3, <1>4, <1>5, SaveDetailSerial DEF ResumeDetail, d
  <1>7. db.det \in [File -> Detail] /\ has \in [File -> Nat]
    BY DEF Types, Row
  <1>8. restarts' = 0 => Counted(a)'
    BY <1>1, <1>2, <1>3, <1>4, <1>5, <1>6, <1>7 DEF Serially, Counted
  <1>9. restarts' = 0 /\ creates' = 0 => Started(a)'
    BY <1>1, <1>2, <1>3, <1>4, <1>5, <1>6, <1>7 DEF Serially, Started
  <1>. QED  BY <1>1, <1>4, <1>6, <1>8, <1>9 DEF SerialInv, Serially

LEMMA ReportSerial ==
    ASSUME Types, SerialInv, Serial, ~Repeats,
           NEW f \in File, NEW s \in {"DOING", "PAUSE", "DONE"}, Report(f, s)
    PROVE  SerialInv'
  <1>. DEFINE a == Observer
  <1>1. a \in Actor /\ actor[a] = Idle /\ actor[a].pc = "idle" /\ Quiet
    BY RecordTypes DEF Report, MayStart, Actor, Quiet
  <1>2. Serially(a)
    BY <1>1, Current
  <1>3. /\ GetJob(a, "update", f, s) /\ f \in tasks /\ db.det[f].state # "DONE"
        /\ UNCHANGED <<db, delayed, told, tasks, creates, restarts>>
    BY DEF Report, MayStart, MayTransfer
  <1>4. /\ Alone(a)' /\ cache' \in {0, actor'[a].obj}
        /\ actor'[a] # Idle /\ actor'[a].pc = "update" /\ actor'[a].file = f
        /\ actor'[a].value = s /\ Exact(objs'[actor'[a].obj], db')
    BY <1>1, <1>2, <1>3, GetJobExact DEF PC, Value
  <1>5. Working(a)'
    BY <1>3, <1>4 DEF Working
  <1>6. Rows(db)' /\ Ending(a)' /\ Telling(a)'
    BY <1>1, <1>2, <1>3, <1>4, Rest, UnfinishedZero
  <1>7. /\ has \in [File -> Nat] /\ \A g \in File : NumSegs[g] \in Nat
        /\ db.det \in [File -> Detail] /\ \A g \in File : db.det[g].segs \in Nat
    BY RecordTypes DEF Types, Row, Detail
  <1>8. /\ \A g \in File : has'[g] \in Nat /\ has[g] <= has'[g]
        /\ \A g \in File : has'[g] > 0 => has[g] > 0 \/ g = f
        /\ s = "DONE" => has[f] < has'[f] \/ has'[f] = NumSegs[f]
    BY <1>7 DEF Report
  <1>9. restarts' = 0 => Counted(a)'
    <2>1. SUFFICES ASSUME restarts = 0 PROVE Counted(a)'
      BY <1>3
    <2>2. \A g \in File : db.det[g].segs <= has[g]
      BY <1>1, <1>2, <2>1 DEF Serially, Counted
    <2>3. \A g \in File : db.det[g].segs <= has'[g]
      BY <1>7, <1>8, <2>2
    <2>4. s = "DONE" => db.det[f].segs < has'[f] \/ has'[f] = NumSegs[f]
      BY <1>7, <1>8, <2>2
    <2>. QED  BY <1>3, <1>4, <2>3, <2>4 DEF Counted
  <1>10. restarts' = 0 /\ creates' = 0 => Started(a)'
    BY <1>1, <1>2, <1>3, <1>4, <1>8 DEF Serially, Started
  <1>. QED  BY <1>1, <1>4, <1>5, <1>6, <1>9, <1>10 DEF SerialInv, Serially

(* The object runs ahead of the rows.                                      *)
LEMMA UpdateDetailSerial ==
    ASSUME Types, SerialInv, UpdateDetail
    PROVE  SerialInv'
  <1>. DEFINE a == Observer
              i == actor[a].obj
              f == actor[a].file
              value == actor[a].value
              old == db.det[f]
              d == Updated(f, MyDetail(a), value)
  <1>1. a \in Actor /\ actor[a].pc = "update" /\ actor[a] # Idle
    BY RecordTypes DEF UpdateDetail, Actor
  <1>2. /\ Serially(a) /\ Working(a) /\ Exact(objs[i], db) /\ f \in File
        /\ i \in 1..MaxLoads /\ objs \in [1..MaxLoads -> Obj] /\ objs[i] \in Obj
        /\ old.state # "DONE" /\ cache \in {0, i}
        /\ value \in {"PAUSE", "DOING", "DONE"}
        /\ actor \in [Actor -> Work] /\ actor[a] \in Work
    <2>1. Serially(a) /\ Working(a)
      BY <1>1, Current DEF Serially
    <2>2. /\ actor \in [Actor -> Work] /\ actor[a] \in Work
          /\ value \in {"PAUSE", "DOING", "DONE"}
          /\ i \in 1..MaxLoads /\ objs \in [1..MaxLoads -> Obj] /\ objs[i] \in Obj
      BY <1>1 DEF Types
    <2>3. f \in File
      BY <2>2 DEF Work
    <2>. QED  BY <1>1, <2>1, <2>2, <2>3 DEF Working
  <1>3. UNCHANGED <<db, cache, loads, delayed, told, tasks, has, creates, restarts>>
    BY DEF UpdateDetail, ghosts, bounds
  <1>4. /\ MyDetail(a) = old /\ old \in Detail /\ old.segs <= NumSegs[f]
        /\ db.det \in [File -> Detail]
    BY <1>2 DEF MyDetail, Mine, Exact, Types, Row, Bounded
  <1>5. /\ d \in Detail /\ d.segs <= NumSegs[f] /\ d.started = old.started
        /\ d.state = "DONE" <=> d.segs = NumSegs[f]
        /\ d.segs = old.segs \/ (value = "DONE" /\ d.segs = old.segs + 1)
    <2>. DEFINE m == MyDetail(a)
    <2>1. m = old /\ m \in Detail /\ m.segs <= NumSegs[f]
      BY <1>4
    <2>2. f \in File /\ value \in {"PAUSE", "DOING", "DONE"}
      BY <1>2
    <2>3. d = Updated(f, m, value)
      OBVIOUS
    <2>. HIDE DEF m, old, f, value, d
    <2>. QED  BY <2>1, <2>2, <2>3, UpdatedIs
  <1>6. /\ objs' = [objs EXCEPT ![i].det[f] = d]
        /\ actor' = [actor EXCEPT ![a].pc = IF d.state = "DONE" THEN "count" ELSE "save",
                                  ![a].seen = objs[i].unfinished]
    BY DEF UpdateDetail
  <1>. HIDE DEF d
  <1>7. /\ objs'[i].det = [db.det EXCEPT ![f] = d]
        /\ objs'[i].state = db.state /\ objs'[i].times = db.times
        /\ objs'[i].unfinished = Unfinished(db.det)
        /\ objs'[i].cached = objs[i].cached
    BY <1>2, <1>6 DEF Obj, Exact
  <1>8. /\ \A b \in Actor \ {a} : actor'[b] = actor[b]
        /\ actor'[a].pc = IF d.state = "DONE" THEN "count" ELSE "save"
        /\ actor'[a].obj = i /\ actor'[a].file = f /\ actor'[a].value = value
        /\ actor'[a].seen = Unfinished(db.det)
    BY <1>1, <1>2, <1>6 DEF Work, Exact
  <1>9. actor'[a] # Idle /\ Alone(a)'
    BY <1>2, <1>8, RecordTypes DEF Alone, Serially
  <1>10. Unfinished(db.det) # 0 /\ objs'[i].cached
    BY <1>2, <1>7, UnfinishedZero DEF Exact
  <1>11. Ahead(objs'[i], f, db')
    BY <1>2, <1>3, <1>4, <1>5, <1>7, <1>10 DEF Ahead
  <1>12. d.state # "DONE" => objs'[i].unfinished = Unfinished(objs'[i].det)
    BY <1>2, <1>4, <1>7, UnfinishedSame
  <1>13. objs'[i].det[f] = d
    BY <1>2, <1>4, <1>7
  <1>14. Working(a)'
    BY <1>2, <1>3, <1>7, <1>8, <1>11, <1>12, <1>13 DEF Working
  <1>15. Rows(db)' /\ Ending(a)' /\ Telling(a)'
    BY <1>1, <1>2, <1>3, <1>8, <1>10, Rest
  <1>16. restarts' = 0 => Counted(a)'
    <2>1. SUFFICES ASSUME restarts = 0 PROVE Counted(a)'
      BY <1>3
    <2>2. /\ \A g \in File : db.det[g].segs <= has[g]
          /\ value = "DONE" => old.segs < has[f] \/ has[f] = NumSegs[f]
      BY <1>1, <1>2, <2>1 DEF Serially, Counted
    <2>3. old.segs \in Nat /\ d.segs \in Nat /\ has[f] \in Nat /\ NumSegs[f] \in Nat
      BY <1>2, <1>4, <1>5, RecordTypes DEF Detail, Types
    <2>4. d.segs <= has[f]
      BY <1>2, <1>5, <2>2, <2>3, SMTT(30)
    <2>. QED  BY <1>3, <1>8, <1>13, <2>2, <2>4 DEF Counted
  <1>17. restarts' = 0 /\ creates' = 0 => Started(a)'
    BY <1>1, <1>2, <1>3, <1>8 DEF Serially, Started
  <1>. QED  BY <1>1, <1>9, <1>14, <1>15, <1>16, <1>17 DEF SerialInv, Serially

LEMMA CountSerial ==
    ASSUME Types, SerialInv, NEW a \in Actor, Count(a)
    PROVE  SerialInv'
  <1>. DEFINE i == actor[a].obj
              f == actor[a].file
              d == objs[i].det[f]
  <1>1. actor[a].pc = "count" /\ actor[a] # Idle
    BY RecordTypes DEF Count
  <1>2. /\ Serially(a) /\ Working(a) /\ Ahead(objs[i], f, db) /\ f \in File
        /\ i \in 1..MaxLoads /\ objs \in [1..MaxLoads -> Obj] /\ objs[i] \in Obj
        /\ d.state = "DONE" /\ cache \in {0, i}
        /\ db.det \in [File -> Detail] /\ actor[a].seen = objs[i].unfinished
    <2>1. Serially(a) /\ Working(a)
      BY <1>1, Current DEF Serially
    <2>2. /\ actor[a] \in Work /\ i \in 1..MaxLoads /\ db \in Row
          /\ objs \in [1..MaxLoads -> Obj]
      BY <1>1 DEF Types
    <2>3. f \in File /\ objs[i] \in Obj /\ db.det \in [File -> Detail]
      BY <2>2 DEF Work, Row
    <2>4. /\ Ahead(objs[i], f, db) /\ d.state = "DONE" /\ cache \in {0, i}
          /\ actor[a].seen = objs[i].unfinished
      BY <1>1, <2>1 DEF Working
    <2>. QED  BY <2>1, <2>2, <2>3, <2>4
  <1>3. UNCHANGED <<db, cache, loads, delayed, told, tasks, has, creates, restarts>>
    BY DEF Count, ghosts, bounds
  <1>4. /\ \A b \in Actor \ {a} : actor'[b] = actor[b]
        /\ actor'[a] # Idle /\ actor'[a].pc = (IF a = Observer THEN "save" ELSE "process")
        /\ actor'[a].obj = i /\ actor'[a].file = f /\ actor'[a].value = actor[a].value
    BY <1>1, <1>3, GotoIs DEF Count, PC
  <1>5. /\ objs'[i].det = objs[i].det /\ objs'[i].state = objs[i].state
        /\ objs'[i].times = objs[i].times /\ objs'[i].cached = objs[i].cached
        /\ objs'[i].unfinished = objs[i].unfinished - 1
    BY <1>2 DEF Count, Obj
  <1>6. Alone(a)' /\ Rows(db)' /\ Telling(a)'
    BY <1>1, <1>2, <1>3, <1>4 DEF Serially, Alone, Rows, Telling
  <1>7. restarts' = 0 /\ creates' = 0 => Started(a)'
    BY <1>1, <1>2, <1>3, <1>4 DEF Serially, Started
  <1>8. restarts' = 0 => Counted(a)'
    BY <1>1, <1>2, <1>3, <1>4, <1>5 DEF Serially, Counted
  <1>9. CASE a = Observer
    <2>1. db.det[f].state # "DONE" /\ objs[i].unfinished = Unfinished(db.det)
      BY <1>1, <1>2, <1>9 DEF Working
    <2>2. \A g \in File \ {f} : objs[i].det[g] = db.det[g]
      BY <1>2 DEF Ahead
    <2>3. Unfinished(objs[i].det) = Unfinished(db.det) - 1
      <3>. DEFINE det == objs[i].det
                  old == db.det
      <3>1. det[f].state = "DONE"
        BY <1>2
      <3>2. \A g \in File \ {f} : det[g] = old[g]
        BY <2>2
      <3>3. f \in File /\ old[f].state # "DONE"
        BY <1>2, <2>1
      <3>. HIDE DEF det, old, f
      <3>4. Unfinished(det) = Unfinished(old) - 1
        BY <3>1, <3>2, <3>3, UnfinishedLess
      <3>. QED  BY <3>4 DEF det, old
    <2>4. Ahead(objs'[i], f, db') /\ objs'[i].unfinished = Unfinished(objs'[i].det)
      <3>1. Ahead(objs'[i], f, db')
        BY <1>2, <1>3, <1>5 DEF Ahead
      <3>2. objs'[i].unfinished = Unfinished(objs'[i].det)
        BY <1>5, <2>1, <2>3
      <3>. QED  BY <3>1, <3>2
    <2>5. Working(a)'
      BY <1>1, <1>2, <1>3, <1>4, <1>9, <2>1, <2>4 DEF Working
    <2>6. Ending(a)'
      BY <1>2, <1>3, <2>1, UnfinishedZero DEF Ending
    <2>. QED  BY <1>4, <1>6, <1>7, <1>8, <2>5, <2>6 DEF SerialInv, Serially
  <1>10. CASE a # Observer
    <2>1. objs[i].det = db.det /\ objs[i].unfinished = Unfinished(db.det) + 1
      BY <1>1, <1>2, <1>10 DEF Working
    <2>2. Unfinished(db.det) \in Nat
      BY UnfinishedType
    <2>3. Exact(objs'[i], db')
      BY <1>2, <1>3, <1>5, <2>1, <2>2 DEF Exact, Ahead
    <2>4. Working(a)'
      BY <1>1, <1>2, <1>3, <1>4, <1>10, <2>3 DEF Working
    <2>5. Ending(a)'
      BY <1>4, <1>10 DEF Ending
    <2>. QED  BY <1>4, <1>6, <1>7, <1>8, <2>4, <2>5 DEF SerialInv, Serially
  <1>. QED  BY <1>9, <1>10

(* The row takes the detail of the object.                                 *)
LEMMA SaveRowSerial ==
    ASSUME Types, SerialInv, Save
    PROVE  SerialInv'
  <1>. DEFINE a == Observer
              i == actor[a].obj
              f == actor[a].file
              d == objs[i].det[f]
  <1>1. a \in Actor /\ actor[a].pc = "save" /\ actor[a] # Idle
    BY RecordTypes DEF Save, Actor
  <1>2. /\ Serially(a) /\ Working(a) /\ Ahead(objs[i], f, db) /\ f \in File
        /\ objs[i].unfinished = Unfinished(objs[i].det)
        /\ i \in 1..MaxLoads /\ objs[i] \in Obj /\ Bounded(objs[i].det)
        /\ db.det[f].state # "DONE" /\ cache \in {0, i}
        /\ db.det \in [File -> Detail]
    <2>1. Serially(a) /\ Working(a)
      BY <1>1, Current DEF Serially
    <2>2. /\ i \in 1..MaxLoads /\ objs[i] \in Obj /\ Bounded(objs[i].det)
          /\ actor[a] \in Work /\ db.det \in [File -> Detail]
      BY <1>1 DEF Types, Row
    <2>3. f \in File
      BY <2>2 DEF Work
    <2>. QED  BY <1>1, <2>1, <2>2, <2>3 DEF Working
  <1>3. UNCHANGED <<cache, loads, delayed, told, tasks, has, creates, restarts>>
    BY DEF Save, ghosts, bounds
  <1>4. /\ \A b \in Actor \ {a} : actor'[b] = actor[b]
        /\ actor'[a] # Idle /\ actor'[a].pc = "process"
        /\ actor'[a].obj = i /\ actor'[a].file = f /\ actor'[a].value = actor[a].value
    BY <1>1, <1>3, GotoIs DEF Save, PC
  <1>5. d \in Detail /\ d.segs <= NumSegs[f] /\ SaveDetail(a, d)
    BY <1>2 DEF Obj, Bounded, Save, MyDetail, Mine
  <1>6. /\ db'.det = [db.det EXCEPT ![f] = d]
        /\ db'.state = db.state /\ db'.times = db.times
        /\ objs'[i].det = [objs[i].det EXCEPT ![f] = d]
        /\ objs'[i].state = objs[i].state /\ objs'[i].times = objs[i].times
        /\ objs'[i].unfinished = objs[i].unfinished /\ objs'[i].cached = objs[i].cached
    BY <1>1, <1>3, <1>5, SaveIs
  <1>7. db'.det = objs[i].det /\ objs'[i].det = objs[i].det
    <2>. DEFINE old == db.det
                det == objs[i].det
    <2>1. det \in [File -> Detail] /\ det = [old EXCEPT ![f] = det[f]] /\ d = det[f]
      BY <1>2 DEF Ahead, Obj
    <2>2. db'.det = [old EXCEPT ![f] = d] /\ objs'[i].det = [det EXCEPT ![f] = d]
      BY <1>6
    <2>. HIDE DEF old, det, d, f
    <2>3. db'.det = det /\ objs'[i].det = det
      BY <2>1, <2>2
    <2>. QED  BY <2>3 DEF det
  <1>8. Exact(objs'[i], db')
    BY <1>2, <1>6, <1>7 DEF Exact, Ahead
  <1>9. Rows(db')
    <2>1. Rows(db) /\ (d.state = "DONE" => d.segs = NumSegs[f])
      BY <1>2 DEF Serially, Ahead
    <2>. HIDE DEF d
    <2>. QED  BY <1>2, <1>6, <2>1 DEF Rows
  <1>10. Ending(a)' /\ Telling(a)'
    BY <1>1, <1>2, <1>3, <1>4, <1>6 DEF Serially, Ending, Telling
  <1>11. Working(a)' /\ Alone(a)'
    BY <1>1, <1>2, <1>3, <1>4, <1>8 DEF Working, Alone, Serially
  <1>12. restarts' = 0 => Counted(a)'
    BY <1>1, <1>2, <1>3, <1>4, <1>6 DEF Serially, Counted
  <1>13. restarts' = 0 /\ creates' = 0 => Started(a)'
    BY <1>1, <1>2, <1>3, <1>4, <1>6 DEF Serially, Started, Ahead
  <1>. QED  BY <1>1, <1>4, <1>9, <1>10, <1>11, <1>12, <1>13 DEF SerialInv, Serially

LEMMA SkipSerial ==
    ASSUME Types, SerialInv, Serial, ~Repeats,
           NEW a \in Handler, NEW f \in File, Skip(a, f)
    PROVE  SerialInv'
  <1>1. /\ a \in Actor /\ actor[a] = Idle /\ actor[a].pc = "idle" /\ Quiet
        /\ a # Observer
    BY RecordTypes DEF Skip, MayStart, Actor, Quiet
  <1>2. Serially(a)
    BY <1>1, Current
  <1>3. /\ GetJob(a, "skip", f, "none") /\ db.det[f].state # "DONE"
        /\ has' = [has EXCEPT ![f] = NumSegs[f]]
        /\ UNCHANGED <<db, delayed, told, tasks, creates, restarts>>
    BY DEF Skip, MayStart, MayTransfer
  <1>4. /\ Alone(a)' /\ cache' \in {0, actor'[a].obj}
        /\ actor'[a] # Idle /\ actor'[a].pc = "skip" /\ actor'[a].file = f
        /\ actor'[a].value = "none" /\ Exact(objs'[actor'[a].obj], db')
    BY <1>1, <1>2, <1>3, GetJobExact DEF PC, Value
  <1>5. Working(a)'
    BY <1>1, <1>3, <1>4 DEF Working
  <1>6. Rows(db)' /\ Ending(a)' /\ Telling(a)'
    BY <1>1, <1>2, <1>3, <1>4, Rest, UnfinishedZero
  <1>7. has \in [File -> Nat] /\ \A g \in File : db.det[g].segs <= NumSegs[g]
    BY DEF Types, Bounded
  <1>8. restarts' = 0 => Counted(a)'
    BY <1>1, <1>2, <1>3, <1>4, <1>7 DEF Serially, Counted
  <1>9. restarts' = 0 /\ creates' = 0 => Started(a)'
    BY <1>1, <1>2, <1>3, <1>4, <1>7 DEF Serially, Started
  <1>. QED  BY <1>1, <1>4, <1>5, <1>6, <1>8, <1>9 DEF SerialInv, Serially

LEMMA ResumeSerial ==
    ASSUME Types, SerialInv, Serial, ~Repeats,
           NEW a \in Handler, NEW f \in File, Resume(a, f)
    PROVE  SerialInv'
  <1>1. /\ a \in Actor /\ actor[a] = Idle /\ actor[a].pc = "idle" /\ Quiet
        /\ a # Observer
    BY RecordTypes DEF Resume, MayStart, Actor, Quiet
  <1>2. Serially(a)
    BY <1>1, Current
  <1>3. /\ GetJob(a, "resume", f, "none") /\ db.det[f].state # "DONE"
        /\ has' \in {has, [has EXCEPT ![f] = 0]}
        /\ UNCHANGED <<db, delayed, told, tasks, creates, restarts>>
    BY DEF Resume, MayStart, MayTransfer
  <1>4. /\ Alone(a)' /\ cache' \in {0, actor'[a].obj}
        /\ actor'[a] # Idle /\ actor'[a].pc = "resume" /\ actor'[a].file = f
        /\ actor'[a].value = "none" /\ Exact(objs'[actor'[a].obj], db')
    BY <1>1, <1>2, <1>3, GetJobExact DEF PC, Value
  <1>5. Working(a)'
    BY <1>1, <1>3, <1>4 DEF Working
  <1>6. Rows(db)' /\ Ending(a)' /\ Telling(a)'
    BY <1>1, <1>2, <1>3, <1>4, Rest, UnfinishedZero
  <1>7. \A g \in File : has'[g] = has[g] \/ (g = f /\ has'[g] = 0)
    BY <1>3 DEF Types
  <1>8. restarts' = 0 => Counted(a)'
    BY <1>1, <1>2, <1>3, <1>4, <1>7 DEF Serially, Counted
  <1>9. restarts' = 0 /\ creates' = 0 => Started(a)'
    BY <1>1, <1>2, <1>3, <1>4, <1>7 DEF Serially, Started
  <1>. QED  BY <1>1, <1>4, <1>5, <1>6, <1>8, <1>9 DEF SerialInv, Serially

(* A handler writes object and row first and counts then.                  *)
LEMMA SkipDetailSerial ==
    ASSUME Types, SerialInv, NEW a \in Handler, SkipDetail(a)
    PROVE  SerialInv'
  <1>. DEFINE i == actor[a].obj
              f == actor[a].file
              d == [state |-> "DONE", segs |-> NumSegs[f], started |-> TRUE]
  <1>1. a \in Actor /\ actor[a].pc = "skip" /\ actor[a] # Idle /\ a # Observer
    BY RecordTypes DEF SkipDetail, Actor
  <1>2. /\ Serially(a) /\ Working(a) /\ Exact(objs[i], db) /\ Rows(db)
        /\ db.det[f].state # "DONE" /\ cache \in {0, i}
    BY <1>1, Current DEF Serially, Working
  <1>3. /\ f \in File /\ actor \in [Actor -> Work] /\ actor[a] \in Work
        /\ i \in 1..MaxLoads /\ db.det \in [File -> Detail] /\ objs[i] \in Obj
        /\ has \in [File -> Nat] /\ NumSegs[f] \in Nat
    <2>1. /\ actor \in [Actor -> Work] /\ actor[a] \in Work /\ i \in 1..MaxLoads
          /\ db.det \in [File -> Detail] /\ objs[i] \in Obj /\ has \in [File -> Nat]
      BY <1>1 DEF Types, Row
    <2>2. f \in File
      BY <2>1 DEF Work
    <2>. QED  BY <2>1, <2>2, RecordTypes
  <1>4. UNCHANGED <<cache, loads, delayed, told, tasks, has, creates, restarts>>
    BY DEF SkipDetail, ghosts, bounds
  <1>5. objs[i].cached /\ objs[i].unfinished = Unfinished(db.det)
    BY <1>2, <1>3, UnfinishedZero DEF Exact
  <1>6. /\ \A b \in Actor \ {a} : actor'[b] = actor[b]
        /\ actor'[a].pc = "count" /\ actor'[a].seen = objs[i].unfinished
        /\ actor'[a].obj = i /\ actor'[a].file = f /\ actor'[a].value = actor[a].value
    BY <1>1, <1>3, <1>5 DEF SkipDetail, Mine, Work
  <1>7. actor'[a] # Idle /\ Alone(a)'
    BY <1>2, <1>6, RecordTypes DEF Alone, Serially
  <1>8. /\ d \in Detail /\ d.segs = NumSegs[f] /\ d.state = "DONE" /\ d.started
        /\ d.segs <= NumSegs[f] /\ SaveDetail(a, d)
    BY <1>3 DEF Detail, State, SkipDetail
  <1>. HIDE DEF d
  <1>9. /\ db'.det = [db.det EXCEPT ![f] = d]
        /\ db'.state = db.state /\ db'.times = db.times
        /\ objs'[i].det = [objs[i].det EXCEPT ![f] = d]
        /\ objs'[i].state = objs[i].state /\ objs'[i].times = objs[i].times
        /\ objs'[i].unfinished = objs[i].unfinished /\ objs'[i].cached = objs[i].cached
    BY <1>1, <1>4, <1>8, SaveIs
  <1>10. \A g \in File : db'.det[g] = IF g = f THEN d ELSE db.det[g]
    BY <1>3, <1>9
  <1>11. Unfinished(db'.det) = Unfinished(db.det) - 1
    <2>. DEFINE new == db'.det
    <2>1. new[f].state = "DONE" /\ \A g \in File \ {f} : new[g] = db.det[g]
      BY <1>3, <1>8, <1>10
    <2>. HIDE DEF new, f
    <2>2. Unfinished(new) = Unfinished(db.det) - 1
      BY <1>2, <1>3, <2>1, UnfinishedLess
    <2>. QED  BY <2>2 DEF new
  <1>12. objs'[i].det = db'.det /\ objs'[i].det[f] = d
    BY <1>2, <1>3, <1>9 DEF Exact
  <1>13. Ahead(objs'[i], f, db')
    <2>1. db'.det = [db'.det EXCEPT ![f] = db'.det[f]]
      BY <1>3, <1>9
    <2>. QED  BY <1>2, <1>5, <1>8, <1>9, <1>12, <2>1 DEF Ahead, Exact
  <1>14. Unfinished(db.det) \in Nat
    BY UnfinishedType
  <1>15. Working(a)'
    BY <1>1, <1>2, <1>4, <1>5, <1>6, <1>8, <1>9, <1>11, <1>12, <1>13, <1>14, SMTT(30) DEF Working
  <1>16. Rows(db')
    BY <1>2, <1>8, <1>9, <1>10 DEF Rows
  <1>17. Ending(a)' /\ Telling(a)'
    BY <1>1, <1>2, <1>4, <1>6, <1>9 DEF Serially, Ending, Telling
  <1>18. restarts' = 0 => Counted(a)'
    BY <1>1, <1>2, <1>3, <1>4, <1>6, <1>8, <1>10, <1>12 DEF Serially, Counted
  <1>19. restarts' = 0 /\ creates' = 0 => Started(a)'
    BY <1>1, <1>2, <1>4, <1>6, <1>8, <1>10 DEF Serially, Started
  <1>. QED  BY <1>1, <1>7, <1>15, <1>16, <1>17, <1>18, <1>19 DEF SerialInv, Serially

LEMMA RecreateSerial ==
    ASSUME Types, SerialInv, Serial, NEW a \in Handler, Recreate(a)
    PROVE  SerialInv'
  <1>1. a \in Actor /\ actor[a] = Idle /\ actor[a].pc = "idle" /\ Quiet
    BY RecordTypes DEF Recreate, Actor, Quiet
  <1>2. Serially(a)
    BY <1>1, Current
  <1>3. /\ db'.det = [f \in File |-> NewDetail]
        /\ db'.state = db.state /\ db'.times = db.times
        /\ cache' = 0 /\ creates' = creates + 1 /\ creates \in Nat
        /\ UNCHANGED <<actor, told, tasks, has, restarts>>
    BY DEF Recreate, ghosts, Types, Row
  <1>4. \A f \in File : db'.det[f].state = "IDLE" /\ db'.det[f].segs = 0
    BY <1>3 DEF NewDetail
  <1>5. Unfinished(db'.det) # 0
    <2>. DEFINE new == db'.det
    <2>1. \A f \in File : new[f].state = "IDLE"
      BY <1>4
    <2>. HIDE DEF new
    <2>2. Unfinished(new) # 0
      BY <2>1, UnfinishedZero
    <2>. QED  BY <2>2 DEF new
  <1>6. Rows(db') /\ Ending(a)' /\ Telling(a)'
    BY <1>2, <1>3, <1>4, <1>5 DEF Serially, Rows, Ending, Telling
  <1>7. has \in [File -> Nat]
    BY DEF Types
  <1>8. Counted(a)' /\ creates' # 0
    BY <1>1, <1>3, <1>4, <1>7 DEF Counted
  <1>9. Alone(a)'
    BY <1>2, <1>3 DEF Serially, Alone
  <1>. QED  BY <1>1, <1>3, <1>6, <1>8, <1>9 DEF SerialInv, Serially

LEMMA ProcessJobSerial ==
    ASSUME Types, SerialInv, NEW a \in Actor, ProcessJob(a)
    PROVE  SerialInv'
  <1>. DEFINE f == actor[a].file
  <1>1. actor[a].pc = "process" /\ actor[a] # Idle /\ f \in File
    BY RecordTypes DEF ProcessJob, Types, Work
  <1>2. Serially(a) /\ Working(a)
    BY <1>1, Current DEF Serially
  <1>3. /\ GetJob(a, "finish", f, "none")
        /\ UNCHANGED <<db, delayed, told, tasks, has, creates, restarts>>
    BY DEF ProcessJob, ghosts, bounds
  <1>4. /\ Alone(a)' /\ cache' \in {0, actor'[a].obj}
        /\ actor'[a] # Idle /\ actor'[a].pc = "finish" /\ actor'[a].file = f
        /\ actor'[a].value = "none" /\ Exact(objs'[actor'[a].obj], db')
    BY <1>1, <1>2, <1>3, GetJobExact DEF PC, Value
  <1>5. Working(a)'
    BY <1>4 DEF Working
  <1>6. Rows(db)' /\ Ending(a)' /\ Telling(a)'
    BY <1>1, <1>2, <1>3, <1>4 DEF Serially, Rows, Ending, Telling
  <1>7. restarts' = 0 => Counted(a)'
    BY <1>1, <1>2, <1>3, <1>4 DEF Serially, Counted
  <1>8. restarts' = 0 /\ creates' = 0 => Started(a)'
    BY <1>1, <1>2, <1>3, <1>4 DEF Serially, Started
  <1>. QED  BY <1>4, <1>5, <1>6, <1>7, <1>8 DEF SerialInv, Serially

(* A job is finished only when all its rows are DONE.                      *)
LEMMA FinishedIs ==
    ASSUME NEW o, Exact(o, db)
    PROVE  JobFinished(o) <=> Unfinished(db.det) = 0
  BY UnfinishedType DEF JobFinished, Exact

LEMMA FinishSerial ==
    ASSUME Types, SerialInv, NEW a \in Actor, Finish(a)
    PROVE  SerialInv'
  <1>. DEFINE i == actor[a].obj
  <1>1. actor[a].pc = "finish" /\ actor[a] # Idle
    BY RecordTypes DEF Finish
  <1>2. /\ Serially(a) /\ Working(a) /\ Exact(objs[i], db) /\ cache \in {0, i}
        /\ Rows(db)
    BY <1>1, Current DEF Serially, Working
  <1>3. /\ objs[i] \in Obj /\ objs \in [1..MaxLoads -> Obj] /\ i \in 1..MaxLoads
        /\ db \in Row /\ db.times \in Nat /\ objs[i].times = db.times
        /\ told \in Nat
    BY <1>1, <1>2 DEF Types, Row, Exact
  <1>4. UNCHANGED <<cache, loads, told, tasks, has, creates, restarts>>
    BY DEF Finish, ghosts, bounds
  <1>5. CASE ~JobFinished(objs[i]) /\ End(a) /\ UNCHANGED <<db, objs, delayed>>
    <2>1. /\ \A b \in Actor \ {a} : actor'[b] = actor[b]
          /\ actor'[a] = Idle /\ actor'[a].pc = "idle"
      BY <1>4, <1>5, EndIs
    <2>2. Unfinished(db.det) # 0
      BY <1>2, <1>5, FinishedIs
    <2>3. Alone(a)' /\ Rows(db)' /\ Ending(a)' /\ Telling(a)'
      BY <1>1, <1>2, <1>4, <1>5, <2>1, <2>2 DEF Serially, Alone, Rows, Ending, Telling
    <2>4. /\ restarts' = 0 => Counted(a)'
          /\ restarts' = 0 /\ creates' = 0 => Started(a)'
      BY <1>1, <1>2, <1>4, <1>5, <2>1 DEF Serially, Counted, Started
    <2>. QED  BY <1>2, <1>4, <1>5, <2>1, <2>3, <2>4 DEF SerialInv, Serially
  <1>6. CASE /\ JobFinished(objs[i])
             /\ objs' = [objs EXCEPT ![i].times = @ + 1, ![i].state = "DONE"]
             /\ db' = [db EXCEPT !.times = objs[i].times + 1, !.state = "DONE"]
             /\ Goto(a, "notify")
    <2>1. /\ \A b \in Actor \ {a} : actor'[b] = actor[b]
          /\ actor'[a] # Idle /\ actor'[a].pc = "notify"
          /\ actor'[a].obj = i /\ actor'[a].file = actor[a].file
          /\ actor'[a].value = actor[a].value
      BY <1>1, <1>4, <1>6, GotoIs DEF PC
    <2>2. db'.det = db.det /\ db'.times = db.times + 1 /\ db'.state = "DONE"
      BY <1>3, <1>6 DEF Row
    <2>3. /\ objs'[i].det = objs[i].det /\ objs'[i].times = db.times + 1
          /\ objs'[i].state = "DONE" /\ objs'[i].cached = objs[i].cached
          /\ objs'[i].unfinished = objs[i].unfinished
      BY <1>3, <1>6 DEF Obj
    <2>4. Exact(objs'[i], db') /\ Rows(db')
      BY <1>2, <1>3, <2>2, <2>3 DEF Exact, Rows
    <2>5. Working(a)' /\ Alone(a)'
      BY <1>1, <1>2, <1>3, <1>4, <2>1, <2>2, <2>4 DEF Working, Alone, Serially
    <2>6. Ending(a)'
      BY <1>3, <2>2 DEF Ending
    <2>7. Telling(a)'
      BY <1>1, <1>2, <1>3, <1>4, <2>1, <2>2 DEF Serially, Telling
    <2>8. /\ restarts' = 0 => Counted(a)'
          /\ restarts' = 0 /\ creates' = 0 => Started(a)'
      BY <1>1, <1>2, <1>4, <2>1, <2>2 DEF Serially, Counted, Started
    <2>. QED  BY <2>1, <2>4, <2>5, <2>6, <2>7, <2>8 DEF SerialInv, Serially
  <1>. QED  BY <1>5, <1>6 DEF Finish

LEMMA NotifyFinishSerial ==
    ASSUME Types, SerialInv, NEW a \in Actor, NotifyFinish(a)
    PROVE  SerialInv'
  <1>. DEFINE i == actor[a].obj
  <1>1. actor[a].pc = "notify" /\ actor[a] # Idle
    BY RecordTypes DEF NotifyFinish
  <1>2. /\ Serially(a) /\ Working(a) /\ Exact(objs[i], db) /\ cache \in {0, i}
        /\ db.times > 0 /\ Telling(a)
    BY <1>1, Current DEF Serially, Working
  <1>3. UNCHANGED <<db, objs, cache, loads, tasks, has, creates, restarts>>
    BY DEF NotifyFinish, store, bounds
  <1>4. /\ \A b \in Actor \ {a} : actor'[b] = actor[b]
        /\ actor'[a] = Idle /\ actor'[a].pc = "idle"
    BY <1>3, EndIs DEF NotifyFinish
  <1>5. told' = (IF db.times > 1 THEN told ELSE told + 1) /\ db.times \in Nat
    BY <1>2 DEF NotifyFinish, Mine, Exact, Types, Row
  <1>6. Telling(a)'
    BY <1>1, <1>2, <1>3, <1>4, <1>5 DEF Telling
  <1>7. Alone(a)' /\ Rows(db)' /\ Ending(a)'
    BY <1>1, <1>2, <1>3, <1>4 DEF Serially, Alone, Rows, Ending
  <1>8. /\ restarts' = 0 => Counted(a)'
        /\ restarts' = 0 /\ creates' = 0 => Started(a)'
    BY <1>1, <1>2, <1>3, <1>4 DEF Serially, Counted, Started
  <1>. QED  BY <1>2, <1>3, <1>4, <1>6, <1>7, <1>8 DEF SerialInv, Serially

LEMMA DropCacheSerial ==
    ASSUME Types, SerialInv, DropCache
    PROVE  SerialInv'
  <1>1. PICK a \in Actor : Serially(a)
    BY DEF SerialInv
  <1>2. cache' = 0 /\ UNCHANGED <<db, objs, loads, actor, told, tasks, has, creates, restarts>>
    BY DEF DropCache, ghosts, bounds
  <1>3. actor'[a] # Idle => Working(a)'
    BY <1>1, <1>2 DEF Serially, Working, Exact, Ahead
  <1>4. Alone(a)' /\ Rows(db)' /\ Ending(a)' /\ Telling(a)'
    BY <1>1, <1>2 DEF Serially, Alone, Rows, Ending, Telling
  <1>5. /\ restarts' = 0 => Counted(a)'
        /\ restarts' = 0 /\ creates' = 0 => Started(a)'
    BY <1>1, <1>2 DEF Serially, Counted, Started
  <1>. QED  BY <1>2, <1>3, <1>4, <1>5 DEF SerialInv, Serially

LEMMA RestartSerial ==
    ASSUME Types, SerialInv, Restart
    PROVE  SerialInv'
  <1>. DEFINE over == Unfinished(db.det) = 0 /\ db.times = 0
              new == [f \in File |-> [db.det[f] EXCEPT !.state =
                                         IF @ = "DOING" THEN "PAUSE" ELSE @]]
  <1>1. PICK a \in Actor : Serially(a)
    BY DEF SerialInv
  <1>2. /\ cache' = 0 /\ actor' = [b \in Actor |-> Idle]
        /\ restarts' # 0 /\ UNCHANGED told
    BY DEF Restart, Stop, ghosts, Types
  <1>3. /\ db'.det = new
        /\ db'.state = IF over THEN "DONE" ELSE db.state
        /\ db'.times = IF over THEN 1 ELSE db.times
    BY DEF Restart
  <1>4. /\ db.det \in [File -> Detail] /\ db.times \in Nat
        /\ Rows(db) /\ Telling(a)
    BY <1>1 DEF Types, Row, Serially
  <1>5. \A f \in File : /\ new[f].state = "DONE" <=> db.det[f].state = "DONE"
                        /\ new[f].segs = db.det[f].segs
    BY <1>4 DEF Detail
  <1>6. Unfinished(db'.det) = Unfinished(db.det)
    <2>. HIDE DEF new
    <2>1. Unfinished(new) = Unfinished(db.det)
      BY <1>5, UnfinishedSame
    <2>. QED  BY <1>3, <2>1
  <1>7. Rows(db')
    <2>. HIDE DEF new
    <2>. QED  BY <1>3, <1>4, <1>5 DEF Rows
  <1>8. Ending(a)'
    BY <1>3, <1>4, <1>6 DEF Ending
  <1>9. actor'[a] = Idle /\ actor'[a].pc = "idle" /\ Alone(a)'
    BY <1>2, RecordTypes DEF Alone
  <1>10. Telling(a)'
    BY <1>2, <1>3, <1>4, <1>9 DEF Telling
  <1>. QED  BY <1>2, <1>7, <1>8, <1>9, <1>10 DEF SerialInv, Serially

LEMMA StutterSerial ==
    ASSUME SerialInv, UNCHANGED vars
    PROVE  SerialInv'
  <1>1. PICK a \in Actor : Serially(a)
    BY DEF SerialInv
  <1>2. UNCHANGED <<db, objs, cache, loads, actor, told, tasks, has, creates, restarts>>
    BY DEF vars, store, ghosts, bounds
  <1>3. actor'[a] # Idle => Working(a)'
    BY <1>1, <1>2 DEF Serially, Working, Exact, Ahead
  <1>4. Alone(a)' /\ Rows(db)' /\ Ending(a)' /\ Telling(a)'
    BY <1>1, <1>2 DEF Serially, Alone, Rows, Ending, Telling
  <1>5. /\ restarts' = 0 => Counted(a)'
        /\ restarts' = 0 /\ creates' = 0 => Started(a)'
    BY <1>1, <1>2 DEF Serially, Counted, Started
  <1>. QED  BY <1>1, <1>2, <1>3, <1>4, <1>5 DEF SerialInv, Serially

LEMMA NextSerial ==
    ASSUME Serial, ~Repeats, Types, SerialInv, [Next]_vars
    PROVE  SerialInv'
  <1>1. ASSUME NEW f \in File, NEW n \in 1..NumSegs[f], AddTask(f, n) PROVE SerialInv'
    BY <1>1, AddTaskSerial
  <1>2. ASSUME NEW f \in File, DelTask(f) PROVE SerialInv'
    BY <1>2, DelTaskSerial
  <1>3. ASSUME NEW f \in File, NEW s \in {"DOING", "PAUSE", "DONE"}, Report(f, s)
        PROVE  SerialInv'
    BY <1>3, ReportSerial
  <1>4. CASE ResetDetail \/ StartJob \/ CheckDone \/ PauseDetail \/ UpdateDetail \/ Save
    BY <1>4, ResetDetailSerial, StartJobSerial, CheckDoneSerial, PauseDetailSerial,
       UpdateDetailSerial, SaveRowSerial
  <1>5. ASSUME NEW h \in Handler, NEW f \in File, Skip(h, f) \/ Resume(h, f)
        PROVE  SerialInv'
    BY <1>5, SkipSerial, ResumeSerial
  <1>6. ASSUME NEW h \in Handler, SkipDetail(h) \/ ResumeDetail(h) \/ Recreate(h)
        PROVE  SerialInv'
    BY <1>6, SkipDetailSerial, ResumeDetailSerial, RecreateSerial
  <1>7. ASSUME NEW a \in Actor, Count(a) \/ ProcessJob(a) \/ Finish(a) \/ NotifyFinish(a)
        PROVE  SerialInv'
    BY <1>7, CountSerial, ProcessJobSerial, FinishSerial, NotifyFinishSerial
  <1>8. CASE DropCache \/ Restart \/ UNCHANGED vars
    BY <1>8, DropCacheSerial, RestartSerial, StutterSerial
  <1>. QED  BY <1>1, <1>2, <1>3, <1>4, <1>5, <1>6, <1>7, <1>8 DEF Next

LEMMA SpecSerial ==
    ASSUME Serial, ~Repeats
    PROVE  Spec => [](Types /\ SerialInv)
  <1>1. Init => Types /\ SerialInv
    BY InitTypes, InitSerial
  <1>2. Types /\ SerialInv /\ [Next]_vars => (Types /\ SerialInv)'
    BY NextTypes, NextSerial
  <1>. QED  BY <1>1, <1>2, PTL DEF Spec

-----------------------------------------------------------------------------
(* What a step does to the rows                                            *)

(* Every detail keeps its segments and whether it is DONE.                 *)
Kept ==
    /\ \A f \in File : /\ db'.det[f].state = "DONE" <=> db.det[f].state = "DONE"
                       /\ db'.det[f].segs = db.det[f].segs
    /\ db'.times > db.times => Unfinished(db.det) = 0

(* a changes the detail of its file, which is not DONE, and no other.      *)
OneBy(a) ==
    /\ actor[a] # Idle /\ db'.times = db.times
    /\ db.det[actor[a].file].state # "DONE"
    /\ \A f \in File : f # actor[a].file => db'.det[f] = db.det[f]
    /\ actor[a].value = "some" =>
         actor[a].pc = "add" /\ ~db.det[actor[a].file].started

LEMMA SaveOne ==
    ASSUME Types, SerialInv, NEW a \in Actor,
           actor[a].pc \in {"add", "pause", "save", "skip", "resume"},
           NEW d, SaveDetail(a, d),
           actor[a].pc = "add" =>
             ~MyDetail(a).started \/ actor[a].value # "some"
    PROVE  OneBy(a)
  <1>1. actor[a] # Idle
    BY RecordTypes
  <1>2. Serially(a) /\ Working(a)
    BY <1>1, Current DEF Serially
  <1>3. db \in Row /\ actor[a] \in Work
    BY DEF Types
  <1>4. /\ db'.det = [db.det EXCEPT ![actor[a].file] = d]
        /\ db'.times = db.times
    BY <1>3 DEF SaveDetail, Row
  <1>5. /\ db.det[actor[a].file].state # "DONE"
        /\ actor[a].value = "some" => actor[a].pc = "add"
        /\ actor[a].pc = "add" => Exact(objs[actor[a].obj], db)
    BY <1>2 DEF Working
  <1>6. actor[a].value = "some" => ~db.det[actor[a].file].started
    BY <1>5 DEF Exact, MyDetail, Mine
  <1>7. \A f \in File : f # actor[a].file => db'.det[f] = db.det[f]
    BY <1>3, <1>4 DEF Row
  <1>. QED  BY <1>1, <1>4, <1>5, <1>6, <1>7 DEF OneBy

LEMMA RowsStep ==
    ASSUME Serial, Types, SerialInv, [Next]_vars
    PROVE  \/ Kept
           \/ \E a \in Actor : OneBy(a)
           \/ /\ Quiet /\ db'.times = db.times
              /\ \A f \in File : db'.det[f] = NewDetail
  <1>. USE DEF store, ghosts, bounds
  <1>0. /\ db \in Row /\ db.det \in [File -> Detail] /\ db.times \in Nat
        /\ Observer \in Actor /\ \A h \in Handler : h \in Actor
    BY DEF Types, Row, Actor
  <1>1. UNCHANGED db => Kept
    BY <1>0 DEF Kept
  <1>2. CASE \/ \E f \in File : \E n \in 1..NumSegs[f] : AddTask(f, n)
             \/ \E f \in File : DelTask(f)
             \/ \E f \in File, s \in {"DOING", "PAUSE", "DONE"} : Report(f, s)
             \/ \E h \in Handler, f \in File : Skip(h, f) \/ Resume(h, f)
             \/ CheckDone \/ UpdateDetail \/ DropCache \/ UNCHANGED vars
             \/ \E a \in Actor : Count(a) \/ ProcessJob(a) \/ NotifyFinish(a)
    <2>1. UNCHANGED db
      BY <1>2 DEF AddTask, DelTask, Report, Skip, Resume, CheckDone, UpdateDetail,
                  DropCache, Count, ProcessJob, NotifyFinish, vars
    <2>. QED  BY <1>1, <2>1
  <1>3. CASE ResetDetail
    <2>1. CASE UNCHANGED db
      BY <1>1, <2>1
    <2>2. CASE /\ actor[Observer].pc = "add"
               /\ ~MyDetail(Observer).started \/ actor[Observer].value = "all"
               /\ SaveDetail(Observer, [NewDetail EXCEPT !.started = TRUE])
      BY <1>0, <2>2, SaveOne
    <2>. QED  BY <1>3, <2>1, <2>2 DEF ResetDetail
  <1>4. CASE StartJob
    <2>1. db'.det = db.det /\ db'.times = db.times
      BY <1>0, <1>4 DEF StartJob, Row
    <2>. QED  BY <1>0, <2>1 DEF Kept
  <1>5. CASE PauseDetail
    <2>1. /\ actor[Observer].pc = "pause"
          /\ SaveDetail(Observer, [MyDetail(Observer) EXCEPT !.state = "PAUSE"])
      BY <1>5 DEF PauseDetail
    <2>. QED  BY <1>0, <2>1, SaveOne
  <1>6. CASE Save
    <2>1. actor[Observer].pc = "save" /\ SaveDetail(Observer, MyDetail(Observer))
      BY <1>6 DEF Save
    <2>. QED  BY <1>0, <2>1, SaveOne
  <1>7. ASSUME NEW h \in Handler, SkipDetail(h)
        PROVE  OneBy(h)
    <2>. DEFINE d == [state |-> "DONE", segs |-> NumSegs[actor[h].file], started |-> TRUE]
    <2>1. actor[h].pc = "skip" /\ SaveDetail(h, d)
      BY <1>7 DEF SkipDetail
    <2>. HIDE DEF d
    <2>. QED  BY <1>0, <2>1, SaveOne
  <1>8. ASSUME NEW h \in Handler, ResumeDetail(h)
        PROVE  OneBy(h)
    <2>. DEFINE d == [MyDetail(h) EXCEPT !.segs = has[actor[h].file]]
    <2>1. actor[h].pc = "resume" /\ SaveDetail(h, d)
      BY <1>8 DEF ResumeDetail
    <2>. HIDE DEF d
    <2>. QED  BY <1>0, <2>1, SaveOne
  <1>9. ASSUME NEW h \in Handler, Recreate(h)
        PROVE  /\ Quiet /\ db'.times = db.times
               /\ \A f \in File : db'.det[f] = NewDetail
    BY <1>0, <1>9 DEF Recreate, Quiet, Row
  <1>10. ASSUME NEW a \in Actor, Finish(a)
         PROVE  Kept
    <2>1. CASE UNCHANGED db
      BY <1>1, <2>1
    <2>2. CASE /\ actor[a].pc = "finish" /\ JobFinished(objs[actor[a].obj])
               /\ db' = [db EXCEPT !.times = objs[actor[a].obj].times + 1, !.state = "DONE"]
      <3>1. Exact(objs[actor[a].obj], db)
        <4>1. actor[a] # Idle
          BY <2>2, RecordTypes
        <4>. QED  BY <2>2, <4>1, Current DEF Serially, Working
      <3>2. db'.det = db.det /\ Unfinished(db.det) = 0
        BY <1>0, <2>2, <3>1, FinishedIs DEF Row
      <3>. QED  BY <3>2 DEF Kept
    <2>. QED  BY <1>10, <2>1, <2>2 DEF Finish
  <1>11. CASE Restart
    <2>. DEFINE new == [f \in File |-> [db.det[f] EXCEPT !.state =
                                           IF @ = "DOING" THEN "PAUSE" ELSE @]]
    <2>1. /\ db'.det = new
          /\ db'.times = IF Unfinished(db.det) = 0 /\ db.times = 0 THEN 1 ELSE db.times
      BY <1>11 DEF Restart
    <2>2. \A f \in File : /\ new[f].state = "DONE" <=> db.det[f].state = "DONE"
                          /\ new[f].segs = db.det[f].segs
      BY <1>0 DEF Detail
    <2>. HIDE DEF new
    <2>. QED  BY <1>0, <2>1, <2>2 DEF Kept
  <1>12. CASE \E h \in Handler : SkipDetail(h) \/ ResumeDetail(h) \/ Recreate(h)
    BY <1>0, <1>7, <1>8, <1>9, <1>12
  <1>. QED  BY <1>2, <1>3, <1>4, <1>5, <1>6, <1>10, <1>11, <1>12 DEF Next

-----------------------------------------------------------------------------
(* The theorems about one actor at a time.                                 *)

(* Until the first restart a row is DONE only when every segment of its    *)
(* file was transferred, also if the job is created again: reports are     *)
(* counted, and nobody reports twice.                                      *)
THEOREM DoneComplete ==
    ASSUME Serial, ~Repeats
    PROVE  Spec => []DoneIsComplete
  <1>1. Types /\ SerialInv => DoneIsComplete
    <2>. SUFFICES ASSUME Types, SerialInv, restarts = 0, NEW f \in File,
                         db.det[f].state = "DONE"
                  PROVE  has[f] = NumSegs[f]
      BY DEF DoneIsComplete
    <2>1. PICK a \in Actor : Serially(a)
      BY DEF SerialInv
    <2>2. ~(actor[a].pc = "resume" /\ f = actor[a].file)
      BY <2>1, RecordTypes DEF Serially, Working
    <2>3. db.det[f].segs = NumSegs[f] /\ db.det[f].segs <= has[f]
      BY <2>1, <2>2 DEF Serially, Rows, Counted
    <2>. QED  BY <2>3, RecordTypes DEF Types
  <1>. QED  BY <1>1, SpecSerial, PTL

(* Between two actors the cached object and its counter are right.         *)
THEOREM CacheExact ==
    ASSUME Serial, ~Repeats
    PROVE  Spec => []CacheIsExact
  <1>1. Types /\ SerialInv => CacheIsExact
    BY DEF SerialInv, Serially, CacheIsExact, Quiet, Exact
  <1>. QED  BY <1>1, SpecSerial, PTL

(* Nobody leaves a job with all details DONE unfinished, nor does a crash. *)
THEOREM AllDoneFinished ==
    ASSUME Serial, ~Repeats
    PROVE  Spec => []AllDoneIsFinished
  <1>1. Types /\ SerialInv => AllDoneIsFinished
    <2>. SUFFICES ASSUME Types, SerialInv, Quiet, Unfinished(db.det) = 0
                  PROVE  db.state = "DONE" /\ db.times > 0
      BY DEF AllDoneIsFinished
    <2>1. PICK a \in Actor : Serially(a)
      BY DEF SerialInv
    <2>2. actor[a].pc = "idle"
      BY RecordTypes DEF Quiet
    <2>3. db.times # 0 /\ db.times \in Nat
      BY <2>1, <2>2 DEF Serially, Ending, Types, Row
    <2>. QED  BY <2>1, <2>3 DEF Serially, Rows
  <1>. QED  BY <1>1, SpecSerial, PTL

(* cdxs-13: the end of the job is published once, never twice.             *)
THEOREM NotifyOnce ==
    ASSUME Serial, ~Repeats
    PROVE  Spec => []NotifiedOnce
  <1>1. Types /\ SerialInv => NotifiedOnce
    <2>. SUFFICES ASSUME Types, SerialInv PROVE NotifiedOnce
      OBVIOUS
    <2>1. PICK a \in Actor : Serially(a)
      BY DEF SerialInv
    <2>2. Quiet => actor[a].pc # "notify"
      BY RecordTypes DEF Quiet
    <2>. QED  BY <2>1, <2>2 DEF Serially, Telling, NotifiedOnce
  <1>. QED  BY <1>1, SpecSerial, PTL

(* The counter decides, and it is right: no job finishes before its files. *)
THEOREM FinishDeserved ==
    ASSUME Serial, ~Repeats
    PROVE  Spec => FinishIsDeserved
  <1>1. ASSUME Types, Types', SerialInv, [Next]_vars
        PROVE  [db'.times > db.times => Unfinished(db'.det) = 0]_vars
    <2>1. db.times \in Nat
      BY <1>1 DEF Types, Row
    <2>2. CASE Kept
      <3>. DEFINE new == db'.det
      <3>1. \A f \in File : new[f].state = "DONE" <=> db.det[f].state = "DONE"
        BY <2>2 DEF Kept
      <3>. HIDE DEF new
      <3>2. Unfinished(new) = Unfinished(db.det)
        BY <3>1, UnfinishedSame
      <3>3. db'.times > db.times => Unfinished(new) = 0
        BY <2>2, <3>2 DEF Kept
      <3>. QED  BY <3>3 DEF new
    <2>3. CASE db'.times = db.times
      BY <2>1, <2>3
    <2>. QED  BY <1>1, <2>2, <2>3, RowsStep DEF OneBy
  <1>. QED  BY <1>1, InitTypes, NextTypes, SpecSerial, PTL DEF Spec, FinishIsDeserved

(* cdxs-12: who finds a DONE detail leaves it alone.                       *)
THEOREM DoneNotPaused ==
    ASSUME Serial, ~Repeats
    PROVE  Spec => DoneIsNotPaused
  <1>1. ASSUME Types, SerialInv, [Next]_vars
        PROVE  [\A f \in File : db.det[f].state = "DONE" => db'.det[f].state # "PAUSE"]_vars
    BY <1>1, RowsStep DEF Kept, OneBy, NewDetail
  <1>. QED  BY <1>1, SpecSerial, PTL DEF Spec, DoneIsNotPaused

(* old-cdxs-24: until the job is created again or the server restarts, no  *)
(* step takes segments off a file while the observer has a task for some   *)
(* of the segments in hand: of such tasks only one of a file that has not  *)
(* started resets, and that has no segments.                               *)
THEOREM ProgressKept ==
    ASSUME Serial, ~Repeats
    PROVE  Spec => ProgressIsKept
  <1>1. ASSUME Types, Types', SerialInv, [Next]_vars
        PROVE  [\A f \in File :
                  creates = 0 /\ restarts = 0 /\ actor[Observer].value = "some" =>
                      db'.det[f].segs >= db.det[f].segs]_vars
    <2>. SUFFICES ASSUME NEW f \in File, creates = 0, restarts = 0,
                         actor[Observer].value = "some"
                  PROVE  db'.det[f].segs >= db.det[f].segs
      OBVIOUS
    <2>1. /\ db.det[f].segs \in Nat /\ db'.det[f].segs \in Nat /\ has[f] \in Nat
          /\ Observer \in Actor /\ actor[Observer] # Idle
      BY <1>1, RecordTypes DEF Types, Row, Detail, Actor
    <2>2. Serially(Observer)
      BY <1>1, <2>1, Current
    <2>3. CASE Kept
      BY <2>1, <2>3 DEF Kept
    <2>4. ASSUME NEW a \in Actor, OneBy(a)
          PROVE  db'.det[f].segs >= db.det[f].segs
      <3>1. a = Observer
        BY <2>1, <2>2, <2>4 DEF OneBy, Serially, Alone
      <3>2. CASE f # actor[a].file
        BY <2>1, <2>4, <3>2 DEF OneBy
      <3>3. CASE f = actor[a].file
        <4>1. actor[a].pc = "add" /\ ~db.det[f].started
          BY <2>4, <3>1, <3>3 DEF OneBy
        <4>2. ~(has[f] > 0) /\ db.det[f].segs <= has[f]
          BY <2>2, <3>1, <4>1 DEF Serially, Started, Counted
        <4>. QED  BY <2>1, <4>2
      <3>. QED  BY <3>2, <3>3
    <2>5. ~Quiet
      BY <2>1 DEF Quiet
    <2>. QED  BY <1>1, <2>3, <2>4, <2>5, RowsStep
  <1>. QED  BY <1>1, InitTypes, NextTypes, SpecSerial, PTL DEF Spec, ProgressIsKept

-----------------------------------------------------------------------------
(* Notifications.  An event is taken up by one publisher at most: what is  *)
(* still to be sent is of the current call, distinct, and of no publisher. *)
Fresh ==
    /\ \A p, q \in publishers : p.ev = q.ev => p = q
    /\ \A p \in publishers : p.ev.call <= observed
    /\ \A i, j \in 1..Len(sending) : sending[i] = sending[j] => i = j
    /\ \A i \in 1..Len(sending) :
         /\ sending[i].call = observed /\ reached[sending[i]] = 0
         /\ \A p \in publishers : p.ev # sending[i]
    /\ \A e \in Event : e.call > observed => reached[e] = 0

(* A publication that reaches redis is a try, and of one that still tries  *)
(* all have failed.                                                        *)
Tried ==
    /\ \A e \in Event : reached[e] <= MaxTryTimes /\ reached[e] <= 1 + failed[e]
    /\ \A p \in publishers :
         /\ p.pc = "fetch" => p.tries = 0
         /\ p.pc # "done" => /\ reached[p.ev] <= p.tries /\ p.tries < MaxTryTimes
                             /\ reached[p.ev] <= failed[p.ev]

Tokens == IsFiniteSet(publishers) /\ slots = Cardinality(publishers)

(* Where the messages about event e are on the way to its mails.           *)
OnWire(w, e) == {i \in 1..Len(w) : w[i].ev = e}
One(m, e) == IF m # None /\ m.ev = e THEN 1 ELSE 0
InMailer(ms, e) == {i \in Mailer : ms[i] # None /\ ms[i].ev = e}
Messages(e) == Cardinality(OnWire(wire, e)) + One(got, e) + One(hand, e)
                 + Cardinality(InMailer(mailers, e))

Delivered == \A e \in Event : mails[e] + Messages(e) <= reached[e]

NotifyInv == NotifyTypeOK /\ Fresh /\ Tried /\ Tokens /\ Delivered

USE NotificationAssumption

LEMMA WireFinite ==
    ASSUME NEW S, NEW w \in Seq(S), NEW e
    PROVE  IsFiniteSet(OnWire(w, e)) /\ Cardinality(OnWire(w, e)) \in Nat
  <1>1. Len(w) \in Nat /\ IsFiniteSet(1..Len(w))
    BY LenProperties, FS_Interval
  <1>2. OnWire(w, e) \in SUBSET (1..Len(w))
    BY DEF OnWire
  <1>3. IsFiniteSet(OnWire(w, e))
    BY <1>1, <1>2, FS_Subset
  <1>. QED  BY <1>3, FS_CardinalityType

LEMMA WireAppend ==
    ASSUME NEW S, NEW w \in Seq(S), NEW m \in S, NEW e
    PROVE  Cardinality(OnWire(Append(w, m), e)) =
             Cardinality(OnWire(w, e)) + (IF m.ev = e THEN 1 ELSE 0)
  <1>. DEFINE n == Len(w)
              v == Append(w, m)
  <1>1. /\ n \in Nat /\ Len(v) = n + 1 /\ v[n + 1] = m
        /\ \A i \in 1..n : v[i] = w[i]
    BY AppendProperties
  <1>. HIDE DEF n, v
  <1>2. OnWire(v, e) = IF m.ev = e THEN OnWire(w, e) \cup {n + 1} ELSE OnWire(w, e)
    BY <1>1 DEF OnWire, n
  <1>3. n + 1 \notin OnWire(w, e)
    BY <1>1 DEF OnWire, n
  <1>4. /\ Cardinality(OnWire(w, e)) \in Nat
        /\ Cardinality(OnWire(w, e) \cup {n + 1}) = Cardinality(OnWire(w, e)) + 1
    BY <1>3, WireFinite, FS_AddElement
  <1>5. Cardinality(OnWire(v, e)) =
          Cardinality(OnWire(w, e)) + (IF m.ev = e THEN 1 ELSE 0)
    BY <1>2, <1>4
  <1>. QED  BY <1>5 DEF v

LEMMA WireTail ==
    ASSUME NEW S, NEW w \in Seq(S), w # << >>, NEW e
    PROVE  Cardinality(OnWire(w, e)) =
             Cardinality(OnWire(Tail(w), e)) + (IF Head(w).ev = e THEN 1 ELSE 0)
  <1>. DEFINE t == Tail(w)
              A == OnWire(t, e)
              B == OnWire(w, e) \ {1}
  <1>1. /\ Len(w) \in Nat /\ Len(w) > 0 /\ Len(t) = Len(w) - 1 /\ t \in Seq(S)
        /\ \A i \in 1..Len(t) : t[i] = w[i + 1]
        /\ Head(w) = w[1]
    BY HeadTailProperties, EmptySeq, LenProperties
  <1>2. ExistsBijection(A, B)
    <2>. DEFINE f == [i \in A |-> i + 1]
    <2>1. \A i \in A : i \in 1..Len(t) /\ i + 1 \in B
      BY <1>1 DEF OnWire
    <2>2. \A j \in B : j - 1 \in A /\ (j - 1) + 1 = j
      BY <1>1 DEF OnWire
    <2>3. \A i, j \in A : i + 1 = j + 1 => i = j
      BY <2>1
    <2>. HIDE DEF A, B
    <2>4. f \in [A -> B] /\ \A i \in A : f[i] = i + 1
      BY <2>1
    <2>. HIDE DEF f
    <2>5. \A i, j \in A : f[i] = f[j] => i = j
      BY <2>3, <2>4
    <2>6. \A j \in B : \E i \in A : f[i] = j
      BY <2>2, <2>4
    <2>7. f \in Bijection(A, B)
      BY <2>4, <2>5, <2>6 DEF Bijection, Injection, Surjection, IsInjective
    <2>. QED  BY <2>7 DEF ExistsBijection
  <1>3. IsFiniteSet(A) /\ IsFiniteSet(OnWire(w, e))
    BY <1>1, WireFinite
  <1>4. Cardinality(B) = Cardinality(A)
    BY <1>2, <1>3, FS_Bijection
  <1>5. Cardinality(B) = IF 1 \in OnWire(w, e) THEN Cardinality(OnWire(w, e)) - 1
                         ELSE Cardinality(OnWire(w, e))
    BY <1>3, FS_RemoveElement
  <1>6. 1 \in OnWire(w, e) <=> Head(w).ev = e
    BY <1>1 DEF OnWire
  <1>7. Cardinality(A) \in Nat /\ Cardinality(OnWire(w, e)) \in Nat
    BY <1>3, FS_CardinalityType
  <1>. QED  BY <1>4, <1>5, <1>6, <1>7

LEMMA MailerFinite ==
    ASSUME NEW ms, NEW e
    PROVE  IsFiniteSet(InMailer(ms, e)) /\ Cardinality(InMailer(ms, e)) \in Nat
  <1>1. IsFiniteSet(Mailer)
    BY FS_Interval DEF Mailer
  <1>2. InMailer(ms, e) \in SUBSET Mailer
    BY DEF InMailer
  <1>3. IsFiniteSet(InMailer(ms, e))
    BY <1>1, <1>2, FS_Subset
  <1>. QED  BY <1>3, FS_CardinalityType

(* Mailer i, which has nothing to do or message x, is given message m.     *)
LEMMA MailerTurns ==
    ASSUME NEW ms, NEW v, NEW i \in Mailer, NEW m, v[i] = m,
           \A j \in Mailer \ {i} : v[j] = ms[j], NEW e
    PROVE  Cardinality(InMailer(v, e)) + One(ms[i], e) =
             Cardinality(InMailer(ms, e)) + One(m, e)
  <1>. DEFINE R == InMailer(ms, e) \ {i}
  <1>1. v[i] = m /\ \A j \in Mailer \ {i} : v[j] = ms[j]
    OBVIOUS
  <1>2. InMailer(v, e) = IF m # None /\ m.ev = e THEN R \cup {i} ELSE R
    BY <1>1 DEF InMailer
  <1>3. InMailer(ms, e) = IF ms[i] # None /\ ms[i].ev = e THEN R \cup {i} ELSE R
    BY DEF InMailer
  <1>4. IsFiniteSet(R) /\ i \notin R
    BY MailerFinite, FS_RemoveElement
  <1>5. Cardinality(R) \in Nat /\ Cardinality(R \cup {i}) = Cardinality(R) + 1
    BY <1>4, FS_AddElement, FS_CardinalityType
  <1>. HIDE DEF R
  <1>6. Cardinality(InMailer(v, e)) = Cardinality(R) + One(m, e)
    BY <1>2, <1>5 DEF One
  <1>7. Cardinality(InMailer(ms, e)) = Cardinality(R) + One(ms[i], e)
    BY <1>3, <1>5 DEF One
  <1>8. One(m, e) \in Nat /\ One(ms[i], e) \in Nat
    BY DEF One
  <1>. QED  BY <1>5, <1>6, <1>7, <1>8

(* The job manager's side: an event is sent, and a publisher takes it up   *)
(* or it is dropped.                                                       *)
LEMMA CallInv ==
    ASSUME NotifyInv, NEW kinds \in Seq(Kind), Len(kinds) <= 2,
           \A i, j \in 1..Len(kinds) : kinds[i] = kinds[j] => i = j,
           Call(kinds)
    PROVE  NotifyInv'
  <1>1. /\ ~locked /\ locked' = TRUE /\ observed \in Nat /\ observed < MaxCalls
        /\ observed' = observed + 1 /\ observed' \in 1..MaxCalls
        /\ UNCHANGED <<publishing, mailing>>
    BY DEF Call, NotifyInv, NotifyTypeOK
  <1>2. /\ sending' \in Seq(Event) /\ Len(sending') = Len(kinds)
        /\ \A i \in 1..Len(kinds) :
             /\ sending'[i].kind = kinds[i] /\ sending'[i].call = observed'
             /\ sending'[i] \in Event
    <2>1. DOMAIN kinds = 1..Len(kinds) /\ Len(kinds) \in Nat
      BY LenProperties
    <2>2. sending' = [i \in 1..Len(kinds) |-> [kind |-> kinds[i], call |-> observed']]
      BY <2>1 DEF Call
    <2>3. \A i \in 1..Len(kinds) : [kind |-> kinds[i], call |-> observed'] \in Event
      BY <1>1, <2>1 DEF Event
    <2>. HIDE DEF Event
    <2>4. sending' \in [1..Len(kinds) -> Event]
      BY <2>2, <2>3
    <2>5. sending' \in Seq(Event)
      BY <2>1, <2>4, SeqDef
    <2>6. Len(sending') = Len(kinds)
      BY <2>1, <2>4, <2>5, LenProperties
    <2>7. \A i \in 1..Len(kinds) :
            sending'[i].kind = kinds[i] /\ sending'[i].call = observed'
      BY <2>2
    <2>8. \A i \in 1..Len(kinds) : sending'[i] \in Event
      BY <2>4
    <2>. QED  BY <2>5, <2>6, <2>7, <2>8
  <1>3. NotifyTypeOK'
    BY <1>1, <1>2 DEF NotifyInv, NotifyTypeOK, publishing, mailing
  <1>4. Fresh'
    <2>1. \A p \in publishers : p.ev.call \in Nat /\ p.ev.call <= observed
      BY DEF NotifyInv, Fresh, NotifyTypeOK, Publisher, Event
    <2>2. ASSUME NEW i \in 1..Len(sending')
          PROVE  /\ sending'[i].call = observed' /\ reached[sending'[i]] = 0
                 /\ \A p \in publishers : p.ev # sending'[i]
      <3>1. sending'[i] \in Event /\ sending'[i].call = observed + 1
        BY <1>1, <1>2
      <3>2. sending'[i].call > observed
        BY <1>1, <3>1
      <3>3. reached[sending'[i]] = 0
        BY <3>1, <3>2 DEF NotifyInv, Fresh
      <3>4. \A p \in publishers : p.ev.call # observed + 1
        BY <1>1, <2>1
      <3>. QED  BY <1>1, <3>1, <3>3, <3>4
    <2>3. \A i, j \in 1..Len(sending') : sending'[i] = sending'[j] => i = j
      <3>1. \A i \in 1..Len(kinds) : sending'[i].kind = kinds[i]
        BY <1>2
      <3>2. \A i, j \in 1..Len(kinds) : sending'[i] = sending'[j] => kinds[i] = kinds[j]
        BY <3>1
      <3>. QED  BY <1>2, <3>2
    <2>4. \A e \in Event : e.call \in Nat
      BY DEF Event
    <2>5. \A e \in Event : e.call > observed' => reached[e] = 0
      BY <1>1, <2>4 DEF NotifyInv, Fresh
    <2>6. \A p \in publishers : p.ev.call <= observed'
      BY <1>1, <2>1
    <2>7. \A p, q \in publishers : p.ev = q.ev => p = q
      BY DEF NotifyInv, Fresh
    <2>. QED  BY <1>1, <2>2, <2>3, <2>5, <2>6, <2>7 DEF Fresh, publishing
  <1>5. Tried' /\ Tokens' /\ Delivered'
    BY <1>1 DEF NotifyInv, Tried, Tokens, Delivered, Messages, publishing, mailing
  <1>. QED  BY <1>3, <1>4, <1>5 DEF NotifyInv

LEMMA ObserveInv ==
    ASSUME NotifyInv, Observe
    PROVE  NotifyInv'
  <1>1. \E kinds \in {<< >>, <<"NewPkg">>, <<"DownloadStart">>, <<"UploadFinish">>,
                      <<"ReceiverFinish", "SenderFinish">>} : Call(kinds)
    <2>1. PICK type \in {"upload", "download"} :
             \/ OnJobCreate(type) \/ OnJobStart(type)
             \/ \E times \in 1..2 : OnJobFinish(type, times)
      BY DEF Observe
    <2>2. CASE OnJobCreate(type) \/ OnJobStart(type)
      BY <2>2 DEF OnJobCreate, OnJobStart
    <2>3. CASE \E times \in 1..2 : OnJobFinish(type, times)
      <3>1. PICK times \in 1..2 : OnJobFinish(type, times)
        BY <2>3
      <3>2. CASE times > 1
        BY <3>1, <3>2 DEF OnJobFinish
      <3>3. CASE times = 1 /\ type = "upload"
        BY <3>1, <3>3 DEF OnJobFinish
      <3>4. CASE ~(times > 1) /\ ~(times = 1 /\ type = "upload")
        BY <3>1, <3>4 DEF OnJobFinish
      <3>. QED  BY <3>2, <3>3, <3>4
    <2>. QED  BY <2>1, <2>2, <2>3
  <1>2. PICK kinds \in {<< >>, <<"NewPkg">>, <<"DownloadStart">>, <<"UploadFinish">>,
                        <<"ReceiverFinish", "SenderFinish">>} : Call(kinds)
    BY <1>1
  <1>3. kinds \in Seq(Kind) /\ Len(kinds) <= 2
        /\ \A i, j \in 1..Len(kinds) : kinds[i] = kinds[j] => i = j
    <2>1. << >> \in Seq(Kind) /\ Len(<< >>) = 0
      OBVIOUS
    <2>2. \A k \in Kind : <<k>> \in Seq(Kind) /\ Len(<<k>>) = 1
      OBVIOUS
    <2>3. CASE kinds = << >>
      BY <2>1, <2>3
    <2>4. CASE \E k \in Kind : kinds = <<k>>
      BY <2>2, <2>4
    <2>5. CASE kinds = <<"ReceiverFinish", "SenderFinish">>
      <3>1. kinds \in Seq(Kind) /\ Len(kinds) = 2 /\ kinds[1] # kinds[2]
        BY <2>5 DEF Kind
      <3>2. \A i \in 1..Len(kinds) : i = 1 \/ i = 2
        BY <3>1
      <3>. QED  BY <3>1, <3>2
    <2>. QED  BY <1>2, <2>3, <2>4, <2>5 DEF Kind
  <1>. QED  BY <1>2, <1>3, CallInv

LEMMA ServeInv ==
    ASSUME NotifyInv, Serve
    PROVE  NotifyInv'
  <1>. DEFINE e == Head(sending)
              q == [ev |-> e, owner |-> FALSE, pc |-> "fetch", tries |-> 0]
  <1>1. /\ sending \in Seq(Event) /\ sending # << >> /\ sending' = Tail(sending)
        /\ UNCHANGED <<locked, observed, reached, failed, mailing>>
    BY DEF Serve, NotifyInv, NotifyTypeOK
  <1>2. /\ e = sending[1] /\ e \in Event /\ sending' \in Seq(Event)
        /\ Len(sending) \in Nat /\ Len(sending) > 0 /\ Len(sending') = Len(sending) - 1
        /\ \A i \in 1..Len(sending') : sending'[i] = sending[i + 1]
    BY <1>1, HeadTailProperties, EmptySeq, LenProperties
  <1>3. \/ slots' = slots + 1 /\ publishers' = publishers \cup {q} /\ slots < MaxPublishers
        \/ slots' = slots /\ publishers' = publishers
    BY DEF Serve, Start
  <1>. HIDE DEF e
  <1>4. q \in Publisher /\ q.ev = e /\ q.pc = "fetch" /\ q.tries = 0
    BY <1>2 DEF Publisher
  <1>. HIDE DEF q
  <1>5. e.call = observed /\ reached[e] = 0 /\ \A p \in publishers : p.ev # e
    BY <1>2, SMTT(30) DEF NotifyInv, Fresh
  <1>6. NotifyTypeOK'
    <2>1. slots' \in 0..MaxPublishers /\ publishers' \subseteq Publisher
      BY <1>3, <1>4 DEF NotifyInv, NotifyTypeOK
    <2>2. Len(sending') <= 2
      BY <1>2 DEF NotifyInv, NotifyTypeOK
    <2>. QED  BY <1>1, <1>2, <2>1, <2>2 DEF NotifyInv, NotifyTypeOK, mailing
  <1>7. Fresh'
    <2>1. \A p, r \in publishers' : p.ev = r.ev => p = r
      BY <1>3, <1>4, <1>5 DEF NotifyInv, Fresh
    <2>2. \A p \in publishers' : p.ev.call <= observed
      <3>1. observed \in Nat
        BY DEF NotifyInv, NotifyTypeOK
      <3>. QED  BY <1>3, <1>4, <1>5, <3>1 DEF NotifyInv, Fresh
    <2>3. \A i \in 1..Len(sending') : i + 1 \in 1..Len(sending) /\ i + 1 # 1 /\ 1 \in 1..Len(sending)
      BY <1>2
    <2>4. \A i, j \in 1..Len(sending') : sending'[i] = sending'[j] => i = j
      <3>1. ASSUME NEW i \in 1..Len(sending'), NEW j \in 1..Len(sending'),
                   sending'[i] = sending'[j]
            PROVE  i = j
        <4>1. i + 1 = j + 1
          BY <1>2, <2>3, <3>1 DEF NotifyInv, Fresh
        <4>. QED  BY <4>1
      <3>. QED  BY <3>1
    <2>5. \A i \in 1..Len(sending') :
            /\ sending'[i].call = observed /\ reached[sending'[i]] = 0
            /\ \A p \in publishers : p.ev # sending'[i]
      BY <1>2, <2>3 DEF NotifyInv, Fresh
    <2>6. \A i \in 1..Len(sending') : sending'[i] # e
      BY <1>2, <2>3 DEF NotifyInv, Fresh
    <2>7. \A i \in 1..Len(sending') : \A p \in publishers' : p.ev # sending'[i]
      BY <1>3, <1>4, <2>5, <2>6
    <2>8. \A d \in Event : d.call > observed => reached[d] = 0
      BY DEF NotifyInv, Fresh
    <2>. QED  BY <1>1, <2>1, <2>2, <2>4, <2>5, <2>7, <2>8 DEF Fresh
  <1>8. Tried'
    <2>1. failed[e] \in Nat
      BY <1>2 DEF NotifyInv, NotifyTypeOK
    <2>2. reached[e] <= 0 /\ 0 < MaxTryTimes /\ reached[e] <= failed[e]
      BY <1>5, <2>1
    <2>. QED  BY <1>1, <1>3, <1>4, <2>2 DEF NotifyInv, Tried
  <1>9. Tokens'
    <2>1. q \notin publishers
      BY <1>4, <1>5
    <2>2. IsFiniteSet(publishers \cup {q})
          /\ Cardinality(publishers \cup {q}) = Cardinality(publishers) + 1
      BY <2>1, FS_AddElement DEF NotifyInv, Tokens
    <2>. QED  BY <1>3, <2>2 DEF NotifyInv, Tokens
  <1>10. Delivered'
    BY <1>1 DEF NotifyInv, Delivered, Messages, mailing
  <1>. QED  BY <1>6, <1>7, <1>8, <1>9, <1>10 DEF NotifyInv

(* A publisher goes on as q, with the same event.                          *)
LEMMA TurnsInv ==
    ASSUME NotifyInv, NEW p \in publishers, NEW q \in Publisher, q.ev = p.ev,
           Turns(p, q), UNCHANGED <<slots, jobside>>,
           \A e \in Event :
               e # p.ev => reached'[e] = reached[e] /\ failed'[e] = failed[e],
           reached'[p.ev] <= MaxTryTimes, reached'[p.ev] <= 1 + failed'[p.ev],
           q.pc = "fetch" => q.tries = 0,
           q.pc # "done" => /\ reached'[q.ev] <= q.tries /\ q.tries < MaxTryTimes
                            /\ reached'[q.ev] <= failed'[q.ev]
    PROVE  Fresh' /\ Tried' /\ Tokens' /\ publishers' \subseteq Publisher
  <1>1. /\ publishers' = (publishers \ {p}) \cup {q} /\ publishers \subseteq Publisher
        /\ UNCHANGED <<slots, locked, sending, observed>>
        /\ \A d, r \in publishers : d.ev = r.ev => d = r
    BY DEF Turns, NotifyInv, NotifyTypeOK, Fresh, jobside
  <1>2. \A r \in Publisher : r.ev \in Event
    BY DEF Publisher
  <1>3. observed \in Nat /\ p.ev.call \in Nat /\ p.ev.call <= observed /\ sending \in Seq(Event)
        /\ \A i \in 1..Len(sending) : sending[i] \in Event /\ sending[i] # p.ev
    <2>1. p.ev \in Event /\ observed \in Nat /\ sending \in Seq(Event)
      BY <1>1, <1>2 DEF NotifyInv, NotifyTypeOK
    <2>2. \A i \in 1..Len(sending) : sending[i] \in Event
      BY <2>1, ElementOfSeq
    <2>3. p.ev.call \in Nat
      BY <2>1 DEF Event
    <2>. QED  BY <2>1, <2>2, <2>3 DEF NotifyInv, Fresh
  <1>4. \A e \in Event : e.call \in Nat
    BY DEF Event
  <1>. HIDE DEF Publisher, Event
  <1>5. Fresh'
    <2>1. \A d, r \in publishers' : d.ev = r.ev => d = r
      BY <1>1
    <2>2. \A r \in publishers' : r.ev.call <= observed
      BY <1>1 DEF NotifyInv, Fresh
    <2>3. \A i \in 1..Len(sending) :
            /\ sending[i].call = observed /\ reached'[sending[i]] = 0
            /\ \A r \in publishers' : r.ev # sending[i]
      BY <1>1, <1>3 DEF NotifyInv, Fresh
    <2>4. \A e \in Event : e.call > observed => e # p.ev /\ reached[e] = 0
      BY <1>3, <1>4 DEF NotifyInv, Fresh
    <2>5. \A i, j \in 1..Len(sending) : sending[i] = sending[j] => i = j
      BY DEF NotifyInv, Fresh
    <2>. QED  BY <1>1, <2>1, <2>2, <2>3, <2>4, <2>5 DEF Fresh
  <1>6. Tried'
    <2>1. \A r \in publishers' : r = q \/ (r \in publishers /\ r.ev # p.ev /\ r.ev \in Event)
      BY <1>1, <1>2
    <2>2. \A e \in Event : reached'[e] <= MaxTryTimes /\ reached'[e] <= 1 + failed'[e]
      BY DEF NotifyInv, Tried
    <2>3. \A r \in publishers' :
            /\ r.pc = "fetch" => r.tries = 0
            /\ r.pc # "done" => /\ reached'[r.ev] <= r.tries /\ r.tries < MaxTryTimes
                                /\ reached'[r.ev] <= failed'[r.ev]
      BY <2>1 DEF NotifyInv, Tried
    <2>. QED  BY <2>2, <2>3 DEF Tried
  <1>7. Tokens'
    <2>1. IsFiniteSet(publishers) /\ slots = Cardinality(publishers)
          /\ Cardinality(publishers) \in Nat
      BY FS_CardinalityType DEF NotifyInv, Tokens
    <2>2. IsFiniteSet(publishers \ {p}) /\ Cardinality(publishers \ {p}) = slots - 1
      BY <2>1, FS_RemoveElement
    <2>3. q \notin publishers \ {p}
      BY <1>1
    <2>4. /\ IsFiniteSet((publishers \ {p}) \cup {q})
          /\ Cardinality((publishers \ {p}) \cup {q}) = slots - 1 + 1
      BY <2>2, <2>3, FS_AddElement
    <2>. QED  BY <1>1, <2>1, <2>4 DEF Tokens
  <1>. QED  BY <1>1, <1>5, <1>6, <1>7

LEMMA FetchInv ==
    ASSUME NotifyInv, NEW p \in publishers, Fetch(p)
    PROVE  NotifyInv'
  <1>1. p \in Publisher /\ p.pc = "fetch" /\ p.tries = 0 /\ reached[p.ev] <= p.tries
        /\ p.tries < MaxTryTimes /\ reached[p.ev] <= failed[p.ev]
    BY DEF NotifyInv, NotifyTypeOK, Tried, Fetch
  <1>2. PICK q \in {[p EXCEPT !.pc = "done"], [p EXCEPT !.pc = "publish", !.owner = TRUE],
                    [p EXCEPT !.pc = "publish"]} : Turns(p, q)
    BY DEF Fetch
  <1>3. /\ q \in Publisher /\ q.ev = p.ev /\ q.tries = p.tries /\ q.pc # "fetch"
        /\ UNCHANGED <<slots, reached, failed, jobside, mailing>> /\ p.ev \in Event
    BY <1>1, <1>2 DEF Publisher, Fetch
  <1>4. reached[p.ev] <= MaxTryTimes /\ reached[p.ev] <= 1 + failed[p.ev]
    BY <1>3 DEF NotifyInv, Tried
  <1>5. Fresh' /\ Tried' /\ Tokens' /\ publishers' \subseteq Publisher
    BY <1>1, <1>2, <1>3, <1>4, TurnsInv
  <1>6. NotifyTypeOK'
    BY <1>3, <1>5 DEF NotifyInv, NotifyTypeOK, jobside, mailing
  <1>7. Delivered'
    BY <1>3 DEF NotifyInv, Delivered, Messages, mailing
  <1>. QED  BY <1>5, <1>6, <1>7 DEF NotifyInv

LEMMA MessagesType ==
    ASSUME NotifyTypeOK, NEW e \in Event
    PROVE  /\ Cardinality(OnWire(wire, e)) \in Nat /\ One(got, e) \in Nat
           /\ One(hand, e) \in Nat /\ Cardinality(InMailer(mailers, e)) \in Nat
           /\ mails[e] \in Nat /\ reached[e] \in Nat /\ failed[e] \in Nat
  BY WireFinite, MailerFinite DEF NotifyTypeOK, One

LEMMA PublishInv ==
    ASSUME NotifyInv, NEW p \in publishers, Publish(p)
    PROVE  NotifyInv'
  <1>1. /\ p \in Publisher /\ p.pc = "publish" /\ p.tries \in Nat /\ p.ev \in Event
        /\ reached[p.ev] \in Nat /\ reached[p.ev] <= p.tries /\ p.tries < MaxTryTimes
        /\ failed[p.ev] \in Nat /\ reached[p.ev] <= failed[p.ev]
        /\ UNCHANGED <<slots, jobside, connected, got, hand, mailers, mails>>
    <2>1. /\ p.pc = "publish"
          /\ UNCHANGED <<slots, jobside, connected, got, hand, mailers, mails>>
      BY DEF Publish
    <2>2. p \in Publisher /\ reached \in [Event -> Nat] /\ failed \in [Event -> Nat]
      BY DEF NotifyInv, NotifyTypeOK
    <2>3. p.tries \in Nat /\ p.ev \in Event
      BY <2>2 DEF Publisher
    <2>4. reached[p.ev] <= p.tries /\ p.tries < MaxTryTimes /\ reached[p.ev] <= failed[p.ev]
      BY <2>1 DEF NotifyInv, Tried
    <2>. QED  BY <2>1, <2>2, <2>3, <2>4
  <1>. DEFINE m == [ev |-> p.ev, owner |-> p.owner]
              done == [p EXCEPT !.pc = "done"]
              c == IF p.tries + 1 < MaxTryTimes THEN "publish" ELSE "done"
              again == [p EXCEPT !.tries = p.tries + 1, !.pc = c]
  <1>2. m \in Message /\ m.ev = p.ev
    BY <1>1 DEF Publisher, Message
  <1>3. /\ done \in Publisher /\ done.ev = p.ev /\ done.pc = "done"
        /\ again \in Publisher /\ again.ev = p.ev /\ again.tries = p.tries + 1
        /\ again.pc = IF p.tries + 1 < MaxTryTimes THEN "publish" ELSE "done"
    <2>1. p.tries + 1 \in 0..MaxTryTimes
      BY <1>1
    <2>2. done \in Publisher /\ done.ev = p.ev /\ done.pc = "done"
      BY <1>1 DEF Publisher
    <2>3. c \in {"fetch", "publish", "done"}
      OBVIOUS
    <2>. HIDE DEF c
    <2>4. /\ again \in Publisher /\ again.ev = p.ev /\ again.tries = p.tries + 1
          /\ again.pc = c
      BY <1>1, <2>1, <2>3 DEF Publisher
    <2>. HIDE DEF done, again
    <2>. QED  BY <2>2, <2>4 DEF c
  <1>. DEFINE fails == failed' = [failed EXCEPT ![p.ev] = failed[p.ev] + 1]
  <1>4. \/ Reach(p) /\ Turns(p, done) /\ UNCHANGED failed
        \/ Reach(p) /\ Turns(p, again) /\ fails
        \/ UNCHANGED <<reached, wire>> /\ Turns(p, again) /\ fails
    BY DEF Publish, Fails, Again
  <1>. HIDE DEF done, again
  <1>5. \/ /\ reached' = [reached EXCEPT ![p.ev] = reached[p.ev] + 1]
           /\ wire' \in {wire, Append(wire, m)}
        \/ reached' = reached /\ wire' = wire
    BY <1>4 DEF Reach
  <1>6. reached \in [Event -> Nat] /\ failed \in [Event -> Nat] /\ wire \in Seq(Message)
    BY DEF NotifyInv, NotifyTypeOK
  <1>7. /\ reached' \in [Event -> Nat]
        /\ \A e \in Event : e # p.ev => reached'[e] = reached[e]
        /\ reached'[p.ev] <= p.tries + 1 /\ reached'[p.ev] <= 1 + failed[p.ev]
        /\ reached'[p.ev] \in Nat
    <2>1. CASE reached' = reached
      BY <1>1, <1>6, <2>1
    <2>2. CASE reached' = [reached EXCEPT ![p.ev] = reached[p.ev] + 1]
      <3>1. /\ reached[p.ev] + 1 \in Nat /\ reached[p.ev] + 1 <= p.tries + 1
            /\ reached[p.ev] + 1 <= 1 + failed[p.ev]
        BY <1>1
      <3>. HIDE DEF NotifyInv
      <3>. QED  BY <1>1, <1>6, <2>2, <3>1
    <2>. QED  BY <1>5, <2>1, <2>2
  <1>8. wire' \in Seq(Message)
    <2>1. Append(wire, m) \in Seq(Message)
      BY <1>2, <1>6, AppendProperties
    <2>. QED  BY <1>5, <1>6, <2>1
  <1>9. \/ Turns(p, done) /\ failed' = failed
        \/ Turns(p, again) /\ fails
    BY <1>4
  <1>13. /\ failed' \in [Event -> Nat]
         /\ \A e \in Event : e # p.ev => failed'[e] = failed[e]
         /\ failed'[p.ev] = failed[p.ev] \/ failed'[p.ev] = failed[p.ev] + 1
         /\ fails => failed'[p.ev] = failed[p.ev] + 1
    <2>1. CASE failed' = failed
      <3>1. ~ fails
        <4>1. failed[p.ev] + 1 # failed[p.ev]
          BY <1>1
        <4>. QED  BY <1>1, <1>6, <2>1, <4>1
      <3>. HIDE DEF fails
      <3>. QED  BY <1>6, <2>1, <3>1
    <2>2. CASE fails
      <3>1. failed[p.ev] + 1 \in Nat
        BY <1>1
      <3>. QED  BY <1>1, <1>6, <2>2, <3>1
    <2>. QED  BY <1>9, <2>1, <2>2
  <1>. HIDE DEF fails
  <1>10. Fresh' /\ Tried' /\ Tokens' /\ publishers' \subseteq Publisher
    <2>1. /\ UNCHANGED <<slots, jobside>> /\ reached'[p.ev] <= MaxTryTimes
          /\ reached'[p.ev] <= 1 + failed'[p.ev]
      BY <1>1, <1>7, <1>13
    <2>2. CASE Turns(p, done)
      BY <1>3, <1>7, <1>13, <2>1, <2>2, TurnsInv
    <2>3. CASE Turns(p, again) /\ fails
      <3>1. /\ again.pc # "fetch"
            /\ again.pc # "done" => /\ reached'[again.ev] <= again.tries
                                    /\ again.tries < MaxTryTimes
                                    /\ reached'[again.ev] <= failed'[again.ev]
        BY <1>1, <1>3, <1>7, <1>13, <2>3
      <3>. QED  BY <1>3, <1>7, <1>13, <2>1, <2>3, <3>1, TurnsInv
    <2>. QED  BY <1>9, <2>2, <2>3
  <1>11. NotifyTypeOK'
    BY <1>1, <1>7, <1>8, <1>10, <1>13 DEF NotifyInv, NotifyTypeOK, jobside
  <1>12. Delivered'
    <2>1. ASSUME NEW e \in Event
          PROVE  mails'[e] + Messages(e)' <= reached'[e]
      <3>1. mails[e] + Messages(e) <= reached[e]
        BY DEF NotifyInv, Delivered
      <3>2. Cardinality(OnWire(Append(wire, m), e)) =
              Cardinality(OnWire(wire, e)) + (IF m.ev = e THEN 1 ELSE 0)
        BY <1>2, <1>6, WireAppend
      <3>3. /\ Cardinality(OnWire(wire, e)) \in Nat /\ One(got, e) \in Nat
            /\ One(hand, e) \in Nat /\ Cardinality(InMailer(mailers, e)) \in Nat
            /\ mails[e] \in Nat /\ reached[e] \in Nat
        BY MessagesType DEF NotifyInv
      <3>4. UNCHANGED <<got, hand, mailers, mails>>
        BY <1>1
      <3>. HIDE DEF m
      <3>5. Messages(e)' = Cardinality(OnWire(wire', e)) + One(got, e) + One(hand, e)
                             + Cardinality(InMailer(mailers, e))
        BY <3>4 DEF Messages
      <3>6. CASE /\ reached' = [reached EXCEPT ![p.ev] = reached[p.ev] + 1]
                 /\ wire' \in {wire, Append(wire, m)}
        <4>1. reached'[e] = reached[e] + (IF p.ev = e THEN 1 ELSE 0)
          BY <1>6, <3>6
        <4>2. Cardinality(OnWire(wire', e)) <=
                Cardinality(OnWire(wire, e)) + (IF p.ev = e THEN 1 ELSE 0)
          <5>1. m.ev = e <=> p.ev = e
            BY <1>2
          <5>2. CASE wire' = wire
            BY <3>3, <5>2
          <5>3. CASE wire' = Append(wire, m)
            BY <3>2, <3>3, <5>1, <5>3
          <5>. QED  BY <3>6, <5>2, <5>3
        <4>3. Cardinality(OnWire(wire', e)) \in Nat
          BY <1>8, WireFinite
        <4>. HIDE DEF One, InMailer, OnWire
        <4>. QED  BY <3>1, <3>3, <3>4, <3>5, <4>1, <4>2, <4>3 DEF Messages
      <3>7. CASE reached' = reached /\ wire' = wire
        BY <3>1, <3>4, <3>5, <3>7 DEF Messages
      <3>. QED  BY <1>5, <3>6, <3>7
    <2>. QED  BY <2>1 DEF Delivered
  <1>. QED  BY <1>10, <1>11, <1>12 DEF NotifyInv

LEMMA ReleaseInv ==
    ASSUME NotifyInv, NEW p \in publishers, Release(p)
    PROVE  NotifyInv'
  <1>1. publishers' = publishers \ {p} /\ slots' = slots - 1
        /\ UNCHANGED <<reached, failed, jobside, mailing>>
    BY DEF Release
  <1>2. IsFiniteSet(publishers) /\ slots = Cardinality(publishers)
        /\ Cardinality(publishers) \in Nat
    BY FS_CardinalityType DEF NotifyInv, Tokens
  <1>3. /\ IsFiniteSet(publishers \ {p})
        /\ Cardinality(publishers \ {p}) = Cardinality(publishers) - 1
    BY <1>2, FS_RemoveElement
  <1>4. Cardinality(publishers \ {p}) \in Nat
    BY <1>3, FS_CardinalityType
  <1>5. Tokens' /\ slots' \in 0..MaxPublishers
    BY <1>1, <1>2, <1>3, <1>4 DEF Tokens, NotifyInv, NotifyTypeOK
  <1>6. NotifyTypeOK'
    BY <1>1, <1>5 DEF NotifyInv, NotifyTypeOK, jobside, mailing
  <1>7. Fresh' /\ Tried'
    BY <1>1 DEF NotifyInv, Fresh, Tried, jobside
  <1>8. Delivered'
    BY <1>1 DEF NotifyInv, Delivered, Messages, mailing
  <1>. QED  BY <1>5, <1>6, <1>7, <1>8 DEF NotifyInv

(* The mail handler's side: messages move on, at most one mail of each.    *)
LEMMA MailingInv ==
    ASSUME NotifyInv, UNCHANGED <<jobside, publishing>>,
           connected' \in BOOLEAN, wire' \in Seq(Message),
           got' \in Message \cup {None}, hand' \in Message \cup {None},
           mailers' \in [Mailer -> Message \cup {None}], mails' \in [Event -> Nat],
           \A e \in Event : mails'[e] + Messages(e)' <= mails[e] + Messages(e)
    PROVE  NotifyInv'
  <1>1. NotifyTypeOK'
    BY DEF NotifyInv, NotifyTypeOK, jobside, publishing
  <1>2. Fresh' /\ Tried' /\ Tokens'
    BY DEF NotifyInv, Fresh, Tried, Tokens, jobside, publishing
  <1>3. ASSUME NEW e \in Event
        PROVE  mails'[e] + Messages(e)' <= reached'[e]
    <2>1. mails[e] + Messages(e) <= reached[e] /\ reached' = reached
          /\ mails'[e] + Messages(e)' <= mails[e] + Messages(e)
      BY DEF NotifyInv, Delivered, publishing
    <2>2. mails[e] \in Nat /\ Messages(e) \in Nat /\ reached[e] \in Nat
      BY MessagesType DEF NotifyInv, Messages
    <2>3. mails'[e] \in Nat
      OBVIOUS
    <2>4. Messages(e)' \in Nat
      <3>1. Cardinality(OnWire(wire', e)) \in Nat /\ Cardinality(InMailer(mailers', e)) \in Nat
        BY WireFinite, MailerFinite
      <3>2. One(got', e) \in Nat /\ One(hand', e) \in Nat
        BY DEF One
      <3>3. Messages(e)' = Cardinality(OnWire(wire', e)) + One(got', e) + One(hand', e)
                             + Cardinality(InMailer(mailers', e))
        BY DEF Messages
      <3>. QED  BY <3>1, <3>2, <3>3
    <2>. QED  BY <2>1, <2>2, <2>3, <2>4
  <1>. QED  BY <1>1, <1>2, <1>3 DEF NotifyInv, Delivered

LEMMA ReceiveInv ==
    ASSUME NotifyInv, Receive
    PROVE  NotifyInv'
  <1>1. /\ wire \in Seq(Message) /\ wire # << >> /\ got = None /\ wire' = Tail(wire)
        /\ got' \in {Head(wire), None}
        /\ UNCHANGED <<connected, hand, mailers, mails, jobside, publishing>>
    BY DEF Receive, NotifyInv, NotifyTypeOK
  <1>2. Head(wire) \in Message /\ wire' \in Seq(Message)
    BY <1>1, HeadTailProperties
  <1>3. ASSUME NEW e \in Event
        PROVE  mails'[e] + Messages(e)' <= mails[e] + Messages(e)
    <2>1. Cardinality(OnWire(wire, e)) =
             Cardinality(OnWire(wire', e)) + (IF Head(wire).ev = e THEN 1 ELSE 0)
      BY <1>1, WireTail
    <2>2. Cardinality(OnWire(wire', e)) \in Nat
      BY <1>2, WireFinite
    <2>3. /\ One(got, e) = 0 /\ One(got', e) \in Nat
          /\ One(got', e) <= (IF Head(wire).ev = e THEN 1 ELSE 0)
      BY <1>1 DEF One
    <2>4. /\ One(hand, e) \in Nat /\ Cardinality(InMailer(mailers, e)) \in Nat
          /\ mails[e] \in Nat
      BY MessagesType DEF NotifyInv
    <2>5. /\ mails' = mails
          /\ Messages(e)' = Cardinality(OnWire(wire', e)) + One(got', e) + One(hand, e)
                              + Cardinality(InMailer(mailers, e))
      BY <1>1 DEF Messages
    <2>. HIDE DEF One, OnWire, InMailer
    <2>. QED  BY <2>1, <2>2, <2>3, <2>4, <2>5 DEF Messages
  <1>. QED  BY <1>1, <1>2, <1>3, MailingInv DEF NotifyInv, NotifyTypeOK

LEMMA TakeInv ==
    ASSUME NotifyInv, Take
    PROVE  NotifyInv'
  <1>1. /\ hand = None /\ hand' = got /\ got' = None
        /\ UNCHANGED <<connected, wire, mailers, mails, jobside, publishing>>
    BY DEF Take
  <1>2. ASSUME NEW e \in Event
        PROVE  mails'[e] + Messages(e)' <= mails[e] + Messages(e)
    <2>1. One(hand, e) = 0 /\ One(None, e) = 0
      BY <1>1 DEF One
    <2>2. /\ Cardinality(OnWire(wire, e)) \in Nat /\ One(got, e) \in Nat
          /\ Cardinality(InMailer(mailers, e)) \in Nat /\ mails[e] \in Nat
      BY MessagesType DEF NotifyInv
    <2>3. /\ mails' = mails
          /\ Messages(e)' = Cardinality(OnWire(wire, e)) + One(None, e) + One(got, e)
                              + Cardinality(InMailer(mailers, e))
      BY <1>1 DEF Messages
    <2>. HIDE DEF One, OnWire, InMailer
    <2>. QED  BY <2>1, <2>2, <2>3 DEF Messages
  <1>. QED  BY <1>1, <1>2, MailingInv DEF NotifyInv, NotifyTypeOK

LEMMA StartMailInv ==
    ASSUME NotifyInv, NEW i \in Mailer, StartMail(i)
    PROVE  NotifyInv'
  <1>1. /\ mailers[i] = None /\ mailers' = [mailers EXCEPT ![i] = hand] /\ hand' = None
        /\ mailers \in [Mailer -> Message \cup {None}] /\ hand \in Message \cup {None}
        /\ UNCHANGED <<connected, wire, got, mails, jobside, publishing>>
    BY DEF StartMail, NotifyInv, NotifyTypeOK
  <1>2. mailers' \in [Mailer -> Message \cup {None}]
    BY <1>1
  <1>3. ASSUME NEW e \in Event
        PROVE  mails'[e] + Messages(e)' <= mails[e] + Messages(e)
    <2>1. One(None, e) = 0
      BY DEF One
    <2>2. Cardinality(InMailer(mailers', e)) + One(None, e) =
             Cardinality(InMailer(mailers, e)) + One(hand, e)
      <3>1. mailers'[i] = hand /\ \A j \in Mailer \ {i} : mailers'[j] = mailers[j]
        BY <1>1
      <3>2. Cardinality(InMailer(mailers', e)) + One(mailers[i], e) =
              Cardinality(InMailer(mailers, e)) + One(hand, e)
        BY <3>1, MailerTurns
      <3>. QED  BY <1>1, <3>2
    <2>3. /\ Cardinality(OnWire(wire, e)) \in Nat /\ One(got, e) \in Nat
          /\ One(hand, e) \in Nat /\ Cardinality(InMailer(mailers, e)) \in Nat
          /\ mails[e] \in Nat /\ Cardinality(InMailer(mailers', e)) \in Nat
      BY MessagesType, MailerFinite DEF NotifyInv
    <2>4. /\ mails' = mails
          /\ Messages(e)' = Cardinality(OnWire(wire, e)) + One(got, e) + One(None, e)
                              + Cardinality(InMailer(mailers', e))
      BY <1>1 DEF Messages
    <2>. HIDE DEF One, OnWire, InMailer
    <2>. QED  BY <2>1, <2>2, <2>3, <2>4 DEF Messages
  <1>. QED  BY <1>1, <1>2, <1>3, MailingInv DEF NotifyInv, NotifyTypeOK

LEMMA MailInv ==
    ASSUME NotifyInv, NEW i \in Mailer, Mail(i)
    PROVE  NotifyInv'
  <1>. DEFINE m == mailers[i]
  <1>1. /\ m # None /\ mailers' = [mailers EXCEPT ![i] = None]
        /\ mailers \in [Mailer -> Message \cup {None}] /\ m \in Message
        /\ mails' = [mails EXCEPT ![m.ev] = mails[m.ev] + 1] \/ mails' = mails
        /\ mails \in [Event -> Nat]
        /\ UNCHANGED <<connected, wire, got, hand, jobside, publishing>>
    BY DEF Mail, NotifyInv, NotifyTypeOK
  <1>2. mailers' \in [Mailer -> Message \cup {None}]
    BY <1>1
  <1>3. m.ev \in Event
    BY <1>1 DEF Message
  <1>. HIDE DEF m
  <1>4. /\ mails' \in [Event -> Nat]
        /\ \A e \in Event : mails'[e] <= mails[e] + (IF m.ev = e THEN 1 ELSE 0)
    <2>1. mails[m.ev] + 1 \in Nat /\ \A e \in Event : mails[e] \in Nat
      BY <1>1, <1>3
    <2>2. CASE mails' = mails
      BY <1>1, <2>1, <2>2
    <2>3. CASE mails' = [mails EXCEPT ![m.ev] = mails[m.ev] + 1]
      <3>1. \A e \in Event : mails'[e] = IF m.ev = e THEN mails[e] + 1 ELSE mails[e]
        BY <1>1, <1>3, <2>3
      <3>2. mails' \in [Event -> Nat]
        BY <1>1, <2>1, <2>3
      <3>. QED  BY <2>1, <3>1, <3>2
    <2>. QED  BY <1>1, <2>2, <2>3
  <1>5. ASSUME NEW e \in Event
        PROVE  mails'[e] + Messages(e)' <= mails[e] + Messages(e)
    <2>1. One(None, e) = 0 /\ One(m, e) = IF m.ev = e THEN 1 ELSE 0
      BY <1>1 DEF One
    <2>2. Cardinality(InMailer(mailers', e)) + One(m, e) =
             Cardinality(InMailer(mailers, e)) + One(None, e)
      <3>1. mailers'[i] = None /\ \A j \in Mailer \ {i} : mailers'[j] = mailers[j]
        BY <1>1
      <3>2. Cardinality(InMailer(mailers', e)) + One(mailers[i], e) =
              Cardinality(InMailer(mailers, e)) + One(None, e)
        BY <3>1, MailerTurns
      <3>. QED  BY <1>1, <3>2 DEF m
    <2>3. /\ Cardinality(OnWire(wire, e)) \in Nat /\ One(got, e) \in Nat
          /\ One(hand, e) \in Nat /\ Cardinality(InMailer(mailers, e)) \in Nat
          /\ mails[e] \in Nat /\ Cardinality(InMailer(mailers', e)) \in Nat
      BY MessagesType, MailerFinite DEF NotifyInv
    <2>4. Messages(e)' = Cardinality(OnWire(wire, e)) + One(got, e) + One(hand, e)
                           + Cardinality(InMailer(mailers', e))
      BY <1>1 DEF Messages
    <2>5. mails'[e] \in Nat /\ mails'[e] <= mails[e] + (IF m.ev = e THEN 1 ELSE 0)
      BY <1>4
    <2>. HIDE DEF One, OnWire, InMailer
    <2>. QED  BY <2>1, <2>2, <2>3, <2>4, <2>5 DEF Messages
  <1>. QED  BY <1>1, <1>2, <1>4, <1>5, MailingInv DEF NotifyInv, NotifyTypeOK

LEMMA BreakInv ==
    ASSUME NotifyInv, Break
    PROVE  NotifyInv'
  <1>1. /\ connected' = FALSE /\ wire' = << >>
        /\ UNCHANGED <<got, hand, mailers, mails, jobside, publishing>>
    BY DEF Break
  <1>2. wire' \in Seq(Message) /\ Len(wire') = 0
    BY <1>1, EmptySeq
  <1>3. ASSUME NEW e \in Event
        PROVE  mails'[e] + Messages(e)' <= mails[e] + Messages(e)
    <2>1. OnWire(wire', e) = {}
      BY <1>2 DEF OnWire
    <2>2. Cardinality(OnWire(wire', e)) = 0
      BY <2>1, FS_EmptySet
    <2>3. /\ Cardinality(OnWire(wire, e)) \in Nat /\ One(got, e) \in Nat
          /\ One(hand, e) \in Nat /\ Cardinality(InMailer(mailers, e)) \in Nat
          /\ mails[e] \in Nat
      BY MessagesType DEF NotifyInv
    <2>4. /\ mails' = mails
          /\ Messages(e)' = Cardinality(OnWire(wire', e)) + One(got, e) + One(hand, e)
                              + Cardinality(InMailer(mailers, e))
      BY <1>1 DEF Messages
    <2>. HIDE DEF One, OnWire, InMailer
    <2>. QED  BY <2>2, <2>3, <2>4 DEF Messages
  <1>. QED  BY <1>1, <1>2, <1>3, MailingInv DEF NotifyInv, NotifyTypeOK

LEMMA NotifyInvariant == NotifySpec => []NotifyInv
  <1>1. NotifyInit => NotifyInv
    <2>1. SUFFICES ASSUME NotifyInit PROVE NotifyInv
      OBVIOUS
    <2>2. NotifyTypeOK
      <3>1. /\ locked = FALSE /\ sending = << >> /\ observed = 0
            /\ slots = 0 /\ publishers = {} /\ reached = [e \in Event |-> 0]
            /\ failed = [e \in Event |-> 0]
            /\ connected = TRUE /\ wire = << >> /\ got = None /\ hand = None
            /\ mailers = [i \in Mailer |-> None] /\ mails = [e \in Event |-> 0]
        BY <2>1 DEF NotifyInit
      <3>2. sending \in Seq(Event) /\ wire \in Seq(Message) /\ Len(sending) <= 2
        BY <3>1, EmptySeq
      <3>3. 0 \in 0..MaxPublishers /\ 0 \in 0..MaxCalls
        OBVIOUS
      <3>4. /\ reached \in [Event -> Nat] /\ failed \in [Event -> Nat]
            /\ mails \in [Event -> Nat]
            /\ mailers \in [Mailer -> Message \cup {None}]
        BY <3>1
      <3>. QED  BY <3>1, <3>2, <3>3, <3>4 DEF NotifyTypeOK
    <2>3. Fresh
      BY <2>1 DEF NotifyInit, Fresh
    <2>4. Tried
      BY <2>1 DEF NotifyInit, Tried
    <2>5. Tokens
      BY <2>1, FS_EmptySet DEF NotifyInit, Tokens
    <2>6. ASSUME NEW e \in Event PROVE mails[e] + Messages(e) <= reached[e]
      <3>1. OnWire(wire, e) = {} /\ InMailer(mailers, e) = {}
        BY <2>1 DEF NotifyInit, OnWire, InMailer
      <3>2. One(got, e) = 0 /\ One(hand, e) = 0
        BY <2>1 DEF NotifyInit, One
      <3>3. mails[e] = 0 /\ reached[e] = 0
        BY <2>1 DEF NotifyInit
      <3>. QED  BY <3>1, <3>2, <3>3, FS_EmptySet DEF Messages
    <2>. QED  BY <2>2, <2>3, <2>4, <2>5, <2>6 DEF NotifyInv, Delivered
  <1>2. NotifyInv /\ [NotifyNext]_notifyVars => NotifyInv'
    <2>1. SUFFICES ASSUME NotifyInv, [NotifyNext]_notifyVars PROVE NotifyInv'
      OBVIOUS
    <2>2. CASE Return
      <3>1. /\ sending = << >> /\ locked' = FALSE
            /\ UNCHANGED <<sending, observed, publishing, mailing>>
        BY <2>2 DEF Return
      <3>2. NotifyTypeOK'
        BY <2>1, <3>1 DEF NotifyInv, NotifyTypeOK, publishing, mailing
      <3>3. Fresh' /\ Tried' /\ Tokens'
        BY <2>1, <3>1 DEF NotifyInv, Fresh, Tried, Tokens, publishing
      <3>4. Delivered'
        BY <2>1, <3>1 DEF NotifyInv, Delivered, Messages, publishing, mailing
      <3>. QED  BY <3>2, <3>3, <3>4 DEF NotifyInv
    <2>3. CASE UNCHANGED notifyVars
      BY <2>1, <2>3 DEF notifyVars, NotifyInv, NotifyTypeOK, Fresh, Tried, Tokens,
                        Delivered, Messages, jobside, publishing, mailing
    <2>. QED
      BY <2>1, <2>2, <2>3, ObserveInv, ServeInv, FetchInv, PublishInv, ReleaseInv,
         ReceiveInv, TakeInv, StartMailInv, MailInv, BreakInv DEF NotifyNext
  <1>. QED  BY <1>1, <1>2, PTL DEF NotifySpec

(* Publishers, mailers and what is between them have their types: no more  *)
(* publishers are at work than may be, none tries more often than it may.  *)
THEOREM NotifyTypeCorrect == NotifySpec => []NotifyTypeOK
  <1>1. NotifyInv => NotifyTypeOK
    BY DEF NotifyInv
  <1>. QED  BY <1>1, NotifyInvariant, PTL

(* An event is dropped only while as many publishers as there may be are   *)
(* at work: no way out of a publisher keeps a token.                       *)
THEOREM NoTokenLost == NotifySpec => []TokensAreHeld
  <1>1. NotifyInv => TokensAreHeld
    BY DEF NotifyInv, Tokens, TokensAreHeld
  <1>. QED  BY <1>1, NotifyInvariant, PTL

(* There are no more mails about an event than redis has got it; and redis *)
(* gets it once, and once more for each publication that failed at most.   *)
THEOREM MailsHaveSource == NotifySpec => []MailsArePublished
  <1>1. NotifyInv => MailsArePublished
    <2>1. SUFFICES ASSUME NotifyInv, NEW e \in Event
                   PROVE  /\ mails[e] <= reached[e]
                          /\ reached[e] <= 1 + failed[e] /\ reached[e] <= MaxTryTimes
      BY DEF MailsArePublished
    <2>2. /\ mails[e] + Messages(e) <= reached[e]
          /\ reached[e] <= 1 + failed[e] /\ reached[e] <= MaxTryTimes
      BY <2>1 DEF NotifyInv, Delivered, Tried
    <2>3. mails[e] \in Nat /\ Messages(e) \in Nat /\ reached[e] \in Nat
      BY <2>1, MessagesType DEF NotifyInv, Messages
    <2>. QED  BY <2>2, <2>3
  <1>. QED  BY <1>1, NotifyInvariant, PTL
=============================================================================

------------------------ MODULE TaskLifecycleProofs ------------------------
(***************************************************************************)
(* Theorems about TaskLifecycle, for any set of tasks, with reports at any *)
(* time and any number of reports and restarts.  A dispatched task that is *)
(* in the table always has a timer to remove it, and no nil shadows it.    *)
(*                                                                         *)
(* And whoever takes a task out of the table tells the observers.          *)
(*                                                                         *)
(* Neither is inductive: Order adds where the timer and the table are      *)
(* while AddTask still runs, above all that the timer, started before the  *)
(* task is registered, is still waiting when it is.                        *)
(***************************************************************************)
EXTENDS TaskLifecycle, TLAPS

(* Until AddTask is over the task is not in the table, its timer is not    *)
(* started or waits, and its time stamp is new; whatever *Task is in the   *)
(* table has a row.                                                        *)
Order(t) ==
    /\ disp[t] \in {"idle", "asked", "insert", "watch"} => timer[t] = "none"
    /\ disp[t] \in {"idle", "asked", "insert"} => row[t] = "none"
    /\ disp[t] \in {"watch", "register"} \/ table[t] \in Object
         \/ timer[t] # "none" => row[t] # "none"
    /\ disp[t] = "register" => timer[t] = "waiting"
    /\ disp[t] # "over" => table[t] # "own" /\ ~stale[t]

(* Only a *Task that has a row gets its state set.                         *)
InHand == routine # Waiting => (routine.obj \in Object => row[routine.task] # "none")

IInv ==
    /\ TypeOK /\ InHand
    /\ OwnIsWatched
    /\ NilIsUnknown
    /\ \A t \in Task : Order(t)

USE DEF State, Object, Alive, handlerVars, tableVars, taskVars, bounds

(* The type of the report in hand and of the *Task it is about.            *)
LEMMA RoutineType ==
    ASSUME TypeOK, routine # Waiting
    PROVE  /\ routine.task \in Task
           /\ routine.obj \in Object \cup {"nil"}
           /\ routine.state \in State
           /\ routine \in Report
  BY DEF TypeOK, Report

(* Each step of the system keeps every variable in its type.               *)
LEMMA TypeStep == ASSUME TypeOK, [Next]_vars PROVE TypeOK'
<1> USE LifecycleAssumption DEF TypeOK
<1>1. ASSUME NEW t \in Task, Dispatch(t) \/ Answered(t) \/ AddTaskStep(t)
      PROVE  TypeOK'
  BY <1>1 DEF Dispatch, Answered, AddTaskStep, Insert, StartTimer, Register
<1>2. ASSUME NEW t \in Task, NEW s \in State \ {"IDLE"}, NEW sid \in BOOLEAN,
             GetTask(t, s, sid)
      PROVE  TypeOK'
  <2> DEFINE found == IF table[t] # "absent" THEN table[t]
                      ELSE IF row[t] = "none" THEN "nil" ELSE "loaded"
  <2>1. found \in Object \cup {"nil"}
    OBVIOUS
  <2>2. table' = [table EXCEPT ![t] = found]
    BY <1>2 DEF GetTask
  <2>3. table' \in [Task -> {"absent", "nil"} \cup Object]
    BY <2>1, <2>2
  <2>4. state' \in [Object -> [Task -> State]]
    BY <1>2 DEF GetTask
  <2>5. routine' \in Report
    <3>1. routine' = [pc |-> "set", task |-> t, obj |-> found, state |-> s,
                      sid |-> sid]
      BY <1>2 DEF GetTask
    <3> HIDE DEF found
    <3> QED
      BY <2>1, <3>1 DEF Report
  <2>6. runs' \subseteq Task
    BY <1>2 DEF GetTask
  <2>7. reports' \in 0..MaxReports
    BY <1>2 DEF GetTask
  <2> QED
    BY <1>2, <2>3, <2>4, <2>5, <2>6, <2>7 DEF GetTask
<1>3. CASE SetState
  <2>1. routine.task \in Task /\ routine.obj \in Object \cup {"nil"}
          /\ routine.state \in State /\ routine \in Report
    BY <1>3, RoutineType DEF SetState
  <2>2. routine' \in Report
    BY <1>3, <2>1 DEF SetState, Report
  <2>3. stale' \in [Task -> BOOLEAN]
    BY <1>3, <2>1 DEF SetState
  <2>4. row' \in [Task -> State \cup {"none"}]
    BY <1>3, <2>1 DEF SetState
  <2>5. state' \in [Object -> [Task -> State]]
    <3>1. CASE routine.obj \in Object
      BY <1>3, <2>1, <3>1 DEF SetState
    <3>2. CASE routine.obj \notin Object
      BY <1>3, <3>2 DEF SetState
    <3> QED
      BY <3>1, <3>2
  <2> QED
    BY <1>3, <2>2, <2>3, <2>4, <2>5 DEF SetState
<1>4. CASE Notify
  BY <1>4 DEF Notify
<1>5. CASE Over
  <2>1. routine.task \in Task
    BY <1>5, RoutineType DEF Over
  <2> QED
    BY <1>5, <2>1 DEF Over, delTask, Closed
<1>6. ASSUME NEW t \in Task, Expire(t) \/ Tick(t) \/ Check(t)
      PROVE  TypeOK'
  BY <1>6 DEF Expire, Tick, Check
<1>10. ASSUME NEW t \in Task, Pause(t)
      PROVE  TypeOK'
  BY <1>10 DEF Pause
<1>11. ASSUME NEW t \in Task, TimedOut(t)
      PROVE  TypeOK'
  BY <1>11 DEF TimedOut, delTask
<1>7. CASE Relogin
  BY <1>7 DEF Relogin
<1>8. CASE Restart
  BY <1>8 DEF Restart
<1>9. CASE UNCHANGED vars
  BY <1>9 DEF vars
<1> QED
  BY <1>1, <1>2, <1>3, <1>4, <1>5, <1>6, <1>7, <1>8, <1>9, <1>10, <1>11
     DEF Next, RoutineStep, TimerStep

(* What a step does to one task u: nobody but its own AddTask registers    *)
(* it, and whoever stops its timer has removed it from the table.          *)
LEMMA OrderStep ==
    ASSUME IInv, TypeOK', [Next]_vars
    PROVE  (OwnIsWatched /\ NilIsUnknown /\ \A t \in Task : Order(t))'
<1> SUFFICES ASSUME NEW u \in Task
             PROVE  /\ Order(u)'
                    /\ table'[u] = "own" => timer'[u] \in Alive
                    /\ table'[u] = "nil" => disp'[u] # "over" \/ row'[u] = "none"
  BY DEF OwnIsWatched, NilIsUnknown
<1>0. /\ Order(u) /\ TypeOK
      /\ table[u] = "own" => timer[u] \in Alive
      /\ table[u] = "nil" => disp[u] # "over" \/ row[u] = "none"
  BY DEF IInv, OwnIsWatched, NilIsUnknown
<1> USE <1>0 DEF Order, TypeOK
<1>1. ASSUME NEW t \in Task, Dispatch(t) \/ Answered(t) \/ AddTaskStep(t)
      PROVE  /\ Order(u)'
             /\ table'[u] = "own" => timer'[u] \in Alive
             /\ table'[u] = "nil" => disp'[u] # "over" \/ row'[u] = "none"
  BY <1>1 DEF Dispatch, Answered, AddTaskStep, Insert, StartTimer, Register
<1>2. ASSUME NEW t \in Task, NEW s \in State \ {"IDLE"}, NEW sid \in BOOLEAN,
             GetTask(t, s, sid)
      PROVE  /\ Order(u)'
             /\ table'[u] = "own" => timer'[u] \in Alive
             /\ table'[u] = "nil" => disp'[u] # "over" \/ row'[u] = "none"
  BY <1>2 DEF GetTask
<1>3. CASE SetState
  <2>1. routine.task \in Task /\ routine.obj \in Object \cup {"nil"}
          /\ routine.state \in State
    BY <1>3, RoutineType DEF SetState
  <2>2. routine.obj \in Object => row[routine.task] # "none"
    BY <1>3 DEF IInv, InHand, SetState
  <2>3. row' \in [Task -> State \cup {"none"}]
          /\ (row'[u] = "none" <=> row[u] = "none")
    BY <1>3, <2>1, <2>2 DEF SetState
  <2>4. stale[u] = FALSE => stale'[u] = FALSE
    BY <1>3, <2>1 DEF SetState
  <2>5. UNCHANGED <<disp, table, timer>>
    BY <1>3 DEF SetState
  <2> QED
    BY <2>3, <2>4, <2>5
<1>4. CASE Notify
  BY <1>4 DEF Notify
<1>5. CASE Over
  <2>1. routine.task \in Task
    BY <1>5, RoutineType DEF Over
  <2> QED
    BY <1>5, <2>1 DEF Over, delTask, Closed
<1>6. ASSUME NEW t \in Task, Expire(t) \/ Tick(t) \/ Check(t)
      PROVE  /\ Order(u)'
             /\ table'[u] = "own" => timer'[u] \in Alive
             /\ table'[u] = "nil" => disp'[u] # "over" \/ row'[u] = "none"
  BY <1>6 DEF Expire, Tick, Check
<1>10. ASSUME NEW t \in Task, Pause(t)
      PROVE  /\ Order(u)'
             /\ table'[u] = "own" => timer'[u] \in Alive
             /\ table'[u] = "nil" => disp'[u] # "over" \/ row'[u] = "none"
  BY <1>10 DEF Pause
<1>11. ASSUME NEW t \in Task, TimedOut(t)
      PROVE  /\ Order(u)'
             /\ table'[u] = "own" => timer'[u] \in Alive
             /\ table'[u] = "nil" => disp'[u] # "over" \/ row'[u] = "none"
  BY <1>11 DEF TimedOut, delTask
<1>7. CASE Relogin
  BY <1>7 DEF Relogin
<1>8. CASE Restart
  BY <1>8 DEF Restart
<1>9. CASE UNCHANGED vars
  BY <1>9 DEF vars
<1> QED
  BY <1>1, <1>2, <1>3, <1>4, <1>5, <1>6, <1>7, <1>8, <1>9, <1>10, <1>11
     DEF Next, RoutineStep, TimerStep

(* GetTask takes a *Task in hand only if it is in the table or in the      *)
(* database, and no row is ever deleted.                                   *)
LEMMA InHandStep == ASSUME IInv, TypeOK', [Next]_vars PROVE InHand'
<1> SUFFICES ASSUME routine' # Waiting, routine'.obj \in Object
             PROVE  row'[routine'.task] # "none"
  BY DEF InHand
<1> USE DEF TypeOK
<1>0. TypeOK /\ InHand /\ \A t \in Task : Order(t)
  BY DEF IInv
<1>1. ASSUME NEW t \in Task, NEW s \in State \ {"IDLE"}, NEW sid \in BOOLEAN,
             GetTask(t, s, sid)
      PROVE  row'[routine'.task] # "none"
  <2>1. routine'.task = t /\ UNCHANGED row
    BY <1>1 DEF GetTask
  <2>2. routine'.obj = IF table[t] # "absent" THEN table[t]
                       ELSE IF row[t] = "none" THEN "nil" ELSE "loaded"
    BY <1>1 DEF GetTask
  <2>3. Order(t)
    BY <1>0
  <2> QED
    BY <2>1, <2>2, <2>3 DEF Order
<1>2. ASSUME routine # Waiting, routine'.task = routine.task,
             routine'.obj = routine.obj,
             \A t \in Task : row'[t] = "none" => row[t] = "none"
      PROVE  row'[routine'.task] # "none"
  BY <1>0, <1>2, RoutineType DEF InHand
<1>3. ASSUME NEW t \in Task, Dispatch(t) \/ Answered(t) \/ AddTaskStep(t)
      PROVE  row'[routine'.task] # "none"
  <2>1. UNCHANGED routine /\ \A u \in Task : row'[u] = "none" => row[u] = "none"
    BY <1>0, <1>3 DEF Dispatch, Answered, AddTaskStep, Insert, StartTimer, Register
  <2> QED
    BY <1>2, <2>1
<1>4. CASE SetState
  <2>1. routine # Waiting /\ routine \in Report
    BY <1>0, <1>4, RoutineType DEF SetState
  <2>2. routine'.task = routine.task /\ routine'.obj = routine.obj
    BY <1>4, <2>1 DEF SetState, Report
  <2>3. \A t \in Task : row'[t] = "none" => row[t] = "none"
    BY <1>0, <1>4, RoutineType DEF SetState
  <2> QED
    BY <1>2, <2>1, <2>2, <2>3
<1>5. ASSUME NEW t \in Task, Expire(t) \/ TimerStep(t)
      PROVE  row'[routine'.task] # "none"
  <2>1. UNCHANGED routine /\ \A u \in Task : row'[u] = "none" => row[u] = "none"
    BY <1>0, <1>5 DEF Expire, TimerStep, Tick, Check, Pause, TimedOut, delTask
  <2> QED
    BY <1>2, <2>1
<1>6. CASE Relogin \/ UNCHANGED vars
  BY <1>2, <1>6 DEF Relogin, vars
<1>7. CASE Notify \/ Over \/ Restart
  BY <1>7 DEF Notify, Over, Restart
<1> QED
  BY <1>1, <1>3, <1>4, <1>5, <1>6, <1>7 DEF Next, RoutineStep

LEMMA Invariance == Spec => []IInv
<1>1. Init => IInv
  BY LifecycleAssumption DEF Init, IInv, TypeOK, OwnIsWatched, NilIsUnknown, Order, InHand,
     Waiting
<1>2. IInv /\ [Next]_vars => IInv'
  BY TypeStep, OrderStep, InHandStep DEF IInv
<1> QED
  BY <1>1, <1>2, PTL DEF Spec

(* TypeOK of every reachable state; the counter of the node, which is      *)
(* decremented for tasks it never counted, stays a natural number.         *)
THEOREM TypeCorrect == Spec => []TypeOK
  BY Invariance, PTL DEF IInv

(* startCheckTimer runs before AddTask takes the lock, and close signals   *)
(* are lost: still every dispatched task in the table has a live timer.    *)
THEOREM OwnWatched == Spec => []OwnIsWatched
  BY Invariance, PTL DEF IInv

(* GetTask puts a nil into the table for an unknown id; it is never left   *)
(* in the place of a task that has been registered.                        *)
THEOREM NilUnknown == Spec => []NilIsUnknown
  BY Invariance, PTL DEF IInv

(* The end of a task is told to the observers by whoever takes it out of   *)
(* the table, timer or routine; only AddTask puts an own *Task there, and  *)
(* before it has, by Order, nobody has been told of the task.              *)
LEMMA EndStep == ASSUME IInv, EndIsTold, [Next]_vars PROVE EndIsTold'
<1> SUFFICES ASSUME NEW u \in Task
             PROVE  added'[u] > 0 => added'[u] = 1 /\ table'[u] = "own"
  BY DEF EndIsTold
<1>0. /\ TypeOK /\ Order(u)
      /\ added[u] > 0 => added[u] = 1 /\ table[u] = "own"
  BY DEF IInv, EndIsTold
<1>1. /\ added \in [Task -> Int] /\ table \in [Task -> {"absent", "nil"} \cup Object]
      /\ disp[u] = "register" => table[u] # "own"
  BY <1>0 DEF TypeOK, Order
<1>2. ASSUME NEW t \in Task, delTask(t)
      PROVE  added'[u] > 0 => added'[u] = 1 /\ table'[u] = "own"
  <2>1. CASE table[t] \in Object
    BY <1>0, <1>1, <1>2, <2>1 DEF delTask
  <2>2. CASE table[t] \notin Object
    BY <1>0, <1>1, <1>2, <2>2 DEF delTask
  <2> QED
    BY <2>1, <2>2
<1>3. ASSUME NEW t \in Task,
             Dispatch(t) \/ Answered(t) \/ Insert(t) \/ StartTimer(t) \/ Expire(t)
               \/ Tick(t) \/ Check(t) \/ Pause(t)
      PROVE  UNCHANGED <<added, table>>
  BY <1>3 DEF Dispatch, Answered, Insert, StartTimer, Expire, Tick, Check, Pause
<1>4. ASSUME NEW t \in Task, Register(t)
      PROVE  added'[u] > 0 => added'[u] = 1 /\ table'[u] = "own"
  BY <1>0, <1>1, <1>4 DEF Register
<1>5. ASSUME NEW t \in Task, NEW s \in State \ {"IDLE"}, NEW sid \in BOOLEAN,
             GetTask(t, s, sid)
      PROVE  added'[u] > 0 => added'[u] = 1 /\ table'[u] = "own"
  BY <1>0, <1>1, <1>5 DEF GetTask
<1>6. CASE Over
  <2>1. routine.task \in Task
    BY <1>0, <1>6, RoutineType DEF Over
  <2> QED
    BY <1>2, <1>6, <2>1 DEF Over
<1>7. ASSUME NEW t \in Task, TimedOut(t)
      PROVE  added'[u] > 0 => added'[u] = 1 /\ table'[u] = "own"
  BY <1>2, <1>7 DEF TimedOut
<1>8. CASE SetState \/ Notify \/ Relogin \/ UNCHANGED vars
  BY <1>0, <1>8 DEF SetState, Notify, Relogin, vars
<1>9. CASE Restart
  BY <1>9 DEF Restart
<1> QED
  BY <1>0, <1>3, <1>4, <1>5, <1>6, <1>7, <1>8, <1>9
     DEF Next, AddTaskStep, RoutineStep, TimerStep

(* No observer takes a task for running that has left the table.           *)
THEOREM EndTold == Spec => []EndIsTold
<1>1. Init => EndIsTold
  BY DEF Init, EndIsTold
<1>2. IInv /\ EndIsTold /\ [Next]_vars => EndIsTold'
  BY EndStep
<1> QED
  BY <1>1, <1>2, Invariance, PTL DEF Spec
=============================================================================

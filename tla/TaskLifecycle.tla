--------------------------- MODULE TaskLifecycle ---------------------------
(***************************************************************************)
(* The table of running tasks (transfer/task/task.go) and those who change *)
(* it: the http handler that dispatches a task to a transfer node, the     *)
(* goroutine that reads the reports of the nodes (TaskStateRoutine), and   *)
(* the timer goroutine each dispatched task has.                           *)
(*                                                                         *)
(* A section under TaskManager.lock is one step.  A *Task is either the    *)
(* one the handler made, "own", or one that GetTask read from the          *)
(* database, "loaded"; a nil that GetTask has put into the table is "nil". *)
(* State and database row of a *Task are set in one step.                  *)
(*                                                                         *)
(* All tasks run on one node, so its counter is one number.  The tick of a *)
(* timer and the check of the time stamp are two steps, because the close  *)
(* signal gets lost between them.  Time is a flag: a task is stale when    *)
(* TASK_CACHE_TIMEOUT, 30 seconds, have passed since its last report, and  *)
(* AddTask is assumed to be over by then.                                  *)
(***************************************************************************)
EXTENDS Integers, FiniteSets

CONSTANTS
    Task,
    Late,          \* may the node report on tasks that are not in the table?
    MaxReports,    \* bound: reports of the node
    MaxRestarts    \* bound: restarts of the server

ASSUME LifecycleAssumption ==
    Late \in BOOLEAN /\ MaxReports \in Nat /\ MaxRestarts \in Nat

VARIABLES
    disp,      \* disp[t]: where the handler that dispatches t is
    runs,      \* the tasks that the node runs
    table,     \* TaskManager.tasks
    state,     \* state[o][t]: State of the *Task o of t
    row,       \* row[t]: column state of t, or "none" when there is no row
    stale,     \* stale[t]: the time stamp of the own *Task is too old
    timer,     \* timer[t]: where the timer goroutine of t is
    routine,   \* where TaskStateRoutine is, and with which report
    cnt,       \* the task counter of the node
    added,     \* added[t]: AddTask calls minus DelTask calls on the observers
    reports, restarts

handlerVars == <<disp, runs>>
tableVars == <<table, cnt, added>>
taskVars == <<state, row, stale>>
bounds == <<reports, restarts>>
vars == <<handlerVars, tableVars, taskVars, timer, routine, bounds>>

-----------------------------------------------------------------------------
State == {"IDLE", "DOING", "PAUSE", "DONE"}
Object == {"own", "loaded"}
Waiting == [pc |-> "wait"]
Report == [pc: {"set", "notify"}, task: Task, obj: Object \cup {"nil"},
           state: State, sid: BOOLEAN]
Alive == {"waiting", "checking", "pausing", "deleting"}

TypeOK ==
    /\ disp \in [Task -> {"idle", "asked", "insert", "watch", "register", "over"}]
    /\ runs \subseteq Task
    /\ table \in [Task -> {"absent", "nil"} \cup Object]
    /\ state \in [Object -> [Task -> State]]
    /\ row \in [Task -> State \cup {"none"}]
    /\ stale \in [Task -> BOOLEAN]
    /\ timer \in [Task -> {"none", "gone"} \cup Alive]
    /\ routine \in Report \cup {Waiting}
    /\ cnt \in Nat
    /\ added \in [Task -> Int]
    /\ reports \in 0..MaxReports /\ restarts \in 0..MaxRestarts

Init ==
    /\ disp = [t \in Task |-> "idle"]
    /\ runs = {}
    /\ table = [t \in Task |-> "absent"]
    /\ state = [o \in Object |-> [t \in Task |-> "IDLE"]]
    /\ row = [t \in Task |-> "none"]
    /\ stale = [t \in Task |-> FALSE]
    /\ timer = [t \in Task |-> "none"]
    /\ routine = Waiting
    /\ cnt = 0
    /\ added = [t \in Task |-> 0]
    /\ reports = 0 /\ restarts = 0

-----------------------------------------------------------------------------
(* delTask, under the lock: whatever is registered under the id goes.  The *)
(* close signal only reaches a timer that waits for it, and a loaded *Task *)
(* has none.  AddTaskCnt stops at zero.                                    *)
delTask(t) ==
    /\ table' = [table EXCEPT ![t] = "absent"]
    /\ IF table[t] \in Object
         THEN /\ cnt' = IF cnt > 0 THEN cnt - 1 ELSE 0
              /\ added' = [added EXCEPT ![t] = @ - 1]
         ELSE UNCHANGED <<cnt, added>>

Closed(t) ==
    IF table[t] = "own" /\ timer[t] = "waiting"
      THEN [timer EXCEPT ![t] = "gone"] ELSE timer

-----------------------------------------------------------------------------
(* DispatchUpload and DispatchDownload with AddTask.                       *)

Dispatch(t) ==
    /\ disp[t] = "idle"
    /\ disp' = [disp EXCEPT ![t] = "asked"]
    /\ runs' \in {runs, runs \cup {t}}
    /\ UNCHANGED <<tableVars, taskVars, timer, routine, bounds>>

(* The node accepts the task, and is heard in time or not.                 *)
Answered(t) ==
    /\ disp[t] = "asked"
    /\ \/ t \in runs /\ disp' = [disp EXCEPT ![t] = "insert"]
       \/ disp' = [disp EXCEPT ![t] = "over"]
    /\ UNCHANGED <<runs, tableVars, taskVars, timer, routine, bounds>>

(* AddTask: the counter goes up, without a lock, then the row is created.  *)
Insert(t) ==
    /\ disp[t] = "insert"
    /\ cnt' = cnt + 1
    /\ row' = [row EXCEPT ![t] = "IDLE"]
    /\ disp' = [disp EXCEPT ![t] = "watch"]
    /\ UNCHANGED <<runs, table, added, state, stale, timer, routine, bounds>>

StartTimer(t) ==
    /\ disp[t] = "watch"
    /\ timer' = [timer EXCEPT ![t] = "waiting"]
    /\ disp' = [disp EXCEPT ![t] = "register"]
    /\ UNCHANGED <<runs, tableVars, taskVars, routine, bounds>>

(* Mutant: an id that was reported on before stays unknown.                *)
Register_KeepsNil(t) ==
    /\ disp[t] = "register"
    /\ table' = [table EXCEPT ![t] = IF @ = "nil" THEN @ ELSE "own"]
    /\ added' = [added EXCEPT ![t] = @ + 1]
    /\ disp' = [disp EXCEPT ![t] = "over"]
    /\ UNCHANGED <<runs, cnt, taskVars, timer, routine, bounds>>

(* Under the lock the task replaces what is in the table, and the          *)
(* observers learn of it.                                                  *)
Register(t) ==
    /\ disp[t] = "register"
    /\ table' = [table EXCEPT ![t] = "own"]
    /\ added' = [added EXCEPT ![t] = @ + 1]
    /\ disp' = [disp EXCEPT ![t] = "over"]
    /\ UNCHANGED <<runs, cnt, taskVars, timer, routine, bounds>>

-----------------------------------------------------------------------------
(* TaskStateRoutine with handleTaskState.                                  *)

(* The node reports state s, of a segment or, with its last report, of the *)
(* task; GetTask keeps what it reads, or does not find, in the table.      *)
GetTask(t, s, sid) ==
    LET found == IF table[t] # "absent" THEN table[t]
                 ELSE IF row[t] = "none" THEN "nil" ELSE "loaded"
    IN
    /\ routine = Waiting /\ t \in runs
    /\ Late \/ table[t] = "own"
    /\ reports < MaxReports /\ reports' = reports + 1
    /\ table' = [table EXCEPT ![t] = found]
    /\ state' = IF table[t] = "absent" /\ found = "loaded"
                  THEN [state EXCEPT !["loaded"][t] = row[t]] ELSE state
    /\ routine' = [pc |-> "set", task |-> t, obj |-> found, state |-> s, sid |-> sid]
    /\ runs' = IF sid THEN runs ELSE runs \ {t}
    /\ UNCHANGED <<disp, cnt, added, row, stale, timer, restarts>>

(* The *Task gets a new time stamp and the state of the report.            *)
SetState ==
    LET t == routine.task
        o == routine.obj
    IN
    /\ routine # Waiting /\ routine.pc = "set"
    /\ IF o \in Object
         THEN /\ stale' = IF o = "own" THEN [stale EXCEPT ![t] = FALSE] ELSE stale
              /\ state' = [state EXCEPT ![o][t] = routine.state]
              /\ row' = IF state[o][t] = routine.state
                          THEN row ELSE [row EXCEPT ![t] = routine.state]
         ELSE UNCHANGED taskVars
    /\ routine' = [routine EXCEPT !.pc = "notify"]
    /\ UNCHANGED <<handlerVars, tableVars, timer, bounds>>

(* The observers hear of a segment ...                                     *)
Notify ==
    /\ routine # Waiting /\ routine.pc = "notify" /\ routine.sid
    /\ routine' = Waiting
    /\ UNCHANGED <<handlerVars, tableVars, taskVars, timer, bounds>>

(* Mutant: a task whose *Task was loaded is deleted without the observers. *)
Over_Own ==
    LET t == routine.task IN
    /\ routine # Waiting /\ routine.pc = "notify" /\ ~routine.sid
    /\ IF routine.obj = "own"
         THEN delTask(t) /\ timer' = Closed(t)
         ELSE /\ table' = [table EXCEPT ![t] = "absent"]
              /\ UNCHANGED <<cnt, added, timer>>
    /\ routine' = Waiting
    /\ UNCHANGED <<handlerVars, taskVars, bounds>>

(* ... and a task that is over is deleted.                                 *)
Over ==
    LET t == routine.task IN
    /\ routine # Waiting /\ routine.pc = "notify" /\ ~routine.sid
    /\ delTask(t)
    /\ timer' = Closed(t)
    /\ routine' = Waiting
    /\ UNCHANGED <<handlerVars, taskVars, bounds>>

-----------------------------------------------------------------------------
(* The timer goroutine of a task.                                          *)

Expire(t) ==
    /\ timer[t] \in Alive /\ disp[t] = "over" /\ ~stale[t]
    /\ stale' = [stale EXCEPT ![t] = TRUE]
    /\ UNCHANGED <<handlerVars, tableVars, state, row, timer, routine, bounds>>

Tick(t) ==
    /\ timer[t] = "waiting" /\ stale[t]
    /\ timer' = [timer EXCEPT ![t] = "checking"]
    /\ UNCHANGED <<handlerVars, tableVars, taskVars, routine, bounds>>

(* Mutant: the timer of a task that has ended just quits.                  *)
Check_DoingOnly(t) ==
    /\ timer[t] = "checking"
    /\ timer' = [timer EXCEPT ![t] = IF ~stale[t] THEN "waiting"
                                     ELSE IF state["own"][t] = "DOING" THEN "pausing"
                                     ELSE "gone"]
    /\ UNCHANGED <<handlerVars, tableVars, taskVars, routine, bounds>>

(* Mutant: only a task that is DOING times out.                            *)
Check_Pausable(t) ==
    /\ timer[t] = "checking"
    /\ timer' = [timer EXCEPT ![t] = IF stale[t] /\ state["own"][t] = "DOING"
                                       THEN "pausing" ELSE "waiting"]
    /\ UNCHANGED <<handlerVars, tableVars, taskVars, routine, bounds>>

(* The time stamp is compared, then the state.                             *)
Check(t) ==
    /\ timer[t] = "checking"
    /\ timer' = [timer EXCEPT ![t] = IF ~stale[t] THEN "waiting"
                                     ELSE IF state["own"][t] = "DOING" THEN "pausing"
                                     ELSE "deleting"]
    /\ UNCHANGED <<handlerVars, tableVars, taskVars, routine, bounds>>

Pause(t) ==
    /\ timer[t] = "pausing"
    /\ state' = [state EXCEPT !["own"][t] = "PAUSE"]
    /\ row' = [row EXCEPT ![t] = "PAUSE"]
    /\ timer' = [timer EXCEPT ![t] = "deleting"]
    /\ UNCHANGED <<handlerVars, tableVars, stale, routine, bounds>>

(* DelTask of the id, whoever is registered under it; the timer quits.     *)
TimedOut(t) ==
    /\ timer[t] = "deleting"
    /\ delTask(t)
    /\ timer' = [timer EXCEPT ![t] = "gone"]
    /\ UNCHANGED <<handlerVars, taskVars, routine, bounds>>

-----------------------------------------------------------------------------
(* The node logs in again and counts from zero.                            *)
Relogin ==
    /\ cnt > 0
    /\ cnt' = 0
    /\ UNCHANGED <<handlerVars, table, added, taskVars, timer, routine, bounds>>

(* The server starts again: the rows stay, and what runs on the node.      *)
Restart ==
    /\ restarts < MaxRestarts /\ restarts' = restarts + 1
    /\ disp' = [t \in Task |-> IF disp[t] = "idle" THEN "idle" ELSE "over"]
    /\ table' = [t \in Task |-> "absent"]
    /\ timer' = [t \in Task |-> IF timer[t] = "none" THEN "none" ELSE "gone"]
    /\ routine' = Waiting
    /\ cnt' = 0
    /\ added' = [t \in Task |-> 0]
    /\ UNCHANGED <<runs, taskVars, reports>>

AddTaskStep(t) == Insert(t) \/ StartTimer(t) \/ Register(t)
RoutineStep == SetState \/ Notify \/ Over
TimerStep(t) == Tick(t) \/ Check(t) \/ Pause(t) \/ TimedOut(t)

Next ==
    \/ \E t \in Task :
         \/ Dispatch(t) \/ Answered(t) \/ AddTaskStep(t)
         \/ \E s \in State \ {"IDLE"}, sid \in BOOLEAN : GetTask(t, s, sid)
         \/ Expire(t) \/ TimerStep(t)
    \/ RoutineStep
    \/ Relogin \/ Restart

Spec == Init /\ [][Next]_vars

(* Goroutines that can run do run, and time passes.                        *)
FairSpec ==
    /\ Spec
    /\ WF_vars(RoutineStep)
    /\ \A t \in Task :
         WF_vars(AddTaskStep(t)) /\ WF_vars(TimerStep(t)) /\ WF_vars(Expire(t))

-----------------------------------------------------------------------------
(* A dispatched task that is in the table has a timer that will remove it, *)
(* although close signals get lost, ids are loaded again and entries are   *)
(* replaced: nothing else removes a task whose node went silent.           *)
OwnIsWatched == \A t \in Task : table[t] = "own" => timer[t] \in Alive

(* The nil that a report leaves in the table when it comes before the row  *)
(* never outlives AddTask: isJobsTransferring dereferences every entry.    *)
NilIsUnknown ==
    \A t \in Task : table[t] = "nil" => disp[t] # "over" \/ row[t] = "none"

(* No observer takes a task for running that has left the table: whoever   *)
(* replaced or deleted the entry, its end was told.                        *)
EndIsTold == \A t \in Task : added[t] > 0 => added[t] = 1 /\ table[t] = "own"

(* task_test.go, FakeTaskObserver, whose count is 0 after the end: the     *)
(* observers hear of the end of a task once for each time they heard of    *)
(* its start, whether its timer or its node ends it or both do.            *)
ObserversBalanced ==
    \A t \in Task : added[t] = IF table[t] = "own" THEN 1 ELSE 0

(* A dispatched task leaves the table even if its node is silent.          *)
OwnLeaves == \A t \in Task : table[t] = "own" ~> table[t] # "own"
=============================================================================

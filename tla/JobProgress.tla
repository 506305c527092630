---------------------------- MODULE JobProgress ----------------------------
(***************************************************************************)
(* The progress of one download job (pkg/job.go): its row and the rows of  *)
(* its details, one per file, in the database; the copy in the job cache;  *)
(* and those who change them.  The observer is whoever holds the lock of   *)
(* the task manager and calls AddTask, DelTask or TaskStateNotify.  The    *)
(* http handlers skip a file the client already has, set the progress of a *)
(* file that is resumed, or create the job again.                          *)
(*                                                                         *)
(* JobManager.lock protects a look-up in the cache and nothing after it:   *)
(* an actor works on the object it has found while others work on it or    *)
(* replace it.  GetJob and GetJobDetail of one call are one step here, and *)
(* so are the assignments of one update to a detail.  Of the sizes only    *)
(* the number of finished segments is kept.                                *)
(***************************************************************************)
EXTENDS Integers, FiniteSets

CONSTANTS
    File,        \* the files of the package, none of them empty
    NumSegs,     \* NumSegs[f]: segments of file f
    Handler,     \* http handlers
    Observer,    \* the holder of the lock of the task manager
    Serial,      \* does every actor wait for the others to end?
    Repeats,     \* may clients transfer again what is transferred?
    MaxLoads,    \* bound: job objects made
    MaxReports,  \* bound: calls of the observer and the handlers
    MaxCreates,  \* bound: times the job is created again
    MaxRestarts  \* bound: restarts of the server

ASSUME ProgressAssumption ==
    /\ IsFiniteSet(File) /\ File # {}
    /\ NumSegs \in [File -> Nat \ {0}]
    /\ Observer \notin Handler
    /\ Serial \in BOOLEAN /\ Repeats \in BOOLEAN
    /\ MaxLoads \in Nat /\ MaxReports \in Nat
    /\ MaxCreates \in Nat /\ MaxRestarts \in Nat

VARIABLES
    db,          \* the rows: details, state and finished_times of the job
    objs,        \* objs[i]: the i-th *models.Job that was made
    cache,       \* JobManager.jobs of this job: its object, or 0
    loads,       \* objects made so far
    actor,       \* actor[a]: where the observer or a handler is
    delayed,     \* goroutines that wait to delete the job from the cache
    told,        \* how often the end of the job was published
    tasks,       \* the files for which a task was dispatched
    has,         \* has[f]: segments that were transferred, in truth
    calls, creates, restarts

store == <<db, objs, cache, loads>>
ghosts == <<told, tasks, has>>
bounds == <<calls, creates, restarts>>
vars == <<store, actor, delayed, ghosts, bounds>>

-----------------------------------------------------------------------------
State == {"IDLE", "DOING", "PAUSE", "DONE"}
Detail == [state: State, segs: Nat, started: BOOLEAN]
NewDetail == [state |-> "IDLE", segs |-> 0, started |-> FALSE]
Unfinished(det) == Cardinality({f \in File : det[f].state # "DONE"})

Actor == Handler \cup {Observer}
Idle == [pc |-> "idle", obj |-> 0, file |-> CHOOSE f \in File : TRUE,
         value |-> "none", seen |-> 0]
Row == [det: [File -> Detail], state: State, times: Nat]
NoObj == [det |-> [f \in File |-> NewDetail], state |-> "IDLE", times |-> 0,
          unfinished |-> 0, cached |-> FALSE]

TypeOK ==
    /\ db \in Row
    /\ \A f \in File : db.det[f].segs <= NumSegs[f]     \* old-cdxs-22
    /\ cache \in 0..loads /\ loads \in 0..MaxLoads
    /\ \A i \in 1..MaxLoads :
         /\ objs[i].det \in [File -> Detail] /\ objs[i].unfinished \in Int
         /\ objs[i].times \in Nat /\ objs[i].state \in State
    /\ cache # 0 => objs[cache].cached
    /\ \A a \in Actor : actor[a] = Idle \/ actor[a].obj \in 1..loads
    /\ delayed \in Nat /\ told \in Nat /\ tasks \subseteq File
    /\ \A f \in File : has[f] \in 0..NumSegs[f]
    /\ calls \in 0..MaxReports /\ creates \in 0..MaxCreates
    /\ restarts \in 0..MaxRestarts

Init ==
    /\ db = [det |-> [f \in File |-> NewDetail], state |-> "IDLE", times |-> 0]
    /\ objs = [i \in 1..MaxLoads |-> NoObj]
    /\ cache = 0 /\ loads = 0
    /\ actor = [a \in Actor |-> Idle]
    /\ delayed = 0 /\ told = 0 /\ tasks = {}
    /\ has = [f \in File |-> 0]
    /\ calls = 0 /\ creates = 0 /\ restarts = 0

-----------------------------------------------------------------------------
(* getJob: the cached object, or a new one from the database, which goes   *)
(* into the cache unless all its details are DONE.                         *)
Loaded == [det |-> db.det, state |-> db.state, times |-> db.times,
           unfinished |-> Unfinished(db.det), cached |-> Unfinished(db.det) > 0]

GetJob(a, pc, f, value) ==
    LET i == IF cache # 0 THEN cache ELSE loads + 1 IN
    /\ actor' = [actor EXCEPT ![a] = [pc |-> pc, obj |-> i, file |-> f,
                                      value |-> value, seen |-> 0]]
    /\ IF cache # 0
         THEN UNCHANGED <<objs, cache, loads>>
         ELSE /\ loads < MaxLoads
              /\ loads' = i
              /\ objs' = [objs EXCEPT ![i] = Loaded]
              /\ cache' = IF Loaded.cached THEN i ELSE 0

Goto(a, pc) == actor' = [actor EXCEPT ![a].pc = pc]
End(a) == actor' = [actor EXCEPT ![a] = Idle]

(* A detail of the object of a changes, in memory and in its row.          *)
SaveDetail(a, d) ==
    /\ objs' = [objs EXCEPT ![actor[a].obj].det[actor[a].file] = d]
    /\ db' = [db EXCEPT !.det[actor[a].file] = d]
Mine(a) == objs[actor[a].obj]
MyDetail(a) == Mine(a).det[actor[a].file]

MayStart(a) ==
    /\ actor[a] = Idle /\ calls < MaxReports
    /\ Serial => \A b \in Actor : actor[b] = Idle
    /\ calls' = calls + 1
    /\ UNCHANGED <<creates, restarts>>

(* Nobody transfers a file again whose row is DONE, unless Repeats.        *)
MayTransfer(f) == Repeats \/ db.det[f].state # "DONE"

-----------------------------------------------------------------------------
(* AddTask: a task for n segments of file f was dispatched.                *)
AddTask(f, n) ==
    /\ MayStart(Observer)
    /\ MayTransfer(f)
    /\ Repeats \/ n <= NumSegs[f] - has[f]
    /\ GetJob(Observer, "add", f, IF n = NumSegs[f] THEN "all" ELSE "some")
    /\ tasks' = tasks \cup {f}
    /\ UNCHANGED <<db, delayed, told, has>>

(* Mutant: every task starts its file from nothing, as before issue-50.    *)
ResetDetail_Always ==
    LET a == Observer IN
    /\ actor[a].pc = "add"
    /\ SaveDetail(a, [NewDetail EXCEPT !.started = TRUE])
    /\ Goto(a, "start")
    /\ UNCHANGED <<cache, loads, delayed, ghosts, bounds>>

(* issue-47, issue-50: a task for the whole file starts it from nothing.   *)
ResetDetail ==
    LET a == Observer IN
    /\ actor[a].pc = "add"
    /\ \/ /\ ~MyDetail(a).started \/ actor[a].value = "all"
          /\ SaveDetail(a, [NewDetail EXCEPT !.started = TRUE])
       \/ /\ MyDetail(a).started /\ actor[a].value # "all"
          /\ UNCHANGED <<db, objs>>
    /\ Goto(a, "start")
    /\ UNCHANGED <<cache, loads, delayed, ghosts, bounds>>

StartJob ==
    LET a == Observer IN
    /\ actor[a].pc = "start"
    /\ \/ /\ Mine(a).state = "IDLE"
          /\ objs' = [objs EXCEPT ![actor[a].obj].state = "DOING"]
          /\ db' = [db EXCEPT !.state = "DOING"]
       \/ Mine(a).state # "IDLE" /\ UNCHANGED <<db, objs>>
    /\ End(a)
    /\ UNCHANGED <<cache, loads, delayed, ghosts, bounds>>

(* DelTask of a task that was PAUSEd, by its timer or by its node.         *)
DelTask(f) ==
    /\ MayStart(Observer)
    /\ f \in tasks
    /\ GetJob(Observer, "del", f, "PAUSE")
    /\ UNCHANGED <<db, delayed, ghosts>>

(* cdxs-12: a detail that is DONE is left alone ...                        *)
CheckDone ==
    LET a == Observer IN
    /\ actor[a].pc = "del"
    /\ IF MyDetail(a).state \in {"DONE", "PAUSE"} THEN End(a) ELSE Goto(a, "pause")
    /\ UNCHANGED <<store, delayed, ghosts, bounds>>

(* ... and any other is set to PAUSE.                                      *)
PauseDetail ==
    LET a == Observer IN
    /\ actor[a].pc = "pause"
    /\ SaveDetail(a, [MyDetail(a) EXCEPT !.state = "PAUSE"])
    /\ End(a)
    /\ UNCHANGED <<cache, loads, delayed, ghosts, bounds>>

(* TaskStateNotify of a report that a segment of f is in state s: one that *)
(* was missing, or one that was transferred before.                        *)
Report(f, s) ==
    /\ MayStart(Observer)
    /\ f \in tasks /\ MayTransfer(f)
    /\ GetJob(Observer, "update", f, s)
    /\ \/ /\ s = "DONE" /\ has[f] < NumSegs[f]
          /\ has' = [has EXCEPT ![f] = @ + 1]
       \/ /\ s = "DONE" => Repeats \/ has[f] = NumSegs[f]
          /\ UNCHANGED has
    /\ UNCHANGED <<db, delayed, told, tasks>>

(* Mutant: a segment that ends leaves the state of the file as it is told. *)
Updated_TakesState(f, d, s) ==
    LET more == [d EXCEPT !.segs = IF @ < NumSegs[f] THEN @ + 1 ELSE @] IN
    IF s = "DONE" THEN [more EXCEPT !.state = "DONE"] ELSE [d EXCEPT !.state = s]

(* updateJobDetail: the end of a segment counts, cdxs-14 pauses the file   *)
(* until its next segment, and with its last segment the file is DONE.     *)
Updated(f, d, s) ==
    LET segs == IF s # "DONE" THEN d.segs
                ELSE IF d.segs < NumSegs[f] THEN d.segs + 1 ELSE NumSegs[f]
    IN [d EXCEPT !.segs = segs,
                 !.state = IF segs = NumSegs[f] THEN "DONE"
                           ELSE IF s = "DONE" THEN "PAUSE" ELSE s]

(* The detail changes in memory, and the counter is read if it is DONE.    *)
UpdateDetail ==
    LET a == Observer
        i == actor[a].obj
        f == actor[a].file
        d == Updated(f, MyDetail(a), actor[a].value)
    IN
    /\ actor[a].pc = "update"
    /\ objs' = [objs EXCEPT ![i].det[f] = d]
    /\ actor' = [actor EXCEPT ![a].pc = IF d.state = "DONE" THEN "count" ELSE "save",
                              ![a].seen = objs[i].unfinished]
    /\ UNCHANGED <<db, cache, loads, delayed, ghosts, bounds>>

(* NumUnfinishedDetails--, by the observer and by handlers without a lock. *)
Count(a) ==
    /\ actor[a].pc = "count"
    /\ objs' = [objs EXCEPT ![actor[a].obj].unfinished = actor[a].seen - 1]
    /\ Goto(a, IF a = Observer THEN "save" ELSE "process")
    /\ UNCHANGED <<db, cache, loads, delayed, ghosts, bounds>>

Save ==
    LET a == Observer IN
    /\ actor[a].pc = "save"
    /\ SaveDetail(a, MyDetail(a))
    /\ Goto(a, "process")
    /\ UNCHANGED <<cache, loads, delayed, ghosts, bounds>>

-----------------------------------------------------------------------------
(* A handler: the client says that it has file f.                          *)
Skip(h, f) ==
    /\ MayStart(h)
    /\ MayTransfer(f)
    /\ GetJob(h, "skip", f, "none")
    /\ has' = [has EXCEPT ![f] = NumSegs[f]]
    /\ UNCHANGED <<db, delayed, told, tasks>>

SkipDetail(h) ==
    LET f == actor[h].file IN
    /\ actor[h].pc = "skip"
    /\ SaveDetail(h, [state |-> "DONE", segs |-> NumSegs[f], started |-> TRUE])
    /\ actor' = [actor EXCEPT ![h].pc = IF Mine(h).cached THEN "count" ELSE "process",
                              ![h].seen = Mine(h).unfinished]
    /\ UNCHANGED <<cache, loads, delayed, ghosts, bounds>>

(* A handler: the client says how many segments of f it has, none of them  *)
(* when it starts over, and asks for the others (UpdateJobDetailProcess).  *)
Resume(h, f) ==
    /\ MayStart(h)
    /\ MayTransfer(f)
    /\ has[f] < NumSegs[f] \/ Repeats
    /\ GetJob(h, "resume", f, "none")
    /\ has' \in {has, [has EXCEPT ![f] = 0]}
    /\ UNCHANGED <<db, delayed, told, tasks>>

ResumeDetail(h) ==
    /\ actor[h].pc = "resume"
    /\ SaveDetail(h, [MyDetail(h) EXCEPT !.segs = has[actor[h].file]])
    /\ End(h)
    /\ UNCHANGED <<cache, loads, delayed, ghosts, bounds>>

(* Mutant: the object with the old progress stays in the cache.            *)
Recreate_KeepsCache(h) ==
    /\ actor[h] = Idle /\ creates < MaxCreates
    /\ Serial => \A b \in Actor : actor[b] = Idle
    /\ db' = [db EXCEPT !.det = [f \in File |-> NewDetail]]
    /\ creates' = creates + 1
    /\ UNCHANGED <<objs, cache, loads, actor, delayed, ghosts, calls, restarts>>

(* A handler: CreateJob of the job that exists resets its details and      *)
(* drops its object from the cache, all under the lock.                    *)
Recreate(h) ==
    /\ actor[h] = Idle /\ creates < MaxCreates
    /\ Serial => \A b \in Actor : actor[b] = Idle
    /\ db' = [db EXCEPT !.det = [f \in File |-> NewDetail]]
    /\ cache' = 0
    /\ creates' = creates + 1
    /\ UNCHANGED <<objs, loads, actor, delayed, ghosts, calls, restarts>>

-----------------------------------------------------------------------------
(* ProcessJob, for the observer and for handlers.                          *)

(* Mutant: a job finishes with its last but one file.                      *)
JobFinished_OffByOne(o) ==
    IF o.cached THEN o.unfinished <= 1 ELSE Unfinished(db.det) = 0

(* isJobFinished: the counter of an object that was cached, otherwise the  *)
(* database.                                                               *)
JobFinished(o) == IF o.cached THEN o.unfinished <= 0 ELSE Unfinished(db.det) = 0

ProcessJob(a) ==
    /\ actor[a].pc = "process"
    /\ GetJob(a, "finish", actor[a].file, "none")
    /\ UNCHANGED <<db, delayed, ghosts, bounds>>

Finish(a) ==
    LET i == actor[a].obj IN
    /\ actor[a].pc = "finish"
    /\ \/ /\ JobFinished(objs[i])
          /\ objs' = [objs EXCEPT ![i].times = @ + 1, ![i].state = "DONE"]
          /\ db' = [db EXCEPT !.times = objs[i].times + 1, !.state = "DONE"]
          /\ delayed' = delayed + 1
          /\ Goto(a, "notify")
       \/ /\ ~JobFinished(objs[i])
          /\ End(a)
          /\ UNCHANGED <<db, objs, delayed>>
    /\ UNCHANGED <<cache, loads, ghosts, bounds>>

(* Mutant: every end of the job is published, as before cdxs-13.           *)
NotifyFinish_Always(a) ==
    /\ actor[a].pc = "notify"
    /\ told' = told + 1
    /\ End(a)
    /\ UNCHANGED <<store, delayed, tasks, has, bounds>>

(* OnJobFinish; cdxs-13: only the first end of the job is published.       *)
NotifyFinish(a) ==
    /\ actor[a].pc = "notify"
    /\ told' = IF Mine(a).times > 1 THEN told ELSE told + 1
    /\ End(a)
    /\ UNCHANGED <<store, delayed, tasks, has, bounds>>

(* Twenty seconds later the object leaves the cache, whichever it is.      *)
DropCache ==
    /\ delayed > 0
    /\ delayed' = delayed - 1
    /\ cache' = 0
    /\ UNCHANGED <<db, objs, loads, actor, ghosts, bounds>>

(* The server stops anywhere and starts again: what was in memory is gone. *)
Stop ==
    /\ restarts < MaxRestarts
    /\ restarts' = restarts + 1
    /\ cache' = 0 /\ delayed' = 0
    /\ actor' = [a \in Actor |-> Idle]
    /\ UNCHANGED <<objs, loads, ghosts, calls, creates>>

(* Mutant: a job that had all its details is not finished at the start.    *)
Restart_NoSync ==
    /\ Stop
    /\ db' = [db EXCEPT !.det = [f \in File |-> [db.det[f] EXCEPT !.state =
                                     IF @ = "DOING" THEN "PAUSE" ELSE @]]]

(* Mutant: every detail that has started is paused at the start.           *)
Restart_PausesAll ==
    /\ Stop
    /\ LET over == Unfinished(db.det) = 0 /\ db.times = 0 IN
       db' = [det |-> [f \in File |-> [db.det[f] EXCEPT !.state =
                                           IF @ # "IDLE" THEN "PAUSE" ELSE @]],
              state |-> IF over THEN "DONE" ELSE db.state,
              times |-> IF over THEN 1 ELSE db.times]

(* JobsSyncState: a job whose details are all DONE and that never finished *)
(* is finished now; no detail is left DOING.                               *)
Restart ==
    /\ Stop
    /\ LET over == Unfinished(db.det) = 0 /\ db.times = 0 IN
       db' = [det |-> [f \in File |-> [db.det[f] EXCEPT !.state =
                                           IF @ = "DOING" THEN "PAUSE" ELSE @]],
              state |-> IF over THEN "DONE" ELSE db.state,
              times |-> IF over THEN 1 ELSE db.times]

-----------------------------------------------------------------------------
Next ==
    \/ \E f \in File : \E n \in 1..NumSegs[f] : AddTask(f, n)
    \/ ResetDetail \/ StartJob
    \/ \E f \in File : DelTask(f)
    \/ CheckDone \/ PauseDetail
    \/ \E f \in File, s \in {"DOING", "PAUSE", "DONE"} : Report(f, s)
    \/ UpdateDetail \/ Save
    \/ \E h \in Handler, f \in File : Skip(h, f) \/ Resume(h, f)
    \/ \E h \in Handler : SkipDetail(h) \/ ResumeDetail(h) \/ Recreate(h)
    \/ \E a \in Actor : Count(a) \/ ProcessJob(a) \/ Finish(a) \/ NotifyFinish(a)
    \/ DropCache \/ Restart

Spec == Init /\ [][Next]_vars

-----------------------------------------------------------------------------
Quiet == \A a \in Actor : actor[a] = Idle

(* A file whose row is DONE was transferred, every segment of it: the      *)
(* comment of DelTask wants "all segs completed" for that, but the code    *)
(* counts reports, not segments.  A restart may lose the news that a       *)
(* client starts over with a file.                                         *)
DoneIsComplete ==
    restarts = 0 =>
        \A f \in File : db.det[f].state = "DONE" => has[f] = NumSegs[f]

(* When nobody works on the job, the object in the cache agrees with the   *)
(* rows, and its counter, which alone decides whether the job is finished, *)
(* is the number of details that are not DONE.                             *)
CacheIsExact ==
    Quiet /\ cache # 0 =>
        /\ objs[cache].det = db.det
        /\ objs[cache].unfinished = Unfinished(db.det)

(* When nobody works on a job whose rows are all DONE, its own row is DONE *)
(* and was counted, also after a crash between the last detail and the     *)
(* row of the job.                                                         *)
AllDoneIsFinished ==
    Quiet /\ Unfinished(db.det) = 0 => db.state = "DONE" /\ db.times > 0

(* A job that has finished once or more was published as finished once,    *)
(* and never twice; only a restart makes it miss its publication.          *)
NotifiedOnce ==
    told <= 1 /\ (Quiet /\ db.times > 0 /\ restarts = 0 => told = 1)

(* ProcessJob finishes a job only when the rows of all its files are DONE. *)
FinishIsDeserved ==
    [][db'.times > db.times => Unfinished(db'.det) = 0]_vars

(* cdxs-12: the end of a task that was PAUSEd does not change a file that  *)
(* is DONE.                                                                *)
DoneIsNotPaused ==
    [][\A f \in File : db.det[f].state = "DONE" => db'.det[f].state # "PAUSE"]_vars

(* old-cdxs-24: when the client goes on with a file, the segments it says  *)
(* it has still count after the task for the others has started.           *)
ResumeKeepsProgress ==
    [][\A f \in File : actor[Observer].value = "some" =>
                           db'.det[f].segs >= db.det[f].segs]_vars

(* What ResumeKeepsProgress says is true as long as nobody has created the *)
(* job again and no crash has come between a task and the reset of its     *)
(* file: then a file that has segments has started.                        *)
ProgressIsKept ==
    [][\A f \in File :
          creates = 0 /\ restarts = 0 /\ actor[Observer].value = "some" =>
              db'.det[f].segs >= db.det[f].segs]_vars

(* job_test.go, "task self interrupted": a detail is PAUSEd when DelTask   *)
(* is over, whatever it was before.                                        *)
InterruptPauses ==
    [][actor[Observer].value = "PAUSE" /\ actor[Observer].pc \in {"del", "pause"}
         /\ actor'[Observer].pc = "idle" /\ restarts' = restarts
       => db'.det[actor[Observer].file].state = "PAUSE"]_vars
=============================================================================

--------------------------- MODULE PackageRemoval ---------------------------
(***************************************************************************)
(* How a package is removed (controllers/pkg.go): its owner, or an         *)
(* administrator, deletes it alone or in a list; the upload job is marked, *)
(* the download jobs are deleted, and in the background every file is      *)
(* removed from its node, after which the mark says so.  Meanwhile clients *)
(* transfer files of the package, receivers are added and removed, the     *)
(* node is lost and found, statements of the database fail, and the server *)
(* restarts.                                                               *)
(*                                                                         *)
(* One package, whose files are on one node.  A transfer is of a file, by  *)
(* the owner (an upload) or by a receiver (a download).  That a node acts  *)
(* on a request which the server has given up is left out for removals and *)
(* stops; a transfer that it begins like that is "lost".                   *)
(*                                                                         *)
(* RemovalInit, RemovalNext and so on, because the theorems about this and *)
(* about PendingRequests are in one module, PendingRequestsProofs.         *)
(***************************************************************************)
EXTENDS Naturals, FiniteSets

CONSTANTS
    File,
    Empty,          \* the files of size zero, which are never transferred
    Owner, User,    \* User: who can be a receiver
    Remover,        \* delete requests at a time
    Kinds,          \* "one": PkgController.Delete, "bulk": PkgsController
    MaxTransfers,   \* bound: transfers
    MaxRemovals,    \* bound: delete requests
    MaxTroubles     \* bound: restarts of the server, and statements of
                    \* deleteJob and freePkgSpace that the database fails

ASSUME RemovalAssumption ==
    /\ Empty \subseteq File /\ Owner \notin User
    /\ Kinds \subseteq {"one", "bulk"}
    /\ MaxTransfers \in Nat /\ MaxRemovals \in Nat /\ MaxTroubles \in Nat

VARIABLES
    mark,       \* soft_del of the upload job: 1 marked, 2 files removed
    jobs,       \* users with a row of a download job
    stored,     \* files with a storage in their row
    task,       \* task[w][f]: a transfer, from the request to its end
    known,      \* TaskManager.tasks
    stopping,   \* tasks which a goroutine is about to ask to stop
    remover,    \* remover[r]: a delete request and its goroutines
    up,         \* is the node online?
    data,       \* files of which the node has something
    missed,     \* history: files on the node that the last removal left there
    rewritten,  \* history: files written while the package was removed
    late,       \* history: receivers added while the package was removed
    kept,       \* history: receivers that a removal failed to delete
    undone,     \* history: restarts, and last marks that were not written
    transfers, removals, troubles

server == <<mark, jobs, stored, known, stopping, remover>>
history == <<missed, rewritten, late, kept, undone>>
bounds == <<transfers, removals, troubles>>
removalVars == <<server, task, up, data, history, bounds>>

-----------------------------------------------------------------------------
Who == User \cup {Owner}
TaskState == {"none", "asked", "taken", "added", "running", "lost"}
OnNode == {"taken", "added", "running", "lost"}

Idle == [pc |-> "idle", kind |-> "one", list |-> {},
         file |-> [f \in File |-> "todo"]]

RemovalTypeOK ==
    /\ mark \in 0..2 /\ jobs \subseteq User /\ stored \subseteq File
    /\ task \in [Who -> [File -> TaskState]]
    /\ known \subseteq Who \X File /\ stopping \subseteq Who \X File
    /\ remover \in [Remover ->
           [pc: {"idle", "stop", "mark", "list", "delete", "free"},
            kind: {"one", "bulk"}, list: SUBSET User,
            file: [File -> {"todo", "sent", "hung", "done"}]]]
    /\ up \in BOOLEAN /\ data \subseteq File
    /\ missed \subseteq File /\ rewritten \subseteq File
    /\ late \subseteq User /\ kept \subseteq User /\ undone \in Nat
    /\ transfers \in 0..MaxTransfers /\ removals \in 0..MaxRemovals
    /\ troubles \in 0..MaxTroubles

(* A package of which some files have been uploaded before, or none.       *)
RemovalInit ==
    /\ mark = 0 /\ jobs = {}
    /\ stored \in SUBSET (File \ Empty) /\ data = stored
    /\ task = [w \in Who |-> [f \in File |-> "none"]]
    /\ known = {} /\ stopping = {}
    /\ remover = [r \in Remover |-> Idle]
    /\ up = TRUE /\ missed = {} /\ rewritten = {} /\ late = {} /\ kept = {}
    /\ undone = 0 /\ transfers = 0 /\ removals = 0 /\ troubles = 0

-----------------------------------------------------------------------------
(* A delete request                                                        *)

Goto(r, pc) == remover' = [remover EXCEPT ![r].pc = pc]
At(r, pc) == remover[r].pc = pc
Elsewhere == <<task, up, data, rewritten, transfers>>
NotRemoving == <<Elsewhere, missed, late, kept, undone, troubles>>

(* A statement of the database fails.                                      *)
Fails == troubles < MaxTroubles /\ troubles' = troubles + 1

(* The package is marked, or should have been.                             *)
Marked == mark # 0 \/ \E r \in Remover : remover[r].pc \in {"list", "delete", "free"}

(* The row of a download job goes.                                         *)
NoRow(u) == jobs' = jobs \ {u} /\ late' = late \ {u} /\ kept' = kept \ {u}

(* The rows of tasks that may still run, by the job of u.                  *)
Tasks(u) == {t \in {u} \X File : task[u][t[2]] \in {"added", "running"}}

Delete(r) ==
    /\ At(r, "idle") /\ removals < MaxRemovals /\ removals' = removals + 1
    /\ \E k \in Kinds :
          remover' = [remover EXCEPT ![r].pc = "stop", ![r].kind = k]
    /\ UNCHANGED <<mark, jobs, stored, known, stopping, NotRemoving>>

(* PkgsController: a package with a task is left alone.                    *)
Check(r) ==
    /\ At(r, "stop") /\ remover[r].kind = "bulk"
    /\ IF known # {} THEN Goto(r, "idle") ELSE Goto(r, "mark")
    /\ UNCHANGED <<mark, jobs, stored, known, stopping, removals, NotRemoving>>

(* PkgController: TaskMgr.StopTasks of the upload job.                     *)
Stop(r) ==
    /\ At(r, "stop") /\ remover[r].kind = "one"
    /\ stopping' = stopping \cup Tasks(Owner)
    /\ Goto(r, "mark")
    /\ UNCHANGED <<mark, jobs, stored, known, removals, NotRemoving>>

(* deleteJob: the upload job is marked, or nobody looks at the error ...   *)
Mark(r) ==
    /\ At(r, "mark")
    /\ \/ mark' = 1 /\ UNCHANGED troubles
       \/ Fails /\ UNCHANGED mark
    /\ remover' = [remover EXCEPT ![r].pc = "list", ![r].kind = "one"]
    /\ UNCHANGED <<jobs, stored, known, stopping, removals, Elsewhere, missed,
                   late, kept, undone>>

(* ... the download jobs are listed, or none of them ...                   *)
List(r) ==
    /\ At(r, "list")
    /\ \E found \in {jobs, {}} :
          /\ remover' = [remover EXCEPT ![r].pc = "delete", ![r].list = found]
          /\ IF found = jobs THEN UNCHANGED <<kept, troubles>>
                             ELSE Fails /\ kept' = jobs
    /\ UNCHANGED <<mark, jobs, stored, known, stopping, removals, Elsewhere,
                   missed, late, undone>>

(* ... and deleted one by one; one that cannot be deleted is passed over.  *)
DeleteJob(r) ==
    /\ At(r, "delete")
    /\ \E u \in remover[r].list :
          /\ remover' = [remover EXCEPT ![r].list = @ \ {u}]
          /\ \/ NoRow(u) /\ UNCHANGED troubles
             \/ /\ Fails /\ kept' = kept \cup (jobs \cap {u})
                /\ UNCHANGED <<jobs, late>>
    /\ UNCHANGED <<mark, stored, known, stopping, removals, Elsewhere, missed,
                   undone>>

(* Mutant: the files are removed while download jobs are being deleted.    *)
Launch_Early(r) ==
    /\ At(r, "delete")
    /\ remover' = [remover EXCEPT ![r].pc = "free"]
    /\ UNCHANGED <<mark, jobs, stored, known, stopping, removals, NotRemoving>>

(* freePkgSpace: the goroutines of the files begin.                        *)
Launch(r) ==
    /\ At(r, "delete") /\ remover[r].list = {}
    /\ Goto(r, "free")
    /\ UNCHANGED <<mark, jobs, stored, known, stopping, removals, NotRemoving>>

(* Its files cannot be read: there is nothing to wait for.                 *)
LaunchNone(r) ==
    /\ At(r, "delete") /\ remover[r].list = {} /\ Fails
    /\ remover' = [remover EXCEPT ![r].pc = "free",
                                  ![r].file = [f \in File |-> "done"]]
    /\ missed' = data
    /\ UNCHANGED <<mark, jobs, stored, known, stopping, removals, Elsewhere,
                   late, kept, undone>>

Sees(r, f, from, to) ==
    /\ At(r, "free") /\ remover[r].file[f] \in from
    /\ remover' = [remover EXCEPT ![r].file[f] = to]
    /\ UNCHANGED <<mark, jobs, stored, known, stopping, task, up, late, kept,
                   undone, bounds>>

(* Mutant: the goroutine of a file without a node does not answer.         *)
Skip_Silent(r, f) ==
    /\ f \in Empty
    /\ Sees(r, f, {"todo"}, "done")
    /\ UNCHANGED <<data, missed, rewritten>>

(* There is nothing to remove, or no node is found for the storage.        *)
Skip(r, f) ==
    /\ f \in Empty \/ f \notin stored \/ ~up
    /\ Sees(r, f, {"todo"}, "done")
    /\ missed' = missed \cup (data \cap {f})
    /\ UNCHANGED <<data, rewritten>>

(* The node is found and sent a removefile request.                        *)
SendRemove(r, f) ==
    /\ f \notin Empty /\ f \in stored /\ up
    /\ Sees(r, f, {"todo"}, "sent")
    /\ UNCHANGED <<data, missed, rewritten>>

Removed(r, f) ==
    /\ up /\ Sees(r, f, {"sent"}, "done")
    /\ data' = data \ {f}
    /\ missed' = missed \ {f} /\ rewritten' = rewritten \ {f}

(* Five seconds pass, the connection is lost, or the node answers that it  *)
(* has not removed the file: nobody reads the code of its answer.          *)
NotRemoved(r, f) ==
    /\ Sees(r, f, {"sent"}, "done")
    /\ missed' = missed \cup (data \cap {f})
    /\ UNCHANGED <<data, rewritten>>

(* The goroutine waits for ever for a lock which is not given back: that   *)
(* of the requests of a connection (node.go:499), after a node that answers*)
(* twice or a panic in Close, or that of the registry of nodes.            *)
Hangs(r, f) ==
    /\ f \notin Empty /\ Sees(r, f, {"todo", "sent"}, "hung")
    /\ UNCHANGED <<data, missed, rewritten>>

(* Mutant: nobody waits for the goroutines.                                *)
Finish_AtOnce(r) ==
    /\ At(r, "free")
    /\ mark' = 2
    /\ remover' = [remover EXCEPT ![r] = Idle]
    /\ UNCHANGED <<jobs, stored, known, stopping, removals, NotRemoving>>

(* One answer of each goroutine has come; nobody looks whether the mark is *)
(* written.                                                                *)
Finish(r) ==
    /\ At(r, "free") /\ \A f \in File : remover[r].file[f] = "done"
    /\ \/ mark' = 2 /\ UNCHANGED <<undone, troubles>>
       \/ Fails /\ undone' = undone + 1 /\ UNCHANGED mark
    /\ remover' = [remover EXCEPT ![r] = Idle]
    /\ UNCHANGED <<jobs, stored, known, stopping, removals, Elsewhere, missed,
                   late, kept>>

-----------------------------------------------------------------------------
(* Transfers                                                               *)

Moves(w, f, from, to) ==
    /\ task[w][f] \in from
    /\ task' = [task EXCEPT ![w][f] = to]
NotMoving == <<mark, jobs, remover, up, missed, late, kept, undone, removals,
               troubles>>

(* A transfer is dispatched.  The upload job of a removed package is still *)
(* found (models.GetJob), for a download it must not be marked.            *)
Ask(w, f) ==
    /\ transfers < MaxTransfers /\ transfers' = transfers + 1
    /\ f \notin Empty /\ up
    /\ \/ w = Owner
       \/ w \in jobs /\ mark = 0 /\ f \in stored
    /\ Moves(w, f, {"none"}, "asked")
    /\ UNCHANGED <<stored, known, stopping, data, rewritten, NotMoving>>

Writes(f) ==
    /\ data' = data \cup {f}
    /\ rewritten' = IF Marked THEN rewritten \cup {f} ELSE rewritten

(* The node begins.                                                        *)
Take(w, f) ==
    /\ up /\ Moves(w, f, {"asked"}, "taken")
    /\ IF w = Owner THEN Writes(f) ELSE f \in data /\ UNCHANGED <<data, rewritten>>
    /\ UNCHANGED <<stored, known, stopping, transfers, NotMoving>>

(* The server gives up.                                                    *)
GiveUp(w, f) ==
    /\ Moves(w, f, {"asked"}, "none") \/ Moves(w, f, {"taken"}, "lost")
    /\ UNCHANGED <<stored, known, stopping, data, rewritten, transfers, NotMoving>>

(* TaskMgr.AddTask                                                         *)
AddTask(w, f) ==
    /\ Moves(w, f, {"taken"}, "added")
    /\ known' = known \cup {<<w, f>>}
    /\ UNCHANGED <<stored, stopping, data, rewritten, transfers, NotMoving>>

(* The handler of an upload writes the storage into the row of the file.   *)
SetStorage(w, f) ==
    /\ Moves(w, f, {"added"}, "running")
    /\ stored' = IF w = Owner THEN stored \cup {f} ELSE stored
    /\ UNCHANGED <<known, stopping, data, rewritten, transfers, NotMoving>>

(* The upload goes on, also if the file has been removed.                  *)
Write(f) ==
    /\ task[Owner][f] \in OnNode /\ f \notin data /\ Writes(f)
    /\ UNCHANGED <<task, stored, known, stopping, transfers, NotMoving>>

(* The transfer ends, is interrupted or times out.                         *)
End(w, f) ==
    /\ Moves(w, f, {"running", "lost"}, "none")
    /\ known' = known \ {<<w, f>>}
    /\ UNCHANGED <<stored, stopping, data, rewritten, transfers, NotMoving>>

(* Task.Stop: the node is asked to, and does or does not.                  *)
Stopped(w, f) ==
    /\ <<w, f>> \in stopping /\ stopping' = stopping \ {<<w, f>>}
    /\ \/ /\ up /\ Moves(w, f, {"running"}, "none")
          /\ known' = known \ {<<w, f>>}
       \/ UNCHANGED <<task, known>>
    /\ UNCHANGED <<stored, data, rewritten, transfers, NotMoving>>

(* After a restart the first report of a task makes it known again.        *)
Report(w, f) ==
    /\ up /\ task[w][f] = "running" /\ <<w, f>> \notin known
    /\ known' = known \cup {<<w, f>>}
    /\ UNCHANGED <<task, stored, stopping, data, rewritten, transfers, NotMoving>>

-----------------------------------------------------------------------------
(* Receivers, the node and the server                                      *)

(* PkgController.Put with a user to add.                                   *)
AddReceiver(u) ==
    /\ u \notin jobs /\ jobs' = jobs \cup {u}
    /\ late' = IF Marked THEN late \cup {u} ELSE late
    /\ UNCHANGED <<mark, stored, task, known, stopping, remover, up, data,
                   missed, rewritten, kept, undone, bounds>>

(* PkgController.Put with a user to remove.                                *)
RemoveReceiver(u) ==
    /\ u \in jobs /\ NoRow(u)
    /\ stopping' = stopping \cup Tasks(u)
    /\ UNCHANGED <<mark, stored, task, known, remover, up, data, missed,
                   rewritten, undone, bounds>>

NodeGoes ==
    /\ up /\ up' = FALSE
    /\ UNCHANGED <<server, task, data, history, bounds>>

NodeComes ==
    /\ ~up /\ up' = TRUE
    /\ UNCHANGED <<server, task, data, history, bounds>>

(* What goroutines were about to do is forgotten, the node goes on.        *)
Restart ==
    /\ troubles < MaxTroubles /\ troubles' = troubles + 1
    /\ undone' = undone + 1
    /\ known' = {} /\ stopping' = {}
    /\ remover' = [r \in Remover |-> Idle]
    /\ task' = [w \in Who |-> [f \in File |->
                  CASE task[w][f] = "asked" -> "none"
                    [] task[w][f] = "taken" -> "lost"
                    [] task[w][f] = "added" -> "running"
                    [] OTHER -> task[w][f]]]
    /\ up' = FALSE
    /\ UNCHANGED <<mark, jobs, stored, data, missed, rewritten, late, kept,
                   transfers, removals>>

-----------------------------------------------------------------------------
RemoverStep(r) ==
    \/ Check(r) \/ Stop(r) \/ Mark(r) \/ List(r) \/ DeleteJob(r) \/ Launch(r)
    \/ LaunchNone(r) \/ Finish(r)
    \/ \E f \in File : \/ Skip(r, f) \/ SendRemove(r, f)
                      \/ Removed(r, f) \/ NotRemoved(r, f)

TransferStep(w, f) ==
    \/ Ask(w, f) \/ Take(w, f) \/ GiveUp(w, f) \/ AddTask(w, f)
    \/ SetStorage(w, f) \/ End(w, f) \/ Stopped(w, f) \/ Report(w, f)

RemovalNext ==
    \/ \E r \in Remover : \/ Delete(r) \/ RemoverStep(r)
                          \/ \E f \in File : Hangs(r, f)
    \/ \E w \in Who, f \in File : TransferStep(w, f)
    \/ \E f \in File : Write(f)
    \/ \E u \in User : AddReceiver(u) \/ RemoveReceiver(u)
    \/ NodeGoes \/ NodeComes
    \/ Restart

RemovalSpec == RemovalInit /\ [][RemovalNext]_removalVars

(* The goroutines of a delete request that do not hang get on.             *)
RemovalFairSpec == RemovalSpec /\ \A r \in Remover : WF_removalVars(RemoverStep(r))

-----------------------------------------------------------------------------
(* When the mark says that the files are removed, a file that the node     *)
(* still has was missed for a reason: it could not be read from its row,   *)
(* its storage was not known, the node was not there, did not answer or    *)
(* refused, or somebody went on uploading.                                 *)
LeftIsMissed == mark = 2 => data \subseteq missed \cup rewritten

(* Nothing is removed from the node while the package has a receiver, save *)
(* those added since it was marked, and those whose rows the database did  *)
(* not list or delete: freePkgSpace goes on all the same.                  *)
FreedHasNoReceiver ==
    \A r \in Remover : remover[r].pc = "free" => jobs \subseteq late \cup kept

(* Who has begun to mark a package comes to the mark that its files are    *)
(* removed, unless a goroutine hangs or the mark itself is not written: no *)
(* answer, error, or node that goes keeps freePkgSpace waiting.  Nothing   *)
(* goes on with a removal that a restart cuts off, but the next delete     *)
(* request that marks the package does all of it.                          *)
Marking == \E r \in Remover : remover[r].pc \in {"mark", "list", "delete", "free"}
Hung == \E r \in Remover, f \in File : remover[r].file[f] = "hung"
MarkedIsFreed ==
    \A n \in 0..MaxTroubles :
        Marking /\ undone = n ~> mark = 2 \/ undone > n \/ Hung

(* models/job.go:12, SOFT_DELETE_FILES_REMOVED: the files on the transfer  *)
(* node, if the server knows that they are there, are deleted, save what   *)
(* is uploaded after the package was marked.                               *)
FreedIsGone == mark = 2 => data \cap stored \subseteq rewritten

(* controllers/pkg.go:618, "find out whether they are transferring, take   *)
(* the jobs that are not": none is marked while a node transfers its files.*)
BulkSparesTransfers ==
    [][\A r \in Remover :
          Mark(r) /\ remover[r].kind = "bulk"
             => \A w \in Who, f \in File : task[w][f] \notin OnNode]_removalVars

(* controllers/pkg.go:923, "stop the transfer tasks" of the package.       *)
DeleteStopsTasks ==
    [][\A r \in Remover : Stop(r) => known \subseteq stopping']_removalVars
=============================================================================

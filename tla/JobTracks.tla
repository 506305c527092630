----------------------------- MODULE JobTracks -----------------------------
(***************************************************************************)
(* Which jobs JobManager tracks (pkg/job.go).  A client that polls for     *)
(* changes is shown the jobs it finds in the tracks, and those in the      *)
(* delete tracks once more.  A job is the upload of a package by its owner *)
(* or the download by one receiver.                                        *)
(*                                                                         *)
(* track_pkgs and track_users are two indices of one set of jobs, always   *)
(* changed together; the same goes for track_deletes.  A section under     *)
(* JobManager.lock is one step and so is a database transaction; the http  *)
(* handlers and the goroutines that delete a finished job after a delay    *)
(* interleave between them.  The contents of the job cache are the subject *)
(* of JobProgress: here a job is finished when the database says so, but   *)
(* the cache may still take a job for finished that is transferred again.  *)
(***************************************************************************)
EXTENDS Integers

CONSTANTS
    Uid, Pid,
    Owner,           \* Owner[p]: the user who uploads package p
    Empty,           \* packages with nothing but empty files and folders
    Handler,         \* http handlers running at a time
    NoJob,
    Overlap,         \* may a job be created while its last transfer is ending?
    MaxReports       \* bound: reports of the nodes and repeated transfers

ASSUME TracksAssumption ==
    /\ Owner \in [Pid -> Uid] /\ Empty \subseteq Pid
    /\ Overlap \in BOOLEAN /\ MaxReports \in Nat

Job == {j \in [uid: Uid, pid: Pid, typ: {"U", "D"}] :
          j.typ = "U" => j.uid = Owner[j.pid]}
Upload(p) == [uid |-> Owner[p], pid |-> p, typ |-> "U"]
Downloads(S, p) == {j \in S : j.pid = p /\ j.typ = "D"}

ASSUME NoJobAssumption == NoJob \notin Job

VARIABLES
    rows,        \* jobs in the table package_job
    unfinished,  \* those with a detail that is not DONE
    softDel,     \* those marked as deleted
    again,       \* those that had finished and are transferred again, but
                 \* were not created again (history)
    tracks,      \* jobs in track_pkgs and track_users
    deletes,     \* jobs in track_deletes
    processing,  \* jobs whose report was saved and ProcessJob comes next
    delayed,     \* delayed[j]: goroutines that wait to delete job j
    handler,     \* handler[h]: where an http handler is and with which jobs
    reports      \* reports and repeated transfers so far

dbVars == <<rows, unfinished, softDel, again>>
trackVars == <<tracks, deletes>>
finishVars == <<processing, delayed, reports>>
vars == <<dbVars, trackVars, finishVars, handler>>

-----------------------------------------------------------------------------
Idle == [pc |-> "idle", job |-> NoJob, todo |-> {}, pkg |-> NoJob]

TypeOK ==
    /\ rows \subseteq Job /\ unfinished \subseteq rows /\ softDel \subseteq rows
    /\ again \subseteq unfinished
    /\ tracks \subseteq Job /\ deletes \subseteq Job
    /\ processing \subseteq Job
    /\ delayed \in [Job -> Nat] /\ reports \in 0..MaxReports
    /\ handler \in [Handler -> [pc: {"idle", "reset", "track", "delete", "untrack"},
                                job: Job \cup {NoJob}, todo: SUBSET Job,
                                pkg: Job \cup {NoJob}]]

Init ==
    /\ rows = {} /\ unfinished = {} /\ softDel = {} /\ again = {}
    /\ tracks = {} /\ deletes = {}
    /\ processing = {}
    /\ delayed = [j \in Job |-> 0] /\ reports = 0
    /\ handler = [h \in Handler |-> Idle]

-----------------------------------------------------------------------------
(* Sections under JobManager.lock, as what they make of the tracks.        *)

(* Mutant: deleted packages are tracked again as well.                     *)
Monitored_Deleted(j) == {Upload(j.pid)} \cap rows

(* AddTrack of a job; issue-1: with a download the upload is tracked again *)
(* unless the package was deleted.                                         *)
Monitored(j) == {Upload(j.pid)} \cap (rows \ softDel)
AddTracks(j) == tracks \cup {j} \cup (IF j.typ = "D" THEN Monitored(j) ELSE {})

(* The jobs that isJobFinished may call finished: the counter of a cached  *)
(* job is not raised when a transfer resets a detail of it.                *)
Finished == {(Job \ unfinished) \cup stale : stale \in SUBSET again}

(* Mutant: an upload does not wait for the downloads of its package.       *)
DelTrack_NoWait(T, j, F) ==
    LET left == T \ {j}
        up == Upload(j.pid)
    IN IF Downloads(left, j.pid) = {} /\ up \in F
         THEN left \ {up} ELSE left

(* Mutant: the last download takes the upload with it, as before cdxs-17.  *)
DelTrack_Unfinished(T, j, F) ==
    LET left == T \ {j}
        up == Upload(j.pid)
    IN IF j.typ = "U" /\ Downloads(T, j.pid) # {} THEN T
       ELSE IF Downloads(left, j.pid) = {} THEN left \ {up} ELSE left

(* Mutant: nothing looks after the upload when a download goes.            *)
DelTrack_Alone(T, j, F) ==
    IF j.typ = "U" /\ Downloads(T, j.pid) # {} THEN T ELSE T \ {j}

(* DelTrack: an upload stays while its package has a download; the last    *)
(* download takes a finished upload with it (issue-1, issue-37, cdxs-17).  *)
DelTrack(T, j, F) ==
    LET left == T \ {j}
        up == Upload(j.pid)
    IN IF j.typ = "U" /\ Downloads(T, j.pid) # {} THEN T
       ELSE IF Downloads(left, j.pid) = {} /\ up \in F
         THEN left \ {up} ELSE left

-----------------------------------------------------------------------------
(* The http handlers.                                                      *)

Goto(h, pc, j) == handler' = [handler EXCEPT ![h].pc = pc, ![h].job = j]
Reset(j) == IF j.pid \in Empty THEN unfinished ELSE unfinished \cup {j}

(* Assumed of the users unless Overlap: nobody creates a job while an      *)
(* earlier transfer of it is ending or a goroutine still waits to delete   *)
(* it, and no transfer of a job ends before its creation has.              *)
MayCreate(j) == Overlap \/ (delayed[j] = 0 /\ j \notin processing)
MayReport(j) == Overlap \/ \A h \in Handler : handler[h].job # j

(* CreateJob finds no row: job and details are inserted in a transaction.  *)
CreateNew(h, j) ==
    /\ handler[h] = Idle /\ j \notin rows /\ MayCreate(j)
    /\ j.typ = "D" => Upload(j.pid) \in rows
    /\ rows' = rows \cup {j}
    /\ unfinished' = Reset(j)
    /\ Goto(h, "track", j)
    /\ UNCHANGED <<softDel, again, trackVars, finishVars>>

(* ... and then it is tracked.                                             *)
TrackNew(h) ==
    /\ handler[h].pc = "track"
    /\ tracks' = AddTracks(handler[h].job)
    /\ handler' = [handler EXCEPT ![h] = Idle]
    /\ UNCHANGED <<dbVars, deletes, finishVars>>

(* CreateJob finds the row, without a lock.                                *)
CreateAgain(h, j) ==
    /\ handler[h] = Idle /\ j \in rows /\ j.typ = "D" /\ MayCreate(j)
    /\ Goto(h, "reset", j)
    /\ UNCHANGED <<dbVars, trackVars, finishVars>>

(* Under the lock the details are reset, wherever they still are, and the  *)
(* job is tracked again.                                                   *)
TrackAgain(h) ==
    LET j == handler[h].job IN
    /\ handler[h].pc = "reset"
    /\ unfinished' = IF j \in rows THEN Reset(j) ELSE unfinished
    /\ again' = again \ {j}
    /\ tracks' = AddTracks(j)
    /\ handler' = [handler EXCEPT ![h] = Idle]
    /\ UNCHANGED <<rows, softDel, deletes, finishVars>>

(* DeleteJob removes the rows of a download ...                            *)
DeleteRow(h, j) ==
    /\ \/ handler[h] = Idle /\ j.typ = "D"
       \/ handler[h].pc = "delete" /\ j \in handler[h].todo
    /\ IF j \in rows
         THEN /\ rows' = rows \ {j} /\ unfinished' = unfinished \ {j}
              /\ again' = again \ {j}
              /\ Goto(h, "untrack", j)
         ELSE /\ handler[h].pc = "delete"
              /\ handler' = [handler EXCEPT ![h].todo = @ \ {j}]
              /\ UNCHANGED <<rows, unfinished, again>>
    /\ UNCHANGED <<softDel, trackVars, finishVars>>

(* ... and then, under the lock, its tracks.                               *)
UntrackRow(h) ==
    LET j == handler[h].job
        back == [handler[h] EXCEPT !.pc = "delete", !.job = NoJob,
                                   !.todo = @ \ {j}]
    IN
    /\ handler[h].pc = "untrack"
    /\ \E F \in Finished : tracks' = DelTrack(tracks, j, F)
    /\ deletes' = deletes \cup {j}
    /\ handler' = [handler EXCEPT ![h] =
                     IF handler[h].pkg = NoJob THEN Idle ELSE back]
    /\ UNCHANGED <<dbVars, finishVars>>

(* deleteJob of a package: its upload is marked, then its downloads are    *)
(* deleted one by one ...                                                  *)
DeletePkg(h, p) ==
    /\ handler[h] = Idle /\ Upload(p) \in rows
    /\ softDel' = softDel \cup {Upload(p)}
    /\ handler' = [handler EXCEPT ![h] =
                     [pc |-> "delete", job |-> NoJob, pkg |-> Upload(p),
                      todo |-> Downloads(rows, p)]]
    /\ UNCHANGED <<rows, unfinished, again, trackVars, finishVars>>

(* ... and last the track of the upload.                                   *)
UntrackPkg(h) ==
    /\ handler[h].pc = "delete" /\ handler[h].todo = {}
    /\ \E F \in Finished : tracks' = DelTrack(tracks, handler[h].pkg, F)
    /\ handler' = [handler EXCEPT ![h] = Idle]
    /\ UNCHANGED <<dbVars, deletes, finishVars>>

(* The client of user u polls: the delete tracks are handed out once.      *)
Poll(u) ==
    /\ \E j \in deletes : j.uid = u
    /\ deletes' = {j \in deletes : j.uid # u}
    /\ UNCHANGED <<dbVars, tracks, finishVars, handler>>

-----------------------------------------------------------------------------
(* The end of a job.                                                       *)

(* A report of a transfer is saved; it may be the one that completes the   *)
(* last detail, or a late one about a job that was finished before.        *)
Report(j) ==
    /\ j \in rows /\ j.pid \notin Empty /\ j \notin processing /\ MayReport(j)
    /\ reports < MaxReports
    /\ reports' = reports + 1
    /\ unfinished' \in {unfinished, unfinished \ {j}}
    /\ again' = again \cap unfinished'
    /\ processing' = processing \cup {j}
    /\ UNCHANGED <<rows, softDel, trackVars, delayed, handler>>

(* ProcessJob: a finished job gets a goroutine that waits for 20 seconds.  *)
ProcessJob(j) ==
    /\ j \in processing
    /\ processing' = processing \ {j}
    /\ \E F \in Finished :
         delayed' = IF j \in rows /\ j \in F
                      THEN [delayed EXCEPT ![j] = @ + 1] ELSE delayed
    /\ UNCHANGED <<dbVars, trackVars, reports, handler>>

(* AddTask of a task with all segments of a file: its detail is reset,     *)
(* "because it can start again after the task is finished", which makes a  *)
(* finished job unfinished.  Nothing tracks the job for that.              *)
TransferAgain(j) ==
    /\ j \in rows \ unfinished /\ j.pid \notin Empty
    /\ reports < MaxReports
    /\ reports' = reports + 1
    /\ unfinished' = unfinished \cup {j}
    /\ again' = again \cup {j}
    /\ UNCHANGED <<rows, softDel, trackVars, processing, delayed, handler>>

(* The goroutine of ProcessJob, after its delay.                           *)
DelayedDelete(j) ==
    /\ delayed[j] > 0
    /\ delayed' = [delayed EXCEPT ![j] = @ - 1]
    /\ \E F \in Finished : tracks' = DelTrack(tracks, j, F)
    /\ UNCHANGED <<dbVars, deletes, processing, reports, handler>>

(* The service stops at any point and starts again: LoadTracks.            *)
Restart ==
    LET open == unfinished \ softDel IN
    /\ tracks' = open \cup UNION {Monitored(j) : j \in {d \in open : d.typ = "D"}}
    /\ deletes' = {}
    /\ processing' = {} /\ delayed' = [j \in Job |-> 0]
    /\ handler' = [h \in Handler |-> Idle]
    /\ again' = {}
    /\ UNCHANGED <<rows, unfinished, softDel, reports>>

-----------------------------------------------------------------------------
HandlerStep(h) ==
    \/ TrackNew(h) \/ TrackAgain(h) \/ UntrackRow(h) \/ UntrackPkg(h)
    \/ \E j \in handler[h].todo : DeleteRow(h, j)

Next ==
    \/ \E h \in Handler : HandlerStep(h)
    \/ \E h \in Handler, j \in Job :
         CreateNew(h, j) \/ CreateAgain(h, j) \/ DeleteRow(h, j)
    \/ \E h \in Handler, p \in Pid : DeletePkg(h, p)
    \/ \E u \in Uid : Poll(u)
    \/ \E j \in Job : Report(j) \/ ProcessJob(j) \/ DelayedDelete(j)
                         \/ TransferAgain(j)
    \/ Restart

Spec == Init /\ [][Next]_vars

(* Handlers and delayed goroutines that can run do run.                    *)
FairSpec ==
    /\ Spec
    /\ \A h \in Handler : WF_vars(HandlerStep(h))
    /\ \A j \in Job : WF_vars(ProcessJob(j)) /\ WF_vars(DelayedDelete(j))

-----------------------------------------------------------------------------
Quiet == \A h \in Handler : handler[h] = Idle

(* cdxs-17 and the comment of CreateJob: a job that is not finished is     *)
(* tracked, whatever happened to the other jobs of its package.  Not so a  *)
(* finished job that a new transfer has made unfinished: its track went or *)
(* goes with the end of the first, until it is created again or the        *)
(* service restarts.                                                       *)
UnfinishedIsTracked ==
    Quiet => unfinished \ (softDel \cup again) \subseteq tracks

(* issue-37: what is tracked still exists, no package is left in the       *)
(* tracks after it was deleted.                                            *)
TrackedExists == Quiet => tracks \subseteq rows \ softDel

(* issue-1: the upload of a package that was not deleted is tracked as     *)
(* long as one of its downloads is; getActive fails for a download without *)
(* an upload.                                                              *)
DownloadIsMonitored ==
    \A j \in tracks : j.typ = "D" => Monitored(j) \subseteq tracks

(* A package all of whose jobs are finished leaves the tracks, even if     *)
(* its last downloads are deleted or the service restarts.                 *)
FinishedLeaves ==
    \A p \in Pid :
      LET open == {j \in unfinished : j.pid = p} IN
      (open = {}) ~> (open # {} \/ {j \in tracks : j.pid = p} = {})

(* job.go:176, issue-1 in the words of the comment: "a user who uploads    *)
(* has to watch the state of the users who download".                      *)
UploaderWatches ==
    \A j \in tracks : j.typ = "D" => Upload(j.pid) \in tracks
=============================================================================

--------------------------- MODULE PackageCreation ---------------------------
(***************************************************************************)
(* How packages come into being (controllers/pkg.go, createPkg): the http  *)
(* handler names the package after its sender and the second, cuts its     *)
(* files into segments, inserts all of this in one transaction, and makes  *)
(* the jobs of the sender and the receivers; all with the lock of the      *)
(* unpacker held.  Meanwhile an administrator configures the unpacker      *)
(* anew (controllers/config.go).                                           *)
(*                                                                         *)
(* Files are cut by the steps of Segmentation, whose variables are those   *)
(* of the call of GenerateSegs of the handler at work.  What a session has *)
(* not committed is gone when it is closed.  Each statement of the database*)
(* may fail.                                                               *)
(***************************************************************************)
EXTENDS Segmentation

CONSTANTS
    Uid,
    Handler,        \* http handlers that create packages
    Sizes,          \* sizes of files
    NumFiles,       \* files of a package
    MaxFiles,       \* 99 in the program: fids have two digits
    None,
    MaxTime,        \* bound: seconds
    MaxCreations,   \* bound: requests
    MaxRestarts     \* bound: restarts of the server

ASSUME CreationAssumption ==
    /\ NumFiles \in SUBSET Nat /\ MaxFiles \in Nat
    /\ None \notin Handler /\ Sizes \subseteq 0..(Word - 1)
    /\ MaxTime \in Nat /\ MaxCreations \in Nat /\ MaxRestarts \in Nat

VARIABLES
    now,        \* time.Now().Unix()
    conf,       \* min_seg_size, max_seg_num and size_threshold
    lock,       \* DefaultUnpacker.lock: who holds it
    handler,    \* handler[h]: where a handler is and what it has inserted
    pkgs,       \* the packages with a row, each with the cuts of its files
    jobs,       \* rows of jobs
    senderless, \* history: packages whose upload job could not be made
    creations, restarts

rows == <<pkgs, jobs, senderless>>
bounds == <<creations, restarts>>
vars == <<now, conf, lock, handler, rows, bounds, segVars>>

-----------------------------------------------------------------------------
Pid == Uid \X (0..MaxTime)
Job == [pid: Pid, uid: Uid, type: {"upload", "download"}]

Idle == [pc |-> "idle"]
Busy == [pc: {"enter", "name", "files", "commit", "upload", "download", "leave"},
         uid: Uid, to: SUBSET Uid, num: NumFiles,
         pid: Pid \cup {None}, cuts: Seq(Conf)]

TypeOK ==
    /\ now \in 0..MaxTime /\ conf \in Conf
    /\ lock \in Handler \cup {None}
    /\ handler \in [Handler -> Busy \cup {Idle}]
    \* only the holder of the lock is at work
    /\ \A h \in Handler :
         handler[h].pc \notin {"idle", "enter"} => lock = h
    /\ \A p \in DOMAIN pkgs : p \in Pid /\ pkgs[p] \in Seq(Conf)
    /\ jobs \subseteq Job /\ senderless \subseteq Pid
    /\ creations \in 0..MaxCreations /\ restarts \in 0..MaxRestarts

Init ==
    /\ now = 0 /\ conf \in Conf /\ lock = None
    /\ handler = [h \in Handler |-> Idle]
    /\ pkgs = [p \in {} |-> <<>>] /\ jobs = {} /\ senderless = {}
    /\ creations = 0 /\ restarts = 0
    /\ SegInit /\ by = conf

-----------------------------------------------------------------------------
At(h, pc) == handler[h].pc = pc
Goto(h, pc) == handler' = [handler EXCEPT ![h].pc = pc]
My(h) == handler[h]

(* createPkg has verified the request.                                     *)
Request(h) ==
    /\ At(h, "idle") /\ creations < MaxCreations /\ creations' = creations + 1
    /\ \E u \in Uid, n \in NumFiles : \E to \in SUBSET (Uid \ {u}) :
          handler' = [handler EXCEPT ![h] =
             [pc |-> "enter", uid |-> u, to |-> to, num |-> n,
              pid |-> None, cuts |-> <<>>]]
    /\ UNCHANGED <<now, conf, lock, rows, restarts, segVars>>

(* unpack.GetUnpacker().Enter() waits for the lock.                        *)
Enter(h) ==
    /\ At(h, "enter") /\ lock = None /\ lock' = h
    /\ Goto(h, "name")
    /\ UNCHANGED <<now, conf, rows, bounds, segVars>>

(* Mutant: a package of the same second is overwritten.                    *)
Name_Again(h) ==
    /\ At(h, "name")
    /\ handler' = [handler EXCEPT ![h].pc = "files",
                                  ![h].pid = <<My(h).uid, now>>]
    /\ UNCHANGED <<now, conf, lock, rows, bounds, segVars>>

(* GeneratePid, and the row of the package, which must be the only one.    *)
Name(h) ==
    LET p == <<My(h).uid, now>> IN
    /\ At(h, "name")
    /\ handler' = [handler EXCEPT
                     ![h].pc = IF p \in DOMAIN pkgs THEN "leave" ELSE "files",
                     ![h].pid = p]
    /\ UNCHANGED <<now, conf, lock, rows, bounds, segVars>>

(* GenerateFid and the call of GenerateSegs for one more file, or an error:*)
(* it is one too many, or a row of the last one was not inserted ...       *)
AddFile(h) ==
    /\ At(h, "files") /\ left = 0
    /\ \/ /\ Len(My(h).cuts) < My(h).num /\ Len(My(h).cuts) < MaxFiles
          /\ \E s \in Sizes : StartFile(conf, s)
          /\ handler' = [handler EXCEPT ![h].cuts = Append(@, conf)]
       \/ /\ Goto(h, "leave")
          /\ UNCHANGED segVars
    /\ UNCHANGED <<now, conf, lock, rows, bounds>>

(* ... and its loop.                                                       *)
CutFile(h) ==
    /\ At(h, "files") /\ Cut
    /\ UNCHANGED <<now, conf, lock, handler, rows, bounds>>

AllFiles(h) ==
    /\ At(h, "files") /\ left = 0 /\ Len(My(h).cuts) = My(h).num
    /\ Goto(h, "commit")
    /\ UNCHANGED <<now, conf, lock, rows, bounds, segVars>>

(* The transaction is committed.  Nobody looks whether that has failed,    *)
(* and the handler goes on as if it had not.                               *)
Commit(h) ==
    /\ At(h, "commit")
    /\ \/ pkgs' = [p \in DOMAIN pkgs \cup {My(h).pid} |->
                     IF p = My(h).pid THEN My(h).cuts ELSE pkgs[p]]
       \/ UNCHANGED pkgs
    /\ Goto(h, "upload")
    /\ UNCHANGED <<now, conf, lock, jobs, senderless, bounds, segVars>>

(* JobMgr.CreateJob: the row is rolled back if there is no such package.   *)
NewJobs(h, u, type) ==
    IF My(h).pid \in DOMAIN pkgs
      THEN jobs \cup {[pid |-> My(h).pid, uid |-> u, type |-> type]}
      ELSE jobs

(* Mutant: the jobs of the receivers are made first.                       *)
CreateJobs_Receivers(h) ==
    \/ /\ At(h, "upload") /\ My(h).to # {}
       /\ \E u \in My(h).to :
             /\ jobs' = NewJobs(h, u, "download")
             /\ handler' = [handler EXCEPT ![h].to = @ \ {u}]
       /\ UNCHANGED <<now, conf, lock, pkgs, senderless, bounds, segVars>>
    \/ /\ At(h, "upload") /\ My(h).to = {}
       /\ jobs' = NewJobs(h, My(h).uid, "upload")
       /\ Goto(h, "leave")
       /\ UNCHANGED <<now, conf, lock, pkgs, senderless, bounds, segVars>>

(* The job of the sender and then those of the receivers.  Nobody looks    *)
(* whether one of them has failed.                                         *)
CreateJobs(h) ==
    \/ /\ At(h, "upload")
       /\ \/ jobs' = NewJobs(h, My(h).uid, "upload") /\ UNCHANGED senderless
          \/ /\ senderless' = senderless \cup ({My(h).pid} \cap DOMAIN pkgs)
             /\ UNCHANGED jobs
       /\ Goto(h, IF My(h).to = {} THEN "leave" ELSE "download")
       /\ UNCHANGED <<now, conf, lock, pkgs, bounds, segVars>>
    \/ /\ At(h, "download")
       /\ \E u \in My(h).to :
             /\ jobs' \in {NewJobs(h, u, "download"), jobs}
             /\ handler' = [handler EXCEPT
                  ![h].to = @ \ {u},
                  ![h].pc = IF My(h).to = {u} THEN "leave" ELSE "download"]
       /\ UNCHANGED <<now, conf, lock, pkgs, senderless, bounds, segVars>>

(* Mutant: a handler that fails does not let go of the lock.               *)
Leave_Committed(h) ==
    /\ At(h, "leave")
    /\ lock' = IF My(h).pid \in DOMAIN pkgs THEN None ELSE lock
    /\ handler' = [handler EXCEPT ![h] = Idle]
    /\ UNCHANGED <<now, conf, rows, bounds, segVars>>

(* The session is closed and the lock let go, also after an error.         *)
Leave(h) ==
    /\ At(h, "leave") /\ lock' = None
    /\ handler' = [handler EXCEPT ![h] = Idle]
    /\ UNCHANGED <<now, conf, rows, bounds, segVars>>

-----------------------------------------------------------------------------
(* Mutant: the unpacker is configured without its lock.                    *)
Config_Unlocked ==
    /\ \E c \in Conf \ {conf} : conf' = c
    /\ UNCHANGED <<now, lock, handler, rows, bounds, segVars>>

(* DefaultUnpacker.Config sets all of them under the lock.                 *)
Config ==
    /\ lock = None
    /\ \E c \in Conf \ {conf} : conf' = c
    /\ UNCHANGED <<now, lock, handler, rows, bounds, segVars>>

Tick ==
    /\ now < MaxTime /\ now' = now + 1
    /\ UNCHANGED <<conf, lock, handler, rows, bounds, segVars>>

Restart ==
    /\ restarts < MaxRestarts /\ restarts' = restarts + 1
    /\ lock' = None /\ handler' = [h \in Handler |-> Idle]
    /\ StartFile(conf, 0)     \* of whom no handler is left
    /\ UNCHANGED <<now, conf, rows, creations>>

-----------------------------------------------------------------------------
Work(h) ==
    \/ Enter(h) \/ Name(h) \/ AddFile(h) \/ CutFile(h) \/ AllFiles(h)
    \/ Commit(h) \/ CreateJobs(h) \/ Leave(h)

Next ==
    \/ \E h \in Handler : Request(h) \/ Work(h)
    \/ Config \/ Tick \/ Restart

Spec == Init /\ [][Next]_vars

(* Who waits for the lock of the unpacker gets it in the end.              *)
FairSpec == Spec /\ \A h \in Handler : SF_vars(Work(h))

-----------------------------------------------------------------------------
(* All files of a package are cut by the same configuration, even if the   *)
(* unpacker is configured while the package is created.                    *)
OneConfiguration ==
    \A p \in DOMAIN pkgs : \A i, j \in DOMAIN pkgs[p] : pkgs[p][i] = pkgs[p][j]

(* A row of a package is not replaced by a request of the same second.     *)
PkgsStay == [][\A p \in DOMAIN pkgs : p \in DOMAIN pkgs' /\ pkgs'[p] = pkgs[p]]_vars

(* Who receives a package has a sender, whom CreateJob makes watch the     *)
(* receiver, however far the handler has come when the server stops; but   *)
(* if the job of the sender could not be made, those of the receivers are  *)
(* made all the same.  A package that could not be committed has neither.  *)
ReceiversHaveSender ==
    \A j \in jobs : j.type = "download" =>
        /\ j.pid \in DOMAIN pkgs
        /\ \/ [pid |-> j.pid, uid |-> j.pid[1], type |-> "upload"] \in jobs
           \/ j.pid \in senderless

(* A request comes to its end: no way out of createPkg keeps the lock.     *)
RequestsEnd == \A h \in Handler : (handler[h] # Idle) ~> (handler[h] = Idle)
=============================================================================

------------------------------ MODULE Waiting ------------------------------
(***************************************************************************)
(* Who waits for whom: the locks and channels the components share.  What  *)
(* a goroutine does is a script, the sequence of the places where it may   *)
(* have to wait, each with the locks it lets go right after it.  A         *)
(* critical section inside which nothing waits is one step, and the locks  *)
(* of the schedulers' queues and of a socket, which are always innermost,  *)
(* are left out (a write to a socket ends by its deadline).                *)
(*                                                                         *)
(* The scripts say nothing of data: what a lookup finds, which report      *)
(* comes, whether a node answers.  All connections are of one nid.         *)
(***************************************************************************)
EXTENDS Integers, Sequences

CONSTANTS
    Conn,        \* connections; the name of one also stands for its req_lock
    First,       \* the connection that has logged in at the start
    Actor,       \* http handlers, timers and other goroutines
    Routine,     \* TaskStateRoutine
    NoConn, Free, Lost,
    MaxCopies    \* bound: responses a transfer node sends to one request

ASSUME WaitingAssumption ==
    /\ First \in Conn /\ Routine \notin Conn \cup Actor
    /\ Conn \cap Actor = {} /\ NoConn \notin Conn
    /\ {"task", "res", "mux", "job"} \cap (Conn \cup Actor \cup {Routine, NoConn}) = {}
    /\ Free # Lost /\ {Free, Lost} \cap (Conn \cup Actor \cup {Routine}) = {}
    /\ MaxCopies \in Nat

VARIABLES
    script,   \* script[p]: what process p has still to do
    node,     \* node[a]: the node actor a works with
    entry,    \* entry[a]: the channel of the PendingReq of a's request
    copies,   \* copies[a]: responses to that request
    left,     \* left[c]: the entries of callers who are gone: none, open, closed
    holder,   \* holder[l]: who holds lock l
    idMap,    \* NodeManager.id_map at the one nid
    queue,    \* the nodes the upload scheduler may give out
    logged,   \* connections whose Node.mgr is set
    closed,   \* connections whose Node.closed is set
    ended     \* connections whose goroutine has ended

reqVars == <<node, entry, copies, left>>
connVars == <<idMap, queue, logged, closed, ended>>
vars == <<script, reqVars, holder, connVars>>

-----------------------------------------------------------------------------
(* The states of the variables that are not scripts.                       *)
Channel == {"empty", "full", "closed", "full, closed"}
TypeOK ==
    /\ DOMAIN script = Conn \cup Actor \cup {Routine}
    /\ node \in [Actor -> Conn \cup {NoConn}]
    /\ entry \in [Actor -> {"none"} \cup Channel]
    /\ copies \in [Actor -> 0..MaxCopies]
    /\ left \in [Conn -> {"none", "open", "closed"}]
    /\ holder \in [{"task", "res", "mux", "job"} \cup Conn ->
                      Conn \cup Actor \cup {Routine, Free, Lost}]
    /\ idMap \in Conn \cup {NoConn}
    /\ queue \subseteq Conn /\ logged \subseteq Conn
    /\ closed \subseteq Conn /\ ended \subseteq Conn

-----------------------------------------------------------------------------
(* Scripts.  "task" is TaskManager.lock, "res" the lock of the restricted  *)
(* scheduler, "mux" NodeManager.mux, "job" JobManager.lock.                *)

Manager == {"task", "res", "mux", "job"}
Process == Conn \cup Actor \cup {Routine}

Op(do, lock, free) == [do |-> do, lock |-> lock, free |-> free]
Do(do) == Op(do, "none", {})
Take(l) == Op("take", l, {})          \* Lock
Use(l, free) == Op("use", l, free)    \* Lock and Unlock, nothing waits between
Find(free) == Op("find", "mux", free) \* GetByNid, which may find no node
Tell(free) == Op("tell", "none", free) \* a send to NotifyManage.Serve

(* The observers of the task manager: the job manager, which calls its own *)
(* observer, and the restricted scheduler.  They are called in any order,  *)
(* but each has let go its lock when the next is called.                   *)
Observers == <<Take("job"), Tell({"job"}), Use("res", {"task"})>>

AddTask == <<Use("mux", {}), Take("task")>> \o Observers
DelTask == <<Take("task"), Use("mux", {}), Use("job", {"task"})>>

(* Mutant: DelTask is called where the observers are, under the lock.      *)
Reports_UnderLock == {<<Take("task")>> \o Observers, <<Take("task")>> \o DelTask}

(* handleTaskState: the observers or DelTask; GetTask before it waits for  *)
(* the same lock and holds nothing.                                        *)
Reports == {<<Take("task")>> \o Observers, DelTask}

SendRequestSync == <<Do("enter"), Do("wait"), Do("clear")>>
DispatchDownload == <<Find({})>> \o SendRequestSync \o AddTask
DispatchUpload ==
    <<Take("res"), Find({"res"}), Do("pick")>> \o SendRequestSync \o AddTask
Stop == <<Find({})>> \o SendRequestSync

(* With the request that tells the node of its zone.                       *)
ReloadModel == <<Find({}), Use("mux", {})>> \o SendRequestSync
CreateJob == <<Take("job"), Tell({"job"})>>
FinishDelayed == <<Use("job", {})>>
ListTasks == <<Use("task", {})>>

Activities == {DispatchUpload, DispatchDownload, Stop, ReloadModel, DelTask,
               CreateJob, FinishDelayed, ListTasks}

AddNode == <<Take("mux"), Do("displace")>>
HandleMsg == {AddNode, <<Do("notify")>>}
Leave(c) == IF c \in logged THEN <<Do("close"), Do("delete")>> ELSE <<Do("close")>>

-----------------------------------------------------------------------------
(* Steps.                                                                  *)

Init ==
    /\ script = [p \in Process |-> << >>]
    /\ node = [a \in Actor |-> NoConn]
    /\ entry = [a \in Actor |-> "none"]
    /\ copies = [a \in Actor |-> 0]
    /\ left = [c \in Conn |-> "none"]
    /\ holder = [l \in Manager \cup Conn |-> Free]
    /\ idMap = First
    /\ queue = {First}
    /\ logged = {First}
    /\ closed = {}
    /\ ended = {}

At(p, do) == script[p] # << >> /\ Head(script[p]).do = do
Goto(p, s) == script' = [script EXCEPT ![p] = s]
Now(p) == Head(script[p])
Release(free) == holder' = [l \in DOMAIN holder |-> IF l \in free THEN Free ELSE holder[l]]
Go(p) == Goto(p, Tail(script[p])) /\ Release(Now(p).free)

(* An actor begins something, whenever it likes.                           *)
Begin(a) ==
    /\ script[a] = << >>
    /\ \E s \in Activities : Goto(a, s)
    /\ UNCHANGED <<reqVars, holder, connVars>>

TakeLock(p) ==
    /\ At(p, "take") /\ holder[Now(p).lock] = Free
    /\ Goto(p, Tail(script[p]))
    /\ holder' = [holder EXCEPT ![Now(p).lock] = p]
    /\ UNCHANGED <<reqVars, connVars>>

UseLock(p) ==
    /\ At(p, "use") /\ holder[Now(p).lock] = Free
    /\ Go(p)
    /\ UNCHANGED <<reqVars, connVars>>

(* The channel has no buffer, but Serve waits nowhere else and is back at  *)
(* it soon (LockIsLetGo of Notifications).                                 *)
TellServe(p) ==
    /\ At(p, "tell")
    /\ Go(p)
    /\ UNCHANGED <<reqVars, connVars>>

(* A script that needs a node ends without one, but for an upload, which   *)
(* asks the queue next.                                                    *)
FindNode(a) ==
    /\ At(a, "find") /\ holder["mux"] = Free
    /\ Release(Now(a).free)
    /\ \E n \in {idMap, NoConn} :     \* the task may be of another node
         /\ node' = [node EXCEPT ![a] = n]
         /\ Goto(a, IF n = NoConn /\ ~(\E i \in DOMAIN script[a] : script[a][i].do = "pick")
                      THEN << >> ELSE Tail(script[a]))
    /\ UNCHANGED <<entry, copies, left, connVars>>

(* DefaultScheduler.DispatchUpload after the restricted scheduler: the     *)
(* node it found, else the node of the file's storage, else the queue.     *)
Pick(a) ==
    /\ At(a, "pick")
    /\ \/ /\ node[a] # NoConn
          /\ Goto(a, Tail(script[a])) /\ UNCHANGED node
       \/ /\ node[a] = NoConn
          /\ Goto(a, DispatchDownload)
          /\ UNCHANGED node
       \/ /\ node[a] = NoConn /\ queue = {}
          /\ Goto(a, << >>) /\ UNCHANGED node
       \/ /\ node[a] = NoConn
          /\ \E c \in queue : node' = [node EXCEPT ![a] = c]
          /\ Goto(a, Tail(script[a]))
    /\ UNCHANGED <<entry, copies, left, holder, connVars>>

-----------------------------------------------------------------------------
(* SendRequestSync; the details are those of PendingRequests.              *)

Idle(a) ==
    /\ Goto(a, << >>)
    /\ node' = [node EXCEPT ![a] = NoConn]
    /\ entry' = [entry EXCEPT ![a] = "none"]
    /\ copies' = [copies EXCEPT ![a] = 0]

(* SendRequest: to a closed node nothing is sent, and the entry stays.     *)
Enter(a) ==
    LET c == node[a] IN
    /\ At(a, "enter") /\ holder[c] = Free
    /\ \/ /\ c \in closed
          /\ left' = [left EXCEPT ![c] = IF @ = "none" THEN "open" ELSE @]
          /\ Idle(a)
       \/ /\ c \notin closed
          /\ entry' = [entry EXCEPT ![a] = "empty"]
          /\ Goto(a, Tail(script[a]))
          /\ UNCHANGED <<node, copies, left>>
    /\ UNCHANGED <<holder, connVars>>

Answered(a) ==
    /\ At(a, "wait") /\ entry[a] \in {"full", "full, closed"}
    /\ entry' = [entry EXCEPT ![a] = IF @ = "full" THEN "empty" ELSE "closed"]
    /\ Goto(a, Tail(script[a]))
    /\ UNCHANGED <<node, copies, left, holder, connVars>>

Disconnected(a) ==
    /\ At(a, "wait") /\ entry[a] = "closed"
    /\ left' = [left EXCEPT ![node[a]] = "closed"]
    /\ Idle(a)
    /\ UNCHANGED <<holder, connVars>>

Timeout(a) ==
    /\ At(a, "wait")
    /\ Goto(a, <<Do("clear")>>)
    /\ UNCHANGED <<reqVars, holder, connVars>>

(* The entry is deleted; a dispatch that was answered goes on to AddTask.  *)
Clear(a) ==
    /\ At(a, "clear") /\ holder[node[a]] = Free
    /\ node' = [node EXCEPT ![a] = NoConn]
    /\ entry' = [entry EXCEPT ![a] = "none"]
    /\ copies' = [copies EXCEPT ![a] = 0]
    /\ Goto(a, Tail(script[a]))
    /\ UNCHANGED <<left, holder, connVars>>

-----------------------------------------------------------------------------
(* The goroutine of a connection.                                          *)

Reading(c) == script[c] = << >> /\ c \notin ended

(* A request is read: a login or a transfernotify.  Bound: one login on a  *)
(* connection; NodeRegistry has the others.                                *)
Receive(c) ==
    /\ Reading(c)
    /\ \E s \in HandleMsg :
         /\ Goto(c, s)
         /\ (s = AddNode) = (c \notin logged)
         /\ logged' = logged \cup {c}
    /\ UNCHANGED <<reqVars, holder, idMap, queue, closed, ended>>

ReadFails(c) ==
    /\ Reading(c)
    /\ Goto(c, Leave(c))
    /\ UNCHANGED <<reqVars, holder, connVars>>

(* The states of tasks go over StateChan, which has no buffer.             *)
Notify(c) ==
    /\ At(c, "notify") /\ script[Routine] = << >>
    /\ \E s \in Reports :
         script' = [script EXCEPT ![c] = << >>, ![Routine] = s]
    /\ UNCHANGED <<reqVars, holder, connVars>>

Asks(a, c) == node[a] = c /\ entry[a] # "none"

(* HandleMsg of a response whose entry is there; a full channel makes the  *)
(* reader wait with req_lock held.                                         *)
Answer(c, a) ==
    /\ Reading(c) /\ holder[c] = Free
    /\ Asks(a, c) /\ copies[a] < MaxCopies
    /\ copies' = [copies EXCEPT ![a] = @ + 1]
    /\ \/ /\ entry[a] = "empty"
          /\ entry' = [entry EXCEPT ![a] = "full"]
          /\ Goto(c, << >>)
          /\ UNCHANGED holder
       \/ /\ entry[a] = "full"
          /\ Goto(c, <<Op("push", a, {c})>>)
          /\ holder' = [holder EXCEPT ![c] = c]
          /\ UNCHANGED entry
    /\ UNCHANGED <<node, left, connVars>>

(* ... until its caller has taken the first answer.                        *)
Push(c) ==
    /\ At(c, "push") /\ entry[Now(c).lock] = "empty"
    /\ entry' = [entry EXCEPT ![Now(c).lock] = "full"]
    /\ Go(c)
    /\ UNCHANGED <<node, copies, left, connVars>>

(* Mutant: HandleMsg leaves without unlocking.                             *)
AnswerUnknown_NoUnlock(c) ==
    /\ Reading(c) /\ holder[c] = Free
    /\ Goto(c, << >>)
    /\ holder' = [holder EXCEPT ![c] = c]
    /\ UNCHANGED <<reqVars, connVars>>

(* The entry has been deleted.                                             *)
AnswerUnknown(c) ==
    /\ Reading(c) /\ holder[c] = Free
    /\ Goto(c, << >>)
    /\ UNCHANGED <<reqVars, holder, connVars>>

ClosedEntry(c) ==
    \/ left[c] = "closed"
    \/ \E a \in Actor : Asks(a, c) /\ entry[a] \in {"closed", "full, closed"}

(* The channel was closed: a panic with req_lock held, then the deferred   *)
(* Close(true), which waits for that lock.                                 *)
AnswerPanics(c) ==
    /\ Reading(c) /\ holder[c] = Free /\ ClosedEntry(c)
    /\ holder' = [holder EXCEPT ![c] = Lost]
    /\ Goto(c, Leave(c))
    /\ UNCHANGED <<reqVars, connVars>>

-----------------------------------------------------------------------------
(* Close and the manager of nodes.                                         *)

(* The channels of all entries of c are closed.                            *)
CloseChannels(c) ==
    /\ ~ClosedEntry(c)
    /\ entry' = [a \in Actor |->
                   IF node[a] # c THEN entry[a]
                   ELSE CASE entry[a] = "empty" -> "closed"
                          [] entry[a] = "full" -> "full, closed"
                          [] OTHER -> entry[a]]
    /\ left' = [left EXCEPT ![c] = IF @ = "none" THEN "none" ELSE "closed"]
    /\ closed' = closed \cup {c}
    /\ UNCHANGED <<node, copies>>

(* Mutant: the displaced connection is closed with Close(true), as the     *)
(* lines node.go:326-330, which are commented out, have it.                *)
Displace_AndDelete(c) ==
    /\ At(c, "displace")
    /\ \/ /\ idMap = NoConn
          /\ UNCHANGED <<reqVars, closed>>
          /\ idMap' = c
          /\ queue' = queue \cup {c}
          /\ Goto(c, << >>) /\ Release({"mux"})
       \/ /\ idMap # NoConn /\ holder[idMap] = Free
          /\ CloseChannels(idMap)
          /\ Goto(c, <<Do("delete"), Do("displace")>>)
          /\ UNCHANGED <<idMap, queue, holder>>
    /\ UNCHANGED <<logged, ended>>

(* AddNode, under mux: the connection of the same nid is closed, which may *)
(* be this one, and the new one registered.                                *)
Displace(c) ==
    /\ At(c, "displace")
    /\ \/ idMap = NoConn /\ UNCHANGED <<reqVars, closed>>
       \/ idMap # NoConn /\ holder[idMap] = Free /\ CloseChannels(idMap)
    /\ idMap' = c
    /\ queue' = queue \cup {c}
    /\ Goto(c, << >>) /\ Release({"mux"})
    /\ UNCHANGED <<logged, ended>>

(* The second close of a channel panics: req_lock of the old connection    *)
(* stays locked, mux is unlocked by its defer, the new connection leaves.  *)
DisplacePanics(c) ==
    /\ At(c, "displace")
    /\ idMap # NoConn /\ holder[idMap] = Free /\ ClosedEntry(idMap)
    /\ holder' = [holder EXCEPT !["mux"] = Free, ![idMap] = Lost]
    /\ Goto(c, Leave(c))
    /\ UNCHANGED <<reqVars, connVars>>

(* Close(true), deferred by the goroutine of the connection.               *)
CloseSelf(c) ==
    /\ At(c, "close") /\ holder[c] = Free
    /\ \/ /\ CloseChannels(c)
          /\ Goto(c, Tail(script[c]))
          /\ ended' = IF Tail(script[c]) = << >> THEN ended \cup {c} ELSE ended
          /\ UNCHANGED holder
       \/ /\ ClosedEntry(c)
          /\ holder' = [holder EXCEPT ![c] = Lost]
          /\ Goto(c, << >>)
          /\ ended' = ended \cup {c}
          /\ UNCHANGED <<reqVars, closed>>
    /\ UNCHANGED <<idMap, queue, logged>>

(* DelNode, by nid.                                                        *)
DelNode(c) ==
    /\ At(c, "delete") /\ holder["mux"] = Free
    /\ idMap' = NoConn
    /\ queue' = queue \ {idMap}
    /\ Goto(c, Tail(script[c]))
    /\ ended' = ended \cup {c}
    /\ UNCHANGED <<reqVars, holder, logged, closed>>

-----------------------------------------------------------------------------
(* In the model as in the code, a req_lock is lost in the panic of a close *)
(* or send on a channel that is closed already.                            *)
Wedged == \E c \in Conn : holder[c] = Lost

ActorStep(a) ==
    \/ TakeLock(a) \/ UseLock(a) \/ TellServe(a) \/ FindNode(a) \/ Pick(a)
    \/ Enter(a) \/ Answered(a) \/ Disconnected(a) \/ Timeout(a)
    \/ Clear(a)

RoutineStep == TakeLock(Routine) \/ UseLock(Routine) \/ TellServe(Routine)

ReaderStep(c) ==
    \/ TakeLock(c) \/ Notify(c) \/ Push(c) \/ AnswerUnknown(c) \/ AnswerPanics(c)
    \/ \E a \in Actor : Answer(c, a)
    \/ Displace(c) \/ DisplacePanics(c) \/ CloseSelf(c) \/ DelNode(c)

Next ==
    /\ ~Wedged
    /\ \/ \E a \in Actor : Begin(a) \/ ActorStep(a)
       \/ RoutineStep
       \/ \E c \in Conn : Receive(c) \/ ReadFails(c) \/ ReaderStep(c)

(* What has been begun goes on, with a mutex or a channel handed in the    *)
(* end to everyone who waits for it; nothing has to be begun.              *)
Fairness ==
    /\ \A a \in Actor : SF_vars(ActorStep(a))
    /\ \A c \in Conn : SF_vars(ReaderStep(c))
    /\ SF_vars(RoutineStep)

Spec == Init /\ [][Next]_vars /\ Fairness

-----------------------------------------------------------------------------
(* The locks process p asks for next.                                      *)
Asked(p) ==
    {l \in Manager \cup Conn :
        \/ At(p, "take") /\ l = Now(p).lock
        \/ At(p, "use") /\ l = Now(p).lock
        \/ (At(p, "find") \/ At(p, "delete")) /\ l = "mux"
        \/ (At(p, "enter") \/ At(p, "clear")) /\ l = node[p]
        \/ At(p, "displace") /\ l = idMap
        \/ At(p, "close") /\ l = p}

WaitsFor(p, q) ==
    \/ \E l \in Asked(p) : holder[l] = q
    \/ At(p, "notify") /\ q = Routine /\ script[q] # << >>
    \/ At(p, "push") /\ q = Now(p).lock /\ entry[q] # "empty"

(* Nobody waits in a circle, over the locks of the task manager, of the    *)
(* restricted scheduler, of the job manager, of the node manager and of a  *)
(* connection, and over StateChan: the managers call each other with their *)
(* locks held (task.go:333, :368, :505, restrict.go:112, node.go:92), each *)
(* in an order of its own.  It is not so if a node answers twice.          *)
NobodyWaitsInACircle ==
    \A S \in (SUBSET Process) \ {{}} :
        ~Wedged => \E p \in S : \A q \in S : ~WaitsFor(p, q)

(* Whatever an http handler, a timer or another goroutine has begun ends:  *)
(* no request waits for ever, on a lock or for its node.                   *)
ActivitiesEnd ==
    \A a \in Actor : script[a] # << >> ~> script[a] = << >> \/ Wedged

(* A transfer node is read again after each of its messages (node.go:446): *)
(* the one routine that takes reports is never stopped for good, although  *)
(* it needs the locks of all managers, and neither is a login.             *)
ReadersGoOn ==
    \A c \in Conn : script[c] # << >> ~> script[c] = << >> \/ Wedged
=============================================================================

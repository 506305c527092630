# Models of the cydex transfer service

`src/` is a Go service that coordinates transfers: users create
*packages* of files, *transfer nodes* (TN) on websocket connections hold the data,
clients ask the service over http which node to send segments of a file to or to
fetch them from, nodes report how far they have come, users see it and are
mailed.  It keeps rows in a database and a good deal of state in memory, shared
by one goroutine per connection, one per http request, one per timer and a few
that serve channels.  This directory models that state and who changes it.

    tlc -workers 2 -config registry.cfg MCNodeRegistry      a run (module: below)
    tlapm NodeRegistryProofs.tla                            a proof

Comments in the modules name the functions they stand for; `PROJECT.json`
(`map`) has the lines.  Operators called `X_Something` with the comment "Mutant"
are plausible faults of `X`: with one of them in its place, the property that
`PROJECT.json` names beside it is violated by the same run.

## The system

| component | state | operations | talks to |
|---|---|---|---|
| registry of nodes (`transfer/node.go`, `ws_server.go`) | `id_map` from nid to connection; per connection `closed`, zone | login, displacement by a second login, `Close`, `DelNode`, `ReloadModel` | calls the observers (schedulers) with its lock held |
| upload and zone queues (`task/rr_upload.go`, `nas_rr.go`, `roundrobin.go`) | one queue of nodes; one per zone | put, pop, get; change of zone | told by the registry, asked by the dispatcher |
| zones (`controllers/zone.go`, `node.go`) | column `zone_id` | edits, each followed by a reload of the nodes | registry |
| requests to nodes (`transfer/node.go`) | `seq`, `pending_reqs`, a channel for each request | `SendRequestSync`, delivery of responses, `Close` | http handlers; the socket |
| task manager (`task/task.go`) | table of tasks, a timer each, the node's task counter, rows | dispatch, `AddTask`, reports, timeout, `DelTask` | observers: job manager, restricted scheduler |
| upload scheduling (`default_scheduler.go`, `restrict.go`, `controllers/transfer.go`) | resources by package or file, which expire; storage column of a file | dispatch of an upload, `AddTask`, report | registry, task manager |
| job manager (`pkg/job.go`): tracks | `track_users`, `track_pkgs`, `track_deletes` | create, delete, poll, the delayed end of a job, `LoadTracks` | http handlers, task manager |
| job manager: progress | job cache with a counter of unfinished files; rows of jobs and details | `AddTask`, `DelTask`, reports, resumption, re-creation, `JobsSyncState` | task manager, http handlers, notifications |
| locks and channels of all of them | eight mutexes, `StateChan`, the channel of a request, that of `Serve` | whatever takes one while it holds another | each other: this is where a wait in one component stops the next |
| package creation (`controllers/pkg.go`, `pkg/pkg.go`) | lock and configuration of the unpacker; rows | `createPkg`, `GenerateSegs`, `Config` | job manager |
| package removal (`controllers/pkg.go`) | mark on the upload job | delete one, delete a list, `freePkgSpace` | job and task manager, nodes |
| notifications (`notify/`) | two unbuffered channels, two semaphores, redis | observer, publishers, mail handler | job manager, redis, smtp |

What is hard about it, and what the properties are for:

* **a node that reconnects.** The old connection and the new one have one nid;
  everything that is keyed by nid (`id_map`, `DelNode`) and everything that is
  keyed by object (the queues) can come apart;
* **locks that are let go between a look-up and its use**: reloads of zones, jobs
  found in the cache, pending requests, the storage of a file;
* **messages that come twice, late or never**: answers of nodes, reports of the end
  of a segment, publications in redis;
* **timers** of tasks and of finished jobs, which fire beside the event they
  wait for;
* **managers that call each other with their locks held**, and a single routine that takes the
  reports of all nodes: a circle of waiting goroutines stops the service;
* **restarts**, after which memory is empty, rows and nodes are not;
* **unsigned division** where files are cut.

`hazards` in `PROJECT.json` lists them line by line.

## The modules

| module | models | abstracts |
|---|---|---|
| `RoundRobin` | the queue of units as operators on sequences | which unit a size filter accepts (any) |
| `NodeRegistry` | `connHandle` of each connection, `AddNode`, `DelNode`, the two queues, zone edits with the three steps of `ReloadModel` | requests in flight are a flag (left with a closed channel); zones exist for ever; one request to assign many nodes to a zone is one step on the rows |
| `SyncCalls` | *abstract*: a call returns once, with its answer or an error | |
| `PendingRequests` | `SendRequestSync` in its five steps, the reader, each `Close` in its three | contents of messages; time (timeouts fire at any moment) |
| `JobTracks` | the tracks under http handlers, ends of transfers, delayed goroutines, restarts | progress: a job is finished or not |
| `JobProgress` | one job: rows, objects in memory, the cache, the observer and handlers step by step, notification, restart | segments are counted; bitrates |
| `TaskLifecycle` | dispatch, table, timer goroutine, `TaskStateRoutine`, observers | all tasks are on one node; time is a flag |
| `UploadScheduling` | `processUpload` from the read of the row to its write | free space and keepalives (any set of nodes has room) |
| `PackageRemoval` | both delete handlers, one goroutine per file, transfers, receivers, node, restart | one package on one node |
| `Notifications` | observer, `Serve`, publishers, redis, `ServeSubscribe`, `ServeEvent`, mailers | templates, the smtp dialogue |
| `Segmentation` | `GenerateSegs`, one segment at a time, with word arithmetic | |
| `PackageCreation` (on `Segmentation`) | `createPkg` with the lock, each file by the steps of `Segmentation`, the transaction and the jobs; `Config`; crashes | names and metadata of files |
| `Waiting` | the order in which goroutines of all components take locks and wait at channels: a script for each, from dispatch, delete, reload and reports to login and `Close` | all data: what a look-up finds, which report comes; innermost locks |

A section under one lock is one step, and so is a database transaction; between
any two of them others may run.  Variables that are no state of the program are
called *history* in their comments: what was transferred in truth (`has`), which files a
removal missed, how often an event reached redis, and so on.  `MC...` modules give values to
constants that are functions.

The modules compose along these seams, each modelled on both sides:

* `NodeRegistry` / `PendingRequests`: `Close` closes channels; the registry keeps
  from it whether a channel is left closed in the table (`leaked`) and whether the
  lock was lost in the panic (`jammed`);
* `NodeRegistry` / `UploadScheduling`, `PackageRemoval`, `TaskLifecycle`: nodes get
  online and offline at any moment;
* `TaskLifecycle` / `JobProgress`, `UploadScheduling`: calls of the observers
  (`added` here, `AddTask`, `DelTask`, `Report` there);
* `JobProgress` / `JobTracks`: a job has an unfinished detail or not;
* `JobProgress` / `Notifications`: `NotifyFinish` and `OnJobFinish`;
* `Segmentation` / `PackageCreation`: composed, the creation of packages implements
  `SegSpec` (proved): its handlers cut files only by the steps of `Segmentation`, and the
  lock makes it one file at a time;
* `Waiting` has all components at once, and of each what waits: `LockIsLetGo` of
  `Notifications` is what it assumes of `Serve`, and what it says of a node that answers is the
  reader of `PendingRequests`, with a lock held or not.

## The runs

Each run is the question of one component, or of several where they meet; states are
distinct states.  Each takes less than two minutes on two cores.  Deadlock is not checked where the system may stop: whatever is bounded (logins,
reports, requests) runs out, and the files of a package are cut at some time.  That
someone hangs who should not is stated as a property instead.

Every module has its type invariant, `TypeOK` (`SegTypeOK` in `Segmentation`; `SyncCalls` is abstract and has none).  No run lists it:
it is proved of every module.  In `Notifications` and `PackageRemoval`, `Init`, `Next`, `Spec` and
`TypeOK` are `NotifyInit`, `RemovalInit` and so on, and so are those of `Segmentation`, because
one module of proofs extends each of these together with another module.

| run | instance | shows |
|---|---|---|
| `registry` (2.1 M) | one node, two connections, two logins each, two zones in any assignment at first, one edit | `OnlineIsSchedulable`: what is in `id_map` is in the upload queue.  `OnlineIsInItsZone`: and in the queue of its zone.  `DoneIsOffline`, `CrashedIsOffline`: who has returned, died or hangs is not in `id_map`.  `WedgeHasReason`: the registry's lock is lost only after a second login on one connection, a repeated response that has blocked its reader, or a third connection |
| `requests` (49 k) | two calls, one displacing login, each answered up to twice | `ImplementsSyncCalls` (refinement): no call gets another's answer, none returns twice.  `EntryIsFound`: what `node.go:481` calls impossible is.  `EveryCallReturns` |
| `tracks` (482 k) | one package, a sender, two receivers, one handler, 3 reports or transfers of a file that was done | `UnfinishedIsTracked`: an unfinished job of a package that is there is found by its users' polls, unless it had finished before.  `TrackedExists`: what is tracked has rows.  `DownloadIsMonitored`: the uploader watches as long as somebody downloads.  `FinishedLeaves` |
| `progress` (1.5 M) | two files, of one segment and of two, one actor at a time, 6 reports, a re-creation, a restart | `DoneIsComplete`, `CacheIsExact`, `AllDoneIsFinished`: row, counter in the cache and files agree.  `NotifiedOnce`, `FinishIsDeserved`: a job is finished once, when it is.  `DoneIsNotPaused`, `ProgressIsKept`: a file that is done is not paused, and one that goes on is not set back |
| `tasks` (27 k) | one task, four reports at any time, two restarts | `OwnIsWatched`: a dispatched task in the table has a timer.  `NilIsUnknown`: a nil for an unknown id does not stay over a task.  `EndIsTold`: nobody counts a task that has gone.  `OwnLeaves` |
| `uploads` (603 k) | two files of a package, three nodes of two storages, two handlers, three requests, a restart, restricted by file | `StorageHoldsAll`: what was uploaded of a file is where its row says.  `StorageHoldsSome`: some of it is, in any mode and race |
| `removal` (259 k) | two files, one empty, uploaded before or not, two delete requests of either kind, one transfer, one receiver, a restart or a statement that fails, goroutines that hang | `LeftIsMissed`: what a removal leaves on the node has a reason.  `FreedHasNoReceiver`: nothing is freed under a receiver, but for those whose jobs could not be deleted.  `MarkedIsFreed` |
| `notify` (274 k) | one call of the observer with up to two events, one publisher, two mailers, three tries | `TokensAreHeld`: the semaphore is what publishers hold.  `MailsArePublished`: no more mails than publications, and of these one, and one more for each that failed.  `LockIsLetGo` |
| `create` (319 k) | two requests of two users within two seconds, each of two or three files where two are allowed, cut segment by segment; errors of any statement, a new configuration, a crash | `OneConfiguration`: the files of a package are cut alike.  `EveryByteOnce`, `AtMostMaxSegNum`: and whole, into few segments.  `ReceiversHaveSender`, `PkgsStay`, `RequestsEnd` |
| `waiting` (46 k) | two connections of one node, one http handler or timer at work, the routine of reports, one answer to a request | `NobodyWaitsInACircle`: over the locks of four managers, of each connection, and three channels.  `ActivitiesEnd`, `ReadersGoOn`: who waits goes on |

**Why these bounds.**  Two connections of one node are a displacement, which all
of the registry's trouble comes from; a second nid shares nothing with it but
the queues, and the proofs below are for any number.  Two calls and a copy of
each answer give every confusion of two entries of a table that is keyed by
a number used once.  Two receivers are the least for which
"the last download" differs from "a download".  Files of one and of two segments
distinguish a task that starts from one that goes on.  Three nodes, two of
which share a storage, tell "the same node" from "the same storage".  One
publisher and a call with two events reach the full semaphore.  The sizes of `create` lie
on both sides of the threshold, with and without remainder; the proofs have all
sizes.  In `removal` a restart and a statement that fails are counted together (`MaxTroubles`): each leaves an
exception of its own in the properties, and the proofs are for any number.  In `waiting` the two readers, the routine and one more goroutine meet at the locks of
every two components that call each other; with a second such goroutine, and one
connection, the three properties hold as well (51 k states), with two connections there are too
many states to see all of them.

**Fairness.**  It is given to goroutines that can run, and to timers, which the Go
runtime schedules: callers of `SendRequestSync` (their 5 seconds pass) and `Close`;
http handlers, `ProcessJob` and the delayed goroutines; `TaskStateRoutine`,
`AddTask` and the timer goroutine of a task; the goroutines of a removal that do not
hang (`Hangs` itself has none); `NotifyManage.Serve` and who waits for it.  Nodes, clients,
administrators, redis and smtp servers get none: they may be silent for ever.  Weak fairness is enough except where a waiter for a
lock or a channel is enabled again and again: `sync.Mutex` hands itself to a waiter
that starves, and a channel serves its waiters in the order they came.  So `FairSpec` of
`PackageCreation`, for the unpacker's lock, and `Waiting`, for each goroutine, are strong.
In `Waiting` nothing is fair that a node or a client begins: a script, once begun, goes on, but
nobody must begin one.

### What the properties say, and what they do not

* A connection that logs in twice and crashes in `Close` stays in `id_map`, and `CrashedIsOffline`
  excepts it.  One whose reader a repeated response has blocked (`choked`) never comes to `Close`: its node
  counts as online, and the next login of that node waits for it with the lock of the registry.
  `WedgeHasReason` says that it takes one of these, or a third connection, for the lock to be lost.
* `OnlineIsInItsZone` is about one administrator at a time (in the proof: all handlers are equal).
* `EveryCallReturns` excepts a node that answers twice (the reader then waits at a
  full channel with `req_lock` held) and a `req_lock` that
  was lost in the panic of a second close of one channel.
* `tracks` has one handler at a time and no job that is created while its last
  transfer ends (`Overlap`); only `DownloadIsMonitored` is true without that, and proved.
  `UnfinishedIsTracked` excepts a finished job that is transferred again (`TransferAgain`): `AddTask` resets
  its detail, its track goes all the same, and comes back when the job is created again or the server restarts.
* `progress` lets one actor work at a time (`Serial`) and no client transfer again what
  it has (`Repeats`); without that its invariants fail, see below.
* `StorageHoldsAll` is about files asked for one request at a time, restricted by file;
  restricted by package it fails (`uploads_split`).
* `DoneIsComplete` is about the time up to the first restart, re-creations included.
* `ProgressIsKept` is about the steps while the observer has a task for some of the segments in hand,
  until the job is created again or the server restarts: after either, a file may begin anew.  Without that it is
  `ResumeKeepsProgress`, which fails.  Of other steps neither says anything: a task for a whole
  file resets it, and what a client says when it resumes may be less than what was counted.
* `FreedHasNoReceiver` excepts receivers that are added after the mark, and those whose rows `deleteJob`
  failed to list or to delete (`kept`): it logs that at most, and the files are removed.
* `LeftIsMissed` has the reasons why a file stays: its row could not be read, its storage was not known, the
  node was away, did not answer or refused (nobody reads the code of its answer), or somebody went
  on uploading.
* `MarkedIsFreed` excepts a removal one of whose goroutines hangs: `SendRequestSync` waits for ever for a
  `req_lock` that a repeated response or a panic in `Close` has taken (`EveryCallReturns` says that nothing
  else keeps it), and a look-up of the node for a registry that is wedged.  It ends with a restart, after
  which nothing goes on with a removal, and with a last mark that is not written; the next
  delete request that marks the package does the whole of it, so it also holds of that one.
  There is one package: that those which come after one that hangs in a list wait as well is not modelled.
* `ReceiversHaveSender` excepts a package whose upload job could not be made (`senderless`): `createPkg` does
  not look at that error.
* `OwnLeaves` is about tasks this server dispatched: one that a late report loaded has no timer.
* `NobodyWaitsInACircle`, `ActivitiesEnd` and `ReadersGoOn` except a lock that was lost in a panic
  (`Wedged`), and a node that answers twice, see below.  The socket is assumed to
  fail by its deadline.
* `AtMostMaxSegNum` needs `min_seg_size >= max_seg_num - 2`, in bytes: true of any
  sensible configuration.

## Disagreements of code and comments

Two are runs of `PROJECT.json` that expect a violation:

* `registry_displaced`: `AddNode` takes the displaced connection out of `id_map` and out
  of no queue, and `DelNode` by nid does not find it any more: uploads go on being
  dispatched to a dead connection (`DoneIsNotScheduled`, `node.go:92`, `rr_upload.go:57`).
* `uploads_split`: restricted by package, the package's resource comes before the
  storage of the file, so another file of the package draws the next segments
  of this one to another node (`SegmentsTogether`, `default_scheduler.go:41` and 62).

The other configurations here are kept as witnesses of known counterexamples:
`tlc -config X.cfg M` shows each in seconds.

| configuration, module | property | what happens |
|---|---|---|
| `registry_unregister`, `MCNodeRegistry` | `OnlyLostNodesGoOffline` | the handler of a displaced connection ends with `Close(true)`, whose `DelNode` takes the *new* connection out (`node.go:528`) |
| `zones_gone`, `MCNodeRegistry` | `DoneIsNotInZone` | a reload that found the node before `DelNode` puts it into a zone after it (`node.go:577`) |
| `zones_stale`, `MCNodeRegistry` | `ZoneIsFresh` | of two reloads at once the older may write last (`node.go:579`) |
| `requests_cleared`, `PendingRequests` | `EntryIsCleared` | a call that was cut off leaves its entry, although "at the end the msg has to be cleared" (`node.go:491`, 498) |
| `tracks_recreated`, `MCJobTracks` | `UnfinishedIsTracked` | the delayed deletion takes the track of a job that was created again (`job.go:768`, 155) |
| `tracks_watch`, `MCJobTracks` | `UploaderWatches` | a receiver is added to a package that is marked deleted: nobody watches (`job.go:176`) |
| `tracks_empty`, `MCJobTracks` | `FinishedLeaves` | a package of empty files is finished at once, no report ever ends it (`job.go:231`) |
| `progress_repeated`, `MCJobProgress` | `FinishIsDeserved` | a repeated report on a DONE file counts again: the job finishes early (`job.go:438`) |
| `progress_again`, `MCJobProgress` | `DoneIsComplete` | a segment transferred twice stands for one that is missing (`job.go:75`, 408) |
| `progress_timeout`, `MCJobProgress` | `DoneIsNotPaused` | `DelTask` checks for DONE and writes PAUSE later (`job.go:401`, cdxs-12) |
| `progress_resumed`, `MCJobProgress` | `ResumeKeepsProgress` | the new task resets what the client has reported (`job.go:362`, `ChangeLog:17`) |
| `progress_interrupted`, `MCJobProgress` | `InterruptPauses` | `job_test.go:321` expects PAUSE of a DONE file, which cdxs-12 forbids |
| `tasks_reloaded`, `TaskLifecycle` | `ObserversBalanced` | a late report loads the task again; its end is told twice (`task.go:341`, `task_test.go:72`) |
| `uploads_twice`, `MCUploadScheduling` | `SegmentsTogether` | two requests at once about a new file (`controllers/transfer.go:347`) |
| `removal_offline`, `PackageRemoval` | `FreedIsGone` | the mark says "removed" though the node was not there (`controllers/pkg.go:1004`) |
| `removal_transferring`, `PackageRemoval` | `BulkSparesTransfers` | a transfer starts after the look for transfers (`controllers/pkg.go:618`) |
| `removal_download`, `PackageRemoval` | `DeleteStopsTasks` | only tasks of the upload job are stopped (`controllers/pkg.go:923`) |
| `waiting_twice`, `Waiting` | `NobodyWaitsInACircle` | a node answers a request twice: its reader waits at the full channel with `req_lock` held, and the caller, whose time is over, for `req_lock` to take its entry out (`node.go:499`) |
| `segs_small`, `MCSegmentation` | `AtMostMaxSegNum` | `min_seg_size` 1: a remainder is cut into several segments (`pkg.go:77`, 43) |

## The proofs

All hold for every value of the constants under the `ASSUME` of the module; they are
checked from nothing by `tlapm`.

| theorem | says | along which argument |
|---|---|---|
| `NodeRegistryProofs!TypeCorrect` | `Spec => []TypeOK`: no reload works on a node that is nil | inductive as it stands, one step per action; on the lemmas `PutKeeps`, `PopKeeps`, `GetKeeps` about `RoundRobin` (queues of any length keep their type; put contains the unit and whatever was there; get loses none) |
| `...!OnlineSchedulable`, `...!DoneOffline` | `[]OnlineIsSchedulable`, `[]DoneIsOffline` | `RegistryInv`: whoever is in `id_map` is there under its own nid only, in the upload queue, has logged in and has not returned.  So `DelNode`, which works by nid, takes out of the queue the very connection that it takes out of `id_map`, and no handler that has registered returns without it |
| `...!CrashedOffline`, `!WedgeNeedsReason` | `[]CrashedIsOffline`, `[]WedgeHasReason` | who has logged in once is displaced once, and its `req_lock` is lost only in a second `Close` or to a response that was repeated; the counts are of finite sets (`Conn` is one) |
| `...!OnlineInZone` | `[]OnlineIsInItsZone`, if all administrators are one (`OneAdmin`) | `ZoneInv`: from the reading of the row to the assignment nothing writes the row, and a queue keeps a node unless `DelNode` takes it |
| `PendingRequestsProofs!EntriesAreFound` | `[]EntryIsFound` | `IInv`: an entry stands under the number of its request, numbers are used once, a call that has not left finds its own entry |
| `...!CallsAreSync` | `Spec => ImplementsSyncCalls`, the refinement | by `IInv`, an answer in a channel is that of the request which waits there; each step maps to a return of one call or to a stutter |
| `JobTracksProofs!TypeCorrect`, `!DownloadMonitored` | `[]DownloadIsMonitored`, any number of handlers, with overlap | `HasUpload`: every download that has a row, or a handler has in hand, belongs to an upload with a row, so that creating an upload cannot come after its downloads; `InHand`: what the handlers have in hand; `MarksUploads`: only uploads are marked |
| `...!UnfinishedTracked`, `!TrackedExist` | `[]UnfinishedIsTracked`, `[]TrackedExists`, for one handler without `Overlap` | `Sole`: what the handler has yet to do for the job in its hand |
| `TaskLifecycleProofs!TypeCorrect`, `!OwnWatched`, `!NilUnknown`, `!EndTold` | the three invariants | `Order` adds where timer and table are while `AddTask` runs: the timer is started before the task is registered and must still wait when it is; `InHand`: a report in hand is of a task with a row, unless it is nil |
| `UploadSchedulingProofs!TypeCorrect`, `!HoldsSome` | `[]StorageHoldsSome`, any mode, any number of requests | what a handler is about to write as storage is that of the node that got the segments |
| `...!HoldsAll` | `[]StorageHoldsAll`, restricted by file (`Mode = "fid"`) | `AllInv`: the one handler of a file has seen its storage, and the file's resource is a node of that storage unless the handler is about to write it |
| `PackageCreationProofs!SegTypeCorrect`, `!BytesAreCutOnce`, `!SegsAreBounded` | the segments add up to the file; at most `max_seg_num` of them, if `MinSegSize + 2 >= MaxSegNum` | `IInv` says that all segments so far are full and the rest is what they leave; the bound is then the lemma `FileFits`, by cases of size against threshold and divisor |
| `...!CreationTypeCorrect`, `!FilesAreCutAlike`, `!SendersAreMadeFirst`, `!RowsStay` | `[]OneConfiguration`, `[]ReceiversHaveSender`, `PkgsStay`, any number of requests and crashes | `Stage`: what a handler at each place of `createPkg` has done so far; only the one with the lock is at a place where the configuration matters |
| `...!ImplementsSegmentation`, `!BytesOfPackages`, `!SegsOfPackages` | `Spec => SegSpec`, so the theorems on files hold in packages | a step either cuts, by a step of `Segmentation`, or leaves its variables alone |
| `JobProgressProofs!TypeCorrect` | `[]TypeOK`, whatever interleaves | `Types`: with the objects in memory and what each actor has in hand |
| `...!DoneComplete`, `!CacheExact`, `!AllDoneFinished`, `!NotifyOnce` | the invariants of `progress`, if `Serial /\ ~Repeats` | `SerialInv`, see below |
| `...!FinishDeserved`, `!DoneNotPaused`, `!ProgressKept` | its action properties, if `Serial /\ ~Repeats` | `RowsStep`: a step keeps what counts of the rows, or changes one detail, that of the actor who works, as `SerialInv` allows |
| `...!NotifyTypeCorrect`, `!NoTokenLost`, `!MailsHaveSource` | `[]TokensAreHeld`, `[]MailsArePublished` | `NotifyInv`: the semaphore is the number of publishers (a finite set); an event is taken up by one publisher at most, and each of its tries reaches redis once at most, and all but the last of them have failed; mails and the messages on their way to a mail are together no more than that |
| `PendingRequestsProofs!RemovalTypeCorrect`, `!LeftHasReason`, `!FreedUnderNobody` | `[]LeftIsMissed`, `[]FreedHasNoReceiver` | `Receivers`: a receiver that is not in the list of one who deletes jobs came after the mark, or could not be listed or deleted; `Files`: what a removal has done with and the node has is in `missed` or `rewritten`, whatever another removal of the same package does |
| `WaitingProofs!TypeCorrect` | `[]TypeOK`, any number of answers | one step per kind of instruction of the scripts |
| `...!NobodyWaits` | `[]NobodyWaitsInACircle`, if `MaxCopies <= 1` | ranks of locks, see below |

Every safety property of every passing run is stated by a theorem.  The three longest arguments:

**One job, one actor at a time.**  None of the four invariants of `progress` is inductive: the
counter in the cached object, the rows and the detail in the actor's hand agree only between
two sections.  `SerialInv` says what they are at each place of the one actor who works:
`Working` (the cached object is that of the actor or none; it is `Exact`, equal to the rows with the
right counter, except at two places, where it is `Ahead` of them in the actor's detail),
`Ending` (when all details are DONE, and the job is not, the actor is on its way to see it),
`Telling` (the publication is due, or was made), and, until a restart loses what was not yet
saved, `Counted` (no more segments in a row than were transferred).  The counter is
`Cardinality` of the details that are not DONE, and each step changes one detail.  `Serial` and
`~Repeats` are hypotheses because the code has neither guarantee: the witnesses
`progress_timeout`, `progress_repeated` and `progress_again` show what fails without them.

**A removal.**  Two delete requests may run at once, and each holds of the other only what both keep:
nothing unmarks a package, `jobs` loses users or gains them with a note in `late`, `data` loses
files or gains them with a note in `rewritten`.  `RemoverInv` and `OthersInv` are this, as two
lemmas about any step of a delete request and any step of somebody else.

**Nobody waits in a circle.**  Each lock has a rank (`LockRank`): the task manager's 1, those of the
restricted scheduler and of the job manager 2, the node manager's 3, that of a connection 4.  A process
has the rank of what it asks for next (`AskRank`), 0 at `StateChan`, 5 when it asks for no lock.
`ScriptInv` says of the script of every process that each lock it holds is let go at some place, up to
which it asks for higher ranks only, and which it cannot miss (`Covered`).  So who waits for a lock has
a lower rank than who holds it, and who waits at `StateChan` a lower one than the routine, which
never asks there (`RanksGrow`); of any set of processes, one of the highest rank waits for none of the
others.  A third wait, of a reader for a full channel with `req_lock` held, does not come up when a
node answers once, which is the hypothesis; `waiting_twice` is the circle it makes otherwise.

Model-checked only: everything with `~>` or `<>`, because liveness is out of the prover's reach
(`EveryCallReturns`, `FinishedLeaves`, `OwnLeaves`, `MarkedIsFreed`, `LockIsLetGo`, `RequestsEnd`,
`ActivitiesEnd`, `ReadersGoOn`); that the mutants break their properties; and the disagreements above.

The assumptions of the modules which the proofs needed are that a job has finitely many files and
at least one that has segments (a package of none is finished by no report, as
`tracks_empty` shows), that there are finitely many connections, and that the names of processes
and of locks and the values `Free` and `Lost` differ.

## Not modelled

* Handlers that only read, users, statistics (which `main.go:350` does not register),
  the database layer, parsing and formatting: no shared state of their own.
* `handleRegister`, which makes a node's row; zones that come and go; free space.
* The counter of unfinished files in races: `JobProgress` has them (`Serial = FALSE`), as
  counterexamples, no invariant is claimed.
* What a node does with a request that the server gave up, beyond its reports.
* The wrap of the threshold: `Segmentation` assumes that the product fits a word, and that
  `max_seg_num` is at least 1 (`main.go` lets 0 pass).
* The login time, which is saved from an object of the row that was read before, and with it the
  zone: a zone that was edited in between is written back (`node.go:250`).
* Reads of a task that the database fails: `GetTask` then keeps a nil, as for an id it does not know.
* A task that a late report loads has no timer; that it may stay is noted as a hazard, not stated.

## Plan

Done, in this order: `RoundRobin`, `NodeRegistry`, `PendingRequests` on `SyncCalls`,
`JobTracks`, `JobProgress`, `TaskLifecycle`, `UploadScheduling`, `PackageRemoval`,
`Notifications`, `Segmentation`, `PackageCreation`, then its composition with `Segmentation`, and
`Waiting` over all; proofs of all type invariants and of all safety properties of the runs, and of two
refinements.  Next:

1. Abstract specifications: a registry that is a function from nid to the
   last login, which `NodeRegistry` implements up to the stale queue entries; a job that
   finishes once, for `JobProgress`.
2. `NodeRegistry`: the write-back of a zone at login.  Compositions: removal marks with
   the events of `Notifications` (an event of a marked package has no owner).
3. Zones that are created and deleted; `calcZoneStorage` and the bitrate statistics as pure
   algorithms.

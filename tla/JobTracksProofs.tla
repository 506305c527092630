-------------------------- MODULE JobTracksProofs --------------------------
(***************************************************************************)
(* Theorems about JobTracks, for any users, packages, number of handlers   *)
(* and reports, whether or not jobs are created again while they end.      *)
(*                                                                         *)
(* DownloadIsMonitored is not inductive: CreateNew of an upload would      *)
(* break it if a download of the package were tracked before.  HasUpload   *)
(* rules that out; it needs the jobs the handlers hold, for they are       *)
(* tracked later.                                                          *)
(*                                                                         *)
(* The other two, UnfinishedIsTracked and TrackedExists, are about one     *)
(* handler, and no job that is created while its last transfer ends        *)
(* (~Overlap): Sole says what the one handler has yet to do for the job it *)
(* has in hand, and with that they are inductive.                          *)
(***************************************************************************)
EXTENDS JobTracks, TLAPS

(* What a handler may have in hand: the record of a handler, ...           *)
Hand == [pc: {"idle", "reset", "track", "delete", "untrack"},
         job: Job \cup {NoJob}, todo: SUBSET Job, pkg: Job \cup {NoJob}]

(* ... the job that its next step is about, and only downloads to delete;  *)
(* the upload of a download about to be tracked is among the rows R.       *)
HandOK(r, R) ==
    /\ r.pc \in {"reset", "track", "untrack"} => r.job \in Job
    /\ r.pc \in {"reset", "track"} /\ r.job.typ = "D" => Upload(r.job.pid) \in R
    /\ r.pc = "delete" => r.pkg \in Job
    /\ \A j \in r.todo : j.typ = "D"
InHand == \A h \in Handler : HandOK(handler[h], rows)

(* Every download that is stored or tracked has an upload in the database. *)
HasUpload == \A j \in rows \cup tracks : j.typ = "D" => Upload(j.pid) \in rows

(* Only uploads are marked as deleted, downloads are removed.              *)
MarksUploads == \A j \in softDel : j.typ = "U"

IInv ==
    /\ TypeOK /\ InHand /\ HasUpload /\ MarksUploads
    /\ DownloadIsMonitored

-----------------------------------------------------------------------------
LEMMA UploadIsJob == ASSUME NEW p \in Pid PROVE Upload(p) \in Job
  BY TracksAssumption DEF Upload, Job

LEMMA JobFields ==
    ASSUME NEW j \in Job
    PROVE  /\ j.pid \in Pid
           /\ j.typ \in {"U", "D"}
           /\ j.typ = "U" => j = Upload(j.pid)
           /\ Upload(j.pid) \in Job
           /\ Upload(j.pid).typ = "U" /\ Upload(j.pid).pid = j.pid
<1>1. j \in [uid: Uid, pid: Pid, typ: {"U", "D"}]
  BY DEF Job
<1>2. j.typ = "U" => j.uid = Owner[j.pid]
  BY DEF Job
<1>3. j.typ = "U" => j = Upload(j.pid)
  BY <1>1, <1>2 DEF Upload
<1> QED
  BY <1>1, <1>3, UploadIsJob DEF Upload

(* T monitors its downloads as far as the uploads U exist.                 *)
Monitors(T, U) ==
    \A j \in T : j.typ = "D" => ({Upload(j.pid)} \cap U) \subseteq T

(* DelTrack removes an upload only together with the last download of its  *)
(* package.                                                                *)
LEMMA DelTrackMonitors ==
    ASSUME NEW T \in SUBSET Job, NEW U \in SUBSET Job, NEW j \in Job,
           Monitors(T, U), NEW F
    PROVE  DelTrack(T, j, F) \subseteq T /\ Monitors(DelTrack(T, j, F), U)
<1> DEFINE up == Upload(j.pid)
           left == T \ {j}
<1>1. CASE j.typ = "U" /\ Downloads(T, j.pid) # {}
  BY <1>1 DEF DelTrack
<1>2. CASE ~(j.typ = "U" /\ Downloads(T, j.pid) # {})
           /\ Downloads(left, j.pid) = {} /\ up \in F
  <2>1. DelTrack(T, j, F) = left \ {up}
    BY <1>2 DEF DelTrack
  <2>2. ASSUME NEW k \in left \ {up}, k.typ = "D", Upload(k.pid) \in U
        PROVE  Upload(k.pid) \in left \ {up}
    <3>1. k \in Job /\ k.pid # j.pid
      BY <1>2, <2>2 DEF Downloads
    <3>2. Upload(k.pid) \in T
      BY <2>2 DEF Monitors
    <3>3. Upload(k.pid) # up
      BY <3>1, JobFields
    <3>4. Upload(k.pid) # j
      BY <3>1, JobFields
    <3> QED
      BY <3>2, <3>3, <3>4
  <2> QED
    BY <2>1, <2>2 DEF Monitors
<1>3. CASE ~(j.typ = "U" /\ Downloads(T, j.pid) # {})
           /\ ~(Downloads(left, j.pid) = {} /\ up \in F)
  <2>1. DelTrack(T, j, F) = left
    BY <1>3 DEF DelTrack
  <2>2. ASSUME NEW k \in left, k.typ = "D", Upload(k.pid) \in U
        PROVE  Upload(k.pid) \in left
    <3>1. k \in Job /\ Upload(k.pid) \in T
      BY <2>2 DEF Monitors
    <3>2. ASSUME Upload(k.pid) = j PROVE FALSE
      <4>1. j.typ = "U" /\ j.pid = k.pid
        BY <3>1, <3>2, JobFields
      <4>2. k \in Downloads(T, j.pid)
        BY <2>2, <4>1 DEF Downloads
      <4> QED
        BY <1>3, <4>1, <4>2
    <3> QED
      BY <3>1, <3>2
  <2> QED
    BY <2>1, <2>2 DEF Monitors
<1> QED
  BY <1>1, <1>2, <1>3

LEMMA MonitoredIs == DownloadIsMonitored <=> Monitors(tracks, rows \ softDel)
  BY DEF DownloadIsMonitored, Monitors, Monitored

(* AddTracks adds a download together with its upload.                     *)
LEMMA AddTracksMonitors ==
    ASSUME NEW j \in Job, TypeOK, DownloadIsMonitored
    PROVE  /\ tracks \subseteq AddTracks(j) /\ AddTracks(j) \subseteq Job
           /\ Monitors(AddTracks(j), rows \ softDel)
           /\ \A k \in AddTracks(j) : k.typ = "D" => k \in tracks \cup {j}
<1>1. Upload(j.pid) \in Job /\ Upload(j.pid).typ = "U"
  BY JobFields
<1>2. AddTracks(j) \subseteq Job /\ tracks \subseteq AddTracks(j)
  BY <1>1 DEF AddTracks, Monitored, TypeOK
<1>3. \A k \in AddTracks(j) : k.typ = "D" => k \in tracks \cup {j}
  BY <1>1 DEF AddTracks, Monitored
<1>4. ASSUME NEW k \in AddTracks(j), k.typ = "D", Upload(k.pid) \in rows \ softDel
      PROVE  Upload(k.pid) \in AddTracks(j)
  <2>1. CASE k = j
    BY <1>4, <2>1 DEF AddTracks, Monitored
  <2>2. CASE k \in tracks
    <3>1. Upload(k.pid) \in tracks
      BY <1>4, <2>2 DEF DownloadIsMonitored, Monitored
    <3> QED
      BY <1>2, <3>1
  <2> QED
    BY <1>3, <1>4, <2>1, <2>2
<1> QED
  BY <1>2, <1>3, <1>4 DEF Monitors

-----------------------------------------------------------------------------
(* The handler h gets the record r; no upload is lost.                     *)
LEMMA HandsStep ==
    ASSUME TypeOK, InHand, NEW h \in Handler, NEW r \in Hand,
           handler' = [handler EXCEPT ![h] = r], HandOK(r, rows'),
           \A j \in rows : j.typ = "U" => j \in rows'
    PROVE  handler' \in [Handler -> Hand] /\ InHand'
<1>1. handler \in [Handler -> Hand]
  BY DEF TypeOK, Hand
<1>2. handler' \in [Handler -> Hand]
  BY <1>1
<1>3. ASSUME NEW g \in Handler, g # h
      PROVE  HandOK(handler'[g], rows')
  <2>1. handler'[g] = handler[g] /\ HandOK(handler[g], rows)
    BY <1>1, <1>3 DEF InHand
  <2>2. handler[g].pc \in {"reset", "track"} => Upload(handler[g].job.pid).typ = "U"
    BY DEF Upload
  <2> QED
    BY <2>1, <2>2 DEF HandOK
<1>4. handler'[h] = r
  BY <1>1
<1> QED
  BY <1>2, <1>3, <1>4 DEF InHand

(* Without a change of the handlers, as long as no upload is lost.         *)
LEMMA HandsStay ==
    ASSUME TypeOK, InHand, UNCHANGED handler, UNCHANGED rows
    PROVE  handler' \in [Handler -> Hand] /\ InHand'
  BY DEF TypeOK, InHand, Hand, HandOK

(* What is left to show of a step.                                         *)
LEMMA Parts ==
    ASSUME handler' \in [Handler -> Hand] /\ InHand',
           rows' \subseteq Job, unfinished' \subseteq rows', softDel' \subseteq rows',
           again' \subseteq unfinished',
           tracks' \subseteq Job, deletes' \subseteq Job, processing' \subseteq Job,
           delayed' \in [Job -> Nat], reports' \in 0..MaxReports,
           HasUpload', MarksUploads', Monitors(tracks', rows' \ softDel')
    PROVE  IInv'
<1>1. DownloadIsMonitored'
  BY DEF DownloadIsMonitored, Monitors, Monitored
<1> QED
  BY <1>1 DEF IInv, TypeOK, Hand

-----------------------------------------------------------------------------
(* One lemma per action.                                                   *)
LEMMA InitInv == Init => IInv
<1> SUFFICES ASSUME Init PROVE IInv
  OBVIOUS
<1>1. Idle \in Hand
  BY DEF Idle, Hand
<1>2. TypeOK
  BY <1>1, TracksAssumption DEF Init, TypeOK, Hand
<1>3. InHand
  BY DEF Init, InHand, HandOK, Idle
<1> QED
  BY <1>2, <1>3 DEF Init, IInv, HasUpload, MarksUploads, DownloadIsMonitored

LEMMA CreateNewInv ==
    ASSUME IInv, NEW h \in Handler, NEW j \in Job, CreateNew(h, j)
    PROVE  IInv'
<1> USE DEF IInv
<1> DEFINE r == [Idle EXCEPT !.pc = "track", !.job = j]
<1>1. r \in Hand /\ HandOK(r, rows')
  BY DEF Idle, Hand, HandOK, CreateNew
<1>2. handler' = [handler EXCEPT ![h] = r]
  BY DEF CreateNew, Goto, TypeOK
<1>3. handler' \in [Handler -> Hand] /\ InHand'
  <2> HIDE DEF r
  <2> QED
    BY <1>1, <1>2, HandsStep DEF CreateNew
<1>4. /\ rows' = rows \cup {j} /\ rows' \subseteq Job
      /\ unfinished' \subseteq rows' /\ softDel' \subseteq rows'
      /\ again' \subseteq unfinished'
      /\ j \notin rows /\ j.typ = "D" => Upload(j.pid) \in rows
  BY DEF CreateNew, Reset, TypeOK
<1>5. UNCHANGED <<softDel, tracks, deletes, processing, delayed, reports>>
  BY DEF CreateNew, trackVars, finishVars
<1>6. HasUpload' /\ MarksUploads'
  BY <1>4, <1>5 DEF HasUpload, MarksUploads
<1>7. Monitors(tracks', rows' \ softDel')
  <2>1. \A k \in tracks : k.typ = "D" => Upload(k.pid) \in rows
    BY DEF HasUpload
  <2>2. Monitors(tracks, rows \ softDel)
    BY MonitoredIs
  <2> QED
    BY <1>4, <1>5, <2>1, <2>2 DEF Monitors
<1> QED
  BY <1>3, <1>4, <1>5, <1>6, <1>7, Parts DEF TypeOK

(* Both ends of CreateJob: the job in hand is tracked.                     *)
LEMMA TrackInv ==
    ASSUME IInv, NEW h \in Handler, handler[h].pc \in {"reset", "track"},
           tracks' = AddTracks(handler[h].job),
           handler' = [handler EXCEPT ![h] = Idle],
           unfinished' \subseteq rows, again' \subseteq unfinished',
           UNCHANGED <<rows, softDel, deletes, finishVars>>
    PROVE  IInv'
<1> USE DEF IInv
<1>1. Idle \in Hand /\ HandOK(Idle, rows')
  BY DEF Idle, Hand, HandOK
<1>2. handler' \in [Handler -> Hand] /\ InHand'
  BY <1>1, HandsStep
<1>3. HandOK(handler[h], rows)
  BY DEF InHand
<1>4. PICK j \in Job : j = handler[h].job
  BY <1>3 DEF HandOK
<1>5. j.typ = "D" => Upload(j.pid) \in rows
  BY <1>3, <1>4 DEF HandOK
<1>6. /\ tracks' \subseteq Job
      /\ Monitors(tracks', rows \ softDel)
      /\ \A k \in tracks' : k.typ = "D" => k \in tracks \cup {j}
  BY <1>4, AddTracksMonitors
<1>7. HasUpload' /\ MarksUploads'
  BY <1>5, <1>6 DEF HasUpload, MarksUploads
<1> QED
  BY <1>2, <1>6, <1>7, Parts DEF TypeOK, finishVars

LEMMA CreateAgainInv ==
    ASSUME IInv, NEW h \in Handler, NEW j \in Job, CreateAgain(h, j)
    PROVE  IInv'
<1> USE DEF IInv
<1> DEFINE r == [Idle EXCEPT !.pc = "reset", !.job = j]
<1>1. r \in Hand /\ HandOK(r, rows')
  BY DEF Idle, Hand, HandOK, CreateAgain, HasUpload, dbVars
<1>2. handler' = [handler EXCEPT ![h] = r]
  BY DEF CreateAgain, Goto, TypeOK
<1>3. handler' \in [Handler -> Hand] /\ InHand'
  <2> HIDE DEF r
  <2> QED
    BY <1>1, <1>2, HandsStep DEF CreateAgain, dbVars
<1>4. UNCHANGED <<rows, unfinished, softDel, again, tracks, deletes, processing,
                  delayed, reports>>
  BY DEF CreateAgain, dbVars, trackVars, finishVars
<1>5. HasUpload' /\ MarksUploads' /\ Monitors(tracks', rows' \ softDel')
  BY <1>4, MonitoredIs DEF HasUpload, MarksUploads
<1> QED
  BY <1>3, <1>4, <1>5, Parts DEF TypeOK
(* Rows of downloads go: nothing relies on them.                           *)
LEMMA DeleteRowInv ==
    ASSUME IInv, NEW h \in Handler, NEW j \in Job, DeleteRow(h, j)
    PROVE  IInv'
<1> USE DEF IInv
<1> DEFINE gone == [handler[h] EXCEPT !.pc = "untrack", !.job = j]
           next == [handler[h] EXCEPT !.todo = @ \ {j}]
<1>1. handler[h] \in Hand /\ HandOK(handler[h], rows)
  BY DEF TypeOK, Hand, InHand
<1>2. j.typ = "D"
  BY <1>1 DEF DeleteRow, HandOK
<1>3. UNCHANGED <<softDel, tracks, deletes, processing, delayed, reports>>
  BY DEF DeleteRow, trackVars, finishVars
<1>4. CASE j \in rows
  <2>1. /\ rows' = rows \ {j} /\ unfinished' = unfinished \ {j}
        /\ again' = again \ {j}
        /\ handler' = [handler EXCEPT ![h].pc = "untrack", ![h].job = j]
    BY <1>4 DEF DeleteRow, Goto
  <2>2. \A k \in rows : k.typ = "U" => k \in rows'
    BY <1>2, <2>1
  <2>3. gone \in Hand
    BY <1>1 DEF Hand
  <2>4. HandOK(gone, rows')
    BY <1>1 DEF HandOK, Hand
  <2>5. handler' = [handler EXCEPT ![h] = gone]
    BY <2>1 DEF TypeOK
  <2>6. handler' \in [Handler -> Hand] /\ InHand'
    <3> HIDE DEF gone
    <3> QED
      BY <2>2, <2>3, <2>4, <2>5, HandsStep
  <2>7. softDel' \subseteq rows' /\ MarksUploads'
    BY <1>2, <1>3, <2>1 DEF TypeOK, MarksUploads
  <2>8. HasUpload'
    <3>1. \A k \in Job : Upload(k.pid) \in rows => Upload(k.pid) \in rows'
      BY <2>2, JobFields
    <3>2. rows \cup tracks \subseteq Job
      BY DEF TypeOK
    <3> QED
      BY <1>3, <2>1, <3>1, <3>2 DEF HasUpload
  <2>9. Monitors(tracks', rows' \ softDel')
    <3>1. Monitors(tracks, rows \ softDel)
      BY MonitoredIs
    <3> QED
      BY <1>3, <2>1, <3>1 DEF Monitors
  <2> QED
    BY <1>3, <2>1, <2>6, <2>7, <2>8, <2>9, Parts DEF TypeOK
<1>5. CASE j \notin rows
  <2>1. UNCHANGED <<rows, unfinished, again>>
        /\ handler' = [handler EXCEPT ![h].todo = @ \ {j}]
    BY <1>5 DEF DeleteRow
  <2>2. next \in Hand
    BY <1>1 DEF Hand
  <2>3. HandOK(next, rows')
    BY <1>1, <2>1 DEF HandOK, Hand
  <2>4. handler' = [handler EXCEPT ![h] = next]
    BY <2>1 DEF TypeOK
  <2>5. handler' \in [Handler -> Hand] /\ InHand'
    <3> HIDE DEF next
    <3> QED
      BY <2>1, <2>2, <2>3, <2>4, HandsStep
  <2>6. HasUpload' /\ MarksUploads' /\ Monitors(tracks', rows' \ softDel')
    BY <1>3, <2>1, MonitoredIs DEF HasUpload, MarksUploads
  <2> QED
    BY <1>3, <2>1, <2>5, <2>6, Parts DEF TypeOK
<1> QED
  BY <1>4, <1>5

(* A job leaves the tracks, alone or with its upload.                      *)
LEMMA DelTrackInv ==
    ASSUME IInv, NEW j \in Job, \E F \in Finished : tracks' = DelTrack(tracks, j, F),
           handler' \in [Handler -> Hand] /\ InHand',
           deletes' \subseteq Job, processing' \subseteq Job,
           delayed' \in [Job -> Nat], reports' \in 0..MaxReports,
           UNCHANGED dbVars
    PROVE  IInv'
<1> USE DEF IInv
<1>1. UNCHANGED <<rows, unfinished, softDel, again>>
  BY DEF dbVars
<1>2. tracks' \subseteq tracks /\ Monitors(tracks', rows \ softDel)
  <2>1. tracks \in SUBSET Job /\ rows \ softDel \in SUBSET Job
    BY DEF TypeOK
  <2> QED
    BY <2>1, MonitoredIs, DelTrackMonitors
<1>3. HasUpload' /\ MarksUploads'
  BY <1>1, <1>2 DEF HasUpload, MarksUploads
<1> QED
  BY <1>1, <1>2, <1>3, Parts DEF TypeOK

LEMMA UntrackRowInv ==
    ASSUME IInv, NEW h \in Handler, UntrackRow(h)
    PROVE  IInv'
<1> USE DEF IInv
<1> DEFINE back == [handler[h] EXCEPT !.pc = "delete", !.job = NoJob,
                                      !.todo = @ \ {handler[h].job}]
<1>1. handler[h] \in Hand /\ HandOK(handler[h], rows)
  BY DEF TypeOK, Hand, InHand
<1>2. handler[h].job \in Job
  BY <1>1 DEF UntrackRow, HandOK
<1>3. UNCHANGED dbVars /\ UNCHANGED rows
  BY DEF UntrackRow, dbVars
<1>4. ASSUME handler[h].pkg = NoJob
      PROVE  handler' \in [Handler -> Hand] /\ InHand'
  <2>1. Idle \in Hand /\ HandOK(Idle, rows')
    BY DEF Idle, Hand, HandOK
  <2>2. handler' = [handler EXCEPT ![h] = Idle]
    BY <1>4 DEF UntrackRow
  <2> QED
    BY <1>3, <2>1, <2>2, HandsStep
<1>5. ASSUME handler[h].pkg # NoJob
      PROVE  handler' \in [Handler -> Hand] /\ InHand'
  <2>1. back \in Hand
    BY <1>1 DEF Hand
  <2>2. HandOK(back, rows')
    BY <1>1, <1>5 DEF HandOK, Hand
  <2>3. handler' = [handler EXCEPT ![h] = back]
    BY <1>5 DEF UntrackRow
  <2> HIDE DEF back
  <2> QED
    BY <1>3, <2>1, <2>2, <2>3, HandsStep
<1>6. handler' \in [Handler -> Hand] /\ InHand'
  BY <1>4, <1>5
<1>7. /\ \E F \in Finished : tracks' = DelTrack(tracks, handler[h].job, F)
      /\ deletes' = deletes \cup {handler[h].job}
      /\ UNCHANGED <<processing, delayed, reports>>
  BY DEF UntrackRow, finishVars
<1> QED
  BY <1>2, <1>3, <1>6, <1>7, DelTrackInv DEF TypeOK

LEMMA DeletePkgInv ==
    ASSUME IInv, NEW h \in Handler, NEW p \in Pid, DeletePkg(h, p)
    PROVE  IInv'
<1> USE DEF IInv
<1> DEFINE r == [pc |-> "delete", job |-> NoJob, pkg |-> Upload(p),
                 todo |-> Downloads(rows, p)]
<1>1. UNCHANGED <<rows, unfinished, again, tracks, deletes, processing, delayed, reports>>
  BY DEF DeletePkg, trackVars, finishVars
<1>2. r \in Hand
  <2>1. Downloads(rows, p) \subseteq Job
    BY DEF Downloads, TypeOK
  <2> QED
    BY <2>1, UploadIsJob DEF Hand
<1>3. HandOK(r, rows')
  BY UploadIsJob DEF HandOK, Downloads
<1>4. handler' = [handler EXCEPT ![h] = r]
  BY DEF DeletePkg
<1>5. handler' \in [Handler -> Hand] /\ InHand'
  <2> HIDE DEF r
  <2> QED
    BY <1>1, <1>2, <1>3, <1>4, HandsStep
<1>6. softDel' = softDel \cup {Upload(p)} /\ Upload(p) \in rows
  BY DEF DeletePkg
<1>7. HasUpload' /\ MarksUploads'
  BY <1>1, <1>6 DEF HasUpload, MarksUploads, Upload
<1>8. Monitors(tracks', rows' \ softDel')
  <2>1. Monitors(tracks, rows \ softDel)
    BY MonitoredIs
  <2> QED
    BY <1>1, <1>6, <2>1 DEF Monitors
<1> QED
  BY <1>1, <1>5, <1>6, <1>7, <1>8, Parts DEF TypeOK

LEMMA UntrackPkgInv ==
    ASSUME IInv, NEW h \in Handler, UntrackPkg(h)
    PROVE  IInv'
<1> USE DEF IInv
<1>1. handler[h].pkg \in Job
  BY DEF UntrackPkg, InHand, HandOK
<1>2. Idle \in Hand /\ HandOK(Idle, rows')
  BY DEF Idle, Hand, HandOK
<1>3. handler' \in [Handler -> Hand] /\ InHand'
  BY <1>2, HandsStep DEF UntrackPkg, dbVars
<1>4. /\ \E F \in Finished : tracks' = DelTrack(tracks, handler[h].pkg, F)
      /\ UNCHANGED dbVars
      /\ UNCHANGED <<deletes, processing, delayed, reports>>
  BY DEF UntrackPkg, finishVars
<1> QED
  BY <1>1, <1>3, <1>4, DelTrackInv DEF TypeOK

LEMMA DelayedDeleteInv ==
    ASSUME IInv, NEW j \in Job, DelayedDelete(j)
    PROVE  IInv'
<1> USE DEF IInv
<1>1. delayed' \in [Job -> Nat]
  BY DEF DelayedDelete, TypeOK
<1>2. handler' \in [Handler -> Hand] /\ InHand'
  BY HandsStay DEF DelayedDelete, dbVars
<1>3. /\ \E F \in Finished : tracks' = DelTrack(tracks, j, F)
      /\ UNCHANGED dbVars
      /\ UNCHANGED <<deletes, processing, reports>>
  BY DEF DelayedDelete
<1> QED
  BY <1>1, <1>2, <1>3, DelTrackInv DEF TypeOK

(* Steps that leave rows, marks and tracks alone.                          *)
LEMMA QuietInv ==
    ASSUME IInv, UNCHANGED <<rows, softDel, tracks, handler>>,
           unfinished' \subseteq rows, again' \subseteq unfinished',
           deletes' \subseteq Job, processing' \subseteq Job,
           delayed' \in [Job -> Nat], reports' \in 0..MaxReports
    PROVE  IInv'
<1> USE DEF IInv
<1>1. handler' \in [Handler -> Hand] /\ InHand'
  BY HandsStay
<1>2. HasUpload' /\ MarksUploads' /\ Monitors(tracks', rows' \ softDel')
  BY MonitoredIs DEF HasUpload, MarksUploads
<1> QED
  BY <1>1, <1>2, Parts DEF TypeOK

LEMMA RestartInv ==
    ASSUME IInv, Restart
    PROVE  IInv'
<1> USE DEF IInv
<1> DEFINE open == unfinished \ softDel
           loaded == open \cup UNION {Monitored(j) : j \in {d \in open : d.typ = "D"}}
<1>1. tracks' = loaded /\ UNCHANGED <<rows, unfinished, softDel, reports>>
  BY DEF Restart, dbVars
<1>2. loaded \subseteq rows
  BY DEF Monitored, TypeOK
<1>3. rows \subseteq Job /\ MarksUploads' /\ HasUpload'
  BY <1>1, <1>2 DEF TypeOK, HasUpload, MarksUploads
<1>4. handler' \in [Handler -> Hand] /\ InHand'
  <2>1. Idle \in Hand /\ HandOK(Idle, rows')
    BY DEF Idle, Hand, HandOK
  <2>2. handler' = [h \in Handler |-> Idle]
    BY DEF Restart
  <2> QED
    BY <2>1, <2>2 DEF InHand
<1>5. ASSUME NEW k \in loaded, k.typ = "D", Upload(k.pid) \in rows \ softDel
      PROVE  Upload(k.pid) \in loaded
  <2>1. k \in open
    <3>1. ASSUME NEW d \in open, k \in Monitored(d)
          PROVE  FALSE
      BY <1>5, <3>1 DEF Monitored, Upload
    <3> QED
      BY <3>1
  <2>2. Upload(k.pid) \in Monitored(k)
    BY <1>5 DEF Monitored
  <2> QED
    BY <1>5, <2>1, <2>2
<1>6. Monitors(tracks', rows' \ softDel')
  <2> HIDE DEF loaded
  <2> QED
    BY <1>1, <1>5 DEF Monitors
<1>7. /\ deletes' = {} /\ processing' = {} /\ again' = {}
      /\ delayed' = [j \in Job |-> 0]
  BY DEF Restart
<1> QED
  BY <1>1, <1>2, <1>3, <1>4, <1>6, <1>7, Parts DEF TypeOK

-----------------------------------------------------------------------------
LEMMA StepInv == IInv /\ [Next]_vars => IInv'
<1> SUFFICES ASSUME IInv, [Next]_vars PROVE IInv'
  OBVIOUS
<1>1. ASSUME NEW h \in Handler, HandlerStep(h)
      PROVE  IInv'
  <2>1. CASE TrackNew(h)
    <3>1. /\ unfinished' \subseteq rows /\ again' \subseteq unfinished'
          /\ UNCHANGED <<rows, softDel, deletes, finishVars>>
      BY <2>1 DEF TrackNew, dbVars, IInv, TypeOK
    <3> QED
      BY <2>1, <3>1, TrackInv DEF TrackNew
  <2>2. CASE TrackAgain(h)
    <3>1. unfinished' \subseteq rows /\ again' \subseteq unfinished'
      BY <2>2 DEF TrackAgain, Reset, IInv, TypeOK
    <3> QED
      BY <2>2, <3>1, TrackInv DEF TrackAgain
  <2>3. CASE UntrackRow(h)
    BY <2>3, UntrackRowInv
  <2>4. CASE UntrackPkg(h)
    BY <2>4, UntrackPkgInv
  <2>5. ASSUME NEW j \in handler[h].todo, DeleteRow(h, j)
        PROVE  IInv'
    <3>1. j \in Job
      BY <2>5 DEF IInv, TypeOK
    <3> QED
      BY <2>5, <3>1, DeleteRowInv
  <2> QED
    BY <1>1, <2>1, <2>2, <2>3, <2>4, <2>5 DEF HandlerStep
<1>2. ASSUME NEW h \in Handler, NEW j \in Job,
             CreateNew(h, j) \/ CreateAgain(h, j) \/ DeleteRow(h, j)
      PROVE  IInv'
  BY <1>2, CreateNewInv, CreateAgainInv, DeleteRowInv
<1>3. ASSUME NEW h \in Handler, NEW p \in Pid, DeletePkg(h, p)
      PROVE  IInv'
  BY <1>3, DeletePkgInv
<1>4. ASSUME NEW u \in Uid, Poll(u)
      PROVE  IInv'
  BY <1>4, QuietInv DEF Poll, dbVars, finishVars, IInv, TypeOK
<1>5. ASSUME NEW j \in Job, Report(j)
      PROVE  IInv'
  BY <1>5, QuietInv, TracksAssumption DEF Report, trackVars, IInv, TypeOK
<1>6. ASSUME NEW j \in Job, ProcessJob(j)
      PROVE  IInv'
  <2>1. delayed' \in [Job -> Nat]
    BY <1>6 DEF ProcessJob, IInv, TypeOK
  <2> QED
    BY <1>6, <2>1, QuietInv DEF ProcessJob, dbVars, trackVars, IInv, TypeOK
<1>7. ASSUME NEW j \in Job, DelayedDelete(j)
      PROVE  IInv'
  BY <1>7, DelayedDeleteInv
<1>10. ASSUME NEW j \in Job, TransferAgain(j)
       PROVE  IInv'
  BY <1>10, QuietInv, TracksAssumption DEF TransferAgain, trackVars, IInv, TypeOK
<1>8. CASE Restart
  BY <1>8, RestartInv
<1>9. CASE UNCHANGED vars
  BY <1>9, QuietInv DEF vars, dbVars, trackVars, finishVars, IInv, TypeOK
<1> QED
  BY <1>1, <1>2, <1>3, <1>4, <1>5, <1>6, <1>7, <1>8, <1>9, <1>10 DEF Next

LEMMA SpecInv == Spec => []IInv
  BY InitInv, StepInv, PTL DEF Spec

(* Every variable keeps to its type: above all no detail is ever unfinished *)
(* of a job whose rows were deleted, and only existing jobs are marked.    *)
THEOREM TypeCorrect == Spec => []TypeOK
<1>1. IInv => TypeOK
  BY DEF IInv
<1> QED
  BY <1>1, SpecInv, PTL

(* issue-1: wherever a download is tracked the upload of its package is,   *)
(* unless the package was deleted, through any interleaving of creations,  *)
(* deletions, delayed deletions and restarts.                              *)
THEOREM DownloadMonitored == Spec => []DownloadIsMonitored
<1>1. IInv => DownloadIsMonitored
  BY DEF IInv
<1> QED
  BY <1>1, SpecInv, PTL

-----------------------------------------------------------------------------
(* One handler h at a time, and no job that is created while it ends.  The *)
(* tracks hold what exists and what h is about to untrack; what is not     *)
(* finished is tracked, or h is about to; who waits to delete a track has  *)
(* seen a job finished that nobody has created again: it is finished, or   *)
(* it is transferred again.                                                *)
Untracking(r) == (IF r.pc = "untrack" THEN {r.job} ELSE {})
                 \cup (IF r.pc \in {"untrack", "delete"} THEN {r.pkg} ELSE {})
Tracking(r) == IF r.pc = "track" THEN {r.job} ELSE {}

Starts(r) ==
    r.pc \in {"track", "reset"} =>
      /\ r.job \in rows \ softDel
      /\ delayed[r.job] = 0 /\ r.job \notin processing

Ends(r) ==
    /\ r.pc = "untrack" => r.job \notin rows /\ r.job.typ = "D"
    /\ r.pc \in {"untrack", "delete"} /\ r.pkg # NoJob =>
         /\ r.pkg \in softDel
         /\ \A d \in Downloads(tracks, r.pkg.pid) : d \in r.todo

Open == unfinished \ again

Sole(r) ==
    /\ Starts(r) /\ Ends(r)
    /\ tracks \subseteq (rows \ softDel) \cup Untracking(r)
    /\ Open \ softDel \subseteq tracks \cup Tracking(r)
    /\ \A j \in Job : delayed[j] > 0 => j \notin Open

LEMMA DelTrackKeeps ==
    ASSUME NEW T \in SUBSET Job, NEW j \in Job, NEW F \in Finished
    PROVE  /\ DelTrack(T, j, F) \subseteq T
           /\ T \cap Open \subseteq DelTrack(T, j, F) \cup {j}
           /\ j.typ = "D" \/ Downloads(T, j.pid) = {} => j \notin DelTrack(T, j, F)
<1>1. F \cap Open = {}
  BY DEF Finished, Open
<1>. QED BY <1>1, JobFields DEF DelTrack

(* Steps of others keep it, as they delete no row and start no job.        *)
LEMMA SoleKept ==
    ASSUME TypeOK, NEW h \in Handler, Sole(handler[h]),
           UNCHANGED <<rows, softDel, handler>>,
           Open' \subseteq Open, tracks' \subseteq tracks,
           tracks \cap Open \subseteq tracks',
           \A j \in Job : delayed'[j] > 0 => j \notin Open',
           Starts(handler[h])'
    PROVE  Sole(handler[h])'
<1>1. Ends(handler[h])'
  BY DEF Sole, Ends, Downloads
<1>. QED BY <1>1 DEF Sole, Untracking, Tracking

LEMMA OthersSole ==
    ASSUME ~Overlap, IInv, NEW h \in Handler, Sole(handler[h]),
           \/ \E u \in Uid : Poll(u)
           \/ \E j \in Job : Report(j) \/ ProcessJob(j) \/ DelayedDelete(j)
                               \/ TransferAgain(j)
           \/ UNCHANGED vars
    PROVE  Sole(handler[h])'
<1>. DEFINE r == handler[h]
<1>0. /\ TypeOK /\ delayed \in [Job -> Nat] /\ tracks \in SUBSET Job
      /\ r.pc \in {"track", "reset"} => r.job \in Job
  BY DEF IInv, TypeOK, InHand, HandOK
<1>1. ASSUME NEW u \in Uid, Poll(u) PROVE Sole(handler[h])'
  BY <1>0, <1>1, SoleKept DEF Poll, dbVars, finishVars, Sole, Starts, Open
<1>2. ASSUME NEW j \in Job, Report(j) PROVE Sole(handler[h])'
  <2>1. r.job # j
    BY <1>2 DEF Report, MayReport
  <2>2. Starts(r)'
    BY <1>2, <2>1 DEF Report, Sole, Starts
  <2>3. Open' \subseteq Open
    BY <1>2 DEF Report, Open
  <2>. QED BY <1>0, <1>2, <2>2, <2>3, SoleKept DEF Report, trackVars, Sole
<1>3. ASSUME NEW j \in Job, ProcessJob(j) PROVE Sole(handler[h])'
  <2>1. UNCHANGED <<rows, softDel, handler, Open, tracks>>
    BY <1>3 DEF ProcessJob, dbVars, trackVars, Open
  <2>2. \A k \in Job : k # j => delayed'[k] = delayed[k]
    BY <1>0, <1>3 DEF ProcessJob
  <2>3. delayed'[j] > 0 => j \notin Open
    <3>1. PICK F \in Finished :
            delayed' = IF j \in rows /\ j \in F
                         THEN [delayed EXCEPT ![j] = @ + 1] ELSE delayed
      BY <1>3 DEF ProcessJob
    <3>2. j \in F => j \notin Open
      BY DEF Finished, Open
    <3>3. delayed[j] > 0 => j \notin Open
      BY DEF Sole
    <3>. QED BY <3>1, <3>2, <3>3
  <2>5. \A k \in Job : delayed'[k] > 0 => k \notin Open'
    BY <2>1, <2>2, <2>3 DEF Sole
  <2>4. Starts(r)'
    BY <1>0, <1>3, <2>1, <2>2 DEF ProcessJob, Sole, Starts
  <2>. QED BY <1>0, <2>1, <2>4, <2>5, SoleKept
<1>4. ASSUME NEW j \in Job, DelayedDelete(j) PROVE Sole(handler[h])'
  <2>1. UNCHANGED <<rows, softDel, handler, Open, processing>>
    BY <1>4 DEF DelayedDelete, dbVars, Open
  <2>2. /\ delayed[j] > 0
        /\ \A k \in Job : delayed'[k] = IF k = j THEN delayed[k] - 1 ELSE delayed[k]
    BY <1>0, <1>4 DEF DelayedDelete
  <2>3. j \notin Open /\ \A k \in Job : delayed'[k] > 0 => delayed[k] > 0
    BY <1>0, <2>2 DEF Sole
  <2>4. Starts(r)'
    BY <1>0, <2>1, <2>2 DEF Sole, Starts
  <2>5. tracks' \subseteq tracks /\ tracks \cap Open \subseteq tracks'
    BY <1>0, <1>4, <2>3, DelTrackKeeps DEF DelayedDelete
  <2>. QED BY <1>0, <2>1, <2>3, <2>4, <2>5, SoleKept DEF Sole
<1>5. CASE UNCHANGED vars
  BY <1>0, <1>5, SoleKept DEF vars, dbVars, trackVars, finishVars, Sole, Starts, Open
<1>6. ASSUME NEW j \in Job, TransferAgain(j) PROVE Sole(handler[h])'
  <2>1. /\ UNCHANGED <<rows, softDel, handler, tracks, processing, delayed>>
        /\ Open' \subseteq Open
    BY <1>6 DEF TransferAgain, trackVars, Open
  <2>2. Starts(r)'
    BY <2>1 DEF Sole, Starts
  <2>. QED BY <1>0, <2>1, <2>2, SoleKept DEF Sole
<1>. QED BY <1>1, <1>2, <1>3, <1>4, <1>5, <1>6

LEMMA RestartSole ==
    ASSUME IInv, NEW h \in Handler, Restart PROVE Sole(handler[h])'
<1>. DEFINE open == unfinished \ softDel
            loaded == open \cup UNION {Monitored(j) : j \in {d \in open : d.typ = "D"}}
<1>1. /\ tracks' = loaded /\ UNCHANGED <<rows, unfinished, softDel>>
      /\ Open' = unfinished
      /\ handler'[h] = Idle /\ \A j \in Job : delayed'[j] = 0
  BY DEF Restart, Open
<1>2. loaded \subseteq rows \ softDel /\ open \subseteq loaded
  BY DEF IInv, TypeOK, Monitored
<1>. HIDE DEF loaded
<1>. QED BY <1>1, <1>2 DEF Sole, Starts, Ends, Untracking, Tracking, Idle

LEMMA CreateSole ==
    ASSUME ~Overlap, IInv, NEW h \in Handler, Sole(handler[h]), NEW j \in Job,
           CreateNew(h, j) \/ CreateAgain(h, j)
    PROVE  Sole(handler[h])'
<1>0. /\ softDel \subseteq rows /\ rows \subseteq Job /\ tracks \subseteq Job
      /\ handler \in [Handler -> Hand] /\ handler[h] = Idle
      /\ UNCHANGED <<softDel, tracks, deletes, delayed, processing>>
      /\ delayed[j] = 0 /\ j \notin processing
      /\ \A k \in softDel : k.typ = "U"
  BY DEF IInv, TypeOK, Hand, CreateNew, CreateAgain, MayCreate, dbVars, trackVars,
         finishVars, MarksUploads
<1>1. tracks \subseteq rows \ softDel /\ Open \ softDel \subseteq tracks
  BY <1>0 DEF Sole, Idle, Untracking, Tracking
<1>2. CASE CreateNew(h, j)
  <2>1. handler'[h].job = j /\ handler'[h].pc = "track"
    BY <1>0, <1>2 DEF CreateNew, Goto, Hand
  <2>2. /\ rows' = rows \cup {j} /\ j \notin rows
        /\ Open' \subseteq Open \cup {j}
    BY <1>2 DEF CreateNew, Reset, Open
  <2>. QED BY <1>0, <1>1, <2>1, <2>2 DEF Sole, Starts, Ends, Untracking, Tracking
<1>3. CASE CreateAgain(h, j)
  <2>1. handler'[h].job = j /\ handler'[h].pc = "reset"
    BY <1>0, <1>3 DEF CreateAgain, Goto, Hand
  <2>2. UNCHANGED <<rows, Open>> /\ j \in rows /\ j.typ = "D"
    BY <1>3 DEF CreateAgain, dbVars, Open
  <2>. QED BY <1>0, <1>1, <2>1, <2>2 DEF Sole, Starts, Ends, Untracking, Tracking
<1>. QED BY <1>2, <1>3

LEMMA TrackSole ==
    ASSUME IInv, NEW h \in Handler, Sole(handler[h]), TrackNew(h) \/ TrackAgain(h)
    PROVE  Sole(handler[h])'
<1>. DEFINE j == handler[h].job
<1>0. /\ handler[h].pc \in {"track", "reset"} /\ handler \in [Handler -> Hand]
      /\ tracks \subseteq Job
      /\ tracks' = AddTracks(j) /\ handler' = [handler EXCEPT ![h] = Idle]
      /\ UNCHANGED <<rows, softDel, delayed>>
      /\ Open' \subseteq Open \cup {j}
      /\ handler[h].pc = "track" => Open' = Open
  BY DEF TrackNew, TrackAgain, Reset, dbVars, finishVars, IInv, TypeOK, Hand, Open
<1>1. j \in Job /\ j \in rows \ softDel /\ delayed[j] = 0
  BY <1>0 DEF IInv, InHand, HandOK, Sole, Starts
<1>2. handler'[h] = Idle
  BY <1>0
<1>3. /\ tracks' \subseteq tracks \cup {j} \cup (rows \ softDel)
      /\ tracks \cup {j} \subseteq tracks'
  BY <1>0 DEF AddTracks, Monitored
<1>4. tracks \subseteq rows \ softDel /\ Open \ softDel \subseteq tracks \cup {j}
  BY <1>0 DEF Sole, Untracking, Tracking
<1>5. \A k \in Job : delayed'[k] > 0 => k \notin Open'
  BY <1>0, <1>1 DEF Sole
<1>. HIDE DEF j
<1>. QED
  BY <1>0, <1>1, <1>2, <1>3, <1>4, <1>5
     DEF Sole, Starts, Ends, Untracking, Tracking, Idle

LEMMA DeleteRowSole ==
    ASSUME IInv, NEW h \in Handler, Sole(handler[h]), NEW j \in Job, DeleteRow(h, j)
    PROVE  Sole(handler[h])'
<1>. DEFINE r == handler[h]
<1>0. /\ handler \in [Handler -> Hand] /\ tracks \subseteq Job /\ rows \subseteq Job
      /\ UNCHANGED <<softDel, tracks, delayed>>
      /\ \A k \in softDel : k.typ = "U"
      /\ \A k \in r.todo : k.typ = "D"
  BY DEF IInv, TypeOK, Hand, DeleteRow, trackVars, finishVars, MarksUploads,
         InHand, HandOK
<1>1. /\ r = Idle \/ (r.pc = "delete" /\ j \in r.todo)
      /\ j.typ = "D"
  BY <1>0 DEF DeleteRow
<1>2. r.pkg = NoJob \/ r.pc = "delete"
  BY <1>1 DEF Idle
<1>3. /\ tracks \subseteq (rows \ softDel) \cup {r.pkg}
      /\ Open \ softDel \subseteq tracks
      /\ r.pkg # NoJob => r.pkg \in softDel
           /\ \A d \in Downloads(tracks, r.pkg.pid) : d \in r.todo
  <2>1. r.pc \in {"idle", "delete"}
    BY <1>1 DEF Idle
  <2>. QED BY <1>2, <2>1 DEF Sole, Ends, Untracking, Tracking
<1>4. CASE j \in rows
  <2>1. /\ rows' = rows \ {j} /\ Open' = Open \ {j}
        /\ handler'[h].pc = "untrack" /\ handler'[h].job = j
        /\ handler'[h].pkg = r.pkg /\ handler'[h].todo = r.todo
    BY <1>0, <1>4 DEF DeleteRow, Goto, Hand, Open
  <2>. HIDE DEF r
  <2>2. Starts(handler[h])' /\ Ends(handler[h])'
    BY <1>0, <1>1, <1>3, <2>1 DEF Starts, Ends, Downloads
  <2>. QED BY <1>0, <1>3, <2>1, <2>2 DEF Sole, Untracking, Tracking
<1>5. CASE j \notin rows
  <2>1. /\ UNCHANGED <<rows, Open>>
        /\ handler'[h].pc = "delete" /\ handler'[h].pkg = r.pkg
        /\ handler'[h].todo = r.todo \ {j}
    BY <1>0, <1>5 DEF DeleteRow, Hand, Open
  <2>2. j \notin tracks
    BY <1>0, <1>1, <1>3, <1>5, NoJobAssumption
  <2>. QED BY <1>0, <1>3, <2>1, <2>2 DEF Sole, Starts, Ends, Untracking, Tracking, Downloads
<1>. QED BY <1>4, <1>5

(* A job in hand leaves the tracks; what else leaves with it is finished.  *)
LEMMA UntrackSole ==
    ASSUME IInv, NEW h \in Handler, Sole(handler[h]), UntrackRow(h) \/ UntrackPkg(h)
    PROVE  Sole(handler[h])'
<1>. DEFINE r == handler[h]
<1>0. /\ handler \in [Handler -> Hand] /\ tracks \in SUBSET Job /\ rows \subseteq Job
      /\ softDel \subseteq rows /\ Open \subseteq rows
      /\ UNCHANGED <<rows, Open, softDel, delayed>>
      /\ \A k \in softDel : k.typ = "U"
  BY DEF IInv, TypeOK, Hand, UntrackRow, UntrackPkg, dbVars, finishVars, MarksUploads,
         Open
<1>1. CASE UntrackRow(h)
  <2>. DEFINE j == r.job
  <2>1. /\ j \in Job /\ j \notin rows /\ j.typ = "D"
        /\ \E F \in Finished : tracks' = DelTrack(tracks, j, F)
    BY <1>1 DEF UntrackRow, IInv, InHand, HandOK, Sole, Ends
  <2>2. /\ tracks' \subseteq tracks \ {j} /\ tracks \cap Open \subseteq tracks'
    BY <1>0, <2>1, DelTrackKeeps
  <2>3. /\ tracks \subseteq (rows \ softDel) \cup {j, r.pkg}
        /\ Open \ softDel \subseteq tracks
        /\ r.pkg # NoJob => r.pkg \in softDel
             /\ \A d \in Downloads(tracks, r.pkg.pid) : d \in r.todo
    BY <1>1 DEF UntrackRow, Sole, Ends, Untracking, Tracking
  <2>4. Open' \ softDel' \subseteq tracks'
    BY <1>0, <2>2, <2>3
  <2>5. CASE r.pkg = NoJob
    <3>1. handler'[h] = Idle
      BY <1>0, <1>1, <2>5 DEF UntrackRow
    <3>2. tracks' \subseteq rows \ softDel
      BY <1>0, <2>2, <2>3, <2>5, NoJobAssumption
    <3>. QED
      BY <1>0, <2>4, <3>1, <3>2 DEF Sole, Starts, Ends, Untracking, Tracking, Idle
  <2>6. CASE r.pkg # NoJob
    <3>1. /\ handler'[h].pc = "delete" /\ handler'[h].pkg = r.pkg
          /\ handler'[h].todo = r.todo \ {j}
      BY <1>0, <1>1, <2>6 DEF UntrackRow, Hand
    <3>2. \A d \in Downloads(tracks', r.pkg.pid) : d \in r.todo \ {j}
      BY <2>2, <2>3, <2>6 DEF Downloads
    <3>. HIDE DEF r, j
    <3>. QED
      BY <1>0, <2>2, <2>3, <2>4, <2>6, <3>1, <3>2 DEF Sole, Starts, Ends, Untracking, Tracking
  <2>. QED BY <2>5, <2>6
<1>2. CASE UntrackPkg(h)
  <2>1. /\ r.pkg \in Job /\ r.todo = {} /\ r.pc = "delete"
        /\ \E F \in Finished : tracks' = DelTrack(tracks, r.pkg, F)
        /\ handler'[h] = Idle
    BY <1>0, <1>2 DEF UntrackPkg, IInv, InHand, HandOK
  <2>2. /\ tracks \subseteq (rows \ softDel) \cup {r.pkg}
        /\ Open \ softDel \subseteq tracks
        /\ r.pkg \in softDel
        /\ Downloads(tracks, r.pkg.pid) = {}
    BY <2>1, NoJobAssumption DEF Sole, Ends, Untracking, Tracking
  <2>3. tracks' \subseteq tracks \ {r.pkg} /\ tracks \cap Open \subseteq tracks' \cup {r.pkg}
    BY <1>0, <2>1, <2>2, DelTrackKeeps
  <2>. QED
    BY <1>0, <2>1, <2>2, <2>3 DEF Sole, Starts, Ends, Untracking, Tracking, Idle
<1>. QED BY <1>1, <1>2

LEMMA DeletePkgSole ==
    ASSUME IInv, NEW h \in Handler, Sole(handler[h]), NEW p \in Pid, DeletePkg(h, p)
    PROVE  Sole(handler[h])'
<1>. DEFINE up == Upload(p)
<1>0. /\ handler \in [Handler -> Hand] /\ handler[h] = Idle
      /\ UNCHANGED <<rows, Open, tracks, delayed>>
      /\ softDel' = softDel \cup {up}
      /\ up.pid = p /\ up.typ = "U" /\ up \in rows
  BY UploadIsJob DEF IInv, TypeOK, Hand, DeletePkg, trackVars, finishVars, Upload, Open
<1>1. tracks \subseteq rows \ softDel /\ Open \ softDel \subseteq tracks
  BY <1>0 DEF Sole, Idle, Untracking, Tracking
<1>2. /\ handler'[h].pc = "delete" /\ handler'[h].pkg = up
      /\ handler'[h].todo = Downloads(rows, p)
  BY <1>0 DEF DeletePkg
<1>3. \A d \in Downloads(tracks, p) : d \in Downloads(rows, p)
  BY <1>1 DEF Downloads
<1>4. \A j \in Job : delayed[j] > 0 => j \notin Open
  BY DEF Sole
<1>. HIDE DEF up
<1>. QED
  BY <1>0, <1>1, <1>2, <1>3, <1>4 DEF Sole, Starts, Ends, Untracking, Tracking

LEMMA InitSole == ASSUME NEW h \in Handler, Init PROVE Sole(handler[h])
BY DEF Init, Sole, Starts, Ends, Untracking, Tracking, Idle, Open

LEMMA NextSole ==
    ASSUME ~Overlap, NEW h, Handler = {h}
    PROVE  IInv /\ Sole(handler[h]) /\ [Next]_vars => Sole(handler[h])'
<1>. SUFFICES ASSUME IInv, Sole(handler[h]), [Next]_vars PROVE Sole(handler[h])'
  OBVIOUS
<1>1. CASE HandlerStep(h)
  <2>1. handler[h].todo \subseteq Job
    BY DEF IInv, TypeOK
  <2>. QED BY <1>1, <2>1, TrackSole, UntrackSole, DeleteRowSole DEF HandlerStep
<1>2. ASSUME NEW j \in Job, CreateNew(h, j) \/ CreateAgain(h, j) \/ DeleteRow(h, j)
      PROVE  Sole(handler[h])'
  BY <1>2, CreateSole, DeleteRowSole
<1>3. ASSUME NEW p \in Pid, DeletePkg(h, p) PROVE Sole(handler[h])'
  BY <1>3, DeletePkgSole
<1>4. CASE (\E u \in Uid : Poll(u))
           \/ (\E j \in Job : Report(j) \/ ProcessJob(j) \/ DelayedDelete(j)
                               \/ TransferAgain(j))
           \/ UNCHANGED vars
  BY <1>4, OthersSole
<1>5. CASE Restart
  BY <1>5, RestartSole
<1>. QED BY <1>1, <1>2, <1>3, <1>4, <1>5 DEF Next

LEMMA SoleInv == ASSUME ~Overlap, NEW h, Handler = {h} PROVE Spec => []Sole(handler[h])
<1>1. Init => Sole(handler[h])
  BY InitSole
<1>2. IInv /\ Sole(handler[h]) /\ [Next]_vars => Sole(handler[h])'
  BY NextSole
<1>. QED BY <1>1, <1>2, SpecInv, PTL DEF Spec

(* cdxs-17: with one request at a time, whatever is not finished is tracked *)
(* once the request is over, through deletions, delays and restarts, but   *)
(* for a job that was finished and is transferred again.                   *)
THEOREM UnfinishedTracked ==
    ASSUME ~Overlap, NEW h, Handler = {h} PROVE Spec => []UnfinishedIsTracked
<1>1. Sole(handler[h]) => UnfinishedIsTracked
  BY DEF Sole, UnfinishedIsTracked, Quiet, Idle, Tracking, Open
<1>2. Spec => []Sole(handler[h])
  BY SoleInv
<1>. QED BY <1>1, <1>2, PTL

(* issue-37: and whatever is tracked exists and is not deleted.            *)
THEOREM TrackedExist ==
    ASSUME ~Overlap, NEW h, Handler = {h} PROVE Spec => []TrackedExists
<1>1. Sole(handler[h]) => TrackedExists
  BY DEF Sole, TrackedExists, Quiet, Idle, Untracking
<1>2. Spec => []Sole(handler[h])
  BY SoleInv
<1>. QED BY <1>1, <1>2, PTL
=============================================================================

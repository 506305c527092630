----------------------- MODULE PendingRequestsProofs -----------------------
(***************************************************************************)
(* Proofs about the requests in flight on a connection, for any number of  *)
(* callers, logins that displace it, and copies of each answer; and about  *)
(* the removal of a package, which sends removefile requests, for any      *)
(* files, users, delete requests, transfers and restarts.                  *)
(***************************************************************************)
EXTENDS PendingRequests, PackageRemoval, TLAPS

Started(r) == pc[r] # "idle"

(* An entry stands under the number of its request, ...                    *)
Table ==
    \A s \in Seqs : pending[s] # NoReq =>
        Started(pending[s]) /\ seqOf[pending[s]] = s

(* ... numbers are used once, ...                                          *)
Numbers ==
    /\ \A r \in Req : Started(r) => seqOf[r] < seq
    /\ \A r, q \in Req : Started(r) /\ Started(q) /\ seqOf[r] = seqOf[q] => r = q

(* ... a call that has not left finds its own entry, and waits on it.      *)
Own ==
    /\ \A r \in Req : pc[r] \in {"send", "fetch"} => pending[seqOf[r]] = r
    /\ \A r \in Req : pc[r] = "wait" => held[r] = r

(* What is read from the socket was sent, and goes where it belongs.       *)
Wire ==
    /\ \A r \in sent : Started(r)
    /\ \A r \in Req : obj[r].rsp = NoReq \/ (obj[r].rsp = r /\ copies[r] > 0)
    /\ \A r \in Req : obj[r].tokens > 0 => obj[r].rsp # NoReq
    /\ reader = "blocked" => blockedOn \in Req /\ obj[blockedOn].rsp # NoReq

Results == \A r \in Req : result[r] \in {r} \cup Errors /\ result[r] # "impossible"

IInv == TypeOK /\ Table /\ Numbers /\ Own /\ Wire /\ Results

-----------------------------------------------------------------------------
LEMMA InitInv == Init => IInv
  <1>. SUFFICES ASSUME Init PROVE IInv
    OBVIOUS
  <1>. USE RequestAssumption DEF Init
  <1>0. NewPendingReq \in PendingReq /\ 0 \in Seqs /\ "none" \in Errors
    BY DEF PendingReq, NewPendingReq, Seqs, Errors
  <1>1. 0 \in 0..MaxCopies
    BY SMT
  <1>2. pc \in [Req -> {"idle", "send", "fetch", "wait", "clear", "returned"}]
    OBVIOUS
  <1>3. closer \in [Closer -> {"idle", "channels", "socket", "done", "crashed"}]
    OBVIOUS
  <1>4. obj \in [Req -> PendingReq]
    BY <1>0
  <1>5. result \in [Req -> Req \cup Errors]
    BY <1>0
  <1>6. copies \in [Req -> 0..MaxCopies]
    BY <1>1
  <1>7. TypeOK
    BY <1>0, <1>2, <1>3, <1>4, <1>5, <1>6 DEF TypeOK
  <1>8. Table /\ Numbers /\ Own
    BY DEF Table, Numbers, Own, Started
  <1>9. Wire
    BY DEF Wire, NewPendingReq
  <1>10. Results
    BY DEF Results, Errors
  <1>. QED  BY <1>7, <1>8, <1>9, <1>10 DEF IInv

LEMMA RegisterInv == ASSUME IInv, NEW r \in Req, Register(r) PROVE IInv'
  <1>. USE RequestAssumption DEF IInv, Register, callVars, wireVars, readerVars
  <1>0. seq \in Seqs /\ seq + 1 \in Seqs /\ seq \in Nat
    BY DEF TypeOK, Seqs
  <1>1. TypeOK'
    BY <1>0 DEF TypeOK
  <1>2. Table'
    BY <1>0 DEF TypeOK, Table, Started
  <1>3. Numbers'
    BY DEF TypeOK, Numbers, Started, Seqs
  <1>4. Own'
    BY <1>0, SMTT(30) DEF TypeOK, Own, Numbers, Started, Seqs
  <1>5. Wire' /\ Results'
    BY DEF TypeOK, Wire, Results, Started
  <1>. QED
    BY <1>1, <1>2, <1>3, <1>4, <1>5

(* The steps of a call after SendRequest has let the lock go.              *)
LEMMA SendInv == ASSUME IInv, NEW r \in Req, Send(r) PROVE IInv'
  <1>. USE RequestAssumption DEF IInv, Send, Return, tableVars, readerVars
  <1>1. TypeOK'
    BY DEF TypeOK, Errors
  <1>2. Table' /\ Numbers'
    BY DEF TypeOK, Table, Numbers, Started
  <1>3. Own' /\ Wire'
    BY DEF TypeOK, Own, Wire, Started
  <1>4. Results'
    BY DEF TypeOK, Results, Errors
  <1>. QED  BY <1>1, <1>2, <1>3, <1>4

LEMMA FetchInv == ASSUME IInv, NEW r \in Req, Fetch(r) PROVE IInv'
  <1>. USE RequestAssumption DEF IInv, Fetch, tableVars, wireVars, readerVars
  <1>1. pending[seqOf[r]] = r
    BY DEF Own
  <1>2. /\ pc' = [pc EXCEPT ![r] = "wait"] /\ held' = [held EXCEPT ![r] = r]
        /\ UNCHANGED result
    BY <1>1
  <1>3. TypeOK'
    BY <1>2 DEF TypeOK
  <1>4. Table' /\ Numbers'
    BY <1>2 DEF TypeOK, Table, Numbers, Started
  <1>5. Own' /\ Wire' /\ Results'
    BY <1>2 DEF TypeOK, Own, Wire, Started, Results
  <1>. QED  BY <1>3, <1>4, <1>5

LEMMA WakeInv == ASSUME IInv, NEW r \in Req, Wake(r) PROVE IInv'
  <1>. USE RequestAssumption DEF IInv, Wake, wireVars
  <1>1. held[r] = r
    BY DEF Own
  <1>2. obj[r].rsp = r /\ copies[r] > 0
    BY <1>1 DEF TypeOK, Wire
  <1>3. obj' \in [Req -> PendingReq]
    BY <1>1 DEF TypeOK, PendingReq
  <1>4. TypeOK'
    BY <1>1, <1>2, <1>3 DEF TypeOK, readerVars
  <1>5. Table' /\ Numbers' /\ Own'
    BY DEF TypeOK, Table, Numbers, Own, Started
  <1>6. \A q \in Req : obj'[q].rsp = obj[q].rsp
                     /\ (obj'[q].tokens > 0 => obj[q].tokens > 0)
    BY <1>1 DEF TypeOK, PendingReq
  <1>7. Wire'
    BY <1>6, <1>1 DEF TypeOK, Wire, Started, readerVars
  <1>8. Results'
    BY <1>1, <1>2 DEF TypeOK, Results, Errors
  <1>. QED  BY <1>4, <1>5, <1>7, <1>8

LEMMA LeaveInv ==
    ASSUME IInv, NEW r \in Req, Disconnected(r) \/ Timeout(r)
    PROVE  IInv'
  <1>. USE RequestAssumption
       DEF IInv, Disconnected, Timeout, Return, tableVars, wireVars, readerVars
  <1>1. TypeOK'
    BY DEF TypeOK, Errors
  <1>2. Table' /\ Numbers'
    BY DEF TypeOK, Table, Numbers, Started
  <1>3. Own' /\ Wire'
    BY DEF TypeOK, Own, Wire, Started
  <1>4. Results'
    BY DEF TypeOK, Results, Errors
  <1>. QED  BY <1>1, <1>2, <1>3, <1>4

LEMMA ClearInv == ASSUME IInv, NEW r \in Req, Clear(r) PROVE IInv'
  <1>. USE RequestAssumption DEF IInv, Clear, wireVars, readerVars
  <1>1. TypeOK'
    BY DEF TypeOK
  <1>2. Table' /\ Numbers'
    BY DEF TypeOK, Table, Numbers, Started
  <1>3. \A q \in Req : q # r /\ Started(q) => seqOf[q] # seqOf[r]
    BY DEF Numbers, Started
  <1>4. Own' /\ Wire'
    BY <1>3 DEF TypeOK, Own, Wire, Started
  <1>5. Results'
    BY DEF TypeOK, Results
  <1>. QED  BY <1>1, <1>2, <1>4, <1>5

-----------------------------------------------------------------------------
(* The reader.                                                             *)
LEMMA ReceiveInv == ASSUME IInv, NEW q \in Req, Receive(q) PROVE IInv'
  <1>. USE RequestAssumption DEF IInv, Receive, callVars
  <1>. DEFINE o == pending[seqOf[q]]
  <1>1. o = NoReq \/ o = q
    BY DEF TypeOK, Table, Numbers, Wire
  <1>2. copies' = [copies EXCEPT ![q] = copies[q] + 1]
        /\ copies' \in [Req -> 0..MaxCopies] /\ copies'[q] > 0
    BY DEF TypeOK
  <1>3. obj' \in [Req -> PendingReq]
    BY <1>1 DEF TypeOK, PendingReq, Capacity
  <1>4. /\ \A p \in Req : p # q => obj'[p] = obj[p]
        /\ o = q => obj'[q].rsp = q
        /\ o = NoReq => obj' = obj
    BY <1>1 DEF TypeOK, PendingReq
  <1>5. TypeOK'
    <2>1. /\ reader' \in {"reading", "blocked", "ended"}
          /\ blockedOn' \in Req \cup {NoReq}
          /\ reqLock' \in {"free", "reader", "lost"}
      BY <1>1 DEF TypeOK, readerVars
    <2>2. closer' = closer \/ closer' = [closer EXCEPT ![Reader] = "channels"]
      OBVIOUS
    <2>3. closer' \in [Closer -> {"idle", "channels", "socket", "done", "crashed"}]
      BY <2>2 DEF TypeOK
    <2>. QED  BY <1>2, <1>3, <2>1, <2>3 DEF TypeOK
  <1>6. Table' /\ Numbers' /\ Own' /\ Results'
    BY DEF Table, Numbers, Own, Started, Results
  <1>7. /\ \A r \in Req : obj'[r].rsp = NoReq \/ (obj'[r].rsp = r /\ copies'[r] > 0)
        /\ \A r \in Req : obj'[r].tokens > 0 => obj'[r].rsp # NoReq
    BY <1>1, <1>2, <1>4 DEF Wire, TypeOK
  <1>8. reader' = "blocked" => blockedOn' \in Req /\ obj'[blockedOn'].rsp # NoReq
    BY <1>1, <1>4 DEF readerVars
  <1>9. Wire'
    BY <1>7, <1>8 DEF Wire, Started
  <1>. QED  BY <1>5, <1>6, <1>9

LEMMA ReadFailsInv == ASSUME IInv, ReadFails PROVE IInv'
  <1>. USE DEF IInv, ReadFails, callVars, tableVars, wireVars
  <1>1. TypeOK'
    BY DEF TypeOK, Closer
  <1>2. Table' /\ Numbers' /\ Own' /\ Wire' /\ Results'
    BY DEF Table, Numbers, Own, Wire, Results, Started
  <1>. QED  BY <1>1, <1>2

(* Closing channels leaves what is in them.                                *)
Closing(S) ==
    obj' = [r \in Req |-> IF r \in S THEN [obj[r] EXCEPT !.open = FALSE] ELSE obj[r]]

LEMMA ClosedKeeps ==
    ASSUME TypeOK, NEW S \in SUBSET Req, Closing(S)
    PROVE  /\ \A r \in Req : obj'[r].rsp = obj[r].rsp /\ obj'[r].tokens = obj[r].tokens
           /\ obj' \in [Req -> PendingReq]
  <1>1. ASSUME NEW r \in Req
        PROVE  /\ obj'[r].rsp = obj[r].rsp /\ obj'[r].tokens = obj[r].tokens
               /\ obj'[r] \in PendingReq
    <2>1. obj[r] \in PendingReq
      BY DEF TypeOK
    <2>2. obj'[r] = IF r \in S THEN [obj[r] EXCEPT !.open = FALSE] ELSE obj[r]
      BY DEF Closing
    <2>. QED  BY <2>1, <2>2 DEF PendingReq
  <1>2. obj' = [r \in Req |-> obj'[r]]
    BY DEF Closing
  <1>. QED  BY <1>1, <1>2

LEMMA CloseInv ==
    ASSUME IInv, \/ \E d \in Displacer : Displace(d)
                 \/ \E x \in Closer : CloseStep(x)
    PROVE  IInv'
  <1>. USE DEF IInv, Displace, CloseStep, CloseChannels, CloseSocket,
               callVars, tableVars, wireVars, readerVars
  <1>1. /\ \A r \in Req : obj'[r].rsp = obj[r].rsp /\ obj'[r].tokens = obj[r].tokens
        /\ obj' \in [Req -> PendingReq]
    <2>1. CASE UNCHANGED obj
      BY <2>1 DEF TypeOK
    <2>2. ASSUME NEW x \in Closer, CloseChannels(x)
          PROVE  \E S \in SUBSET Req : Closing(S)
      <3>1. PICK S \in SUBSET InTable : Closing(S)
        BY <2>2, Zenon DEF Closing
      <3>. QED  BY <3>1 DEF InTable
    <2>. QED  BY <2>1, <2>2, ClosedKeeps
  <1>2. TypeOK'
    BY <1>1, ZenonT(60) DEF TypeOK, Closer
  <1>3. Table' /\ Numbers' /\ Own' /\ Results'
    BY DEF Table, Numbers, Own, Results, Started
  <1>4. Wire'
    BY <1>1 DEF Wire, Started
  <1>. QED  BY <1>2, <1>3, <1>4

LEMMA NextInv == IInv /\ [Next]_vars => IInv'
  <1>. SUFFICES ASSUME IInv, [Next]_vars PROVE IInv'
    OBVIOUS
  <1>1. CASE UNCHANGED vars
    BY <1>1 DEF IInv, TypeOK, Table, Numbers, Own, Wire, Results, Started, vars,
                callVars, tableVars, wireVars, readerVars
  <1>. QED
    BY <1>1, RegisterInv, SendInv, FetchInv, WakeInv, LeaveInv, ClearInv,
       ReceiveInv, ReadFailsInv, CloseInv DEF Next, CallStep

LEMMA Invariance == Spec => []IInv
  BY InitInv, NextInv, PTL DEF Spec

-----------------------------------------------------------------------------
(* node.go:481 is right: an entry is deleted by its own call only, and     *)
(* that not before it has been fetched.                                    *)
THEOREM EntriesAreFound == Spec => []EntryIsFound
  <1>1. IInv => EntryIsFound
    BY DEF IInv, Results, EntryIsFound
  <1>. QED  BY <1>1, Invariance, PTL

-----------------------------------------------------------------------------
(* A call ends once, with its own answer or an error: every step is one of *)
(* SyncCalls, or changes nothing there.                                    *)
answered == {r \in Req : copies[r] > 0}
outcome == [r \in Req |->
              IF pc[r] \notin {"clear", "returned"} THEN "pending"
              ELSE IF result[r] = r THEN "answer"
              ELSE IF result[r] \in Req THEN "foreign" ELSE "error"]

LEMMA CallsInit == Init => Calls!Init
  BY DEF Init, Calls!Init

(* A call that goes on but does not end. *)
LEMMA CallsStutter ==
    ASSUME UNCHANGED copies,
           \A r \in Req : /\ pc'[r] \in {"clear", "returned"} <=>
                               pc[r] \in {"clear", "returned"}
                          /\ pc[r] \in {"clear", "returned"} => result'[r] = result[r]
    PROVE  UNCHANGED <<answered, outcome>>
  BY DEF answered, outcome

(* A call that ends.                                                       *)
LEMMA CallsReturn ==
    ASSUME IInv, NEW r \in Req, NEW v \in {r} \cup Errors, UNCHANGED copies,
           pc[r] \notin {"clear", "returned"},
           NEW p \in {"clear", "returned"}, pc' = [pc EXCEPT ![r] = p],
           result' = [result EXCEPT ![r] = v], v = r => copies[r] > 0
    PROVE  Calls!Next
  <1>1. outcome[r] = "pending"
    BY DEF outcome
  <1>2. UNCHANGED answered
    BY DEF answered
  <1>3. outcome' = [outcome EXCEPT ![r] = IF v = r THEN "answer" ELSE "error"]
    BY RequestAssumption DEF IInv, TypeOK, outcome
  <1>4. CASE v = r
    BY <1>1, <1>2, <1>3, <1>4 DEF Calls!Next, Calls!ReturnAnswer, answered, outcome
  <1>5. CASE v # r
    BY <1>1, <1>2, <1>3, <1>5 DEF Calls!Next, Calls!ReturnError, answered, outcome
  <1>. QED  BY <1>4, <1>5

LEMMA CallsStep == IInv /\ [Next]_vars => [Calls!Next]_<<answered, outcome>>
  <1>. SUFFICES ASSUME IInv, [Next]_vars
                PROVE  [Calls!Next]_<<answered, outcome>>
    OBVIOUS
  <1>1. CASE UNCHANGED vars
    BY <1>1, CallsStutter DEF vars, callVars, wireVars
  <1>2. ASSUME NEW r \in Req, Register(r) \/ Fetch(r) \/ Clear(r)
        PROVE  UNCHANGED <<answered, outcome>>
    <2>1. UNCHANGED copies /\ pc[r] \in {"idle", "fetch", "clear"}
      BY <1>2 DEF Register, Fetch, Clear, wireVars
    <2>2. CASE Register(r) \/ Clear(r)
      BY <2>1, <2>2, CallsStutter DEF Register, Clear, IInv, TypeOK
    <2>3. CASE Fetch(r)
      <3>1. pending[seqOf[r]] # NoReq
        BY <2>3, RequestAssumption DEF Fetch, IInv, Own
      <3>. QED  BY <2>1, <2>3, <3>1, CallsStutter DEF Fetch, IInv, TypeOK
    <2>. QED  BY <1>2, <2>2, <2>3
  <1>3. ASSUME NEW r \in Req, Send(r)
        PROVE  [Calls!Next]_<<answered, outcome>>
    <2>1. CASE closed
      BY <1>3, <2>1, CallsReturn, RequestAssumption DEF Send, Return, Errors
    <2>2. CASE ~closed
      BY <1>3, <2>2, CallsStutter DEF Send, IInv, TypeOK
    <2>. QED  BY <2>1, <2>2
  <1>4. ASSUME NEW r \in Req, Wake(r)
        PROVE  Calls!Next
    <2>1. held[r] = r /\ obj[r].rsp = r /\ copies[r] > 0
      BY <1>4 DEF Wake, IInv, Own, Wire, TypeOK
    <2>. QED  BY <1>4, <2>1, CallsReturn DEF Wake, wireVars
  <1>5. ASSUME NEW r \in Req, Disconnected(r) \/ Timeout(r)
        PROVE  Calls!Next
    BY <1>5, CallsReturn, RequestAssumption
       DEF Disconnected, Timeout, Return, Errors, wireVars
  <1>6. ASSUME NEW q \in Req, Receive(q)
        PROVE  Calls!Next
    <2>1. UNCHANGED outcome
      BY <1>6 DEF Receive, callVars, outcome
    <2>2. copies[q] \in Nat /\ copies' = [copies EXCEPT ![q] = @ + 1]
      BY <1>6 DEF Receive, IInv, TypeOK
    <2>3. answered' = answered \cup {q}
      BY <2>2 DEF answered, IInv, TypeOK
    <2>. QED
      BY <2>1, <2>3 DEF Calls!Next, Calls!Answer, answered, outcome
  <1>7. \/ ReadFails \/ \E d \in Displacer : Displace(d)
        \/ \E x \in Closer : CloseStep(x)
        => UNCHANGED <<answered, outcome>>
    BY DEF ReadFails, Displace, CloseStep, CloseChannels, CloseSocket, callVars,
           wireVars, answered, outcome
  <1>. QED
    BY <1>1, <1>2, <1>3, <1>4, <1>5, <1>6, <1>7, Zenon DEF Next, CallStep

(* SendRequestSync does what SyncCalls promises.                           *)
THEOREM CallsAreSync == Spec => ImplementsSyncCalls
  BY CallsInit, CallsStep, Invariance, PTL
     DEF Spec, ImplementsSyncCalls, Calls!Spec, answered, outcome

-----------------------------------------------------------------------------
(* The removal of a package                                                *)

(* Who deletes the download jobs, or removes the files, knows of every     *)
(* receiver, save those who came since the mark or could not be deleted.   *)
Receivers ==
    \A r \in Remover :
        /\ remover[r].pc = "delete" => jobs \subseteq remover[r].list \cup late \cup kept
        /\ remover[r].pc = "free" => jobs \subseteq late \cup kept

(* A file which a removal has done with and which the node has was missed, *)
(* or written meanwhile.                                                   *)
Files ==
    /\ \A r \in Remover, f \in File :
         /\ remover[r].pc # "free" => remover[r].file[f] = "todo"
         /\ remover[r].pc = "free" /\ remover[r].file[f] = "done" /\ f \in data
              => f \in missed \cup rewritten
    /\ mark = 2 => data \subseteq missed \cup rewritten

RemovalInv == RemovalTypeOK /\ Receivers /\ Files

RemoverState ==
    [pc: {"idle", "stop", "mark", "list", "delete", "free"},
     kind: {"one", "bulk"}, list: SUBSET User,
     file: [File -> {"todo", "sent", "hung", "done"}]]

USE RemovalAssumption

(* A step of delete request r, which is x after it.                        *)
LEMMA RemoverInv ==
    ASSUME RemovalInv, NEW r \in Remover, NEW x \in RemoverState,
           remover' = [remover EXCEPT ![r] = x],
           UNCHANGED <<stored, known, task, up, transfers>>,
           stopping' \subseteq Who \X File, removals' \in 0..MaxRemovals,
           undone' \in Nat, troubles' \in 0..MaxTroubles, mark' \in 0..2,
           jobs' \subseteq jobs, late' \subseteq User, kept' \subseteq User,
           jobs' \ (late' \cup kept') \subseteq jobs \ (late \cup kept),
           data' \subseteq data, missed' \subseteq File, rewritten' \subseteq File,
           data' \cap (missed \cup rewritten) \subseteq missed' \cup rewritten',
           x.pc = "delete" => jobs' \subseteq x.list \cup late' \cup kept',
           x.pc = "free" => jobs' \subseteq late' \cup kept',
           x.pc # "free" => \A f \in File : x.file[f] = "todo",
           x.pc = "free" => \A f \in data' : x.file[f] = "done" => f \in missed' \cup rewritten',
           mark' = 2 => data' \subseteq missed' \cup rewritten'
    PROVE  RemovalInv'
  <1>1. remover \in [Remover -> RemoverState]
    BY DEF RemovalInv, RemovalTypeOK, RemoverState
  <1>2. /\ remover' \in [Remover -> RemoverState] /\ remover'[r] = x
        /\ \A q \in Remover : q # r => remover'[q] = remover[q]
    BY <1>1
  <1>3. RemovalTypeOK'
    <2>1. remover' \in [Remover ->
             [pc: {"idle", "stop", "mark", "list", "delete", "free"},
              kind: {"one", "bulk"}, list: SUBSET User,
              file: [File -> {"todo", "sent", "hung", "done"}]]]
      BY <1>2 DEF RemoverState
    <2>. QED  BY <2>1 DEF RemovalInv, RemovalTypeOK
  <1>4. Receivers'
    <2>1. ASSUME NEW q \in Remover
          PROVE  /\ remover'[q].pc = "delete" => jobs' \subseteq remover'[q].list \cup late' \cup kept'
                 /\ remover'[q].pc = "free" => jobs' \subseteq late' \cup kept'
      <3>1. CASE q = r
        BY <1>2, <3>1
      <3>2. CASE q # r
        <4>1. remover'[q] = remover[q]
          BY <1>2, <3>2
        <4>. QED  BY <4>1 DEF RemovalInv, Receivers
      <3>. QED  BY <3>1, <3>2
    <2>. QED  BY <2>1 DEF Receivers
  <1>5. Files'
    <2>1. ASSUME NEW q \in Remover, NEW f \in File
          PROVE  /\ remover'[q].pc # "free" => remover'[q].file[f] = "todo"
                 /\ remover'[q].pc = "free" /\ remover'[q].file[f] = "done" /\ f \in data'
                      => f \in missed' \cup rewritten'
      <3>1. CASE q = r
        BY <1>2, <3>1
      <3>2. CASE q # r
        <4>1. remover'[q] = remover[q]
          BY <1>2, <3>2
        <4>. QED  BY <4>1 DEF RemovalInv, Files
      <3>. QED  BY <3>1, <3>2
    <2>. QED  BY <2>1 DEF Files
  <1>. QED  BY <1>3, <1>4, <1>5 DEF RemovalInv

(* A step of somebody else: a transfer, a receiver, the node               *)
LEMMA OthersInv ==
    ASSUME RemovalInv, UNCHANGED <<mark, remover, missed, undone, removals, troubles>>,
           stored' \subseteq File, known' \subseteq Who \X File,
           stopping' \subseteq Who \X File, task' \in [Who -> [File -> TaskState]],
           up' \in BOOLEAN, transfers' \in 0..MaxTransfers,
           jobs' \subseteq User, late' \subseteq User, kept' \subseteq User,
           Marked => jobs' \ (late' \cup kept') \subseteq jobs \ (late \cup kept),
           data' \subseteq File, rewritten \subseteq rewritten', rewritten' \subseteq File,
           Marked => data' \subseteq data \cup rewritten'
    PROVE  RemovalInv'
  <1>1. RemovalTypeOK'
    BY DEF RemovalInv, RemovalTypeOK
  <1>2. Receivers'
    <2>1. ASSUME NEW r \in Remover
          PROVE  /\ remover[r].pc = "delete" => jobs' \subseteq remover[r].list \cup late' \cup kept'
                 /\ remover[r].pc = "free" => jobs' \subseteq late' \cup kept'
      <3>1. remover[r].pc \in {"delete", "free"} => Marked
        BY DEF Marked
      <3>. QED  BY <3>1 DEF RemovalInv, Receivers
    <2>. QED  BY <2>1 DEF Receivers
  <1>3. Files'
    <2>1. ASSUME NEW r \in Remover, NEW f \in File
          PROVE  /\ remover[r].pc # "free" => remover[r].file[f] = "todo"
                 /\ remover[r].pc = "free" /\ remover[r].file[f] = "done" /\ f \in data'
                      => f \in missed \cup rewritten'
      <3>1. remover[r].pc = "free" => Marked
        BY DEF Marked
      <3>. QED  BY <3>1 DEF RemovalInv, Files
    <2>2. mark = 2 => data' \subseteq missed \cup rewritten'
      BY DEF RemovalInv, Files, Marked
    <2>. QED  BY <2>1, <2>2 DEF Files
  <1>. QED  BY <1>1, <1>2, <1>3 DEF RemovalInv

LEMMA RemoverTypes ==
    ASSUME RemovalTypeOK, NEW r \in Remover
    PROVE  /\ remover \in [Remover -> RemoverState] /\ remover[r] \in RemoverState
           /\ known \subseteq Who \X File /\ stopping \subseteq Who \X File
           /\ removals \in 0..MaxRemovals /\ troubles \in 0..MaxTroubles
           /\ mark \in 0..2 /\ undone \in Nat
           /\ missed \subseteq File /\ rewritten \subseteq File /\ data \subseteq File
           /\ jobs \subseteq User /\ late \subseteq User /\ kept \subseteq User
  BY DEF RemovalTypeOK, RemoverState

LEMMA TasksType == ASSUME NEW u \in Who PROVE Tasks(u) \subseteq Who \X File
  BY DEF Tasks

(* What the steps of a delete request leave alone                          *)
RestOfRemoval == <<stored, known, task, up, transfers>>

(* A step that moves request r and the mark, and little else               *)
LEMMA RemoverMoves ==
    ASSUME RemovalInv, NEW r \in Remover, NEW x \in RemoverState,
           remover' = [remover EXCEPT ![r] = x],
           UNCHANGED <<RestOfRemoval, jobs, late, data, missed, rewritten>>,
           stopping' \subseteq Who \X File, removals' \in 0..MaxRemovals,
           undone' \in Nat, troubles' \in 0..MaxTroubles,
           kept \subseteq kept', kept' \subseteq User,
           mark' \in 0..2,
           mark' = 2 => mark = 2 \/ data \subseteq missed \cup rewritten,
           x.pc = "delete" => jobs \subseteq x.list \cup late \cup kept',
           x.pc = "free" => jobs \subseteq late \cup kept,
           \A f \in File : x.file[f] = "todo"
    PROVE  RemovalInv'
  <1>1. /\ RemovalTypeOK /\ late \subseteq User /\ missed \subseteq File
        /\ rewritten \subseteq File /\ data \subseteq File
    BY RemoverTypes DEF RemovalInv
  <1>2. mark = 2 => data \subseteq missed \cup rewritten
    BY DEF RemovalInv, Files
  <1>3. UNCHANGED <<stored, known, task, up, transfers, jobs, late, data, missed, rewritten>>
    BY DEF RestOfRemoval
  <1>. QED  BY <1>1, <1>2, <1>3, RemoverInv

LEMMA RemoverStepInv ==
    ASSUME RemovalInv, NEW r \in Remover,
           Delete(r) \/ RemoverStep(r) \/ \E f \in File : Hangs(r, f)
    PROVE  RemovalInv'
  <1>. DEFINE me == remover[r]
  <1>1. /\ RemovalTypeOK /\ Receivers /\ Files
        /\ remover \in [Remover -> RemoverState] /\ me \in RemoverState
        /\ known \subseteq Who \X File /\ stopping \subseteq Who \X File
        /\ removals \in 0..MaxRemovals /\ troubles \in 0..MaxTroubles
        /\ mark \in 0..2 /\ undone \in Nat
        /\ missed \subseteq File /\ rewritten \subseteq File /\ data \subseteq File
        /\ jobs \subseteq User /\ late \subseteq User /\ kept \subseteq User
    BY RemoverTypes DEF RemovalInv
  <1>2. /\ me.pc = "delete" => jobs \subseteq me.list \cup late \cup kept
        /\ me.pc = "free" => jobs \subseteq late \cup kept
        /\ me.pc # "free" => \A f \in File : me.file[f] = "todo"
        /\ me.pc = "free" => \A f \in data : me.file[f] = "done" => f \in missed \cup rewritten
        /\ mark = 2 => data \subseteq missed \cup rewritten
    BY <1>1 DEF Receivers, Files
  <1>a. Fails => troubles' \in 0..MaxTroubles
    BY <1>1 DEF Fails
  <1>3. CASE Delete(r)
    <2>1. PICK k \in Kinds : remover' = [remover EXCEPT ![r].pc = "stop", ![r].kind = k]
      BY <1>3 DEF Delete
    <2>. DEFINE x == [me EXCEPT !.pc = "stop", !.kind = k]
    <2>2. /\ x \in RemoverState /\ x.pc = "stop" /\ x.file = me.file
          /\ remover' = [remover EXCEPT ![r] = x]
      BY <1>1, <2>1 DEF RemoverState
    <2>3. removals < MaxRemovals /\ removals' = removals + 1
      BY <1>3 DEF Delete
    <2>4. removals' \in 0..MaxRemovals
      BY <1>1, <2>3
    <2>5. /\ me.pc = "idle"
          /\ UNCHANGED <<mark, jobs, stored, known, stopping, task, up, data, missed,
                         rewritten, late, kept, undone, transfers, troubles>>
      BY <1>3 DEF Delete, At, NotRemoving, Elsewhere
    <2>. HIDE DEF x, me
    <2>. QED  BY <1>1, <1>2, <2>2, <2>4, <2>5, RemoverMoves DEF RestOfRemoval
  <1>4. CASE Check(r) \/ Stop(r)
    <2>1. PICK c \in {"idle", "mark"} : remover' = [remover EXCEPT ![r].pc = c]
      BY <1>4 DEF Check, Stop, Goto
    <2>. DEFINE x == [me EXCEPT !.pc = c]
    <2>2. /\ x \in RemoverState /\ x.pc = c /\ x.file = me.file
          /\ remover' = [remover EXCEPT ![r] = x]
      BY <1>1, <2>1 DEF RemoverState
    <2>3. /\ me.pc = "stop"
          /\ UNCHANGED <<mark, jobs, stored, known, task, up, data, missed,
                         rewritten, late, kept, undone, transfers, removals, troubles>>
      BY <1>4 DEF Check, Stop, At, NotRemoving, Elsewhere
    <2>4. stopping' \subseteq Who \X File
      <3>1. Owner \in Who
        BY DEF Who
      <3>2. Tasks(Owner) \subseteq Who \X File
        BY <3>1, TasksType
      <3>. QED  BY <1>1, <1>4, <3>2 DEF Check, Stop
    <2>. HIDE DEF x, me
    <2>. QED  BY <1>1, <1>2, <2>2, <2>3, <2>4, RemoverMoves DEF RestOfRemoval
  <1>5. CASE Mark(r)
    <2>. DEFINE x == [me EXCEPT !.pc = "list", !.kind = "one"]
    <2>1. /\ x \in RemoverState /\ x.pc = "list" /\ x.file = me.file
          /\ remover' = [remover EXCEPT ![r] = x]
      BY <1>1, <1>5 DEF RemoverState, Mark
    <2>2. /\ me.pc = "mark" /\ mark' \in {1, mark} /\ troubles' \in 0..MaxTroubles
          /\ UNCHANGED <<jobs, stored, known, stopping, task, up, data, missed,
                         rewritten, late, kept, undone, transfers, removals>>
      BY <1>1, <1>5, <1>a DEF Mark, At, Elsewhere
    <2>. HIDE DEF x, me
    <2>3. mark' \in 0..2 /\ (mark' = 2 => mark = 2)
      BY <1>1, <2>2
    <2>. QED  BY <1>1, <1>2, <2>1, <2>2, <2>3, RemoverMoves, ZenonT(60) DEF RestOfRemoval
  <1>6. CASE List(r)
    <2>1. PICK found \in {jobs, {}} :
            /\ remover' = [remover EXCEPT ![r].pc = "delete", ![r].list = found]
            /\ IF found = jobs THEN UNCHANGED <<kept, troubles>> ELSE Fails /\ kept' = jobs
      BY <1>6 DEF List
    <2>. DEFINE x == [me EXCEPT !.pc = "delete", !.list = found]
    <2>2. /\ x \in RemoverState /\ x.pc = "delete" /\ x.file = me.file /\ x.list = found
          /\ remover' = [remover EXCEPT ![r] = x]
      BY <1>1, <2>1 DEF RemoverState
    <2>3. /\ me.pc = "list"
          /\ UNCHANGED <<mark, jobs, stored, known, stopping, task, up, data, missed,
                         rewritten, late, undone, transfers, removals>>
      BY <1>6 DEF List, At, Elsewhere
    <2>4. kept' \subseteq User /\ troubles' \in 0..MaxTroubles
      BY <1>1, <1>a, <2>1
    <2>5. jobs \subseteq found \cup kept'
      BY <2>1
    <2>6. jobs' \ (late' \cup kept') \subseteq jobs \ (late \cup kept)
      <3>1. CASE found = jobs
        BY <2>1, <2>3, <3>1
      <3>2. CASE found # jobs
        BY <2>1, <2>3, <3>2
      <3>. QED  BY <3>1, <3>2
    <2>. HIDE DEF x, me
    <2>. QED  BY <1>1, <1>2, <2>2, <2>3, <2>4, <2>5, <2>6, RemoverInv
  <1>7. CASE DeleteJob(r)
    <2>1. PICK u \in me.list :
            /\ remover' = [remover EXCEPT ![r].list = @ \ {u}]
            /\ \/ NoRow(u) /\ UNCHANGED troubles
               \/ /\ Fails /\ kept' = kept \cup (jobs \cap {u})
                  /\ UNCHANGED <<jobs, late>>
      BY <1>7 DEF DeleteJob
    <2>. DEFINE x == [me EXCEPT !.list = me.list \ {u}]
    <2>2. /\ x \in RemoverState /\ x.pc = me.pc /\ x.file = me.file /\ x.list = me.list \ {u}
          /\ remover' = [remover EXCEPT ![r] = x]
      BY <1>1, <2>1 DEF RemoverState
    <2>3. /\ me.pc = "delete"
          /\ UNCHANGED <<mark, stored, known, stopping, task, up, data, missed,
                         rewritten, undone, transfers, removals>>
      BY <1>7 DEF DeleteJob, At, Elsewhere
    <2>. HIDE DEF x, me
    <2>4. /\ jobs' \subseteq jobs /\ late' \subseteq User /\ kept' \subseteq User
          /\ jobs' \ (late' \cup kept') \subseteq jobs \ (late \cup kept)
          /\ jobs' \subseteq x.list \cup late' \cup kept'
          /\ troubles' \in 0..MaxTroubles
      <3>1. CASE NoRow(u) /\ UNCHANGED troubles
        BY <1>1, <1>2, <2>2, <2>3, <3>1 DEF NoRow
      <3>2. CASE Fails /\ kept' = kept \cup (jobs \cap {u}) /\ UNCHANGED <<jobs, late>>
        BY <1>1, <1>2, <1>a, <2>2, <2>3, <3>2
      <3>. QED  BY <2>1, <3>1, <3>2
    <2>. QED  BY <1>1, <1>2, <2>2, <2>3, <2>4, RemoverInv
  <1>8. CASE Launch(r)
    <2>. DEFINE x == [me EXCEPT !.pc = "free"]
    <2>1. /\ x \in RemoverState /\ x.pc = "free" /\ x.file = me.file
          /\ remover' = [remover EXCEPT ![r] = x]
      BY <1>1, <1>8 DEF RemoverState, Launch, Goto
    <2>2. /\ me.pc = "delete" /\ me.list = {}
          /\ UNCHANGED <<mark, jobs, stored, known, stopping, task, up, data, missed,
                         rewritten, late, kept, undone, transfers, removals, troubles>>
      BY <1>8 DEF Launch, At, NotRemoving, Elsewhere
    <2>. HIDE DEF x, me
    <2>. QED  BY <1>1, <1>2, <2>1, <2>2, RemoverMoves DEF RestOfRemoval
  <1>b. CASE LaunchNone(r)
    <2>. DEFINE none == [f \in File |-> "done"]
                x == [me EXCEPT !.pc = "free", !.file = none]
    <2>1. /\ x \in RemoverState /\ x.pc = "free" /\ x.file = none
          /\ remover' = [remover EXCEPT ![r] = x]
      BY <1>1, <1>b DEF RemoverState, LaunchNone
    <2>2. /\ me.pc = "delete" /\ me.list = {} /\ missed' = data
          /\ troubles' \in 0..MaxTroubles
          /\ UNCHANGED <<mark, jobs, stored, known, stopping, task, up, data,
                         rewritten, late, kept, undone, transfers, removals>>
      BY <1>a, <1>b DEF LaunchNone, At, Elsewhere
    <2>. HIDE DEF x, me, none
    <2>3. jobs' \subseteq late' \cup kept'
      BY <1>2, <2>2
    <2>. QED  BY <1>1, <2>1, <2>2, <2>3, RemoverInv
  <1>9. ASSUME NEW f \in File,
               \/ Skip(r, f) \/ SendRemove(r, f) \/ Removed(r, f) \/ NotRemoved(r, f)
               \/ Hangs(r, f)
        PROVE  RemovalInv'
    <2>1. PICK to \in {"sent", "hung", "done"} :
            /\ remover' = [remover EXCEPT ![r].file[f] = to]
            /\ to = "done" => f \in missed' \/ f \notin data'
      BY <1>9 DEF Skip, SendRemove, Removed, NotRemoved, Hangs, Sees
    <2>. DEFINE x == [me EXCEPT !.file = [me.file EXCEPT ![f] = to]]
    <2>2. /\ x \in RemoverState /\ x.pc = me.pc /\ x.list = me.list
          /\ \A g \in File : x.file[g] = IF g = f THEN to ELSE me.file[g]
          /\ remover' = [remover EXCEPT ![r] = x]
      BY <1>1, <2>1 DEF RemoverState
    <2>3. /\ me.pc = "free"
          /\ UNCHANGED <<mark, jobs, stored, known, stopping, task, up, late, kept,
                         undone, transfers, removals, troubles>>
      BY <1>9 DEF Skip, SendRemove, Removed, NotRemoved, Hangs, Sees, At, bounds
    <2>4. /\ data' \subseteq data /\ missed' \subseteq File /\ rewritten' \subseteq File
          /\ data' \cap (missed \cup rewritten) \subseteq missed' \cup rewritten'
      BY <1>1, <1>9 DEF Skip, SendRemove, Removed, NotRemoved, Hangs
    <2>. HIDE DEF x, me
    <2>5. \A g \in data' : x.file[g] = "done" => g \in missed' \cup rewritten'
      BY <1>1, <1>2, <2>1, <2>2, <2>3, <2>4
    <2>6. mark' = 2 => data' \subseteq missed' \cup rewritten'
      BY <1>2, <2>3, <2>4
    <2>7. jobs' \subseteq late' \cup kept'
      BY <1>2, <2>3
    <2>. QED  BY <1>1, <2>2, <2>3, <2>4, <2>5, <2>6, <2>7, RemoverInv
  <1>10. CASE Finish(r)
    <2>1. /\ Idle \in RemoverState /\ Idle.pc = "idle" /\ \A f \in File : Idle.file[f] = "todo"
          /\ remover' = [remover EXCEPT ![r] = Idle]
      BY <1>10 DEF RemoverState, Finish, Idle
    <2>2. /\ me.pc = "free" /\ \A f \in File : me.file[f] = "done"
          /\ mark' \in {2, mark} /\ undone' \in Nat /\ troubles' \in 0..MaxTroubles
          /\ UNCHANGED <<jobs, stored, known, stopping, task, up, data, missed,
                         rewritten, late, kept, transfers, removals>>
      BY <1>1, <1>10, <1>a DEF Finish, At, Elsewhere
    <2>. HIDE DEF me
    <2>3. data \subseteq missed \cup rewritten
      BY <1>1, <1>2, <2>2
    <2>4. mark' \in 0..2
      BY <1>1, <2>2
    <2>. QED  BY <1>1, <2>1, <2>2, <2>3, <2>4, RemoverMoves DEF RestOfRemoval
  <1>. QED
    BY <1>3, <1>4, <1>5, <1>6, <1>7, <1>8, <1>b, <1>9, <1>10 DEF RemoverStep

LEMMA OtherTypes ==
    ASSUME RemovalTypeOK
    PROVE  /\ task \in [Who -> [File -> TaskState]] /\ stored \subseteq File
           /\ known \subseteq Who \X File /\ stopping \subseteq Who \X File
           /\ jobs \subseteq User /\ data \subseteq File /\ up \in BOOLEAN
           /\ rewritten \subseteq File /\ late \subseteq User /\ kept \subseteq User
           /\ transfers \in 0..MaxTransfers
  BY DEF RemovalTypeOK

(* A task is moved to the state which the handler gives it.                *)
LEMMA MovesType ==
    ASSUME NEW w \in Who, NEW f \in File, NEW from, NEW to \in TaskState,
           task \in [Who -> [File -> TaskState]], Moves(w, f, from, to)
    PROVE  task' \in [Who -> [File -> TaskState]]
  <1>. DEFINE row == [task[w] EXCEPT ![f] = to]
  <1>1. row \in [File -> TaskState] /\ task' = [task EXCEPT ![w] = row]
    BY DEF Moves
  <1>. HIDE DEF row
  <1>. QED  BY <1>1

(* What a node writes while the package is removed is known to be written  *)
(* then.                                                                   *)
LEMMA WritesData ==
    ASSUME NEW f \in File, Writes(f), data \subseteq File, rewritten \subseteq File
    PROVE  /\ data' \subseteq File /\ rewritten' \subseteq File
           /\ rewritten \subseteq rewritten'
           /\ Marked => data' \subseteq data \cup rewritten'
  BY DEF Writes

LEMMA TransferStepInv ==
    ASSUME RemovalInv, NEW w \in Who, NEW f \in File, TransferStep(w, f)
    PROVE  RemovalInv'
  <1>1. /\ task \in [Who -> [File -> TaskState]] /\ stored \subseteq File
        /\ known \subseteq Who \X File /\ stopping \subseteq Who \X File
        /\ jobs \subseteq User /\ data \subseteq File /\ up \in BOOLEAN
        /\ rewritten \subseteq File /\ late \subseteq User /\ kept \subseteq User
        /\ transfers \in 0..MaxTransfers
    BY OtherTypes DEF RemovalInv
  <1>2. UNCHANGED <<mark, jobs, remover, up, missed, late, kept, undone, removals, troubles>>
    BY DEF TransferStep, Ask, Take, GiveUp, AddTask, SetStorage, End, Stopped, Report,
           NotMoving
  <1>3. task' \in [Who -> [File -> TaskState]]
    <2>1. CASE Ask(w, f)
      BY <1>1, <2>1, MovesType DEF Ask, TaskState
    <2>2. CASE Take(w, f)
      BY <1>1, <2>2, MovesType DEF Take, TaskState
    <2>3. CASE GiveUp(w, f)
      BY <1>1, <2>3, MovesType DEF GiveUp, TaskState
    <2>4. CASE AddTask(w, f)
      BY <1>1, <2>4, MovesType DEF AddTask, TaskState
    <2>5. CASE SetStorage(w, f)
      BY <1>1, <2>5, MovesType DEF SetStorage, TaskState
    <2>6. CASE End(w, f)
      BY <1>1, <2>6, MovesType DEF End, TaskState
    <2>7. CASE Stopped(w, f)
      BY <1>1, <2>7, MovesType DEF Stopped, TaskState
    <2>8. CASE Report(w, f)
      BY <1>1, <2>8 DEF Report
    <2>. QED  BY <2>1, <2>2, <2>3, <2>4, <2>5, <2>6, <2>7, <2>8 DEF TransferStep
  <1>4. transfers' \in 0..MaxTransfers
    <2>1. CASE Ask(w, f)
      BY <1>1, <2>1 DEF Ask
    <2>2. CASE ~Ask(w, f)
      BY <1>1, <2>2 DEF TransferStep, Take, GiveUp, AddTask, SetStorage, End, Stopped, Report
    <2>. QED  BY <2>1, <2>2
  <1>5. stored' \subseteq File
    BY <1>1 DEF TransferStep, Ask, Take, GiveUp, AddTask, SetStorage, End, Stopped, Report
  <1>6. known' \subseteq Who \X File /\ stopping' \subseteq Who \X File
    BY <1>1 DEF TransferStep, Ask, Take, GiveUp, AddTask, SetStorage, End, Stopped, Report
  <1>7. /\ data' \subseteq File /\ rewritten' \subseteq File
        /\ rewritten \subseteq rewritten'
        /\ Marked => data' \subseteq data \cup rewritten'
    <2>1. CASE Take(w, f)
      BY <1>1, <2>1, WritesData DEF Take
    <2>2. CASE ~Take(w, f)
      <3>1. UNCHANGED <<data, rewritten>>
        BY <2>2 DEF TransferStep, Ask, GiveUp, AddTask, SetStorage, End, Stopped, Report
      <3>. QED  BY <1>1, <3>1
    <2>. QED  BY <2>1, <2>2
  <1>8. jobs' \ (late' \cup kept') \subseteq jobs \ (late \cup kept)
    BY <1>2
  <1>. QED  BY <1>1, <1>2, <1>3, <1>4, <1>5, <1>6, <1>7, <1>8, OthersInv

(* The upload writes, receivers change, the node goes and comes.           *)
LEMMA OtherStepInv ==
    ASSUME RemovalInv,
           \/ \E f \in File : Write(f)
           \/ \E u \in User : AddReceiver(u) \/ RemoveReceiver(u)
           \/ NodeGoes \/ NodeComes
    PROVE  RemovalInv'
  <1>1. /\ task \in [Who -> [File -> TaskState]] /\ stored \subseteq File
        /\ known \subseteq Who \X File /\ stopping \subseteq Who \X File
        /\ jobs \subseteq User /\ data \subseteq File /\ up \in BOOLEAN
        /\ rewritten \subseteq File /\ late \subseteq User /\ kept \subseteq User
        /\ transfers \in 0..MaxTransfers
    BY OtherTypes DEF RemovalInv
  <1>2. ASSUME NEW f \in File, Write(f)
        PROVE  RemovalInv'
    <2>1. UNCHANGED <<mark, jobs, remover, up, missed, late, kept, undone, removals,
                      troubles, task, stored, known, stopping, transfers>>
      BY <1>2 DEF Write, NotMoving
    <2>2. /\ data' \subseteq File /\ rewritten' \subseteq File
          /\ rewritten \subseteq rewritten'
          /\ Marked => data' \subseteq data \cup rewritten'
      BY <1>1, <1>2, WritesData DEF Write
    <2>. QED  BY <1>1, <2>1, <2>2, OthersInv
  <1>3. ASSUME NEW u \in User, AddReceiver(u)
        PROVE  RemovalInv'
    <2>1. UNCHANGED <<mark, stored, task, known, stopping, remover, up, data, missed,
                      rewritten, kept, undone, transfers, removals, troubles>>
      BY <1>3 DEF AddReceiver, bounds
    <2>2. /\ jobs' \subseteq User /\ late' \subseteq User
          /\ Marked => jobs' \ (late' \cup kept') \subseteq jobs \ (late \cup kept)
      BY <1>1, <1>3, <2>1 DEF AddReceiver
    <2>. QED  BY <1>1, <2>1, <2>2, OthersInv
  <1>4. ASSUME NEW u \in User, RemoveReceiver(u)
        PROVE  RemovalInv'
    <2>1. UNCHANGED <<mark, stored, task, known, remover, up, data, missed,
                      rewritten, undone, transfers, removals, troubles>>
      BY <1>4 DEF RemoveReceiver, bounds
    <2>2. /\ jobs' \subseteq User /\ late' \subseteq User /\ kept' \subseteq User
          /\ jobs' \ (late' \cup kept') \subseteq jobs \ (late \cup kept)
      BY <1>1, <1>4 DEF RemoveReceiver, NoRow
    <2>3. stopping' \subseteq Who \X File
      BY <1>1, <1>4, TasksType DEF RemoveReceiver, Who
    <2>. QED  BY <1>1, <2>1, <2>2, <2>3, OthersInv
  <1>5. CASE NodeGoes \/ NodeComes
    <2>1. /\ UNCHANGED <<mark, jobs, stored, task, known, stopping, remover, data, missed,
                         late, kept, rewritten, undone, transfers, removals, troubles>>
          /\ up' \in BOOLEAN
      BY <1>5 DEF NodeGoes, NodeComes, server, history, bounds
    <2>. QED  BY <1>1, <2>1, OthersInv
  <1>. QED  BY <1>2, <1>3, <1>4, <1>5

LEMMA IdleState ==
    Idle \in RemoverState /\ Idle.pc = "idle" /\ \A f \in File : Idle.file[f] = "todo"
  BY DEF RemoverState, Idle

(* A restart forgets every delete request; the mark and the rows stay.     *)
LEMMA RestartInv ==
    ASSUME RemovalInv, Restart
    PROVE  RemovalInv'
  <1>1. /\ RemovalTypeOK /\ task \in [Who -> [File -> TaskState]]
    BY OtherTypes DEF RemovalInv
  <1>2. /\ remover' \in [Remover -> RemoverState]
        /\ \A r \in Remover : remover'[r] = Idle
    BY IdleState DEF Restart
  <1>3. task' \in [Who -> [File -> TaskState]]
    <2>. DEFINE after(w, f) == CASE task[w][f] = "asked" -> "none"
                                 [] task[w][f] = "taken" -> "lost"
                                 [] task[w][f] = "added" -> "running"
                                 [] OTHER -> task[w][f]
    <2>1. ASSUME NEW w \in Who, NEW f \in File
          PROVE  after(w, f) \in TaskState
      BY <1>1 DEF TaskState
    <2>2. task' = [w \in Who |-> [f \in File |-> after(w, f)]]
      BY DEF Restart
    <2>. HIDE DEF after
    <2>. QED  BY <2>1, <2>2
  <1>4. troubles' \in 0..MaxTroubles /\ undone' \in Nat
    BY <1>1 DEF RemovalTypeOK, Restart
  <1>5. /\ UNCHANGED <<mark, jobs, stored, data, missed, rewritten, late, kept, transfers,
                      removals>>
        /\ known' = {} /\ stopping' = {} /\ up' = FALSE
    BY DEF Restart
  <1>6. RemovalTypeOK'
    BY <1>1, <1>2, <1>3, <1>4, <1>5 DEF RemovalTypeOK, RemoverState
  <1>7. Receivers'
    BY <1>2, IdleState DEF Receivers
  <1>8. Files'
    BY <1>2, <1>5, IdleState DEF Files, RemovalInv
  <1>. QED  BY <1>6, <1>7, <1>8 DEF RemovalInv

LEMMA RemovalInitInv == RemovalInit => RemovalInv
  <1>. SUFFICES ASSUME RemovalInit PROVE RemovalInv
    OBVIOUS
  <1>1. /\ remover \in [Remover -> RemoverState]
        /\ \A r \in Remover : remover[r] = Idle
    BY IdleState DEF RemovalInit
  <1>2. task \in [Who -> [File -> TaskState]]
    BY DEF RemovalInit, TaskState
  <1>3. RemovalTypeOK
    BY <1>1, <1>2 DEF RemovalInit, RemovalTypeOK, RemoverState
  <1>. QED  BY <1>1, <1>3, IdleState DEF RemovalInv, Receivers, Files, RemovalInit

LEMMA RemovalNextInv == RemovalInv /\ [RemovalNext]_removalVars => RemovalInv'
  <1>. SUFFICES ASSUME RemovalInv, [RemovalNext]_removalVars PROVE RemovalInv'
    OBVIOUS
  <1>1. CASE UNCHANGED removalVars
    BY <1>1 DEF removalVars, server, history, bounds, RemovalInv, RemovalTypeOK, Receivers,
                Files
  <1>2. CASE RemovalNext
    BY <1>2, RemoverStepInv, TransferStepInv, OtherStepInv, RestartInv DEF RemovalNext
  <1>. QED  BY <1>1, <1>2

LEMMA RemovalInvariance == RemovalSpec => []RemovalInv
  BY RemovalInitInv, RemovalNextInv, PTL DEF RemovalSpec

(* The state of a removal, of its delete requests and of the transfers has *)
(* its types: type correctness of deleteJob and freePkgSpace with what     *)
(* runs beside them.                                                       *)
THEOREM RemovalTypeCorrect == RemovalSpec => []RemovalTypeOK
  BY RemovalInvariance, PTL DEF RemovalInv

(* When the mark says that the files of a package are removed, what the    *)
(* node still has was missed for a reason or uploaded meanwhile: the mark  *)
(* waits for one answer of each file's goroutine, and only an upload gives *)
(* the node a file again (freePkgSpace).                                   *)
THEOREM LeftHasReason == RemovalSpec => []LeftIsMissed
  <1>1. RemovalInv => LeftIsMissed
    BY DEF RemovalInv, Files, LeftIsMissed
  <1>. QED  BY <1>1, RemovalInvariance, PTL

(* Files are removed only when every receiver which the package had when   *)
(* it was marked is gone, save those whose rows the database did not list  *)
(* or delete, whatever delete requests run beside this one (deleteJob).    *)
THEOREM FreedUnderNobody == RemovalSpec => []FreedHasNoReceiver
  <1>1. RemovalInv => FreedHasNoReceiver
    BY DEF RemovalInv, Receivers, FreedHasNoReceiver
  <1>. QED  BY <1>1, RemovalInvariance, PTL
=============================================================================

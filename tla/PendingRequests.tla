-------------------------- MODULE PendingRequests --------------------------
(***************************************************************************)
(* The requests in flight on one connection (transfer/node.go): callers of *)
(* SendRequestSync, the goroutine that reads the connection and delivers   *)
(* the responses, and the calls of Close, one by each login that displaces *)
(* this connection and one deferred by the reader itself.                  *)
(*                                                                         *)
(* A critical section under req_lock is one step.  The lock is a variable  *)
(* because a goroutine can block or die inside such a section.  Node.lock  *)
(* is only held for one write to the socket or for closing it, so each use *)
(* of it is one step.  Timeouts may fire at any moment.                    *)
(***************************************************************************)
EXTENDS Integers

CONSTANTS
    Req,          \* requests, each made by a caller of its own
    Displacer,    \* logins under the same nid, each closes this connection
    Reader,       \* the goroutine of the connection
    NoReq,
    MaxSeq,       \* bound: requests sent on the connection (2^32 in the code)
    MaxCopies     \* bound: responses the transfer node sends to one request

Errors == {"none", "failed", "impossible", "disconnected", "timeout"}

ASSUME RequestAssumption ==
    /\ Reader \notin Displacer /\ NoReq \notin Req /\ Req \cap Errors = {}
    /\ MaxSeq \in Nat /\ MaxCopies \in Nat

VARIABLES
    pc,        \* pc[r]: where the call of r is
    result,    \* result[r]: what the call returned
    held,      \* held[r]: the PendingReq the call waits on
    seq,       \* Node.seq
    seqOf,     \* seqOf[r]: Message.Seq of request r
    pending,   \* Node.pending_reqs, from sequence numbers to PendingReqs
    obj,       \* obj[r]: the PendingReq made for r
    sent,      \* requests the transfer node has received
    copies,    \* copies[r]: responses to r that were read from the socket
    reader,    \* where the reading goroutine is
    blockedOn, \* the PendingReq whose full channel the reader waits at
    closer,    \* closer[x]: where the Close call of x is
    closed,    \* Node.closed
    reqLock    \* Node.req_lock between steps

callVars == <<pc, result, held>>
tableVars == <<seq, seqOf, pending, obj>>
wireVars == <<sent, copies>>
readerVars == <<reader, blockedOn>>
vars == <<callVars, tableVars, wireVars, readerVars, closer, closed, reqLock>>

-----------------------------------------------------------------------------
Seqs == 0..MaxSeq
Closer == Displacer \cup {Reader}
PendingReq == [rsp: Req \cup {NoReq}, tokens: Nat, open: BOOLEAN]
NewPendingReq == [rsp |-> NoReq, tokens |-> 0, open |-> TRUE]

TypeOK ==
    /\ pc \in [Req -> {"idle", "send", "fetch", "wait", "clear", "returned"}]
    /\ result \in [Req -> Req \cup Errors]   \* never neither answer nor error
    /\ held \in [Req -> Req \cup {NoReq}]
    /\ seq \in Seqs
    /\ seqOf \in [Req -> Seqs]
    /\ pending \in [Seqs -> Req \cup {NoReq}]
    /\ obj \in [Req -> PendingReq]
    /\ sent \subseteq Req
    /\ copies \in [Req -> 0..MaxCopies]
    /\ reader \in {"reading", "blocked", "ended"}
    /\ blockedOn \in Req \cup {NoReq}
    /\ closer \in [Closer -> {"idle", "channels", "socket", "done", "crashed"}]
    /\ closed \in BOOLEAN
    /\ reqLock \in {"free", "reader", "lost"}

Init ==
    /\ pc = [r \in Req |-> "idle"]
    /\ result = [r \in Req |-> "none"]
    /\ held = [r \in Req |-> NoReq]
    /\ seq = 0
    /\ seqOf = [r \in Req |-> 0]
    /\ pending = [s \in Seqs |-> NoReq]
    /\ obj = [r \in Req |-> NewPendingReq]
    /\ sent = {}
    /\ copies = [r \in Req |-> 0]
    /\ reader = "reading"
    /\ blockedOn = NoReq
    /\ closer = [x \in Closer |-> "idle"]
    /\ closed = FALSE
    /\ reqLock = "free"

-----------------------------------------------------------------------------
(* SendRequestSync.                                                        *)

Return(r, value) ==
    /\ pc' = [pc EXCEPT ![r] = "returned"]
    /\ result' = [result EXCEPT ![r] = value]

(* SendRequest: the request gets its number and its entry under req_lock.  *)
Register(r) ==
    /\ pc[r] = "idle" /\ reqLock = "free" /\ seq < MaxSeq
    /\ seqOf' = [seqOf EXCEPT ![r] = seq]
    /\ pending' = [pending EXCEPT ![seq] = r]
    /\ seq' = seq + 1
    /\ pc' = [pc EXCEPT ![r] = "send"]
    /\ UNCHANGED <<result, held, obj, wireVars, readerVars, closer, closed,
                   reqLock>>

(* SendMessage: an error if the node is closed; the entry stays then.  The *)
(* result of the write is not looked at, so the message may be lost.       *)
Send(r) ==
    /\ pc[r] = "send"
    /\ \/ /\ closed
          /\ Return(r, "failed")
          /\ UNCHANGED sent
       \/ /\ ~closed
          /\ pc' = [pc EXCEPT ![r] = "fetch"]
          /\ sent' \in {sent, sent \cup {r}}
          /\ UNCHANGED result
    /\ UNCHANGED <<held, tableVars, copies, readerVars, closer, closed, reqLock>>

(* Mutant: the entry of the latest number is looked up.                    *)
Fetch_Latest(r) ==
    LET entry == pending[seq - 1] IN
    /\ pc[r] = "fetch" /\ reqLock = "free"
    /\ \/ /\ entry = NoReq
          /\ Return(r, "impossible")
          /\ UNCHANGED held
       \/ /\ entry # NoReq
          /\ held' = [held EXCEPT ![r] = entry]
          /\ pc' = [pc EXCEPT ![r] = "wait"]
          /\ UNCHANGED result
    /\ UNCHANGED <<tableVars, wireVars, readerVars, closer, closed, reqLock>>

(* The entry is looked up again, under req_lock.                           *)
Fetch(r) ==
    LET entry == pending[seqOf[r]] IN
    /\ pc[r] = "fetch" /\ reqLock = "free"
    /\ \/ /\ entry = NoReq
          /\ Return(r, "impossible")
          /\ UNCHANGED held
       \/ /\ entry # NoReq
          /\ held' = [held EXCEPT ![r] = entry]
          /\ pc' = [pc EXCEPT ![r] = "wait"]
          /\ UNCHANGED result
    /\ UNCHANGED <<tableVars, wireVars, readerVars, closer, closed, reqLock>>

(* A token arrives on rsp_sem.  A sender that waits at the full channel    *)
(* gets its token in at the same moment and releases req_lock.             *)
Wake(r) ==
    LET o == held[r] IN
    /\ pc[r] = "wait"
    /\ \/ /\ reader = "blocked" /\ blockedOn = o
          /\ reader' = "reading" /\ blockedOn' = NoReq
          /\ reqLock' = "free"
          /\ UNCHANGED obj
       \/ /\ obj[o].tokens > 0 /\ blockedOn # o
          /\ obj' = [obj EXCEPT ![o].tokens = @ - 1]
          /\ UNCHANGED <<readerVars, reqLock>>
    /\ result' = [result EXCEPT ![r] = obj[o].rsp]
    /\ pc' = [pc EXCEPT ![r] = "clear"]
    /\ UNCHANGED <<held, seq, seqOf, pending, wireVars, closer, closed>>

(* rsp_sem was closed: the call returns at once and leaves its entry.      *)
Disconnected(r) ==
    /\ pc[r] = "wait"
    /\ ~obj[held[r]].open /\ obj[held[r]].tokens = 0
    /\ Return(r, "disconnected")
    /\ UNCHANGED <<held, tableVars, wireVars, readerVars, closer, closed, reqLock>>

(* Mutant: no timer once the node is closed, for Close wakes every caller. *)
Timeout_WhileOpen(r) ==
    /\ pc[r] = "wait" /\ ~closed
    /\ result' = [result EXCEPT ![r] = "timeout"]
    /\ pc' = [pc EXCEPT ![r] = "clear"]
    /\ UNCHANGED <<held, tableVars, wireVars, readerVars, closer, closed, reqLock>>

(* The timer of the call, which fires whatever else happens.               *)
Timeout(r) ==
    /\ pc[r] = "wait"
    /\ result' = [result EXCEPT ![r] = "timeout"]
    /\ pc' = [pc EXCEPT ![r] = "clear"]
    /\ UNCHANGED <<held, tableVars, wireVars, readerVars, closer, closed, reqLock>>

(* The entry is deleted under req_lock.                                    *)
Clear(r) ==
    /\ pc[r] = "clear" /\ reqLock = "free"
    /\ pending' = [pending EXCEPT ![seqOf[r]] = NoReq]
    /\ pc' = [pc EXCEPT ![r] = "returned"]
    /\ UNCHANGED <<result, held, seq, seqOf, obj, wireVars, readerVars, closer,
                   closed, reqLock>>

-----------------------------------------------------------------------------
(* The reading goroutine.                                                  *)

Capacity == 1     \* of rsp_sem

(* HandleMsg of a response to request q, which may be late, sent again, or *)
(* buffered from before the socket was closed.  On a closed channel the    *)
(* send panics with req_lock held; the deferred Close comes next.          *)
Receive(q) ==
    LET o == pending[seqOf[q]] IN
    /\ reader = "reading" /\ reqLock = "free"
    /\ q \in sent /\ copies[q] < MaxCopies
    /\ copies' = [copies EXCEPT ![q] = @ + 1]
    /\ \/ /\ o = NoReq
          /\ UNCHANGED <<obj, readerVars, closer, reqLock>>
       \/ /\ o # NoReq /\ obj[o].open /\ obj[o].tokens < Capacity
          /\ obj' = [obj EXCEPT ![o].rsp = q, ![o].tokens = @ + 1]
          /\ UNCHANGED <<readerVars, closer, reqLock>>
       \/ /\ o # NoReq /\ obj[o].open /\ obj[o].tokens >= Capacity
          /\ obj' = [obj EXCEPT ![o].rsp = q]
          /\ reader' = "blocked" /\ blockedOn' = o
          /\ reqLock' = "reader"
          /\ UNCHANGED closer
       \/ /\ o # NoReq /\ ~obj[o].open
          /\ obj' = [obj EXCEPT ![o].rsp = q]
          /\ reader' = "ended" /\ UNCHANGED blockedOn
          /\ closer' = [closer EXCEPT ![Reader] = "channels"]
          /\ reqLock' = "lost"
    /\ UNCHANGED <<callVars, seq, seqOf, pending, sent, closed>>

(* The socket fails, at the other end or because Close has closed it.      *)
ReadFails ==
    /\ reader = "reading"
    /\ reader' = "ended"
    /\ closer' = [closer EXCEPT ![Reader] = "channels"]
    /\ UNCHANGED <<callVars, tableVars, wireVars, blockedOn, closed, reqLock>>

-----------------------------------------------------------------------------
(* Node.Close.                                                             *)

Displace(d) ==
    /\ closer[d] = "idle"
    /\ closer' = [closer EXCEPT ![d] = "channels"]
    /\ UNCHANGED <<callVars, tableVars, wireVars, readerVars, closed, reqLock>>

InTable == {r \in Req : \E s \in Seqs : pending[s] = r}

(* Mutant: Close also empties the table.                                   *)
CloseChannels_Clears(x) ==
    /\ closer[x] = "channels" /\ reqLock = "free"
    /\ obj' = [r \in Req |-> IF r \in InTable THEN [obj[r] EXCEPT !.open = FALSE]
                                              ELSE obj[r]]
    /\ pending' = [s \in Seqs |-> NoReq]
    /\ closer' = [closer EXCEPT ![x] = "socket"]
    /\ UNCHANGED <<seq, seqOf, callVars, wireVars, readerVars, closed, reqLock>>

(* The channels of all entries are closed under req_lock; closing one for  *)
(* the second time panics, after some of the others, and nothing unlocks.  *)
CloseChannels(x) ==
    /\ closer[x] = "channels" /\ reqLock = "free"
    /\ \E S \in SUBSET InTable :
         /\ obj' = [r \in Req |-> IF r \in S THEN [obj[r] EXCEPT !.open = FALSE]
                                             ELSE obj[r]]
         /\ \/ /\ \A r \in InTable : obj[r].open
               /\ S = InTable
               /\ closer' = [closer EXCEPT ![x] = "socket"]
               /\ UNCHANGED reqLock
            \/ /\ \E r \in InTable : ~obj[r].open
               /\ closer' = [closer EXCEPT ![x] = "crashed"]
               /\ reqLock' = "lost"
    /\ UNCHANGED <<callVars, seq, seqOf, pending, wireVars, readerVars, closed>>

(* ... then closed is set and the socket closed, under Node.lock.          *)
CloseSocket(x) ==
    /\ closer[x] = "socket"
    /\ closed' = TRUE
    /\ closer' = [closer EXCEPT ![x] = "done"]
    /\ UNCHANGED <<callVars, tableVars, wireVars, readerVars, reqLock>>

-----------------------------------------------------------------------------
(* What a call does once it has started, however long the peer is silent.  *)
CallStep(r) ==
    \/ Send(r) \/ Fetch(r) \/ Wake(r) \/ Disconnected(r) \/ Timeout(r) \/ Clear(r)

CloseStep(x) == CloseChannels(x) \/ CloseSocket(x)

Next ==
    \/ \E r \in Req : Register(r) \/ CallStep(r) \/ Receive(r)
    \/ ReadFails
    \/ \E d \in Displacer : Displace(d)
    \/ \E x \in Closer : CloseStep(x)

Spec == Init /\ [][Next]_vars

(* Goroutines that can run do run; the peer may be silent forever.         *)
FairSpec ==
    /\ Spec
    /\ \A r \in Req : WF_vars(CallStep(r))
    /\ \A x \in Closer : WF_vars(CloseStep(x))

-----------------------------------------------------------------------------
(* A call returns an answer to its own request or an error, whatever is    *)
(* late, sent again, or closed meanwhile: req.rsp is read without a lock   *)
(* and overwritten by a second response.                                   *)
Calls == INSTANCE SyncCalls WITH
    answered <- {r \in Req : copies[r] > 0},
    outcome <- [r \in Req |->
                  IF pc[r] \notin {"clear", "returned"} THEN "pending"
                  ELSE IF result[r] = r THEN "answer"
                  ELSE IF result[r] \in Req THEN "foreign" ELSE "error"]
ImplementsSyncCalls == Calls!Spec

(* node.go:481, "can't get pending req, it's impossible!".                 *)
EntryIsFound == \A r \in Req : result[r] # "impossible"

(* Every call returns, whether the node answers, stays silent or is lost   *)
(* at any moment, also after its caller has left: the buffer of rsp_sem    *)
(* has room for the answer.  It is not so if answers come twice (the       *)
(* reader waits with req_lock held), or if req_lock was lost in the panic  *)
(* of a second Close or of an answer after Close.                          *)
EveryCallReturns ==
    \A r \in Req : pc[r] = "send" ~>
        pc[r] = "returned" \/ reqLock = "lost" \/ \E q \in Req : copies[q] > 1

(* node.go:498, "jzh: at the end the msg has to be cleared": a call that   *)
(* has returned has no entry left in pending_reqs.                         *)
EntryIsCleared ==
    \A r \in Req : pc[r] = "returned" => \A s \in Seqs : pending[s] # r
=============================================================================

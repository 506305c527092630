----------------------------- MODULE RoundRobin -----------------------------
(***************************************************************************)
(* The unit queue of transfer/task/roundrobin.go.  A container/list of     *)
(* schedulable units is a sequence, front first; the list does not         *)
(* deduplicate, so a unit may sit in it several times.  A filter is the    *)
(* set of the units it accepts.                                            *)
(***************************************************************************)
EXTENDS SequencesExt

(* RoundRobinScheduler.Put: push back, no check for a copy already there.  *)
Put(q, u) == Append(q, u)

(* RoundRobinScheduler.Pop: the first element equal to u goes, if any.     *)
Pop(q, u) == RemoveFirst(q, u)

(* RoundRobinScheduler.Get looks for the first accepted unit from the      *)
(* front; Found is its error result, MoveToBack what becomes of the queue. *)
Accepted(q, Ok) == {i \in DOMAIN q : q[i] \in Ok}
Found(q, Ok) == Accepted(q, Ok) # {}
Pick(q, Ok) == Min(Accepted(q, Ok))
MoveToBack(q, i) == Append(RemoveAt(q, i), q[i])
Get(q, Ok) == MoveToBack(q, Pick(q, Ok))
=============================================================================

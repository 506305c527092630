-------------------------- MODULE MCJobProgress --------------------------
(* Instances of JobProgress for TLC: a file of two segments and one of one. *)
EXTENDS JobProgress, TLC

CONSTANTS f1, f2

NumSegsOf == [f \in File |-> IF f = f1 THEN 2 ELSE 1]
=============================================================================

-------------------------- MODULE MCPackageCreation --------------------------
(***************************************************************************)
(* PackageCreation with two configurations; 12 and 10 are the thresholds.  *)
(***************************************************************************)
EXTENDS PackageCreation

Confs == {[min |-> 3, num |-> 4], [min |-> 2, num |-> 5]}

(* Nothing, less than a segment, a threshold, and beside one a size that   *)
(* neither number of segments divides.                                     *)
SomeSizes == {0, 1, 12, 13}
=============================================================================

------------------------- MODULE MCUploadScheduling -------------------------
(* Instances of UploadScheduling for TLC: two files of one package, a node *)
(* with a storage of its own and two nodes that share one.                 *)
EXTENDS UploadScheduling

CONSTANTS f1, f2, p1, n1, n2, n3, disk, nas

OnePackage == [f \in File |-> p1]
Places == [n \in Node |-> IF n = n1 THEN disk ELSE nas]
=============================================================================

---------------------------- MODULE MCJobTracks ----------------------------
(* Instances of JobTracks for TLC: one package, its owner, its receivers. *)
EXTENDS JobTracks, TLC

CONSTANTS p1, owner

OwnerOf == p1 :> owner
=============================================================================

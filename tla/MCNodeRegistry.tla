--------------------------- MODULE MCNodeRegistry ---------------------------
(* Instances of NodeRegistry for TLC. *)
EXTENDS NodeRegistry

CONSTANTS c1, c2, c3, n1, n2

(* One node process that reconnects, and another node beside it. *)
Reconnecting == (c1 :> n1) @@ (c2 :> n1) @@ (c3 :> n2)
(* One node process that reconnects, alone. *)
Pair == (c1 :> n1) @@ (c2 :> n1)
(* Nodes that connect once. *)
Apart == (c1 :> n1) @@ (c2 :> n2)
=============================================================================

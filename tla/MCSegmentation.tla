--------------------------- MODULE MCSegmentation ---------------------------
(***************************************************************************)
(* Segmentation with every size of a word of 8 bits.                       *)
(***************************************************************************)
EXTENDS Segmentation

(* A min_seg_size too small for max_seg_num to mean what it says.          *)
Small == {[min |-> 1, num |-> 8]}
=============================================================================

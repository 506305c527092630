---------------------------- MODULE Segmentation ----------------------------
(***************************************************************************)
(* DefaultUnpacker.GenerateSegs (pkg/pkg.go): how a file is cut into       *)
(* segments, the loop one iteration at a time.  Sizes are words of the     *)
(* machine, Word is 2^64 in the program; the threshold is a product of two *)
(* of them.  SegSpec is one call after the other, whoever makes them.      *)
(***************************************************************************)
EXTENDS Integers, Sequences

CONSTANTS
    Word,
    Conf            \* configurations of the unpacker: min_seg_size, max_seg_num

(* Config refuses a zero; what the program is configured with is far from  *)
(* a product that does not fit a word.                                     *)
ASSUME ConfigAssumption ==
    /\ Word \in Nat \ {0} /\ Conf # {}
    /\ \A c \in Conf : /\ c \in [min: Nat \ {0}, num: Nat \ {0}]
                       /\ c.min * c.num < Word

VARIABLES
    by,     \* the configuration the file is cut by
    size,   \* the size of the file
    per,    \* per_size
    left,   \* total_size: what is still to be cut
    segs    \* the sizes of the segments

segVars == <<by, size, per, left, segs>>

-----------------------------------------------------------------------------
Threshold(c) == (c.min * c.num) % Word

(* Mutant: a file is cut into as many segments as it may have.             *)
PerSize_Even(c, s) == IF s > Threshold(c) THEN s \div c.num ELSE c.min

PerSize(c, s) ==
    IF s > Threshold(c)
      THEN IF s % c.num = 0 THEN s \div c.num ELSE s \div (c.num - 1)
      ELSE c.min

(* Directories have no size and no segments.                               *)
StartFile(c, s) ==
    /\ by' = c /\ size' = s
    /\ per' = PerSize(c, s) /\ left' = s
    /\ segs' = <<>>

(* Mutant: the rest of a file is a segment of full size.                   *)
Cut_Full ==
    /\ left > 0
    /\ segs' = Append(segs, per)
    /\ left' = IF left < per THEN 0 ELSE left - per
    /\ UNCHANGED <<by, size, per>>

Cut ==
    LET seg == IF left < per THEN left ELSE per IN
    /\ left > 0
    /\ segs' = Append(segs, seg)
    /\ left' = left - seg
    /\ UNCHANGED <<by, size, per>>

SegInit ==
    /\ by \in Conf /\ size = 0
    /\ per = PerSize(by, size) /\ left = size
    /\ segs = <<>>

SegNext == Cut \/ \E c \in Conf, s \in 0..(Word - 1) : StartFile(c, s)

SegSpec == SegInit /\ [][SegNext]_segVars

-----------------------------------------------------------------------------
SegTypeOK ==
    /\ by \in Conf
    /\ size \in 0..(Word - 1) /\ per \in 0..(Word - 1) /\ left \in 0..size
    /\ segs \in Seq(1..(Word - 1))

(* Every byte of the file is in one segment: all segments but the last are *)
(* of the same size, the last is what is left of the file.                 *)
EveryByteOnce ==
    /\ \A i \in DOMAIN segs : i < Len(segs) => segs[i] = per
    /\ LET n == Len(segs) IN
       IF n = 0 THEN left = size ELSE (n - 1) * per + segs[n] + left = size

(* pkg.go:43, max_seg_num is the maximum of segments.                      *)
AtMostMaxSegNum == Len(segs) <= by.num
=============================================================================

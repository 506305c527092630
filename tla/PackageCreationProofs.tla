------------------------ MODULE PackageCreationProofs ------------------------
(***************************************************************************)
(* What holds of the creation of packages for any number of handlers,      *)
(* users, files and configurations.                                        *)
(***************************************************************************)
EXTENDS PackageCreation, TLAPS

-----------------------------------------------------------------------------
(* Segmentation: what is done with every size, for every configuration.    *)

(* Division and remainder by a positive number.                            *)
LEMMA Division ==
    ASSUME NEW a \in Nat, NEW b \in Nat, b > 0
    PROVE  /\ a \div b \in Nat /\ a % b \in 0..(b - 1)
           /\ a = (a \div b) * b + (a % b)
  BY SMT

(* Products of naturals keep the order of a factor.                        *)
LEMMA ProductMonotonic ==
    ASSUME NEW a \in Nat, NEW b \in Nat, NEW c \in Nat, a <= b
    PROVE  a * c <= b * c
  <1>1. PICK d \in Nat : b = a + d
    BY SMT
  <1>2. b * c = a * c + d * c
    BY <1>1, SMT
  <1>3. d * c \in Nat /\ a * c \in Nat
    BY SMT
  <1>. QED  BY <1>2, <1>3, SMT

LEMMA ProductCancels ==
    ASSUME NEW a \in Nat, NEW b \in Nat, NEW c \in Nat, a * c < b * c
    PROVE  a < b
  <1>1. CASE b <= a
    <2>1. b * c <= a * c  BY <1>1, ProductMonotonic
    <2>. QED  BY <2>1, SMT
  <1>. QED  BY <1>1, SMT

(* The threshold does not wrap around.                                     *)
LEMMA ThresholdIsProduct ==
    ASSUME NEW c \in Conf
    PROVE  /\ c.min \in Nat /\ c.min > 0 /\ c.num \in Nat /\ c.num > 0
           /\ c.min < Word /\ Word \in Nat
           /\ Threshold(c) = c.min * c.num
           /\ Threshold(c) \in Nat /\ c.min <= Threshold(c) /\ c.num <= Threshold(c)
  <1>1. /\ c.min \in Nat /\ c.min > 0 /\ c.num \in Nat /\ c.num > 0
        /\ c.min * c.num < Word /\ Word \in Nat
    BY ConfigAssumption, SMT
  <1>2. c.min * c.num \in Nat
    BY <1>1, SMT
  <1>3. Threshold(c) = c.min * c.num
    <2>1. ASSUME NEW x \in Nat, x < Word PROVE x % Word = x
      BY <1>1, <2>1, SMT
    <2>. QED  BY <1>1, <1>2, <2>1 DEF Threshold
  <1>4. 1 * c.num <= c.min * c.num
    BY <1>1, ProductMonotonic, 1 <= c.min
  <1>5. 1 * c.min <= c.num * c.min
    BY <1>1, ProductMonotonic, 1 <= c.num
  <1>. QED  BY <1>1, <1>2, <1>3, <1>4, <1>5, SMT

-----------------------------------------------------------------------------
(* No file is cut into segments of size zero, and no segment is larger     *)
(* than the smallest segment or the file.                                  *)
LEMMA PerSizeInRange ==
    ASSUME NEW c \in Conf, NEW s \in 0..(Word - 1)
    PROVE  PerSize(c, s) \in 1..(Word - 1)
  <1>. USE ThresholdIsProduct
  <1>1. CASE ~(s > Threshold(c))
    BY <1>1, SMT DEF PerSize
  <1>2. CASE s > Threshold(c) /\ s % c.num = 0
    <2>1. s = (s \div c.num) * c.num /\ s \div c.num \in Nat
      BY <1>2, Division, SMT
    <2>2. s \div c.num # 0
      BY <1>2, <2>1, SMT
    <2>3. (s \div c.num) * 1 <= (s \div c.num) * c.num
      <3>1. 1 * (s \div c.num) <= c.num * (s \div c.num)
        BY <2>1, ProductMonotonic, 1 <= c.num
      <3>. QED  BY <3>1, <2>1, SMT
    <2>. QED  BY <1>2, <2>1, <2>2, <2>3, SMT DEF PerSize
  <1>3. CASE s > Threshold(c) /\ s % c.num # 0
    <2>. DEFINE m == c.num - 1
                q == s \div m
    <2>1. c.num # 1
      BY <1>3, SMT
    <2>2. m \in Nat /\ m > 0 /\ m < s /\ s \in Nat
      BY <1>3, <2>1, SMT
    <2>3. q \in Nat /\ s % m \in 0..(m - 1) /\ s = q * m + (s % m)
      <3>. HIDE DEF m
      <3>. QED  BY <2>2, Division
    <2>. HIDE DEF m, q
    <2>4. q # 0
      BY <2>2, <2>3, SMT
    <2>5. q <= q * m
      <3>1. 1 * q <= m * q
        BY <2>2, <2>3, ProductMonotonic, 1 <= m
      <3>. QED  BY <3>1, <2>2, <2>3, SMT
    <2>6. q * m <= s
      <3>1. q * m \in Nat
        BY <2>2, <2>3, SMT
      <3>. QED  BY <3>1, <2>2, <2>3, SMT
    <2>7. q \in 1..(Word - 1)
      <3>1. q * m \in Nat
        BY <2>2, <2>3, SMT
      <3>. QED  BY <3>1, <2>2, <2>3, <2>4, <2>5, <2>6, SMT
    <2>8. PerSize(c, s) = q
      BY <1>3 DEF PerSize, q, m
    <2>. QED  BY <2>7, <2>8
  <1>. QED  BY <1>1, <1>2, <1>3

(* What may be cut into segments fits c.num of them, provided that the *)
(* smallest segment is not tiny.                                           *)
LEMMA FileFits ==
    ASSUME NEW c \in Conf, NEW s \in 0..(Word - 1),
           c.min + 2 >= c.num
    PROVE  s <= c.num * PerSize(c, s)
  <1>. USE ThresholdIsProduct
  <1>1. CASE ~(s > Threshold(c))
    <2>1. PerSize(c, s) = c.min
      BY <1>1 DEF PerSize
    <2>2. c.num * c.min = c.min * c.num
      BY SMT
    <2>. QED  BY <1>1, <2>1, <2>2, SMT
  <1>2. CASE s > Threshold(c) /\ s % c.num = 0
    <2>1. s = (s \div c.num) * c.num /\ s \div c.num \in Nat
      BY <1>2, Division, SMT
    <2>2. PerSize(c, s) = s \div c.num
      BY <1>2 DEF PerSize
    <2>. QED  BY <2>1, <2>2, SMT
  <1>3. CASE s > Threshold(c) /\ s % c.num # 0
    <2>. DEFINE m == c.num - 1
                q == s \div m
    <2>1. c.num # 1
      BY <1>3, SMT
    <2>2. m \in Nat /\ m > 0 /\ s \in Nat /\ c.num = m + 1
      BY <1>3, <2>1, SMT
    <2>3. q \in Nat /\ s % m \in 0..(m - 1) /\ s = q * m + (s % m)
      <3>. HIDE DEF m
      <3>. QED  BY <2>2, Division
    <2>4. PerSize(c, s) = q
      BY <1>3 DEF PerSize
    <2>. HIDE DEF m, q
    <2>5. c.min * m <= c.min * c.num
      <3>1. m * c.min <= c.num * c.min
        <4>1. m <= c.num
          BY <2>2, SMT
        <4>. QED  BY <4>1, <2>2, ProductMonotonic
      <3>. QED  BY <3>1, <2>2, SMT
    <2>6. q >= c.min
      <3>1. CASE q < c.min
        <4>1. (q + 1) * m <= c.min * m
          BY <3>1, <2>2, <2>3, ProductMonotonic, q + 1 <= c.min
        <4>2. (q + 1) * m = q * m + m
          BY <2>2, <2>3, SMT
        <4>3. q * m \in Nat /\ c.min * m \in Nat
          BY <2>2, <2>3, SMT
        <4>4. s < (q + 1) * m
          BY <4>2, <4>3, <2>2, <2>3, SMT
        <4>. QED  BY <4>1, <4>2, <4>3, <4>4, <2>5, <2>2, <1>3, SMT
      <3>. QED  BY <3>1, <2>3, SMT
    <2>7. s % m <= q
      BY <2>2, <2>3, <2>6, SMT
    <2>8. c.num * q = q * m + q
      BY <2>2, <2>3, SMT
    <2>9. q * m \in Nat
      BY <2>2, <2>3, SMT
    <2>. QED  BY <2>2, <2>3, <2>4, <2>7, <2>8, <2>9, SMT
  <1>. QED  BY <1>1, <1>2, <1>3

-----------------------------------------------------------------------------
(* While something is left, all segments are full.                         *)
Full ==
    left > 0 => /\ \A i \in DOMAIN segs : segs[i] = per
                /\ Len(segs) * per + left = size

SegInv ==
    /\ SegTypeOK
    /\ per \in 1..(Word - 1) /\ per = PerSize(by, size)
    /\ EveryByteOnce
    /\ Full

LEMMA SegInitInv == SegInit => SegInv
  <1>. SUFFICES ASSUME SegInit PROVE SegInv
    OBVIOUS
  <1>. USE DEF SegInit
  <1>0. by \in Conf /\ size = 0 /\ size \in 0..(Word - 1) /\ Word \in Nat
    BY ConfigAssumption, SMT
  <1>1. per \in 1..(Word - 1)
    BY <1>0, PerSizeInRange
  <1>2. SegTypeOK
    BY <1>0, <1>1, SMT DEF SegTypeOK
  <1>3. segs = <<>> /\ Len(segs) = 0 /\ DOMAIN segs = {}
    BY SMT
  <1>4. 0 * per = 0
    BY <1>0, <1>1, SMT
  <1>5. EveryByteOnce
    BY <1>3 DEF EveryByteOnce
  <1>6. Full
    BY <1>0, <1>3, <1>4, SMT DEF Full
  <1>. QED  BY <1>1, <1>2, <1>5, <1>6 DEF SegInv

LEMMA StartInv ==
    ASSUME NEW c \in Conf, NEW s \in 0..(Word - 1), StartFile(c, s)
    PROVE  SegInv'
  <1>. USE DEF StartFile
  <1>0. Word \in Nat /\ s \in Nat /\ by' = c /\ size' = s /\ left' = s
    BY ConfigAssumption, SMT
  <1>1. per' \in 1..(Word - 1) /\ per' = PerSize(c, s)
    BY PerSizeInRange
  <1>2. segs' = <<>> /\ Len(segs') = 0 /\ DOMAIN segs' = {}
    BY SMT
  <1>3. SegTypeOK'
    BY <1>0, <1>1, <1>2, SMT DEF SegTypeOK
  <1>4. 0 * per' = 0
    BY <1>0, <1>1, SMT
  <1>5. EveryByteOnce'
    BY <1>0, <1>2 DEF EveryByteOnce
  <1>6. Full'
    BY <1>0, <1>2, <1>4, SMT DEF Full
  <1>. QED  BY <1>0, <1>1, <1>3, <1>5, <1>6 DEF SegInv

LEMMA SegNextInv == SegInv /\ [SegNext]_segVars => SegInv'
  <1>. SUFFICES ASSUME SegInv, [SegNext]_segVars PROVE SegInv'
    OBVIOUS
  <1>1. CASE UNCHANGED segVars
    BY <1>1, Zenon DEF SegInv, SegTypeOK, EveryByteOnce, Full, segVars
  <1>2. CASE Cut
    <2>. DEFINE seg == IF left < per THEN left ELSE per
                n == Len(segs)
    <2>0. /\ left \in Nat /\ left > 0 /\ size \in 0..(Word - 1) /\ left <= size
          /\ segs \in Seq(1..(Word - 1)) /\ n \in Nat /\ DOMAIN segs = 1..n
          /\ per \in 1..(Word - 1) /\ per = PerSize(by, size)
          /\ Word \in Nat
      BY <1>2, ConfigAssumption, SMT DEF SegInv, SegTypeOK, Cut
    <2>1. /\ segs' = Append(segs, seg) /\ left' = left - seg
          /\ by' = by /\ size' = size /\ per' = per /\ by \in Conf
      BY <1>2 DEF Cut, SegInv, SegTypeOK
    <2>2. seg \in 1..(Word - 1) /\ seg <= left /\ seg <= per
          /\ (left' > 0 => seg = per)
      BY <2>0, <2>1, SMT
    <2>3. /\ \A i \in 1..n : segs[i] = per
          /\ n * per + left = size
      BY <2>0 DEF SegInv, Full
    <2>. HIDE DEF seg
    <2>4. /\ Len(segs') = n + 1 /\ DOMAIN segs' = 1..(n + 1)
          /\ segs'[n + 1] = seg
          /\ \A i \in 1..n : segs'[i] = segs[i]
          /\ segs' \in Seq(1..(Word - 1))
      BY <2>0, <2>1, <2>2, SMT
    <2>. HIDE DEF n
    <2>5. SegTypeOK'
      BY <2>0, <2>1, <2>2, <2>4, SMT DEF SegTypeOK
    <2>6. n * per \in Nat /\ (n + 1) * per = n * per + per
      BY <2>0, SMT
    <2>7. EveryByteOnce'
      <3>1. \A i \in DOMAIN segs' : i < Len(segs') => segs'[i] = per'
        BY <2>0, <2>1, <2>3, <2>4, SMT
      <3>2. (Len(segs') - 1) * per' + segs'[Len(segs')] + left' = size'
        <4>1. Len(segs') - 1 = n
          BY <2>0, <2>4, SMT
        <4>2. n * per + seg + (left - seg) = size
          BY <2>0, <2>2, <2>3, <2>6, SMT
        <4>. QED  BY <4>1, <4>2, <2>1, <2>4
      <3>3. Len(segs') # 0
        BY <2>0, <2>4, SMT
      <3>. QED  BY <3>1, <3>2, <3>3 DEF EveryByteOnce
    <2>8. Full'
      <3>. SUFFICES ASSUME left' > 0
                    PROVE  /\ \A i \in DOMAIN segs' : segs'[i] = per'
                           /\ Len(segs') * per' + left' = size'
        BY DEF Full
      <3>1. seg = per
        BY <2>2
      <3>2. \A i \in DOMAIN segs' : segs'[i] = per'
        <4>1. SUFFICES ASSUME NEW i \in 1..(n + 1) PROVE segs'[i] = per
          BY <2>1, <2>4
        <4>2. CASE i = n + 1
          BY <4>2, <3>1, <2>4
        <4>3. CASE i # n + 1
          <5>1. i \in 1..n
            BY <4>3, <2>0, SMT
          <5>. QED  BY <5>1, <2>3, <2>4
        <4>. QED  BY <4>2, <4>3
      <3>3. (n + 1) * per + (left - per) = size
        BY <2>0, <2>3, <2>6, SMT
      <3>. QED  BY <3>1, <3>2, <3>3, <2>1, <2>4
    <2>9. per' \in 1..(Word - 1) /\ per' = PerSize(by', size')
      BY <2>0, <2>1
    <2>. QED  BY <2>5, <2>7, <2>8, <2>9 DEF SegInv
  <1>3. ASSUME NEW c \in Conf, NEW s \in 0..(Word - 1), StartFile(c, s)
        PROVE  SegInv'
    BY <1>3, StartInv
  <1>. QED  BY <1>1, <1>2, <1>3 DEF SegNext

LEMMA SegInvariance == SegSpec => []SegInv
  BY SegInitInv, SegNextInv, PTL DEF SegSpec

(* A loop variable never leaves its word, and no segment is empty.         *)
THEOREM SegTypeCorrect == SegSpec => []SegTypeOK
  <1>1. SegInv => SegTypeOK
    BY DEF SegInv
  <1>. QED  BY <1>1, SegInvariance, PTL

(* Every byte of a file is in one segment, whatever its size and whatever  *)
(* the unpacker is configured with.                                        *)
THEOREM BytesAreCutOnce == SegSpec => []EveryByteOnce
  <1>1. SegInv => EveryByteOnce
    BY DEF SegInv
  <1>. QED  BY <1>1, SegInvariance, PTL

(* There are at most max_seg_num segments if min_seg_size is at least      *)
(* max_seg_num - 2, which segs_small.cfg does without.                     *)
LargeSegments == \A c \in Conf : c.min + 2 >= c.num

LEMMA CutIsBounded ==
    ASSUME LargeSegments, SegInv, Cut
    PROVE  AtMostMaxSegNum'
  <1>. DEFINE n == Len(segs)
  <1>1. /\ by \in Conf /\ by' = by
        /\ left \in Nat /\ left > 0 /\ size \in 0..(Word - 1)
        /\ n \in Nat /\ per \in Nat /\ per = PerSize(by, size)
        /\ n * per + left = size
        /\ Word \in Nat
    BY ConfigAssumption, SMT DEF SegInv, SegTypeOK, Cut, Full
  <1>2. Len(segs') = n + 1
    BY SMT DEF Cut, SegInv, SegTypeOK
  <1>. HIDE DEF n
  <1>3. by.num \in Nat /\ by.min + 2 >= by.num
    BY <1>1, ThresholdIsProduct DEF LargeSegments
  <1>4. size <= by.num * per
    BY <1>1, <1>3, FileFits
  <1>5. n * per \in Nat /\ by.num * per \in Nat
    BY <1>1, <1>3, SMT
  <1>6. n * per < by.num * per
    BY <1>1, <1>4, <1>5, SMT
  <1>7. n < by.num
    BY <1>1, <1>3, <1>6, ProductCancels
  <1>. QED  BY <1>1, <1>2, <1>3, <1>7, SMT DEF AtMostMaxSegNum

LEMMA NoSegments ==
    ASSUME NEW c \in Conf, NEW s \in 0..(Word - 1), StartFile(c, s)
    PROVE  AtMostMaxSegNum'
  <1>1. c.num \in Nat /\ by' = c
    BY ThresholdIsProduct DEF StartFile
  <1>2. Len(segs') = 0
    BY SMT DEF StartFile
  <1>. QED  BY <1>1, <1>2, SMT DEF AtMostMaxSegNum

THEOREM SegsAreBounded ==
    ASSUME LargeSegments
    PROVE  SegSpec => []AtMostMaxSegNum
  <1>1. SegInit => AtMostMaxSegNum
    BY ThresholdIsProduct, SMT DEF SegInit, AtMostMaxSegNum
  <1>2. SegInv /\ AtMostMaxSegNum /\ [SegNext]_segVars => AtMostMaxSegNum'
    <2>. SUFFICES ASSUME SegInv, AtMostMaxSegNum, [SegNext]_segVars
                  PROVE  AtMostMaxSegNum'
      OBVIOUS
    <2>1. CASE UNCHANGED segVars
      BY <2>1 DEF segVars, AtMostMaxSegNum
    <2>2. CASE Cut
      BY <2>2, CutIsBounded
    <2>3. ASSUME NEW c \in Conf, NEW s \in 0..(Word - 1), StartFile(c, s)
          PROVE  AtMostMaxSegNum'
      BY <2>3, NoSegments
    <2>. QED  BY <2>1, <2>2, <2>3 DEF SegNext
  <1>. QED  BY <1>1, <1>2, SegInvariance, PTL DEF SegSpec

-----------------------------------------------------------------------------
(* PackageCreation                                                         *)

(* What the handler at each place of createPkg has done so far.            *)
Same(s) == \A i, j \in DOMAIN s : s[i] = s[j]
Sender(p, u) == [pid |-> p, uid |-> u, type |-> "upload"]

Stage(h) ==
    /\ handler[h].pc \in {"enter", "name"} => handler[h].cuts = <<>>
    /\ handler[h].pc = "files" =>
         \A i \in DOMAIN handler[h].cuts : handler[h].cuts[i] = conf
    /\ handler[h].pc = "commit" => Same(handler[h].cuts)
    /\ handler[h].pc \in {"files", "commit"} => handler[h].pid \notin DOMAIN pkgs
    /\ handler[h].pc \in {"files", "commit", "upload", "download"} =>
         handler[h].pid \in Pid /\ handler[h].pid[1] = handler[h].uid
    /\ handler[h].pc = "download" /\ handler[h].pid \in DOMAIN pkgs =>
         \/ Sender(handler[h].pid, handler[h].uid) \in jobs
         \/ handler[h].pid \in senderless

IInv ==
    /\ TypeOK
    /\ \A h \in Handler : Stage(h)
    /\ OneConfiguration
    /\ ReceiversHaveSender

LEMMA InitInv == Init => IInv
  <1>. SUFFICES ASSUME Init PROVE IInv
    OBVIOUS
  <1>. USE CreationAssumption DEF Init
  <1>1. TypeOK
    BY SMT DEF TypeOK, Busy, Idle
  <1>2. \A h \in Handler : Stage(h)
    BY DEF Stage, Idle
  <1>3. OneConfiguration /\ ReceiversHaveSender
    BY DEF OneConfiguration, ReceiversHaveSender
  <1>. QED  BY <1>1, <1>2, <1>3 DEF IInv

-----------------------------------------------------------------------------
(* What a handler remembers stays of its type, one field at a time.        *)
Pc == {"enter", "name", "files", "commit", "upload", "download", "leave"}

LEMMA PcChanges ==
    ASSUME NEW x \in Busy, NEW pc \in Pc
    PROVE  LET m == [x EXCEPT !.pc = pc] IN
           /\ m \in Busy /\ m.pc = pc /\ m.pid = x.pid
           /\ m.uid = x.uid /\ m.cuts = x.cuts
  BY SMT DEF Busy, Pc

LEMMA PidChanges ==
    ASSUME NEW x \in Busy, NEW p \in Pid
    PROVE  LET m == [x EXCEPT !.pid = p] IN
           /\ m \in Busy /\ m.pc = x.pc /\ m.pid = p
           /\ m.uid = x.uid /\ m.cuts = x.cuts
  BY SMT DEF Busy

LEMMA CutsChange ==
    ASSUME NEW x \in Busy, NEW c \in Seq(Conf)
    PROVE  LET m == [x EXCEPT !.cuts = c] IN
           /\ m \in Busy /\ m.pc = x.pc /\ m.pid = x.pid
           /\ m.uid = x.uid /\ m.cuts = c
  BY SMT DEF Busy

LEMMA ToChanges ==
    ASSUME NEW x \in Busy, NEW to \in SUBSET Uid
    PROVE  LET m == [x EXCEPT !.to = to] IN
           /\ m \in Busy /\ m.pc = x.pc /\ m.pid = x.pid
           /\ m.uid = x.uid /\ m.cuts = x.cuts
  BY SMT DEF Busy

(* A handler that moves on keeps what it has.                              *)
Moved(h, pc) ==
    /\ handler' \in [Handler -> Busy \cup {Idle}]
    /\ handler'[h].pc = pc
    /\ handler'[h].uid = handler[h].uid /\ handler'[h].pid = handler[h].pid
    /\ handler'[h].cuts = handler[h].cuts
    /\ \A k \in Handler \ {h} : handler'[k] = handler[k]

LEMMA GotoMoves ==
    ASSUME TypeOK, NEW h \in Handler, handler[h].pc # "idle",
           NEW pc \in {"enter", "name", "files", "commit", "upload", "download",
                       "leave"},
           Goto(h, pc)
    PROVE  Moved(h, pc)
  <1>1. handler[h] \in Busy
    BY DEF TypeOK, Idle
  <1>. QED  BY <1>1, SMT DEF Goto, Moved, TypeOK, Busy

(* The lock has one holder, the others have not begun.                     *)
LEMMA OthersWait ==
    ASSUME TypeOK, NEW h \in Handler, handler[h].pc \notin {"idle", "enter"},
           NEW k \in Handler \ {h}
    PROVE  handler[k].pc \in {"idle", "enter"}
  BY DEF TypeOK

(* A step of handler h that leaves it in the state m.                      *)
Becomes(h, m) == handler' = [handler EXCEPT ![h] = m]

LEMMA BecomesMoves ==
    ASSUME TypeOK, NEW h \in Handler, NEW m \in Busy, Becomes(h, m)
    PROVE  /\ handler' \in [Handler -> Busy \cup {Idle}]
           /\ handler'[h] = m
           /\ \A k \in Handler \ {h} : handler'[k] = handler[k]
  BY DEF TypeOK, Becomes

LEMMA RequestInv ==
    ASSUME IInv, NEW h \in Handler, Request(h)
    PROVE  IInv'
  <1>. USE DEF IInv, At, My
  <1>1. PICK m \in Busy : Becomes(h, m) /\ m.pc = "enter" /\ m.cuts = <<>>
    <2>1. PICK u \in Uid, n \in NumFiles : \E to \in SUBSET (Uid \ {u}) :
             handler' = [handler EXCEPT ![h] =
               [pc |-> "enter", uid |-> u, to |-> to, num |-> n,
                pid |-> None, cuts |-> <<>>]]
      BY DEF Request
    <2>2. PICK to \in SUBSET (Uid \ {u}) :
             handler' = [handler EXCEPT ![h] =
               [pc |-> "enter", uid |-> u, to |-> to, num |-> n,
                pid |-> None, cuts |-> <<>>]]
      BY <2>1
    <2>. DEFINE m == [pc |-> "enter", uid |-> u, to |-> to, num |-> n,
                      pid |-> None, cuts |-> <<>>]
    <2>3. m \in Busy /\ m.pc = "enter" /\ m.cuts = <<>>
      BY SMT DEF Busy
    <2>. QED  BY <2>2, <2>3 DEF Becomes
  <1>2. /\ creations' = creations + 1 /\ creations < MaxCreations
        /\ UNCHANGED <<now, conf, lock, pkgs, jobs, senderless, restarts>>
    BY DEF Request, rows
  <1>3. \A k \in Handler : handler'[k] = IF k = h THEN m ELSE handler[k]
    BY <1>1 DEF Becomes, TypeOK
  <1>4. TypeOK'
    BY <1>1, <1>2, <1>3, CreationAssumption, SMT DEF TypeOK, Becomes
  <1>5. \A k \in Handler : Stage(k)'
    BY <1>1, <1>2, <1>3 DEF Stage
  <1>6. OneConfiguration' /\ ReceiversHaveSender'
    BY <1>2 DEF OneConfiguration, ReceiversHaveSender
  <1>. QED  BY <1>4, <1>5, <1>6

LEMMA EnterInv ==
    ASSUME IInv, NEW h \in Handler, Enter(h)
    PROVE  IInv'
  <1>. USE DEF IInv
  <1>1. /\ handler[h].pc = "enter" /\ lock = None /\ lock' = h /\ Moved(h, "name")
        /\ UNCHANGED <<now, conf, pkgs, jobs, senderless, creations, restarts>>
    BY GotoMoves DEF Enter, At, rows, bounds
  <1>2. TypeOK'
    BY <1>1, CreationAssumption DEF TypeOK, Moved
  <1>3. \A k \in Handler : Stage(k)'
    BY <1>1 DEF Stage, Moved
  <1>4. OneConfiguration' /\ ReceiversHaveSender'
    BY <1>1 DEF OneConfiguration, ReceiversHaveSender
  <1>. QED  BY <1>2, <1>3, <1>4

LEMMA NameInv ==
    ASSUME IInv, NEW h \in Handler, Name(h)
    PROVE  IInv'
  <1>. USE DEF IInv
  <1>. DEFINE p == <<handler[h].uid, now>>
              pc == IF p \in DOMAIN pkgs THEN "leave" ELSE "files"
  <1>1. /\ handler[h].pc = "name"
        /\ handler' = [handler EXCEPT ![h].pc = pc, ![h].pid = p]
        /\ UNCHANGED <<now, conf, lock, pkgs, jobs, senderless, creations, restarts>>
    BY DEF Name, At, My, rows, bounds
  <1>2. handler[h] \in Busy
    BY <1>1 DEF TypeOK, Idle
  <1>3. p \in Pid /\ p[1] = handler[h].uid
    BY <1>2, SMT DEF TypeOK, Busy, Pid
  <1>4. pc \in {"leave", "files"} /\ (pc = "files" => p \notin DOMAIN pkgs)
    OBVIOUS
  <1>. HIDE DEF p, pc
  <1>5. /\ handler' \in [Handler -> Busy \cup {Idle}]
        /\ handler'[h].pc = pc /\ handler'[h].pid = p
        /\ handler'[h].uid = handler[h].uid /\ handler'[h].cuts = handler[h].cuts
        /\ \A k \in Handler \ {h} : handler'[k] = handler[k]
    <2>. DEFINE at == [handler[h] EXCEPT !.pc = pc]
                m == [at EXCEPT !.pid = p]
    <2>0. pc \in Pc
      BY <1>4 DEF Pc
    <2>1. at \in Busy /\ at.pc = pc /\ at.uid = handler[h].uid
          /\ at.cuts = handler[h].cuts
      BY <1>2, <2>0, PcChanges, Zenon
    <2>2. m = [handler[h] EXCEPT !.pc = pc, !.pid = p]
      BY <1>2, Zenon DEF Busy
    <2>3. Becomes(h, m)
      BY <1>1, <2>2, Zenon DEF Becomes, TypeOK
    <2>. HIDE DEF at
    <2>4. /\ m \in Busy /\ m.pc = at.pc /\ m.pid = p
          /\ m.uid = at.uid /\ m.cuts = at.cuts
      BY <1>3, <2>1, PidChanges
    <2>. HIDE DEF m
    <2>. QED  BY <2>1, <2>3, <2>4, BecomesMoves
  <1>6. TypeOK'
    BY <1>1, <1>5 DEF TypeOK
  <1>7. \A k \in Handler : Stage(k)'
    <2>1. handler[h].cuts = <<>>
      BY <1>1 DEF Stage
    <2>2. DOMAIN handler[h].cuts = {}
      BY <2>1
    <2>. QED  BY <1>1, <1>3, <1>4, <1>5, <2>1, <2>2 DEF Stage
  <1>8. OneConfiguration' /\ ReceiversHaveSender'
    BY <1>1 DEF OneConfiguration, ReceiversHaveSender
  <1>. QED  BY <1>6, <1>7, <1>8

LEMMA AddFileInv ==
    ASSUME IInv, NEW h \in Handler, AddFile(h)
    PROVE  IInv'
  <1>. USE DEF IInv
  <1>1. /\ handler[h].pc = "files"
        /\ UNCHANGED <<now, conf, lock, pkgs, jobs, senderless, creations, restarts>>
    BY DEF AddFile, At, rows, bounds
  <1>2. OneConfiguration' /\ ReceiversHaveSender'
    BY <1>1 DEF OneConfiguration, ReceiversHaveSender
  <1>3. CASE Goto(h, "leave")
    <2>1. Moved(h, "leave")
      BY <1>1, <1>3, GotoMoves
    <2>2. TypeOK'
      BY <1>1, <2>1 DEF TypeOK, Moved
    <2>3. \A k \in Handler : Stage(k)'
      BY <1>1, <2>1 DEF Stage, Moved
    <2>. QED  BY <1>2, <2>2, <2>3
  <1>4. CASE handler' = [handler EXCEPT ![h].cuts = Append(@, conf)]
    <2>1. handler[h] \in Busy /\ conf \in Conf
      BY <1>1 DEF TypeOK, Idle
    <2>2. /\ handler[h].cuts \in Seq(Conf)
          /\ Append(handler[h].cuts, conf) \in Seq(Conf)
      BY <2>1 DEF Busy
    <2>3. /\ handler' \in [Handler -> Busy \cup {Idle}]
          /\ handler'[h].pc = "files" /\ handler'[h].pid = handler[h].pid
          /\ handler'[h].uid = handler[h].uid
          /\ handler'[h].cuts = Append(handler[h].cuts, conf)
          /\ \A k \in Handler \ {h} : handler'[k] = handler[k]
      <3>. DEFINE c == Append(handler[h].cuts, conf)
                  m == [handler[h] EXCEPT !.cuts = c]
      <3>1. /\ m \in Busy /\ m.pc = handler[h].pc /\ m.pid = handler[h].pid
            /\ m.uid = handler[h].uid /\ m.cuts = c
        BY <2>1, <2>2, CutsChange
      <3>2. Becomes(h, m)
        BY <1>4, <2>1, SMT DEF Becomes, TypeOK, Busy
      <3>. HIDE DEF m
      <3>. QED  BY <1>1, <3>1, <3>2, BecomesMoves
    <2>4. TypeOK'
      BY <1>1, <2>3 DEF TypeOK
    <2>5. \A i \in DOMAIN handler'[h].cuts : handler'[h].cuts[i] = conf
      <3>1. \A i \in DOMAIN handler[h].cuts : handler[h].cuts[i] = conf
        BY <1>1 DEF Stage
      <3>. QED  BY <2>2, <2>3, <3>1, SMT
    <2>6. \A k \in Handler : Stage(k)'
      BY <1>1, <2>3, <2>5, SMTT(30) DEF Stage
    <2>. QED  BY <1>2, <2>4, <2>6
  <1>. QED  BY <1>3, <1>4 DEF AddFile

LEMMA AllFilesInv ==
    ASSUME IInv, NEW h \in Handler, AllFiles(h)
    PROVE  IInv'
  <1>. USE DEF IInv
  <1>1. /\ handler[h].pc = "files" /\ Moved(h, "commit")
        /\ UNCHANGED <<now, conf, lock, pkgs, jobs, senderless, creations, restarts>>
    BY GotoMoves DEF AllFiles, At, rows, bounds
  <1>2. TypeOK'
    BY <1>1 DEF TypeOK, Moved
  <1>3. \A k \in Handler : Stage(k)'
    BY <1>1 DEF Stage, Moved, Same
  <1>4. OneConfiguration' /\ ReceiversHaveSender'
    BY <1>1 DEF OneConfiguration, ReceiversHaveSender
  <1>. QED  BY <1>2, <1>3, <1>4

LEMMA CommitInv ==
    ASSUME IInv, NEW h \in Handler, Commit(h)
    PROVE  IInv'
  <1>. USE DEF IInv
  <1>. DEFINE p == handler[h].pid
              more == [q \in DOMAIN pkgs \cup {p} |->
                         IF q = p THEN handler[h].cuts ELSE pkgs[q]]
  <1>1. /\ handler[h].pc = "commit" /\ Moved(h, "upload")
        /\ pkgs' = more \/ pkgs' = pkgs
        /\ UNCHANGED <<now, conf, lock, jobs, senderless, creations, restarts>>
    BY GotoMoves DEF Commit, At, My, bounds
  <1>2. /\ handler[h] \in Busy /\ Same(handler[h].cuts)
        /\ p \in Pid /\ p \notin DOMAIN pkgs /\ handler[h].cuts \in Seq(Conf)
    BY <1>1 DEF TypeOK, Idle, Stage, Busy
  <1>3. /\ DOMAIN pkgs \subseteq DOMAIN pkgs'
        /\ \A q \in DOMAIN pkgs' :
              \/ q \in DOMAIN pkgs /\ pkgs'[q] = pkgs[q]
              \/ q = p /\ pkgs'[q] = handler[h].cuts
    BY <1>1, Zenon
  <1>. HIDE DEF p, more
  <1>4. TypeOK'
    BY <1>1, <1>2, <1>3 DEF TypeOK, Moved
  <1>5. \A k \in Handler : Stage(k)'
    <2>1. ASSUME NEW k \in Handler \ {h} PROVE Stage(k)'
      BY <1>1, <2>1, OthersWait DEF Stage, Moved
    <2>2. Stage(h)'
      BY <1>1 DEF Stage, Moved
    <2>. QED  BY <2>1, <2>2
  <1>6. OneConfiguration'
    BY <1>2, <1>3 DEF OneConfiguration, Same
  <1>7. ReceiversHaveSender'
    BY <1>1, <1>3 DEF ReceiversHaveSender
  <1>. QED  BY <1>4, <1>5, <1>6, <1>7

LEMMA CutFileInv ==
    ASSUME IInv, NEW h \in Handler, CutFile(h)
    PROVE  IInv'
  <1>. USE DEF IInv
  <1>1. UNCHANGED <<now, conf, lock, handler, pkgs, jobs, senderless, creations, restarts>>
    BY DEF CutFile, rows, bounds
  <1>2. TypeOK'
    BY <1>1 DEF TypeOK
  <1>3. \A k \in Handler : Stage(k)'
    BY <1>1 DEF Stage, Same
  <1>4. OneConfiguration' /\ ReceiversHaveSender'
    BY <1>1 DEF OneConfiguration, ReceiversHaveSender
  <1>. QED  BY <1>2, <1>3, <1>4

(* A job that is made has the fields it is made with.                      *)
LEMMA JobFields ==
    ASSUME NEW p \in Pid, NEW u \in Uid, NEW t \in {"upload", "download"}
    PROVE  LET j == [pid |-> p, uid |-> u, type |-> t] IN
           j \in Job /\ j.pid = p /\ j.uid = u /\ j.type = t
  BY SMT DEF Job

(* The job of the sender is made or not ...                                *)
LEMMA UploadInv ==
    ASSUME IInv, NEW h \in Handler, handler[h].pc = "upload",
           NEW pc \in {"leave", "download"}, Moved(h, pc),
           jobs' = NewJobs(h, handler[h].uid, "upload"),
           UNCHANGED <<now, conf, lock, pkgs, senderless, creations, restarts>>
    PROVE  IInv'
  <1>. USE DEF IInv
  <1>. DEFINE p == handler[h].pid
              j == Sender(p, handler[h].uid)
  <1>1. p \in Pid /\ p[1] = handler[h].uid /\ handler[h].uid \in Uid
    BY DEF Stage, TypeOK, Busy, Idle
  <1>2. j \in Job /\ j.type = "upload"
    BY <1>1, JobFields, Zenon DEF Sender
  <1>3. jobs' = IF p \in DOMAIN pkgs THEN jobs \cup {j} ELSE jobs
    BY DEF NewJobs, My, Sender
  <1>. HIDE DEF p, j
  <1>4. TypeOK'
    BY <1>2, <1>3 DEF TypeOK, Moved
  <1>5. \A k \in Handler : Stage(k)'
    <2>1. ASSUME NEW k \in Handler \ {h} PROVE Stage(k)'
      BY <2>1, OthersWait DEF Stage, Moved
    <2>2. Stage(h)'
      BY <1>1, <1>3 DEF Stage, Moved, p, j
    <2>. QED  BY <2>1, <2>2
  <1>6. OneConfiguration'
    BY DEF OneConfiguration
  <1>7. ReceiversHaveSender'
    BY <1>2, <1>3 DEF ReceiversHaveSender
  <1>. QED  BY <1>4, <1>5, <1>6, <1>7

LEMMA NoUploadInv ==
    ASSUME IInv, NEW h \in Handler, handler[h].pc = "upload",
           NEW pc \in {"leave", "download"}, Moved(h, pc),
           senderless' = senderless \cup ({handler[h].pid} \cap DOMAIN pkgs),
           UNCHANGED <<now, conf, lock, pkgs, jobs, creations, restarts>>
    PROVE  IInv'
  <1>. USE DEF IInv
  <1>1. handler[h].pid \in Pid /\ handler[h].pid[1] = handler[h].uid
    BY DEF Stage
  <1>2. TypeOK'
    BY <1>1 DEF TypeOK, Moved
  <1>3. \A k \in Handler : Stage(k)'
    <2>1. ASSUME NEW k \in Handler \ {h} PROVE Stage(k)'
      BY <2>1, OthersWait DEF Stage, Moved
    <2>2. Stage(h)'
      BY <1>1 DEF Stage, Moved
    <2>. QED  BY <2>1, <2>2
  <1>4. OneConfiguration' /\ ReceiversHaveSender'
    BY DEF OneConfiguration, ReceiversHaveSender
  <1>. QED  BY <1>2, <1>3, <1>4

(* ... and then those of the receivers.                                    *)
LEMMA DownloadInv ==
    ASSUME IInv, NEW h \in Handler, handler[h].pc = "download",
           NEW u \in Uid, NEW pc \in {"leave", "download"}, Moved(h, pc),
           jobs' \in {NewJobs(h, u, "download"), jobs},
           UNCHANGED <<now, conf, lock, pkgs, senderless, creations, restarts>>
    PROVE  IInv'
  <1>. USE DEF IInv
  <1>. DEFINE p == handler[h].pid
              j == [pid |-> p, uid |-> u, type |-> "download"]
  <1>1. /\ p \in Pid /\ p[1] = handler[h].uid
        /\ p \in DOMAIN pkgs => \/ Sender(p, handler[h].uid) \in jobs
                               \/ p \in senderless
    BY DEF Stage
  <1>2. j \in Job /\ j.pid = p
    BY <1>1, JobFields, Zenon
  <1>3. \/ p \in DOMAIN pkgs /\ jobs' = jobs \cup {j}
        \/ jobs' = jobs
    BY DEF NewJobs, My
  <1>. HIDE DEF p, j
  <1>4. TypeOK'
    BY <1>2, <1>3 DEF TypeOK, Moved
  <1>5. \A k \in Handler : Stage(k)'
    <2>1. ASSUME NEW k \in Handler \ {h} PROVE Stage(k)'
      BY <2>1, OthersWait DEF Stage, Moved
    <2>2. Stage(h)'
      BY <1>1, <1>3 DEF Stage, Moved, p
    <2>. QED  BY <2>1, <2>2
  <1>6. OneConfiguration'
    BY DEF OneConfiguration
  <1>7. ReceiversHaveSender'
    <2>. SUFFICES ASSUME NEW d \in jobs', d.type = "download"
                  PROVE  /\ d.pid \in DOMAIN pkgs
                         /\ \/ Sender(d.pid, d.pid[1]) \in jobs'
                            \/ d.pid \in senderless
      BY DEF ReceiversHaveSender, Sender
    <2>1. CASE d \in jobs
      BY <2>1, <1>3 DEF ReceiversHaveSender, Sender
    <2>2. CASE d \notin jobs
      <3>1. d = j /\ p \in DOMAIN pkgs
        BY <2>2, <1>3
      <3>. QED  BY <3>1, <1>1, <1>2, <1>3
    <2>. QED  BY <2>1, <2>2
  <1>. QED  BY <1>4, <1>5, <1>6, <1>7

LEMMA CreateJobsInv ==
    ASSUME IInv, NEW h \in Handler, CreateJobs(h)
    PROVE  IInv'
  <1>. DEFINE Made   == /\ jobs' = NewJobs(h, handler[h].uid, "upload")
                        /\ UNCHANGED senderless
              Failed == /\ senderless' =
                             senderless \cup ({handler[h].pid} \cap DOMAIN pkgs)
                        /\ UNCHANGED jobs
  <1>1. CASE /\ handler[h].pc = "upload"
             /\ Made \/ Failed
             /\ Goto(h, IF handler[h].to = {} THEN "leave" ELSE "download")
             /\ UNCHANGED <<now, conf, lock, pkgs, bounds, segVars>>
    <2>. DEFINE pc == IF handler[h].to = {} THEN "leave" ELSE "download"
    <2>1. pc \in {"leave", "download"} /\ Goto(h, pc)
      BY <1>1
    <2>. HIDE DEF pc
    <2>2. Moved(h, pc)
      BY <1>1, <2>1, GotoMoves DEF IInv
    <2>3. UNCHANGED <<now, conf, lock, pkgs, creations, restarts>>
      BY <1>1 DEF bounds
    <2>4. Made => IInv'
      BY <1>1, <2>1, <2>2, <2>3, UploadInv
    <2>5. Failed => IInv'
      BY <1>1, <2>1, <2>2, <2>3, NoUploadInv
    <2>. QED  BY <1>1, <2>4, <2>5
  <1>2. CASE /\ handler[h].pc = "download"
             /\ \E u \in handler[h].to :
                   /\ jobs' \in {NewJobs(h, u, "download"), jobs}
                   /\ handler' = [handler EXCEPT
                        ![h].to = @ \ {u},
                        ![h].pc = IF handler[h].to = {u} THEN "leave" ELSE "download"]
             /\ UNCHANGED <<now, conf, lock, pkgs, senderless, bounds, segVars>>
    <2>1. handler[h] \in Busy
      BY <1>2 DEF IInv, TypeOK, Idle
    <2>2. PICK u \in handler[h].to :
             /\ jobs' \in {NewJobs(h, u, "download"), jobs}
             /\ handler' = [handler EXCEPT
                  ![h].to = @ \ {u},
                  ![h].pc = IF handler[h].to = {u} THEN "leave" ELSE "download"]
      BY <1>2
    <2>. DEFINE pc == IF handler[h].to = {u} THEN "leave" ELSE "download"
                to == handler[h].to \ {u}
                at == [handler[h] EXCEPT !.to = to]
                m == [at EXCEPT !.pc = pc]
    <2>3. pc \in {"leave", "download"} /\ pc \in Pc
      BY DEF Pc
    <2>4. u \in Uid /\ to \in SUBSET Uid
      BY <2>1, <2>2 DEF Busy
    <2>5. at \in Busy /\ at.pid = handler[h].pid
          /\ at.uid = handler[h].uid /\ at.cuts = handler[h].cuts
      BY <2>1, <2>4, ToChanges, Zenon
    <2>6. m = [handler[h] EXCEPT !.to = to, !.pc = pc]
      BY <2>1, Zenon DEF Busy
    <2>7. Becomes(h, m)
      BY <2>2, <2>6, Zenon DEF Becomes, IInv, TypeOK
    <2>. HIDE DEF at, pc
    <2>8. /\ m \in Busy /\ m.pc = pc /\ m.pid = at.pid
          /\ m.uid = at.uid /\ m.cuts = at.cuts
      BY <2>3, <2>5, PcChanges, Zenon
    <2>. HIDE DEF m
    <2>9. Moved(h, pc)
      BY <2>5, <2>7, <2>8, BecomesMoves DEF Moved, IInv
    <2>10. UNCHANGED <<now, conf, lock, pkgs, senderless, creations, restarts>>
      BY <1>2 DEF bounds
    <2>. QED  BY <1>2, <2>2, <2>3, <2>4, <2>9, <2>10, DownloadInv
  <1>. QED  BY <1>1, <1>2, Zenon DEF CreateJobs, At, My

LEMMA LeaveInv ==
    ASSUME IInv, NEW h \in Handler, Leave(h)
    PROVE  IInv'
  <1>. USE DEF IInv
  <1>1. /\ handler[h].pc = "leave" /\ lock' = None
        /\ UNCHANGED <<now, conf, pkgs, jobs, senderless, creations, restarts>>
    BY DEF Leave, At, rows, bounds
  <1>2. \A k \in Handler : handler'[k] = IF k = h THEN Idle ELSE handler[k]
    BY DEF Leave, TypeOK
  <1>3. handler' \in [Handler -> Busy \cup {Idle}]
    BY DEF Leave, TypeOK
  <1>4. Idle.pc = "idle"
    BY DEF Idle
  <1>5. TypeOK'
    BY <1>1, <1>2, <1>3, <1>4, OthersWait DEF TypeOK
  <1>6. \A k \in Handler : Stage(k)'
    BY <1>1, <1>2, <1>4 DEF Stage, Same
  <1>7. OneConfiguration' /\ ReceiversHaveSender'
    BY <1>1 DEF OneConfiguration, ReceiversHaveSender
  <1>. QED  BY <1>5, <1>6, <1>7

(* Nobody is at its files while the unpacker is configured.                *)
LEMMA ConfigInv ==
    ASSUME IInv, Config
    PROVE  IInv'
  <1>. USE DEF IInv
  <1>1. /\ lock = None /\ conf' \in Conf
        /\ UNCHANGED <<now, lock, handler, pkgs, jobs, senderless, creations, restarts>>
    BY DEF Config, rows, bounds
  <1>2. \A k \in Handler : handler[k].pc \in {"idle", "enter"}
    BY <1>1, CreationAssumption DEF TypeOK
  <1>3. TypeOK'
    BY <1>1 DEF TypeOK
  <1>4. \A k \in Handler : Stage(k)'
    BY <1>1, <1>2 DEF Stage
  <1>5. OneConfiguration' /\ ReceiversHaveSender'
    BY <1>1 DEF OneConfiguration, ReceiversHaveSender
  <1>. QED  BY <1>3, <1>4, <1>5

LEMMA TickInv ==
    ASSUME IInv, Tick
    PROVE  IInv'
  <1>. USE DEF IInv
  <1>1. /\ now' = now + 1 /\ now < MaxTime
        /\ UNCHANGED <<conf, lock, handler, pkgs, jobs, senderless, creations, restarts>>
    BY DEF Tick, rows, bounds
  <1>2. now' \in 0..MaxTime
    BY <1>1, CreationAssumption, SMT DEF TypeOK
  <1>3. TypeOK'
    BY <1>1, <1>2 DEF TypeOK
  <1>4. \A k \in Handler : Stage(k)'
    BY <1>1 DEF Stage, Same
  <1>5. OneConfiguration' /\ ReceiversHaveSender'
    BY <1>1 DEF OneConfiguration, ReceiversHaveSender
  <1>. QED  BY <1>3, <1>4, <1>5

LEMMA RestartInv ==
    ASSUME IInv, Restart
    PROVE  IInv'
  <1>. USE DEF IInv
  <1>1. /\ restarts' = restarts + 1 /\ restarts < MaxRestarts
        /\ lock' = None /\ handler' = [k \in Handler |-> Idle]
        /\ UNCHANGED <<now, conf, pkgs, jobs, senderless, creations>>
    BY DEF Restart, rows
  <1>2. restarts' \in 0..MaxRestarts
    BY <1>1, CreationAssumption, SMT DEF TypeOK
  <1>3. Idle.pc = "idle"
    BY DEF Idle
  <1>4. TypeOK'
    BY <1>1, <1>2, <1>3 DEF TypeOK
  <1>5. \A k \in Handler : Stage(k)'
    BY <1>1, <1>3 DEF Stage, Same
  <1>6. OneConfiguration' /\ ReceiversHaveSender'
    BY <1>1 DEF OneConfiguration, ReceiversHaveSender
  <1>. QED  BY <1>4, <1>5, <1>6

LEMMA NextInv == IInv /\ [Next]_vars => IInv'
  <1>. SUFFICES ASSUME IInv, [Next]_vars PROVE IInv'
    OBVIOUS
  <1>1. CASE UNCHANGED vars
    <2>1. UNCHANGED <<now, conf, lock, handler, pkgs, jobs, senderless, creations, restarts>>
      BY <1>1 DEF vars, rows, bounds
    <2>2. TypeOK'
      BY <2>1 DEF IInv, TypeOK
    <2>3. \A k \in Handler : Stage(k)'
      BY <2>1 DEF IInv, Stage, Same
    <2>4. OneConfiguration' /\ ReceiversHaveSender'
      BY <2>1 DEF IInv, OneConfiguration, ReceiversHaveSender
    <2>. QED  BY <2>2, <2>3, <2>4 DEF IInv
  <1>2. ASSUME NEW h \in Handler, Request(h) \/ Work(h)
        PROVE  IInv'
    BY <1>2, RequestInv, EnterInv, NameInv, AddFileInv, CutFileInv, AllFilesInv,
       CommitInv, CreateJobsInv, LeaveInv DEF Work
  <1>. QED  BY <1>1, <1>2, ConfigInv, TickInv, RestartInv DEF Next

LEMMA Invariance == Spec => []IInv
  BY InitInv, NextInv, PTL DEF Spec

-----------------------------------------------------------------------------
(* The lock of the unpacker has one holder, and only it makes a package.   *)
THEOREM CreationTypeCorrect == Spec => []TypeOK
  <1>1. IInv => TypeOK
    BY DEF IInv
  <1>. QED  BY <1>1, Invariance, PTL

(* However often the unpacker is configured while packages are made, the   *)
(* files of a package are cut alike.                                       *)
THEOREM FilesAreCutAlike == Spec => []OneConfiguration
  <1>1. IInv => OneConfiguration
    BY DEF IInv
  <1>. QED  BY <1>1, Invariance, PTL

(* Wherever the handler or the server stops, a receiver has a sender,      *)
(* unless the job of the sender is one that could not be made.             *)
THEOREM SendersAreMadeFirst == Spec => []ReceiversHaveSender
  <1>1. IInv => ReceiversHaveSender
    BY DEF IInv
  <1>. QED  BY <1>1, Invariance, PTL

(* Of two requests of a user in one second, one gets the row.              *)
THEOREM RowsStay == Spec => PkgsStay
  <1>1. IInv /\ [Next]_vars =>
          [\A p \in DOMAIN pkgs : p \in DOMAIN pkgs' /\ pkgs'[p] = pkgs[p]]_vars
    <2>. SUFFICES ASSUME IInv, Next, NEW p \in DOMAIN pkgs
                  PROVE  p \in DOMAIN pkgs' /\ pkgs'[p] = pkgs[p]
      BY Zenon
    <2>1. ASSUME NEW h \in Handler, Commit(h)
          PROVE  p \in DOMAIN pkgs' /\ pkgs'[p] = pkgs[p]
      <3>1. handler[h].pid # p
        BY <2>1 DEF IInv, Stage, Commit, At
      <3>. QED  BY <2>1, <3>1, Zenon DEF Commit, My
    <2>2. ASSUME NEW h \in Handler, Request(h) \/ (Work(h) /\ ~Commit(h))
          PROVE  UNCHANGED pkgs
      BY <2>2 DEF Request, Work, Enter, Name, AddFile, CutFile, AllFiles,
                  CreateJobs, Leave, rows
    <2>3. Config \/ Tick \/ Restart => UNCHANGED pkgs
      BY DEF Config, Tick, Restart, rows
    <2>. QED  BY <2>1, <2>2, <2>3 DEF Next, Work
  <1>. QED  BY <1>1, Invariance, PTL DEF Spec, PkgsStay

-----------------------------------------------------------------------------
(* The calls of GenerateSegs of all handlers are one call after the other. *)
LEMMA CallsInit == Init => SegInit
  BY DEF Init

LEMMA CallsStep == IInv /\ [Next]_vars => [SegNext]_segVars
  <1>. SUFFICES ASSUME IInv, [Next]_vars PROVE [SegNext]_segVars
    OBVIOUS
  <1>0. conf \in Conf
    BY DEF IInv, TypeOK
  <1>1. CASE UNCHANGED vars
    BY <1>1 DEF vars
  <1>2. ASSUME NEW h \in Handler, AddFile(h)
        PROVE  [SegNext]_segVars
    <2>1. CASE UNCHANGED segVars
      BY <2>1
    <2>2. ASSUME NEW s \in Sizes, StartFile(conf, s)
          PROVE  SegNext
      BY <1>0, <2>2, CreationAssumption DEF SegNext
    <2>. QED  BY <1>2, <2>1, <2>2 DEF AddFile
  <1>3. ASSUME NEW h \in Handler, CutFile(h)
        PROVE  SegNext
    BY <1>3 DEF CutFile, SegNext
  <1>4. CASE Restart
    <2>1. 0 \in 0..(Word - 1)
      BY ConfigAssumption, SMT
    <2>. QED  BY <1>0, <1>4, <2>1 DEF Restart, SegNext
  <1>5. ASSUME NEW h \in Handler,
               Request(h) \/ (Work(h) /\ ~AddFile(h) /\ ~CutFile(h))
        PROVE  UNCHANGED segVars
    BY <1>5 DEF Request, Work, Enter, Name, AllFiles, Commit, CreateJobs, Leave
  <1>6. Config \/ Tick => UNCHANGED segVars
    BY DEF Config, Tick
  <1>. QED  BY <1>1, <1>2, <1>3, <1>4, <1>5, <1>6 DEF Next, Work

THEOREM ImplementsSegmentation == Spec => SegSpec
  BY CallsInit, CallsStep, Invariance, PTL DEF Spec, SegSpec

(* ... so that every byte of every file of every package is in one         *)
(* segment, even if handlers and configurations interleave.                *)
THEOREM BytesOfPackages == Spec => []EveryByteOnce
  BY ImplementsSegmentation, BytesAreCutOnce, PTL

(* ... and no file has more segments than it is configured for.            *)
THEOREM SegsOfPackages ==
    ASSUME LargeSegments
    PROVE  Spec => []AtMostMaxSegNum
  BY ImplementsSegmentation, SegsAreBounded, PTL
=============================================================================

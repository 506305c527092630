---------------------------- MODULE WaitingProofs ----------------------------
(***************************************************************************)
(* Theorems about Waiting, for any connections and actors.  The locks have *)
(* ranks, and so has what a process asks for; who holds a lock asks, until *)
(* it lets it go, only for what has a higher rank.  So along a chain of    *)
(* processes that wait for each other the ranks grow, and it ends.         *)
(***************************************************************************)
EXTENDS Waiting, SequenceTheorems, TLAPS

-----------------------------------------------------------------------------
(* Ranks                                                                   *)

LockRank(l) ==
    IF l = "task" THEN 1 ELSE IF l \in {"res", "job"} THEN 2
    ELSE IF l = "mux" THEN 3 ELSE 4

(* StateChan comes before all locks; what asks for none comes last.        *)
AskRank(op) ==
    IF op.do \in {"take", "use"} THEN LockRank(op.lock)
    ELSE IF op.do \in {"find", "delete"} THEN 3
    ELSE IF op.do \in {"enter", "clear", "displace", "close"} THEN 4
    ELSE IF op.do = "notify" THEN 0 ELSE 5

Rank(p) == IF script[p] = << >> THEN 5 ELSE AskRank(Now(p))

-----------------------------------------------------------------------------
(* Scripts.  A lock that is held at place i of a script is let go at a     *)
(* place k, up to which only higher ranks are asked for, and before which  *)
(* the script cannot be left.                                              *)
Frees(op, l) ==
    \/ op.do \in {"use", "tell", "find"} /\ l \in op.free
    \/ op.do = "displace" /\ l = "mux"
Keeps(op) == op.do \in {"take", "use", "tell"}

Covered(s, i, l) ==
    \E k \in i..Len(s) :
        /\ Frees(s[k], l)
        /\ \A j \in i..k : AskRank(s[j]) > LockRank(l) /\ (j < k => Keeps(s[j]))

(* Without "push", which nobody comes to when no node answers twice.       *)
Ops == [do: {"take", "use", "find", "tell", "pick", "enter", "wait", "clear",
             "displace", "notify", "close", "delete"},
        lock: Manager \cup {"none"}, free: SUBSET Manager]

Good(s) ==
    /\ s \in Seq(Ops)
    /\ \A i \in 1..Len(s) :
         s[i].do = "take" => s[i].lock \in Manager /\ Covered(s, i + 1, s[i].lock)

OnlyLocks(s) == \A i \in 1..Len(s) : Keeps(s[i])
NoRequest(s) == \A i \in 1..Len(s) : s[i].do \notin {"enter", "clear"}

ScriptInv ==
    /\ \A p \in Process : Good(script[p])
    /\ OnlyLocks(script[Routine])
    /\ \A c \in Conn : NoRequest(script[c])
    /\ \A l \in Manager, p \in Process : holder[l] = p => Covered(script[p], 1, l)

WaitInv ==
    /\ ScriptInv
    /\ \A c \in Conn : holder[c] = Free
    /\ \A a \in Actor : entry[a] \in {"full", "full, closed"} => copies[a] > 0

Inv == ~Wedged => WaitInv

-----------------------------------------------------------------------------
(* What a step takes off a script, and scripts one after the other         *)

USE WaitingAssumption

LEMMA Joined ==
    ASSUME NEW s \in Seq(Ops), NEW t \in Seq(Ops)
    PROVE  /\ s \o t \in Seq(Ops) /\ Len(s \o t) = Len(s) + Len(t)
           /\ \A i \in 1..Len(s) : (s \o t)[i] = s[i]
           /\ \A i \in 1..Len(t) : (s \o t)[Len(s) + i] = t[i]
  <1>1. Len(s) \in Nat /\ Len(t) \in Nat
    OBVIOUS
  <1>2. \A i \in 1..Len(t) : Len(s) + i > Len(s) /\ (Len(s) + i) - Len(s) = i
                           /\ Len(s) + i \in 1..(Len(s) + Len(t))
    BY <1>1
  <1>3. \A i \in 1..Len(s) : i <= Len(s) /\ i \in 1..(Len(s) + Len(t))
    BY <1>1
  <1>. QED  BY <1>1, <1>2, <1>3, ConcatProperties

LEMMA CoveredTail ==
    ASSUME NEW s \in Seq(Ops), s # << >>, NEW i \in Nat \ {0}, NEW l,
           Covered(s, i + 1, l)
    PROVE  Covered(Tail(s), i, l)
  <1>. DEFINE t == Tail(s)
  <1>1. /\ Len(t) = Len(s) - 1 /\ Len(s) \in Nat
        /\ \A j \in 1..Len(t) : t[j] = s[j + 1]
    OBVIOUS
  <1>2. PICK k \in (i + 1)..Len(s) :
          /\ Frees(s[k], l)
          /\ \A j \in (i + 1)..k : AskRank(s[j]) > LockRank(l) /\ (j < k => Keeps(s[j]))
    BY DEF Covered
  <1>. HIDE DEF t
  <1>3. k - 1 \in i..Len(t) /\ t[k - 1] = s[k]
    BY <1>1
  <1>4. \A j \in i..(k - 1) : j + 1 \in (i + 1)..k /\ t[j] = s[j + 1]
    BY <1>1, <1>3
  <1>5. \A j \in i..(k - 1) :
          AskRank(t[j]) > LockRank(l) /\ (j < k - 1 => Keeps(t[j]))
    BY <1>2, <1>4
  <1>6. Covered(t, i, l)
    BY <1>2, <1>3, <1>5 DEF Covered
  <1>. QED  BY <1>6 DEF t

LEMMA GoodTail ==
    ASSUME NEW s, Good(s), s # << >>
    PROVE  /\ Good(Tail(s))
           /\ s[1].do = "take" => s[1].lock \in Manager /\ Covered(Tail(s), 1, s[1].lock)
           /\ \A l : Covered(s, 1, l) => Frees(s[1], l) \/ (Keeps(s[1]) /\ Covered(Tail(s), 1, l))
  <1>. DEFINE t == Tail(s)
  <1>1. /\ s \in Seq(Ops) /\ t \in Seq(Ops) /\ Len(s) \in Nat /\ Len(s) > 0
        /\ Len(t) = Len(s) - 1
        /\ \A j \in 1..Len(t) : t[j] = s[j + 1]
    BY DEF Good
  <1>2. \A i \in 1..Len(t) : i + 1 \in 1..Len(s) /\ i \in Nat \ {0}
    BY <1>1
  <1>3. Good(t)
    <2>2. ASSUME NEW i \in 1..Len(t), t[i].do = "take"
          PROVE  t[i].lock \in Manager /\ Covered(t, i + 1, t[i].lock)
      <3>1. s[i + 1].do = "take" /\ t[i] = s[i + 1] /\ i + 1 \in 1..Len(s)
        BY <1>1, <1>2, <2>2
      <3>2. s[i + 1].lock \in Manager /\ Covered(s, (i + 1) + 1, s[i + 1].lock)
        BY <3>1 DEF Good
      <3>. QED  BY <1>1, <1>2, <3>1, <3>2, CoveredTail
    <2>. QED  BY <1>1, <2>2 DEF Good
  <1>4. s[1].do = "take" => s[1].lock \in Manager /\ Covered(t, 1, s[1].lock)
    <2>1. s[1].do = "take" => s[1].lock \in Manager /\ Covered(s, 1 + 1, s[1].lock)
      BY <1>1 DEF Good
    <2>. QED  BY <1>1, <2>1, CoveredTail
  <1>5. ASSUME NEW l, Covered(s, 1, l)
        PROVE  Frees(s[1], l) \/ (Keeps(s[1]) /\ Covered(t, 1, l))
    <2>1. PICK k \in 1..Len(s) :
            /\ Frees(s[k], l)
            /\ \A j \in 1..k : AskRank(s[j]) > LockRank(l) /\ (j < k => Keeps(s[j]))
      BY <1>5 DEF Covered
    <2>2. CASE k = 1
      BY <2>1, <2>2
    <2>3. CASE k # 1
      <3>1. k \in (1 + 1)..Len(s) /\ 1 < k /\ \A j \in (1 + 1)..k : j \in 1..k
        BY <1>1, <2>3
      <3>2. Covered(s, 1 + 1, l)
        BY <2>1, <3>1 DEF Covered
      <3>3. Keeps(s[1])
        BY <1>1, <2>1, <3>1
      <3>. QED  BY <1>1, <3>2, <3>3, CoveredTail
    <2>. QED  BY <2>2, <2>3
  <1>. QED  BY <1>3, <1>4, <1>5

LEMMA GoodConcat ==
    ASSUME NEW s, NEW t, Good(s), Good(t)
    PROVE  Good(s \o t)
  <1>. DEFINE u == s \o t
  <1>1. /\ s \in Seq(Ops) /\ t \in Seq(Ops) /\ Len(s) \in Nat /\ Len(t) \in Nat
        /\ u \in Seq(Ops) /\ Len(u) = Len(s) + Len(t)
        /\ \A j \in 1..Len(s) : u[j] = s[j]
        /\ \A j \in (Len(s) + 1)..Len(u) : u[j] = t[j - Len(s)]
    BY DEF Good
  <1>. HIDE DEF u
  <1>2. ASSUME NEW i \in 1..Len(u), u[i].do = "take"
        PROVE  u[i].lock \in Manager /\ Covered(u, i + 1, u[i].lock)
    <2>1. CASE i <= Len(s)
      <3>1. i \in 1..Len(s) /\ u[i] = s[i]
        BY <1>1, <2>1
      <3>2. s[i].lock \in Manager /\ Covered(s, i + 1, s[i].lock)
        BY <1>2, <3>1 DEF Good
      <3>3. PICK k \in (i + 1)..Len(s) :
              /\ Frees(s[k], s[i].lock)
              /\ \A j \in (i + 1)..k :
                   AskRank(s[j]) > LockRank(s[i].lock) /\ (j < k => Keeps(s[j]))
        BY <3>2 DEF Covered
      <3>4. k \in (i + 1)..Len(u) /\ \A j \in (i + 1)..k : u[j] = s[j]
        BY <1>1
      <3>5. Covered(u, i + 1, s[i].lock)
        BY <3>3, <3>4 DEF Covered
      <3>. QED  BY <3>1, <3>2, <3>5
    <2>2. CASE i > Len(s)
      <3>. DEFINE n == Len(s)
                  h == i - Len(s)
      <3>1. h \in 1..Len(t) /\ u[i] = t[h]
        BY <1>1, <2>2
      <3>2. t[h].lock \in Manager /\ Covered(t, h + 1, t[h].lock)
        BY <1>2, <3>1 DEF Good
      <3>3. PICK k \in (h + 1)..Len(t) :
              /\ Frees(t[k], t[h].lock)
              /\ \A j \in (h + 1)..k :
                   AskRank(t[j]) > LockRank(t[h].lock) /\ (j < k => Keeps(t[j]))
        BY <3>2 DEF Covered
      <3>4. k + n \in (i + 1)..Len(u) /\ u[k + n] = t[k]
        <4>1. /\ k + n \in (i + 1)..Len(u) /\ k + n \in (Len(s) + 1)..Len(u)
              /\ (k + n) - Len(s) = k
          BY <1>1, <3>1
        <4>. QED  BY <1>1, <4>1
      <3>5. ASSUME NEW j \in (i + 1)..(k + n)
            PROVE  j - n \in (h + 1)..k /\ u[j] = t[j - n]
        <4>1. j \in (n + 1)..Len(u) /\ j - n \in (h + 1)..k
          BY <1>1, <2>2, <3>4
        <4>. QED  BY <1>1, <4>1
      <3>6. \A j \in (i + 1)..(k + n) :
              AskRank(u[j]) > LockRank(t[h].lock) /\ (j < k + n => Keeps(u[j]))
        <4>1. \A j \in (i + 1)..(k + n) : j < k + n => j - n < k
          BY <1>1, <3>1
        <4>. QED  BY <3>3, <3>5, <4>1
      <3>7. Covered(u, i + 1, t[h].lock)
        BY <3>3, <3>4, <3>6 DEF Covered
      <3>. QED  BY <3>1, <3>2, <3>7
    <2>. QED  BY <1>1, <2>1, <2>2
  <1>3. Good(u)
    BY <1>1, <1>2 DEF Good
  <1>. QED  BY <1>3 DEF u

-----------------------------------------------------------------------------
(* The scripts of the program are good.                                    *)

LEMMA OpsAre ==
    /\ \A do \in {"pick", "enter", "wait", "clear", "displace", "notify",
                  "close", "delete"} :
         Do(do) \in Ops /\ Do(do).do = do /\ Do(do).free = {}
    /\ \A l \in Manager : /\ Take(l) \in Ops /\ Take(l).do = "take"
                          /\ Take(l).lock = l /\ Take(l).free = {}
    /\ \A l \in Manager, free \in SUBSET Manager :
         /\ Use(l, free) \in Ops /\ Use(l, free).do = "use"
         /\ Use(l, free).lock = l /\ Use(l, free).free = free
    /\ \A free \in SUBSET Manager :
         /\ Find(free) \in Ops /\ Find(free).do = "find" /\ Find(free).free = free
         /\ Tell(free) \in Ops /\ Tell(free).do = "tell" /\ Tell(free).free = free
  BY DEF Do, Take, Use, Find, Tell, Op, Ops, Manager

(* A script that takes no lock for longer than a step.                     *)
LEMMA GoodShort ==
    ASSUME NEW s \in Seq(Ops), \A i \in 1..Len(s) : s[i].do # "take"
    PROVE  Good(s)
  BY DEF Good

LEMMA GoodReport ==
    /\ Good(<<Take("task")>> \o Observers) /\ OnlyLocks(<<Take("task")>> \o Observers)
    /\ Good(AddTask)
  <1>. DEFINE s == <<Take("task")>> \o Observers
  <1>1. {"task", "res", "mux", "job"} = Manager /\ {"job"} \in SUBSET Manager
        /\ {"task"} \in SUBSET Manager /\ {} \in SUBSET Manager
        /\ "task" \in Manager /\ "res" \in Manager /\ "mux" \in Manager
        /\ "job" \in Manager
    BY DEF Manager
  <1>2. /\ s \in Seq(Ops) /\ Len(s) = 4
        /\ s[1] = Take("task") /\ s[2] = Take("job") /\ s[3] = Tell({"job"})
        /\ s[4] = Use("res", {"task"})
    <2>. DEFINE o == <<Take("job"), Tell({"job"}), Use("res", {"task"})>>
                b == <<Take("task")>>
    <2>1. /\ o \in Seq(Ops) /\ Len(o) = 3 /\ o[1] = Take("job")
          /\ o[2] = Tell({"job"}) /\ o[3] = Use("res", {"task"})
      BY <1>1, OpsAre
    <2>2. b \in Seq(Ops) /\ Len(b) = 1 /\ b[1] = Take("task")
      BY <1>1, OpsAre
    <2>3. s = b \o o
      BY DEF Observers
    <2>. HIDE DEF o, b, s
    <2>4. /\ s \in Seq(Ops) /\ Len(s) = 4 /\ s[1] = b[1]
          /\ s[2] = o[1] /\ s[3] = o[2] /\ s[4] = o[3]
      <3>1. /\ s \in Seq(Ops) /\ Len(s) = Len(b) + Len(o)
            /\ \A i \in 1..Len(b) : s[i] = b[i]
            /\ \A i \in 1..Len(o) : s[Len(b) + i] = o[i]
        BY <2>1, <2>2, <2>3, Joined, ZenonT(60)
      <3>2. /\ 1 \in 1..Len(b) /\ 1 \in 1..Len(o) /\ 2 \in 1..Len(o) /\ 3 \in 1..Len(o)
            /\ Len(b) + 1 = 2 /\ Len(b) + 2 = 3 /\ Len(b) + 3 = 4
            /\ Len(b) + Len(o) = 4
        BY <2>1, <2>2
      <3>. QED  BY <3>1, <3>2
    <2>. QED  BY <2>1, <2>2, <2>4
  <1>4. /\ s[1].do = "take" /\ s[1].lock = "task"
        /\ s[2].do = "take" /\ s[2].lock = "job"
        /\ s[3].do = "tell" /\ s[3].free = {"job"}
        /\ s[4].do = "use" /\ s[4].lock = "res" /\ s[4].free = {"task"}
    <2>. HIDE DEF s
    <2>. QED  BY <1>1, <1>2, OpsAre
  <1>. HIDE DEF s
  <1>5. /\ AskRank(s[2]) = 2 /\ AskRank(s[3]) = 5 /\ AskRank(s[4]) = 2
        /\ LockRank("task") = 1 /\ LockRank("job") = 2
        /\ Keeps(s[1]) /\ Keeps(s[2]) /\ Keeps(s[3]) /\ Keeps(s[4])
        /\ Frees(s[3], "job") /\ Frees(s[4], "task")
    BY <1>4 DEF AskRank, LockRank, Keeps, Frees
  <1>6. Covered(s, 2, "task")
    BY <1>2, <1>5 DEF Covered
  <1>7. Covered(s, 3, "job")
    BY <1>2, <1>5 DEF Covered
  <1>8. Good(s)
    BY <1>1, <1>2, <1>4, <1>6, <1>7 DEF Good
  <1>9. OnlyLocks(s)
    BY <1>2, <1>5 DEF OnlyLocks
  <1>10. Good(<<Use("mux", {})>>)
    <2>. DEFINE op == Use("mux", {})
    <2>1. op \in Ops /\ op.do = "use"
      BY <1>1, OpsAre
    <2>. HIDE DEF op
    <2>2. <<op>> \in Seq(Ops) /\ \A i \in 1..Len(<<op>>) : <<op>>[i].do # "take"
      BY <2>1
    <2>3. Good(<<op>>)
      BY <2>2, GoodShort
    <2>. QED  BY <2>3 DEF op
  <1>11. AddTask = <<Use("mux", {})>> \o s
    BY <1>1, OpsAre DEF AddTask, s, Observers
  <1>. QED  BY <1>8, <1>9, <1>10, <1>11, GoodConcat DEF s

(* Scripts of one, two and three places that take at most one lock, which  *)
(* is then let go at the second or at the third.                           *)
LEMMA GoodEmpty == Good(<< >>)
  BY DEF Good

LEMMA GoodOne ==
    ASSUME NEW a \in Ops, a.do # "take"
    PROVE  Good(<<a>>)
  <1>1. <<a>> \in Seq(Ops) /\ \A i \in 1..Len(<<a>>) : <<a>>[i] = a
    OBVIOUS
  <1>. QED  BY <1>1, GoodShort

LEMMA GoodTwo ==
    ASSUME NEW a \in Ops, NEW b \in Ops, b.do # "take",
           a.do = "take" =>
             a.lock \in Manager /\ AskRank(b) > LockRank(a.lock) /\ Frees(b, a.lock)
    PROVE  Good(<<a, b>>)
  <1>. DEFINE s == <<a, b>>
  <1>1. s \in Seq(Ops) /\ Len(s) = 2 /\ s[1] = a /\ s[2] = b
    OBVIOUS
  <1>. HIDE DEF s
  <1>2. a.do = "take" => Covered(s, 2, a.lock)
    <2>1. SUFFICES ASSUME a.do = "take" PROVE Covered(s, 2, a.lock)
      OBVIOUS
    <2>2. 2 \in 2..Len(s) /\ Frees(s[2], a.lock)
          /\ \A j \in 2..2 : AskRank(s[j]) > LockRank(a.lock) /\ ~(j < 2)
      BY <1>1, <2>1
    <2>. QED  BY <2>2 DEF Covered
  <1>3. \A i \in 1..Len(s) : i = 1 \/ i = 2
    BY <1>1
  <1>4. ASSUME NEW i \in 1..Len(s), s[i].do = "take"
        PROVE  s[i].lock \in Manager /\ Covered(s, i + 1, s[i].lock)
    <2>1. i = 1 /\ i + 1 = 2
      BY <1>1, <1>3, <1>4
    <2>. QED  BY <1>1, <1>2, <1>4, <2>1
  <1>5. Good(s)
    BY <1>1, <1>4 DEF Good
  <1>. QED  BY <1>5 DEF s

LEMMA GoodThree ==
    ASSUME NEW a \in Ops, NEW b \in Ops, NEW c \in Ops,
           b.do # "take", c.do # "take",
           a.do = "take" =>
             /\ a.lock \in Manager /\ AskRank(b) > LockRank(a.lock)
             /\ \/ Frees(b, a.lock)
                \/ Keeps(b) /\ AskRank(c) > LockRank(a.lock) /\ Frees(c, a.lock)
    PROVE  Good(<<a, b, c>>)
  <1>. DEFINE s == <<a, b, c>>
  <1>1. s \in Seq(Ops) /\ Len(s) = 3 /\ s[1] = a /\ s[2] = b /\ s[3] = c
    OBVIOUS
  <1>. HIDE DEF s
  <1>2. ASSUME a.do = "take" PROVE Covered(s, 2, a.lock)
    <2>1. CASE Frees(b, a.lock)
      <3>1. 2 \in 2..Len(s) /\ Frees(s[2], a.lock)
            /\ \A j \in 2..2 : AskRank(s[j]) > LockRank(a.lock) /\ ~(j < 2)
        BY <1>1, <1>2, <2>1
      <3>. QED  BY <3>1 DEF Covered
    <2>2. CASE ~Frees(b, a.lock)
      <3>1. /\ 3 \in 2..Len(s) /\ Frees(s[3], a.lock)
            /\ \A j \in 2..3 : j = 2 \/ j = 3
        BY <1>1, <1>2, <2>2
      <3>2. \A j \in 2..3 : AskRank(s[j]) > LockRank(a.lock) /\ (j < 3 => Keeps(s[j]))
        BY <1>1, <1>2, <2>2, <3>1
      <3>. QED  BY <3>1, <3>2 DEF Covered
    <2>. QED  BY <2>1, <2>2
  <1>3. \A i \in 1..Len(s) : i = 1 \/ i = 2 \/ i = 3
    BY <1>1
  <1>4. ASSUME NEW i \in 1..Len(s), s[i].do = "take"
        PROVE  s[i].lock \in Manager /\ Covered(s, i + 1, s[i].lock)
    <2>1. i = 1 /\ i + 1 = 2
      BY <1>1, <1>3, <1>4
    <2>. QED  BY <1>1, <1>2, <1>4, <2>1
  <1>5. Good(s)
    BY <1>1, <1>4 DEF Good
  <1>. QED  BY <1>5 DEF s

LEMMA GoodParts ==
    /\ Good(SendRequestSync) /\ Good(<<Find({})>>) /\ Good(<<Find({}), Use("mux", {})>>)
    /\ Good(<<Take("res"), Find({"res"}), Do("pick")>>)
    /\ Good(DelTask) /\ OnlyLocks(DelTask)
    /\ Good(CreateJob) /\ Good(FinishDelayed) /\ Good(ListTasks)
    /\ Good(AddNode) /\ Good(<<Do("notify")>>) /\ Good(<<Do("clear")>>)
    /\ Good(<<Do("close")>>) /\ Good(<<Do("close"), Do("delete")>>)
  <1>1. /\ "task" \in Manager /\ "res" \in Manager /\ "mux" \in Manager
        /\ "job" \in Manager /\ {} \in SUBSET Manager /\ {"res"} \in SUBSET Manager
        /\ {"task"} \in SUBSET Manager /\ {"job"} \in SUBSET Manager
    BY DEF Manager
  <1>2. Good(SendRequestSync)
    <2>1. /\ Do("enter") \in Ops /\ Do("enter").do = "enter"
          /\ Do("wait") \in Ops /\ Do("wait").do = "wait"
          /\ Do("clear") \in Ops /\ Do("clear").do = "clear"
      BY OpsAre
    <2>. QED  BY <2>1, GoodThree DEF SendRequestSync
  <1>3. Good(<<Find({})>>) /\ Good(<<Find({}), Use("mux", {})>>)
    <2>1. /\ Find({}) \in Ops /\ Find({}).do = "find"
          /\ Use("mux", {}) \in Ops /\ Use("mux", {}).do = "use"
      BY <1>1, OpsAre
    <2>. QED  BY <2>1, GoodOne, GoodTwo
  <1>4. Good(<<Take("res"), Find({"res"}), Do("pick")>>)
    <2>1. /\ Take("res") \in Ops /\ Take("res").do = "take" /\ Take("res").lock = "res"
          /\ Find({"res"}) \in Ops /\ Find({"res"}).do = "find"
          /\ Find({"res"}).free = {"res"}
          /\ Do("pick") \in Ops /\ Do("pick").do = "pick"
      BY <1>1, OpsAre
    <2>2. /\ LockRank("res") = 2 /\ AskRank(Find({"res"})) = 3
          /\ Frees(Find({"res"}), "res")
      BY <2>1 DEF LockRank, AskRank, Frees
    <2>. QED  BY <1>1, <2>1, <2>2, GoodThree
  <1>5. Good(DelTask) /\ OnlyLocks(DelTask)
    <2>1. /\ Take("task") \in Ops /\ Take("task").do = "take"
          /\ Take("task").lock = "task"
          /\ Use("mux", {}) \in Ops /\ Use("mux", {}).do = "use"
          /\ Use("mux", {}).lock = "mux"
          /\ Use("job", {"task"}) \in Ops /\ Use("job", {"task"}).do = "use"
          /\ Use("job", {"task"}).lock = "job" /\ Use("job", {"task"}).free = {"task"}
      BY <1>1, OpsAre
    <2>2. /\ LockRank("task") = 1 /\ AskRank(Use("mux", {})) = 3
          /\ AskRank(Use("job", {"task"})) = 2
          /\ Keeps(Take("task")) /\ Keeps(Use("mux", {})) /\ Keeps(Use("job", {"task"}))
          /\ Frees(Use("job", {"task"}), "task")
      BY <2>1 DEF LockRank, AskRank, Frees, Keeps
    <2>3. Good(DelTask)
      BY <1>1, <2>1, <2>2, GoodThree DEF DelTask
    <2>4. \A i \in 1..Len(DelTask) :
             DelTask[i] \in {Take("task"), Use("mux", {}), Use("job", {"task"})}
      BY DEF DelTask
    <2>. QED  BY <2>2, <2>3, <2>4 DEF OnlyLocks
  <1>6. Good(CreateJob)
    <2>1. /\ Take("job") \in Ops /\ Take("job").do = "take" /\ Take("job").lock = "job"
          /\ Tell({"job"}) \in Ops /\ Tell({"job"}).do = "tell"
          /\ Tell({"job"}).free = {"job"}
      BY <1>1, OpsAre
    <2>2. /\ LockRank("job") = 2 /\ AskRank(Tell({"job"})) = 5
          /\ Frees(Tell({"job"}), "job")
      BY <2>1 DEF LockRank, AskRank, Frees
    <2>. QED  BY <1>1, <2>1, <2>2, GoodTwo DEF CreateJob
  <1>7. Good(FinishDelayed) /\ Good(ListTasks)
    <2>1. /\ Use("job", {}) \in Ops /\ Use("job", {}).do = "use"
          /\ Use("task", {}) \in Ops /\ Use("task", {}).do = "use"
      BY <1>1, OpsAre
    <2>. QED  BY <2>1, GoodOne DEF FinishDelayed, ListTasks
  <1>8. Good(AddNode)
    <2>1. /\ Take("mux") \in Ops /\ Take("mux").do = "take" /\ Take("mux").lock = "mux"
          /\ Do("displace") \in Ops /\ Do("displace").do = "displace"
      BY <1>1, OpsAre
    <2>2. /\ LockRank("mux") = 3 /\ AskRank(Do("displace")) = 4
          /\ Frees(Do("displace"), "mux")
      BY <2>1 DEF LockRank, AskRank, Frees
    <2>. QED  BY <1>1, <2>1, <2>2, GoodTwo DEF AddNode
  <1>9. /\ Good(<<Do("notify")>>) /\ Good(<<Do("clear")>>)
        /\ Good(<<Do("close")>>) /\ Good(<<Do("close"), Do("delete")>>)
    <2>1. /\ Do("notify") \in Ops /\ Do("notify").do = "notify"
          /\ Do("clear") \in Ops /\ Do("clear").do = "clear"
          /\ Do("close") \in Ops /\ Do("close").do = "close"
          /\ Do("delete") \in Ops /\ Do("delete").do = "delete"
      BY OpsAre
    <2>. QED  BY <2>1, GoodOne, GoodTwo
  <1>. QED  BY <1>2, <1>3, <1>4, <1>5, <1>6, <1>7, <1>8, <1>9

LEMMA GoodScripts ==
    /\ \A s \in Activities : Good(s)
    /\ \A s \in Reports : Good(s) /\ OnlyLocks(s)
    /\ \A s \in HandleMsg : Good(s)
    /\ \A s \in HandleMsg : NoRequest(s)
    /\ \A c : Good(Leave(c)) /\ NoRequest(Leave(c))
    /\ Good(DispatchDownload)
  <1>1. Good(DispatchDownload)
    <2>1. Good(<<Find({})>> \o SendRequestSync)
      BY GoodParts, GoodConcat
    <2>. QED  BY <2>1, GoodReport, GoodConcat DEF DispatchDownload
  <1>2. Good(DispatchUpload)
    <2>1. Good(<<Take("res"), Find({"res"}), Do("pick")>> \o SendRequestSync)
      BY GoodParts, GoodConcat
    <2>. QED  BY <2>1, GoodReport, GoodConcat DEF DispatchUpload
  <1>3. Good(Stop) /\ Good(ReloadModel)
    BY GoodParts, GoodConcat DEF Stop, ReloadModel
  <1>4. \A s \in Activities : Good(s)
    BY <1>1, <1>2, <1>3, GoodParts DEF Activities
  <1>5. \A s \in Reports : Good(s) /\ OnlyLocks(s)
    BY GoodReport, GoodParts DEF Reports
  <1>6. \A s \in HandleMsg : Good(s)
    BY GoodParts DEF HandleMsg
  <1>7. \A c : Good(Leave(c))
    BY GoodParts DEF Leave
  <1>8. \A s \in HandleMsg : NoRequest(s)
    BY DEF HandleMsg, AddNode, NoRequest, Take, Do, Op
  <1>9. \A c : NoRequest(Leave(c))
    BY DEF Leave, NoRequest, Do, Op
  <1>. QED  BY <1>1, <1>4, <1>5, <1>6, <1>7, <1>8, <1>9

-----------------------------------------------------------------------------
(* Types                                                                   *)

LEMMA Released ==
    ASSUME TypeOK, NEW free, Release(free)
    PROVE  /\ holder' \in [Manager \cup Conn -> Conn \cup Actor \cup {Routine, Free, Lost}]
           /\ \A l \in Manager \cup Conn :
                holder'[l] = IF l \in free THEN Free ELSE holder[l]
  BY DEF TypeOK, Release, Manager

LEMMA Updated ==
    ASSUME NEW S, NEW T, NEW f \in [S -> T], NEW x, NEW v \in T
    PROVE  [f EXCEPT ![x] = v] \in [S -> T]
  OBVIOUS

LEMMA ChannelsClosed ==
    ASSUME TypeOK, NEW c \in Conn, CloseChannels(c)
    PROVE  /\ node' = node /\ copies' = copies
           /\ entry' \in [Actor -> {"none"} \cup Channel]
           /\ left' \in [Conn -> {"none", "open", "closed"}]
           /\ closed' \subseteq Conn
           /\ \A a \in Actor : entry'[a] \in {"full", "full, closed"} =>
                               entry[a] \in {"full", "full, closed"}
  <1>. USE DEF TypeOK, CloseChannels, Channel
  <1>1. \A a \in Actor :
          LET e == IF node[a] # c THEN entry[a]
                   ELSE CASE entry[a] = "empty" -> "closed"
                          [] entry[a] = "full" -> "full, closed"
                          [] OTHER -> entry[a]
          IN  /\ e \in {"none"} \cup Channel
              /\ e \in {"full", "full, closed"} => entry[a] \in {"full", "full, closed"}
    OBVIOUS
  <1>2. \A a \in Actor : /\ entry'[a] \in {"none"} \cup Channel
                         /\ entry'[a] \in {"full", "full, closed"} =>
                              entry[a] \in {"full", "full, closed"}
    BY <1>1
  <1>3. entry' \in [Actor -> {"none"} \cup Channel]
    BY <1>2
  <1>. QED  BY <1>2, <1>3

LEMMA TypesStep ==
    ASSUME TypeOK, [Next]_vars
    PROVE  TypeOK'
  <1>a. /\ node \in [Actor -> Conn \cup {NoConn}] /\ copies \in [Actor -> 0..MaxCopies]
        /\ left \in [Conn -> {"none", "open", "closed"}]
        /\ idMap \in Conn \cup {NoConn} /\ queue \subseteq Conn
    BY DEF TypeOK
  <1>b. /\ 0 \in 0..MaxCopies /\ NoConn \in Conn \cup {NoConn}
        /\ \A n \in 0..MaxCopies : n < MaxCopies => n + 1 \in 0..MaxCopies
    OBVIOUS
  <1>c. /\ \A n \in Conn \cup {NoConn}, a \in Actor :
              [node EXCEPT ![a] = n] \in [Actor -> Conn \cup {NoConn}]
        /\ \A n \in 0..MaxCopies, a \in Actor :
              [copies EXCEPT ![a] = n] \in [Actor -> 0..MaxCopies]
        /\ \A v \in {"none", "open", "closed"} : \A c :
              [left EXCEPT ![c] = v] \in [Conn -> {"none", "open", "closed"}]
    BY <1>a, Updated
  <1>d. \A a \in Actor : copies[a] \in 0..MaxCopies
    BY <1>a
  <1>. USE DEF TypeOK
  <1>. USE DEF Goto, reqVars, connVars, Channel
  <1>1. CASE UNCHANGED vars
    BY <1>1 DEF vars
  <1>2. ASSUME NEW a \in Actor, Begin(a) PROVE TypeOK'
    BY <1>2 DEF Begin
  <1>3. ASSUME NEW p \in Process, TakeLock(p) PROVE TypeOK'
    BY <1>3 DEF TakeLock, Process
  <1>4. ASSUME NEW p \in Process, UseLock(p) PROVE TypeOK'
    BY <1>4, Released DEF UseLock, Go, Manager
  <1>5. ASSUME NEW p \in Process, TellServe(p) PROVE TypeOK'
    BY <1>5, Released DEF TellServe, Go, Manager
  <1>6. ASSUME NEW a \in Actor, FindNode(a) PROVE TypeOK'
    <2>1. node' \in [Actor -> Conn \cup {NoConn}]
      <3>. HIDE DEF TypeOK
      <3>1. PICK n \in {idMap, NoConn} : node' = [node EXCEPT ![a] = n]
        BY <1>6 DEF FindNode
      <3>. QED  BY <3>1, <1>a, <1>c
    <2>2. /\ UNCHANGED <<entry, copies, left, connVars>> /\ DOMAIN script' = DOMAIN script
          /\ Release(Now(a).free)
      BY <1>6 DEF FindNode
    <2>. QED  BY <2>1, <2>2, Released DEF Manager
  <1>7. ASSUME NEW a \in Actor, Pick(a) PROVE TypeOK'
    <2>1. node' \in [Actor -> Conn \cup {NoConn}]
      BY <1>7, ZenonT(60) DEF Pick
    <2>2. UNCHANGED <<entry, copies, left, holder, connVars>> /\ DOMAIN script' = DOMAIN script
      BY <1>7 DEF Pick
    <2>. QED  BY <2>1, <2>2
  <1>8. ASSUME NEW a \in Actor, Enter(a) PROVE TypeOK'
    <2>1. UNCHANGED <<holder, connVars>>
      BY <1>8 DEF Enter
    <2>2. DOMAIN script' = DOMAIN script
      BY <1>8 DEF Enter, Idle
    <2>5. left' \in [Conn -> {"none", "open", "closed"}]
      <3>. DEFINE c == node[a]
      <3>1. \/ left' = left
            \/ c \in closed
               /\ left' = [left EXCEPT ![c] = IF left[c] = "none" THEN "open" ELSE left[c]]
        BY <1>8 DEF Enter
      <3>2. c \in closed => (IF left[c] = "none" THEN "open" ELSE left[c])
                               \in {"none", "open", "closed"}
        OBVIOUS
      <3>. HIDE DEF TypeOK, c
      <3>. QED  BY <3>1, <3>2, <1>a, <1>c
    <2>3. node' \in [Actor -> Conn \cup {NoConn}] /\ copies' \in [Actor -> 0..MaxCopies]
      <3>1. /\ node' = node \/ node' = [node EXCEPT ![a] = NoConn]
            /\ copies' = copies \/ copies' = [copies EXCEPT ![a] = 0]
        BY <1>8 DEF Enter, Idle
      <3>. HIDE DEF TypeOK
      <3>. QED  BY <3>1, <1>a, <1>b, <1>c
    <2>4. entry' \in [Actor -> {"none"} \cup Channel]
      BY <1>8 DEF Enter, Idle
    <2>. QED  BY <2>1, <2>2, <2>3, <2>4, <2>5
  <1>9. ASSUME NEW a \in Actor, Answered(a) PROVE TypeOK'
    BY <1>9 DEF Answered
  <1>10. ASSUME NEW a \in Actor, Disconnected(a) PROVE TypeOK'
    <2>1. UNCHANGED <<holder, connVars>>
      BY <1>10 DEF Disconnected
    <2>2. DOMAIN script' = DOMAIN script /\ left' \in [Conn -> {"none", "open", "closed"}]
      BY <1>10 DEF Disconnected, Idle
    <2>3. node' \in [Actor -> Conn \cup {NoConn}] /\ copies' \in [Actor -> 0..MaxCopies]
      <3>1. /\ node' = [node EXCEPT ![a] = NoConn]
            /\ copies' = [copies EXCEPT ![a] = 0]
        BY <1>10 DEF Disconnected, Idle
      <3>. HIDE DEF TypeOK
      <3>. QED  BY <3>1, <1>a, <1>b, <1>c
    <2>4. entry' \in [Actor -> {"none"} \cup Channel]
      BY <1>10 DEF Disconnected, Idle
    <2>. QED  BY <2>1, <2>2, <2>3, <2>4
  <1>11. ASSUME NEW a \in Actor, Timeout(a) PROVE TypeOK'
    BY <1>11 DEF Timeout
  <1>12. ASSUME NEW a \in Actor, Clear(a) PROVE TypeOK'
    <2>1. UNCHANGED <<left, holder, connVars>> /\ DOMAIN script' = DOMAIN script
      BY <1>12 DEF Clear
    <2>2. node' \in [Actor -> Conn \cup {NoConn}] /\ copies' \in [Actor -> 0..MaxCopies]
      <3>1. /\ node' = [node EXCEPT ![a] = NoConn]
            /\ copies' = [copies EXCEPT ![a] = 0]
        BY <1>12 DEF Clear
      <3>. HIDE DEF TypeOK
      <3>. QED  BY <3>1, <1>a, <1>b, <1>c
    <2>3. entry' \in [Actor -> {"none"} \cup Channel]
      BY <1>12 DEF Clear
    <2>. QED  BY <2>1, <2>2, <2>3
  <1>13. ASSUME NEW c \in Conn, Receive(c) PROVE TypeOK'
    BY <1>13 DEF Receive
  <1>14. ASSUME NEW c \in Conn, ReadFails(c) PROVE TypeOK'
    BY <1>14 DEF ReadFails
  <1>15. ASSUME NEW c \in Conn, Notify(c) PROVE TypeOK'
    BY <1>15 DEF Notify
  <1>16. ASSUME NEW c \in Conn, Push(c) PROVE TypeOK'
    BY <1>16, Released DEF Push, Go, Manager
  <1>17. ASSUME NEW c \in Conn, AnswerUnknown(c) PROVE TypeOK'
    BY <1>17 DEF AnswerUnknown
  <1>18. ASSUME NEW c \in Conn, AnswerPanics(c) PROVE TypeOK'
    BY <1>18 DEF AnswerPanics
  <1>19. ASSUME NEW c \in Conn, NEW a \in Actor, Answer(c, a) PROVE TypeOK'
    <2>1. UNCHANGED <<node, left, connVars>> /\ DOMAIN script' = DOMAIN script
      BY <1>19 DEF Answer
    <2>2. copies' \in [Actor -> 0..MaxCopies]
      <3>. HIDE DEF TypeOK
      <3>1. copies[a] < MaxCopies /\ copies' = [copies EXCEPT ![a] = copies[a] + 1]
        BY <1>19 DEF Answer
      <3>. QED  BY <3>1, <1>b, <1>c, <1>d
    <2>3. entry' \in [Actor -> {"none"} \cup Channel]
      <3>1. entry' \in {entry, [entry EXCEPT ![a] = "full"]}
        BY <1>19 DEF Answer
      <3>2. entry \in [Actor -> {"none"} \cup Channel]
        OBVIOUS
      <3>. HIDE DEF TypeOK
      <3>. QED  BY <3>1, <3>2
    <2>4. holder' \in [{"task", "res", "mux", "job"} \cup Conn ->
                         Conn \cup Actor \cup {Routine, Free, Lost}]
      BY <1>19, ZenonT(60) DEF Answer
    <2>. QED  BY <2>1, <2>2, <2>3, <2>4
  <1>20. ASSUME NEW c \in Conn, Displace(c) PROVE TypeOK'
    <2>1. idMap \in Conn \/ idMap = NoConn
      OBVIOUS
    <2>2. /\ node' = node /\ copies' = copies
          /\ entry' \in [Actor -> {"none"} \cup Channel]
          /\ left' \in [Conn -> {"none", "open", "closed"}]
          /\ closed' \subseteq Conn
      BY <1>20, <2>1, ChannelsClosed DEF Displace
    <2>. QED  BY <1>20, <2>2, Released, ZenonT(60) DEF Displace, Manager
  <1>21. ASSUME NEW c \in Conn, DisplacePanics(c) PROVE TypeOK'
    BY <1>21 DEF DisplacePanics
  <1>22. ASSUME NEW c \in Conn, CloseSelf(c) PROVE TypeOK'
    <2>1. CASE CloseChannels(c) /\ UNCHANGED holder
      BY <1>22, <2>1, ChannelsClosed DEF CloseSelf
    <2>2. CASE holder' = [holder EXCEPT ![c] = Lost] /\ UNCHANGED <<reqVars, closed>>
      BY <1>22, <2>2 DEF CloseSelf
    <2>. QED  BY <1>22, <2>1, <2>2 DEF CloseSelf
  <1>23. ASSUME NEW c \in Conn, DelNode(c) PROVE TypeOK'
    BY <1>23 DEF DelNode
  <1>. QED
    BY <1>1, <1>2, <1>3, <1>4, <1>5, <1>6, <1>7, <1>8, <1>9, <1>10, <1>11, <1>12,
       <1>13, <1>14, <1>15, <1>16, <1>17, <1>18, <1>19, <1>20, <1>21, <1>22, <1>23
    DEF Next, ActorStep, RoutineStep, ReaderStep, Process

(* The scripts, the channels and the locks have their types: a lock is     *)
(* held by a process, free, or lost in a panic.                            *)
THEOREM TypeCorrect == Spec => []TypeOK
  <1>1. Init => TypeOK
    BY DEF Init, TypeOK, Process, Manager
  <1>2. TypeOK /\ [Next]_vars => TypeOK'
    BY TypesStep
  <1>. QED  BY <1>1, <1>2, PTL DEF Spec

-----------------------------------------------------------------------------
(* Steps                                                                   *)

(* A process that holds a lock of a manager is at a place where it lets it *)
(* go, or at one that it leaves only for the next.                         *)
LEMMA HeldHere ==
    ASSUME ScriptInv, NEW p \in Process, NEW l \in Manager, holder[l] = p
    PROVE  /\ script[p] # << >>
           /\ Frees(Now(p), l) \/ (Keeps(Now(p)) /\ Covered(Tail(script[p]), 1, l))
           /\ AskRank(Now(p)) > LockRank(l)
  <1>1. Good(script[p]) /\ Covered(script[p], 1, l)
    BY DEF ScriptInv
  <1>2. script[p] \in Seq(Ops)
    BY <1>1 DEF Good
  <1>3. PICK k \in 1..Len(script[p]) :
          \A j \in 1..k : AskRank(script[p][j]) > LockRank(l)
    BY <1>1 DEF Covered
  <1>4. script[p] # << >> /\ 1 \in 1..k
    BY <1>2, <1>3
  <1>5. Now(p) = script[p][1]
    BY <1>2, <1>4 DEF Now
  <1>6. \/ Frees(script[p][1], l)
        \/ Keeps(script[p][1]) /\ Covered(Tail(script[p]), 1, l)
    BY <1>1, <1>4, GoodTail
  <1>7. AskRank(script[p][1]) > LockRank(l)
    BY <1>3, <1>4
  <1>. QED  BY <1>4, <1>5, <1>6, <1>7

(* Process p goes on with script s, which lets go what p still holds.      *)
LEMMA GoesOn ==
    ASSUME TypeOK, ScriptInv, NEW p \in Process, NEW s, Good(s),
           p = Routine => OnlyLocks(s), p \in Conn => NoRequest(s),
           script' = [script EXCEPT ![p] = s],
           \A l \in Manager, q \in Process \ {p} : holder'[l] = q => holder[l] = q,
           \A l \in Manager : holder'[l] = p => Covered(s, 1, l)
    PROVE  ScriptInv'
  <1>1. \A q \in Process : script'[q] = IF q = p THEN s ELSE script[q]
    BY DEF TypeOK, Process
  <1>2. \A q \in Process : Good(script'[q])
    BY <1>1 DEF ScriptInv
  <1>3. OnlyLocks(script'[Routine])
    BY <1>1 DEF ScriptInv, Process
  <1>4. \A c \in Conn : NoRequest(script'[c])
    BY <1>1 DEF ScriptInv, Process
  <1>5. \A l \in Manager, q \in Process : holder'[l] = q => Covered(script'[q], 1, l)
    BY <1>1 DEF ScriptInv
  <1>. QED  BY <1>2, <1>3, <1>4, <1>5 DEF ScriptInv

(* The rest of a script of the routine, and of a connection                *)
LEMMA Rest ==
    ASSUME ScriptInv, NEW p \in Process, script[p] # << >>
    PROVE  /\ Good(Tail(script[p]))
           /\ p = Routine => OnlyLocks(Tail(script[p]))
           /\ p \in Conn => NoRequest(Tail(script[p]))
           /\ Now(p) \in Ops
           /\ At(p, "take") => /\ Now(p).lock \in Manager
                               /\ Covered(Tail(script[p]), 1, Now(p).lock)
  <1>1. Good(script[p]) /\ script[p] \in Seq(Ops)
    BY DEF ScriptInv, Good
  <1>2. /\ Len(Tail(script[p])) = Len(script[p]) - 1 /\ Len(script[p]) \in Nat
        /\ \A i \in 1..Len(Tail(script[p])) :
             Tail(script[p])[i] = script[p][i + 1] /\ i + 1 \in 1..Len(script[p])
        /\ Now(p) = script[p][1] /\ Now(p) \in Ops
    BY <1>1 DEF Now
  <1>3. p = Routine => OnlyLocks(Tail(script[p]))
    BY <1>2 DEF ScriptInv, OnlyLocks
  <1>4. p \in Conn => NoRequest(Tail(script[p]))
    BY <1>2 DEF ScriptInv, NoRequest
  <1>. QED  BY <1>1, <1>2, <1>3, <1>4, GoodTail DEF At

LEMMA FreeIsNobody == Free \notin Process /\ Lost # Free
  BY DEF Process

(* Process p, which holds no lock of a manager, goes on with script s.     *)
LEMMA Changes ==
    ASSUME TypeOK, ScriptInv, NEW p \in Process, NEW s, Good(s),
           p = Routine => OnlyLocks(s), p \in Conn => NoRequest(s),
           script[p] = << >>
             \/ Now(p).do \notin {"take", "use", "tell", "find", "displace"},
           script' = [script EXCEPT ![p] = s],
           \A l \in Manager : holder'[l] \in {holder[l], Free}
    PROVE  ScriptInv'
  <1>1. \A l \in Manager : holder[l] # p
    BY HeldHere DEF Frees, Keeps
  <1>2. \A l \in Manager, q \in Process : holder'[l] = q => holder[l] = q
    BY FreeIsNobody
  <1>. QED  BY <1>1, <1>2, GoesOn

(* A place where a lock is used, or Serve is told                          *)
LEMMA Passes ==
    ASSUME TypeOK, ScriptInv, NEW p \in Process, At(p, "use") \/ At(p, "tell"), Go(p)
    PROVE  /\ ScriptInv'
           /\ \A c \in Conn : holder[c] = Free => holder'[c] = Free
  <1>1. /\ script[p] # << >> /\ Now(p).do \in {"use", "tell"}
        /\ script' = [script EXCEPT ![p] = Tail(script[p])]
        /\ Release(Now(p).free)
    BY DEF At, Go, Goto, Now
  <1>2. \A l \in Manager \cup Conn :
          holder'[l] = IF l \in Now(p).free THEN Free ELSE holder[l]
    BY <1>1, Released
  <1>3. \A l \in Manager, q \in Process \ {p} : holder'[l] = q => holder[l] = q
    BY <1>2, FreeIsNobody
  <1>4. ASSUME NEW l \in Manager, holder'[l] = p
        PROVE  Covered(Tail(script[p]), 1, l)
    <2>1. holder[l] = p /\ l \notin Now(p).free
      BY <1>2, <1>4, FreeIsNobody
    <2>2. ~Frees(Now(p), l)
      BY <1>1, <2>1 DEF Frees
    <2>. QED  BY <2>1, <2>2, HeldHere
  <1>5. ScriptInv'
    <2>. DEFINE t == Tail(script[p])
    <2>1. Good(t) /\ (p = Routine => OnlyLocks(t)) /\ (p \in Conn => NoRequest(t))
      BY <1>1, Rest
    <2>2. script' = [script EXCEPT ![p] = t] /\ \A l \in Manager : holder'[l] = p => Covered(t, 1, l)
      BY <1>1, <1>4
    <2>. HIDE DEF t
    <2>. QED  BY <1>3, <2>1, <2>2, GoesOn
  <1>. QED  BY <1>2, <1>5

LEMMA Takes ==
    ASSUME TypeOK, ScriptInv, NEW p \in Process, TakeLock(p)
    PROVE  /\ ScriptInv'
           /\ \A c \in Conn : holder[c] = Free => holder'[c] = Free
  <1>. DEFINE t == Tail(script[p])
              m == Now(p).lock
  <1>1. /\ script[p] # << >> /\ Now(p).do = "take" /\ At(p, "take")
        /\ script' = [script EXCEPT ![p] = t]
        /\ holder' = [holder EXCEPT ![m] = p]
    BY DEF TakeLock, At, Goto, Now
  <1>2. /\ Good(t) /\ (p = Routine => OnlyLocks(t)) /\ (p \in Conn => NoRequest(t))
        /\ m \in Manager /\ Covered(t, 1, m)
    BY <1>1, Rest
  <1>. HIDE DEF m
  <1>3. \A l \in Manager \cup Conn : holder'[l] = IF l = m THEN p ELSE holder[l]
    BY <1>1 DEF TypeOK, Manager
  <1>4. \A l \in Manager, q \in Process \ {p} : holder'[l] = q => holder[l] = q
    BY <1>3
  <1>5. ASSUME NEW l \in Manager, holder'[l] = p, l # m
        PROVE  Covered(t, 1, l)
    <2>1. holder[l] = p
      BY <1>3, <1>5
    <2>2. ~Frees(Now(p), l)
      BY <1>1 DEF Frees
    <2>. QED  BY <2>1, <2>2, HeldHere
  <1>6. \A c \in Conn : c # m
    BY <1>2 DEF Manager
  <1>. HIDE DEF t
  <1>7. \A l \in Manager : holder'[l] = p => Covered(t, 1, l)
    BY <1>2, <1>5
  <1>8. ScriptInv'
    BY <1>1, <1>2, <1>4, <1>7, GoesOn
  <1>. QED  BY <1>3, <1>6, <1>8

LEMMA Finds ==
    ASSUME TypeOK, ScriptInv, NEW a \in Actor, FindNode(a)
    PROVE  /\ ScriptInv'
           /\ \A c \in Conn : holder[c] = Free => holder'[c] = Free
  <1>1. PICK s \in {<< >>, Tail(script[a])} : script' = [script EXCEPT ![a] = s]
    BY DEF FindNode, Goto
  <1>2. /\ script[a] # << >> /\ Now(a).do = "find" /\ Release(Now(a).free)
        /\ a \in Process /\ a # Routine /\ a \notin Conn
    BY DEF FindNode, At, Now, Process
  <1>3. \A l \in Manager \cup Conn :
          holder'[l] = IF l \in Now(a).free THEN Free ELSE holder[l]
    BY <1>2, Released
  <1>4. \A l \in Manager, q \in Process \ {a} : holder'[l] = q => holder[l] = q
    BY <1>3, FreeIsNobody
  <1>5. ASSUME NEW l \in Manager, holder'[l] = a
        PROVE  FALSE
    <2>1. holder[l] = a /\ l \notin Now(a).free
      BY <1>2, <1>3, <1>5, FreeIsNobody
    <2>2. ~Frees(Now(a), l) /\ ~Keeps(Now(a))
      BY <1>2, <2>1 DEF Frees, Keeps
    <2>. QED  BY <1>2, <2>1, <2>2, HeldHere
  <1>6. Good(s)
    BY <1>1, <1>2, Rest, GoodEmpty
  <1>7. ScriptInv'
    BY <1>1, <1>2, <1>4, <1>5, <1>6, GoesOn
  <1>. QED  BY <1>3, <1>7

LEMMA Reported ==
    ASSUME TypeOK, ScriptInv, NEW c \in Conn, Notify(c)
    PROVE  ScriptInv'
  <1>1. PICK s \in Reports : script' = [script EXCEPT ![c] = << >>, ![Routine] = s]
    BY DEF Notify
  <1>2. /\ script[c] # << >> /\ Now(c).do = "notify" /\ script[Routine] = << >>
        /\ holder' = holder /\ c \in Process /\ Routine \in Process /\ c # Routine
    BY DEF Notify, At, Now, Process
  <1>3. \A q \in Process :
          script'[q] = IF q = Routine THEN s ELSE IF q = c THEN << >> ELSE script[q]
    BY <1>1, <1>2 DEF TypeOK, Process
  <1>4. \A l \in Manager : holder[l] # c /\ holder[l] # Routine
    BY <1>2, HeldHere DEF Frees, Keeps
  <1>5. \A q \in Process : Good(script'[q])
    BY <1>3, GoodEmpty, GoodScripts DEF ScriptInv
  <1>6. OnlyLocks(script'[Routine])
    BY <1>2, <1>3, GoodScripts
  <1>7. \A d \in Conn : NoRequest(script'[d])
    <2>1. NoRequest(<< >>)
      BY DEF NoRequest
    <2>2. \A d \in Conn : d \in Process /\ d # Routine
      BY DEF Process
    <2>. QED  BY <1>3, <2>1, <2>2 DEF ScriptInv
  <1>8. \A l \in Manager, q \in Process : holder'[l] = q => Covered(script'[q], 1, l)
    BY <1>2, <1>3, <1>4 DEF ScriptInv
  <1>. QED  BY <1>5, <1>6, <1>7, <1>8 DEF ScriptInv

LEMMA Registered ==
    ASSUME TypeOK, ScriptInv, NEW c \in Conn, Displace(c)
    PROVE  /\ ScriptInv'
           /\ \A d \in Conn : holder[d] = Free => holder'[d] = Free
  <1>1. /\ script[c] # << >> /\ Now(c).do = "displace" /\ Release({"mux"})
        /\ script' = [script EXCEPT ![c] = << >>]
        /\ c \in Process /\ c # Routine
    BY DEF Displace, At, Now, Goto, Process
  <1>2. \A l \in Manager \cup Conn :
          holder'[l] = IF l = "mux" THEN Free ELSE holder[l]
    BY <1>1, Released
  <1>3. \A l \in Manager, q \in Process \ {c} : holder'[l] = q => holder[l] = q
    BY <1>2, FreeIsNobody
  <1>4. ASSUME NEW l \in Manager, holder'[l] = c
        PROVE  FALSE
    <2>1. holder[l] = c /\ l # "mux"
      BY <1>1, <1>2, <1>4, FreeIsNobody
    <2>2. ~Frees(Now(c), l) /\ ~Keeps(Now(c))
      BY <1>1, <2>1 DEF Frees, Keeps
    <2>. QED  BY <1>1, <2>1, <2>2, HeldHere
  <1>5. NoRequest(<< >>)
    BY DEF NoRequest
  <1>6. ScriptInv'
    BY <1>1, <1>3, <1>4, <1>5, GoodEmpty, GoesOn
  <1>. QED  BY <1>2, <1>6

(* What the steps of processes keep, as long as no req_lock is lost.       *)
LEMMA ActorSteps ==
    ASSUME TypeOK, WaitInv, NEW a \in Actor, Begin(a) \/ ActorStep(a)
    PROVE  WaitInv'
  <1>1. a \in Process /\ a # Routine /\ a \notin Conn
    BY DEF Process
  <1>2. ScriptInv /\ (\A c \in Conn : holder[c] = Free)
        /\ \A b \in Actor : entry[b] \in {"full", "full, closed"} => copies[b] > 0
    BY DEF WaitInv
  <1>3. SUFFICES /\ ScriptInv' /\ \A c \in Conn : holder'[c] = Free
                 /\ \A b \in Actor : entry'[b] \in {"full", "full, closed"} => copies'[b] > 0
    BY DEF WaitInv
  <1>4. CASE TakeLock(a)
    BY <1>1, <1>2, <1>4, Takes DEF TakeLock, reqVars
  <1>5. CASE UseLock(a) \/ TellServe(a)
    <2>1. /\ At(a, "use") \/ At(a, "tell")
          /\ Go(a) /\ UNCHANGED reqVars
      BY <1>5 DEF UseLock, TellServe
    <2>. QED  BY <1>1, <1>2, <2>1, Passes DEF reqVars
  <1>6. CASE FindNode(a)
    BY <1>2, <1>6, Finds DEF FindNode
  <1>7. CASE Begin(a) \/ Pick(a) \/ Enter(a) \/ Answered(a) \/ Disconnected(a)
             \/ Timeout(a) \/ Clear(a)
    <2>1. /\ script[a] = << >> \/ Now(a).do \notin {"take", "use", "tell", "find", "displace"}
          /\ holder' = holder
      BY <1>7 DEF Begin, Pick, Enter, Answered, Disconnected, Timeout, Clear, At, Now
    <2>2. script[a] # << >> \/ Begin(a)
      BY <1>7 DEF Pick, Enter, Answered, Disconnected, Timeout, Clear, At
    <2>3. \E s : Good(s) /\ script' = [script EXCEPT ![a] = s]
      <3>1. CASE Begin(a)
        BY <3>1, GoodScripts DEF Begin, Goto
      <3>2. CASE ~Begin(a)
        <4>1. \E s \in {<< >>, Tail(script[a]), <<Do("clear")>>, DispatchDownload} :
                 script' = [script EXCEPT ![a] = s]
          BY <1>7, <3>2
          DEF Pick, Enter, Answered, Disconnected, Timeout, Clear, Goto, Idle
        <4>2. Good(<< >>) /\ Good(Tail(script[a])) /\ Good(<<Do("clear")>>)
              /\ Good(DispatchDownload)
          BY <1>1, <1>2, <2>2, <3>2, GoodEmpty, GoodParts, GoodScripts, Rest
        <4>. QED  BY <4>1, <4>2
      <3>. QED  BY <3>1, <3>2
    <2>4. PICK s : Good(s) /\ script' = [script EXCEPT ![a] = s]
      BY <2>3
    <2>5. ScriptInv'
      BY <1>1, <1>2, <2>1, <2>4, Changes
    <2>6. \A b \in Actor :
            \/ entry'[b] = entry[b] /\ copies'[b] = copies[b]
            \/ entry'[b] \notin {"full", "full, closed"}
      <3>1. CASE Begin(a) \/ Pick(a) \/ Timeout(a)
        BY <3>1 DEF Begin, Pick, Timeout, reqVars
      <3>2. CASE Enter(a)
        BY <3>2, ZenonT(60) DEF Enter, Idle, TypeOK
      <3>3. CASE Answered(a)
        BY <3>3 DEF Answered, TypeOK
      <3>4. CASE Disconnected(a)
        BY <3>4 DEF Disconnected, Idle, TypeOK
      <3>5. CASE Clear(a)
        BY <3>5 DEF Clear, TypeOK
      <3>. QED  BY <1>7, <3>1, <3>2, <3>3, <3>4, <3>5
    <2>. QED  BY <1>2, <2>1, <2>5, <2>6
  <1>. QED  BY <1>4, <1>5, <1>6, <1>7 DEF ActorStep

LEMMA RoutineSteps ==
    ASSUME TypeOK, WaitInv, RoutineStep
    PROVE  WaitInv'
  <1>1. Routine \in Process /\ ScriptInv /\ \A c \in Conn : holder[c] = Free
    BY DEF Process, WaitInv
  <1>2. ScriptInv' /\ (\A c \in Conn : holder'[c] = Free) /\ UNCHANGED reqVars
    <2>1. CASE TakeLock(Routine)
      BY <1>1, <2>1, Takes DEF TakeLock
    <2>2. CASE UseLock(Routine) \/ TellServe(Routine)
      <3>1. /\ At(Routine, "use") \/ At(Routine, "tell")
            /\ Go(Routine) /\ UNCHANGED reqVars
        BY <2>2 DEF UseLock, TellServe
      <3>. QED  BY <1>1, <3>1, Passes
    <2>. QED  BY <2>1, <2>2 DEF RoutineStep
  <1>. QED  BY <1>2 DEF WaitInv, reqVars

LEMMA ReaderSteps ==
    ASSUME TypeOK, WaitInv, MaxCopies <= 1, ~Wedged', NEW c \in Conn,
           Receive(c) \/ ReadFails(c) \/ ReaderStep(c)
    PROVE  WaitInv'
  <1>1. c \in Process /\ c # Routine
    BY DEF Process
  <1>2. ScriptInv /\ (\A d \in Conn : holder[d] = Free)
        /\ \A b \in Actor : entry[b] \in {"full", "full, closed"} => copies[b] > 0
    BY DEF WaitInv
  <1>3. SUFFICES /\ ScriptInv' /\ \A d \in Conn : holder'[d] = Free
                 /\ \A b \in Actor : entry'[b] \in {"full", "full, closed"} => copies'[b] > 0
    BY DEF WaitInv
  <1>4. \A d \in Conn : holder'[d] # Lost
    BY DEF Wedged
  <1>5. CASE TakeLock(c)
    BY <1>1, <1>2, <1>5, Takes DEF TakeLock, reqVars
  <1>6. CASE Notify(c)
    BY <1>2, <1>6, Reported DEF Notify, reqVars
  <1>7. CASE Displace(c)
    <2>1. idMap \in Conn \/ idMap = NoConn
      BY DEF TypeOK
    <2>2. \A b \in Actor : entry'[b] \in {"full", "full, closed"} =>
                             entry[b] \in {"full", "full, closed"} /\ copies' = copies
      BY <1>7, <2>1, ChannelsClosed DEF Displace, reqVars
    <2>. QED  BY <1>2, <1>7, <2>2, Registered
  <1>8. ~Push(c)
    <2>1. SUFFICES ASSUME At(c, "push") PROVE FALSE
      BY DEF Push
    <2>2. script[c] # << >> /\ Now(c).do = "push" /\ Now(c) \in Ops
      BY <1>1, <1>2, <2>1, Rest DEF At, Now
    <2>. QED  BY <2>2 DEF Ops
  <1>9. ~AnswerPanics(c) /\ ~DisplacePanics(c)
    <2>1. ~AnswerPanics(c)
      BY <1>4 DEF AnswerPanics, TypeOK
    <2>2. ~DisplacePanics(c)
      <3>1. SUFFICES ASSUME DisplacePanics(c) PROVE FALSE
        OBVIOUS
      <3>2. idMap \in Conn /\ holder'[idMap] = Lost
        BY <3>1 DEF DisplacePanics, TypeOK
      <3>. QED  BY <1>4, <3>2
    <2>. QED  BY <2>1, <2>2
  <1>10. ASSUME NEW a \in Actor, Answer(c, a)
         PROVE  /\ entry[a] = "empty" /\ script' = [script EXCEPT ![c] = << >>]
                /\ entry' = [entry EXCEPT ![a] = "full"] /\ holder' = holder
                /\ copies' = [copies EXCEPT ![a] = copies[a] + 1]
    <2>1. copies[a] \in Nat /\ copies[a] < 1
      BY <1>10 DEF Answer, TypeOK
    <2>2. entry[a] = "full" => copies[a] > 0
      BY <1>2
    <2>3. entry[a] # "full"
      BY <2>1, <2>2
    <2>. QED  BY <1>10, <2>3 DEF Answer, Goto
  <1>11. CASE \E a \in Actor : Answer(c, a)
    <2>1. PICK a \in Actor : Answer(c, a)
      BY <1>11
    <2>2. script[c] = << >>
      BY <2>1 DEF Answer, Reading
    <2>3. NoRequest(<< >>)
      BY DEF NoRequest
    <2>4. ScriptInv'
      BY <1>1, <1>2, <1>10, <2>1, <2>2, <2>3, GoodEmpty, Changes
    <2>5. copies[a] \in Nat /\ copies'[a] > 0
          /\ \A b \in Actor \ {a} : copies'[b] = copies[b] /\ entry'[b] = entry[b]
      BY <1>10, <2>1 DEF TypeOK
    <2>. QED  BY <1>2, <1>10, <2>1, <2>4, <2>5
  <1>12. CASE Receive(c) \/ ReadFails(c) \/ AnswerUnknown(c) \/ CloseSelf(c) \/ DelNode(c)
    <2>1. /\ script[c] = << >> \/ Now(c).do \notin {"take", "use", "tell", "find", "displace"}
          /\ holder' = holder
      <3>1. CASE CloseSelf(c)
        <4>1. holder' = holder
          BY <1>4, <3>1 DEF CloseSelf, TypeOK
        <4>. QED  BY <3>1, <4>1 DEF CloseSelf, At, Now
      <3>. QED  BY <1>12, <3>1 DEF Receive, ReadFails, AnswerUnknown, DelNode, Reading, At, Now
    <2>2. NoRequest(<< >>)
      BY DEF NoRequest
    <2>3. \E s : Good(s) /\ NoRequest(s) /\ script' = [script EXCEPT ![c] = s]
      <3>1. CASE Receive(c)
        BY <3>1, GoodScripts DEF Receive, Goto
      <3>2. CASE ReadFails(c)
        BY <3>2, GoodScripts DEF ReadFails, Goto
      <3>3. CASE AnswerUnknown(c)
        BY <2>2, <3>3, GoodEmpty DEF AnswerUnknown, Goto
      <3>4. CASE CloseSelf(c) \/ DelNode(c)
        <4>1. script[c] # << >>
          BY <3>4 DEF CloseSelf, DelNode, At
        <4>2. \E s \in {<< >>, Tail(script[c])} : script' = [script EXCEPT ![c] = s]
          BY <3>4 DEF CloseSelf, DelNode, Goto
        <4>3. Good(Tail(script[c])) /\ NoRequest(Tail(script[c]))
          BY <1>1, <1>2, <4>1, Rest
        <4>. QED  BY <2>2, <4>2, <4>3, GoodEmpty
      <3>. QED  BY <1>12, <3>1, <3>2, <3>3, <3>4
    <2>4. PICK s : Good(s) /\ NoRequest(s) /\ script' = [script EXCEPT ![c] = s]
      BY <2>3
    <2>5. ScriptInv'
      BY <1>1, <1>2, <2>1, <2>4, Changes
    <2>6. copies' = copies /\ \A b \in Actor : entry'[b] \in {"full", "full, closed"} =>
                                               entry[b] \in {"full", "full, closed"}
      <3>1. CASE CloseSelf(c)
        BY <3>1, ChannelsClosed DEF CloseSelf, reqVars
      <3>. QED  BY <1>12, <3>1 DEF Receive, ReadFails, AnswerUnknown, DelNode, reqVars
    <2>. QED  BY <1>2, <2>1, <2>5, <2>6
  <1>. QED  BY <1>5, <1>6, <1>7, <1>8, <1>9, <1>11, <1>12 DEF ReaderStep

LEMMA WaitInvariant == ASSUME MaxCopies <= 1 PROVE Spec => [](TypeOK /\ Inv)
  <1>1. Init => TypeOK
    BY DEF Init, TypeOK, Process, Manager
  <1>2. Init => Inv
    <2>1. SUFFICES ASSUME Init PROVE WaitInv
      BY DEF Inv
    <2>2. \A p \in Process : script[p] = << >>
      BY <2>1 DEF Init
    <2>3. \A l \in Manager \cup Conn : holder[l] = Free
      BY <2>1 DEF Init
    <2>4. NoRequest(<< >>) /\ OnlyLocks(<< >>)
      BY DEF NoRequest, OnlyLocks
    <2>5. ScriptInv
      BY <2>2, <2>3, <2>4, GoodEmpty, FreeIsNobody DEF ScriptInv, Process
    <2>6. \A a \in Actor : entry[a] = "none"
      BY <2>1 DEF Init
    <2>. QED  BY <2>3, <2>5, <2>6 DEF WaitInv
  <1>3. TypeOK /\ Inv /\ [Next]_vars => Inv'
    <2>1. SUFFICES ASSUME TypeOK, Inv, [Next]_vars, ~Wedged' PROVE WaitInv'
      BY DEF Inv
    <2>2. CASE UNCHANGED vars
      <3>1. ~Wedged
        BY <2>1, <2>2 DEF vars, Wedged
      <3>. QED  BY <2>1, <2>2, <3>1 DEF vars, reqVars, Inv, WaitInv, ScriptInv
    <2>3. CASE Next
      <3>1. WaitInv
        BY <2>1, <2>3 DEF Next, Inv
      <3>. QED
        BY <2>1, <2>3, <3>1, ActorSteps, RoutineSteps, ReaderSteps DEF Next
    <2>. QED  BY <2>1, <2>2, <2>3
  <1>4. TypeOK /\ [Next]_vars => TypeOK'
    BY TypesStep
  <1>. QED  BY <1>1, <1>2, <1>3, <1>4, PTL DEF Spec

-----------------------------------------------------------------------------
(* Who is waited for has the higher rank.                                  *)
LEMMA RanksGrow ==
    ASSUME TypeOK, WaitInv, NEW p \in Process, NEW q \in Process, WaitsFor(p, q)
    PROVE  Rank(q) > Rank(p)
  <1>1. /\ ScriptInv /\ \A c \in Conn : holder[c] = Free
        /\ q # Free
    BY FreeIsNobody DEF WaitInv
  <1>2. script[p] # << >> => Now(p) \in Ops
    BY <1>1, Rest
  <1>3. ASSUME NEW l \in Asked(p), holder[l] = q
        PROVE  Rank(q) > Rank(p)
    <2>1. l \in Manager
      BY <1>1, <1>3 DEF Asked
    <2>2. Rank(q) > LockRank(l)
      BY <1>1, <1>3, <2>1, HeldHere DEF Rank
    <2>3. Rank(p) = LockRank(l)
      <3>1. script[p] # << >> /\ Rank(p) = AskRank(Now(p))
        BY DEF Asked, At, Rank
      <3>2. CASE (At(p, "take") \/ At(p, "use")) /\ l = Now(p).lock
        BY <3>1, <3>2 DEF At, Now, AskRank
      <3>3. CASE (At(p, "find") \/ At(p, "delete")) /\ l = "mux"
        BY <3>1, <3>3 DEF At, Now, AskRank, LockRank
      <3>4. CASE At(p, "displace") /\ l = idMap
        BY <2>1, <3>4 DEF TypeOK, Manager
      <3>5. CASE At(p, "close") /\ l = p
        BY <2>1, <3>5 DEF Process, Manager
      <3>6. CASE (At(p, "enter") \/ At(p, "clear")) /\ l = node[p]
        <4>1. CASE p \in Actor
          BY <2>1, <3>6, <4>1 DEF TypeOK, Manager
        <4>2. CASE p \in Conn
          <5>1. NoRequest(script[p]) /\ script[p] \in Seq(Ops)
            BY <1>1, <4>2 DEF ScriptInv, Good
          <5>2. 1 \in 1..Len(script[p]) /\ script[p][1] = Now(p)
            BY <3>1, <5>1 DEF Now
          <5>. QED  BY <3>6, <5>1, <5>2 DEF NoRequest, At, Now
        <4>3. CASE p = Routine
          <5>1. OnlyLocks(script[p]) /\ script[p] \in Seq(Ops)
            BY <1>1, <4>3 DEF ScriptInv, Good
          <5>2. 1 \in 1..Len(script[p]) /\ script[p][1] = Now(p)
            BY <3>1, <5>1 DEF Now
          <5>. QED  BY <3>6, <5>1, <5>2 DEF OnlyLocks, Keeps, At, Now
        <4>. QED  BY <4>1, <4>2, <4>3 DEF Process
      <3>. QED  BY <3>2, <3>3, <3>4, <3>5, <3>6 DEF Asked
    <2>. QED  BY <2>2, <2>3
  <1>4. CASE At(p, "notify") /\ q = Routine /\ script[q] # << >>
    <2>1. Rank(p) = 0
      BY <1>4 DEF At, Rank, AskRank, Now
    <2>2. OnlyLocks(script[q]) /\ script[q] \in Seq(Ops)
      BY <1>1, <1>4 DEF ScriptInv, Good
    <2>3. 1 \in 1..Len(script[q]) /\ script[q][1] = Now(q)
      BY <1>4, <2>2 DEF Now
    <2>4. Now(q).do \in {"take", "use", "tell"}
      BY <2>2, <2>3 DEF OnlyLocks, Keeps
    <2>5. Rank(q) > 0
      BY <1>4, <2>4 DEF Rank, AskRank, LockRank
    <2>. QED  BY <2>1, <2>5
  <1>5. ~At(p, "push")
    BY <1>2 DEF At, Now, Ops
  <1>. QED  BY <1>3, <1>4, <1>5 DEF WaitsFor

LEMMA RankBound == \A p : Rank(p) \in 0..5
  BY DEF Rank, AskRank, LockRank

LEMMA HasHighest ==
    ASSUME NEW S, S # {}
    PROVE  \E p \in S : \A q \in S : ~(Rank(q) > Rank(p))
  <1>1. \A p : Rank(p) \in {0, 1, 2, 3, 4, 5}
    <2>1. 0..5 = {0, 1, 2, 3, 4, 5}
      OBVIOUS
    <2>. QED  BY <2>1, RankBound
  <1>2. CASE \E p \in S : Rank(p) = 5
    BY <1>1, <1>2
  <1>3. CASE (\E p \in S : Rank(p) = 4) /\ ~\E p \in S : Rank(p) = 5
    BY <1>1, <1>3
  <1>4. CASE (\E p \in S : Rank(p) = 3) /\ ~\E p \in S : Rank(p) \in {4, 5}
    BY <1>1, <1>4
  <1>5. CASE (\E p \in S : Rank(p) = 2) /\ ~\E p \in S : Rank(p) \in {3, 4, 5}
    BY <1>1, <1>5
  <1>6. CASE (\E p \in S : Rank(p) = 1) /\ ~\E p \in S : Rank(p) \in {2, 3, 4, 5}
    BY <1>1, <1>6
  <1>7. CASE ~\E p \in S : Rank(p) \in {1, 2, 3, 4, 5}
    BY <1>1, <1>7
  <1>. QED  BY <1>1, <1>2, <1>3, <1>4, <1>5, <1>6, <1>7

(* No connection, handler, timer or routine waits in a circle for others,  *)
(* over the locks of the managers, a req_lock and StateChan, however many  *)
(* of them there are, as long as a node answers a request once.            *)
THEOREM NobodyWaits == ASSUME MaxCopies <= 1 PROVE Spec => []NobodyWaitsInACircle
  <1>1. TypeOK /\ Inv => NobodyWaitsInACircle
    <2>1. SUFFICES ASSUME TypeOK, Inv, NEW S \in SUBSET Process, S # {}, ~Wedged
                   PROVE  \E p \in S : \A q \in S : ~WaitsFor(p, q)
      BY DEF NobodyWaitsInACircle
    <2>2. WaitInv
      BY <2>1 DEF Inv
    <2>3. PICK p \in S : \A q \in S : ~(Rank(q) > Rank(p))
      BY <2>1, HasHighest
    <2>4. \A q \in S : p \in Process /\ q \in Process
      BY <2>1
    <2>5. \A q \in S : ~WaitsFor(p, q)
      BY <2>1, <2>2, <2>3, <2>4, RanksGrow
    <2>. QED  BY <2>5
  <1>. QED  BY <1>1, WaitInvariant, PTL
=============================================================================

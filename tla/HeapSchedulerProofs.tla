-------------------------- MODULE HeapSchedulerProofs --------------------------
(***************************************************************************)
(* Theorems about HeapScheduler, for every number of events and every      *)
(* delay: the array holds exactly the events that it should, and as long   *)
(* as no Remove has put an item below a parent that it precedes it is in   *)
(* heap order, so that RemoveNext hands back the earliest event.           *)
(***************************************************************************)
EXTENDS HeapScheduler, FiniteSetTheorems, WellFoundedInduction, TLAPS

-----------------------------------------------------------------------------
(* Induction and loops.                                                    *)

\* A set of natural numbers that is not empty has a least element.
LEMMA NatMin ==
  ASSUME NEW T \in SUBSET Nat, T # {}
  PROVE  \E t \in T : \A u \in T : t <= u
<1> DEFINE R == OpToRel(<, Nat)
<1>1. IsWellFoundedOn(R, Nat)
  BY NatLessThanWellFounded
<1>2. \A x, y \in Nat : x < y => <<x, y>> \in R
  BY DEF OpToRel
<1> HIDE DEF R
<1>3. PICK t \in T : \A u \in T : ~(<<u, t>> \in R)
  BY <1>1, WFMin
<1>4. \A u \in T : ~(u < t)
  BY <1>2, <1>3
<1>5. \A u \in T : t <= u
  BY <1>4
<1> QED BY <1>5

\* The states of a loop whose body is the function D on S, run N times from s.
Runs(S, D, s, N) ==
  { f \in [0..N -> S] : \A n \in 0..N : f[n] = IF n = 0 THEN s ELSE D[f[n - 1]] }

\* There are such states, for every N.
LEMMA RunExists ==
  ASSUME NEW S, NEW D, D \in [S -> S], NEW s, s \in S, NEW N, N \in Nat
  PROVE  Runs(S, D, s, N) # {}
<1> DEFINE Bad == { m \in Nat : Runs(S, D, s, m) = {} }
<1>1. [n \in 0..0 |-> s] \in Runs(S, D, s, 0)
  BY DEF Runs
<1>2. ASSUME NEW m \in Nat, NEW f \in Runs(S, D, s, m) PROVE Runs(S, D, s, m + 1) # {}
  <2> DEFINE g == [n \in 0..m + 1 |-> IF n = m + 1 THEN D[f[m]] ELSE f[n]]
  <2>1. f \in [0..m -> S] /\ \A n \in 0..m : f[n] = IF n = 0 THEN s ELSE D[f[n - 1]]
    BY DEF Runs
  <2>2. g \in [0..m + 1 -> S]
    BY <2>1
  <2>3. ASSUME NEW n \in 0..m + 1 PROVE g[n] = IF n = 0 THEN s ELSE D[g[n - 1]]
    <3>1. CASE n = m + 1
      <4>1. n # 0 /\ n - 1 = m /\ m \in 0..m + 1 /\ m # m + 1
        BY <3>1
      <4>2. g[n] = D[f[m]] /\ g[m] = f[m]
        BY <3>1, <4>1
      <4> QED BY <4>1, <4>2
    <3>2. CASE n # m + 1
      <4>1. n \in 0..m /\ (n # 0 => n - 1 \in 0..m /\ n - 1 # m + 1)
        BY <3>2
      <4>2. g[n] = f[n] /\ (n # 0 => g[n - 1] = f[n - 1])
        BY <4>1
      <4> QED BY <2>1, <4>1, <4>2
    <3> QED BY <3>1, <3>2
  <2> HIDE DEF g
  <2>4. g \in Runs(S, D, s, m + 1)
    BY <2>2, <2>3 DEF Runs
  <2> QED BY <2>4
<1>3. Bad = {}
  <2> SUFFICES ASSUME Bad # {} PROVE FALSE
    OBVIOUS
  <2>1. PICK m \in Bad : \A u \in Bad : m <= u
    BY NatMin
  <2>2. m # 0 /\ m \in Nat
    BY <1>1, <2>1
  <2>3. m - 1 \in Nat /\ m - 1 \notin Bad /\ (m - 1) + 1 = m
    BY <2>1, <2>2
  <2>4. PICK f : f \in Runs(S, D, s, m - 1)
    BY <2>3
  <2>5. Runs(S, D, s, (m - 1) + 1) # {}
    BY <1>2, <2>3, <2>4
  <2> QED BY <2>1, <2>3, <2>5
<1> QED BY <1>3

\* What holds at 0 and passes from each number to the next holds at N.
LEMMA Climb ==
  ASSUME NEW N \in Nat, NEW T, 0 \in T, \A n \in 0..N - 1 : n \in T => n + 1 \in T
  PROVE  N \in T
<1> DEFINE Bad == { n \in 0..N : n \notin T }
<1>1. Bad \in SUBSET Nat
  OBVIOUS
<1>2. Bad = {}
  <2> SUFFICES ASSUME Bad # {} PROVE FALSE
    OBVIOUS
  <2>1. PICK m \in Bad : \A u \in Bad : m <= u
    BY <1>1, NatMin
  <2>2. m \in 0..N /\ m # 0
    BY <2>1
  <2>3. m - 1 \in 0..N - 1 /\ m - 1 \in 0..N /\ m - 1 \notin Bad /\ (m - 1) + 1 = m
    BY <2>1, <2>2
  <2>4. m - 1 \in T
    BY <2>3
  <2> QED BY <2>1, <2>3, <2>4
<1> QED BY <1>2

-----------------------------------------------------------------------------
(* The order on events.                                                    *)

Ev == [ts : Nat, uid : 1..MaxEvents]

\* Less orders events, those of one uid aside.
LEMMA LessOrders ==
  ASSUME NEW a \in Ev, NEW b \in Ev, NEW c \in Ev
  PROVE  /\ Less(a, b) => ~Less(b, a)
         /\ ~Less(a, b) /\ ~Less(b, c) => ~Less(a, c)
         /\ a.uid # b.uid /\ ~Less(a, b) => Less(b, a)
<1>1. /\ a.ts \in Nat /\ b.ts \in Nat /\ c.ts \in Nat
      /\ a.uid \in Int /\ b.uid \in Int /\ c.uid \in Int
  BY HeapAssumption DEF Ev
<1> QED BY <1>1 DEF Less

\* Parents and children.
LEMMA Halves ==
  ASSUME NEW k \in Nat, k > 0
  PROVE  /\ k > 1 => k \div 2 \in Nat /\ k \div 2 > 0 /\ k \div 2 < k
         /\ \A j \in Nat : k \div 2 = j <=> k = 2 * j \/ k = 2 * j + 1
OBVIOUS

-----------------------------------------------------------------------------
(* Swaps.                                                                  *)

ItemsOf(h) == { h[k] : k \in 1..Len(h) }
NoRepeat(h) == \A j, k \in 1..Len(h) : h[j] = h[k] => j = k

\* g holds the items of h, each once.
SameItems(g, h) == Len(g) = Len(h) /\ ItemsOf(g) = ItemsOf(h) /\ NoRepeat(g)

\* Exch exchanges two items.
LEMMA ExchIs ==
  ASSUME NEW h \in Seq(Ev), NEW a \in 1..Len(h), NEW b \in 1..Len(h), a # b
  PROVE  /\ Exch(h, a, b) \in Seq(Ev) /\ Len(Exch(h, a, b)) = Len(h)
         /\ Exch(h, a, b)[a] = h[b] /\ Exch(h, a, b)[b] = h[a]
         /\ \A k \in 1..Len(h) : k # a /\ k # b => Exch(h, a, b)[k] = h[k]
<1>1. h[a] \in Ev /\ h[b] \in Ev
  OBVIOUS
<1> QED BY <1>1 DEF Exch

\* It keeps the items.
LEMMA ExchKeeps ==
  ASSUME NEW h \in Seq(Ev), NEW a \in 1..Len(h), NEW b \in 1..Len(h), a # b, NoRepeat(h)
  PROVE  SameItems(Exch(h, a, b), h)
<1>1. PICK g : g = Exch(h, a, b)
  OBVIOUS
<1>2. /\ Len(g) = Len(h) /\ g[a] = h[b] /\ g[b] = h[a]
      /\ \A k \in 1..Len(h) : k # a /\ k # b => g[k] = h[k]
  BY <1>1, ExchIs
<1>3. ItemsOf(g) = ItemsOf(h)
  <2>1. ASSUME NEW k \in 1..Len(h) PROVE g[k] \in ItemsOf(h) /\ h[k] \in ItemsOf(g)
    <3>1. \E j \in 1..Len(h) : g[k] = h[j]
      BY <1>2
    <3>2. \E j \in 1..Len(g) : h[k] = g[j]
      BY <1>2
    <3> QED BY <3>1, <3>2 DEF ItemsOf
  <2> QED BY <1>2, <2>1 DEF ItemsOf
<1>4. NoRepeat(g)
  BY <1>2 DEF NoRepeat
<1> QED BY <1>1, <1>2, <1>3, <1>4 DEF SameItems

-----------------------------------------------------------------------------
(* Moving up.                                                              *)

\* No item precedes its parent.
Ordered(h) == \A k \in 2..Len(h) : ~Less(h[k], h[k \div 2])

\* None but that at s.at, whose children do not precede its parent.
UpOrder(s) ==
  /\ \A k \in 2..Len(s.heap) : k # s.at => ~Less(s.heap[k], s.heap[k \div 2])
  /\ \A k \in 2..Len(s.heap) :
       k \div 2 = s.at /\ s.at > 1 => ~Less(s.heap[k], s.heap[s.at \div 2])

\* The states that BottomUp may pass through from state o.
Ups(o) == { s \in [heap : Seq(Ev), at : Nat] :
              /\ s.at \in 1..Len(s.heap)
              /\ SameItems(s.heap, o.heap)
              /\ UpOrder(o) => UpOrder(s) }

\* An iteration of BottomUp keeps the order but for the item that moves.
LEMMA UpKeepsOrder ==
  ASSUME NEW h \in Seq(Ev), NEW i \in 2..Len(h), UpOrder([heap |-> h, at |-> i]),
         Less(h[i], h[i \div 2])
  PROVE  UpOrder([heap |-> Exch(h, i, i \div 2), at |-> i \div 2])
<1> DEFINE p == i \div 2
<1>1. p \in Nat /\ p > 0 /\ p < i /\ p # i /\ p \in 1..Len(h) /\ i \in 1..Len(h)
  BY Halves
<1>2. PICK g : g = Exch(h, i, p)
  OBVIOUS
<1>3. /\ Len(g) = Len(h) /\ g[i] = h[p] /\ g[p] = h[i]
      /\ \A k \in 1..Len(h) : k # i /\ k # p => g[k] = h[k]
  BY <1>1, <1>2, ExchIs
<1>4. /\ \A k \in 2..Len(h) : k # i => ~Less(h[k], h[k \div 2])
      /\ \A k \in 2..Len(h) : k \div 2 = i => ~Less(h[k], h[p])
  BY DEF UpOrder
<1>5. \A k \in 1..Len(h) : h[k] \in Ev
  OBVIOUS
<1>6. ASSUME NEW k \in 2..Len(h)
      PROVE  k \in 1..Len(h) /\ k \div 2 \in 1..Len(h) /\ k \div 2 < k
  BY Halves
<1> HIDE DEF p
<1>7. ASSUME NEW k \in 2..Len(h), k # p PROVE ~Less(g[k], g[k \div 2])
  <2>1. CASE k = i
    <3>1. g[k] = h[p] /\ g[k \div 2] = h[i]
      BY <1>3, <2>1 DEF p
    <3> QED BY <1>1, <1>5, <3>1, LessOrders DEF p
  <2>2. CASE k # i /\ k \div 2 = p
    <3>1. g[k] = h[k] /\ g[k \div 2] = h[i] /\ ~Less(h[k], h[p])
      BY <1>3, <1>4, <1>6, <1>7, <2>2
    <3>2. ~Less(h[p], h[i]) /\ h[k] \in Ev /\ h[p] \in Ev /\ h[i] \in Ev
      BY <1>1, <1>5, <1>6, LessOrders DEF p
    <3> QED BY <3>1, <3>2, LessOrders
  <2>3. CASE k # i /\ k \div 2 = i
    <3>1. g[k] = h[k] /\ g[k \div 2] = h[p]
      BY <1>3, <1>6, <1>7, <2>3
    <3> QED BY <1>4, <2>3, <3>1
  <2>4. CASE k # i /\ k \div 2 # i /\ k \div 2 # p
    <3>1. g[k] = h[k] /\ g[k \div 2] = h[k \div 2]
      BY <1>3, <1>6, <1>7, <2>4
    <3> QED BY <1>4, <2>4, <3>1
  <2> QED BY <2>1, <2>2, <2>3, <2>4
<1>8. ASSUME NEW k \in 2..Len(h), k \div 2 = p, p > 1 PROVE ~Less(g[k], g[p \div 2])
  <2>1. p \in 2..Len(h) /\ p \div 2 \in 1..Len(h) /\ p \div 2 # p /\ p \div 2 # i
    BY <1>1, <1>6, <1>8
  <2>2. g[p \div 2] = h[p \div 2] /\ ~Less(h[p], h[p \div 2])
    BY <1>1, <1>3, <1>4, <2>1
  <2>3. CASE k = i
    BY <1>3, <2>2, <2>3
  <2>4. CASE k # i
    <3>1. k # p /\ k \in 1..Len(h)
      BY <1>6, <1>8
    <3>2. g[k] = h[k]
      BY <1>3, <2>4, <3>1
    <3>3. ~Less(h[k], h[p])
      BY <1>4, <1>8, <2>4
    <3>4. h[k] \in Ev /\ h[p] \in Ev /\ h[p \div 2] \in Ev
      BY <1>1, <1>5, <2>1, <3>1
    <3> QED BY <2>2, <3>2, <3>3, <3>4, LessOrders
  <2> QED BY <2>3, <2>4
<1> QED BY <1>2, <1>3, <1>7, <1>8 DEF UpOrder, p

\* An iteration of BottomUp stays among the states it may pass through.
LEMMA UpStepIs ==
  ASSUME NEW o, NoRepeat(o.heap), NEW s \in Ups(o)
  PROVE  /\ UpStep(s) \in Ups(o)
         /\ UpStep(s) # s => UpStep(s).at < s.at
         /\ UpStep(s) = s /\ UpOrder(o) => Ordered(s.heap)
<1> DEFINE h == s.heap
           i == s.at
           p == i \div 2
<1>1. /\ h \in Seq(Ev) /\ i \in 1..Len(h) /\ SameItems(h, o.heap) /\ s = [heap |-> h, at |-> i]
      /\ UpOrder(o) => UpOrder(s)
  BY DEF Ups
<1>2. CASE i = 1 \/ ~Less(h[i], h[p])
  <2>1. UpStep(s) = s
    BY <1>2 DEF UpStep
  <2>2. ASSUME UpOrder(s), NEW k \in 2..Len(h) PROVE ~Less(h[k], h[k \div 2])
    BY <1>1, <1>2, <2>2 DEF UpOrder
  <2> QED BY <1>1, <2>1, <2>2 DEF Ordered
<1>3. CASE i # 1 /\ Less(h[i], h[p])
  <2>1. UpStep(s) = [heap |-> Exch(h, i, p), at |-> p]
    BY <1>3 DEF UpStep
  <2>2. p \in Nat /\ p \in 1..Len(h) /\ p < i /\ p # i /\ i \in 2..Len(h)
    BY <1>1, <1>3, Halves
  <2>3. NoRepeat(h)
    BY <1>1 DEF SameItems
  <2>4. Exch(h, i, p) \in Seq(Ev) /\ Len(Exch(h, i, p)) = Len(h) /\ SameItems(Exch(h, i, p), h)
    BY <1>1, <2>2, <2>3, ExchIs, ExchKeeps
  <2>5. SameItems(Exch(h, i, p), o.heap)
    BY <1>1, <2>4 DEF SameItems
  <2>6. UpOrder(s) => UpOrder([heap |-> Exch(h, i, p), at |-> p])
    BY <1>1, <1>3, <2>2, UpKeepsOrder
  <2>7. UpStep(s) \in Ups(o)
    BY <1>1, <2>1, <2>2, <2>4, <2>5, <2>6 DEF Ups
  <2>8. UpStep(s).at = p
    BY <2>1
  <2> QED BY <1>1, <2>2, <2>7, <2>8
<1> QED BY <1>2, <1>3

\* BottomUp keeps the items and restores the order.
LEMMA BottomUpIs ==
  ASSUME NEW h \in Seq(Ev), NEW i \in 1..Len(h), NoRepeat(h)
  PROVE  /\ BottomUp(h, i) \in Seq(Ev) /\ SameItems(BottomUp(h, i), h)
         /\ UpOrder([heap |-> h, at |-> i]) => Ordered(BottomUp(h, i))
<1> DEFINE o == [heap |-> h, at |-> i]
           N == Len(h)
           up[n \in 0..N] == IF n = 0 THEN o ELSE UpStep(up[n - 1])
<1>1. o \in Ups(o) /\ NoRepeat(o.heap) /\ N \in Nat /\ i <= N
  BY DEF Ups, SameItems
<1>2. BottomUp(h, i) = up[N].heap
  BY DEF BottomUp
<1> HIDE DEF o
<1>3. up = [n \in 0..N |-> IF n = 0 THEN o ELSE UpStep(up[n - 1])]
  <2>1. PICK S, D : S = Ups(o) /\ D = [s \in S |-> UpStep(s)]
    OBVIOUS
  <2>2. D \in [S -> S] /\ o \in S
    BY <1>1, <2>1, UpStepIs
  <2>3. PICK f : f \in Runs(S, D, o, N)
    BY <1>1, <2>2, RunExists
  <2>4. \A n \in 0..N : n # 0 => n - 1 \in 0..N
    BY <1>1
  <2>5. \A n \in 0..N : f[n] = IF n = 0 THEN o ELSE UpStep(f[n - 1])
    BY <2>1, <2>3, <2>4 DEF Runs
  <2>6. f = [n \in 0..N |-> IF n = 0 THEN o ELSE UpStep(f[n - 1])]
    BY <2>3, <2>5 DEF Runs
  <2> QED BY <2>6
<1> HIDE DEF up
<1>4. up[0] = o /\ \A n \in 0..N - 1 : up[n + 1] = UpStep(up[n])
  <2>1. 0 \in 0..N /\ \A n \in 0..N - 1 : n + 1 \in 0..N /\ n + 1 # 0 /\ (n + 1) - 1 = n
    BY <1>1
  <2> QED BY <1>3, <2>1
<1> DEFINE T == { n \in 0..N : /\ up[n] \in Ups(o)
                               /\ UpStep(up[n]) = up[n] \/ up[n].at + n <= i }
<1>5. 0 \in T
  <2>1. o.at = i
    BY DEF o
  <2> QED BY <1>1, <1>4, <2>1
<1>6. ASSUME NEW n \in 0..N - 1, n \in T PROVE n + 1 \in T
  <2>1. up[n + 1] = UpStep(up[n]) /\ n + 1 \in 0..N
    BY <1>1, <1>4
  <2>2. up[n] \in Ups(o) /\ up[n + 1] \in Ups(o) /\ (UpStep(up[n]) # up[n] => up[n + 1].at < up[n].at)
    BY <1>1, <1>6, <2>1, UpStepIs
  <2>3. up[n].at \in Nat /\ up[n + 1].at \in Nat
    BY <2>2 DEF Ups
  <2>4. CASE UpStep(up[n]) = up[n]
    BY <2>1, <2>2, <2>4
  <2>5. CASE UpStep(up[n]) # up[n]
    BY <1>6, <2>1, <2>2, <2>3, <2>5
  <2> QED BY <2>4, <2>5
<1>7. N \in T
  <2> HIDE DEF T
  <2> QED BY <1>1, <1>5, <1>6, Climb
<1>8. up[N] \in Ups(o) /\ UpStep(up[N]) = up[N]
  <2>1. up[N] \in Ups(o)
    BY <1>7
  <2>2. up[N].at \in Nat /\ up[N].at > 0
    BY <2>1 DEF Ups
  <2> QED BY <1>1, <1>7, <2>1, <2>2
<1>9. UpOrder(o) => Ordered(up[N].heap)
  BY <1>1, <1>8, UpStepIs
<1>10. up[N].heap \in Seq(Ev) /\ SameItems(up[N].heap, h)
  BY <1>8 DEF Ups, o
<1> QED BY <1>2, <1>9, <1>10 DEF o

-----------------------------------------------------------------------------
(* Moving down.                                                            *)

\* No item precedes its parent but the children of that at s.at, and those do
\* not precede its parent.
DownOrder(s) ==
  /\ \A k \in 2..Len(s.heap) : k \div 2 # s.at => ~Less(s.heap[k], s.heap[k \div 2])
  /\ \A k \in 2..Len(s.heap) :
       k \div 2 = s.at /\ s.at > 1 => ~Less(s.heap[k], s.heap[s.at \div 2])

\* The states that TopDown may pass through from state o.
Downs(o) == { s \in [heap : Seq(Ev), at : Nat] :
                /\ s.at \in 1..Len(s.heap) + 1
                /\ SameItems(s.heap, o.heap)
                /\ DownOrder(o) => DownOrder(s) }

\* The child that TopDown compares with.
Child(h, i) == IF 2 * i + 1 > Len(h) THEN 2 * i ELSE Smallest(h, 2 * i, 2 * i + 1)

\* The other child does not precede it.
LEMMA ChildIs ==
  ASSUME NEW h \in Seq(Ev), NEW i \in Nat, i > 0, 2 * i <= Len(h)
  PROVE  /\ Child(h, i) \in 2..Len(h) /\ Child(h, i) \div 2 = i /\ Child(h, i) > i
         /\ \A k \in 2..Len(h) : k \div 2 = i => ~Less(h[k], h[Child(h, i)])
<1> DEFINE c == Child(h, i)
<1>1. c \in {2 * i, 2 * i + 1} /\ c <= Len(h)
  BY DEF Child, Smallest
<1>2. c \in 2..Len(h) /\ c \div 2 = i /\ c > i
  <2>1. c \in Nat /\ c \in 2..Len(h) /\ c > i
    BY <1>1
  <2> HIDE DEF c
  <2> QED BY <1>1, <2>1, Halves
<1>3. ASSUME NEW k \in 2..Len(h), k \div 2 = i PROVE ~Less(h[k], h[c])
  <2>1. k = 2 * i \/ k = 2 * i + 1
    BY <1>3, Halves
  <2>2. h[k] \in Ev /\ h[2 * i] \in Ev
    OBVIOUS
  <2>3. CASE 2 * i + 1 > Len(h)
    <3>1. c = k
      BY <1>3, <2>1, <2>3 DEF Child
    <3> QED BY <2>2, <3>1, LessOrders
  <2>4. CASE 2 * i + 1 <= Len(h)
    <3>1. h[2 * i + 1] \in Ev
      BY <2>4
    <3>2. c = IF Less(h[2 * i], h[2 * i + 1]) THEN 2 * i ELSE 2 * i + 1
      BY <2>4 DEF Child, Smallest
    <3> HIDE DEF c
    <3> QED BY <2>1, <2>2, <3>1, <3>2, LessOrders
  <2> QED BY <2>3, <2>4
<1> QED BY <1>2, <1>3

\* An iteration of TopDown keeps the order but for the item that moves.
LEMMA DownKeepsOrder ==
  ASSUME NEW h \in Seq(Ev), NEW i \in Nat, i > 0, 2 * i <= Len(h),
         DownOrder([heap |-> h, at |-> i]), ~Less(h[i], h[Child(h, i)])
  PROVE  DownOrder([heap |-> Exch(h, i, Child(h, i)), at |-> Child(h, i)])
<1>1. PICK c : c = Child(h, i)
  OBVIOUS
<1>2. /\ c \in 2..Len(h) /\ c \div 2 = i /\ c > i /\ c # i /\ i \in 1..Len(h) /\ c \in 1..Len(h)
      /\ \A k \in 2..Len(h) : k \div 2 = i => ~Less(h[k], h[c])
  BY <1>1, ChildIs
<1>3. PICK g : g = Exch(h, i, c)
  OBVIOUS
<1>4. /\ Len(g) = Len(h) /\ g[i] = h[c] /\ g[c] = h[i]
      /\ \A k \in 1..Len(h) : k # i /\ k # c => g[k] = h[k]
  BY <1>2, <1>3, ExchIs
<1>5. /\ \A k \in 2..Len(h) : k \div 2 # i => ~Less(h[k], h[k \div 2])
      /\ i > 1 => \A k \in 2..Len(h) : k \div 2 = i => ~Less(h[k], h[i \div 2])
  BY DEF DownOrder
<1>6. ASSUME NEW k \in 2..Len(h)
      PROVE  k \in 1..Len(h) /\ k \div 2 \in 1..Len(h) /\ k \div 2 < k /\ k \div 2 # k
  BY Halves
<1>7. ASSUME NEW k \in 2..Len(h), k \div 2 # c PROVE ~Less(g[k], g[k \div 2])
  <2>1. CASE k = i
    <3>1. g[k] = h[c] /\ k \div 2 # i /\ k \div 2 # c
      BY <1>4, <1>6, <1>7, <2>1
    <3>2. g[k \div 2] = h[i \div 2] /\ i > 1
      BY <1>4, <1>6, <2>1, <3>1
    <3> QED BY <1>2, <1>5, <3>1, <3>2
  <2>2. CASE k = c
    BY <1>1, <1>2, <1>4, <2>2
  <2>3. CASE k # c /\ k \div 2 = i
    <3>1. k # i
      BY <1>6, <2>3
    <3> QED BY <1>2, <1>4, <1>6, <2>3, <3>1
  <2>4. CASE k # i /\ k # c /\ k \div 2 # i
    <3>1. g[k] = h[k] /\ g[k \div 2] = h[k \div 2]
      BY <1>4, <1>6, <1>7, <2>4
    <3> QED BY <1>5, <2>4, <3>1
  <2> QED BY <2>1, <2>2, <2>3, <2>4
<1>8. ASSUME NEW k \in 2..Len(h), k \div 2 = c PROVE ~Less(g[k], g[c \div 2])
  <2>1. k # c /\ k # i /\ k \div 2 # i /\ k \in 1..Len(h)
    BY <1>2, <1>6, <1>8
  <2>2. g[k] = h[k] /\ g[c \div 2] = h[c]
    BY <1>2, <1>4, <2>1
  <2>3. ~Less(h[k], h[k \div 2])
    BY <1>5, <2>1
  <2> QED BY <1>8, <2>2, <2>3
<1> QED BY <1>1, <1>3, <1>4, <1>7, <1>8 DEF DownOrder

\* An iteration of TopDown stays among the states it may pass through.
LEMMA DownStepIs ==
  ASSUME NEW o, NoRepeat(o.heap), NEW s \in Downs(o)
  PROVE  /\ DownStep(s) \in Downs(o)
         /\ DownStep(s) # s => DownStep(s).at > s.at /\ 2 * s.at <= Len(s.heap)
         /\ DownStep(s) = s /\ DownOrder(o) => Ordered(s.heap)
<1>1. PICK h, i, c : h = s.heap /\ i = s.at /\ c = Child(h, i)
  OBVIOUS
<1>2. /\ h \in Seq(Ev) /\ i \in 1..Len(h) + 1 /\ i \in Nat /\ i > 0
      /\ SameItems(h, o.heap) /\ s = [heap |-> h, at |-> i]
      /\ DownOrder(o) => DownOrder(s)
  BY <1>1 DEF Downs
<1>3. DownStep(s) = IF 2 * i > Len(h) \/ Less(h[i], h[c]) THEN s
                    ELSE [heap |-> Exch(h, i, c), at |-> c]
  BY <1>1 DEF DownStep, Child
<1>4. CASE 2 * i > Len(h) \/ Less(h[i], h[c])
  <2>1. DownStep(s) = s
    BY <1>3, <1>4
  <2>2. ASSUME DownOrder(s), NEW k \in 2..Len(h) PROVE ~Less(h[k], h[k \div 2])
    <3>1. CASE k \div 2 # i
      BY <1>2, <2>2, <3>1 DEF DownOrder
    <3>2. CASE k \div 2 = i
      <4>1. 2 * i <= Len(h) /\ i \in 1..Len(h)
        BY <1>2, <3>2, Halves
      <4>2. /\ c \in 2..Len(h) /\ ~Less(h[k], h[c]) /\ Less(h[i], h[c])
            /\ h[k] \in Ev /\ h[c] \in Ev /\ h[i] \in Ev
        BY <1>1, <1>2, <1>4, <3>2, <4>1, ChildIs
      <4>3. ~Less(h[c], h[i])
        BY <4>2, LessOrders
      <4> QED BY <3>2, <4>2, <4>3, LessOrders
    <3> QED BY <3>1, <3>2
  <2> QED BY <1>1, <1>2, <2>1, <2>2 DEF Ordered
<1>5. CASE ~(2 * i > Len(h) \/ Less(h[i], h[c]))
  <2>1. DownStep(s) = [heap |-> Exch(h, i, c), at |-> c]
    BY <1>3, <1>5
  <2>2. 2 * i <= Len(h) /\ Len(h) \in Nat
    BY <1>2, <1>5
  <2>3. /\ c \in 2..Len(h) /\ c > i /\ c # i
        /\ i \in 1..Len(h) /\ c \in 1..Len(h) /\ c \in Nat /\ c \in 1..Len(h) + 1
    BY <1>1, <1>2, <2>2, ChildIs
  <2>4. NoRepeat(h)
    BY <1>2 DEF SameItems
  <2>5. Exch(h, i, c) \in Seq(Ev) /\ Len(Exch(h, i, c)) = Len(h) /\ SameItems(Exch(h, i, c), h)
    BY <1>2, <2>3, <2>4, ExchIs, ExchKeeps
  <2>6. SameItems(Exch(h, i, c), o.heap)
    BY <1>2, <2>5 DEF SameItems
  <2>7. DownOrder(s) => DownOrder([heap |-> Exch(h, i, c), at |-> c])
    BY <1>1, <1>2, <1>5, <2>2, DownKeepsOrder
  <2>8. DownStep(s) \in Downs(o)
    BY <1>2, <2>1, <2>3, <2>5, <2>6, <2>7 DEF Downs
  <2>9. DownStep(s).at = c
    BY <2>1
  <2> QED BY <1>1, <1>2, <2>2, <2>3, <2>8, <2>9
<1> QED BY <1>4, <1>5

\* TopDown keeps the items and restores the order.
LEMMA TopDownIs ==
  ASSUME NEW h \in Seq(Ev), NEW i \in 1..Len(h) + 1, NoRepeat(h)
  PROVE  /\ TopDown(h, i) \in Seq(Ev) /\ SameItems(TopDown(h, i), h)
         /\ DownOrder([heap |-> h, at |-> i]) => Ordered(TopDown(h, i))
<1> DEFINE o == [heap |-> h, at |-> i]
           N == Len(h)
           down[n \in 0..N] == IF n = 0 THEN o ELSE DownStep(down[n - 1])
<1>1. o \in Downs(o) /\ NoRepeat(o.heap) /\ N \in Nat /\ i > 0 /\ i \in Nat
  BY DEF Downs, SameItems
<1>2. TopDown(h, i) = down[N].heap
  BY DEF TopDown
<1> HIDE DEF o
<1>3. down = [n \in 0..N |-> IF n = 0 THEN o ELSE DownStep(down[n - 1])]
  <2>1. PICK S, D : S = Downs(o) /\ D = [s \in S |-> DownStep(s)]
    OBVIOUS
  <2>2. D \in [S -> S] /\ o \in S
    BY <1>1, <2>1, DownStepIs
  <2>3. PICK f : f \in Runs(S, D, o, N)
    BY <1>1, <2>2, RunExists
  <2>4. \A n \in 0..N : n # 0 => n - 1 \in 0..N
    BY <1>1
  <2>5. \A n \in 0..N : f[n] = IF n = 0 THEN o ELSE DownStep(f[n - 1])
    BY <2>1, <2>3, <2>4 DEF Runs
  <2>6. f = [n \in 0..N |-> IF n = 0 THEN o ELSE DownStep(f[n - 1])]
    BY <2>3, <2>5 DEF Runs
  <2> QED BY <2>6
<1> HIDE DEF down
<1>4. down[0] = o /\ \A n \in 0..N - 1 : down[n + 1] = DownStep(down[n])
  <2>1. 0 \in 0..N /\ \A n \in 0..N - 1 : n + 1 \in 0..N /\ n + 1 # 0 /\ (n + 1) - 1 = n
    BY <1>1
  <2> QED BY <1>3, <2>1
<1> DEFINE T == { n \in 0..N : /\ down[n] \in Downs(o)
                               /\ DownStep(down[n]) = down[n] \/ down[n].at >= i + n }
<1>5. 0 \in T
  <2>1. o.at = i
    BY DEF o
  <2> QED BY <1>1, <1>4, <2>1
<1>6. ASSUME NEW n \in 0..N - 1, n \in T PROVE n + 1 \in T
  <2>1. down[n + 1] = DownStep(down[n]) /\ n + 1 \in 0..N
    BY <1>1, <1>4
  <2>2. /\ down[n] \in Downs(o) /\ down[n + 1] \in Downs(o)
        /\ DownStep(down[n]) # down[n] => down[n + 1].at > down[n].at
    BY <1>1, <1>6, <2>1, DownStepIs
  <2>3. down[n].at \in Nat /\ down[n + 1].at \in Nat
    BY <2>2 DEF Downs
  <2>4. CASE DownStep(down[n]) = down[n]
    BY <2>1, <2>2, <2>4
  <2>5. CASE DownStep(down[n]) # down[n]
    BY <1>1, <1>6, <2>1, <2>2, <2>3, <2>5
  <2> QED BY <2>4, <2>5
<1>7. N \in T
  <2> HIDE DEF T
  <2> QED BY <1>1, <1>5, <1>6, Climb
<1>8. down[N] \in Downs(o) /\ DownStep(down[N]) = down[N]
  <2>1. down[N] \in Downs(o)
    BY <1>7
  <2>2. down[N].at \in Nat /\ down[N].at > 0 /\ Len(down[N].heap) = N
    BY <2>1 DEF Downs, SameItems, o
  <2>3. DownStep(down[N]) # down[N] => 2 * down[N].at <= N
    BY <1>1, <2>1, <2>2, DownStepIs
  <2> QED BY <1>1, <1>7, <2>1, <2>2, <2>3
<1>9. DownOrder(o) => Ordered(down[N].heap)
  BY <1>1, <1>8, DownStepIs
<1>10. down[N].heap \in Seq(Ev) /\ SameItems(down[N].heap, h)
  BY <1>8 DEF Downs, o
<1> QED BY <1>2, <1>9, <1>10 DEF o

-----------------------------------------------------------------------------
(* Taking an item out.                                                     *)

\* The last item takes the place of that at i.
LEMMA ExtractIs ==
  ASSUME NEW h \in Seq(Ev), NEW i \in 1..Len(h), NoRepeat(h)
  PROVE  /\ Extract(h, i) \in Seq(Ev) /\ Len(Extract(h, i)) = Len(h) - 1
         /\ \A k \in 1..Len(h) - 1 : Extract(h, i)[k] = IF k = i THEN h[Len(h)] ELSE h[k]
         /\ NoRepeat(Extract(h, i)) /\ ItemsOf(Extract(h, i)) = ItemsOf(h) \ {h[i]}
<1>1. PICK n, g, e : n = Len(h) /\ g = Exch(h, i, n) /\ e = SubSeq(g, 1, n - 1)
  OBVIOUS
<1>2. n \in Nat /\ n >= 1 /\ i \in 1..n /\ n \in 1..n /\ e = Extract(h, i)
  BY <1>1 DEF Extract
<1>3. /\ g \in Seq(Ev) /\ Len(g) = n
      /\ \A k \in 1..n - 1 : g[k] = IF k = i THEN h[n] ELSE h[k]
  <2>1. CASE i = n
    <3>1. g = h
      BY <1>1, <1>2, <2>1 DEF Exch
    <3> QED BY <1>1, <1>2, <2>1, <3>1
  <2>2. CASE i # n
    <3>1. /\ g \in Seq(Ev) /\ Len(g) = n /\ g[i] = h[n]
          /\ \A k \in 1..n : k # i /\ k # n => g[k] = h[k]
      BY <1>1, <1>2, <2>2, ExchIs
    <3> QED BY <1>2, <3>1
  <2> QED BY <2>1, <2>2
<1>4. e \in Seq(Ev) /\ Len(e) = n - 1 /\ \A k \in 1..n - 1 : e[k] = g[k]
  BY <1>1, <1>2, <1>3
<1>5. \A k \in 1..n - 1 : e[k] = IF k = i THEN h[n] ELSE h[k]
  BY <1>3, <1>4
<1>6. NoRepeat(e)
  BY <1>1, <1>2, <1>4, <1>5 DEF NoRepeat
<1>7. ItemsOf(e) = ItemsOf(h) \ {h[i]}
  <2>1. ASSUME NEW k \in 1..n - 1 PROVE e[k] \in ItemsOf(h) \ {h[i]}
    <3>1. k \in 1..n /\ k # n
      BY <1>2
    <3>2. CASE k = i
      <4>1. e[k] = h[n] /\ n # i
        BY <1>5, <3>1, <3>2
      <4> QED BY <1>1, <1>2, <4>1 DEF ItemsOf, NoRepeat
    <3>3. CASE k # i
      <4>1. e[k] = h[k]
        BY <1>5, <3>3
      <4> QED BY <1>1, <1>2, <3>1, <3>3, <4>1 DEF ItemsOf, NoRepeat
    <3> QED BY <3>2, <3>3
  <2>2. ASSUME NEW j \in 1..n, h[j] # h[i] PROVE \E k \in 1..n - 1 : h[j] = e[k]
    <3>1. CASE j = n
      <4>1. i \in 1..n - 1 /\ e[i] = h[n]
        BY <1>2, <1>5, <2>2, <3>1
      <4> QED BY <3>1, <4>1
    <3>2. CASE j # n
      <4>1. j \in 1..n - 1 /\ e[j] = h[j]
        BY <1>2, <1>5, <2>2, <3>2
      <4> QED BY <4>1
    <3> QED BY <3>1, <3>2
  <2>3. ItemsOf(e) = { e[k] : k \in 1..n - 1 } /\ ItemsOf(h) = { h[k] : k \in 1..n }
    BY <1>1, <1>4 DEF ItemsOf
  <2>4. ItemsOf(e) \subseteq ItemsOf(h) \ {h[i]}
    BY <2>1, <2>3
  <2>5. ItemsOf(h) \ {h[i]} \subseteq ItemsOf(e)
    BY <2>2, <2>3
  <2> QED BY <2>4, <2>5
<1> QED BY <1>1, <1>2, <1>4, <1>5, <1>6, <1>7

\* It may sink from there, unless it precedes the parent.
LEMMA ExtractOrder ==
  ASSUME NEW h \in Seq(Ev), NEW i \in 1..Len(h), NoRepeat(h), Ordered(h),
         i > 1 => ~Less(h[Len(h)], h[i \div 2])
  PROVE  DownOrder([heap |-> Extract(h, i), at |-> i])
<1>1. PICK n, e : n = Len(h) /\ e = Extract(h, i)
  OBVIOUS
<1>2. /\ n \in Nat /\ i \in 1..n /\ Len(e) = n - 1
      /\ \A k \in 1..n - 1 : e[k] = IF k = i THEN h[n] ELSE h[k]
  <2>1. /\ Len(Extract(h, i)) = Len(h) - 1
        /\ \A k \in 1..Len(h) - 1 : Extract(h, i)[k] = IF k = i THEN h[Len(h)] ELSE h[k]
    BY ExtractIs
  <2> QED BY <1>1, <2>1
<1>3. ASSUME NEW k \in 2..n - 1
      PROVE  /\ k \in 2..n /\ k \in 1..n /\ k \in 1..n - 1 /\ k \div 2 \in 1..n - 1
             /\ k \div 2 # k /\ k \div 2 \in 1..n /\ k > 1
  BY <1>2, Halves
<1>4. ASSUME NEW k \in 2..n - 1, k \div 2 # i PROVE ~Less(e[k], e[k \div 2])
  <2>1. e[k \div 2] = h[k \div 2]
    BY <1>2, <1>3, <1>4
  <2>2. CASE k = i
    <3>1. e[k] = h[n] /\ i > 1
      BY <1>2, <1>3, <2>2
    <3> QED BY <1>1, <2>1, <2>2, <3>1
  <2>3. CASE k # i
    <3>1. e[k] = h[k]
      BY <1>2, <1>3, <2>3
    <3> QED BY <1>1, <1>3, <2>1, <3>1 DEF Ordered
  <2> QED BY <2>2, <2>3
<1>5. ASSUME NEW k \in 2..n - 1, k \div 2 = i, i > 1 PROVE ~Less(e[k], e[i \div 2])
  <2>1. i \in 2..n - 1 /\ k # i
    BY <1>2, <1>3, <1>5
  <2>2. e[k] = h[k] /\ e[i \div 2] = h[i \div 2]
    BY <1>2, <1>3, <2>1
  <2>3. ~Less(h[k], h[i]) /\ ~Less(h[i], h[i \div 2])
    BY <1>1, <1>3, <1>5, <2>1 DEF Ordered
  <2>4. h[k] \in Ev /\ h[i] \in Ev /\ h[i \div 2] \in Ev
    BY <1>1, <1>3, <2>1
  <2> QED BY <2>2, <2>3, <2>4, LessOrders
<1> QED BY <1>1, <1>2, <1>4, <1>5 DEF DownOrder

\* In heap order nothing precedes the root.
LEMMA RootIsLeast ==
  ASSUME NEW h \in Seq(Ev), Ordered(h), NEW j \in 1..Len(h)
  PROVE  ~Less(h[j], h[1])
<1> DEFINE Bad == { k \in 1..Len(h) : Less(h[k], h[1]) }
<1>1. \A k \in 1..Len(h) : h[k] \in Ev
  OBVIOUS
<1>2. SUFFICES ASSUME Bad # {} PROVE FALSE
  OBVIOUS
<1>3. PICK m \in Bad : \A u \in Bad : m <= u
  <2>1. Bad \in SUBSET Nat
    OBVIOUS
  <2> HIDE DEF Bad
  <2> QED BY <1>2, <2>1, NatMin
<1>4. m \in 1..Len(h) /\ Less(h[m], h[1]) /\ 1 \in 1..Len(h)
  BY <1>3
<1>5. m # 1
  BY <1>1, <1>4, LessOrders
<1>6. m \in 2..Len(h) /\ m \div 2 \in 1..Len(h) /\ m \div 2 < m
  BY <1>4, <1>5, Halves
<1>7. m \div 2 \notin Bad
  BY <1>3, <1>6
<1>8. ~Less(h[m \div 2], h[1]) /\ ~Less(h[m], h[m \div 2])
  BY <1>6, <1>7 DEF Ordered
<1> QED BY <1>1, <1>4, <1>6, <1>8, LessOrders

-----------------------------------------------------------------------------
(* The inductive invariant.                                                *)

\* The array holds the events held, each once; their uids differ and are those
\* given out; and it is in heap order, unless a Remove has broken that.
HeapInv ==
  /\ TypeOK
  /\ ItemsOf(heap) = held /\ NoRepeat(heap)
  /\ \A e \in held : e.uid <= uid
  /\ \A e, f \in held : e.uid = f.uid => e = f
  /\ ~misplaced => Ordered(heap)

\* The initial state satisfies it.
LEMMA InitHeap == Init => HeapInv
<1> SUFFICES ASSUME Init PROVE HeapInv
  OBVIOUS
<1>1. heap = <<>> /\ held = {} /\ uid = 0 /\ misplaced = FALSE /\ next = [ts |-> 0, uid |-> 0]
  BY DEF Init, NoEvent
<1>2. TypeOK
  <2>1. heap \in Seq([ts : Nat, uid : 1..MaxEvents])
    BY <1>1
  <2>2. 0 \in 0..MaxEvents
    BY HeapAssumption
  <2> QED BY <1>1, <2>1, <2>2 DEF TypeOK
<1> QED BY <1>1, <1>2 DEF HeapInv, ItemsOf, NoRepeat, Ordered

\* A new event is the last of the array.
LEMMA InsertKeeps ==
  ASSUME HeapInv, NEW d \in Delays, Insert(d)
  PROVE  HeapInv'
<1>1. PICK e : e = [ts |-> next.ts + d, uid |-> uid + 1]
  OBVIOUS
<1>2. PICK n, h : n = Len(heap) + 1 /\ h = Append(heap, e)
  OBVIOUS
<1>3. /\ uid < MaxEvents /\ heap' = BottomUp(h, n) /\ uid' = uid + 1
      /\ held' = held \cup {e} /\ next' = next /\ misplaced' = misplaced
  BY <1>1, <1>2 DEF Insert
<1>4. /\ heap \in Seq(Ev) /\ next \in [ts : Nat, uid : 0..MaxEvents] /\ uid \in 0..MaxEvents
      /\ held \subseteq Ev /\ misplaced \in BOOLEAN /\ MaxEvents \in Nat /\ d \in Nat
  BY HeapAssumption DEF HeapInv, TypeOK, Ev
<1>5. e \in Ev /\ e.uid = uid + 1 /\ uid' \in 0..MaxEvents
  BY <1>1, <1>3, <1>4 DEF Ev
<1>6. /\ h \in Seq(Ev) /\ Len(h) = n /\ n \in Nat /\ n \in 1..Len(h) /\ h[n] = e
      /\ \A k \in 1..n - 1 : k \in 1..Len(heap) /\ h[k] = heap[k]
      /\ n - 1 = Len(heap)
  BY <1>2, <1>4, <1>5
<1>7. \A f \in held : f.uid \in Nat /\ f.uid <= uid
  BY <1>4, HeapAssumption DEF HeapInv, Ev
<1>8. e \notin held
  BY <1>4, <1>5, <1>7
<1>9. ItemsOf(h) = held \cup {e}
  <2>1. \A k \in 1..n : k = n \/ k \in 1..n - 1
    BY <1>6
  <2>2. \A k \in 1..n - 1 : k \in 1..n
    BY <1>6
  <2>3. ItemsOf(heap) = held
    BY DEF HeapInv
  <2> QED BY <1>6, <2>1, <2>2, <2>3 DEF ItemsOf
<1>10. NoRepeat(h)
  <2>1. \A k \in 1..n - 1 : h[k] # e
    BY <1>6, <1>8 DEF HeapInv, ItemsOf
  <2>2. \A k \in 1..n : k = n \/ k \in 1..n - 1
    BY <1>6
  <2>3. NoRepeat(heap)
    BY DEF HeapInv
  <2> QED BY <1>6, <2>1, <2>2, <2>3 DEF NoRepeat
<1>11. ~misplaced => UpOrder([heap |-> h, at |-> n])
  <2> SUFFICES ASSUME ~misplaced PROVE UpOrder([heap |-> h, at |-> n])
    OBVIOUS
  <2>1. Ordered(heap)
    BY DEF HeapInv
  <2>2. ASSUME NEW k \in 2..n PROVE k \div 2 \in 1..n - 1 /\ k \div 2 # n
    BY <1>6, Halves
  <2>3. ASSUME NEW k \in 2..n, k # n PROVE ~Less(h[k], h[k \div 2])
    <3>1. k \in 2..Len(heap) /\ k \in 1..n - 1
      BY <1>6, <2>3
    <3> QED BY <1>6, <2>1, <2>2, <3>1 DEF Ordered
  <2> QED BY <1>6, <2>2, <2>3 DEF UpOrder
<1>12. /\ heap' \in Seq(Ev) /\ SameItems(heap', h)
       /\ UpOrder([heap |-> h, at |-> n]) => Ordered(heap')
  BY <1>3, <1>6, <1>10, BottomUpIs
<1>13. TypeOK'
  BY <1>3, <1>4, <1>5, <1>12 DEF TypeOK, Ev
<1>14. ItemsOf(heap') = held' /\ NoRepeat(heap') /\ (~misplaced' => Ordered(heap'))
  BY <1>3, <1>9, <1>11, <1>12 DEF SameItems
<1>15. \A f \in held' : f.uid <= uid'
  BY <1>3, <1>4, <1>5, <1>7
<1>16. \A f, g \in held' : f.uid = g.uid => f = g
  <2>1. \A f \in held : f.uid # e.uid
    BY <1>4, <1>5, <1>7
  <2> QED BY <1>3, <2>1 DEF HeapInv
<1> QED BY <1>13, <1>14, <1>15, <1>16 DEF HeapInv, Ordered, ItemsOf, NoRepeat

\* Taking the event at position i out and letting the last one sink from there.
LEMMA TakeKeeps ==
  ASSUME HeapInv, NEW i \in 1..Len(heap),
         heap' = TopDown(Extract(heap, i), i), held' = held \ {heap[i]}, uid' = uid,
         next' \in [ts : Nat, uid : 0..MaxEvents], misplaced' \in BOOLEAN,
         ~misplaced' => ~misplaced /\ (i > 1 => ~Less(heap[Len(heap)], heap[i \div 2]))
  PROVE  HeapInv'
<1>1. PICK h : h = Extract(heap, i)
  OBVIOUS
<1>2. heap \in Seq(Ev) /\ NoRepeat(heap) /\ ItemsOf(heap) = held
  BY DEF HeapInv, TypeOK, Ev
<1>3. h \in Seq(Ev) /\ NoRepeat(h) /\ ItemsOf(h) = held \ {heap[i]} /\ i \in 1..Len(h) + 1
  BY <1>1, <1>2, ExtractIs
<1>4. /\ heap' \in Seq(Ev) /\ SameItems(heap', h)
      /\ DownOrder([heap |-> h, at |-> i]) => Ordered(heap')
  BY <1>1, <1>3, TopDownIs
<1>5. ~misplaced' => Ordered(heap')
  BY <1>1, <1>2, <1>4, ExtractOrder DEF HeapInv
<1>6. TypeOK'
  BY <1>4 DEF HeapInv, TypeOK, Ev
<1>7. ItemsOf(heap') = held' /\ NoRepeat(heap')
  BY <1>3, <1>4 DEF SameItems
<1>8. /\ \A f \in held' : f.uid <= uid'
      /\ \A f, g \in held' : f.uid = g.uid => f = g
  BY DEF HeapInv
<1> QED BY <1>5, <1>6, <1>7, <1>8 DEF HeapInv, Ordered, ItemsOf, NoRepeat

\* RemoveNext takes out the root, Remove any event.
LEMMA NextHeap == HeapInv /\ [Next]_vars => HeapInv'
<1> SUFFICES ASSUME HeapInv, [Next]_vars PROVE HeapInv'
  OBVIOUS
<1>1. CASE UNCHANGED vars
  BY <1>1 DEF vars, HeapInv, TypeOK, ItemsOf, NoRepeat, Ordered
<1>2. ASSUME NEW d \in Delays, Insert(d) PROVE HeapInv'
  BY <1>2, InsertKeeps
<1>3. /\ heap \in Seq(Ev) /\ next \in [ts : Nat, uid : 0..MaxEvents] /\ misplaced \in BOOLEAN
      /\ \A k \in 1..Len(heap) : heap[k] \in [ts : Nat, uid : 0..MaxEvents]
  <2>1. heap \in Seq(Ev) /\ next \in [ts : Nat, uid : 0..MaxEvents] /\ misplaced \in BOOLEAN
    BY DEF HeapInv, TypeOK, Ev
  <2>2. Ev \subseteq [ts : Nat, uid : 0..MaxEvents]
    BY HeapAssumption DEF Ev
  <2> QED BY <2>1, <2>2
<1>4. CASE RemoveNext
  <2>1. 1 \in 1..Len(heap)
    BY <1>3, <1>4 DEF RemoveNext
  <2>2. /\ heap' = TopDown(Extract(heap, 1), 1) /\ held' = held \ {heap[1]} /\ uid' = uid
        /\ next' = heap[1] /\ misplaced' = misplaced
    BY <1>4 DEF RemoveNext
  <2> QED BY <1>3, <2>1, <2>2, TakeKeeps
<1>5. ASSUME NEW i \in 1..Len(heap), Remove(i) PROVE HeapInv'
  <2>1. /\ heap' = TopDown(Extract(heap, i), i) /\ held' = held \ {heap[i]} /\ uid' = uid
        /\ next' = next
        /\ misplaced' = (misplaced \/ (i > 1 /\ Less(heap[Len(heap)], heap[i \div 2])))
    BY <1>5 DEF Remove
  <2>2. misplaced' \in BOOLEAN
    BY <2>1
  <2>3. ~misplaced' => ~misplaced /\ (i > 1 => ~Less(heap[Len(heap)], heap[i \div 2]))
    BY <2>1
  <2> QED BY <1>3, <2>1, <2>2, <2>3, TakeKeeps
<1> QED BY <1>1, <1>2, <1>4, <1>5 DEF Next

-----------------------------------------------------------------------------
(* The theorems.                                                           *)

\* The invariant holds in every state.
THEOREM Invariance == Spec => []HeapInv
BY InitHeap, NextHeap, PTL DEF Spec

\* The types of the variables.
THEOREM TypesHold == Spec => []TypeOK
<1>1. HeapInv => TypeOK
  BY DEF HeapInv
<1> QED BY <1>1, Invariance, PTL

\* Whatever is inserted, extracted and removed, in whatever order, the array
\* holds the events that it should and each of them once: the swaps of the
\* sifts and the pop_back lose and duplicate nothing.
THEOREM NothingLost == Spec => []HoldsExactly
<1>1. HeapInv => HoldsExactly
  <2> SUFFICES ASSUME HeapInv PROVE HoldsExactly
    OBVIOUS
  <2>1. heap \in Seq(Ev) /\ NoRepeat(heap) /\ ItemsOf(heap) = held
    BY DEF HeapInv, TypeOK, Ev
  <2>2. Len(heap) \in Nat
    BY <2>1
  <2>3. PICK b : b = [k \in 1..Len(heap) |-> heap[k]]
    OBVIOUS
  <2>4. b \in Bijection(1..Len(heap), held)
    <3>1. b \in [1..Len(heap) -> held] /\ \A e \in held : \E k \in 1..Len(heap) : b[k] = e
      BY <2>1, <2>3 DEF ItemsOf
    <3>2. \A j, k \in 1..Len(heap) : b[j] = b[k] => j = k
      BY <2>1, <2>3 DEF NoRepeat
    <3> QED BY <3>1, <3>2 DEF Bijection, Injection, Surjection, IsInjective
  <2>5. Cardinality(held) = Len(heap)
    BY <2>2, <2>4, FS_CountingElements DEF ExistsBijection
  <2> QED BY <2>1, <2>5 DEF HoldsExactly, Items, ItemsOf
<1> QED BY <1>1, Invariance, PTL

\* Scheduler::RemoveNext hands back the earliest event of the list, the order of
\* the uids breaking ties, as long as no Remove has put the last item below a
\* parent that it precedes.
THEOREM EarliestIsNext == Spec => EarliestUnlessMisplaced
<1>1. HeapInv /\ [Next]_vars => [next' # next /\ ~misplaced => IsEarliest(next', held)]_vars
  <2> SUFFICES ASSUME HeapInv, Next, next' # next, ~misplaced PROVE IsEarliest(next', held)
    BY DEF vars
  <2>1. RemoveNext
    BY DEF Next, Insert, Remove
  <2>2. /\ heap \in Seq(Ev) /\ ItemsOf(heap) = held /\ Ordered(heap) /\ held \subseteq Ev
        /\ 1 \in 1..Len(heap) /\ next' = heap[1]
    BY <2>1 DEF HeapInv, TypeOK, Ev, RemoveNext
  <2>3. heap[1] \in held
    BY <2>2 DEF ItemsOf
  <2>4. ASSUME NEW f \in held \ {heap[1]} PROVE Less(heap[1], f)
    <3>1. PICK j \in 1..Len(heap) : f = heap[j]
      BY <2>2 DEF ItemsOf
    <3>2. ~Less(f, heap[1])
      BY <2>2, <3>1, RootIsLeast
    <3>3. f \in Ev /\ heap[1] \in Ev /\ f.uid # heap[1].uid
      BY <2>2, <2>3 DEF HeapInv
    <3> QED BY <3>2, <3>3, LessOrders
  <2> QED BY <2>2, <2>3, <2>4 DEF IsEarliest
<1> QED BY <1>1, Invariance, PTL DEF Spec, EarliestUnlessMisplaced

=============================================================================

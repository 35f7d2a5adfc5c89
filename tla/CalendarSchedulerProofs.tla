---------------------- MODULE CalendarSchedulerProofs ----------------------
(***************************************************************************)
(* CalendarScheduler implements EventList, for every number of events and  *)
(* every delay, in both bucket orders: RemoveNext hands back the earliest  *)
(* event held, across years, resizes and removals.                         *)
(***************************************************************************)
EXTENDS CalendarScheduler, FiniteSetTheorems, SequenceTheorems, WellFoundedInduction, TLAPS

-----------------------------------------------------------------------------
(* Induction and loops.                                                    *)

\* A set of natural numbers that is not empty has a least element.
LEMMA NatMin ==
  ASSUME NEW T \in SUBSET Nat, T # {}
  PROVE  \E t \in T : \A u \in T : t <= u
<1> DEFINE R == OpToRel(<, Nat)
<1>1. IsWellFoundedOn(R, Nat)
  BY NatLessThanWellFounded
<1>2. \A x, y \in Nat : x < y => <<x, y>> \in R
  BY DEF OpToRel
<1> HIDE DEF R
<1>3. PICK t \in T : \A u \in T : ~(<<u, t>> \in R)
  BY <1>1, WFMin
<1>4. \A u \in T : ~(u < t)
  BY <1>2, <1>3
<1>5. \A u \in T : t <= u
  BY <1>4
<1> QED BY <1>5

\* What holds at 0 and passes from each number to the next holds at N.
LEMMA Climb ==
  ASSUME NEW N \in Nat, NEW T, 0 \in T, \A n \in 0..N - 1 : n \in T => n + 1 \in T
  PROVE  N \in T
<1> DEFINE Bad == { n \in 0..N : n \notin T }
<1>1. Bad \in SUBSET Nat
  OBVIOUS
<1>2. Bad = {}
  <2> SUFFICES ASSUME Bad # {} PROVE FALSE
    OBVIOUS
  <2>1. PICK m \in Bad : \A u \in Bad : m <= u
    BY <1>1, NatMin
  <2>2. m \in 0..N /\ m # 0
    BY <2>1
  <2>3. m - 1 \in 0..N - 1 /\ m - 1 \in 0..N /\ m - 1 \notin Bad /\ (m - 1) + 1 = m
    BY <2>1, <2>2
  <2>4. m - 1 \in T
    BY <2>3
  <2> QED BY <2>1, <2>3, <2>4
<1> QED BY <1>2


\* A loop from s whose pass k is the function G[k], and that is in T[k] after pass k.
IsLoop(f, N, s, G) == f = [k \in 0..N |-> IF k = 0 THEN s ELSE G[k][f[k - 1]]]
Stays(f, N, T) == \A k \in 0..N : f[k] \in T[k]
Leads(G, N, T) == \A k \in 1..N : \A x \in T[k - 1] : G[k][x] \in T[k]

\* There is such a loop.
LEMMA LoopExists ==
  ASSUME NEW N \in Nat, NEW T, NEW G, NEW s \in T[0], Leads(G, N, T)
  PROVE  \E f : IsLoop(f, N, s, G) /\ Stays(f, N, T)
<1> DEFINE Good(m, f) == /\ f = [k \in 0..m |-> IF k = 0 THEN s ELSE G[k][f[k - 1]]]
                         /\ \A k \in 0..m : f[k] \in T[k]
           Reached == { m \in 0..N : \E f : Good(m, f) }
<1>1. 0 \in Reached
  <2> DEFINE f == [k \in 0..0 |-> s]
  <2>1. \A k \in 0..0 : f[k] = s /\ k = 0
    OBVIOUS
  <2>2. f = [k \in 0..0 |-> IF k = 0 THEN s ELSE G[k][f[k - 1]]]
    OBVIOUS
  <2> HIDE DEF f
  <2>3. Good(0, f)
    BY <2>1, <2>2
  <2> QED BY <2>3
<1>2. ASSUME NEW m \in 0..N - 1, m \in Reached PROVE m + 1 \in Reached
  <2>1. PICK f : Good(m, f)
    BY <1>2
  <2> DEFINE g == [k \in 0..m + 1 |-> IF k = m + 1 THEN G[m + 1][f[m]] ELSE f[k]]
  <2>2. /\ \A k \in 0..m : f[k] = IF k = 0 THEN s ELSE G[k][f[k - 1]]
        /\ \A k \in 0..m : f[k] \in T[k]
    BY <2>1
  <2>3. ASSUME NEW k \in 0..m + 1
        PROVE  g[k] = (IF k = 0 THEN s ELSE G[k][g[k - 1]]) /\ g[k] \in T[k]
    <3>1. CASE k = m + 1
      <4>1. k # 0 /\ k - 1 = m /\ m \in 0..m + 1 /\ m \in 0..m /\ m # m + 1 /\ k \in 1..N
        BY <3>1
      <4>2. g[k] = G[k][f[m]] /\ g[m] = f[m] /\ f[m] \in T[m]
        BY <2>2, <3>1, <4>1
      <4>3. G[k][f[m]] \in T[k]
        BY <4>1, <4>2 DEF Leads
      <4> QED BY <4>1, <4>2, <4>3
    <3>2. CASE k # m + 1
      <4>1. k \in 0..m /\ (k # 0 => k - 1 \in 0..m + 1 /\ k - 1 # m + 1)
        BY <3>2
      <4>2. g[k] = f[k] /\ (k # 0 => g[k - 1] = f[k - 1])
        BY <4>1
      <4> QED BY <2>2, <4>1, <4>2
    <3> QED BY <3>1, <3>2
  <2>4. g = [k \in 0..m + 1 |-> g[k]]
    OBVIOUS
  <2> HIDE DEF g
  <2>5. g = [k \in 0..m + 1 |-> IF k = 0 THEN s ELSE G[k][g[k - 1]]]
    BY <2>3, <2>4
  <2>6. Good(m + 1, g)
    BY <2>3, <2>5
  <2> QED BY <2>6
<1> HIDE DEF Reached
<1>3. N \in Reached
  BY <1>1, <1>2, Climb
<1> QED BY <1>3 DEF Reached, IsLoop, Stays

-----------------------------------------------------------------------------
(* Quotients and remainders.                                               *)

\* A quotient is below q where the number is below q times the divisor.
LEMMA DivBelow ==
  ASSUME NEW a \in Nat, NEW w \in Nat \ {0}
  PROVE  a \div w \in Nat /\ \A q \in Nat : a < q * w <=> a \div w < q
OBVIOUS

\* Quotient and remainder are unique.
LEMMA Remainder ==
  ASSUME NEW a \in Nat, NEW w \in Nat \ {0}, NEW q \in Nat, NEW r \in 0..w-1, a = q * w + r
  PROVE  a % w = r /\ a \div w = q
OBVIOUS

\* They are what they are divided into.
LEMMA DivMod ==
  ASSUME NEW a \in Nat, NEW w \in Nat \ {0}
  PROVE  a % w \in 0..w - 1 /\ a = (a \div w) * w + (a % w)
OBVIOUS

\* j steps on from the bucket of year x.
LEMMA Steps ==
  ASSUME NEW x \in Nat, NEW j \in Nat, NEW n \in Nat \ {0}
  PROVE ((x % n) + j) % n = (x + j) % n
<1>1. PICK q \in Nat, r \in 0..n - 1 : x = q * n + r /\ x % n = r
  BY DivMod, DivBelow
<1>2. PICK p \in Nat, s \in 0..n - 1 : r + j = p * n + s
  <2>1. r + j \in Nat
    OBVIOUS
  <2> QED BY <2>1, DivMod, DivBelow
<1>3. x + j = (q + p) * n + s /\ x + j \in Nat /\ r + j \in Nat /\ q + p \in Nat
  BY <1>1, <1>2
<1>4. (x + j) % n = s /\ (r + j) % n = s
  BY <1>2, <1>3, Remainder
<1> QED BY <1>1, <1>4

\* Fewer than n steps meet no bucket twice ...
LEMMA StepsDiffer ==
  ASSUME NEW x \in Nat, NEW n \in Nat \ {0}, NEW j \in 0..n-1, NEW k \in 0..n-1,
   (x + j) % n = (x + k) % n
  PROVE j = k
<1>1. PICK p \in Nat, q \in Nat, r \in 0..n - 1 : x + j = p * n + r /\ x + k = q * n + r
  <2>1. x + j \in Nat /\ x + k \in Nat
    OBVIOUS
  <2>2. PICK r : r = (x + j) % n
    OBVIOUS
  <2>3. /\ r \in 0..n - 1 /\ x + j = ((x + j) \div n) * n + r
        /\ x + k = ((x + k) \div n) * n + r
    BY <2>1, <2>2, DivMod
  <2> QED BY <2>1, <2>3, DivBelow
<1>2. CASE p = q
  BY <1>1, <1>2
<1>3. CASE p < q
  <2>1. (p + 1) * n <= q * n /\ (p + 1) * n = p * n + n
    BY <1>3
  <2> QED BY <1>1, <2>1
<1>4. CASE q < p
  <2>1. (q + 1) * n <= p * n /\ (q + 1) * n = q * n + n
    BY <1>4
  <2> QED BY <1>1, <2>1
<1> QED BY <1>2, <1>3, <1>4

\* ... and reach each.
LEMMA StepsReach ==
  ASSUME NEW x \in Nat, NEW n \in Nat \ {0}, NEW b \in 0..n-1
  PROVE \E k \in 0..n-1 : (x + k) % n = b
<1>1. PICK q \in Nat, r \in 0..n - 1 : x = q * n + r
  BY DivMod, DivBelow
<1>2. CASE r <= b
  <2>1. b - r \in 0..n - 1 /\ x + (b - r) \in Nat /\ x + (b - r) = q * n + b
    BY <1>1, <1>2
  <2>2. (x + (b - r)) % n = b
    BY <2>1, Remainder
  <2> QED BY <2>1, <2>2
<1>3. CASE b < r
  <2> DEFINE k == b - r + n
  <2>1. k \in 0..n - 1 /\ x + k \in Nat /\ q + 1 \in Nat /\ x + k = (q + 1) * n + b
    BY <1>1, <1>3
  <2> HIDE DEF k
  <2>2. (x + k) % n = b
    BY <2>1, Remainder
  <2> QED BY <2>1, <2>2
<1> QED BY <1>2, <1>3

-----------------------------------------------------------------------------
(* The order on events.                                                    *)

\* What the assumption says of the sizes.
LEMMA Bounds == Delays \subseteq Nat /\ MaxEvents \in Nat /\ 1 <= MaxEvents
BY CalendarAssumption, Z3

\* The events.
Ev == [ts : Nat, uid : 1..MaxEvents]

\* No two events of H have the same uid.
Distinct(H) == \A e, f \in H : e.uid = f.uid => e = f

\* Less and Order are strict orders, total on events of different uids.
LEMMA Orders ==
  ASSUME NEW a \in Ev, NEW b \in Ev, NEW c \in Ev
  PROVE  /\ Order(a, b) => ~Order(b, a)
         /\ Order(a, b) /\ Order(b, c) => Order(a, c)
         /\ a.uid # b.uid /\ ~Order(a, b) => Order(b, a)
         /\ Less(a, b) => a.ts <= b.ts
         /\ a.ts < b.ts => Less(a, b)
         /\ Less(a, b) /\ Less(b, c) => Less(a, c)
         /\ ~Less(a, a)
<1>1. /\ a.ts \in Nat /\ b.ts \in Nat /\ c.ts \in Nat
      /\ a.uid \in Int /\ b.uid \in Int /\ c.uid \in Int
  BY Bounds DEF Ev
<1> QED BY <1>1 DEF Order, Less

\* Of some events one is the earliest.
LEMMA EarliestExists ==
  ASSUME NEW H \in SUBSET Ev, H # {}, Distinct(H)
  PROVE  \E e \in H : IsEarliest(e, H)
<1> DEFINE Times == { e.ts : e \in H }
<1>1. \A e \in H : e.ts \in Nat /\ e.uid \in Nat
  BY Bounds DEF Ev
<1>2. PICK t \in Times : \A u \in Times : t <= u
  <2>1. Times \in SUBSET Nat /\ Times # {}
    BY <1>1
  <2> QED BY <2>1, NatMin
<1> DEFINE First == { e \in H : e.ts = t }
           Uids == { e.uid : e \in First }
<1>3. PICK i \in Uids : \A u \in Uids : i <= u
  <2>1. Uids \in SUBSET Nat /\ Uids # {}
    BY <1>1, <1>2
  <2> QED BY <2>1, NatMin
<1>4. PICK e \in H : e.ts = t /\ e.uid = i
  BY <1>3
<1>5. ASSUME NEW f \in H \ {e} PROVE Less(e, f)
  <2>1. t <= f.ts /\ f.uid # i
    BY <1>2, <1>4, <1>5 DEF Distinct
  <2>2. f.ts = t => i <= f.uid
    BY <1>3
  <2>3. t \in Nat /\ i \in Nat /\ f.ts \in Nat /\ f.uid \in Nat
    BY <1>1, <1>4
  <2> QED BY <1>4, <2>1, <2>2, <2>3 DEF Less
<1> QED BY <1>4, <1>5 DEF IsEarliest

-----------------------------------------------------------------------------
(* Buckets.                                                                *)

\* The bucket s holds the events of S, each once and in order.
Lists(s, S) ==
  /\ \A e : e \in S <=> \E i \in 1..Len(s) : s[i] = e
  /\ \A i, j \in 1..Len(s) : i < j => Order(s[i], s[j])

\* SelectInSeq finds the first place that passes a test.
LEMMA FirstPlace ==
  ASSUME NEW I \in SUBSET Nat, I # {}
  PROVE  Min(I) \in I /\ \A i \in I : Min(I) <= i
<1>1. \E t \in I : \A u \in I : t <= u
  BY NatMin
<1> QED BY <1>1 DEF Min

\* The sequence with e put in at place i, place by place.
LEMMA InsertedAt ==
  ASSUME NEW s \in Seq(Ev), NEW e \in Ev, NEW i \in 1..Len(s)
  PROVE  /\ InsertAt(s, i, e) \in Seq(Ev) /\ Len(InsertAt(s, i, e)) = Len(s) + 1
         /\ \A k \in 1..Len(s) + 1 :
              InsertAt(s, i, e)[k] = IF k < i THEN s[k] ELSE IF k = i THEN e ELSE s[k - 1]
BY DEF InsertAt

\* The sequence without place i, place by place.
LEMMA RemovedAt ==
  ASSUME NEW s \in Seq(Ev), NEW i \in 1..Len(s)
  PROVE  /\ RemoveAt(s, i) \in Seq(Ev) /\ Len(RemoveAt(s, i)) = Len(s) - 1
         /\ \A k \in 1..Len(s) - 1 : RemoveAt(s, i)[k] = IF k < i THEN s[k] ELSE s[k + 1]
<1>1. PICK a : a = SubSeq(s, 1, i - 1)
  OBVIOUS
<1>2. PICK b : b = SubSeq(s, i + 1, Len(s))
  OBVIOUS
<1>3. a \in Seq(Ev) /\ Len(a) = i - 1 /\ \A k \in 1..i - 1 : a[k] = s[k]
  BY <1>1
<1>4. /\ b \in Seq(Ev) /\ Len(b) = Len(s) - i
      /\ \A k \in 1..Len(s) - i : b[k] = s[k + i]
  BY <1>2
<1>5. RemoveAt(s, i) = a \o b
  BY <1>1, <1>2 DEF RemoveAt
<1>6. a \o b \in Seq(Ev) /\ Len(a \o b) = Len(s) - 1
  <2>1. a \o b \in Seq(Ev) /\ Len(a \o b) = Len(a) + Len(b)
    BY <1>3, <1>4, ConcatProperties
  <2>2. Len(s) \in Nat
    OBVIOUS
  <2> QED BY <1>3, <1>4, <2>1, <2>2
<1>7. ASSUME NEW k \in 1..Len(s) - 1
      PROVE  (a \o b)[k] = IF k < i THEN s[k] ELSE s[k + 1]
  <2>1. CASE k < i
    BY <1>3, <1>4, <2>1
  <2>2. CASE ~(k < i)
    <3>1. k - (i - 1) \in 1..Len(s) - i /\ (k - (i - 1)) + i = k + 1
      BY <1>7, <2>2
    <3>2. b[k - (i - 1)] = s[k + 1]
      BY <1>4, <3>1
    <3> QED BY <1>3, <1>4, <2>2, <3>2
  <2> QED BY <2>1, <2>2
<1> QED BY <1>5, <1>6, <1>7

\* Taking out place i takes out the event there.
LEMMA WithoutPlace ==
  ASSUME NEW s \in Seq(Ev), NEW S \in SUBSET Ev, Lists(s, S), NEW i \in 1..Len(s),
         NEW r \in Seq(Ev), Len(r) = Len(s) - 1,
         \A k \in 1..Len(s) - 1 : r[k] = IF k < i THEN s[k] ELSE s[k + 1]
  PROVE  Lists(r, S \ {s[i]})
<1>1. \A k \in 1..Len(s) : s[k] \in Ev
  OBVIOUS
<1>2. \A j, k \in 1..Len(s) : j < k => Order(s[j], s[k]) /\ s[j] # s[k]
  BY <1>1, Orders DEF Lists
<1>3. ASSUME NEW k \in 1..Len(r) PROVE r[k] \in S \ {s[i]}
  <2>1. CASE k < i
    BY <1>2, <1>3, <2>1 DEF Lists
  <2>2. CASE ~(k < i)
    <3>1. k + 1 \in 1..Len(s) /\ i < k + 1 /\ r[k] = s[k + 1]
      BY <1>3, <2>2
    <3> QED BY <1>2, <3>1 DEF Lists
  <2> QED BY <2>1, <2>2
<1>4. ASSUME NEW e \in S \ {s[i]} PROVE \E k \in 1..Len(r) : r[k] = e
  <2>1. PICK j \in 1..Len(s) : s[j] = e
    BY DEF Lists
  <2>2. CASE j < i
    <3>1. j \in 1..Len(r) /\ r[j] = e
      BY <2>1, <2>2
    <3> QED BY <3>1
  <2>3. CASE i < j
    <3>1. j - 1 \in 1..Len(r) /\ ~(j - 1 < i) /\ (j - 1) + 1 = j
      BY <2>1, <2>3
    <3>2. r[j - 1] = e
      BY <2>1, <3>1
    <3> QED BY <3>1, <3>2
  <2>4. j # i
    BY <2>1
  <2> QED BY <2>2, <2>3, <2>4
<1>5. ASSUME NEW j \in 1..Len(r), NEW k \in 1..Len(r), j < k PROVE Order(r[j], r[k])
  <2>1. j \in 1..Len(s) /\ k \in 1..Len(s) /\ j + 1 \in 1..Len(s) /\ k + 1 \in 1..Len(s)
    BY <1>5
  <2>2. j < k + 1 /\ j + 1 < k + 1
    BY <1>5
  <2>3. \/ r[j] = s[j] /\ r[k] = s[k]
        \/ r[j] = s[j] /\ r[k] = s[k + 1]
        \/ r[j] = s[j + 1] /\ r[k] = s[k + 1]
    BY <1>5
  <2> QED BY <1>2, <1>5, <2>1, <2>2, <2>3
<1> QED BY <1>3, <1>4, <1>5 DEF Lists

\* The place that DoInsert looks for, and the bucket it leaves.
Placed(s, e) ==
  LET at == SelectInSeq(s, LAMBDA x : Order(e, x))
  IN  IF at = 0 THEN Append(s, e) ELSE InsertAt(s, at, e)

\* DoInsert keeps a bucket in order.
LEMMA PlacedIs ==
  ASSUME NEW s \in Seq(Ev), NEW S \in SUBSET Ev, Lists(s, S), NEW e \in Ev,
         \A f \in S : f.uid # e.uid
  PROVE  Placed(s, e) \in Seq(Ev) /\ Lists(Placed(s, e), S \cup {e})
<1> DEFINE I == { i \in 1..Len(s) : Order(e, s[i]) }
           at == IF I # {} THEN Min(I) ELSE 0
           r == IF at = 0 THEN Append(s, e) ELSE InsertAt(s, at, e)
           p == IF at = 0 THEN Len(s) + 1 ELSE at
<1>1. Placed(s, e) = r
  BY DEF Placed, SelectInSeq
<1>2. \A k \in 1..Len(s) : s[k] \in Ev /\ s[k] \in S
  BY DEF Lists
<1>3. at \in 0..Len(s) /\ (at # 0 => at \in I /\ \A i \in I : at <= i) /\ (at = 0 => I = {})
  <2>1. I \in SUBSET Nat
    OBVIOUS
  <2>2. I # {} => Min(I) \in I /\ \A i \in I : Min(I) <= i
    BY <2>1, FirstPlace
  <2> QED BY <2>2
<1> HIDE DEF at, I
<1>4. /\ p \in 1..Len(s) + 1
      /\ \A k \in 1..Len(s) : k < p => ~Order(e, s[k])
      /\ p \in 1..Len(s) => Order(e, s[p])
  BY <1>3 DEF I
<1>5. /\ r \in Seq(Ev) /\ Len(r) = Len(s) + 1
      /\ \A k \in 1..Len(s) + 1 : r[k] = IF k < p THEN s[k] ELSE IF k = p THEN e ELSE s[k - 1]
  <2>1. CASE at = 0
    BY <2>1
  <2>2. CASE at # 0
    BY <1>3, <2>2, InsertedAt
  <2> QED BY <2>1, <2>2
<1> HIDE DEF r, p
<1>6. ASSUME NEW k \in 1..Len(s) PROVE IF k < p THEN Order(s[k], e) ELSE Order(e, s[k])
  <2>1. CASE k < p
    BY <1>2, <1>4, <2>1, Orders
  <2>2. CASE k = p
    BY <1>4, <2>2
  <2>3. CASE p < k
    <3>1. p \in 1..Len(s)
      BY <1>4, <2>3
    <3>2. Order(e, s[p]) /\ Order(s[p], s[k]) /\ s[p] \in Ev /\ s[k] \in Ev
      BY <1>2, <1>4, <2>3, <3>1 DEF Lists
    <3> QED BY <2>3, <3>1, <3>2, Orders
  <2> QED BY <1>4, <2>1, <2>2, <2>3
<1>7. ASSUME NEW k \in 1..Len(r) PROVE r[k] \in S \cup {e}
  <2>1. k < p => k \in 1..Len(s)
    BY <1>4, <1>5
  <2>2. ~(k < p) /\ k # p => k - 1 \in 1..Len(s)
    BY <1>4, <1>5
  <2> QED BY <1>2, <1>5, <2>1, <2>2
<1>8. ASSUME NEW f \in S \cup {e} PROVE \E k \in 1..Len(r) : r[k] = f
  <2>1. CASE f = e
    <3>1. p \in 1..Len(r) /\ r[p] = e
      BY <1>4, <1>5
    <3> QED BY <2>1, <3>1
  <2>2. CASE f \in S
    <3>1. PICK j \in 1..Len(s) : s[j] = f
      BY <2>2 DEF Lists
    <3>2. CASE j < p
      <4>1. j \in 1..Len(r) /\ r[j] = f
        BY <1>5, <3>1, <3>2
      <4> QED BY <4>1
    <3>3. CASE ~(j < p)
      <4>1. j + 1 \in 1..Len(r) /\ ~(j + 1 < p) /\ j + 1 # p /\ (j + 1) - 1 = j
        BY <1>4, <1>5, <3>1, <3>3
      <4>2. r[j + 1] = f
        BY <1>5, <3>1, <4>1
      <4> QED BY <4>1, <4>2
    <3> QED BY <3>2, <3>3
  <2> QED BY <2>1, <2>2
<1>9. ASSUME NEW j \in 1..Len(r), NEW k \in 1..Len(r), j < k PROVE Order(r[j], r[k])
  <2>1. p \in Int /\ j \in Int /\ k \in Int /\ Len(s) \in Nat
    BY <1>4
  <2>2. CASE j < p /\ k < p
    <3>1. j \in 1..Len(s) /\ k \in 1..Len(s) /\ r[j] = s[j] /\ r[k] = s[k]
      BY <1>4, <1>5, <2>2
    <3> QED BY <1>9, <3>1 DEF Lists
  <2>3. CASE j < p /\ k = p
    <3>1. j \in 1..Len(s) /\ r[j] = s[j] /\ r[k] = e
      BY <1>4, <1>5, <2>3
    <3> QED BY <1>6, <2>3, <3>1
  <2>4. CASE j < p /\ p < k
    <3>1. j \in 1..Len(s) /\ k - 1 \in 1..Len(s) /\ r[j] = s[j] /\ r[k] = s[k - 1] /\ j < k - 1
      BY <1>4, <1>5, <2>4
    <3> QED BY <3>1 DEF Lists
  <2>5. CASE j = p
    <3>1. k - 1 \in 1..Len(s) /\ ~(k - 1 < p) /\ r[j] = e /\ r[k] = s[k - 1]
      BY <1>4, <1>5, <1>9, <2>5
    <3> QED BY <1>6, <3>1
  <2>6. CASE p < j
    <3>1. /\ j - 1 \in 1..Len(s) /\ k - 1 \in 1..Len(s) /\ j - 1 < k - 1
          /\ r[j] = s[j - 1] /\ r[k] = s[k - 1]
      BY <1>4, <1>5, <1>9, <2>6
    <3> QED BY <3>1 DEF Lists
  <2> QED BY <1>9, <2>1, <2>2, <2>3, <2>4, <2>5, <2>6
<1>10. Lists(r, S \cup {e})
  BY <1>7, <1>8, <1>9 DEF Lists
<1> QED BY <1>1, <1>5, <1>10

\* NextEvent is the earliest event of a bucket, and Pop takes it out.
LEMMA NextIs ==
  ASSUME NEW s \in Seq(Ev), NEW S \in SUBSET Ev, Lists(s, S), s # <<>>, reversed \in BOOLEAN
  PROVE  /\ NextEvent(s) \in S /\ IsEarliest(NextEvent(s), S)
         /\ Pop(s) \in Seq(Ev) /\ Lists(Pop(s), S \ {NextEvent(s)})
<1> DEFINE i == IF reversed THEN Len(s) ELSE 1
<1>1. Len(s) \in Nat /\ Len(s) > 0 /\ i \in 1..Len(s)
  OBVIOUS
<1>2. NextEvent(s) = s[i]
  BY <1>1 DEF NextEvent, Last
<1>3. /\ Pop(s) \in Seq(Ev) /\ Len(Pop(s)) = Len(s) - 1
      /\ \A k \in 1..Len(s) - 1 : Pop(s)[k] = IF k < i THEN s[k] ELSE s[k + 1]
  <2>1. CASE reversed
    <3>1. PICK a : a = SubSeq(s, 1, Len(s) - 1)
      OBVIOUS
    <3>2. a \in Seq(Ev) /\ Len(a) = Len(s) - 1 /\ \A k \in 1..Len(s) - 1 : a[k] = s[k]
      <4>1. Len(s) - 1 \in Int /\ \A k \in 1..Len(s) - 1 : s[k] \in Ev /\ 1 + k - 1 = k
        BY <1>1
      <4>2. a \in Seq(Ev) /\ Len(a) = (IF 1 <= Len(s) - 1 THEN Len(s) - 1 - 1 + 1 ELSE 0)
        BY <3>1, <4>1, SubSeqProperties
      <4>3. \A k \in 1..Len(s) - 1 : a[k] = s[k]
        BY <3>1, <4>1, SubSeqProperties
      <4>4. PICK n \in Nat : n = Len(s) /\ n > 0
        BY <1>1
      <4>5. Len(a) = n - 1
        BY <4>2, <4>4
      <4> QED BY <4>2, <4>3, <4>4, <4>5
    <3>3. Pop(s) = a
      BY <2>1, <3>1 DEF Pop, Front
    <3> QED BY <1>1, <2>1, <3>2, <3>3
  <2>2. CASE ~reversed
    BY <1>1, <2>2 DEF Pop
  <2> QED BY <2>1, <2>2
<1>4. \A k \in 1..Len(s) : k # i => Less(s[i], s[k])
  BY <1>1 DEF Lists, Order
<1>5. s[i] \in S /\ \A f \in S \ {s[i]} : Less(s[i], f)
  BY <1>1, <1>4 DEF Lists
<1> HIDE DEF i
<1>6. Lists(Pop(s), S \ {s[i]})
  BY <1>1, <1>3, WithoutPlace
<1> QED BY <1>2, <1>3, <1>5, <1>6 DEF IsEarliest

\* The bucket that Remove leaves.
Erased(s, e) == RemoveAt(s, SelectInSeq(s, LAMBDA x : x.uid = e.uid))

\* Remove takes out the event it is given.
LEMMA ErasedIs ==
  ASSUME NEW s \in Seq(Ev), NEW S \in SUBSET Ev, Lists(s, S), Distinct(S), NEW e \in S
  PROVE  Erased(s, e) \in Seq(Ev) /\ Lists(Erased(s, e), S \ {e})
<1> DEFINE I == { i \in 1..Len(s) : s[i].uid = e.uid }
<1>1. Erased(s, e) = RemoveAt(s, IF I # {} THEN Min(I) ELSE 0)
  BY DEF Erased, SelectInSeq
<1>2. I \in SUBSET Nat /\ I # {}
  BY DEF Lists
<1>3. PICK i \in I : i = Min(I)
  BY <1>2, FirstPlace
<1>4. i \in 1..Len(s) /\ s[i] = e
  BY <1>3 DEF Lists, Distinct
<1>5. Erased(s, e) = RemoveAt(s, i)
  BY <1>1, <1>2, <1>3
<1> QED BY <1>4, <1>5, RemovedAt, WithoutPlace

-----------------------------------------------------------------------------
(* Calendars.                                                              *)

Cals == { c \in [ buckets : UNION { [0..n - 1 -> Seq(Ev)] : n \in Nat },
                  n : Nat \ {0}, width : Nat \ {0},
                  lastBucket : Nat, top : Nat, lastPrio : Nat ] :
            c.buckets \in [0..c.n - 1 -> Seq(Ev)] }

\* The events of H that belong in bucket b.
Share(c, H, b) == { e \in H : Hash(c, e.ts) = b }

\* The calendar holds the events of H, each in its bucket, once and in order.
Fills(c, H) ==
  /\ H \in SUBSET Ev /\ Distinct(H)
  /\ \A b \in 0..c.n - 1 : Lists(c.buckets[b], Share(c, H, b))

\* The end of the year of t.
YearEnd(c, t) == (t \div c.width + 1) * c.width

\* The pointer stands at the bucket, and top at the end, of the year of lastPrio.
Points(c) ==
  /\ c.lastBucket = Hash(c, c.lastPrio)
  /\ c.top = YearEnd(c, c.lastPrio)

\* Nothing is earlier than what was removed last.
Ahead(c, H) == \A e \in H : c.lastPrio <= e.ts

\* All but the buckets is as before.
SamePlace(c, d) ==
  /\ d.n = c.n /\ d.width = c.width
  /\ d.lastBucket = c.lastBucket /\ d.top = c.top /\ d.lastPrio = c.lastPrio

\* The buckets are as many and as wide as before.
SameYears(c, d) == d.n = c.n /\ d.width = c.width

LEMMA CalFields ==
  ASSUME NEW c \in Cals
  PROVE  /\ c.n \in Nat /\ c.n # 0 /\ c.width \in Nat /\ c.width # 0
         /\ c.lastBucket \in Nat /\ c.top \in Nat /\ c.lastPrio \in Nat
         /\ c.buckets \in [0..c.n - 1 -> Seq(Ev)]
BY DEF Cals

\* There is a bucket for every time.
LEMMA HashIs ==
  ASSUME NEW c \in Cals, NEW t \in Nat
  PROVE  Hash(c, t) \in 0..c.n - 1
<1>1. t \div c.width \in Nat
  BY CalFields, DivBelow
<1> QED BY <1>1, CalFields, DivMod DEF Hash

WithBucket(c, b, r) == [c EXCEPT !.buckets[b] = r]
PointedAt(c, l, t, p) == [c EXCEPT !.lastPrio = p, !.lastBucket = l, !.top = t]

\* The calendar with another bucket b.
LEMMA Rebucket ==
  ASSUME NEW c \in Cals, NEW b \in 0..c.n - 1, NEW r \in Seq(Ev)
  PROVE  /\ WithBucket(c, b, r) \in Cals /\ SamePlace(c, WithBucket(c, b, r))
         /\ WithBucket(c, b, r).buckets = [c.buckets EXCEPT ![b] = r]
<1> DEFINE d == WithBucket(c, b, r)
           B == UNION { [0..n - 1 -> Seq(Ev)] : n \in Nat }
           R == [ buckets : B, n : Nat \ {0}, width : Nat \ {0},
                  lastBucket : Nat, top : Nat, lastPrio : Nat ]
<1>1. c \in R /\ c.n \in Nat /\ c.buckets \in [0..c.n - 1 -> Seq(Ev)]
  BY DEF Cals
<1>2. [c.buckets EXCEPT ![b] = r] \in [0..c.n - 1 -> Seq(Ev)]
  BY <1>1
<1>3. [c.buckets EXCEPT ![b] = r] \in B
  BY <1>1, <1>2
<1> HIDE DEF B
<1>4. d \in R /\ SamePlace(c, d) /\ d.buckets = [c.buckets EXCEPT ![b] = r]
  BY <1>1, <1>3 DEF SamePlace, WithBucket
<1> HIDE DEF d
<1>5. d \in Cals
  BY <1>2, <1>4 DEF Cals, B, SamePlace
<1> QED BY <1>4, <1>5 DEF d

\* The calendar with its pointer at another place.
Repointed(c, d, l, t, p) ==
  /\ d.n = c.n /\ d.width = c.width /\ d.buckets = c.buckets
  /\ d.lastPrio = p /\ d.lastBucket = l /\ d.top = t

LEMMA Repoint ==
  ASSUME NEW c \in Cals, NEW l \in Nat, NEW t \in Nat, NEW p \in Nat
  PROVE  PointedAt(c, l, t, p) \in Cals /\ Repointed(c, PointedAt(c, l, t, p), l, t, p)
BY DEF Cals, PointedAt, Repointed

\* Where an event belongs depends on the number and the width of the buckets.
LEMMA SameShare ==
  ASSUME NEW c, NEW d, d.n = c.n, d.width = c.width, NEW H, NEW b
  PROVE  Share(d, H, b) = Share(c, H, b)
BY DEF Share, Hash

\* Taking e out of its bucket takes it out of the calendar.
LEMMA TakenOut ==
  ASSUME NEW c \in Cals, NEW H, Fills(c, H), NEW e \in H, NEW r \in Seq(Ev),
         Lists(r, Share(c, H, Hash(c, e.ts)) \ {e}),
         NEW d \in Cals, d.n = c.n, d.width = c.width,
         d.buckets = [c.buckets EXCEPT ![Hash(c, e.ts)] = r]
  PROVE  Fills(d, H \ {e})
<1>1. H \ {e} \in SUBSET Ev /\ Distinct(H \ {e})
  BY DEF Fills, Distinct
<1>2. ASSUME NEW b \in 0..d.n - 1 PROVE Lists(d.buckets[b], Share(d, H \ {e}, b))
  <2>1. Share(d, H \ {e}, b) = Share(c, H, b) \ {e}
    BY DEF Share, Hash
  <2>2. CASE b = Hash(c, e.ts)
    <3>1. d.buckets[b] = r
      BY <1>2, <2>2, CalFields
    <3> QED BY <2>1, <2>2, <3>1
  <2>3. CASE b # Hash(c, e.ts)
    <3>1. d.buckets[b] = c.buckets[b]
      BY <1>2, <2>3, CalFields
    <3>2. Share(c, H, b) \ {e} = Share(c, H, b)
      BY <2>3 DEF Share
    <3>3. Lists(c.buckets[b], Share(c, H, b))
      BY <1>2 DEF Fills
    <3> QED BY <2>1, <3>1, <3>2, <3>3
  <2> QED BY <2>2, <2>3
<1> QED BY <1>1, <1>2 DEF Fills

\* DoInsert adds the event, and moves nothing else.
LEMMA DoInsertIs ==
  ASSUME NEW c \in Cals, NEW H, Fills(c, H), NEW e \in Ev, \A f \in H : f.uid # e.uid
  PROVE  /\ DoInsert(c, e) \in Cals /\ SamePlace(c, DoInsert(c, e))
         /\ Fills(DoInsert(c, e), H \cup {e})
<1> DEFINE h == Hash(c, e.ts)
           r == Placed(c.buckets[h], e)
           d == WithBucket(c, h, r)
<1>1. h \in 0..c.n - 1
  BY HashIs DEF Ev
<1>2. DoInsert(c, e) = d
  BY <1>1 DEF DoInsert, Placed, WithBucket
<1>3. c.buckets[h] \in Seq(Ev) /\ Lists(c.buckets[h], Share(c, H, h))
  BY <1>1, CalFields DEF Fills
<1>4. Share(c, H, h) \in SUBSET Ev /\ \A f \in Share(c, H, h) : f.uid # e.uid
  BY DEF Share, Fills
<1>5. r \in Seq(Ev) /\ Lists(r, Share(c, H, h) \cup {e})
  BY <1>3, <1>4, PlacedIs
<1> HIDE DEF r
<1>6. d \in Cals /\ SamePlace(c, d) /\ d.buckets = [c.buckets EXCEPT ![h] = r]
  BY <1>1, <1>5, Rebucket
<1> HIDE DEF d
<1>7. H \cup {e} \in SUBSET Ev /\ Distinct(H \cup {e})
  BY DEF Fills, Distinct
<1>8. ASSUME NEW b \in 0..d.n - 1 PROVE Lists(d.buckets[b], Share(d, H \cup {e}, b))
  <2>1. /\ b \in 0..c.n - 1
        /\ Share(d, H \cup {e}, b) = IF b = h THEN Share(c, H, b) \cup {e} ELSE Share(c, H, b)
    BY <1>6, <1>8 DEF Share, Hash, SamePlace
  <2>2. d.buckets[b] = IF b = h THEN r ELSE c.buckets[b]
    BY <1>6, <2>1, CalFields
  <2>3. Lists(c.buckets[b], Share(c, H, b))
    BY <2>1 DEF Fills
  <2> HIDE DEF h
  <2> QED BY <1>5, <2>1, <2>2, <2>3
<1> QED BY <1>2, <1>6, <1>7, <1>8 DEF Fills

-----------------------------------------------------------------------------
(* The scan of a year.                                                     *)

\* The calendar without the event e of bucket b, and with its pointer at it.
LEMMA PopsAndPoints ==
  ASSUME NEW c \in Cals, NEW H, Fills(c, H), NEW e \in H, NEW p \in Seq(Ev),
         Lists(p, Share(c, H, Hash(c, e.ts)) \ {e}), NEW d,
         d = PointedAt(WithBucket(c, Hash(c, e.ts), p), Hash(c, e.ts), YearEnd(c, e.ts), e.ts)
  PROVE  /\ d \in Cals /\ Fills(d, H \ {e}) /\ Points(d)
         /\ SameYears(c, d) /\ d.lastPrio = e.ts
<1>0. PICK b : b = Hash(c, e.ts)
  OBVIOUS
<1>1. e.ts \in Nat /\ b \in 0..c.n - 1 /\ b \in Nat
  <2>1. e.ts \in Nat
    BY DEF Fills, Ev
  <2>2. b \in 0..c.n - 1 /\ c.n \in Nat
    BY <1>0, <2>1, HashIs, CalFields
  <2> QED BY <2>1, <2>2
<1>2. PICK t \in Nat : t = YearEnd(c, e.ts)
  <2>1. PICK q \in Nat : q = e.ts \div c.width
    BY <1>1, CalFields, DivBelow
  <2>2. PICK w \in Nat : w = c.width
    BY CalFields
  <2>3. (q + 1) * w \in Nat
    OBVIOUS
  <2> QED BY <2>1, <2>2, <2>3 DEF YearEnd
<1>3. PICK g : g = WithBucket(c, b, p)
  OBVIOUS
<1>4. g \in Cals /\ SamePlace(c, g) /\ g.buckets = [c.buckets EXCEPT ![b] = p]
  BY <1>1, <1>3, Rebucket
<1>5. PICK x \in Nat : x = e.ts /\ d = PointedAt(g, b, t, x)
  BY <1>0, <1>1, <1>2, <1>3
<1>6. /\ d \in Cals /\ d.n = g.n /\ d.width = g.width /\ d.buckets = g.buckets
      /\ d.lastPrio = e.ts /\ d.lastBucket = b /\ d.top = t
  <2>1. g \in Cals /\ b \in Nat /\ t \in Nat /\ x \in Nat
    BY <1>1, <1>4
  <2>2. d \in Cals /\ Repointed(g, d, b, t, x)
    BY <1>5, <2>1, Repoint
  <2> QED BY <1>5, <2>2 DEF Repointed
<1>7. d.n = c.n /\ d.width = c.width
  BY <1>4, <1>6 DEF SamePlace
<1>8. Fills(d, H \ {e})
  <2>1. /\ Lists(p, Share(c, H, Hash(c, e.ts)) \ {e})
        /\ d.buckets = [c.buckets EXCEPT ![Hash(c, e.ts)] = p]
    BY <1>0, <1>4, <1>6
  <2> QED BY <1>6, <1>7, <2>1, TakenOut
<1>9. Points(d)
  BY <1>0, <1>2, <1>6, <1>7 DEF Points, Hash, YearEnd
<1> QED BY <1>6, <1>7, <1>8, <1>9 DEF SameYears

\* DoRemoveNext takes out the earliest event, and points at its year.
LEMMA DoRemoveNextIs ==
  ASSUME NEW c \in Cals, NEW H, Fills(c, H), Points(c), Ahead(c, H), H # {},
         reversed \in BOOLEAN, NEW r, r = DoRemoveNext(c)
  PROVE  /\ r.event \in H /\ IsEarliest(r.event, H)
         /\ r.cal \in Cals /\ Fills(r.cal, H \ {r.event}) /\ Points(r.cal)
         /\ SameYears(c, r.cal) /\ r.cal.lastPrio = r.event.ts
<1> DEFINE w == c.width
           N == 0..c.n - 1
           L == c.lastPrio \div w
           bucket(k) == (c.lastBucket + k) % c.n
           full == { k \in N : c.buckets[bucket(k)] # <<>> }
           first(k) == NextEvent(c.buckets[bucket(k)])
           hits == { k \in full : first(k).ts < c.top + k * w }
           at == IF hits # {} THEN Min(hits)
                 ELSE CHOOSE x \in full : IsEarliest(first(x), { first(y) : y \in full })
<1>1. /\ c.n \in Nat \ {0} /\ w \in Nat \ {0} /\ L \in Nat /\ c.lastPrio \in Nat
      /\ c.top = (L + 1) * w /\ c.lastBucket = L % c.n
  BY CalFields, DivBelow DEF Points, Hash, YearEnd
<1>2. H \in SUBSET Ev /\ \A e \in H : e.ts \in Nat /\ e.ts \div w \in Nat /\ L <= e.ts \div w
  <2> SUFFICES ASSUME NEW e \in H
               PROVE  e \in Ev /\ e.ts \in Nat /\ e.ts \div w \in Nat /\ L <= e.ts \div w
    OBVIOUS
  <2>1. e \in Ev /\ e.ts \in Nat /\ c.lastPrio <= e.ts
    BY DEF Fills, Ahead, Ev
  <2> HIDE DEF L
  <2>2. e.ts \div w \in Nat /\ \A q \in Nat : e.ts < q * w <=> e.ts \div w < q
    BY <1>1, <2>1, DivBelow
  <2>3. \A q \in Nat : c.lastPrio < q * w <=> L < q
    BY <1>1, DivBelow DEF L
  <2>4. PICK q \in Nat : q = e.ts \div w
    BY <2>2
  <2>5. e.ts < (q + 1) * w
    BY <2>2, <2>4
  <2>6. (q + 1) * w \in Nat /\ q + 1 \in Nat
    BY <1>1
  <2>7. c.lastPrio < (q + 1) * w
    BY <1>1, <2>1, <2>5, <2>6
  <2>8. L < q + 1
    BY <2>3, <2>6, <2>7
  <2> QED BY <1>1, <2>1, <2>4, <2>8
<1>3. ASSUME NEW k \in Nat PROVE bucket(k) = (L + k) % c.n /\ bucket(k) \in N
  <2> HIDE DEF L
  <2>1. bucket(k) = ((L % c.n) + k) % c.n
    BY <1>1
  <2>2. ((L % c.n) + k) % c.n = (L + k) % c.n
    BY <1>1, Steps
  <2>3. L + k \in Nat
    BY <1>1
  <2>4. (L + k) % c.n \in N
    BY <1>1, <2>3, DivMod
  <2> QED BY <2>1, <2>2, <2>4
<1>4. \A e \in H, k \in Nat : e.ts < c.top + k * w <=> e.ts \div w < L + 1 + k
  <2> SUFFICES ASSUME NEW e \in H, NEW k \in Nat
               PROVE  e.ts < c.top + k * w <=> e.ts \div w < L + 1 + k
    OBVIOUS
  <2> HIDE DEF L, w
  <2>1. c.top + k * w = (L + 1 + k) * w /\ L + 1 + k \in Nat
    BY <1>1
  <2> QED BY <1>1, <1>2, <2>1, DivBelow
<1>5. \A e \in H : Hash(c, e.ts) \in N /\ Hash(c, e.ts) = (e.ts \div w) % c.n
  BY <1>2, HashIs DEF Hash
<1> HIDE DEF L, w
<1>6. ASSUME NEW k \in full
      PROVE  /\ first(k) \in Share(c, H, bucket(k)) /\ first(k) \in H
             /\ Hash(c, first(k).ts) = bucket(k)
             /\ IsEarliest(first(k), Share(c, H, bucket(k)))
             /\ Pop(c.buckets[bucket(k)]) \in Seq(Ev)
             /\ Lists(Pop(c.buckets[bucket(k)]), Share(c, H, bucket(k)) \ {first(k)})
  <2>1. PICK b \in N : b = bucket(k)
    BY <1>3
  <2>2. c.buckets[b] \in Seq(Ev) /\ c.buckets[b] # <<>> /\ Lists(c.buckets[b], Share(c, H, b))
    BY <2>1, CalFields DEF Fills
  <2>3. Share(c, H, b) \in SUBSET Ev /\ \A e \in Share(c, H, b) : e \in H /\ Hash(c, e.ts) = b
    BY <1>2 DEF Share
  <2> QED BY <2>1, <2>2, <2>3, NextIs
<1>7. ASSUME NEW e \in H, NEW k \in N, Hash(c, e.ts) = bucket(k)
      PROVE  k \in full /\ (e = first(k) \/ Less(first(k), e))
  <2>1. e \in Share(c, H, bucket(k)) /\ bucket(k) \in N
    BY <1>3, <1>7 DEF Share
  <2>2. c.buckets[bucket(k)] # <<>>
    BY <2>1 DEF Fills, Lists
  <2> HIDE DEF bucket, first
  <2> QED BY <1>6, <2>1, <2>2 DEF IsEarliest
<1> HIDE DEF bucket, first
<1>8. /\ at \in full
      /\ hits # {} => at \in hits /\ \A k \in hits : at <= k
      /\ IsEarliest(first(at), H)
  <2>1. CASE hits # {}
    <3>1. at \in hits /\ (\A k \in hits : at <= k) /\ at \in full /\ at \in N
      <4>1. hits \in SUBSET Nat
        BY <1>1
      <4> QED BY <2>1, <4>1, FirstPlace
    <3> HIDE DEF at
    <3>2. PICK e \in H : e = first(at)
      BY <1>6, <3>1
    <3>3. e.ts \div w < L + 1 + at /\ at \in Nat
      BY <1>1, <1>4, <3>1, <3>2
    <3>4. PICK j \in N : e.ts \div w = L + j
      <4>1. PICK q \in Nat : q = e.ts \div w
        BY <1>2
      <4>2. L <= q /\ q < L + 1 + at
        BY <1>2, <3>3, <4>1
      <4>3. q - L \in N /\ q = L + (q - L)
        BY <1>1, <3>1, <4>2
      <4> QED BY <4>1, <4>3
    <3>5. j = at
      <4>1. (L + j) % c.n = (L + at) % c.n
        BY <1>3, <1>5, <1>6, <3>1, <3>2, <3>3, <3>4
      <4> QED BY <1>1, <3>1, <4>1, StepsDiffer
    <3>6. ASSUME NEW f \in H \ {e} PROVE Less(e, f)
      <4>1. PICK m \in Nat : f.ts \div w = L + m
        <5>1. PICK q \in Nat : q = f.ts \div w
          BY <1>2
        <5>2. L <= q /\ q - L \in Nat /\ q = L + (q - L)
          BY <1>1, <1>2, <5>1
        <5> QED BY <5>1, <5>2
      <4>2. CASE m < at
        <5>1. m \in N
          BY <1>1, <3>1, <3>3, <4>2
        <5>2. Hash(c, f.ts) = bucket(m)
          BY <1>3, <1>5, <4>1
        <5>3. m \in full /\ (f = first(m) \/ Less(first(m), f)) /\ first(m) \in H
          BY <1>6, <1>7, <5>1, <5>2
        <5>4. f.ts < c.top + m * w
          <6>1. f.ts \div w < L + 1 + m
            BY <1>1, <4>1
          <6> QED BY <1>4, <6>1
        <5>5. first(m).ts <= f.ts
          BY <1>2, <5>3, Orders
        <5>6. c.top + m * w \in Nat /\ first(m).ts \in Nat /\ f.ts \in Nat
          BY <1>1, <1>2, <5>3
        <5>7. m \in hits
          BY <5>3, <5>4, <5>5, <5>6
        <5> QED BY <3>1, <3>3, <4>2, <5>7
      <4>3. CASE m = at
        <5>1. Hash(c, f.ts) = bucket(at)
          BY <1>3, <1>5, <4>1, <4>3
        <5> QED BY <1>7, <3>1, <3>2, <3>6, <5>1
      <4>4. CASE at < m
        <5>1. ~(f.ts < c.top + at * w)
          <6>1. ~(f.ts \div w < L + 1 + at)
            BY <1>1, <3>3, <4>1, <4>4
          <6> QED BY <1>4, <3>3, <6>1
        <5>2. e.ts < c.top + at * w
          BY <3>1, <3>2
        <5>3. c.top + at * w \in Nat /\ e.ts \in Nat /\ f.ts \in Nat
          BY <1>1, <1>2, <3>3
        <5>4. e.ts < f.ts
          BY <5>1, <5>2, <5>3
        <5> QED BY <1>2, <5>4, Orders
      <4> QED BY <3>3, <4>2, <4>3, <4>4
    <3> QED BY <3>1, <3>2, <3>6 DEF IsEarliest
  <2>2. CASE hits = {}
    <3>1. ASSUME NEW e \in H PROVE \E k \in N : Hash(c, e.ts) = bucket(k)
      <4>1. PICK k \in N : (L + k) % c.n = Hash(c, e.ts)
        BY <1>1, <1>5, StepsReach
      <4>2. k \in Nat
        BY <1>1
      <4> QED BY <1>3, <4>1, <4>2
    <3>2. PICK e \in H : IsEarliest(e, H)
      BY <1>2, EarliestExists DEF Fills
    <3>3. PICK k \in full : e = first(k)
      <4>1. PICK k \in N : Hash(c, e.ts) = bucket(k)
        BY <3>1
      <4>2. k \in full /\ (e = first(k) \/ Less(first(k), e)) /\ first(k) \in H
        BY <1>6, <1>7, <4>1
      <4>3. e # first(k) => Less(e, first(k))
        BY <3>2, <4>2 DEF IsEarliest
      <4>4. e = first(k)
        BY <1>2, <4>2, <4>3, Orders
      <4> QED BY <4>2, <4>4
    <3>4. IsEarliest(first(k), { first(y) : y \in full })
      BY <1>6, <3>2, <3>3 DEF IsEarliest
    <3>5. at \in full /\ IsEarliest(first(at), { first(y) : y \in full })
      BY <2>2, <3>4
    <3> HIDE DEF at
    <3>6. e = first(at)
      <4>1. first(at) \in H
        BY <1>6, <3>5
      <4>2. e # first(at) => Less(e, first(at)) /\ Less(first(at), e)
        BY <3>2, <3>3, <3>5, <4>1 DEF IsEarliest
      <4> QED BY <1>2, <4>1, <4>2, Orders
    <3> QED BY <2>2, <3>2, <3>5, <3>6
  <2> QED BY <2>1, <2>2
<1> DEFINE e == first(at)
           b == bucket(at)
           d == [c EXCEPT !.buckets[b] = Pop(@), !.lastPrio = e.ts,
                          !.lastBucket = IF hits # {} THEN b ELSE Hash(c, e.ts),
                          !.top = IF hits # {} THEN c.top + at * w
                                  ELSE (e.ts \div w + 1) * w]
<1>9. r = [event |-> e, cal |-> d]
  BY DEF DoRemoveNext, bucket, first, w
<1> HIDE DEF at, hits
<1>10. e \in H /\ b \in N /\ b = Hash(c, e.ts)
  <2>1. at \in full /\ at \in Nat
    BY <1>1, <1>8
  <2>2. first(at) \in H /\ Hash(c, first(at).ts) = bucket(at)
    BY <1>6, <2>1
  <2> QED BY <1>3, <2>1, <2>2
<1> HIDE DEF e, b
<1>11. e.ts \in Nat /\ e.ts \div w \in Nat
  BY <1>2, <1>10
<1>12. hits # {} => c.top + at * w = (e.ts \div w + 1) * w
  <2> SUFFICES ASSUME hits # {} PROVE c.top + at * w = (e.ts \div w + 1) * w
    OBVIOUS
  <2>1. at \in N /\ e.ts < c.top + at * w
    BY <1>8 DEF hits, e
  <2>2. PICK q \in Nat : q = e.ts \div w
    BY <1>11
  <2>3. L <= q /\ q < L + 1 + at /\ at \in Nat
    BY <1>1, <1>2, <1>4, <1>10, <2>1, <2>2
  <2>4. (L + at) % c.n = (L + (q - L)) % c.n
    BY <1>1, <1>3, <1>5, <1>10, <2>2, <2>3 DEF b
  <2>5. q - L \in N
    BY <1>1, <2>1, <2>3
  <2>6. q - L = at
    BY <1>1, <2>1, <2>4, <2>5, StepsDiffer
  <2>7. q + 1 = L + 1 + at
    BY <1>1, <2>6
  <2>8. c.top + at * w = (L + 1 + at) * w
    BY <1>1, <2>3
  <2> QED BY <2>2, <2>7, <2>8
<1>13. PICK p \in Seq(Ev) :
         /\ Lists(p, Share(c, H, b) \ {e})
         /\ d = PointedAt(WithBucket(c, b, p), b, (e.ts \div w + 1) * w, e.ts)
  <2>1. d = PointedAt(WithBucket(c, b, Pop(c.buckets[b])), b, (e.ts \div w + 1) * w, e.ts)
    BY <1>10, <1>12 DEF PointedAt, WithBucket
  <2>2. Pop(c.buckets[b]) \in Seq(Ev) /\ Lists(Pop(c.buckets[b]), Share(c, H, b) \ {e})
    BY <1>6, <1>8 DEF b, e
  <2> QED BY <2>1, <2>2
<1>14. /\ Lists(p, Share(c, H, Hash(c, e.ts)) \ {e})
       /\ d = PointedAt(WithBucket(c, Hash(c, e.ts), p), Hash(c, e.ts), YearEnd(c, e.ts), e.ts)
  BY <1>10, <1>13 DEF w, YearEnd
<1> HIDE DEF d
<1>15. /\ d \in Cals /\ Fills(d, H \ {e}) /\ Points(d)
       /\ SameYears(c, d) /\ d.lastPrio = e.ts
  <2>1. PICK f \in H : f = e
    BY <1>10
  <2>2. PICK g : g = d
    OBVIOUS
  <2>3. /\ Lists(p, Share(c, H, Hash(c, f.ts)) \ {f})
        /\ g = PointedAt(WithBucket(c, Hash(c, f.ts), p), Hash(c, f.ts), YearEnd(c, f.ts), f.ts)
    BY <1>14, <2>1, <2>2
  <2>4. g \in Cals /\ Fills(g, H \ {f}) /\ Points(g)
    BY <2>3, PopsAndPoints
  <2>5. SameYears(c, g)
    BY <2>3, PopsAndPoints
  <2>6. g.lastPrio = f.ts
    BY <2>3, PopsAndPoints
  <2> QED BY <2>1, <2>2, <2>4, <2>5, <2>6
<1>16. IsEarliest(e, H)
  BY <1>8 DEF e
<1>17. r.event = e /\ r.cal = d
  BY <1>9
<1> QED BY <1>10, <1>15, <1>16, <1>17

-----------------------------------------------------------------------------
(* The loops.                                                              *)

\* The calendar holds H, and is ready to hand back the earliest of it.
Ready(c, H) == c \in Cals /\ Fills(c, H) /\ Points(c) /\ Ahead(c, H)

\* Draining a calendar leaves it ready for the rest.
LEMMA DrawIs ==
  ASSUME NEW c, NEW H, Ready(c, H), H # {}, reversed \in BOOLEAN, NEW r, r = DoRemoveNext(c)
  PROVE  /\ r.event \in H /\ IsEarliest(r.event, H) /\ Ready(r.cal, H \ {r.event})
         /\ SameYears(c, r.cal) /\ r.cal.lastPrio = r.event.ts
         /\ r = [event |-> r.event, cal |-> r.cal]
<1>1. c \in Cals /\ Fills(c, H) /\ Points(c) /\ Ahead(c, H)
  BY DEF Ready
<1>2. /\ r.event \in H /\ IsEarliest(r.event, H)
      /\ r.cal \in Cals /\ Fills(r.cal, H \ {r.event}) /\ Points(r.cal)
      /\ SameYears(c, r.cal) /\ r.cal.lastPrio = r.event.ts
  BY <1>1, DoRemoveNextIs
<1>3. r = [event |-> r.event, cal |-> r.cal]
  BY DEF DoRemoveNext
<1>4. Ahead(r.cal, H \ {r.event})
  <2>1. H \in SUBSET Ev
    BY <1>1 DEF Fills
  <2>2. ASSUME NEW f \in H \ {r.event} PROVE r.event.ts <= f.ts
    BY <1>2, <2>1, Orders DEF IsEarliest
  <2> QED BY <1>2, <2>2 DEF Ahead
<1> QED BY <1>2, <1>3, <1>4 DEF Ready

\* The first k events of s.
ItemsTo(s, k) == { s[i] : i \in 1..k }

\* The events of s have uids of their own.
NewUids(s, H) ==
  \A i \in 1..Len(s) : /\ \A f \in H : f.uid # s[i].uid
                       /\ \A j \in 1..Len(s) : s[j].uid = s[i].uid => j = i

\* x is c with the first k events of s put in.
FilledTo(c, H, s, k, x) == x \in Cals /\ SamePlace(c, x) /\ Fills(x, H \cup ItemsTo(s, k))

LEMMA FillStep ==
  ASSUME NEW c, NEW H, NEW s \in Seq(Ev), NewUids(s, H), NEW k \in 1..Len(s), NEW x,
         FilledTo(c, H, s, k - 1, x)
  PROVE  FilledTo(c, H, s, k, DoInsert(x, s[k]))
<1> DEFINE K == H \cup ItemsTo(s, k - 1)
<1>1. x \in Cals /\ SamePlace(c, x) /\ Fills(x, K)
  BY DEF FilledTo
<1>2. s[k] \in Ev
  OBVIOUS
<1>3. ASSUME NEW f \in K PROVE f.uid # s[k].uid
  <2>1. CASE f \in H
    BY <2>1 DEF NewUids
  <2>2. CASE f \in ItemsTo(s, k - 1)
    <3>1. PICK i \in 1..k - 1 : f = s[i]
      BY <2>2 DEF ItemsTo
    <3>2. i \in 1..Len(s) /\ i # k
      BY <3>1
    <3> QED BY <3>1, <3>2 DEF NewUids
  <2> QED BY <2>1, <2>2
<1>4. H \cup ItemsTo(s, k) = K \cup {s[k]}
  <2>1. \A i : i \in 1..k <=> i \in 1..k - 1 \/ i = k
    OBVIOUS
  <2> QED BY <2>1 DEF ItemsTo
<1> HIDE DEF K
<1>5. PICK y : y = DoInsert(x, s[k])
  OBVIOUS
<1>6. y \in Cals /\ SamePlace(x, y) /\ Fills(y, K \cup {s[k]})
  BY <1>1, <1>2, <1>3, <1>5, DoInsertIs
<1>7. SamePlace(c, y)
  BY <1>1, <1>6 DEF SamePlace
<1> QED BY <1>4, <1>5, <1>6, <1>7 DEF FilledTo

\* InsertAll puts in all events, and moves nothing else.
LEMMA InsertAllIs ==
  ASSUME NEW c \in Cals, NEW H, Fills(c, H), NEW s \in Seq(Ev), NewUids(s, H)
  PROVE  FilledTo(c, H, s, Len(s), InsertAll(c, s))
<1> DEFINE N == Len(s)
           filled[k \in 0..N] == IF k = 0 THEN c ELSE DoInsert(filled[k - 1], s[k])
<1>1. InsertAll(c, s) = filled[N]
  BY DEF InsertAll
<1>2. N \in Nat
  OBVIOUS
<1>3. FilledTo(c, H, s, 0, c)
  <2>1. H \cup ItemsTo(s, 0) = H
    BY DEF ItemsTo
  <2> QED BY <2>1 DEF FilledTo, SamePlace
<1>4. filled = [k \in 0..N |-> IF k = 0 THEN c ELSE DoInsert(filled[k - 1], s[k])]
  <2>1. PICK T : T = [k \in 0..N |-> { x \in Cals : FilledTo(c, H, s, k, x) }]
    OBVIOUS
  <2>2. PICK G : G = [k \in 1..N |-> [x \in Cals |-> DoInsert(x, s[k])]]
    OBVIOUS
  <2>3. c \in T[0]
    BY <1>2, <1>3, <2>1
  <2>4. ASSUME NEW k \in 1..N, NEW x \in T[k - 1]
        PROVE  G[k][x] \in T[k] /\ G[k][x] = DoInsert(x, s[k])
    <3>1. k - 1 \in 0..N /\ k \in 0..N
      BY <1>2
    <3>2. x \in Cals /\ FilledTo(c, H, s, k - 1, x)
      BY <2>1, <3>1
    <3>3. FilledTo(c, H, s, k, DoInsert(x, s[k]))
      BY <3>2, FillStep
    <3>4. DoInsert(x, s[k]) \in Cals
      BY <3>3 DEF FilledTo
    <3> QED BY <2>1, <2>2, <3>1, <3>2, <3>3, <3>4
  <2>5. PICK f : /\ f = [k \in 0..N |-> IF k = 0 THEN c ELSE G[k][f[k - 1]]]
                 /\ \A k \in 0..N : f[k] \in T[k]
    <3>1. Leads(G, N, T)
      BY <2>4 DEF Leads
    <3>2. PICK f : IsLoop(f, N, c, G) /\ Stays(f, N, T)
      BY <1>2, <2>3, <3>1, LoopExists
    <3> QED BY <3>2 DEF IsLoop, Stays
  <2>6. \A k \in 0..N : k # 0 => k \in 1..N /\ k - 1 \in 0..N
    BY <1>2
  <2>7. \A k \in 0..N : k # 0 => G[k][f[k - 1]] = DoInsert(f[k - 1], s[k])
    BY <2>4, <2>5, <2>6
  <2>8. f = [k \in 0..N |-> IF k = 0 THEN c ELSE DoInsert(f[k - 1], s[k])]
    BY <2>5, <2>7
  <2> QED BY <2>8
<1> HIDE DEF filled
<1>5. filled[0] = c /\ \A k \in 0..N - 1 : filled[k + 1] = DoInsert(filled[k], s[k + 1])
  <2>1. 0 \in 0..N /\ \A k \in 0..N - 1 : k + 1 \in 0..N /\ k + 1 # 0 /\ (k + 1) - 1 = k
    BY <1>2
  <2> QED BY <1>4, <2>1
<1> DEFINE R == { k \in 0..N : FilledTo(c, H, s, k, filled[k]) }
<1>6. 0 \in R
  BY <1>2, <1>3, <1>5
<1>7. ASSUME NEW k \in 0..N - 1, k \in R PROVE k + 1 \in R
  <2>1. k + 1 \in 1..N /\ k + 1 \in 0..N /\ (k + 1) - 1 = k
    BY <1>2
  <2>2. FilledTo(c, H, s, k + 1, DoInsert(filled[k], s[k + 1]))
    BY <1>7, <2>1, FillStep
  <2> QED BY <1>5, <2>1, <2>2
<1> HIDE DEF R
<1>8. N \in R
  BY <1>2, <1>6, <1>7, Climb
<1> QED BY <1>1, <1>8 DEF R

\* A new calendar is empty and ready.
LEMMA EmptyIs ==
  ASSUME NEW n \in Nat \ {0}, NEW width \in Nat \ {0}, NEW p \in Nat, NEW c, c = Empty(n, width, p)
  PROVE  Ready(c, {}) /\ c.n = n /\ c.width = width /\ c.lastPrio = p
<1>1. PICK q \in Nat : q = p \div width
  BY DivBelow
<1>2. q % n \in Nat /\ (q + 1) * width \in Nat
  BY DivMod
<1>3. [b \in 0..n - 1 |-> <<>>] \in [0..n - 1 -> Seq(Ev)]
  OBVIOUS
<1>4. /\ c.buckets = [b \in 0..n - 1 |-> <<>>] /\ c.n = n /\ c.width = width
      /\ c.lastBucket = q % n /\ c.top = (q + 1) * width /\ c.lastPrio = p
  BY <1>1 DEF Empty
<1>5. c \in Cals
  <2>1. [b \in 0..n - 1 |-> <<>>] \in UNION { [0..m - 1 -> Seq(Ev)] : m \in Nat }
    BY <1>3
  <2> QED BY <1>1, <1>2, <1>3, <2>1 DEF Cals, Empty
<1>6. Fills(c, {})
  <2>1. ASSUME NEW b \in 0..n - 1 PROVE Lists(c.buckets[b], Share(c, {}, b))
    <3>1. c.buckets[b] = <<>> /\ Share(c, {}, b) = {}
      BY <1>4 DEF Share
    <3> QED BY <3>1 DEF Lists
  <2> QED BY <1>4, <2>1 DEF Fills, Distinct
<1>7. Points(c) /\ Ahead(c, {})
  BY <1>1, <1>4 DEF Points, Ahead, Hash, YearEnd
<1> QED BY <1>4, <1>5, <1>6, <1>7 DEF Ready

-----------------------------------------------------------------------------
(* Resizing.                                                               *)

\* The events of the first b buckets.
InFirst(c, H, b) == { e \in H : Hash(c, e.ts) < b }

\* x holds what the first b buckets of c held, and is ready otherwise.
MovedTo(c, H, b, o, x) == x \in Cals /\ SamePlace(o, x) /\ Fills(x, InFirst(c, H, b))

LEMMA MoveStep ==
  ASSUME NEW c \in Cals, NEW H, Fills(c, H), NEW b \in 1..c.n, NEW o, NEW x,
         MovedTo(c, H, b - 1, o, x)
  PROVE  MovedTo(c, H, b, o, InsertAll(x, c.buckets[b - 1]))
<1> DEFINE s == c.buckets[b - 1]
           K == InFirst(c, H, b - 1)
<1>1. b - 1 \in 0..c.n - 1 /\ s \in Seq(Ev) /\ Lists(s, Share(c, H, b - 1))
  <2>1. b - 1 \in 0..c.n - 1
    BY CalFields
  <2> QED BY <2>1, CalFields DEF Fills
<1>2. x \in Cals /\ SamePlace(o, x) /\ Fills(x, K)
  BY DEF MovedTo
<1>3. H \in SUBSET Ev /\ Distinct(H)
  BY DEF Fills
<1>4. \A e \in H : Hash(c, e.ts) \in Int
  <2> SUFFICES ASSUME NEW e \in H PROVE Hash(c, e.ts) \in Int
    OBVIOUS
  <2>1. e.ts \in Nat
    BY <1>3 DEF Ev
  <2> QED BY <2>1, HashIs, CalFields
<1>5. \A i \in 1..Len(s) : s[i] \in H /\ Hash(c, s[i].ts) = b - 1 /\ s[i] \in Ev
  BY <1>1, <1>3 DEF Lists, Share
<1>6. NewUids(s, K)
  <2>1. ASSUME NEW i \in 1..Len(s), NEW f \in K PROVE f.uid # s[i].uid
    <3>1. f \in H /\ Hash(c, f.ts) < b - 1 /\ s[i] \in H /\ Hash(c, s[i].ts) = b - 1
      BY <1>5 DEF InFirst
    <3>2. f # s[i]
      BY <1>4, <3>1
    <3> QED BY <1>3, <3>1, <3>2 DEF Distinct
  <2>2. ASSUME NEW i \in 1..Len(s), NEW j \in 1..Len(s), s[j].uid = s[i].uid PROVE j = i
    <3>1. s[j] = s[i]
      BY <1>3, <1>5, <2>2 DEF Distinct
    <3>2. ~Order(s[i], s[j]) /\ ~Order(s[j], s[i])
      BY <1>5, <3>1, Orders
    <3>3. ~(i < j) /\ ~(j < i)
      BY <1>1, <3>2 DEF Lists
    <3> QED BY <3>3
  <2> QED BY <2>1, <2>2 DEF NewUids
<1>7. K \cup ItemsTo(s, Len(s)) = InFirst(c, H, b)
  <2>1. ItemsTo(s, Len(s)) = Share(c, H, b - 1)
    BY <1>1 DEF ItemsTo, Lists
  <2>2. \A e \in H : Hash(c, e.ts) < b <=> Hash(c, e.ts) < b - 1 \/ Hash(c, e.ts) = b - 1
    BY <1>4
  <2> QED BY <2>1, <2>2 DEF InFirst, Share
<1> HIDE DEF s, K
<1>8. PICK y : y = InsertAll(x, s)
  OBVIOUS
<1>9. FilledTo(x, K, s, Len(s), y)
  BY <1>1, <1>2, <1>6, <1>8, InsertAllIs
<1>10. y \in Cals /\ SamePlace(x, y) /\ Fills(y, InFirst(c, H, b))
  BY <1>7, <1>9 DEF FilledTo
<1>11. SamePlace(o, y)
  BY <1>2, <1>10 DEF SamePlace
<1> QED BY <1>8, <1>10, <1>11 DEF MovedTo, s

\* DoResize moves all events over.
LEMMA DoResizeIs ==
  ASSUME NEW c, NEW H, Ready(c, H), NEW n \in Nat \ {0}, NEW width \in Nat \ {0}
  PROVE  /\ Ready(DoResize(c, n, width), H) /\ DoResize(c, n, width).n = n
         /\ DoResize(c, n, width).lastPrio = c.lastPrio
<1> DEFINE N == c.n
           o == Empty(n, width, c.lastPrio)
           moved[b \in 0..N] == IF b = 0 THEN o ELSE InsertAll(moved[b - 1], c.buckets[b - 1])
<1>1. DoResize(c, n, width) = moved[N]
  BY DEF DoResize
<1>2. c \in Cals /\ Fills(c, H) /\ Ahead(c, H) /\ c.lastPrio \in Nat /\ N \in Nat
  BY CalFields DEF Ready
<1>3. \A e \in H : Hash(c, e.ts) \in 0..N - 1
  <2> SUFFICES ASSUME NEW e \in H PROVE Hash(c, e.ts) \in 0..N - 1
    OBVIOUS
  <2>1. e.ts \in Nat
    BY <1>2 DEF Fills, Ev
  <2> QED BY <1>2, <2>1, HashIs
<1> HIDE DEF o
<1>4. Ready(o, {}) /\ o.n = n /\ o.width = width /\ o.lastPrio = c.lastPrio
  BY <1>2, EmptyIs DEF o
<1>5. MovedTo(c, H, 0, o, o)
  <2>1. InFirst(c, H, 0) = {}
    BY <1>2, <1>3 DEF InFirst
  <2> QED BY <1>4, <2>1 DEF MovedTo, Ready, SamePlace
<1>6. moved = [b \in 0..N |-> IF b = 0 THEN o ELSE InsertAll(moved[b - 1], c.buckets[b - 1])]
  <2>1. PICK T : T = [b \in 0..N |-> { x \in Cals : MovedTo(c, H, b, o, x) }]
    OBVIOUS
  <2>2. PICK G : G = [b \in 1..N |-> [x \in Cals |-> InsertAll(x, c.buckets[b - 1])]]
    OBVIOUS
  <2>3. o \in T[0]
    BY <1>2, <1>4, <1>5, <2>1 DEF Ready
  <2>4. ASSUME NEW b \in 1..N, NEW x \in T[b - 1]
        PROVE  G[b][x] \in T[b] /\ G[b][x] = InsertAll(x, c.buckets[b - 1])
    <3>1. b - 1 \in 0..N /\ b \in 0..N
      BY <1>2
    <3>2. x \in Cals /\ MovedTo(c, H, b - 1, o, x)
      BY <2>1, <3>1
    <3>3. MovedTo(c, H, b, o, InsertAll(x, c.buckets[b - 1]))
      BY <1>2, <3>2, MoveStep
    <3>4. InsertAll(x, c.buckets[b - 1]) \in Cals
      BY <3>3 DEF MovedTo
    <3> QED BY <2>1, <2>2, <3>1, <3>2, <3>3, <3>4
  <2>5. PICK f : /\ f = [b \in 0..N |-> IF b = 0 THEN o ELSE G[b][f[b - 1]]]
                 /\ \A b \in 0..N : f[b] \in T[b]
    <3>1. Leads(G, N, T)
      BY <2>4 DEF Leads
    <3>2. PICK f : IsLoop(f, N, o, G) /\ Stays(f, N, T)
      BY <1>2, <2>3, <3>1, LoopExists
    <3> QED BY <3>2 DEF IsLoop, Stays
  <2>6. \A b \in 0..N : b # 0 => b \in 1..N /\ b - 1 \in 0..N
    BY <1>2
  <2>7. \A b \in 0..N : b # 0 => G[b][f[b - 1]] = InsertAll(f[b - 1], c.buckets[b - 1])
    BY <2>4, <2>5, <2>6
  <2>8. f = [b \in 0..N |-> IF b = 0 THEN o ELSE InsertAll(f[b - 1], c.buckets[b - 1])]
    BY <2>5, <2>7
  <2> QED BY <2>8
<1> HIDE DEF moved
<1>7. moved[0] = o /\ \A b \in 0..N - 1 : moved[b + 1] = InsertAll(moved[b], c.buckets[b])
  <2>1. 0 \in 0..N /\ \A b \in 0..N - 1 : b + 1 \in 0..N /\ b + 1 # 0 /\ (b + 1) - 1 = b
    BY <1>2
  <2> QED BY <1>6, <2>1
<1> DEFINE R == { b \in 0..N : MovedTo(c, H, b, o, moved[b]) }
<1>8. 0 \in R
  BY <1>2, <1>5, <1>7
<1>9. ASSUME NEW b \in 0..N - 1, b \in R PROVE b + 1 \in R
  <2>1. b + 1 \in 1..N /\ b + 1 \in 0..N /\ (b + 1) - 1 = b
    BY <1>2
  <2>2. MovedTo(c, H, b + 1, o, InsertAll(moved[b], c.buckets[b]))
    BY <1>2, <1>9, <2>1, MoveStep
  <2> QED BY <1>7, <2>1, <2>2
<1> HIDE DEF R
<1>10. N \in R
  BY <1>2, <1>8, <1>9, Climb
<1>11. PICK x : x = moved[N]
  OBVIOUS
<1>12. x \in Cals /\ SamePlace(o, x) /\ Fills(x, H)
  <2>1. MovedTo(c, H, N, o, x)
    BY <1>10, <1>11 DEF R
  <2>2. InFirst(c, H, N) = H
    BY <1>2, <1>3 DEF InFirst
  <2> QED BY <2>1, <2>2 DEF MovedTo
<1>13. x.n = n /\ x.lastPrio = c.lastPrio
  BY <1>4, <1>12 DEF SamePlace
<1>14. Points(x) /\ Ahead(x, H)
  BY <1>2, <1>4, <1>12, <1>13 DEF Ready, Points, SamePlace, Hash, YearEnd, Ahead
<1> QED BY <1>1, <1>11, <1>12, <1>13, <1>14 DEF Ready

\* A sum of natural numbers is one.
LEMMA TotalIs ==
  ASSUME NEW gaps \in Seq(Nat)
  PROVE  Total(gaps) \in Nat
<1> DEFINE N == Len(gaps)
           sum[i \in 0..N] == IF i = 0 THEN 0 ELSE sum[i - 1] + gaps[i]
<1>1. Total(gaps) = sum[N]
  BY DEF Total
<1>2. N \in Nat /\ \A i \in 1..N : gaps[i] \in Nat
  OBVIOUS
<1>3. sum = [i \in 0..N |-> IF i = 0 THEN 0 ELSE sum[i - 1] + gaps[i]]
  <2>1. PICK T : T = [i \in 0..N |-> Nat]
    OBVIOUS
  <2>2. PICK G : G = [i \in 1..N |-> [x \in Nat |-> x + gaps[i]]]
    OBVIOUS
  <2>3. 0 \in T[0] /\ \A i \in 0..N : T[i] = Nat
    BY <1>2, <2>1
  <2>4. \A i \in 1..N : i \in 0..N /\ i - 1 \in 0..N
    BY <1>2
  <2>5. \A i \in 1..N : \A x \in Nat : G[i][x] = x + gaps[i] /\ G[i][x] \in Nat
    <3> SUFFICES ASSUME NEW i \in 1..N, NEW x \in Nat
                 PROVE  G[i][x] = x + gaps[i] /\ G[i][x] \in Nat
      OBVIOUS
    <3>1. G[i] = [y \in Nat |-> y + gaps[i]]
      BY <2>2
    <3>2. G[i][x] = x + gaps[i]
      BY <3>1
    <3> QED BY <1>2, <3>2
  <2>6. PICK f : /\ f = [i \in 0..N |-> IF i = 0 THEN 0 ELSE G[i][f[i - 1]]]
                 /\ \A i \in 0..N : f[i] \in T[i]
    <3>1. Leads(G, N, T)
      BY <2>3, <2>4, <2>5 DEF Leads
    <3>2. PICK f : IsLoop(f, N, 0, G) /\ Stays(f, N, T)
      BY <1>2, <2>3, <3>1, LoopExists
    <3> QED BY <3>2 DEF IsLoop, Stays
  <2>7. \A i \in 0..N : i # 0 => i \in 1..N /\ i - 1 \in 0..N /\ f[i - 1] \in Nat
    <3>1. \A i \in 0..N : i # 0 => i \in 1..N /\ i - 1 \in 0..N
      BY <1>2
    <3>2. \A i \in 0..N : f[i] \in Nat
      BY <2>3, <2>6
    <3> QED BY <3>1, <3>2
  <2>8. \A i \in 0..N : i # 0 => G[i][f[i - 1]] = f[i - 1] + gaps[i]
    BY <2>5, <2>7
  <2>9. f = [i \in 0..N |-> IF i = 0 THEN 0 ELSE f[i - 1] + gaps[i]]
    BY <2>6, <2>8
  <2> QED BY <2>9
<1> HIDE DEF sum
<1>4. sum[0] = 0 /\ \A i \in 0..N - 1 : i + 1 \in 1..N /\ sum[i + 1] = sum[i] + gaps[i + 1]
  <2>1. 0 \in 0..N /\ \A i \in 0..N - 1 : i + 1 \in 1..N /\ i + 1 \in 0..N /\ i + 1 # 0 /\ (i + 1) - 1 = i
    BY <1>2
  <2> QED BY <1>3, <2>1
<1> DEFINE R == { i \in 0..N : sum[i] \in Nat }
<1>5. 0 \in R
  BY <1>2, <1>4
<1>6. ASSUME NEW i \in 0..N - 1, i \in R PROVE i + 1 \in R
  <2>1. sum[i] \in Nat /\ gaps[i + 1] \in Nat /\ i + 1 \in 0..N
    BY <1>2, <1>4, <1>6
  <2> QED BY <1>4, <2>1
<1> HIDE DEF R
<1>7. N \in R
  BY <1>2, <1>5, <1>6, Climb
<1> QED BY <1>1, <1>7 DEF R

\* The width that ascending samples give is positive.
LEMMA WidthIs ==
  ASSUME NEW s \in Seq(Ev), Len(s) >= 2, \A i \in 1..Len(s) - 1 : s[i].ts <= s[i + 1].ts
  PROVE  Width(s) \in Nat \ {0}
<1> DEFINE gaps == [i \in 1..Len(s) - 1 |-> s[i + 1].ts - s[i].ts]
           twiceAvg == (Total(gaps) \div Len(gaps)) * 2
           small == [i \in DOMAIN gaps |-> IF gaps[i] <= twiceAvg THEN gaps[i] ELSE 0]
           kept == Total(small)
<1>1. Width(s) = IF kept = 0 THEN 1 ELSE 3 * kept
  BY DEF Width
<1>2. \A i \in 1..Len(s) : s[i].ts \in Nat
  <2>1. \A i \in 1..Len(s) : s[i] \in Ev
    OBVIOUS
  <2> QED BY <2>1 DEF Ev
<1>3. PICK n \in Nat : n = Len(s) - 1
  <2>1. PICK m \in Nat : m = Len(s)
    OBVIOUS
  <2>2. m - 1 \in Nat
    BY <2>1
  <2> QED BY <2>1, <2>2
<1>4. gaps \in [1..n -> Nat]
  <2>1. \A i \in 1..n : s[i + 1].ts - s[i].ts \in Nat
    <3> SUFFICES ASSUME NEW i \in 1..n PROVE s[i + 1].ts - s[i].ts \in Nat
      OBVIOUS
    <3>1. i \in 1..Len(s) /\ i + 1 \in 1..Len(s) /\ i \in 1..Len(s) - 1
      BY <1>3
    <3>2. s[i].ts \in Nat /\ s[i + 1].ts \in Nat /\ s[i].ts <= s[i + 1].ts
      BY <1>2, <3>1
    <3> QED BY <3>2
  <2> QED BY <1>3, <2>1
<1> HIDE DEF gaps, twiceAvg
<1>5. small \in [1..n -> Nat]
  BY <1>4
<1> HIDE DEF small
<1>6. small \in Seq(Nat)
  BY <1>5
<1> HIDE DEF kept
<1>7. kept \in Nat
  BY <1>6, TotalIs DEF kept
<1> QED BY <1>1, <1>7

-----------------------------------------------------------------------------
(* Sampling.                                                               *)

Draws == [event : Ev \cup {NoEvent}, cal : Cals]

\* m events are left after the draw r from the calendar c.
DrawnTo(c, m, r) ==
  \E G : Ready(r.cal, G) /\ IsFiniteSet(G) /\ Cardinality(G) = m /\ SameYears(c, r.cal)

LEMMA DrawStep ==
  ASSUME reversed \in BOOLEAN, NEW c, NEW m \in Nat, m > 0, NEW r, DrawnTo(c, m, r)
  PROVE  DoRemoveNext(r.cal) \in Draws /\ DrawnTo(c, m - 1, DoRemoveNext(r.cal))
<1>1. PICK G : Ready(r.cal, G) /\ IsFiniteSet(G) /\ Cardinality(G) = m /\ SameYears(c, r.cal)
  BY DEF DrawnTo
<1>2. G # {}
  BY <1>1, FS_EmptySet
<1>3. PICK x : x = DoRemoveNext(r.cal)
  OBVIOUS
<1>4. /\ x.event \in G /\ Ready(x.cal, G \ {x.event}) /\ SameYears(r.cal, x.cal)
      /\ x = [event |-> x.event, cal |-> x.cal]
  BY <1>1, <1>2, <1>3, DrawIs
<1>5. IsFiniteSet(G \ {x.event}) /\ Cardinality(G \ {x.event}) = m - 1
  BY <1>1, <1>4, FS_RemoveElement
<1>6. SameYears(c, x.cal)
  BY <1>1, <1>4 DEF SameYears
<1>7. DrawnTo(c, m - 1, x)
  BY <1>4, <1>5, <1>6 DEF DrawnTo
<1>8. x \in Draws
  <2>1. x.event \in Ev
    BY <1>1, <1>4 DEF Ready, Fills
  <2>2. x.cal \in Cals
    BY <1>4 DEF Ready
  <2> QED BY <1>4, <2>1, <2>2 DEF Draws
<1> QED BY <1>3, <1>7, <1>8

\* What n draws leave of H.
LeftOf(H, d, k) == H \ { d[j].event : j \in 1..k }

\* The samples are the earliest events in order, and are put back.
LEMMA SampleIs ==
  ASSUME reversed \in BOOLEAN, NEW c, NEW H, Ready(c, H), IsFiniteSet(H),
         NEW size \in Nat, size = Cardinality(H), size >= 2, NEW r, r = Sample(c, size)
  PROVE  /\ Ready(r.cal, H) /\ r.cal.lastPrio = c.lastPrio
         /\ Width(r.samples) \in Nat \ {0}
<1> DEFINE n == IF size <= 5 THEN size ELSE Min({25, 5 + size \div 10})
           s0 == [event |-> NoEvent, cal |-> c]
           drawn[k \in 0..n] == IF k = 0 THEN s0 ELSE DoRemoveNext(drawn[k - 1].cal)
           samples == [k \in 1..n |-> drawn[k].event]
           x == InsertAll(drawn[n].cal, samples)
<1>1. n \in Nat /\ 2 <= n /\ n <= size
  <2>1. CASE size <= 5
    BY <2>1
  <2>2. CASE ~(size <= 5)
    <3>1. PICK t \in Nat : t = 5 + size \div 10 /\ 5 <= t /\ t <= size
      <4>1. size \div 10 \in Nat /\ size \div 10 <= size - 5
        BY <2>2
      <4> QED BY <4>1
    <3>2. {25, t} \in SUBSET Nat /\ {25, t} # {}
      OBVIOUS
    <3>3. Min({25, t}) \in {25, t} /\ Min({25, t}) <= t
      BY <3>2, FirstPlace
    <3>4. n = Min({25, t})
      BY <2>2, <3>1
    <3> HIDE DEF n
    <3> QED BY <3>1, <3>3, <3>4
  <2> QED BY <2>1, <2>2
<1>2. r.samples = samples /\ r.cal = PointedAt(x, c.lastBucket, c.top, c.lastPrio)
  <2> DEFINE y == [x EXCEPT !.lastBucket = c.lastBucket, !.top = c.top, !.lastPrio = c.lastPrio]
  <2>1. r = [samples |-> samples, cal |-> y]
    BY DEF Sample
  <2> HIDE DEF x, samples
  <2>2. y = PointedAt(x, c.lastBucket, c.top, c.lastPrio)
    BY DEF PointedAt
  <2> QED BY <2>1, <2>2
<1> HIDE DEF n
<1>3. H \in SUBSET Ev /\ Distinct(H) /\ c \in Cals
  BY DEF Ready, Fills
<1> HIDE DEF s0
<1>4. drawn = [k \in 0..n |-> IF k = 0 THEN s0 ELSE DoRemoveNext(drawn[k - 1].cal)]
  <2>1. PICK T : T = [k \in 0..n |-> { y \in Draws : DrawnTo(c, size - k, y) }]
    OBVIOUS
  <2>2. PICK G : G = [k \in 1..n |-> [y \in Draws |-> DoRemoveNext(y.cal)]]
    OBVIOUS
  <2>3. s0 \in T[0]
    <3>1. s0 \in Draws
      BY <1>3 DEF Draws, s0
    <3>2. DrawnTo(c, size - 0, s0)
      BY DEF DrawnTo, SameYears, s0
    <3> QED BY <1>1, <2>1, <3>1, <3>2
  <2>4. ASSUME NEW k \in 1..n, NEW y \in T[k - 1]
        PROVE  G[k][y] \in T[k] /\ G[k][y] = DoRemoveNext(y.cal)
    <3>1. k - 1 \in 0..n /\ k \in 0..n
      BY <1>1
    <3>2. y \in Draws /\ DrawnTo(c, size - (k - 1), y)
      BY <2>1, <3>1
    <3>3. PICK m \in Nat : m = size - (k - 1) /\ m > 0 /\ m - 1 = size - k
      <4>1. size - (k - 1) \in Nat /\ size - (k - 1) > 0 /\ (size - (k - 1)) - 1 = size - k
        BY <1>1
      <4> QED BY <4>1
    <3>4. DoRemoveNext(y.cal) \in Draws /\ DrawnTo(c, size - k, DoRemoveNext(y.cal))
      BY <3>2, <3>3, DrawStep
    <3> QED BY <2>1, <2>2, <3>1, <3>2, <3>4
  <2>5. PICK f : /\ f = [k \in 0..n |-> IF k = 0 THEN s0 ELSE G[k][f[k - 1]]]
                 /\ \A k \in 0..n : f[k] \in T[k]
    <3>1. Leads(G, n, T)
      BY <2>4 DEF Leads
    <3>2. PICK f : IsLoop(f, n, s0, G) /\ Stays(f, n, T)
      BY <1>1, <2>3, <3>1, LoopExists
    <3> QED BY <3>2 DEF IsLoop, Stays
  <2>6. \A k \in 0..n : k # 0 => k \in 1..n /\ k - 1 \in 0..n
    BY <1>1
  <2>7. \A k \in 0..n : k # 0 => G[k][f[k - 1]] = DoRemoveNext(f[k - 1].cal)
    BY <2>4, <2>5, <2>6
  <2>8. f = [k \in 0..n |-> IF k = 0 THEN s0 ELSE DoRemoveNext(f[k - 1].cal)]
    BY <2>5, <2>7
  <2> QED BY <2>8
<1> HIDE DEF drawn
<1>5. drawn[0] = s0 /\ \A k \in 0..n - 1 : drawn[k + 1] = DoRemoveNext(drawn[k].cal)
  <2>1. 0 \in 0..n /\ \A k \in 0..n - 1 : k + 1 \in 0..n /\ k + 1 # 0 /\ (k + 1) - 1 = k
    BY <1>1
  <2> QED BY <1>4, <2>1
<1> DEFINE left(k) == LeftOf(H, drawn, k)
           Good(k) == /\ Ready(drawn[k].cal, left(k)) /\ IsFiniteSet(left(k))
                      /\ Cardinality(left(k)) = size - k /\ SameYears(c, drawn[k].cal)
           Drew(k) == /\ drawn[k].event \in left(k - 1)
                      /\ IsEarliest(drawn[k].event, left(k - 1))
           R == { k \in 0..n : Good(k) }
<1>6. ASSUME NEW k \in 0..n - 1, Good(k) PROVE Good(k + 1) /\ Drew(k + 1)
  <2>1. size - k \in Nat /\ size - k > 0 /\ (size - k) - 1 = size - (k + 1) /\ (k + 1) - 1 = k
    BY <1>1
  <2>2. left(k) # {}
    BY <1>6, <2>1, FS_EmptySet
  <2>3. PICK y : y = drawn[k + 1] /\ y = DoRemoveNext(drawn[k].cal)
    BY <1>5
  <2>4. left(k + 1) = left(k) \ {y.event}
    <3>1. \A j : j \in 1..k + 1 <=> j \in 1..k \/ j = k + 1
      BY <1>1
    <3> QED BY <2>3, <3>1 DEF LeftOf
  <2> HIDE DEF left
  <2>5. /\ y.event \in left(k) /\ IsEarliest(y.event, left(k)) /\ Ready(y.cal, left(k) \ {y.event})
        /\ SameYears(drawn[k].cal, y.cal)
    BY <1>6, <2>2, <2>3, DrawIs
  <2>6. IsFiniteSet(left(k + 1)) /\ Cardinality(left(k + 1)) = size - (k + 1)
    BY <1>6, <2>1, <2>4, <2>5, FS_RemoveElement
  <2>7. SameYears(c, y.cal)
    BY <1>6, <2>5 DEF SameYears
  <2> QED BY <2>1, <2>3, <2>4, <2>5, <2>6, <2>7
<1>7. Good(0)
  <2>1. left(0) = H
    BY DEF LeftOf
  <2>2. drawn[0].cal = c
    BY <1>5 DEF s0
  <2> HIDE DEF left
  <2> QED BY <2>1, <2>2 DEF SameYears
<1> HIDE DEF Good, Drew
<1>8. ASSUME NEW m \in 0..n PROVE Good(m)
  <2> DEFINE Q == { k \in 0..m : Good(k) }
  <2>1. 0 \in Q
    BY <1>7
  <2>2. ASSUME NEW k \in 0..m - 1, k \in Q PROVE k + 1 \in Q
    <3>1. k \in 0..n - 1 /\ k + 1 \in 0..m
      BY <1>1
    <3> QED BY <1>6, <2>2, <3>1
  <2> HIDE DEF Q
  <2>3. m \in Q
    BY <1>1, <2>1, <2>2, Climb
  <2> QED BY <2>3 DEF Q
<1>9. ASSUME NEW k \in 1..n PROVE Drew(k)
  <2>1. k - 1 \in 0..n - 1 /\ (k - 1) + 1 = k /\ k - 1 \in 0..n
    BY <1>1
  <2> QED BY <1>6, <1>8, <2>1
<1>10. \A k \in 1..n : /\ drawn[k].event \in H
                       /\ \A j \in 1..k - 1 : drawn[k].event # drawn[j].event
                       /\ IsEarliest(drawn[k].event, left(k - 1))
  BY <1>9 DEF Drew, LeftOf
<1>11. /\ samples \in Seq(Ev) /\ Len(samples) = n
       /\ \A k \in 1..n : samples[k] = drawn[k].event /\ samples[k] \in H
  <2>1. \A k \in 1..n : drawn[k].event \in Ev
    BY <1>3, <1>10
  <2> QED BY <1>1, <1>10, <2>1
<1>12. ASSUME NEW i \in 1..Len(samples) - 1 PROVE samples[i].ts <= samples[i + 1].ts
  <2>1. i \in 1..n /\ i + 1 \in 1..n /\ i \in 1..(i + 1) - 1
    BY <1>1, <1>11
  <2>2. drawn[i + 1].event \in left(i - 1) \ {drawn[i].event}
    <3>1. \A j \in 1..i - 1 : j \in 1..(i + 1) - 1
      BY <2>1
    <3> QED BY <1>10, <2>1, <3>1 DEF LeftOf
  <2>3. Less(drawn[i].event, drawn[i + 1].event)
    BY <1>10, <2>1, <2>2 DEF IsEarliest
  <2> QED BY <1>3, <1>10, <1>11, <2>1, <2>3, Orders
<1>13. NewUids(samples, left(n))
  <2>1. ASSUME NEW i \in 1..n, NEW j \in 1..n, drawn[j].event = drawn[i].event PROVE j = i
    <3>1. ~(j < i) /\ ~(i < j)
      BY <1>10, <2>1
    <3> QED BY <3>1
  <2>2. ASSUME NEW i \in 1..n, NEW f \in left(n) PROVE f \in H /\ f # drawn[i].event
    BY <2>2 DEF LeftOf
  <2> HIDE DEF left, samples
  <2> QED BY <1>3, <1>11, <2>1, <2>2 DEF NewUids, Distinct
<1>14. left(n) \cup ItemsTo(samples, n) = H
  BY <1>11 DEF LeftOf, ItemsTo
<1>15. Ready(drawn[n].cal, left(n)) /\ SameYears(c, drawn[n].cal)
  <2>1. n \in 0..n
    BY <1>1
  <2> QED BY <1>8, <2>1 DEF Good
<1> HIDE DEF left, samples
<1>16. x \in Cals /\ SamePlace(drawn[n].cal, x) /\ Fills(x, H)
  <2>1. drawn[n].cal \in Cals /\ Fills(drawn[n].cal, left(n))
    BY <1>15 DEF Ready
  <2>2. FilledTo(drawn[n].cal, left(n), samples, Len(samples), x)
    BY <1>11, <1>13, <2>1, InsertAllIs
  <2> QED BY <1>11, <1>14, <2>2 DEF FilledTo
<1> HIDE DEF x
<1>17. /\ r.cal \in Cals /\ r.cal.n = c.n /\ r.cal.width = c.width /\ r.cal.buckets = x.buckets
       /\ r.cal.lastBucket = c.lastBucket /\ r.cal.top = c.top /\ r.cal.lastPrio = c.lastPrio
  <2>1. c.lastBucket \in Nat /\ c.top \in Nat /\ c.lastPrio \in Nat
    BY <1>3, CalFields
  <2>2. PICK p : p = PointedAt(x, c.lastBucket, c.top, c.lastPrio)
    OBVIOUS
  <2>3. p \in Cals /\ Repointed(x, p, c.lastBucket, c.top, c.lastPrio)
    BY <1>16, <2>1, <2>2, Repoint
  <2>4. x.n = c.n /\ x.width = c.width
    BY <1>15, <1>16 DEF SamePlace, SameYears
  <2> QED BY <1>2, <2>2, <2>3, <2>4 DEF Repointed
<1>18. Fills(r.cal, H)
  <2>1. r.cal.n = x.n /\ r.cal.width = x.width /\ r.cal.buckets = x.buckets
    BY <1>15, <1>16, <1>17 DEF SamePlace, SameYears
  <2> QED BY <1>16, <2>1, SameShare DEF Fills
<1>19. Points(r.cal) /\ Ahead(r.cal, H)
  <2>1. Points(c) /\ Ahead(c, H)
    BY DEF Ready
  <2> QED BY <1>17, <2>1 DEF Points, Ahead, Hash, YearEnd
<1>20. Width(samples) \in Nat \ {0}
  BY <1>1, <1>11, <1>12, WidthIs
<1> QED BY <1>2, <1>17, <1>18, <1>19, <1>20 DEF Ready

\* Resize keeps all events.
LEMMA ResizeIs ==
  ASSUME reversed \in BOOLEAN, NEW c, NEW H, Ready(c, H), IsFiniteSet(H),
         NEW size \in Nat, size = Cardinality(H), NEW n \in Nat \ {0}
  PROVE  /\ Ready(Resize(c, size, n), H) /\ Resize(c, size, n).n = n
         /\ Resize(c, size, n).lastPrio = c.lastPrio
<1>1. CASE size < 2
  <2>1. Resize(c, size, n) = DoResize(c, n, 1)
    BY <1>1 DEF Resize
  <2> QED BY <2>1, DoResizeIs
<1>2. CASE ~(size < 2)
  <2>1. PICK s : s = Sample(c, size)
    OBVIOUS
  <2>2. Resize(c, size, n) = DoResize(s.cal, n, Width(s.samples))
    BY <1>2, <2>1 DEF Resize
  <2>3. /\ Ready(s.cal, H) /\ s.cal.lastPrio = c.lastPrio
        /\ Width(s.samples) \in Nat \ {0}
    BY <1>2, <2>1, SampleIs
  <2> QED BY <2>2, <2>3, DoResizeIs
<1> QED BY <1>1, <1>2

-----------------------------------------------------------------------------
(* Steps of the scheduler.                                                 *)

\* The calendar holds H, has no more buckets than events can make it grow to, and
\* handed back an event of time t last.
Serves(c, H, t) ==
  /\ Ready(c, H) /\ c.lastPrio = t
  /\ c.n <= MaxEvents + 1

\* Growing and shrinking the calendar keep the events it holds.
LEMMA ResizeUpIs ==
  ASSUME reversed \in BOOLEAN, NEW c, NEW H, NEW t, Serves(c, H, t), IsFiniteSet(H),
         NEW size \in 0..MaxEvents, size = Cardinality(H)
  PROVE  Serves(ResizeUp(c, size), H, t)
<1>1. c.n \in Nat /\ c.n # 0 /\ MaxEvents \in Nat
  BY CalFields, Bounds DEF Serves, Ready
<1>2. CASE size > c.n * 2
  <2>1. PICK n \in Nat \ {0} : n = c.n * 2 /\ n <= MaxEvents + 1
    BY <1>1, <1>2
  <2>2. ResizeUp(c, size) = Resize(c, size, n)
    BY <1>2, <2>1 DEF ResizeUp
  <2>3. size \in Nat
    BY <1>1
  <2> QED BY <2>1, <2>2, <2>3, ResizeIs DEF Serves
<1>3. CASE ~(size > c.n * 2)
  BY <1>3 DEF ResizeUp
<1> QED BY <1>2, <1>3

LEMMA ResizeDownIs ==
  ASSUME reversed \in BOOLEAN, NEW c, NEW H, NEW t, Serves(c, H, t), IsFiniteSet(H),
         NEW size \in 0..MaxEvents, size = Cardinality(H)
  PROVE  Serves(ResizeDown(c, size), H, t)
<1>1. c.n \in Nat /\ c.n # 0 /\ MaxEvents \in Nat
  BY CalFields, Bounds DEF Serves, Ready
<1>2. CASE size < c.n \div 2
  <2>1. PICK n \in Nat \ {0} : n = c.n \div 2 /\ n <= c.n
    <3>1. c.n \div 2 \in Nat /\ c.n \div 2 # 0 /\ c.n \div 2 <= c.n
      BY <1>1, <1>2
    <3> QED BY <3>1
  <2>2. ResizeDown(c, size) = Resize(c, size, n)
    BY <1>2, <2>1 DEF ResizeDown
  <2>3. size \in Nat /\ n <= MaxEvents + 1
    BY <1>1, <2>1 DEF Serves
  <2> QED BY <2>1, <2>2, <2>3, ResizeIs DEF Serves
<1>3. CASE ~(size < c.n \div 2)
  BY <1>3 DEF ResizeDown
<1> QED BY <1>2, <1>3

\* The calendar holds the events held, each in the bucket of its time, in the
\* order of the bucket and once; its pointer is at the year of the event
\* removed last, and none of the events held is of an earlier time.
CalendarInv ==
  /\ reversed \in BOOLEAN
  /\ Serves(cal, held, next.ts)
  /\ IsFiniteSet(held) /\ qSize = Cardinality(held)
  /\ uid \in 0..MaxEvents /\ qSize \in 0..uid
  /\ next \in Ev \cup {NoEvent}
  /\ \A e \in held : e.uid <= uid

\* No step changes the order of a bucket.
LEMMA SameOrder ==
  ASSUME reversed' = reversed, Serves(cal', held', next'.ts)
  PROVE  Serves(cal, held, next.ts)'
BY DEF Serves, Ready, Fills, Lists, Order, Points, Ahead, Hash, Share, YearEnd

\* Insert adds an event to the calendar and hands back none.
LEMMA InsertStep ==
  ASSUME CalendarInv, NEW d \in Delays, Insert(d)
  PROVE  CalendarInv' /\ List!ListInsert
<1>1. PICK e : e = [ts |-> next.ts + d, uid |-> uid + 1]
  OBVIOUS
<1>2. /\ uid < MaxEvents
      /\ cal' = ResizeUp(DoInsert(cal, e), qSize + 1) /\ qSize' = qSize + 1
      /\ uid' = uid + 1 /\ held' = held \cup {e} /\ next' = next /\ reversed' = reversed
  BY <1>1 DEF Insert
<1>3. next.ts \in Nat /\ d \in Nat /\ uid \in Nat /\ qSize \in Nat /\ MaxEvents \in Nat
  BY Bounds DEF CalendarInv, Ev, NoEvent
<1>4. e \in Ev /\ next.ts <= e.ts
  BY <1>1, <1>2, <1>3 DEF Ev
<1>5. held \in SUBSET Ev
  BY DEF CalendarInv, Serves, Ready, Fills
<1>6. e \notin held /\ \A f \in held : f.uid # e.uid
  BY <1>1, <1>3, <1>5 DEF CalendarInv, Ev
<1>7. PICK c : c = DoInsert(cal, e)
  OBVIOUS
<1>8. cal \in Cals /\ Fills(cal, held) /\ Points(cal) /\ Ahead(cal, held) /\ cal.lastPrio = next.ts
  BY DEF CalendarInv, Serves, Ready
<1>9. c \in Cals /\ SamePlace(cal, c) /\ Fills(c, held')
  BY <1>2, <1>4, <1>6, <1>7, <1>8, DoInsertIs
<1>10. Points(c) /\ Ahead(c, held')
  BY <1>2, <1>4, <1>8, <1>9 DEF Points, Ahead, SamePlace, Hash, YearEnd
<1>11. Serves(c, held', next.ts)
  BY <1>8, <1>9, <1>10 DEF CalendarInv, Serves, Ready, SamePlace
<1>12. IsFiniteSet(held') /\ Cardinality(held') = qSize + 1
  BY <1>2, <1>6, FS_AddElement DEF CalendarInv
<1>13. qSize + 1 \in 0..MaxEvents
  BY <1>2, <1>3 DEF CalendarInv
<1>14. Serves(cal', held', next.ts)
  <2>1. reversed \in BOOLEAN
    BY DEF CalendarInv
  <2> QED BY <1>2, <1>7, <1>11, <1>12, <1>13, <2>1, ResizeUpIs
<1>15. \A f \in held' : f.uid <= uid'
  BY <1>1, <1>2, <1>3, <1>5 DEF CalendarInv, Ev
<1>16. uid' \in 0..MaxEvents /\ qSize' \in 0..uid'
  BY <1>2, <1>3 DEF CalendarInv
<1>17. CalendarInv'
  BY <1>2, <1>12, <1>14, <1>15, <1>16, SameOrder DEF CalendarInv
<1>18. List!ListInsert
  BY <1>2, <1>6 DEF List!ListInsert
<1> QED BY <1>17, <1>18

\* RemoveNext hands back the earliest event and takes it out of the calendar.
LEMMA RemoveNextStep ==
  ASSUME CalendarInv, RemoveNext
  PROVE  CalendarInv' /\ List!ListRemoveNext
<1>1. PICK r : r = DoRemoveNext(cal)
  OBVIOUS
<1>2. /\ qSize > 0 /\ next' = r.event /\ cal' = ResizeDown(r.cal, qSize - 1)
      /\ held' = held \ {r.event} /\ qSize' = qSize - 1
      /\ uid' = uid /\ reversed' = reversed
  BY <1>1 DEF RemoveNext
<1>3. /\ reversed \in BOOLEAN /\ Ready(cal, held) /\ cal.n <= MaxEvents + 1
      /\ IsFiniteSet(held) /\ qSize = Cardinality(held)
      /\ uid \in 0..MaxEvents /\ qSize \in 0..uid /\ MaxEvents \in Nat
  BY Bounds DEF CalendarInv, Serves
<1>4. held # {}
  BY <1>2, <1>3, FS_EmptySet
<1>5. /\ r.event \in held /\ IsEarliest(r.event, held) /\ Ready(r.cal, held')
      /\ r.cal.n = cal.n /\ r.cal.lastPrio = r.event.ts
  BY <1>1, <1>2, <1>3, <1>4, DrawIs DEF SameYears
<1>6. IsFiniteSet(held') /\ Cardinality(held') = qSize - 1
  BY <1>2, <1>3, <1>5, FS_RemoveElement
<1>7. qSize - 1 \in 0..MaxEvents /\ qSize - 1 \in 0..uid
  BY <1>2, <1>3
<1>8. Serves(r.cal, held', next'.ts)
  BY <1>2, <1>3, <1>5 DEF Serves
<1>9. Serves(cal', held', next'.ts)
  BY <1>2, <1>3, <1>6, <1>7, <1>8, ResizeDownIs
<1>10. Serves(cal, held, next.ts)'
  BY <1>2, <1>9, SameOrder
<1>11. next' \in Ev
  BY <1>2, <1>3, <1>5 DEF Ready, Fills
<1>12. \A f \in held' : f.uid <= uid'
  BY <1>2 DEF CalendarInv
<1>13. CalendarInv'
  BY <1>2, <1>3, <1>6, <1>7, <1>10, <1>11, <1>12 DEF CalendarInv
<1>14. List!ListRemoveNext
  BY <1>2, <1>5 DEF List!ListRemoveNext, List!IsEarliest, List!Less, IsEarliest, Less
<1> QED BY <1>13, <1>14

\* Remove takes the event it is given out of the calendar and hands back none.
LEMMA RemoveEventStep ==
  ASSUME CalendarInv, NEW e \in held, RemoveEvent(e)
  PROVE  CalendarInv' /\ List!ListRemove
<1> DEFINE b == Hash(cal, e.ts)
           s == cal.buckets[b]
           S == Share(cal, held, b)
           d == WithBucket(cal, b, Erased(s, e))
<1>1. /\ reversed \in BOOLEAN /\ cal \in Cals /\ Fills(cal, held) /\ Points(cal)
      /\ Ahead(cal, held) /\ cal.n <= MaxEvents + 1 /\ cal.lastPrio = next.ts
      /\ IsFiniteSet(held) /\ qSize = Cardinality(held)
      /\ uid \in 0..MaxEvents /\ qSize \in 0..uid /\ MaxEvents \in Nat
  BY Bounds DEF CalendarInv, Serves, Ready
<1>2. e \in Ev /\ b \in 0..cal.n - 1
  BY <1>1, HashIs DEF Fills, Ev
<1>3. /\ cal' = ResizeDown(d, qSize - 1)
      /\ held' = held \ {e} /\ qSize' = qSize - 1
      /\ next' = next /\ uid' = uid /\ reversed' = reversed
  <2>1. s \in Seq(Ev) /\ d = [cal EXCEPT !.buckets[b] = RemoveAt(@, SelectInSeq(@, LAMBDA x : x.uid = e.uid))]
    BY <1>1, <1>2, CalFields DEF WithBucket, Erased
  <2> QED BY <2>1 DEF RemoveEvent
<1>4. s \in Seq(Ev) /\ S \in SUBSET Ev /\ Lists(s, S) /\ Distinct(S) /\ e \in S
  BY <1>1, <1>2, CalFields DEF Fills, Share, Distinct
<1>5. Erased(s, e) \in Seq(Ev) /\ Lists(Erased(s, e), S \ {e})
  BY <1>4, ErasedIs
<1>6. /\ d \in Cals /\ SamePlace(cal, d)
      /\ d.buckets = [cal.buckets EXCEPT ![b] = Erased(s, e)]
  BY <1>1, <1>2, <1>5, Rebucket
<1> HIDE DEF d
<1>7. Fills(d, held')
  BY <1>1, <1>3, <1>5, <1>6, TakenOut DEF SamePlace
<1>8. Points(d) /\ Ahead(d, held')
  BY <1>1, <1>3, <1>6 DEF Points, Ahead, SamePlace, Hash, YearEnd
<1>9. Serves(d, held', next.ts)
  BY <1>1, <1>6, <1>7, <1>8 DEF Serves, Ready, SamePlace
<1>10. IsFiniteSet(held') /\ Cardinality(held') = qSize - 1 /\ qSize # 0
  BY <1>1, <1>3, FS_RemoveElement, FS_EmptySet
<1>11. qSize - 1 \in 0..MaxEvents /\ qSize - 1 \in 0..uid
  BY <1>1, <1>10
<1>12. Serves(cal', held', next.ts)
  BY <1>1, <1>3, <1>9, <1>10, <1>11, ResizeDownIs
<1>13. Serves(cal, held, next.ts)'
  BY <1>3, <1>12, SameOrder
<1>14. \A f \in held' : f.uid <= uid'
  BY <1>3 DEF CalendarInv
<1>15. next' \in Ev \cup {NoEvent}
  BY <1>3 DEF CalendarInv
<1>16. CalendarInv'
  BY <1>1, <1>3, <1>10, <1>11, <1>13, <1>14, <1>15 DEF CalendarInv
<1>17. List!ListRemove
  BY <1>3 DEF List!ListRemove
<1> QED BY <1>16, <1>17

\* The empty calendar of two buckets holds nothing.
LEMMA Starts ==
  ASSUME Init
  PROVE  CalendarInv
<1>1. PICK c : c = Empty(2, 1, 0)
  OBVIOUS
<1>2. cal = c /\ reversed \in BOOLEAN /\ qSize = 0 /\ next = NoEvent /\ uid = 0 /\ held = {}
  BY <1>1 DEF Init
<1>3. Ready(c, {}) /\ c.n = 2 /\ c.lastPrio = 0
  BY <1>1, EmptyIs
<1>4. IsFiniteSet({}) /\ Cardinality({}) = 0
  BY FS_EmptySet
<1>5. MaxEvents \in Nat /\ 2 <= MaxEvents + 1
  BY Bounds
<1>6. Serves(cal, held, next.ts)
  BY <1>2, <1>3, <1>5 DEF Serves, NoEvent
<1> QED BY <1>2, <1>4, <1>5, <1>6 DEF CalendarInv

\* A step of no operation changes nothing.
LEMMA NoStep ==
  ASSUME CalendarInv, UNCHANGED vars
  PROVE  CalendarInv' /\ UNCHANGED <<held, next>>
<1>1. /\ reversed' = reversed /\ cal' = cal /\ qSize' = qSize
      /\ next' = next /\ uid' = uid /\ held' = held
  BY DEF vars
<1>2. Serves(cal, held, next.ts)'
  BY <1>1, SameOrder DEF CalendarInv
<1> QED BY <1>1, <1>2 DEF CalendarInv

\* Every step keeps the calendar, and is a step of the event list or none.
LEMMA StepsAreKept ==
  ASSUME CalendarInv, [Next]_vars
  PROVE  CalendarInv' /\ [List!ListNext]_<<held, next>>
<1>1. ASSUME NEW d \in Delays, Insert(d) PROVE CalendarInv' /\ List!ListNext
  BY <1>1, InsertStep DEF List!ListNext
<1>2. ASSUME RemoveNext PROVE CalendarInv' /\ List!ListNext
  BY <1>2, RemoveNextStep DEF List!ListNext
<1>3. ASSUME NEW e \in held, RemoveEvent(e) PROVE CalendarInv' /\ List!ListNext
  BY <1>3, RemoveEventStep DEF List!ListNext
<1>4. ASSUME UNCHANGED vars PROVE CalendarInv' /\ UNCHANGED <<held, next>>
  BY <1>4, NoStep
<1> QED BY <1>1, <1>2, <1>3, <1>4 DEF Next

\* In every state the calendar holds exactly the events of the scheduler, each
\* in the bucket of its time, in order and once, and its pointer is at the year
\* of the last event that RemoveNext handed back.
THEOREM CalendarInvariant == Spec => []CalendarInv
<1>1. Init => CalendarInv
  BY Starts
<1>2. CalendarInv /\ [Next]_vars => CalendarInv'
  BY StepsAreKept
<1> QED BY <1>1, <1>2, PTL DEF Spec

\* The fields of the calendar keep their types: the pointer is at a bucket there
\* is, there is always a bucket and never more than events can fill, and the
\* width is never zero, so that no division of Hash fails.
THEOREM TypesHold == Spec => []TypeOK
<1>1. CalendarInv => TypeOK
  <2> SUFFICES ASSUME CalendarInv PROVE TypeOK
    OBVIOUS
  <2>1. cal \in Cals /\ Points(cal) /\ held \in SUBSET Ev /\ cal.n <= MaxEvents + 1
    BY DEF CalendarInv, Serves, Ready, Fills
  <2>2. MaxEvents \in Nat
    BY Bounds
  <2>3. /\ cal.n \in 1..MaxEvents + 1 /\ cal.width \in Nat \ {0}
        /\ cal.buckets \in [0..cal.n - 1 -> Seq(Ev)]
        /\ cal.top \in Nat /\ cal.lastPrio \in Nat
    BY <2>1, <2>2, CalFields
  <2>4. cal.lastBucket \in 0..cal.n - 1
    BY <2>1, <2>3, HashIs DEF Points
  <2>5. qSize \in 0..MaxEvents
    BY <2>2 DEF CalendarInv
  <2> QED BY <2>1, <2>3, <2>4, <2>5 DEF CalendarInv, TypeOK, Ev
<1> QED BY <1>1, CalendarInvariant, PTL

\* The calendar queue implements the event list: whatever the delays, the years
\* that the events span, the order of the buckets and the resizes between two
\* operations, RemoveNext hands back the earliest event held, once, and Insert
\* and Remove change the events held by the one they are given.
THEOREM ImplementsEventList == Spec => ImplementsList
<1>1. Init => List!ListInit
  BY DEF Init, List!ListInit, NoEvent, List!NoEvent
<1>2. CalendarInv /\ [Next]_vars => [List!ListNext]_(List!listVars)
  BY StepsAreKept DEF List!listVars
<1> QED BY <1>1, <1>2, CalendarInvariant, PTL DEF Spec, ImplementsList, List!ListSpec

=============================================================================

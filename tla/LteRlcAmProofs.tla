----------------------------- MODULE LteRlcAmProofs -----------------------------
(***************************************************************************)
(* Theorems about LteRlcAm, for every sequence number space, window, size  *)
(* of SDUs and PDUs, and every number of PDUs under way, lost and          *)
(* overtaken, of STATUS PDUs that keep their order.                        *)
(*                                                                         *)
(* ArqInv ties the windows of the two sides together: what the receiver    *)
(* lacks the sender holds, and a STATUS under way speaks of nothing that   *)
(* is no longer held.  Streamed says that every PDU, wherever it is, holds *)
(* the part of the stream of units that its sequence number stands for.    *)
(***************************************************************************)
EXTENDS LteRlcAm, SequenceTheorems, FiniteSetTheorems, TLAPS

-----------------------------------------------------------------------------
(* Sequence numbers: distances from a base, without the modulus.           *)

\* Half of the sequence numbers are a window.
LEMMA SnFacts ==
  /\ SnMod \in Nat /\ Window \in Nat /\ Window > 0 /\ SnMod = 2 * Window
  /\ SN = 0..SnMod - 1 /\ 0 \in SN
  /\ \A x \in SN : x \in Nat /\ x < SnMod
  BY RlcAssumption DEF Window, SN

\* Off and Plus, without the modulus.
LEMMA OffIs ==
  ASSUME NEW a \in SN, NEW b \in SN
  PROVE  /\ Off(a, b) \in Nat /\ Off(a, b) < SnMod
         /\ Off(a, b) = IF a >= b THEN a - b ELSE a - b + SnMod
<1>1. a \in 0..SnMod - 1 /\ b \in 0..SnMod - 1 /\ SnMod \in Nat \ {0}
  BY SnFacts
<1>2. (a - b) % SnMod = IF a >= b THEN a - b ELSE a - b + SnMod
  BY <1>1
<1> QED
  BY <1>1, <1>2 DEF Off

\* A sequence number and up to a whole turn more.
LEMMA PlusIs ==
  ASSUME NEW a \in SN, NEW n \in 0..SnMod
  PROVE  /\ Plus(a, n) \in SN
         /\ Plus(a, n) = IF a + n < SnMod THEN a + n ELSE a + n - SnMod
<1>1. a \in 0..SnMod - 1 /\ SnMod \in Nat \ {0}
  BY SnFacts
<1>2. (a + n) % SnMod = IF a + n < SnMod THEN a + n ELSE a + n - SnMod
  BY <1>1
<1> QED
  BY <1>1, <1>2, SnFacts DEF Plus

\* Only a number itself is at no distance.
LEMMA OffZero ==
  ASSUME NEW a \in SN, NEW b \in SN
  PROVE  /\ Off(a, b) \in Nat /\ Off(a, b) < SnMod
         /\ Off(a, b) = 0 <=> a = b
<1>1. a \in Nat /\ b \in Nat /\ a < SnMod /\ b < SnMod /\ SnMod \in Nat
  BY SnFacts
<1> QED
  BY <1>1, OffIs

\* Distances from another base.
LEMMA OffFrom ==
  ASSUME NEW x \in SN, NEW r \in SN, NEW b \in SN
  PROVE  Off(x, r) = IF Off(r, b) <= Off(x, b) THEN Off(x, b) - Off(r, b)
                     ELSE Off(x, b) - Off(r, b) + SnMod
<1>1. /\ x \in Nat /\ r \in Nat /\ b \in Nat /\ SnMod \in Nat
      /\ x < SnMod /\ r < SnMod /\ b < SnMod
  BY SnFacts
<1>2. /\ Off(x, r) = IF x >= r THEN x - r ELSE x - r + SnMod
      /\ Off(x, b) = IF x >= b THEN x - b ELSE x - b + SnMod
      /\ Off(r, b) = IF r >= b THEN r - b ELSE r - b + SnMod
  BY OffIs
<1> QED
  BY <1>1, <1>2

\* Where one lands n further on, seen from b.
LEMMA OffPlus ==
  ASSUME NEW x \in SN, NEW b \in SN, NEW n \in 0..SnMod
  PROVE  /\ Plus(x, n) \in SN
         /\ Off(Plus(x, n), b) = IF Off(x, b) + n < SnMod THEN Off(x, b) + n
                                 ELSE Off(x, b) + n - SnMod
<1>1. Plus(x, n) \in SN /\ Plus(x, n) = IF x + n < SnMod THEN x + n ELSE x + n - SnMod
  BY PlusIs
<1>2. Off(Plus(x, n), b) = IF Plus(x, n) >= b THEN Plus(x, n) - b ELSE Plus(x, n) - b + SnMod
  BY <1>1, OffIs
<1>3. Off(x, b) = IF x >= b THEN x - b ELSE x - b + SnMod
  BY OffIs
<1> QED
  BY <1>1, <1>2, <1>3, SnFacts

\* Going the distance of x from b leads to x.
LEMMA PlusOff ==
  ASSUME NEW x \in SN, NEW b \in SN
  PROVE  Plus(b, Off(x, b)) = x
<1>1. Off(x, b) \in 0..SnMod /\ Off(x, b) = IF x >= b THEN x - b ELSE x - b + SnMod
  <2>1. Off(x, b) \in Nat /\ Off(x, b) < SnMod /\ SnMod \in Nat
    BY OffIs, SnFacts
  <2> QED
    BY <2>1, OffIs
<1>2. Plus(b, Off(x, b)) = IF b + Off(x, b) < SnMod THEN b + Off(x, b) ELSE b + Off(x, b) - SnMod
  BY <1>1, PlusIs
<1> QED
  BY <1>1, <1>2, SnFacts

\* The distance from b tells a number from the others.
LEMMA OffInjective ==
  ASSUME NEW x \in SN, NEW y \in SN, NEW b \in SN, Off(x, b) = Off(y, b)
  PROVE  x = y
<1>1. Off(x, y) = 0
  BY OffFrom, OffZero
<1> QED
  BY <1>1, OffZero

\* What lies from a to before b.
LEMMA BetweenIs ==
  ASSUME NEW a \in SN, NEW b \in SN
  PROVE  /\ Between(a, b) \subseteq SN
         /\ \A x \in SN : x \in Between(a, b) <=> Off(x, a) < Off(b, a)
<1>1. Off(b, a) \in Nat /\ Off(b, a) < SnMod
  BY OffIs
<1>2. \A i \in 0..Off(b, a) - 1 : i \in 0..SnMod /\ i < Off(b, a)
  BY <1>1, SnFacts
<1>3. ASSUME NEW i \in 0..Off(b, a) - 1
      PROVE  Plus(a, i) \in SN /\ Off(Plus(a, i), a) = i
  <2>1. Off(a, a) = 0
    BY OffZero
  <2>2. i \in 0..SnMod /\ i < SnMod
    BY <1>1, <1>2, SnFacts
  <2> QED
    BY <2>1, <2>2, OffPlus, SnFacts
<1>4. ASSUME NEW x \in SN, Off(x, a) < Off(b, a)
      PROVE  x \in Between(a, b)
  <2>1. Off(x, a) \in 0..Off(b, a) - 1
    BY <1>1, <1>4, OffIs
  <2> QED
    BY <2>1, PlusOff DEF Between
<1>5. ASSUME NEW x \in SN, x \in Between(a, b)
      PROVE  Off(x, a) < Off(b, a)
  <2>1. PICK i \in 0..Off(b, a) - 1 : x = Plus(a, i)
    BY <1>5 DEF Between
  <2> QED
    BY <2>1, <1>2, <1>3
<1> QED
  BY <1>3, <1>4, <1>5 DEF Between

-----------------------------------------------------------------------------
(* Natural numbers: a set of them has a least one, and holds them all if it *)
(* holds 0 and the successor of each of its members.                        *)

Initial(T) == {0..n - 1 : n \in T}

\* A set of natural numbers has a least member: the initial segments are finite sets,
\* and their strict inclusion is well-founded.
LEMMA LeastOf ==
  ASSUME NEW T \in SUBSET Nat, T # {}
  PROVE  \E x \in T : \A y \in T : x <= y
<1> DEFINE R == StrictSubsetOrdering(Nat)
<1>1. Initial(T) \subseteq FiniteSubsetsOf(Nat)
  <2> SUFFICES ASSUME NEW n \in T PROVE 0..n - 1 \in FiniteSubsetsOf(Nat)
    BY DEF Initial
  <2>1. IsFiniteSet(0..n - 1)
    BY FS_Interval
  <2>2. 0..n - 1 \in SUBSET Nat
    OBVIOUS
  <2> QED
    BY <2>1, <2>2 DEF FiniteSubsetsOf
<1>2. Initial(T) # {}
  BY DEF Initial
<1>3. IsWellFoundedOn(R, FiniteSubsetsOf(Nat))
  BY FS_StrictSubsetOrderingWellFounded
<1>4. PICK X \in Initial(T) : \A Y \in Initial(T) : ~ (<<Y, X>> \in R)
  <2> HIDE DEF R
  <2> QED
    BY <1>1, <1>2, <1>3, WFMin, Zenon
<1>5. PICK x \in T : X = 0..x - 1
  BY DEF Initial
<1>6. ASSUME NEW y \in T, y < x PROVE FALSE
  <2> DEFINE A == 0..y - 1
             B == 0..x - 1
  <2>1. <<A, B>> \notin R
    BY <1>4, <1>5 DEF Initial
  <2>2. A \in SUBSET Nat /\ B \in SUBSET Nat /\ A \subseteq B /\ y \in B /\ y \notin A
    BY <1>6
  <2> HIDE DEF A, B
  <2> QED
    BY <2>1, <2>2 DEF StrictSubsetOrdering
<1> QED
  BY <1>6

\* Induction, of a set of numbers.
LEMMA Induction ==
  ASSUME NEW S \in SUBSET Nat, 0 \in S, \A n \in S : n + 1 \in S
  PROVE  S = Nat
<1> SUFFICES ASSUME Nat \ S # {} PROVE FALSE
  OBVIOUS
<1>1. PICK m \in Nat \ S : \A k \in Nat \ S : m <= k
  BY LeastOf
<1>2. m # 0 /\ m - 1 \in Nat
  OBVIOUS
<1>3. m - 1 \in S
  BY <1>1, <1>2
<1> QED
  BY <1>2, <1>3

\* FirstMissing finds what it looks for when there is any.
LEMMA FirstMissingFacts ==
  ASSUME NEW sn \in SN, NEW buffer \in SUBSET SN, NEW top \in SN, top \notin buffer
  PROVE  /\ FirstMissing(sn, buffer) \in SN
         /\ FirstMissing(sn, buffer) \notin buffer
         /\ Off(FirstMissing(sn, buffer), sn) <= Off(top, sn)
         /\ \A y \in SN : Off(y, sn) < Off(FirstMissing(sn, buffer), sn) => y \in buffer
<1> DEFINE T == {Off(y, sn) : y \in SN \ buffer}
           Good(x) == x \notin buffer /\ Between(sn, x) \subseteq buffer
<1>1. T \in SUBSET Nat /\ T # {}
  BY OffZero
<1>2. PICK n \in T : \A k \in T : n <= k
  BY <1>1, LeastOf
<1>3. PICK x \in SN \ buffer : Off(x, sn) = n
  BY <1>2
<1>4. Good(x)
  <2> SUFFICES ASSUME NEW y \in Between(sn, x), y \notin buffer PROVE FALSE
    BY <1>3
  <2>1. y \in SN /\ Off(y, sn) < Off(x, sn)
    BY <1>3, BetweenIs
  <2>2. Off(y, sn) \in T
    BY <2>1
  <2>3. n <= Off(y, sn) /\ Off(x, sn) = n /\ n \in Nat /\ Off(y, sn) \in Nat
    BY <1>1, <1>2, <1>3, <2>1, <2>2, OffZero
  <2> QED
    BY <2>1, <2>3
<1>5. FirstMissing(sn, buffer) \in SN /\ Good(FirstMissing(sn, buffer))
  BY <1>3, <1>4 DEF FirstMissing
<1> DEFINE f == FirstMissing(sn, buffer)
<1> HIDE DEF f
<1>6. f \in SN /\ f \notin buffer /\ Between(sn, f) \subseteq buffer
  BY <1>5 DEF f
<1>7. \A y \in SN : Off(y, sn) < Off(f, sn) => y \in buffer
  BY <1>6, BetweenIs
<1>8. Off(f, sn) <= Off(top, sn)
  BY <1>6, <1>7, OffZero
<1> QED
  BY <1>6, <1>7, <1>8 DEF f

-----------------------------------------------------------------------------
(* Types, but for what has been handed up.                                 *)

DataPdu == [sn : SN, poll : BOOLEAN, units : Seq(Units), late : Nat]
StatusPdu == [ack : SN, nacks : SUBSET SN, late : Nat]

SenderType ==
  /\ txon \in Seq(Units)
  /\ txed \in SUBSET SN /\ retx \in SUBSET SN
  /\ data \in [SN -> Seq(Units)]
  /\ vtA \in SN /\ vtS \in SN /\ pollSn \in SN
  /\ withoutPoll \in Nat \X Nat
  /\ pollTimer \in BOOLEAN /\ justExpired \in BOOLEAN /\ rbsTimer \in BOOLEAN
  /\ accepted \in 0..MaxSdus

ReceiverType ==
  /\ DOMAIN rxon \in SUBSET SN
  /\ \A sn \in DOMAIN rxon : rxon[sn] \in Seq(Units)
  /\ vrR \in SN /\ vrMs \in SN /\ vrH \in SN /\ vrX \in SN
  /\ reordering \in BOOLEAN /\ requested \in BOOLEAN
  /\ announced \in BOOLEAN /\ prohibited \in BOOLEAN

MacType == pdus \in Seq(DataPdu) /\ statuses \in Seq(StatusPdu)

TypeInv == SenderType /\ ReceiverType /\ MacType

-----------------------------------------------------------------------------
(* The invariant.                                                          *)

\* What the sender can send again.
Held == txed \cup retx

\* VT(A) <= VR(R) <= VR(MS) <= VR(H) <= VT(S), within a window; the buffer lies
\* between VR(R), which is missing, and VR(H).
WindowInv ==
  /\ Off(vtS, vtA) <= Window
  /\ Off(vrR, vtA) <= Off(vtS, vtA)
  /\ Off(vrMs, vrR) <= Off(vrH, vrR)
  /\ Off(vrH, vrR) <= Off(vtS, vrR)
  /\ \A sn \in DOMAIN rxon : Off(sn, vrR) < Off(vrH, vrR)
  /\ vrR \notin DOMAIN rxon

\* The reordering timer waits for what is missing below VR(X), and VR(MS) is not
\* beyond the first sequence number missing from VR(X) on.
ReorderInv ==
  reordering =>
    /\ vrX # vrR /\ Off(vrX, vrR) <= Off(vrH, vrR)
    /\ \A sn \in SN : Off(sn, vrR) < Off(vrMs, vrR) /\ sn \notin DOMAIN rxon
                        => Off(sn, vrR) < Off(vrX, vrR)

\* The sender holds what is missing, in one buffer, within its window.
HeldInv ==
  /\ txed \cap retx = {}
  /\ \A sn \in Held : Off(sn, vtA) < Off(vtS, vtA)
  /\ \A sn \in SN : Off(sn, vrR) < Off(vtS, vrR) /\ sn \notin DOMAIN rxon => sn \in Held

\* The MAC delays no PDU by more than a window.
FlightInv == \A i \in DOMAIN pdus : Off(vtS, pdus[i].sn) > 0 /\ Off(vtS, pdus[i].sn) <= Window

Named(m) == m.nacks \cup {m.ack}

\* A STATUS under way names what is held, below ACK_SN and that not beyond VT(S);
\* of what is missing it names all below ACK_SN; VR(R) is not before what it names.
StatusTells(m) ==
  /\ m.nacks \subseteq Held
  /\ \A sn \in m.nacks : Off(sn, vtA) < Off(m.ack, vtA)
  /\ Off(m.ack, vtA) <= Off(vtS, vtA)
  /\ \E sn \in Named(m) : Off(sn, vtA) <= Off(vrR, vtA)
  /\ \A sn \in SN : Off(sn, vrR) < Off(vtS, vrR) /\ sn \notin DOMAIN rxon
                      /\ Off(sn, vtA) < Off(m.ack, vtA) => sn \in m.nacks

\* A later STATUS n names nothing that m has acknowledged, nor before all m names.
StatusFollows(m, n) ==
  /\ \A y \in Named(n) : \E x \in Named(m) : Off(x, vtA) <= Off(y, vtA)
  /\ \A y \in n.nacks : Off(y, vtA) < Off(m.ack, vtA) => y \in m.nacks

StatusInv ==
  \A i \in DOMAIN statuses :
    /\ StatusTells(statuses[i])
    /\ \A j \in DOMAIN statuses : i < j => StatusFollows(statuses[i], statuses[j])

ArqInv == WindowInv /\ ReorderInv /\ HeldInv /\ FlightInv /\ StatusInv

-----------------------------------------------------------------------------
(* The queues of the MAC.                                                  *)

\* What the assumption says of the constants, one by one.
LEMMA ConstantFacts ==
  /\ SduUnits \in Nat /\ SduUnits > 0
  /\ PollPdu \in Nat /\ PollByte \in Nat
  /\ StatusOvertaking \in Nat /\ DataOvertaking \in Nat /\ MaxSdus \in Nat
  BY RlcAssumption

\* The queue when its i-th PDU has arrived, place by place.
LEMMA ArrivedIs ==
  ASSUME NEW S, NEW q \in Seq(S), NEW i \in DOMAIN q,
         \A j \in DOMAIN q : Overtaken(q[j]) \in S
  PROVE  /\ Arrived(q, i) \in Seq(S)
         /\ Len(Arrived(q, i)) = Len(q) - 1
         /\ \A j \in 1..Len(q) - 1 :
              Arrived(q, i)[j] = IF j < i THEN Overtaken(q[j]) ELSE q[j + 1]
<1> DEFINE before == [j \in 1..i - 1 |-> Overtaken(q[j])]
           after == SubSeq(q, i + 1, Len(q))
<1>1. i \in 1..Len(q) /\ Len(q) \in Nat
  OBVIOUS
<1>2. before \in Seq(S) /\ Len(before) = i - 1
  <2>1. before \in [1..i - 1 -> S] /\ i - 1 \in Nat
    BY <1>1
  <2> HIDE DEF before
  <2> QED
    BY <2>1
<1>3. after \in Seq(S) /\ Len(after) = Len(q) - i /\ \A j \in 1..Len(q) - i : after[j] = q[i + j]
  BY <1>1
<1>4. \A j \in 1..i - 1 : before[j] = Overtaken(q[j])
  OBVIOUS
<1>5. Arrived(q, i) = before \o after
  BY DEF Arrived
<1> HIDE DEF before, after
<1>6. /\ before \o after \in Seq(S) /\ Len(before \o after) = Len(before) + Len(after)
      /\ \A j \in 1..Len(before) + Len(after) :
           (before \o after)[j] = IF j <= Len(before) THEN before[j] ELSE after[j - Len(before)]
  BY <1>2, <1>3, ConcatProperties
<1>7. ASSUME NEW j \in 1..Len(q) - 1
      PROVE  (before \o after)[j] = IF j < i THEN Overtaken(q[j]) ELSE q[j + 1]
  <2>1. CASE j < i
    BY <1>1, <1>2, <1>3, <1>4, <1>6, <2>1
  <2>2. CASE ~(j < i)
    <3>1. j - (i - 1) \in 1..Len(q) - i /\ i + (j - (i - 1)) = j + 1
      BY <1>1, <2>2
    <3>2. after[j - (i - 1)] = q[j + 1]
      BY <1>3, <3>1
    <3>3. j \in 1..Len(before) + Len(after) /\ ~(j <= Len(before)) /\ Len(before) = i - 1
      BY <1>1, <1>2, <1>3, <2>2
    <3> QED
      BY <1>6, <2>2, <3>2, <3>3
  <2> QED
    BY <2>1, <2>2
<1>8. Len(before) + Len(after) = Len(q) - 1
  BY <1>1, <1>2, <1>3
<1>9. Len(before \o after) = Len(q) - 1
  BY <1>6, <1>8, Zenon
<1> QED
  BY <1>5, <1>6, <1>7, <1>9, Zenon

\* What arrives out of turn ages those before it, and leaves their order.
LEMMA PdusArrived ==
  ASSUME pdus \in Seq(DataPdu), NEW i \in DOMAIN pdus
  PROVE  /\ Arrived(pdus, i) \in Seq(DataPdu)
         /\ \A j \in DOMAIN Arrived(pdus, i) : \E k \in DOMAIN pdus :
              Arrived(pdus, i)[j].sn = pdus[k].sn /\ Arrived(pdus, i)[j].units = pdus[k].units
<1>1. ASSUME NEW j \in DOMAIN pdus
      PROVE  /\ Overtaken(pdus[j]) \in DataPdu
             /\ Overtaken(pdus[j]).sn = pdus[j].sn /\ Overtaken(pdus[j]).units = pdus[j].units
  <2>1. pdus[j] \in DataPdu
    OBVIOUS
  <2> QED
    <3>1. pdus[j].late + 1 \in Nat
      BY <2>1 DEF DataPdu
    <3>2. Overtaken(pdus[j]) = [pdus[j] EXCEPT !.late = pdus[j].late + 1]
      BY DEF Overtaken
    <3> QED
      BY <2>1, <3>1, <3>2, Zenon DEF DataPdu
<1>2. /\ Arrived(pdus, i) \in Seq(DataPdu)
      /\ Len(Arrived(pdus, i)) = Len(pdus) - 1
      /\ \A j \in 1..Len(pdus) - 1 :
           Arrived(pdus, i)[j] = IF j < i THEN Overtaken(pdus[j]) ELSE pdus[j + 1]
  BY <1>1, ArrivedIs
<1>3. ASSUME NEW j \in 1..Len(pdus) - 1
      PROVE  \E k \in DOMAIN pdus :
               Arrived(pdus, i)[j].sn = pdus[k].sn /\ Arrived(pdus, i)[j].units = pdus[k].units
  <2>1. j \in DOMAIN pdus /\ j + 1 \in DOMAIN pdus
    OBVIOUS
  <2> QED
    BY <1>1, <1>2, <2>1
<1>4. DOMAIN Arrived(pdus, i) = 1..Len(pdus) - 1
  BY <1>2
<1> QED
  BY <1>2, <1>3, <1>4

\* The first STATUS arrives.
LEMMA StatusArrived ==
  ASSUME statuses \in Seq(StatusPdu), NEW i \in DOMAIN statuses, i = 1
  PROVE  /\ Arrived(statuses, i) \in Seq(StatusPdu)
         /\ Len(Arrived(statuses, i)) = Len(statuses) - 1
         /\ \A j \in DOMAIN Arrived(statuses, i) :
              j + 1 \in DOMAIN statuses /\ Arrived(statuses, i)[j] = statuses[j + 1]
<1>1. ASSUME NEW j \in DOMAIN statuses PROVE Overtaken(statuses[j]) \in StatusPdu
  <2>1. statuses[j] \in StatusPdu
    OBVIOUS
  <2>2. statuses[j].late + 1 \in Nat
    BY <2>1 DEF StatusPdu
  <2>3. Overtaken(statuses[j]) = [statuses[j] EXCEPT !.late = statuses[j].late + 1]
    BY DEF Overtaken
  <2> QED
    BY <2>1, <2>2, <2>3, Zenon DEF StatusPdu
<1>2. /\ Arrived(statuses, i) \in Seq(StatusPdu)
      /\ Len(Arrived(statuses, i)) = Len(statuses) - 1
      /\ \A j \in 1..Len(statuses) - 1 : Arrived(statuses, i)[j] =
           IF j < i THEN Overtaken(statuses[j]) ELSE statuses[j + 1]
  BY <1>1, ArrivedIs
<1>3. DOMAIN Arrived(statuses, i) = 1..Len(statuses) - 1
  BY <1>2
<1>4. \A j \in 1..Len(statuses) - 1 : ~(j < i) /\ j + 1 \in DOMAIN statuses
  OBVIOUS
<1> QED
  BY <1>2, <1>3, <1>4

\* It is always the first, as none overtakes.
LEMMA FirstArrives ==
  ASSUME statuses \in Seq(StatusPdu), StatusOvertaking = 0, NEW i \in DOMAIN statuses,
         CanArrive(statuses, i, StatusOvertaking)
  PROVE  i = 1
<1> SUFFICES ASSUME i # 1 PROVE FALSE
  OBVIOUS
<1>1. 1 \in 1..i - 1 /\ 1 \in DOMAIN statuses
  OBVIOUS
<1>2. statuses[1].late \in Nat
  <2>1. statuses[1] \in StatusPdu
    BY <1>1
  <2> QED
    BY <2>1 DEF StatusPdu
<1> QED
  BY <1>1, <1>2 DEF CanArrive

-----------------------------------------------------------------------------
(* A data PDU that the receiver takes.                                     *)

BufferWith(p) == DOMAIN rxon \cup {p.sn}
NextH(p) == IF Off(p.sn, vrR) >= Off(vrH, vrR) THEN Plus(p.sn, 1) ELSE vrH
NextR(p) == IF p.sn = vrR THEN FirstMissing(vrR, BufferWith(p)) ELSE vrR
NextMs(p) == FirstMissing(vrMs, BufferWith(p))
Stays(p) == /\ reordering /\ vrX # NextR(p)
            /\ InsideWindow(vrX, NextR(p)) \/ vrX = Plus(NextR(p), Window)

\* What ReceiveData does, in these terms.
LEMMA ReceiveDataIs ==
  ASSUME NEW i, ReceiveData(i)
  PROVE  /\ CanArrive(pdus, i, DataOvertaking)
         /\ pdus' = Arrived(pdus, i)
         /\ requested' = (requested \/ pdus[i].poll)
         /\ announced' = (announced \/ (pdus[i].poll /\ ~prohibited))
         /\ InsideWindow(pdus[i].sn, vrR) =>
              /\ rxon' = [sn \in BufferWith(pdus[i]) \ Between(vrR, NextR(pdus[i])) |->
                            Buffered(sn, pdus[i])]
              /\ vrH' = NextH(pdus[i]) /\ vrMs' = NextMs(pdus[i]) /\ vrR' = NextR(pdus[i])
              /\ assembly' = HandUp(Off(NextR(pdus[i]), vrR), pdus[i])
              /\ reordering' = (Stays(pdus[i]) \/ NextH(pdus[i]) # NextR(pdus[i]))
              /\ vrX' = IF ~Stays(pdus[i]) /\ NextH(pdus[i]) # NextR(pdus[i])
                        THEN NextH(pdus[i]) ELSE vrX
         /\ ~InsideWindow(pdus[i].sn, vrR) =>
              UNCHANGED <<rxon, vrH, vrMs, vrR, assembly, reordering, vrX>>
         /\ UNCHANGED <<prohibited, txVars, statuses>>
  BY DEF ReceiveData, BufferWith, NextH, NextR, NextMs, Stays

\* It is one of those between VR(R) and VT(S).
LEMMA TakenIsSent ==
  ASSUME TypeInv, WindowInv, FlightInv, NEW i \in DOMAIN pdus, InsideWindow(pdus[i].sn, vrR)
  PROVE  /\ pdus[i] \in DataPdu /\ pdus[i].sn \in SN
         /\ Off(pdus[i].sn, vrR) < Off(vtS, vrR)
<1> DEFINE sn == pdus[i].sn
<1>1. pdus[i] \in DataPdu /\ sn \in SN /\ vtS \in SN /\ vrR \in SN /\ vtA \in SN
  <2>1. pdus[i] \in DataPdu /\ vtS \in SN /\ vrR \in SN /\ vtA \in SN
    BY DEF TypeInv, MacType, SenderType, ReceiverType
  <2> QED
    BY <2>1 DEF DataPdu
<1>2. Off(vtS, sn) > 0 /\ Off(vtS, sn) <= Window
  BY DEF FlightInv
<1>3. Off(sn, vrR) < Window
  BY DEF InsideWindow
<1> HIDE DEF sn
<1>4. Off(vtS, vrR) <= Window
  <2>1. Off(vtS, vrR) = IF Off(vrR, vtA) <= Off(vtS, vtA) THEN Off(vtS, vtA) - Off(vrR, vtA)
                        ELSE Off(vtS, vtA) - Off(vrR, vtA) + SnMod
    BY <1>1, OffFrom
  <2>2. Off(vrR, vtA) <= Off(vtS, vtA) /\ Off(vtS, vtA) <= Window
    BY DEF WindowInv
  <2>3. Off(vrR, vtA) \in Nat /\ Off(vtS, vtA) \in Nat /\ Window \in Nat
    BY <1>1, OffZero, SnFacts
  <2> QED
    BY <2>1, <2>2, <2>3
<1>5. Off(vtS, sn) = IF Off(sn, vrR) <= Off(vtS, vrR) THEN Off(vtS, vrR) - Off(sn, vrR)
                     ELSE Off(vtS, vrR) - Off(sn, vrR) + SnMod
  BY <1>1, OffFrom
<1>6. Off(sn, vrR) \in Nat /\ Off(vtS, vrR) \in Nat /\ Window \in Nat /\ SnMod = 2 * Window
  BY <1>1, OffZero, SnFacts
<1>7. Off(sn, vrR) < Off(vtS, vrR)
  BY <1>2, <1>3, <1>4, <1>5, <1>6
<1> QED
  BY <1>1, <1>7 DEF sn

\* The state variables after it: none moves back, and they keep their order.
LEMMA TakenFacts ==
  ASSUME TypeInv, WindowInv, NEW p \in DataPdu, Off(p.sn, vrR) < Off(vtS, vrR)
  PROVE  /\ p.sn \in SN /\ BufferWith(p) \in SUBSET SN
         /\ NextH(p) \in SN
         /\ Off(vrH, vrR) <= Off(NextH(p), vrR) /\ Off(NextH(p), vrR) <= Off(vtS, vrR)
         /\ \A sn \in BufferWith(p) : Off(sn, vrR) < Off(NextH(p), vrR)
         /\ NextR(p) \in SN /\ NextR(p) \notin BufferWith(p)
         /\ \A y \in SN : Off(y, vrR) < Off(NextR(p), vrR) => y \in BufferWith(p)
         /\ NextMs(p) \in SN
         /\ \A y \in SN : Off(vrMs, vrR) <= Off(y, vrR) /\ Off(y, vrR) < Off(NextMs(p), vrR)
                            => y \in BufferWith(p)
         /\ Off(NextR(p), vrR) <= Off(NextMs(p), vrR)
         /\ Off(NextMs(p), vrR) <= Off(NextH(p), vrR)
<1> DEFINE buffer == BufferWith(p)
           h == NextH(p)
           r == NextR(p)
           ms == NextMs(p)
<1>0. /\ vrR \in SN /\ vrMs \in SN /\ vrH \in SN /\ vtS \in SN /\ p.sn \in SN
      /\ DOMAIN rxon \in SUBSET SN
  BY DEF TypeInv, SenderType, ReceiverType, DataPdu
<1>1. buffer \in SUBSET SN
  BY <1>0 DEF BufferWith
<1>2. /\ Off(vrMs, vrR) <= Off(vrH, vrR) /\ Off(vrH, vrR) <= Off(vtS, vrR)
      /\ \A sn \in DOMAIN rxon : Off(sn, vrR) < Off(vrH, vrR)
      /\ vrR \notin DOMAIN rxon
  BY DEF WindowInv
<1>3. /\ Off(p.sn, vrR) \in Nat /\ Off(vrH, vrR) \in Nat /\ Off(vrMs, vrR) \in Nat
      /\ Off(vtS, vrR) \in Nat /\ Off(vtS, vrR) < SnMod /\ SnMod \in Nat
      /\ \A sn \in SN : Off(sn, vrR) \in Nat /\ Off(sn, vrR) < SnMod
  BY <1>0, OffZero, SnFacts
<1>4. /\ h \in SN /\ Off(h, vrR) >= Off(vrH, vrR) /\ Off(h, vrR) <= Off(vtS, vrR)
      /\ Off(p.sn, vrR) < Off(h, vrR)
  <2>1. CASE Off(p.sn, vrR) >= Off(vrH, vrR)
    <3>1. h = Plus(p.sn, 1)
      BY <2>1 DEF NextH
    <3>2. 1 \in 0..SnMod
      BY SnFacts
    <3>3. h \in SN /\ Off(h, vrR) = IF Off(p.sn, vrR) + 1 < SnMod THEN Off(p.sn, vrR) + 1
                                   ELSE Off(p.sn, vrR) + 1 - SnMod
      BY <1>0, <3>1, <3>2, OffPlus
    <3> HIDE DEF h
    <3> QED
      BY <1>3, <2>1, <3>3
  <2>2. CASE ~(Off(p.sn, vrR) >= Off(vrH, vrR))
    <3>1. h = vrH
      BY <2>2 DEF NextH
    <3> HIDE DEF h
    <3> QED
      BY <1>0, <1>2, <1>3, <2>2, <3>1
  <2> QED
    BY <2>1, <2>2
<1>5. \A sn \in buffer : Off(sn, vrR) < Off(h, vrR)
  <2> SUFFICES ASSUME NEW sn \in buffer PROVE Off(sn, vrR) < Off(h, vrR)
    OBVIOUS
  <2>1. sn = p.sn \/ sn \in DOMAIN rxon
    BY DEF BufferWith
  <2> HIDE DEF h, buffer
  <2>2. sn \in SN /\ Off(sn, vrR) \in Nat /\ Off(h, vrR) \in Nat
    BY <1>1, <1>3, <1>4
  <2> QED
    BY <1>2, <1>3, <1>4, <2>1, <2>2
<1>6. h \notin buffer
  <2> HIDE DEF h, buffer
  <2> QED
    BY <1>3, <1>4, <1>5
<1>7. /\ ms \in SN /\ ms \notin buffer
      /\ Off(ms, vrMs) <= Off(h, vrMs)
      /\ \A y \in SN : Off(y, vrMs) < Off(ms, vrMs) => y \in buffer
  <2> HIDE DEF h, buffer
  <2> QED
    BY <1>0, <1>1, <1>4, <1>6, FirstMissingFacts DEF NextMs, buffer
<1>8. /\ r \in SN /\ r \notin buffer
      /\ \A y \in SN : Off(y, vrR) < Off(r, vrR) => y \in buffer
  <2>1. CASE p.sn = vrR
    <3>1. r = FirstMissing(vrR, buffer)
      BY <2>1 DEF NextR
    <3> HIDE DEF r, h, buffer
    <3> QED
      BY <1>0, <1>1, <1>4, <1>6, <3>1, FirstMissingFacts
  <2>2. CASE p.sn # vrR
    <3>1. r = vrR /\ vrR \notin buffer
      BY <1>2, <2>2 DEF NextR, BufferWith
    <3>2. Off(vrR, vrR) = 0
      BY <1>0, OffZero
    <3> HIDE DEF r, h, buffer
    <3> QED
      BY <1>0, <1>3, <3>1, <3>2
  <2> QED
    BY <2>1, <2>2
<1> HIDE DEF h, r, ms, buffer
<1>9. \A y \in SN : Off(y, vrMs) = IF Off(vrMs, vrR) <= Off(y, vrR) THEN Off(y, vrR) - Off(vrMs, vrR)
                                   ELSE Off(y, vrR) - Off(vrMs, vrR) + SnMod
  BY <1>0, OffFrom
<1>10. Off(ms, vrR) <= Off(h, vrR) /\ Off(vrMs, vrR) <= Off(ms, vrR)
  <2>1. /\ Off(ms, vrMs) = IF Off(vrMs, vrR) <= Off(ms, vrR) THEN Off(ms, vrR) - Off(vrMs, vrR)
                           ELSE Off(ms, vrR) - Off(vrMs, vrR) + SnMod
        /\ Off(h, vrMs) = IF Off(vrMs, vrR) <= Off(h, vrR) THEN Off(h, vrR) - Off(vrMs, vrR)
                          ELSE Off(h, vrR) - Off(vrMs, vrR) + SnMod
    BY <1>4, <1>7, <1>9
  <2>2. Off(ms, vrR) \in Nat /\ Off(h, vrR) \in Nat /\ Off(h, vrR) < SnMod /\ Off(ms, vrR) < SnMod
    BY <1>3, <1>4, <1>7
  <2> QED
    BY <1>2, <1>3, <1>4, <1>7, <2>1, <2>2
<1>11. \A y \in SN : Off(vrMs, vrR) <= Off(y, vrR) /\ Off(y, vrR) < Off(ms, vrR) => y \in buffer
  <2> SUFFICES ASSUME NEW y \in SN, Off(vrMs, vrR) <= Off(y, vrR), Off(y, vrR) < Off(ms, vrR)
               PROVE  Off(y, vrMs) < Off(ms, vrMs)
    BY <1>7
  <2>1. /\ Off(y, vrMs) = Off(y, vrR) - Off(vrMs, vrR)
        /\ Off(ms, vrMs) = Off(ms, vrR) - Off(vrMs, vrR)
    BY <1>7, <1>9, <1>10
  <2>2. Off(ms, vrR) \in Nat /\ Off(y, vrR) \in Nat
    BY <1>3, <1>7
  <2> QED
    BY <1>3, <2>1, <2>2
<1>12. Off(r, vrR) <= Off(ms, vrR)
  <2>1. Off(r, vrR) \in Nat /\ Off(ms, vrR) \in Nat
    BY <1>3, <1>7, <1>8
  <2> QED
    BY <1>7, <1>8, <2>1
<1> QED
  BY <1>0, <1>1, <1>4, <1>5, <1>7, <1>8, <1>10, <1>11, <1>12 DEF h, r, ms, buffer

-----------------------------------------------------------------------------
(* Types are kept.                                                         *)

\* What a poll sets is of its type.
LEMMA PollTypes ==
  ASSUME SenderType, NEW asked \in BOOLEAN, NEW s \in SN, NEW counts \in Nat \X Nat,
         Poll(asked, s, counts)
  PROVE  /\ pollSn' \in SN /\ withoutPoll' \in Nat \X Nat
         /\ pollTimer' \in BOOLEAN /\ justExpired' \in BOOLEAN
<1>1. Off(s, 1) \in SN
  <2>1. s - 1 \in Int /\ SnMod \in Nat \ {0}
    BY SnFacts
  <2>2. (s - 1) % SnMod \in 0..SnMod - 1
    BY <2>1
  <2> QED
    BY <2>2 DEF Off, SN
<1>2. CASE asked
  <2>1. /\ pollSn' = Off(s, 1) /\ pollTimer' = TRUE
        /\ justExpired' = FALSE /\ withoutPoll' = <<0, 0>>
    BY <1>2, Zenon DEF Poll
  <2>2. <<0, 0>> \in Nat \X Nat
    OBVIOUS
  <2> QED
    BY <1>1, <2>1, <2>2
<1>3. CASE ~asked
  BY <1>3 DEF Poll, SenderType
<1> QED
  BY <1>2, <1>3

\* Types hold at the start,
LEMMA InitTypes == Init => TypeInv
<1> SUFFICES ASSUME Init PROVE TypeInv
  OBVIOUS
<1>1. SenderType
  <2>1. << >> \in Seq(Units) /\ <<0, 0>> \in Nat \X Nat /\ 0 \in 0..MaxSdus
    BY ConstantFacts
  <2> QED
    BY <2>1, SnFacts DEF Init, SenderType
<1>2. ReceiverType
  <2>1. DOMAIN rxon = {}
    BY DEF Init
  <2> QED
    BY <2>1, SnFacts DEF Init, ReceiverType
<1>3. MacType
  BY DEF Init, MacType
<1> QED
  BY <1>1, <1>2, <1>3 DEF TypeInv

\* when a PDU is sent again,
LEMMA RetransmitTypes ==
  ASSUME TypeInv, NEW sn \in SN, Retransmit(sn)
  PROVE  TypeInv'
<1> DEFINE asked == (txon = << >> /\ retx = {sn}) \/ vtS = VtMs \/ justExpired
           m == [sn |-> sn, poll |-> asked, units |-> data[sn], late |-> 0]
<1>1. /\ Poll(asked, vtS, withoutPoll)
      /\ pdus' = Append(pdus, m)
      /\ retx' = retx \ {sn} /\ txed' = txed \cup {sn}
      /\ UNCHANGED <<txon, data, vtA, vtS, rbsTimer, accepted, rxVars, statuses>>
  BY DEF Retransmit
<1>2. m \in DataPdu
  <2>1. data[sn] \in Seq(Units) /\ asked \in BOOLEAN
    BY DEF TypeInv, SenderType
  <2> HIDE DEF asked
  <2> QED
    BY <2>1 DEF DataPdu
<1> HIDE DEF m
<1>3. SenderType'
  <2>1. /\ pollSn' \in SN /\ withoutPoll' \in Nat \X Nat
        /\ pollTimer' \in BOOLEAN /\ justExpired' \in BOOLEAN
    <3>1. asked \in BOOLEAN /\ SenderType /\ vtS \in SN /\ withoutPoll \in Nat \X Nat
      BY DEF TypeInv, SenderType
    <3> HIDE DEF asked
    <3> QED
      BY <1>1, <3>1, PollTypes
  <2> QED
    BY <1>1, <2>1 DEF TypeInv, SenderType
<1>4. ReceiverType'
  BY <1>1 DEF TypeInv, ReceiverType, rxVars
<1>5. MacType'
  BY <1>1, <1>2 DEF TypeInv, MacType
<1> QED
  BY <1>3, <1>4, <1>5 DEF TypeInv

\* and when a new one is sent.
LEMMA TransmitNewTypes ==
  ASSUME TypeInv, NEW n \in 1..PduUnits, TransmitNew(n)
  PROVE  TypeInv'
<1> DEFINE units == SubSeq(txon, 1, n)
           rest == SubSeq(txon, n + 1, Len(txon))
           counts == <<withoutPoll[1] + 1, withoutPoll[2] + n>>
           asked == \/ counts[1] >= PollPdu \/ counts[2] >= PollByte
                    \/ rest = << >> \/ Plus(vtS, 1) = VtMs \/ justExpired
           m == [sn |-> vtS, poll |-> asked, units |-> units, late |-> 0]
<1>1. /\ txon' = rest /\ vtS' = Plus(vtS, 1)
      /\ data' = [data EXCEPT ![vtS] = units]
      /\ txed' = txed \cup {vtS}
      /\ Poll(asked, vtS', counts)
      /\ pdus' = Append(pdus, m)
      /\ n \in 1..Len(txon)
      /\ UNCHANGED <<retx, vtA, rbsTimer, accepted, rxVars, statuses>>
  BY DEF TransmitNew
<1>2. /\ units \in Seq(Units) /\ rest \in Seq(Units) /\ counts \in Nat \X Nat
      /\ asked \in BOOLEAN /\ vtS' \in SN
  <2>1. txon \in Seq(Units) /\ withoutPoll \in Nat \X Nat /\ vtS \in SN
    BY DEF TypeInv, SenderType
  <2>2. counts \in Nat \X Nat
    BY <2>1
  <2>3. units \in Seq(Units) /\ rest \in Seq(Units)
    BY <1>1, <2>1
  <2>4. Plus(vtS, 1) \in SN
    <3>1. 1 \in 0..SnMod
      BY SnFacts
    <3> QED
      BY <2>1, <3>1, PlusIs
  <2> QED
    BY <1>1, <2>2, <2>3, <2>4
<1> HIDE DEF units, rest, counts, asked
<1>3. m \in DataPdu
  BY <1>2 DEF DataPdu, TypeInv, SenderType
<1> HIDE DEF m
<1>4. SenderType'
  <2>1. /\ pollSn' \in SN /\ withoutPoll' \in Nat \X Nat
        /\ pollTimer' \in BOOLEAN /\ justExpired' \in BOOLEAN
    BY <1>1, <1>2, PollTypes DEF TypeInv
  <2>2. data' \in [SN -> Seq(Units)]
    BY <1>1, <1>2 DEF TypeInv, SenderType
  <2>3. txed' \in SUBSET SN /\ retx' \in SUBSET SN
    BY <1>1 DEF TypeInv, SenderType
  <2>4. vtA' \in SN /\ rbsTimer' \in BOOLEAN /\ accepted' \in 0..MaxSdus
    BY <1>1 DEF TypeInv, SenderType
  <2> QED
    BY <1>1, <1>2, <2>1, <2>2, <2>3, <2>4 DEF SenderType
<1>5. ReceiverType'
  BY <1>1 DEF TypeInv, ReceiverType, rxVars
<1>6. MacType'
  BY <1>1, <1>3 DEF TypeInv, MacType
<1> QED
  BY <1>4, <1>5, <1>6 DEF TypeInv

\* Of a set of sequence numbers one comes first.
LEMMA SomeFirst ==
  ASSUME NEW kept \in SUBSET SN, kept # {}, NEW base \in SN
  PROVE  \E x \in kept : \A y \in kept : Off(x, base) <= Off(y, base)
<1> DEFINE T == {Off(y, base) : y \in kept}
<1>1. T \in SUBSET Nat /\ T # {}
  BY OffZero
<1>2. PICK n \in T : \A k \in T : n <= k
  BY <1>1, LeastOf
<1> QED
  BY <1>2

\* VT(A) moves on to the first that is still missing, or to the end of what is
\* covered.
LEMMA NextVtA ==
  ASSUME TypeInv, NEW i \in DOMAIN statuses, ReceiveStatus(i)
  PROVE  /\ statuses[i] \in StatusPdu
         /\ UpTo(statuses[i]) \in SN
         /\ Covered(statuses[i]) = Between(vtA, UpTo(statuses[i]))
         /\ vtA' \in SN
         /\ Covered(statuses[i]) \cap statuses[i].nacks = {} => vtA' = UpTo(statuses[i])
         /\ Covered(statuses[i]) \cap statuses[i].nacks # {} =>
              /\ vtA' \in Covered(statuses[i]) \cap statuses[i].nacks
              /\ \A y \in Covered(statuses[i]) \cap statuses[i].nacks : Off(vtA', vtA) <= Off(y, vtA)
<1> DEFINE m == statuses[i]
           kept == {sn \in Covered(m) : sn \in m.nacks}
           Good(x) == Between(vtA, x) \cap kept = {}
<1>1. m \in StatusPdu /\ vtA \in SN /\ vtS \in SN
  BY DEF TypeInv, MacType, SenderType
<1> HIDE DEF m
<1>2. m.ack \in SN /\ m.nacks \in SUBSET SN
  BY <1>1 DEF StatusPdu
<1>3. UpTo(m) \in SN
  BY <1>1, <1>2 DEF UpTo
<1>4. Covered(m) = Between(vtA, UpTo(m)) /\ Covered(m) \in SUBSET SN
  BY <1>1, <1>3, BetweenIs DEF Covered
<1>5. vtA' = IF kept = {} THEN UpTo(m) ELSE CHOOSE x \in kept : Good(x)
  BY DEF ReceiveStatus, m
<1>6. kept = Covered(m) \cap m.nacks /\ kept \in SUBSET SN
  BY <1>4
<1>7. CASE kept # {}
  <2>1. PICK x \in kept : \A y \in kept : Off(x, vtA) <= Off(y, vtA)
    <3> HIDE DEF kept
    <3> QED
      BY <1>1, <1>6, <1>7, SomeFirst
  <2>2. Good(x)
    <3> SUFFICES ASSUME NEW y \in kept, y \in Between(vtA, x) PROVE FALSE
      OBVIOUS
    <3>1. x \in SN /\ y \in SN
      BY <1>6
    <3>2. Off(y, vtA) < Off(x, vtA) /\ Off(x, vtA) <= Off(y, vtA)
      BY <1>1, <2>1, <3>1, BetweenIs
    <3> QED
      BY <1>1, <3>1, <3>2, OffZero
  <2>3. vtA' \in kept /\ Good(vtA')
    <3> HIDE DEF kept
    <3> QED
      BY <1>5, <1>7, <2>2
  <2>4. ASSUME NEW y \in kept PROVE Off(vtA', vtA) <= Off(y, vtA)
    <3>1. vtA' \in SN /\ y \in SN
      BY <1>6, <2>3
    <3>2. ~(Off(y, vtA) < Off(vtA', vtA))
      BY <1>1, <2>3, <3>1, BetweenIs
    <3> QED
      BY <1>1, <3>1, <3>2, OffZero
  <2> QED
    BY <1>1, <1>3, <1>4, <1>6, <1>7, <2>3, <2>4 DEF m
<1>8. CASE kept = {}
  BY <1>1, <1>3, <1>4, <1>5, <1>6, <1>8 DEF m
<1> QED
  BY <1>7, <1>8

\* Types are kept when a STATUS arrives,
LEMMA ReceiveStatusTypes ==
  ASSUME TypeInv, StatusOvertaking = 0, NEW i \in DOMAIN statuses, ReceiveStatus(i)
  PROVE  TypeInv'
<1> DEFINE covered == Covered(statuses[i])
<1>1. /\ CanArrive(statuses, i, StatusOvertaking)
      /\ statuses' = Arrived(statuses, i)
      /\ txed' = txed \ covered
      /\ retx' = CoveredRetx(covered, statuses[i])
      /\ data' = [sn \in SN |-> IF sn \in txed' \cup retx' THEN data[sn] ELSE << >>]
      /\ pollTimer' = (pollTimer /\ pollSn \notin covered)
      /\ UNCHANGED <<txon, vtS, pollSn, withoutPoll, justExpired, rbsTimer, accepted, rxVars, pdus>>
  BY DEF ReceiveStatus
<1>2. vtA' \in SN
  BY NextVtA
<1>3. SenderType'
  <2>1. data' \in [SN -> Seq(Units)]
    <3>1. data \in [SN -> Seq(Units)] /\ << >> \in Seq(Units)
      BY DEF TypeInv, SenderType
    <3> QED
      BY <1>1, <3>1
  <2>2. txed' \in SUBSET SN /\ retx' \in SUBSET SN
    BY <1>1 DEF TypeInv, SenderType, CoveredRetx
  <2>3. pollTimer' \in BOOLEAN
    BY <1>1
  <2>4. /\ txon' \in Seq(Units) /\ vtS' \in SN /\ pollSn' \in SN /\ withoutPoll' \in Nat \X Nat
        /\ justExpired' \in BOOLEAN /\ rbsTimer' \in BOOLEAN /\ accepted' \in 0..MaxSdus
    BY <1>1 DEF TypeInv, SenderType
  <2> QED
    BY <1>2, <2>1, <2>2, <2>3, <2>4 DEF SenderType
<1>4. ReceiverType'
  BY <1>1 DEF TypeInv, ReceiverType, rxVars
<1>5. MacType'
  <2>1. pdus \in Seq(DataPdu) /\ statuses \in Seq(StatusPdu)
    BY DEF TypeInv, MacType
  <2>2. i = 1
    BY <1>1, <2>1, FirstArrives
  <2> QED
    BY <1>1, <2>1, <2>2, StatusArrived DEF MacType
<1> QED
  BY <1>3, <1>4, <1>5 DEF TypeInv

\* when a data PDU arrives,
LEMMA ReceiveDataTypes ==
  ASSUME TypeInv, WindowInv, FlightInv, NEW i \in DOMAIN pdus, ReceiveData(i)
  PROVE  TypeInv'
<1> DEFINE p == pdus[i]
<1>0. p \in DataPdu /\ pdus \in Seq(DataPdu)
  BY DEF TypeInv, MacType
<1>1. /\ pdus' = Arrived(pdus, i)
      /\ requested' = (requested \/ p.poll)
      /\ announced' = (announced \/ (p.poll /\ ~prohibited))
      /\ UNCHANGED <<prohibited, txVars, statuses>>
  BY ReceiveDataIs
<1>2. SenderType'
  BY <1>1 DEF TypeInv, SenderType, txVars
<1>3. MacType'
  BY <1>0, <1>1, PdusArrived DEF TypeInv, MacType
<1>4. requested' \in BOOLEAN /\ announced' \in BOOLEAN /\ prohibited' \in BOOLEAN
  BY <1>1 DEF TypeInv, ReceiverType
<1>5. CASE InsideWindow(p.sn, vrR)
  <2>1. Off(p.sn, vrR) < Off(vtS, vrR)
    BY <1>5, TakenIsSent
  <2>2. /\ rxon' = [sn \in BufferWith(p) \ Between(vrR, NextR(p)) |-> Buffered(sn, p)]
        /\ vrH' = NextH(p) /\ vrMs' = NextMs(p) /\ vrR' = NextR(p)
        /\ reordering' = (Stays(p) \/ NextH(p) # NextR(p))
        /\ vrX' = IF ~Stays(p) /\ NextH(p) # NextR(p) THEN NextH(p) ELSE vrX
    BY <1>5, ReceiveDataIs
  <2> HIDE DEF p
  <2>3. NextH(p) \in SN /\ NextR(p) \in SN /\ NextMs(p) \in SN /\ BufferWith(p) \in SUBSET SN
    BY <1>0, <2>1, TakenFacts
  <2>4. DOMAIN rxon' \in SUBSET SN /\ \A sn \in DOMAIN rxon' : rxon'[sn] \in Seq(Units)
    <3>1. \A sn \in DOMAIN rxon : rxon[sn] \in Seq(Units)
      BY DEF TypeInv, ReceiverType
    <3>2. p.units \in Seq(Units)
      BY <1>0 DEF DataPdu
    <3>3. \A sn : Buffered(sn, p) \in Seq(Units)
      BY <3>1, <3>2 DEF Buffered
    <3> QED
      BY <2>2, <2>3, <3>3
  <2>5. vrX \in SN
    BY DEF TypeInv, ReceiverType
  <2> QED
    BY <1>2, <1>3, <1>4, <2>2, <2>3, <2>4, <2>5 DEF TypeInv, ReceiverType
<1>6. CASE ~InsideWindow(p.sn, vrR)
  <2>1. UNCHANGED <<rxon, vrH, vrMs, vrR, assembly, reordering, vrX>>
    BY <1>6, ReceiveDataIs
  <2>2. ReceiverType'
    BY <1>4, <2>1 DEF TypeInv, ReceiverType
  <2> QED
    BY <1>2, <1>3, <2>2 DEF TypeInv
<1> QED
  BY <1>5, <1>6

\* VR(MS) moves on to the first sequence number missing from VR(X) on.
LEMMA ExpiredFacts ==
  ASSUME TypeInv, WindowInv, ReorderInv, reordering
  PROVE  LET ms == FirstMissing(vrX, DOMAIN rxon) IN
         /\ ms \in SN
         /\ Off(ms, vrR) <= Off(vrH, vrR)
<1> DEFINE ms == FirstMissing(vrX, DOMAIN rxon)
<1>1. vrX \in SN /\ vrR \in SN /\ vrH \in SN /\ DOMAIN rxon \in SUBSET SN
  BY DEF TypeInv, ReceiverType
<1>2. Off(vrX, vrR) <= Off(vrH, vrR)
  BY DEF ReorderInv
<1>3. vrH \notin DOMAIN rxon
  BY <1>1, OffZero DEF WindowInv
<1>4. ms \in SN /\ Off(ms, vrX) <= Off(vrH, vrX)
  BY <1>1, <1>3, FirstMissingFacts
<1> HIDE DEF ms
<1>5. /\ Off(ms, vrX) = IF Off(vrX, vrR) <= Off(ms, vrR) THEN Off(ms, vrR) - Off(vrX, vrR)
                        ELSE Off(ms, vrR) - Off(vrX, vrR) + SnMod
      /\ Off(vrH, vrX) = IF Off(vrX, vrR) <= Off(vrH, vrR) THEN Off(vrH, vrR) - Off(vrX, vrR)
                         ELSE Off(vrH, vrR) - Off(vrX, vrR) + SnMod
  BY <1>1, <1>4, OffFrom
<1>6. /\ Off(ms, vrR) \in Nat /\ Off(vrX, vrR) \in Nat /\ Off(vrH, vrR) \in Nat
      /\ Off(vrH, vrR) < SnMod /\ SnMod \in Nat
  BY <1>1, <1>4, OffZero, SnFacts
<1>7. Off(ms, vrR) <= Off(vrH, vrR)
  BY <1>2, <1>4, <1>5, <1>6
<1> QED
  BY <1>4, <1>7 DEF ms

\* and by every step.
LEMMA NextTypes ==
  ASSUME TypeInv, ArqInv, StatusOvertaking = 0, [Next]_vars
  PROVE  TypeInv'
<1>0. SenderType /\ ReceiverType /\ MacType
  BY DEF TypeInv
<1>1. CASE TransmitPdcpPdu
  <2>1. /\ accepted < MaxSdus /\ accepted' = accepted + 1
        /\ txon' = txon \o [k \in 1..SduUnits |-> <<accepted + 1, k>>]
        /\ rbsTimer' = TRUE
        /\ UNCHANGED <<txed, retx, data, vtA, vtS, pollSn, withoutPoll, pollTimer,
                       justExpired, rxVars, macVars>>
    BY <1>1 DEF TransmitPdcpPdu
  <2>2. accepted' \in 0..MaxSdus /\ accepted + 1 \in 1..MaxSdus
    BY <1>0, <2>1, ConstantFacts DEF SenderType
  <2>3. txon' \in Seq(Units)
    <3> DEFINE sdu == [k \in 1..SduUnits |-> <<accepted + 1, k>>]
    <3>1. sdu \in [1..SduUnits -> Units]
      BY <2>2 DEF Units
    <3> HIDE DEF sdu
    <3>2. sdu \in Seq(Units)
      BY <3>1, ConstantFacts
    <3>3. txon' = txon \o sdu
      BY <2>1 DEF sdu
    <3> QED
      BY <1>0, <3>2, <3>3, ConcatProperties DEF SenderType
  <2>4. SenderType'
    BY <1>0, <2>1, <2>2, <2>3 DEF SenderType
  <2>5. ReceiverType' /\ MacType'
    BY <1>0, <2>1 DEF ReceiverType, MacType, rxVars, macVars
  <2> QED
    BY <2>4, <2>5 DEF TypeInv
<1>2. CASE Transmit
  BY <1>2, RetransmitTypes, TransmitNewTypes DEF Transmit
<1>3. CASE ExpirePollRetransmitTimer
  <2>1. SenderType'
    BY <1>0, <1>3 DEF ExpirePollRetransmitTimer, SenderType
  <2>2. ReceiverType' /\ MacType'
    BY <1>0, <1>3 DEF ExpirePollRetransmitTimer, ReceiverType, MacType, rxVars, macVars
  <2> QED
    BY <2>1, <2>2 DEF TypeInv
<1>4. CASE ExpireRbsTimer
  <2>1. SenderType'
    BY <1>0, <1>4 DEF ExpireRbsTimer, SenderType
  <2>2. ReceiverType' /\ MacType'
    BY <1>0, <1>4 DEF ExpireRbsTimer, ReceiverType, MacType, rxVars, macVars
  <2> QED
    BY <2>1, <2>2 DEF TypeInv
<1>5. CASE \E sn \in SN : DataArrives(sn)
  <2>1. PICK i \in DOMAIN pdus : ReceiveData(i)
    BY <1>5 DEF DataArrives
  <2> QED
    BY <2>1, ReceiveDataTypes DEF ArqInv
<1>6. CASE StatusArrives
  BY <1>6, ReceiveStatusTypes DEF StatusArrives
<1>7. CASE StatusLeaves
  <2>1. PICK ack \in SN : TransmitStatus(ack)
    BY <1>7 DEF StatusLeaves
  <2> DEFINE nacks == (Between(vrR, vrMs) \ DOMAIN rxon) \cap Between(vrR, ack)
             m == [ack |-> ack, nacks |-> nacks, late |-> 0]
  <2>2. /\ statuses' = Append(statuses, m)
        /\ requested' = FALSE /\ announced' = FALSE /\ prohibited' = TRUE
        /\ UNCHANGED <<rxon, vrR, vrMs, vrH, vrX, reordering, assembly, txVars, pdus>>
    BY <2>1 DEF TransmitStatus
  <2>3. nacks \in SUBSET SN
    BY <1>0, BetweenIs DEF ReceiverType
  <2> HIDE DEF nacks
  <2>4. m \in StatusPdu
    BY <2>3 DEF StatusPdu
  <2> HIDE DEF m
  <2>5. SenderType' /\ ReceiverType'
    BY <1>0, <2>2 DEF SenderType, ReceiverType, txVars
  <2>6. MacType'
    BY <1>0, <2>2, <2>4 DEF MacType
  <2> QED
    BY <2>5, <2>6 DEF TypeInv
<1>8. CASE ExpireStatusProhibitTimer
  <2>1. SenderType' /\ MacType'
    BY <1>0, <1>8 DEF ExpireStatusProhibitTimer, SenderType, MacType, txVars, macVars
  <2>2. ReceiverType'
    BY <1>0, <1>8 DEF ExpireStatusProhibitTimer, ReceiverType
  <2> QED
    BY <2>1, <2>2 DEF TypeInv
<1>9. CASE ExpireReorderingTimer
  <2>1. SenderType' /\ MacType'
    BY <1>0, <1>9 DEF ExpireReorderingTimer, SenderType, MacType, txVars, macVars
  <2>2. /\ reordering /\ vrMs' = FirstMissing(vrX, DOMAIN rxon)
        /\ reordering' = (Off(vrH, vrR) > Off(vrMs', vrR))
        /\ vrX' = (IF reordering' THEN vrH ELSE vrX)
        /\ requested' = TRUE
        /\ UNCHANGED <<rxon, vrR, vrH, announced, prohibited>>
    BY <1>9 DEF ExpireReorderingTimer
  <2>3. vrMs' \in SN
    BY <2>2, ExpiredFacts DEF ArqInv
  <2>4. ReceiverType'
    BY <1>0, <2>2, <2>3 DEF ReceiverType
  <2> QED
    BY <2>1, <2>4 DEF TypeInv
<1>10. CASE LosePdu
  <2>1. SenderType' /\ ReceiverType'
    BY <1>0, <1>10 DEF LosePdu, SenderType, ReceiverType, txVars, rxVars
  <2>2. MacType'
    BY <1>0, <1>10 DEF LosePdu, MacType
  <2> QED
    BY <2>1, <2>2 DEF TypeInv
<1>11. CASE LoseStatus
  <2>1. SenderType' /\ ReceiverType'
    BY <1>0, <1>11 DEF LoseStatus, SenderType, ReceiverType, txVars, rxVars
  <2>2. MacType'
    BY <1>0, <1>11 DEF LoseStatus, MacType
  <2> QED
    BY <2>1, <2>2 DEF TypeInv
<1>12. CASE UNCHANGED vars
  BY <1>0, <1>12 DEF TypeInv, SenderType, ReceiverType, MacType, vars, txVars, rxVars, macVars
<1> QED
  BY <1>1, <1>2, <1>3, <1>4, <1>5, <1>6, <1>7, <1>8, <1>9, <1>10, <1>11, <1>12 DEF Next

-----------------------------------------------------------------------------
(* The invariant is kept.                                                  *)

windowVars == <<vtA, vtS, rxon, vrR, vrMs, vrH, vrX, reordering>>

\* The invariant holds at the start.
LEMMA InitArq == Init => ArqInv
<1> SUFFICES ASSUME Init PROVE ArqInv
  OBVIOUS
<1>1. /\ txed = {} /\ retx = {} /\ vtA = 0 /\ vtS = 0 /\ vrR = 0 /\ vrMs = 0 /\ vrH = 0
      /\ reordering = FALSE /\ DOMAIN rxon = {} /\ pdus = << >> /\ statuses = << >>
  BY DEF Init
<1>2. Off(0, 0) = 0 /\ 0 \in SN
  BY OffZero, SnFacts
<1>3. WindowInv
  BY <1>1, <1>2, SnFacts DEF WindowInv
<1>4. ReorderInv
  BY <1>1 DEF ReorderInv
<1>5. HeldInv
  <2>1. \A sn \in SN : Off(sn, 0) \in Nat
    BY <1>2, OffZero
  <2> QED
    BY <1>1, <1>2, <2>1 DEF HeldInv, Held
<1>6. FlightInv /\ StatusInv
  BY <1>1 DEF FlightInv, StatusInv
<1> QED
  BY <1>3, <1>4, <1>5, <1>6 DEF ArqInv

\* A step that moves no window and forgets nothing keeps each part.
LEMMA SameStatusInv ==
  ASSUME StatusInv, UNCHANGED windowVars, UNCHANGED statuses, Held \subseteq Held'
  PROVE  StatusInv'
<1>1. /\ vtA' = vtA /\ vtS' = vtS /\ vrR' = vrR /\ rxon' = rxon /\ statuses' = statuses
  BY DEF windowVars
<1>4. ASSUME NEW i \in DOMAIN statuses PROVE StatusTells(statuses[i])'
  <2>1. StatusTells(statuses[i])
    BY DEF StatusInv
  <2> QED
    BY <1>1, <2>1 DEF StatusTells
<1>5. ASSUME NEW i \in DOMAIN statuses, NEW j \in DOMAIN statuses, i < j
      PROVE  StatusFollows(statuses[i], statuses[j])'
  <2>1. StatusFollows(statuses[i], statuses[j])
    BY <1>5 DEF StatusInv
  <2> QED
    BY <1>1, <2>1 DEF StatusFollows
<1> QED
  BY <1>1, <1>4, <1>5 DEF StatusInv

\* The windows,
LEMMA SameWindows ==
  ASSUME WindowInv, ReorderInv, UNCHANGED windowVars
  PROVE  WindowInv' /\ ReorderInv'
<1>1. WindowInv'
  BY DEF WindowInv, windowVars
<1>2. ReorderInv'
  BY DEF ReorderInv, windowVars
<1> QED
  BY <1>1, <1>2

\* what is held,
LEMMA SameHeld ==
  ASSUME HeldInv, UNCHANGED windowVars, Held' = Held, txed' \cap retx' = {}
  PROVE  HeldInv'
  BY DEF HeldInv, windowVars

\* and all of it when the MAC does nothing either.
LEMMA SameArq ==
  ASSUME ArqInv, UNCHANGED windowVars, Held' = Held, txed' \cap retx' = {},
         UNCHANGED <<pdus, statuses>>
  PROVE  ArqInv'
<1>1. FlightInv'
  BY DEF ArqInv, FlightInv, windowVars
<1> QED
  BY <1>1, SameStatusInv, SameWindows, SameHeld DEF ArqInv

\* Sending again moves a PDU from one buffer to the other, and it is not older than a window.
LEMMA RetransmitArq ==
  ASSUME TypeInv, ArqInv, NEW sn \in SN, Retransmit(sn)
  PROVE  ArqInv'
<1> DEFINE m == [sn |-> sn, poll |-> (txon = << >> /\ retx = {sn}) \/ vtS = VtMs \/ justExpired,
                 units |-> data[sn], late |-> 0]
<1>1. /\ sn \in retx /\ retx' = retx \ {sn} /\ txed' = txed \cup {sn}
      /\ pdus' = Append(pdus, m)
      /\ UNCHANGED windowVars /\ statuses' = statuses
  BY DEF Retransmit, windowVars, rxVars
<1>2. Held' = Held /\ txed' \cap retx' = {}
  BY <1>1 DEF Held, ArqInv, HeldInv
<1>3. WindowInv' /\ ReorderInv' /\ HeldInv' /\ StatusInv'
  BY <1>1, <1>2, SameStatusInv, SameWindows, SameHeld DEF ArqInv
<1>4. Off(vtS, sn) > 0 /\ Off(vtS, sn) <= Window
  <2>1. Off(sn, vtA) < Off(vtS, vtA) /\ Off(vtS, vtA) <= Window
    BY <1>1 DEF ArqInv, HeldInv, Held, WindowInv
  <2>2. vtS \in SN /\ vtA \in SN
    BY DEF TypeInv, SenderType
  <2>3. Off(vtS, sn) = IF Off(sn, vtA) <= Off(vtS, vtA) THEN Off(vtS, vtA) - Off(sn, vtA)
                       ELSE Off(vtS, vtA) - Off(sn, vtA) + SnMod
    BY <2>2, OffFrom
  <2>4. Off(sn, vtA) \in Nat /\ Off(vtS, vtA) \in Nat /\ Window \in Nat
    BY <2>2, OffZero, SnFacts
  <2> QED
    BY <2>1, <2>3, <2>4
<1>5. FlightInv'
  <2>1. pdus \in Seq(DataPdu) /\ vtS' = vtS /\ m.sn = sn
    BY <1>1 DEF TypeInv, MacType, windowVars
  <2> HIDE DEF m
  <2>2. ASSUME NEW j \in DOMAIN pdus' PROVE pdus'[j].sn = sn \/ \E k \in DOMAIN pdus : pdus'[j] = pdus[k]
    BY <1>1, <2>1
  <2>3. \A k \in DOMAIN pdus : Off(vtS, pdus[k].sn) > 0 /\ Off(vtS, pdus[k].sn) <= Window
    BY DEF ArqInv, FlightInv
  <2> QED
    BY <1>4, <2>1, <2>2, <2>3 DEF FlightInv
<1> QED
  BY <1>3, <1>5 DEF ArqInv

\* The MAC loses a PDU.
LEMMA LoseArq ==
  ASSUME TypeInv, ArqInv, LosePdu \/ LoseStatus
  PROVE  ArqInv'
<1>1. pdus \in Seq(DataPdu) /\ statuses \in Seq(StatusPdu)
  BY DEF TypeInv, MacType
<1>2. UNCHANGED windowVars /\ txed' = txed /\ retx' = retx
  BY DEF LosePdu, LoseStatus, windowVars, txVars, rxVars
<1>3. Held' = Held /\ txed' \cap retx' = {}
  BY <1>2 DEF Held, ArqInv, HeldInv
<1>4. WindowInv' /\ ReorderInv' /\ HeldInv'
  BY <1>2, <1>3, SameWindows, SameHeld DEF ArqInv
<1>5. CASE LosePdu
  <2>1. pdus # << >> /\ pdus' = Tail(pdus) /\ statuses' = statuses
    BY <1>5 DEF LosePdu
  <2>2. \A j \in DOMAIN pdus' : j + 1 \in DOMAIN pdus /\ pdus'[j] = pdus[j + 1]
    BY <1>1, <2>1
  <2>3. FlightInv'
    BY <1>2, <2>2 DEF ArqInv, FlightInv, windowVars
  <2> QED
    BY <1>2, <1>3, <1>4, <2>1, <2>3, SameStatusInv DEF ArqInv
<1>6. CASE LoseStatus
  <2>1. statuses # << >> /\ statuses' = Tail(statuses) /\ pdus' = pdus
    BY <1>6 DEF LoseStatus
  <2>2. \A j \in DOMAIN statuses' : j + 1 \in DOMAIN statuses /\ statuses'[j] = statuses[j + 1] /\ j \in Nat
    BY <1>1, <2>1
  <2>3. FlightInv'
    BY <1>2, <2>1 DEF ArqInv, FlightInv, windowVars
  <2>4. ASSUME NEW i \in DOMAIN statuses' PROVE StatusTells(statuses[i])'
    <3>1. StatusTells(statuses[i + 1]) /\ statuses'[i] = statuses[i + 1]
      BY <2>2 DEF ArqInv, StatusInv
    <3> QED
      BY <1>2, <1>3, <3>1 DEF StatusTells, windowVars
  <2>5. ASSUME NEW i \in DOMAIN statuses', NEW j \in DOMAIN statuses', i < j
        PROVE  StatusFollows(statuses[i], statuses[j])'
    <3>1. i + 1 \in DOMAIN statuses /\ j + 1 \in DOMAIN statuses /\ i + 1 < j + 1
      BY <2>2, <2>5
    <3>2. StatusFollows(statuses[i + 1], statuses[j + 1])
      BY <3>1 DEF ArqInv, StatusInv
    <3>3. statuses'[i] = statuses[i + 1] /\ statuses'[j] = statuses[j + 1]
      BY <2>2
    <3> QED
      BY <1>2, <3>2, <3>3 DEF StatusFollows, windowVars
  <2>6. StatusInv'
    BY <2>4, <2>5 DEF StatusInv
  <2> QED
    BY <1>4, <2>3, <2>6 DEF ArqInv
<1> QED
  BY <1>5, <1>6

\* What is sent and not before VR(R), seen from VT(A).
LEMMA FromVrR ==
  ASSUME TypeInv, WindowInv, NEW y \in SN, Off(y, vrR) <= Off(vtS, vrR)
  PROVE  /\ Off(y, vtA) = Off(vrR, vtA) + Off(y, vrR)
         /\ Off(vrR, vtA) \in Nat /\ Off(y, vrR) \in Nat
<1>1. vtA \in SN /\ vtS \in SN /\ vrR \in SN
  BY DEF TypeInv, SenderType, ReceiverType
<1>2. Off(vtS, vtA) <= Window /\ Off(vrR, vtA) <= Off(vtS, vtA)
  BY DEF WindowInv
<1>3. /\ Off(y, vrR) = IF Off(vrR, vtA) <= Off(y, vtA) THEN Off(y, vtA) - Off(vrR, vtA)
                       ELSE Off(y, vtA) - Off(vrR, vtA) + SnMod
      /\ Off(vtS, vrR) = IF Off(vrR, vtA) <= Off(vtS, vtA) THEN Off(vtS, vtA) - Off(vrR, vtA)
                         ELSE Off(vtS, vtA) - Off(vrR, vtA) + SnMod
  BY <1>1, OffFrom
<1>4. /\ Off(y, vrR) \in Nat /\ Off(vrR, vtA) \in Nat /\ Off(y, vtA) \in Nat
      /\ Off(vtS, vtA) \in Nat /\ Window \in Nat /\ Window > 0 /\ SnMod = 2 * Window
  BY <1>1, OffZero, SnFacts
<1> QED
  BY <1>2, <1>3, <1>4

\* A new PDU extends the window by one, which no STATUS under way speaks of.
LEMMA TransmitNewArq ==
  ASSUME TypeInv, ArqInv, NEW n \in 1..PduUnits, TransmitNew(n)
  PROVE  ArqInv'
<1>1. /\ retx = {} /\ WindowOpen /\ MacDrained
      /\ vtS' = Plus(vtS, 1) /\ txed' = txed \cup {vtS} /\ retx' = retx
      /\ \E m : pdus' = Append(pdus, m) /\ m.sn = vtS
      /\ UNCHANGED <<vtA, rxon, vrR, vrMs, vrH, vrX, reordering, statuses>>
  <2>1. \E m : pdus' = Append(pdus, m) /\ m.sn = vtS
    <3> DEFINE asked == \/ <<withoutPoll[1] + 1, withoutPoll[2] + n>>[1] >= PollPdu
                        \/ <<withoutPoll[1] + 1, withoutPoll[2] + n>>[2] >= PollByte
                        \/ SubSeq(txon, n + 1, Len(txon)) = << >>
                        \/ Plus(vtS, 1) = VtMs
                        \/ justExpired
               m == [sn |-> vtS, poll |-> asked, units |-> SubSeq(txon, 1, n), late |-> 0]
    <3>1. pdus' = Append(pdus, m)
      BY DEF TransmitNew
    <3>2. m.sn = vtS
      OBVIOUS
    <3> QED
      BY <3>1, <3>2
  <2> QED
    BY <2>1 DEF TransmitNew, rxVars
<1>2. /\ vtA \in SN /\ vtS \in SN /\ vrR \in SN /\ vrMs \in SN /\ vrH \in SN
      /\ pdus \in Seq(DataPdu)
  BY DEF TypeInv, SenderType, ReceiverType, MacType
<1>3. WindowInv /\ ReorderInv /\ HeldInv /\ FlightInv /\ StatusInv
  BY DEF ArqInv
<1>4. /\ Window \in Nat /\ Window > 0 /\ SnMod = 2 * Window
      /\ 1 \in 0..SnMod /\ Window \in 0..SnMod
      /\ Off(vtS, vtA) \in Nat /\ Off(vrR, vtA) \in Nat /\ Off(vtS, vrR) \in Nat
  <2>1. Window \in Nat /\ Window > 0 /\ SnMod = 2 * Window
    BY SnFacts
  <2>2. 1 \in 0..SnMod /\ Window \in 0..SnMod
    BY <2>1
  <2> QED
    BY <1>2, <2>1, <2>2, OffZero
<1>5. Off(vtS, vtA) < Window
  <2>1. Off(vtS, vtA) <= Window
    BY <1>3 DEF WindowInv
  <2>2. Off(vtA, vtA) = 0 /\ Plus(vtA, Window) \in SN
    BY <1>2, <1>4, OffZero, OffPlus
  <2>3. Off(Plus(vtA, Window), vtA) = Window
    BY <1>2, <1>4, <2>2, OffPlus
  <2>4. vtS # Plus(vtA, Window)
    BY <1>1 DEF WindowOpen, VtMs
  <2>5. Off(vtS, vtA) # Window
    BY <1>2, <2>2, <2>3, <2>4, OffInjective
  <2> QED
    BY <1>4, <2>1, <2>5
<1>6. vtS' \in SN /\ Off(vtS', vtA) = Off(vtS, vtA) + 1
  <2>1. Off(Plus(vtS, 1), vtA) = IF Off(vtS, vtA) + 1 < SnMod THEN Off(vtS, vtA) + 1
                                 ELSE Off(vtS, vtA) + 1 - SnMod
    BY <1>2, <1>4, OffPlus
  <2>2. Plus(vtS, 1) \in SN
    BY <1>2, <1>4, OffPlus
  <2> QED
    BY <1>1, <1>4, <1>5, <2>1, <2>2
<1>7. Off(vtS', vrR) = Off(vtS, vrR) + 1
  <2>1. Off(Plus(vtS, 1), vrR) = IF Off(vtS, vrR) + 1 < SnMod THEN Off(vtS, vrR) + 1
                                 ELSE Off(vtS, vrR) + 1 - SnMod
    BY <1>2, <1>4, OffPlus
  <2>2. Off(vtS, vtA) = Off(vrR, vtA) + Off(vtS, vrR)
    BY <1>2, <1>3, <1>4, FromVrR
  <2> QED
    BY <1>1, <1>4, <1>5, <2>1, <2>2
<1>8. WindowInv'
  <2>1. /\ Off(vrR, vtA) <= Off(vtS, vtA) /\ Off(vrMs, vrR) <= Off(vrH, vrR)
        /\ Off(vrH, vrR) <= Off(vtS, vrR) /\ vrR \notin DOMAIN rxon
        /\ \A sn \in DOMAIN rxon : Off(sn, vrR) < Off(vrH, vrR)
    BY <1>3 DEF WindowInv
  <2>2. Off(vrH, vrR) \in Nat
    BY <1>2, OffZero
  <2> QED
    BY <1>1, <1>4, <1>5, <1>6, <1>7, <2>1, <2>2 DEF WindowInv
<1>9. ReorderInv'
  BY <1>1, <1>3 DEF ReorderInv
<1>10. Held' = Held \cup {vtS}
  BY <1>1 DEF Held
<1>11. HeldInv'
  <2>1. txed' \cap retx' = {}
    BY <1>1
  <2>2. ASSUME NEW sn \in Held' PROVE Off(sn, vtA) < Off(vtS', vtA)
    <3>1. sn \in SN /\ Off(sn, vtA) \in Nat
      BY <1>2, <1>10, OffZero DEF Held, TypeInv, SenderType
    <3>2. sn = vtS \/ Off(sn, vtA) < Off(vtS, vtA)
      BY <1>3, <1>10 DEF HeldInv
    <3> QED
      BY <1>4, <1>6, <3>1, <3>2
  <2>3. ASSUME NEW sn \in SN, Off(sn, vrR) < Off(vtS', vrR), sn \notin DOMAIN rxon
        PROVE  sn \in Held'
    <3>1. Off(sn, vrR) \in Nat
      BY <1>2, OffZero
    <3>2. Off(sn, vrR) < Off(vtS, vrR) \/ Off(sn, vrR) = Off(vtS, vrR)
      BY <1>4, <1>7, <2>3, <3>1
    <3>3. CASE Off(sn, vrR) = Off(vtS, vrR)
      BY <1>2, <1>10, <3>3, OffInjective
    <3>4. CASE Off(sn, vrR) < Off(vtS, vrR)
      BY <1>3, <1>10, <2>3, <3>4 DEF HeldInv
    <3> QED
      BY <3>2, <3>3, <3>4
  <2> QED
    BY <1>1, <2>1, <2>2, <2>3 DEF HeldInv
<1>12. FlightInv'
  <2>1. ASSUME NEW k \in DOMAIN pdus
        PROVE  Off(vtS', pdus[k].sn) > 0 /\ Off(vtS', pdus[k].sn) <= Window
    <3> DEFINE sn == pdus[k].sn
    <3>1. sn \in SN
      <4>1. pdus[k] \in DataPdu
        BY <1>2
      <4> QED
        BY <4>1 DEF DataPdu
    <3>2. Off(vtS, sn) > 0 /\ Off(vtS, sn) <= Window /\ sn # Plus(vtS, Window)
      BY <1>1, <1>3 DEF FlightInv, MacDrained
    <3> HIDE DEF sn
    <3>3. Off(vtS, sn) # Window
      <4> SUFFICES ASSUME Off(vtS, sn) = Window PROVE FALSE
        OBVIOUS
      <4>1. Off(sn, vtS) = IF Off(vtS, sn) <= Off(sn, sn) THEN Off(sn, sn) - Off(vtS, sn)
                           ELSE Off(sn, sn) - Off(vtS, sn) + SnMod
        BY <1>2, <3>1, OffFrom
      <4>2. Off(sn, sn) = 0
        BY <3>1, OffZero
      <4>3. Off(sn, vtS) = Window
        BY <1>4, <4>1, <4>2
      <4> QED
        BY <1>2, <3>1, <3>2, <4>3, PlusOff
    <3>4. Off(Plus(vtS, 1), sn) = IF Off(vtS, sn) + 1 < SnMod THEN Off(vtS, sn) + 1
                                  ELSE Off(vtS, sn) + 1 - SnMod
      BY <1>2, <1>4, <3>1, OffPlus
    <3>5. Off(vtS, sn) \in Nat
      BY <1>2, <3>1, OffZero
    <3>6. Off(vtS', sn) > 0 /\ Off(vtS', sn) <= Window
      BY <1>1, <1>4, <3>2, <3>3, <3>4, <3>5
    <3> QED
      BY <3>6 DEF sn
  <2>2. Off(vtS', vtS) > 0 /\ Off(vtS', vtS) <= Window
    <3>1. Off(vtS, vtS) = 0
      BY <1>2, OffZero
    <3>2. Off(Plus(vtS, 1), vtS) = IF Off(vtS, vtS) + 1 < SnMod THEN Off(vtS, vtS) + 1
                                   ELSE Off(vtS, vtS) + 1 - SnMod
      BY <1>2, <1>4, OffPlus
    <3> QED
      BY <1>1, <1>4, <3>1, <3>2
  <2>3. PICK m : pdus' = Append(pdus, m) /\ m.sn = vtS
    BY <1>1
  <2>4. ASSUME NEW j \in DOMAIN pdus' PROVE pdus'[j].sn = vtS \/ \E k \in DOMAIN pdus : pdus'[j] = pdus[k]
    BY <1>2, <2>3
  <2> QED
    BY <2>1, <2>2, <2>4 DEF FlightInv
<1>13. ASSUME NEW i \in DOMAIN statuses PROVE StatusTells(statuses[i])'
  <2> DEFINE m == statuses[i]
  <2>1. StatusTells(m)
    BY <1>3 DEF StatusInv
  <2>2. m.ack \in SN
    <3>1. m \in StatusPdu
      BY DEF TypeInv, MacType
    <3> QED
      BY <3>1 DEF StatusPdu
  <2> HIDE DEF m
  <2>3. ASSUME NEW sn \in SN, Off(sn, vrR) < Off(vtS', vrR), sn \notin DOMAIN rxon,
               Off(sn, vtA) < Off(m.ack, vtA)
        PROVE  sn \in m.nacks
    <3>1. Off(sn, vrR) \in Nat
      BY <1>2, OffZero
    <3>2. Off(sn, vrR) < Off(vtS, vrR) \/ Off(sn, vrR) = Off(vtS, vrR)
      BY <1>4, <1>7, <2>3, <3>1
    <3>3. Off(sn, vrR) # Off(vtS, vrR)
      <4> SUFFICES ASSUME Off(sn, vrR) = Off(vtS, vrR) PROVE FALSE
        OBVIOUS
      <4>1. sn = vtS
        BY <1>2, OffInjective
      <4>2. Off(m.ack, vtA) <= Off(vtS, vtA) /\ Off(m.ack, vtA) \in Nat
        BY <1>2, <2>1, <2>2, OffZero DEF StatusTells
      <4> QED
        BY <1>4, <2>3, <4>1, <4>2
    <3> QED
      BY <2>1, <2>3, <3>2, <3>3 DEF StatusTells
  <2>4. Off(m.ack, vtA) <= Off(vtS', vtA)
    <3>1. Off(m.ack, vtA) <= Off(vtS, vtA)
      BY <2>1 DEF StatusTells
    <3>2. Off(m.ack, vtA) \in Nat
      BY <1>2, <2>2, OffZero
    <3> QED
      BY <1>4, <1>6, <3>1, <3>2
  <2>5. m.nacks \subseteq Held' /\ (\A sn \in m.nacks : Off(sn, vtA) < Off(m.ack, vtA))
        /\ \E sn \in Named(m) : Off(sn, vtA) <= Off(vrR, vtA)
    BY <1>10, <2>1 DEF StatusTells
  <2> USE DEF m
  <2> QED
    BY <1>1, <2>3, <2>4, <2>5 DEF StatusTells
<1>14. StatusInv'
  <2>1. ASSUME NEW i \in DOMAIN statuses, NEW j \in DOMAIN statuses, i < j
        PROVE  StatusFollows(statuses[i], statuses[j])'
    <3>1. StatusFollows(statuses[i], statuses[j])
      BY <1>3, <2>1 DEF StatusInv
    <3> QED
      BY <1>1, <3>1 DEF StatusFollows
  <2> QED
    BY <1>1, <1>13, <2>1 DEF StatusInv
<1> QED
  BY <1>8, <1>9, <1>11, <1>12, <1>14 DEF ArqInv

\* A STATUS tells what is missing, and follows those that were sent before.
LEMMA TransmitStatusArq ==
  ASSUME TypeInv, ArqInv, NEW ack \in SN, TransmitStatus(ack)
  PROVE  ArqInv'
<1> DEFINE missing == Between(vrR, vrMs) \ DOMAIN rxon
           m == [ack |-> ack, nacks |-> missing \cap Between(vrR, ack), late |-> 0]
<1>1. /\ ack \in missing \cup {vrMs}
      /\ statuses' = Append(statuses, m)
      /\ UNCHANGED windowVars /\ txed' = txed /\ retx' = retx /\ pdus' = pdus
  BY DEF TransmitStatus, windowVars, txVars
<1>2. /\ vtA \in SN /\ vtS \in SN /\ vrR \in SN /\ vrMs \in SN /\ vrH \in SN
      /\ statuses \in Seq(StatusPdu)
  BY DEF TypeInv, SenderType, ReceiverType, MacType
<1>3. WindowInv /\ ReorderInv /\ HeldInv /\ FlightInv /\ StatusInv
  BY DEF ArqInv
<1>4. Held' = Held /\ txed' \cap retx' = {}
  BY <1>1, <1>3 DEF Held, HeldInv
<1>5. WindowInv' /\ ReorderInv' /\ HeldInv'
  BY <1>1, <1>3, <1>4, SameWindows, SameHeld
<1>6. FlightInv'
  BY <1>1, <1>3 DEF FlightInv, windowVars
<1>7. /\ Off(vrMs, vrR) <= Off(vtS, vrR) /\ vrR \notin DOMAIN rxon
      /\ Off(vrR, vtA) \in Nat /\ Off(vtS, vrR) \in Nat /\ Off(vtS, vtA) \in Nat
      /\ Off(vrMs, vrR) \in Nat /\ Off(vrR, vrR) = 0
  <2>1. /\ Off(vrMs, vrR) <= Off(vrH, vrR) /\ Off(vrH, vrR) <= Off(vtS, vrR)
        /\ vrR \notin DOMAIN rxon
    BY <1>3 DEF WindowInv
  <2>2. Off(vrH, vrR) \in Nat /\ Off(vrMs, vrR) \in Nat /\ Off(vtS, vrR) \in Nat
    BY <1>2, OffZero
  <2> QED
    BY <1>2, <2>1, <2>2, OffZero
<1>8. /\ \A sn \in m.nacks : /\ sn \in SN /\ Off(sn, vrR) < Off(vrMs, vrR)
                             /\ sn \notin DOMAIN rxon /\ Off(sn, vrR) < Off(ack, vrR)
      /\ \A sn \in SN : Off(sn, vrR) < Off(vrMs, vrR) /\ sn \notin DOMAIN rxon
                          /\ Off(sn, vrR) < Off(ack, vrR) => sn \in m.nacks
      /\ m.nacks \in SUBSET SN /\ m.ack = ack
  BY <1>2, BetweenIs
<1>9. Off(ack, vrR) \in Nat /\ Off(ack, vrR) <= Off(vrMs, vrR)
  <2>1. Off(ack, vrR) \in Nat
    BY <1>2, OffZero
  <2>2. ack = vrMs \/ Off(ack, vrR) < Off(vrMs, vrR)
    BY <1>1, <1>2, BetweenIs
  <2> QED
    BY <1>7, <2>1, <2>2
<1>10. vrR \in Named(m)
  <2>1. CASE ack = vrR
    BY <2>1, <1>8 DEF Named
  <2>2. CASE ack # vrR
    <3>1. Off(ack, vrR) > 0
      BY <1>2, <1>9, <2>2, OffZero
    <3>2. vrR \in m.nacks
      <4> HIDE DEF m
      <4> QED
        BY <1>2, <1>7, <1>8, <1>9, <3>1
    <3> QED
      BY <3>2 DEF Named
  <2> QED
    BY <2>1, <2>2
<1> HIDE DEF m
<1>11. ASSUME NEW y \in SN, Off(y, vrR) <= Off(vrMs, vrR)
       PROVE  /\ Off(y, vtA) = Off(vrR, vtA) + Off(y, vrR)
              /\ Off(y, vrR) \in Nat /\ Off(y, vrR) <= Off(vtS, vrR)
  <2>1. Off(y, vrR) \in Nat
    BY <1>2, OffZero
  <2>2. Off(y, vrR) <= Off(vtS, vrR)
    BY <1>7, <1>11, <2>1
  <2> QED
    BY <1>3, <2>1, <2>2, FromVrR
<1>12. StatusTells(m)
  <2>1. ASSUME NEW sn \in m.nacks
        PROVE  sn \in Held /\ Off(sn, vtA) < Off(m.ack, vtA)
    <3>1. /\ sn \in SN /\ Off(sn, vrR) < Off(vrMs, vrR)
          /\ sn \notin DOMAIN rxon /\ Off(sn, vrR) < Off(ack, vrR)
      BY <1>8
    <3>2. Off(sn, vrR) \in Nat
      BY <1>2, <3>1, OffZero
    <3>3. Off(sn, vtA) = Off(vrR, vtA) + Off(sn, vrR) /\ Off(sn, vrR) < Off(vtS, vrR)
      BY <1>7, <1>11, <3>1, <3>2
    <3>4. Off(ack, vtA) = Off(vrR, vtA) + Off(ack, vrR)
      BY <1>9, <1>11
    <3>5. sn \in Held
      BY <1>3, <3>1, <3>3 DEF HeldInv
    <3> QED
      BY <1>7, <1>8, <1>9, <3>1, <3>2, <3>3, <3>4, <3>5
  <2>2. Off(m.ack, vtA) <= Off(vtS, vtA)
    <3>1. Off(ack, vtA) = Off(vrR, vtA) + Off(ack, vrR) /\ Off(ack, vrR) <= Off(vtS, vrR)
      BY <1>9, <1>11
    <3>2. Off(vtS, vtA) = Off(vrR, vtA) + Off(vtS, vrR)
      BY <1>2, <1>3, <1>7, FromVrR
    <3> QED
      BY <1>7, <1>8, <1>9, <3>1, <3>2
  <2>3. Off(vrR, vtA) <= Off(vrR, vtA)
    BY <1>7
  <2>4. ASSUME NEW sn \in SN, Off(sn, vrR) < Off(vtS, vrR), sn \notin DOMAIN rxon,
               Off(sn, vtA) < Off(m.ack, vtA)
        PROVE  sn \in m.nacks
    <3>1. Off(sn, vrR) \in Nat /\ Off(sn, vrR) <= Off(vtS, vrR)
      <4>1. Off(sn, vrR) \in Nat
        BY <1>2, OffZero
      <4> QED
        BY <1>7, <2>4, <4>1
    <3>2. Off(sn, vtA) = Off(vrR, vtA) + Off(sn, vrR)
      BY <1>3, <3>1, FromVrR
    <3>3. Off(ack, vtA) = Off(vrR, vtA) + Off(ack, vrR)
      BY <1>9, <1>11
    <3>4. Off(sn, vrR) < Off(ack, vrR) /\ Off(sn, vrR) < Off(vrMs, vrR)
      BY <1>7, <1>8, <1>9, <2>4, <3>1, <3>2, <3>3
    <3> QED
      BY <1>8, <2>4, <3>4
  <2> QED
    BY <1>10, <2>1, <2>2, <2>3, <2>4 DEF StatusTells
<1>13. ASSUME NEW i \in DOMAIN statuses PROVE StatusFollows(statuses[i], m)
  <2>1. StatusTells(statuses[i])
    BY <1>3 DEF StatusInv
  <2>2. PICK x \in Named(statuses[i]) : Off(x, vtA) <= Off(vrR, vtA)
    BY <2>1 DEF StatusTells
  <2>3. x \in SN
    <3>1. statuses[i] \in StatusPdu
      BY <1>2
    <3> QED
      BY <3>1 DEF StatusPdu, Named
  <2>4. ASSUME NEW y \in Named(m) PROVE Off(x, vtA) <= Off(y, vtA)
    <3>1. y \in SN /\ Off(y, vrR) <= Off(vrMs, vrR)
      <4>1. CASE y = ack
        BY <1>9, <4>1
      <4>2. CASE y \in m.nacks
        <5>1. y \in SN /\ Off(y, vrR) < Off(vrMs, vrR)
          BY <1>8, <4>2
        <5>2. Off(y, vrR) \in Nat
          BY <1>2, <5>1, OffZero
        <5> QED
          BY <1>7, <5>1, <5>2
      <4> QED
        BY <1>8, <4>1, <4>2 DEF Named
    <3>2. Off(y, vtA) = Off(vrR, vtA) + Off(y, vrR) /\ Off(y, vrR) \in Nat
      BY <1>11, <3>1
    <3>3. Off(x, vtA) \in Nat
      BY <1>2, <2>3, OffZero
    <3> QED
      BY <1>7, <2>2, <3>2, <3>3
  <2>5. ASSUME NEW y \in m.nacks, Off(y, vtA) < Off(statuses[i].ack, vtA)
        PROVE  y \in statuses[i].nacks
    <3>1. /\ y \in SN /\ Off(y, vrR) < Off(vrMs, vrR) /\ y \notin DOMAIN rxon
      BY <1>8
    <3>2. Off(y, vrR) \in Nat
      BY <1>2, <3>1, OffZero
    <3>3. Off(y, vrR) < Off(vtS, vrR)
      BY <1>7, <3>1, <3>2
    <3> QED
      BY <2>1, <2>5, <3>1, <3>3 DEF StatusTells
  <2> QED
    BY <2>4, <2>5 DEF StatusFollows
<1>14. StatusInv'
  <2>1. /\ DOMAIN statuses' = 1..Len(statuses) + 1 /\ Len(statuses) \in Nat
        /\ DOMAIN statuses = 1..Len(statuses)
        /\ \A i \in 1..Len(statuses) : statuses'[i] = statuses[i]
        /\ statuses'[Len(statuses) + 1] = m
    BY <1>1, <1>2
  <2>2. ASSUME NEW i \in DOMAIN statuses' PROVE StatusTells(statuses[i])'
    <3>1. StatusTells(statuses'[i])
      <4>1. CASE i \in DOMAIN statuses
        BY <1>3, <2>1, <4>1 DEF StatusInv
      <4>2. CASE i = Len(statuses) + 1
        BY <1>12, <2>1, <4>2
      <4> QED
        BY <2>1, <4>1, <4>2
    <3> QED
      BY <1>1, <1>4, <3>1 DEF StatusTells, windowVars
  <2>3. ASSUME NEW i \in DOMAIN statuses', NEW j \in DOMAIN statuses', i < j
        PROVE  StatusFollows(statuses[i], statuses[j])'
    <3>1. StatusFollows(statuses'[i], statuses'[j])
      <4>1. i \in DOMAIN statuses /\ statuses'[i] = statuses[i]
        BY <2>1, <2>3
      <4>2. CASE j \in DOMAIN statuses
        BY <1>3, <2>1, <2>3, <4>1, <4>2 DEF StatusInv
      <4>3. CASE j = Len(statuses) + 1
        BY <1>13, <2>1, <4>1, <4>3
      <4> QED
        BY <2>1, <4>2, <4>3
    <3> QED
      BY <1>1, <3>1 DEF StatusFollows, windowVars
  <2> QED
    BY <2>2, <2>3 DEF StatusInv
<1> QED
  BY <1>5, <1>6, <1>14 DEF ArqInv

\* VR(MS) moves on, not beyond VR(H).
LEMMA ExpireReorderingArq ==
  ASSUME TypeInv, ArqInv, ExpireReorderingTimer
  PROVE  ArqInv'
<1>1. /\ reordering /\ vrMs' = FirstMissing(vrX, DOMAIN rxon)
      /\ reordering' = (Off(vrH, vrR) > Off(vrMs', vrR))
      /\ vrX' = (IF reordering' THEN vrH ELSE vrX)
      /\ UNCHANGED <<rxon, vrR, vrH, txed, retx, vtA, vtS, pdus, statuses>>
  BY DEF ExpireReorderingTimer, txVars, macVars
<1>2. vrR \in SN /\ vrH \in SN
  BY DEF TypeInv, ReceiverType
<1>3. vrMs' \in SN /\ Off(vrMs', vrR) <= Off(vrH, vrR)
  BY <1>1, ExpiredFacts DEF ArqInv
<1>4. /\ Off(vrR, vrR) = 0 /\ Off(vrMs', vrR) \in Nat /\ Off(vrH, vrR) \in Nat
      /\ \A sn \in SN : Off(sn, vrR) \in Nat
  BY <1>2, <1>3, OffZero
<1>5. WindowInv'
  BY <1>1, <1>3 DEF ArqInv, WindowInv
<1>6. ReorderInv'
  <2> SUFFICES ASSUME reordering'
               PROVE  /\ vrX' # vrR' /\ Off(vrX', vrR') <= Off(vrH', vrR')
                      /\ \A sn \in SN : Off(sn, vrR') < Off(vrMs', vrR') => Off(sn, vrR') < Off(vrX', vrR')
    BY DEF ReorderInv
  <2>1. vrX' = vrH /\ vrR' = vrR /\ vrH' = vrH /\ Off(vrH, vrR) > Off(vrMs', vrR)
    BY <1>1
  <2>2. vrH # vrR
    BY <1>4, <2>1
  <2>3. \A sn \in SN : Off(sn, vrR) < Off(vrMs', vrR) => Off(sn, vrR) < Off(vrH, vrR)
    BY <1>3, <1>4
  <2> QED
    BY <1>4, <2>1, <2>2, <2>3
<1>7. HeldInv'
  BY <1>1 DEF ArqInv, HeldInv, Held
<1>8. FlightInv'
  BY <1>1 DEF ArqInv, FlightInv
<1>9. StatusInv'
  <2>1. Held' = Held
    BY <1>1 DEF Held
  <2>2. ASSUME NEW i \in DOMAIN statuses PROVE StatusTells(statuses[i])'
    <3>1. StatusTells(statuses[i])
      BY DEF ArqInv, StatusInv
    <3> QED
      BY <1>1, <2>1, <3>1 DEF StatusTells
  <2>3. ASSUME NEW i \in DOMAIN statuses, NEW j \in DOMAIN statuses, i < j
        PROVE  StatusFollows(statuses[i], statuses[j])'
    <3>1. StatusFollows(statuses[i], statuses[j])
      BY <2>3 DEF ArqInv, StatusInv
    <3> QED
      BY <1>1, <3>1 DEF StatusFollows
  <2> QED
    BY <1>1, <2>2, <2>3 DEF StatusInv
<1> QED
  BY <1>5, <1>6, <1>7, <1>8, <1>9 DEF ArqInv

\* VT(A) moves on to the first that the STATUS names: not beyond VR(R), and the STATUS PDUs
\* that come later name nothing before it.
LEMMA ReceiveStatusArq ==
  ASSUME TypeInv, ArqInv, StatusOvertaking = 0, NEW i \in DOMAIN statuses, ReceiveStatus(i)
  PROVE  ArqInv'
<1> DEFINE m == statuses[1]
           d == Off(vtA', vtA)
<1>1. /\ vtA \in SN /\ vtS \in SN /\ vrR \in SN /\ vrMs \in SN /\ vrH \in SN
      /\ statuses \in Seq(StatusPdu) /\ txed \in SUBSET SN /\ retx \in SUBSET SN
  BY DEF TypeInv, SenderType, ReceiverType, MacType
<1>2. WindowInv /\ ReorderInv /\ HeldInv /\ FlightInv /\ StatusInv
  BY DEF ArqInv
<1>3. i = 1
  <2>1. CanArrive(statuses, i, StatusOvertaking)
    BY DEF ReceiveStatus
  <2> QED
    BY <1>1, <2>1, FirstArrives
<1>4. /\ statuses' = Arrived(statuses, i)
      /\ txed' = txed \ Covered(m)
      /\ retx' = CoveredRetx(Covered(m), m)
      /\ UNCHANGED <<vtS, rxon, vrR, vrMs, vrH, vrX, reordering, pdus>>
  BY <1>3 DEF ReceiveStatus, rxVars
<1>5. /\ m \in StatusPdu /\ vtA' \in SN
      /\ Covered(m) = Between(vtA, UpTo(m))
      /\ Covered(m) \cap m.nacks = {} => vtA' = UpTo(m)
      /\ Covered(m) \cap m.nacks # {} =>
           /\ vtA' \in Covered(m) \cap m.nacks
           /\ \A y \in Covered(m) \cap m.nacks : Off(vtA', vtA) <= Off(y, vtA)
  BY <1>3, NextVtA
<1>6. StatusTells(m)
  BY <1>2, <1>3 DEF StatusInv
<1>7. /\ \A j \in DOMAIN statuses : j # 1 => StatusFollows(m, statuses[j])
      /\ \A j \in DOMAIN statuses : StatusTells(statuses[j])
  <2>1. \A j \in DOMAIN statuses : j # 1 => 1 < j
    BY <1>1
  <2> QED
    BY <1>2, <1>3, <2>1 DEF StatusInv
<1> HIDE DEF m
<1>8. m.ack \in SN /\ m.nacks \in SUBSET SN /\ Named(m) \in SUBSET SN
  BY <1>5 DEF StatusPdu, Named
<1>9. Covered(m) = Between(vtA, m.ack)
  BY <1>5, <1>6 DEF StatusTells, UpTo
<1>10. m.nacks \subseteq Covered(m)
  <2> SUFFICES ASSUME NEW y \in m.nacks PROVE y \in Covered(m)
    OBVIOUS
  <2>1. y \in SN /\ Off(y, vtA) < Off(m.ack, vtA)
    BY <1>6, <1>8 DEF StatusTells
  <2> QED
    BY <1>1, <1>8, <1>9, <2>1, BetweenIs
<1>11. ASSUME NEW x \in Named(m) PROVE d <= Off(x, vtA)
  <2>0. x \in SN /\ Off(x, vtA) \in Nat /\ Off(m.ack, vtA) \in Nat
    BY <1>1, <1>8, OffZero
  <2>1. CASE m.nacks = {}
    <3>1. vtA' = m.ack /\ x = m.ack
      BY <1>5, <1>6, <2>1 DEF Named, UpTo, StatusTells
    <3> QED
      BY <2>0, <3>1
  <2>2. CASE m.nacks # {}
    <3>1. Covered(m) \cap m.nacks = m.nacks
      BY <1>10
    <3>2. vtA' \in m.nacks /\ \A y \in m.nacks : d <= Off(y, vtA)
      BY <1>5, <2>2, <3>1
    <3>3. d < Off(m.ack, vtA) /\ d \in Nat
      BY <1>1, <1>5, <1>6, <3>2, OffZero DEF StatusTells
    <3> QED
      BY <2>0, <3>2, <3>3 DEF Named
  <2> QED
    BY <2>1, <2>2
<1>12. /\ d \in Nat /\ d <= Off(vrR, vtA) /\ Off(vrR, vtA) <= Off(vtS, vtA)
       /\ Off(vtS, vtA) <= Window /\ d <= Off(m.ack, vtA)
       /\ Off(vrR, vtA) \in Nat /\ Off(vtS, vtA) \in Nat /\ Off(m.ack, vtA) \in Nat
       /\ Window \in Nat
  <2>1. PICK x \in Named(m) : Off(x, vtA) <= Off(vrR, vtA)
    BY <1>6 DEF StatusTells
  <2>2. d <= Off(x, vtA) /\ d <= Off(m.ack, vtA)
    BY <1>11 DEF Named
  <2>3. /\ d \in Nat /\ Off(x, vtA) \in Nat /\ Off(vrR, vtA) \in Nat
        /\ Off(vtS, vtA) \in Nat /\ Off(m.ack, vtA) \in Nat
    BY <1>1, <1>5, <1>8, OffZero
  <2>4. d <= Off(vrR, vtA)
    BY <2>1, <2>2, <2>3
  <2>5. Off(vrR, vtA) <= Off(vtS, vtA) /\ Off(vtS, vtA) <= Window
    BY <1>2 DEF WindowInv
  <2> QED
    BY <2>2, <2>3, <2>4, <2>5, SnFacts
<1>13. ASSUME NEW y \in SN, d <= Off(y, vtA)
       PROVE  Off(y, vtA') = Off(y, vtA) - d /\ Off(y, vtA) \in Nat
  BY <1>1, <1>5, <1>13, OffFrom, OffZero
<1>14. ASSUME NEW sn \in SN, Off(sn, vrR) < Off(vtS, vrR)
       PROVE  d <= Off(sn, vtA)
  <2>1. Off(sn, vrR) \in Nat /\ Off(vtS, vrR) \in Nat
    BY <1>1, OffZero
  <2>2. Off(sn, vtA) = Off(vrR, vtA) + Off(sn, vrR)
    BY <1>2, <1>14, <2>1, FromVrR
  <2> QED
    BY <1>12, <2>1, <2>2
<1>15. Held' = Held \ (Covered(m) \ m.nacks)
  BY <1>4 DEF Held, CoveredRetx
<1>16. WindowInv'
  <2>1. Off(vtS, vtA') = Off(vtS, vtA) - d /\ Off(vrR, vtA') = Off(vrR, vtA) - d
    BY <1>1, <1>12, <1>13
  <2>2. Off(vtS, vtA') <= Window /\ Off(vrR, vtA') <= Off(vtS, vtA')
    BY <1>12, <2>1
  <2> QED
    BY <1>2, <1>4, <2>2 DEF WindowInv
<1>17. ReorderInv' /\ FlightInv'
  BY <1>2, <1>4 DEF ReorderInv, FlightInv
<1>18. HeldInv'
  <2>1. txed' \cap retx' = {}
    BY <1>2, <1>4 DEF HeldInv, CoveredRetx
  <2>2. ASSUME NEW sn \in Held' PROVE Off(sn, vtA') < Off(vtS, vtA')
    <3>1. sn \in SN /\ Off(sn, vtA) < Off(vtS, vtA) /\ Off(sn, vtA) \in Nat
      BY <1>1, <1>2, <1>15, OffZero DEF HeldInv, Held
    <3>2. d <= Off(sn, vtA)
      <4>1. CASE sn \in m.nacks
        BY <1>11, <4>1 DEF Named
      <4>2. CASE sn \notin Covered(m)
        <5>1. ~(Off(sn, vtA) < Off(m.ack, vtA))
          BY <1>1, <1>8, <1>9, <3>1, <4>2, BetweenIs
        <5> QED
          BY <1>12, <3>1, <5>1
      <4> QED
        BY <1>15, <4>1, <4>2
    <3>3. Off(sn, vtA') = Off(sn, vtA) - d /\ Off(vtS, vtA') = Off(vtS, vtA) - d
      BY <1>1, <1>12, <1>13, <3>1, <3>2
    <3> QED
      BY <1>12, <3>1, <3>3
  <2>3. ASSUME NEW sn \in SN, Off(sn, vrR) < Off(vtS, vrR), sn \notin DOMAIN rxon
        PROVE  sn \in Held'
    <3>1. sn \in Held
      BY <1>2, <2>3 DEF HeldInv
    <3>2. sn \in Covered(m) => sn \in m.nacks
      <4> SUFFICES ASSUME sn \in Covered(m) PROVE sn \in m.nacks
        OBVIOUS
      <4>1. Off(sn, vtA) < Off(m.ack, vtA)
        BY <1>1, <1>8, <1>9, BetweenIs
      <4> QED
        BY <1>6, <2>3, <4>1 DEF StatusTells
    <3> QED
      BY <1>15, <3>1, <3>2
  <2> QED
    BY <1>4, <2>1, <2>2, <2>3 DEF HeldInv
<1>19. ASSUME NEW j \in DOMAIN statuses, j # 1
       PROVE  /\ statuses[j].ack \in SN /\ Named(statuses[j]) \in SUBSET SN
              /\ \A y \in Named(statuses[j]) : d <= Off(y, vtA)
  <2>1. statuses[j] \in StatusPdu
    BY <1>1
  <2>2. statuses[j].ack \in SN /\ Named(statuses[j]) \in SUBSET SN
    BY <2>1 DEF StatusPdu, Named
  <2>3. ASSUME NEW y \in Named(statuses[j]) PROVE d <= Off(y, vtA)
    <3>1. PICK x \in Named(m) : Off(x, vtA) <= Off(y, vtA)
      BY <1>7, <1>19 DEF StatusFollows
    <3>2. d <= Off(x, vtA)
      BY <1>11
    <3>3. Off(x, vtA) \in Nat /\ Off(y, vtA) \in Nat
      BY <1>1, <1>8, <2>2, OffZero
    <3> QED
      BY <1>12, <3>1, <3>2, <3>3
  <2> QED
    BY <2>2, <2>3
<1>20. ASSUME NEW j \in DOMAIN statuses, j # 1, NEW n, n = statuses[j]
       PROVE  /\ n.nacks \subseteq Held'
              /\ \A sn \in n.nacks : Off(sn, vtA') < Off(n.ack, vtA')
              /\ Off(n.ack, vtA') <= Off(vtS, vtA')
              /\ \E sn \in Named(n) : Off(sn, vtA') <= Off(vrR, vtA')
              /\ \A sn \in SN : Off(sn, vrR) < Off(vtS, vrR) /\ sn \notin DOMAIN rxon
                                  /\ Off(sn, vtA') < Off(n.ack, vtA') => sn \in n.nacks
  <2>1. StatusTells(n) /\ StatusFollows(m, n)
    BY <1>7, <1>20
  <2>2. /\ n.ack \in SN /\ Named(n) \in SUBSET SN /\ \A y \in Named(n) : d <= Off(y, vtA)
    BY <1>19, <1>20
  <2>3. \A y \in Named(n) : Off(y, vtA') = Off(y, vtA) - d /\ Off(y, vtA) \in Nat
    BY <1>13, <2>2
  <2>4. n.ack \in Named(n) /\ n.nacks \subseteq Named(n)
    BY DEF Named
  <2>5. Off(vtS, vtA') = Off(vtS, vtA) - d /\ Off(vrR, vtA') = Off(vrR, vtA) - d
    BY <1>1, <1>12, <1>13
  <2>6. ASSUME NEW y \in n.nacks PROVE y \in Held'
    <3>1. y \in Held /\ y \in SN
      BY <2>1, <2>2, <2>4 DEF StatusTells
    <3>2. y \in Covered(m) => Off(y, vtA) < Off(m.ack, vtA)
      BY <1>1, <1>8, <1>9, <3>1, BetweenIs
    <3>3. y \in Covered(m) => y \in m.nacks
      BY <2>1, <3>2 DEF StatusFollows
    <3> QED
      BY <1>15, <3>1, <3>3
  <2>7. ASSUME NEW sn \in n.nacks PROVE Off(sn, vtA') < Off(n.ack, vtA')
    <3>1. Off(sn, vtA) < Off(n.ack, vtA)
      BY <2>1 DEF StatusTells
    <3> QED
      BY <1>12, <2>3, <2>4, <3>1
  <2>8. Off(n.ack, vtA') <= Off(vtS, vtA')
    <3>1. Off(n.ack, vtA) <= Off(vtS, vtA)
      BY <2>1 DEF StatusTells
    <3> QED
      BY <1>12, <2>3, <2>4, <2>5, <3>1
  <2>9. \E sn \in Named(n) : Off(sn, vtA') <= Off(vrR, vtA')
    <3>1. PICK sn \in Named(n) : Off(sn, vtA) <= Off(vrR, vtA)
      BY <2>1 DEF StatusTells
    <3>2. Off(sn, vtA') <= Off(vrR, vtA')
      BY <1>12, <2>3, <2>5, <3>1
    <3> QED
      BY <3>2
  <2>10. ASSUME NEW sn \in SN, Off(sn, vrR) < Off(vtS, vrR), sn \notin DOMAIN rxon,
                Off(sn, vtA') < Off(n.ack, vtA')
         PROVE  sn \in n.nacks
    <3>1. Off(sn, vtA') = Off(sn, vtA) - d /\ Off(sn, vtA) \in Nat
      BY <1>13, <1>14, <2>10
    <3>2. Off(sn, vtA) < Off(n.ack, vtA)
      BY <1>12, <2>3, <2>4, <2>10, <3>1
    <3> QED
      BY <2>1, <2>10, <3>2 DEF StatusTells
  <2> QED
    BY <2>6, <2>7, <2>8, <2>9, <2>10
<1>21. ASSUME NEW j \in DOMAIN statuses, j # 1, NEW n, n = statuses[j],
              NEW k \in DOMAIN statuses, j < k, NEW o, o = statuses[k]
       PROVE  /\ \A y \in Named(o) : \E x \in Named(n) : Off(x, vtA') <= Off(y, vtA')
              /\ \A y \in o.nacks : Off(y, vtA') < Off(n.ack, vtA') => y \in n.nacks
  <2>0. k # 1 /\ StatusFollows(n, o)
    BY <1>1, <1>2, <1>21 DEF StatusInv
  <2>1. /\ Named(n) \in SUBSET SN /\ \A y \in Named(n) : d <= Off(y, vtA)
        /\ Named(o) \in SUBSET SN /\ \A y \in Named(o) : d <= Off(y, vtA)
    BY <1>19, <1>21, <2>0
  <2>2. /\ \A y \in Named(n) : Off(y, vtA') = Off(y, vtA) - d /\ Off(y, vtA) \in Nat
        /\ \A y \in Named(o) : Off(y, vtA') = Off(y, vtA) - d /\ Off(y, vtA) \in Nat
    BY <1>13, <2>1
  <2>3. ASSUME NEW y \in Named(o) PROVE \E x \in Named(n) : Off(x, vtA') <= Off(y, vtA')
    <3>1. PICK x \in Named(n) : Off(x, vtA) <= Off(y, vtA)
      BY <2>0 DEF StatusFollows
    <3>2. Off(x, vtA') <= Off(y, vtA')
      BY <1>12, <2>2, <3>1
    <3> QED
      BY <3>2
  <2>4. ASSUME NEW y \in o.nacks, Off(y, vtA') < Off(n.ack, vtA') PROVE y \in n.nacks
    <3>1. y \in Named(o) /\ n.ack \in Named(n)
      BY DEF Named
    <3>2. Off(y, vtA) < Off(n.ack, vtA)
      BY <1>12, <2>2, <2>4, <3>1
    <3> QED
      BY <2>0, <3>2 DEF StatusFollows
  <2> QED
    BY <2>3, <2>4
<1>22. StatusInv'
  <2>1. /\ DOMAIN statuses' \subseteq Nat
        /\ \A j \in DOMAIN statuses' :
             j + 1 \in DOMAIN statuses /\ j + 1 # 1 /\ statuses'[j] = statuses[j + 1]
    <3>1. Arrived(statuses, i) \in Seq(StatusPdu)
      BY <1>1, <1>3, StatusArrived
    <3>2. DOMAIN statuses' \subseteq Nat \ {0}
      BY <1>4, <3>1
    <3> QED
      BY <1>1, <1>3, <1>4, <3>2, StatusArrived
  <2>2. ASSUME NEW j \in DOMAIN statuses' PROVE StatusTells(statuses[j])'
    <3>1. j + 1 \in DOMAIN statuses /\ j + 1 # 1 /\ statuses'[j] = statuses[j + 1]
      BY <2>1
    <3> QED
      BY <1>4, <1>20, <3>1 DEF StatusTells
  <2>3. ASSUME NEW j \in DOMAIN statuses', NEW k \in DOMAIN statuses', j < k
        PROVE  StatusFollows(statuses[j], statuses[k])'
    <3>1. /\ j + 1 \in DOMAIN statuses /\ j + 1 # 1 /\ statuses'[j] = statuses[j + 1]
          /\ k + 1 \in DOMAIN statuses /\ statuses'[k] = statuses[k + 1] /\ j + 1 < k + 1
      BY <2>1, <2>3
    <3> QED
      BY <1>4, <1>21, <3>1 DEF StatusFollows
  <2> QED
    BY <2>2, <2>3 DEF StatusInv
<1> QED
  BY <1>16, <1>17, <1>18, <1>22 DEF ArqInv

\* The receiving window moves on; what is missing then was missing before.
LEMMA ReceiveDataArq ==
  ASSUME TypeInv, ArqInv, NEW i \in DOMAIN pdus, ReceiveData(i)
  PROVE  ArqInv'
<1> DEFINE p == pdus[i]
           h == NextH(p)
           r == NextR(p)
           ms == NextMs(p)
           buffer == BufferWith(p)
           d == Off(r, vrR)
<1>1. /\ vtA \in SN /\ vtS \in SN /\ vrR \in SN /\ vrMs \in SN /\ vrH \in SN /\ vrX \in SN
      /\ pdus \in Seq(DataPdu) /\ statuses \in Seq(StatusPdu) /\ p \in DataPdu
      /\ DOMAIN rxon \in SUBSET SN
  <2>1. /\ vtA \in SN /\ vtS \in SN /\ vrR \in SN /\ vrMs \in SN /\ vrH \in SN /\ vrX \in SN
        /\ pdus \in Seq(DataPdu) /\ statuses \in Seq(StatusPdu) /\ DOMAIN rxon \in SUBSET SN
    BY Zenon DEF TypeInv, SenderType, ReceiverType, MacType
  <2>2. p \in DataPdu
    BY <2>1
  <2> QED
    BY <2>1, <2>2
<1>2. WindowInv /\ ReorderInv /\ HeldInv /\ FlightInv /\ StatusInv
  BY DEF ArqInv
<1>3. /\ pdus' = Arrived(pdus, i)
      /\ UNCHANGED <<txed, retx, vtA, vtS, statuses>>
  BY ReceiveDataIs DEF txVars
<1>4. Held' = Held /\ txed' \cap retx' = {}
  BY <1>2, <1>3 DEF Held, HeldInv
<1>5. FlightInv'
  BY <1>1, <1>2, <1>3, PdusArrived DEF FlightInv
<1>6. CASE ~InsideWindow(p.sn, vrR)
  <2>1. UNCHANGED windowVars
    BY <1>3, <1>6, ReceiveDataIs DEF windowVars
  <2> QED
    BY <1>2, <1>3, <1>4, <1>5, <2>1, SameStatusInv, SameWindows, SameHeld DEF ArqInv
<1>7. CASE InsideWindow(p.sn, vrR)
  <2>1. Off(p.sn, vrR) < Off(vtS, vrR)
    BY <1>2, <1>7, TakenIsSent
  <2>2. /\ DOMAIN rxon' = buffer \ Between(vrR, r)
        /\ vrH' = h /\ vrMs' = ms /\ vrR' = r
        /\ reordering' = (Stays(p) \/ h # r)
        /\ vrX' = IF ~Stays(p) /\ h # r THEN h ELSE vrX
    BY <1>7, ReceiveDataIs
  <2>a. DOMAIN rxon \subseteq buffer
    BY DEF BufferWith
  <2> HIDE DEF p
  <2>3. /\ buffer \in SUBSET SN /\ h \in SN /\ r \in SN /\ ms \in SN
        /\ Off(vrH, vrR) <= Off(h, vrR) /\ Off(h, vrR) <= Off(vtS, vrR)
        /\ \A sn \in buffer : Off(sn, vrR) < Off(h, vrR)
        /\ r \notin buffer
        /\ \A y \in SN : Off(y, vrR) < d => y \in buffer
        /\ \A y \in SN : Off(vrMs, vrR) <= Off(y, vrR) /\ Off(y, vrR) < Off(ms, vrR) => y \in buffer
        /\ d <= Off(ms, vrR) /\ Off(ms, vrR) <= Off(h, vrR)
    BY <1>1, <1>2, <2>1, TakenFacts
  <2>b. Stays(p) <=> /\ reordering /\ vrX # r
                     /\ InsideWindow(vrX, r) \/ vrX = Plus(r, Window)
    BY DEF Stays
  <2> HIDE DEF h, r, ms, buffer
  <2>4. /\ d \in Nat /\ Off(ms, vrR) \in Nat /\ Off(h, vrR) \in Nat
        /\ Off(vtS, vrR) \in Nat /\ Off(vrX, vrR) \in Nat /\ Off(vrH, vrR) \in Nat
        /\ \A y \in SN : Off(y, vrR) \in Nat
        /\ SnMod = 2 * Window /\ Window \in Nat /\ Window > 0
    BY <1>1, <2>3, OffZero, SnFacts
  <2>5. \A y \in SN : Off(y, r) = IF d <= Off(y, vrR) THEN Off(y, vrR) - d
                                  ELSE Off(y, vrR) - d + SnMod
    BY <1>1, <2>3, OffFrom
  <2>6. Off(vtS, vrR) <= Window
    <3>1. Off(vtS, vtA) = Off(vrR, vtA) + Off(vtS, vrR) /\ Off(vrR, vtA) \in Nat
      BY <1>1, <1>2, <2>4, FromVrR
    <3>2. Off(vtS, vtA) <= Window
      BY <1>2 DEF WindowInv
    <3> QED
      BY <2>4, <3>1, <3>2
  <2>7. /\ Off(ms, r) = Off(ms, vrR) - d /\ Off(h, r) = Off(h, vrR) - d
        /\ Off(vtS, r) = Off(vtS, vrR) - d
    BY <1>1, <2>3, <2>4, <2>5
  <2>8. \A sn \in DOMAIN rxon' : /\ sn \in SN /\ sn \in buffer /\ d <= Off(sn, vrR)
                                 /\ Off(sn, r) = Off(sn, vrR) - d
    <3> SUFFICES ASSUME NEW sn \in DOMAIN rxon' PROVE sn \in SN /\ sn \in buffer /\ d <= Off(sn, vrR)
      BY <2>5
    <3>1. sn \in SN /\ sn \in buffer /\ sn \notin Between(vrR, r)
      BY <2>2, <2>3
    <3>2. ~(Off(sn, vrR) < d)
      BY <1>1, <2>3, <3>1, BetweenIs
    <3> QED
      BY <2>4, <3>1, <3>2
  <2>9. WindowInv'
    <3>1. Off(vtS, vtA) <= Window
      BY <1>2 DEF WindowInv
    <3>2. Off(r, vtA) <= Off(vtS, vtA)
      <4>1. d <= Off(vtS, vrR)
        BY <2>3, <2>4
      <4>2. Off(r, vtA) = Off(vrR, vtA) + d /\ Off(vrR, vtA) \in Nat
        BY <1>2, <2>3, <4>1, FromVrR
      <4>3. Off(vtS, vtA) = Off(vrR, vtA) + Off(vtS, vrR)
        BY <1>1, <1>2, <2>4, FromVrR
      <4> QED
        BY <2>4, <4>1, <4>2, <4>3
    <3>3. Off(ms, r) <= Off(h, r) /\ Off(h, r) <= Off(vtS, r)
      BY <2>3, <2>4, <2>7
    <3>4. \A sn \in DOMAIN rxon' : Off(sn, r) < Off(h, r)
      BY <2>3, <2>4, <2>7, <2>8
    <3>5. r \notin DOMAIN rxon'
      BY <2>3, <2>8
    <3> QED
      BY <1>3, <2>2, <3>1, <3>2, <3>3, <3>4, <3>5 DEF WindowInv
  <2>10. \A sn \in SN : /\ Off(sn, r) < Off(vtS, r)
                        /\ sn \notin DOMAIN rxon'
                        => /\ d <= Off(sn, vrR) /\ Off(sn, r) = Off(sn, vrR) - d
                           /\ sn \notin buffer /\ Off(sn, vrR) < Off(vtS, vrR)
    <3> SUFFICES ASSUME NEW sn \in SN, Off(sn, r) < Off(vtS, r), sn \notin DOMAIN rxon'
                 PROVE  d <= Off(sn, vrR) /\ sn \notin buffer /\ Off(sn, vrR) < Off(vtS, vrR)
      BY <2>5
    <3>1. d <= Off(sn, vrR)
      <4> SUFFICES ASSUME ~(d <= Off(sn, vrR)) PROVE FALSE
        OBVIOUS
      <4>1. Off(sn, r) = Off(sn, vrR) - d + SnMod /\ Off(sn, vrR) \in Nat
        BY <2>4, <2>5
      <4> QED
        BY <2>3, <2>4, <2>6, <2>7, <4>1
    <3>2. sn \notin Between(vrR, r)
      BY <1>1, <2>3, <2>4, <3>1, BetweenIs
    <3>3. Off(sn, r) = Off(sn, vrR) - d /\ Off(sn, vrR) \in Nat
      BY <2>4, <2>5, <3>1
    <3> QED
      BY <2>2, <2>4, <2>7, <3>1, <3>2, <3>3
  <2>11. HeldInv'
    <3>1. \A sn \in Held : Off(sn, vtA) < Off(vtS, vtA)
      BY <1>2 DEF HeldInv
    <3>2. \A sn \in SN : Off(sn, r) < Off(vtS, r) /\ sn \notin DOMAIN rxon' => sn \in Held
      BY <1>2, <2>a, <2>10 DEF HeldInv
    <3> QED
      BY <1>3, <1>4, <2>2, <3>1, <3>2 DEF HeldInv
  <2>12. ReorderInv'
    <3> SUFFICES ASSUME reordering'
                 PROVE  /\ vrX' # r /\ Off(vrX', r) <= Off(h, r)
                        /\ \A sn \in SN : Off(sn, r) < Off(ms, r) /\ sn \notin DOMAIN rxon'
                                            => Off(sn, r) < Off(vrX', r)
      BY <2>2 DEF ReorderInv
    <3>1. ASSUME NEW sn \in SN, Off(sn, r) < Off(ms, r), sn \notin DOMAIN rxon'
          PROVE  /\ Off(sn, r) = Off(sn, vrR) - d /\ d <= Off(sn, vrR)
                 /\ sn \notin DOMAIN rxon /\ Off(sn, vrR) < Off(vrMs, vrR)
      <4>1. Off(sn, r) < Off(vtS, r)
        <5>1. Off(sn, r) \in Nat
          BY <2>3, OffZero
        <5> QED
          BY <2>3, <2>4, <2>7, <3>1, <5>1
      <4>2. /\ d <= Off(sn, vrR) /\ Off(sn, r) = Off(sn, vrR) - d /\ sn \notin buffer
        BY <2>10, <3>1, <4>1
      <4>3. Off(sn, vrR) < Off(ms, vrR)
        BY <2>4, <2>7, <3>1, <4>2
      <4>4. ~(Off(vrMs, vrR) <= Off(sn, vrR))
        BY <2>3, <4>2, <4>3
      <4>5. Off(vrMs, vrR) \in Nat /\ Off(sn, vrR) \in Nat
        BY <1>1, OffZero
      <4> QED
        BY <2>a, <4>2, <4>4, <4>5
    <3>2. CASE Stays(p)
      <4>1. vrX' = vrX
        BY <2>2, <3>2
      <4>2. reordering /\ vrX # r /\ (InsideWindow(vrX, r) \/ vrX = Plus(r, Window))
        BY <2>b, <3>2
      <4>3. /\ Off(vrX, vrR) <= Off(vrH, vrR) /\ vrX # vrR
            /\ \A sn \in SN : Off(sn, vrR) < Off(vrMs, vrR) /\ sn \notin DOMAIN rxon
                                => Off(sn, vrR) < Off(vrX, vrR)
        BY <1>2, <4>2 DEF ReorderInv
      <4>4. Off(vrX, vrR) > 0
        BY <1>1, <2>4, <4>3, OffZero
      <4>5. Off(vrX, r) <= Window
        <5>1. CASE InsideWindow(vrX, r)
          <6>1. Off(vrX, r) < Window /\ Off(vrX, r) \in Nat
            BY <1>1, <2>3, <5>1, OffZero DEF InsideWindow
          <6> QED
            BY <2>4, <6>1
        <5>2. CASE vrX = Plus(r, Window)
          <6>1. Window \in 0..SnMod /\ Off(r, r) = 0
            BY <2>3, <2>4, OffZero
          <6>2. Off(vrX, r) = Window
            BY <2>3, <2>4, <5>2, <6>1, OffPlus
          <6> QED
            BY <2>4, <6>2
        <5> QED
          BY <4>2, <5>1, <5>2
      <4>6. d <= Off(vrX, vrR) /\ Off(vrX, r) = Off(vrX, vrR) - d
        <5>1. Off(vrX, r) = IF d <= Off(vrX, vrR) THEN Off(vrX, vrR) - d
                            ELSE Off(vrX, vrR) - d + SnMod
          BY <1>1, <2>5
        <5>2. d <= Window
          BY <2>3, <2>4, <2>6
        <5> QED
          BY <2>4, <4>4, <4>5, <5>1, <5>2
      <4>7. Off(vrX, r) <= Off(h, r)
        BY <2>3, <2>4, <2>7, <4>3, <4>6
      <4>8. ASSUME NEW sn \in SN, Off(sn, r) < Off(ms, r), sn \notin DOMAIN rxon'
            PROVE  Off(sn, r) < Off(vrX, r)
        <5>1. /\ Off(sn, r) = Off(sn, vrR) - d /\ Off(sn, vrR) < Off(vrX, vrR)
          BY <3>1, <4>3, <4>8
        <5> QED
          BY <2>4, <4>6, <5>1
      <4> QED
        BY <4>1, <4>2, <4>7, <4>8
    <3>3. CASE ~Stays(p)
      <4>1. h # r /\ vrX' = h
        BY <2>2, <3>3
      <4>2. Off(h, r) \in Nat
        BY <2>3, OffZero
      <4>3. ASSUME NEW sn \in SN, Off(sn, r) < Off(ms, r) PROVE Off(sn, r) < Off(h, r)
        <5>1. Off(ms, r) <= Off(h, r)
          BY <2>3, <2>4, <2>7
        <5>2. Off(sn, r) \in Nat /\ Off(ms, r) \in Nat
          BY <2>3, OffZero
        <5> QED
          BY <4>2, <4>3, <5>1, <5>2
      <4> QED
        BY <4>1, <4>2, <4>3
    <3> QED
      BY <3>2, <3>3
  <2>13. StatusInv'
    <3>1. Off(vrR, vtA) <= Off(r, vtA) /\ Off(vrR, vtA) \in Nat /\ Off(r, vtA) \in Nat
      <4>1. d <= Off(vtS, vrR)
        BY <2>3, <2>4
      <4>2. Off(r, vtA) = Off(vrR, vtA) + d /\ Off(vrR, vtA) \in Nat
        BY <1>2, <2>3, <4>1, FromVrR
      <4> QED
        BY <2>4, <4>2
    <3>2. ASSUME NEW j \in DOMAIN statuses PROVE StatusTells(statuses[j])'
      <4> DEFINE m == statuses[j]
      <4>1. StatusTells(m) /\ m \in StatusPdu
        BY <1>1, <1>2 DEF StatusInv
      <4> HIDE DEF m
      <4>2. \E x \in Named(m) : Off(x, vtA) <= Off(r, vtA)
        <5>1. PICK x \in Named(m) : Off(x, vtA) <= Off(vrR, vtA)
          BY <4>1 DEF StatusTells
        <5>2. x \in SN
          BY <4>1 DEF Named, StatusPdu
        <5>3. Off(x, vtA) \in Nat
          BY <1>1, <5>2, OffZero
        <5>4. Off(x, vtA) <= Off(r, vtA)
          BY <3>1, <5>1, <5>3
        <5> QED
          BY <5>4
      <4>3. \A sn \in SN : Off(sn, r) < Off(vtS, r) /\ sn \notin DOMAIN rxon'
                             /\ Off(sn, vtA) < Off(m.ack, vtA) => sn \in m.nacks
        BY <2>a, <2>10, <4>1 DEF StatusTells
      <4>4. /\ m.nacks \subseteq Held
            /\ \A sn \in m.nacks : Off(sn, vtA) < Off(m.ack, vtA)
            /\ Off(m.ack, vtA) <= Off(vtS, vtA)
        BY <4>1 DEF StatusTells
      <4> USE DEF m
      <4> QED
        BY <1>3, <1>4, <2>2, <4>2, <4>3, <4>4 DEF StatusTells
    <3>3. ASSUME NEW j \in DOMAIN statuses, NEW k \in DOMAIN statuses, j < k
          PROVE  StatusFollows(statuses[j], statuses[k])'
      <4>1. StatusFollows(statuses[j], statuses[k])
        BY <1>2, <3>3 DEF StatusInv
      <4> QED
        BY <1>3, <4>1 DEF StatusFollows
    <3> QED
      BY <1>3, <3>2, <3>3 DEF StatusInv
  <2> QED
    BY <1>5, <2>9, <2>11, <2>12, <2>13 DEF ArqInv
<1> QED
  BY <1>6, <1>7

\* Every step keeps the invariant.
LEMMA NextArq ==
  ASSUME TypeInv, ArqInv, StatusOvertaking = 0, [Next]_vars
  PROVE  ArqInv'
<1>0. txed \cap retx = {}
  BY DEF ArqInv, HeldInv
<1>1. CASE TransmitPdcpPdu \/ ExpireRbsTimer \/ ExpireStatusProhibitTimer \/ UNCHANGED vars
  <2>1. UNCHANGED windowVars /\ UNCHANGED <<txed, retx, pdus, statuses>>
    BY <1>1 DEF TransmitPdcpPdu, ExpireRbsTimer, ExpireStatusProhibitTimer,
                windowVars, vars, txVars, rxVars, macVars
  <2>2. Held' = Held /\ txed' \cap retx' = {}
    BY <1>0, <2>1 DEF Held
  <2> QED
    BY <2>1, <2>2, SameArq
<1>2. CASE Transmit
  BY <1>2, RetransmitArq, TransmitNewArq DEF Transmit
<1>3. CASE ExpirePollRetransmitTimer
  <2>1. UNCHANGED windowVars /\ UNCHANGED <<pdus, statuses>>
    BY <1>3 DEF ExpirePollRetransmitTimer, windowVars, rxVars, macVars
  <2>2. Held' = Held /\ txed' \cap retx' = {}
    BY <1>0, <1>3 DEF ExpirePollRetransmitTimer, Held
  <2> QED
    BY <2>1, <2>2, SameArq
<1>4. CASE \E sn \in SN : DataArrives(sn)
  BY <1>4, ReceiveDataArq DEF DataArrives
<1>5. CASE StatusArrives
  BY <1>5, ReceiveStatusArq DEF StatusArrives
<1>6. CASE StatusLeaves
  BY <1>6, TransmitStatusArq DEF StatusLeaves
<1>7. CASE ExpireReorderingTimer
  BY <1>7, ExpireReorderingArq
<1>8. CASE LosePdu \/ LoseStatus
  BY <1>8, LoseArq
<1> QED
  BY <1>1, <1>2, <1>3, <1>4, <1>5, <1>6, <1>7, <1>8 DEF Next

-----------------------------------------------------------------------------
(* The stream of units: what is accepted, one SDU after the other.         *)

UnitAt(k) == <<((k - 1) \div SduUnits) + 1, ((k - 1) % SduUnits) + 1>>

\* The units after the first a, up to the b-th.
Stream(a, b) == [k \in 1..b - a |-> UnitAt(a + k)]

\* A part of the stream is a sequence of units.
LEMMA StreamIs ==
  ASSUME NEW a \in Nat, NEW b \in Nat, a <= b
  PROVE  /\ Stream(a, b) \in Seq(Nat \X Nat)
         /\ Len(Stream(a, b)) = b - a
         /\ \A k \in 1..b - a : Stream(a, b)[k] = UnitAt(a + k)
<1>1. \A n \in Nat : n \div SduUnits \in Nat /\ n % SduUnits \in Nat
  BY ConstantFacts
<1>2. \A k \in 1..b - a : UnitAt(a + k) \in Nat \X Nat
  <2> SUFFICES ASSUME NEW k \in 1..b - a PROVE UnitAt(a + k) \in Nat \X Nat
    OBVIOUS
  <2>1. a + k - 1 \in Nat
    OBVIOUS
  <2>2. ((a + k - 1) \div SduUnits) + 1 \in Nat /\ ((a + k - 1) % SduUnits) + 1 \in Nat
    BY <1>1, <2>1
  <2> QED
    BY <2>2 DEF UnitAt
<1> DEFINE s == Stream(a, b)
           n == b - a
<1>3. s \in [1..n -> Nat \X Nat] /\ n \in Nat /\ n = b - a
  BY <1>2 DEF Stream
<1>4. \A k \in 1..n : s[k] = UnitAt(a + k)
  BY DEF Stream
<1> HIDE DEF s, n
<1>5. s \in Seq(Nat \X Nat) /\ Len(s) = n
  BY <1>3
<1> QED
  BY <1>3, <1>4, <1>5 DEF s, n

\* A sequence of the same units is that part.
LEMMA StreamEqual ==
  ASSUME NEW a \in Nat, NEW b \in Nat, a <= b,
         NEW T, NEW s \in Seq(T), Len(s) = b - a, \A k \in 1..b - a : s[k] = UnitAt(a + k)
  PROVE  s = Stream(a, b)
<1>1. /\ Stream(a, b) \in Seq(Nat \X Nat) /\ Len(Stream(a, b)) = b - a
      /\ \A k \in 1..b - a : Stream(a, b)[k] = UnitAt(a + k)
  BY StreamIs
<1>2. s = [k \in 1..b - a |-> s[k]]
  OBVIOUS
<1> QED
  BY <1>2 DEF Stream

\* Parts that follow one another make one part,
LEMMA StreamConcat ==
  ASSUME NEW a \in Nat, NEW b \in Nat, NEW c \in Nat, a <= b, b <= c
  PROVE  Stream(a, b) \o Stream(b, c) = Stream(a, c)
<1> DEFINE s == Stream(a, b)
           t == Stream(b, c)
<1>1. /\ s \in Seq(Nat \X Nat) /\ Len(s) = b - a /\ \A k \in 1..b - a : s[k] = UnitAt(a + k)
      /\ t \in Seq(Nat \X Nat) /\ Len(t) = c - b /\ \A k \in 1..c - b : t[k] = UnitAt(b + k)
  BY StreamIs
<1> HIDE DEF s, t
<1>2. /\ s \o t \in Seq(Nat \X Nat) /\ Len(s \o t) = Len(s) + Len(t)
      /\ \A k \in 1..Len(s) + Len(t) : (s \o t)[k] = IF k <= Len(s) THEN s[k] ELSE t[k - Len(s)]
  BY <1>1, ConcatProperties
<1>3. ASSUME NEW k \in 1..c - a PROVE (s \o t)[k] = UnitAt(a + k)
  <2>1. (s \o t)[k] = IF k <= b - a THEN s[k] ELSE t[k - (b - a)]
    <3>1. Len(s) = b - a /\ k \in 1..Len(s) + Len(t)
      BY <1>1
    <3>2. (s \o t)[k] = IF k <= Len(s) THEN s[k] ELSE t[k - Len(s)]
      BY <1>2, <3>1
    <3> QED
      BY <3>1, <3>2, Zenon
  <2>2. CASE k <= b - a
    BY <1>1, <2>1, <2>2
  <2>3. CASE ~(k <= b - a)
    <3>1. k - (b - a) \in 1..c - b /\ b + (k - (b - a)) = a + k
      BY <2>3
    <3> QED
      BY <1>1, <2>1, <2>3, <3>1
  <2> QED
    BY <2>2, <2>3
<1>4. Len(s \o t) = c - a /\ a <= c
  BY <1>1, <1>2
<1>5. s \o t = Stream(a, c)
  BY <1>2, <1>3, <1>4, StreamEqual
<1> QED
  BY <1>5 DEF s, t

\* The items of s after the first m, up to the n-th.
Part(s, m, n) == SubSeq(s, m + 1, n)

\* and a part of a part is a part.
LEMMA StreamPart ==
  ASSUME NEW a \in Nat, NEW b \in Nat, a <= b, NEW m \in Nat, NEW n \in Nat,
         m <= n, n <= b - a
  PROVE  Part(Stream(a, b), m, n) = Stream(a + m, a + n)
<1> DEFINE s == Stream(a, b)
<1>1. s \in Seq(Nat \X Nat) /\ Len(s) = b - a /\ \A k \in 1..b - a : s[k] = UnitAt(a + k)
  BY StreamIs
<1> HIDE DEF s
<1>2. /\ SubSeq(s, m + 1, n) \in Seq(Nat \X Nat)
      /\ Len(SubSeq(s, m + 1, n)) = n - m
      /\ \A k \in 1..n - m : SubSeq(s, m + 1, n)[k] = s[m + k]
  BY <1>1
<1>3. ASSUME NEW k \in 1..n - m PROVE SubSeq(s, m + 1, n)[k] = UnitAt(a + m + k)
  <2>1. m + k \in 1..b - a /\ a + (m + k) = a + m + k
    OBVIOUS
  <2> QED
    BY <1>1, <1>2, <2>1
<1>4. a + m \in Nat /\ a + n \in Nat /\ a + m <= a + n /\ (a + n) - (a + m) = n - m
  OBVIOUS
<1>5. SubSeq(s, m + 1, n) = Stream(a + m, a + n)
  BY <1>2, <1>3, <1>4, StreamEqual
<1> QED
  BY <1>5 DEF s, Part

\* Division with remainder.
LEMMA DivMod ==
  ASSUME NEW d \in Nat \ {0}, NEW n \in Nat
  PROVE  n = d * (n \div d) + (n % d) /\ n % d \in 0..d - 1 /\ n \div d \in Nat
  OBVIOUS

\* Where a unit is in the stream tells its place in its SDU.
LEMMA UnitFacts ==
  ASSUME NEW e \in Nat
  PROVE  /\ e \div SduUnits \in Nat /\ e % SduUnits \in Nat /\ e % SduUnits < SduUnits
         /\ e = (e \div SduUnits) * SduUnits + (e % SduUnits)
         /\ UnitAt(e + 1) = <<(e \div SduUnits) + 1, (e % SduUnits) + 1>>
<1>1. /\ e \div SduUnits \in Nat /\ e % SduUnits \in Nat /\ e % SduUnits < SduUnits
  BY ConstantFacts
<1>2. e = SduUnits * (e \div SduUnits) + (e % SduUnits)
  <2>1. SduUnits \in Nat \ {0}
    BY ConstantFacts
  <2> QED
    BY <2>1, DivMod, Zenon
<1>3. SduUnits * (e \div SduUnits) = (e \div SduUnits) * SduUnits
  BY <1>1, ConstantFacts
<1>4. UnitAt(e + 1) = <<(e \div SduUnits) + 1, (e % SduUnits) + 1>>
  <2>1. e + 1 - 1 = e
    OBVIOUS
  <2> QED
    BY <2>1 DEF UnitAt
<1> QED
  BY <1>1, <1>2, <1>3, <1>4

\* Quotient and remainder are unique.
LEMMA DivModIs ==
  ASSUME NEW q \in Nat, NEW m \in Nat, m < SduUnits
  PROVE  /\ (q * SduUnits + m) \div SduUnits = q
         /\ (q * SduUnits + m) % SduUnits = m
         /\ q * SduUnits \in Nat
  BY ConstantFacts

\* An SDU is a part of it.
LEMMA SduStream ==
  ASSUME NEW n \in Nat
  PROVE  /\ n * SduUnits \in Nat /\ (n + 1) * SduUnits = n * SduUnits + SduUnits
         /\ [k \in 1..SduUnits |-> <<n + 1, k>>] = Stream(n * SduUnits, (n + 1) * SduUnits)
<1>1. n * SduUnits \in Nat /\ (n + 1) * SduUnits = n * SduUnits + SduUnits
  BY ConstantFacts
<1>2. ASSUME NEW k \in 1..SduUnits PROVE UnitAt(n * SduUnits + k) = <<n + 1, k>>
  <2>1. k - 1 \in Nat /\ k - 1 < SduUnits
    BY ConstantFacts
  <2>2. (n * SduUnits + (k - 1)) \div SduUnits = n /\ (n * SduUnits + (k - 1)) % SduUnits = k - 1
    BY <2>1, DivModIs
  <2> DEFINE e == n * SduUnits + (k - 1)
  <2>3. e \in Nat /\ e + 1 = n * SduUnits + k /\ k - 1 + 1 = k
    BY <1>1, <2>1
  <2>4. UnitAt(e + 1) = <<(e \div SduUnits) + 1, (e % SduUnits) + 1>>
    BY <2>3, UnitFacts
  <2> QED
    BY <2>2, <2>3, <2>4
<1>3. (n + 1) * SduUnits - n * SduUnits = SduUnits
  BY <1>1, ConstantFacts
<1> QED
  BY <1>1, <1>2, <1>3 DEF Stream

\* Of what is accepted, the units are those of the SDUs.
LEMMA StreamUnits ==
  ASSUME NEW a \in Nat, NEW b \in Nat, a <= b, b <= MaxSdus * SduUnits
  PROVE  Stream(a, b) \in Seq(Units)
<1>1. ASSUME NEW k \in 1..b - a PROVE UnitAt(a + k) \in Units
  <2> DEFINE e == a + k - 1
  <2>1. e \in Nat /\ e < MaxSdus * SduUnits /\ e + 1 = a + k
    BY ConstantFacts
  <2> HIDE DEF e
  <2>2. /\ e \div SduUnits \in Nat /\ e % SduUnits \in Nat /\ e % SduUnits < SduUnits
        /\ e = (e \div SduUnits) * SduUnits + (e % SduUnits)
        /\ UnitAt(e + 1) = <<(e \div SduUnits) + 1, (e % SduUnits) + 1>>
    BY <2>1, UnitFacts
  <2>3. e \div SduUnits < MaxSdus
    <3> DEFINE q == e \div SduUnits
    <3>1. q \in Nat /\ q * SduUnits < MaxSdus * SduUnits
      BY <2>1, <2>2, ConstantFacts
    <3> HIDE DEF q
    <3>2. q < MaxSdus
      BY <3>1, ConstantFacts
    <3> QED
      BY <3>2 DEF q
  <2> QED
    BY <2>1, <2>2, <2>3, ConstantFacts DEF Units
<1>2. Stream(a, b) \in [1..b - a -> Units] /\ b - a \in Nat
  BY <1>1 DEF Stream
<1> QED
  BY <1>2

-----------------------------------------------------------------------------
(* Reassembly.                                                             *)

\* The first e units have come: those of whole SDUs are handed up, those of the
\* one that is not complete are kept, and sn is expected.
AssemblyAt(a, sn, e) ==
  /\ a.expected = sn
  /\ \E q \in Nat : /\ q * SduUnits <= e /\ e < q * SduUnits + SduUnits
                    /\ a.up = Stream(0, q * SduUnits)
                    /\ a.keep = Stream(q * SduUnits, e)

\* Reassembly takes the next part of the stream and neither loses a unit nor finds
\* what it must drop.
LEMMA Reassembled ==
  ASSUME NEW a, NEW sn, NEW e \in Nat, NEW f \in Nat, e < f, AssemblyAt(a, sn, e)
  PROVE  AssemblyAt(Reassemble(a, sn, Stream(e, f)), Plus(sn, 1), f)
<1> DEFINE units == Stream(e, f)
           l == ((f - 1) % SduUnits) + 1
           last == (f - 1) \div SduUnits
<1>1. PICK q \in Nat : /\ q * SduUnits <= e /\ e < q * SduUnits + SduUnits
                       /\ a.up = Stream(0, q * SduUnits)
                       /\ a.keep = Stream(q * SduUnits, e)
  BY DEF AssemblyAt
<1> DEFINE u == q * SduUnits
           body == Stream(u, f)
<1>2. u \in Nat /\ SduUnits \in Nat /\ SduUnits > 0
  BY ConstantFacts, DivModIs
<1>3. /\ units \in Seq(Nat \X Nat) /\ Len(units) = f - e
      /\ \A k \in 1..f - e : units[k] = UnitAt(e + k)
  <2>1. e <= f
    OBVIOUS
  <2> QED
    BY <2>1, StreamIs
<1>4. a.keep = Stream(u, e) /\ Len(a.keep) = e - u /\ (a.keep # << >> <=> u < e)
  <2>1. Stream(u, e) \in Seq(Nat \X Nat) /\ Len(Stream(u, e)) = e - u
    BY <1>1, <1>2, StreamIs
  <2>2. a.keep \in Seq(Nat \X Nat) /\ Len(a.keep) = e - u
    BY <1>1, <2>1
  <2>3. a.keep # << >> <=> Len(a.keep) # 0
    BY <2>2
  <2> QED
    BY <1>1, <1>2, <2>2, <2>3
<1>5. FirstByte(units) <=> e = u
  <2>1. e - u \in Nat /\ e - u < SduUnits /\ e = q * SduUnits + (e - u)
    BY <1>1, <1>2
  <2>2. e % SduUnits = e - u
    BY <2>1, DivModIs
  <2>3. units[1] = UnitAt(e + 1)
    <3>1. 1 \in 1..f - e
      OBVIOUS
    <3> QED
      BY <1>3, <3>1
  <2>4. units[1][2] = e - u + 1
    BY <2>2, <2>3, UnitFacts
  <2> HIDE DEF u, units
  <2> QED
    BY <1>2, <2>1, <2>4 DEF FirstByte
<1>6. /\ last \in Nat /\ l \in Nat /\ l >= 1 /\ l <= SduUnits
      /\ f = last * SduUnits + l /\ last * SduUnits \in Nat
      /\ UnitAt(f) = <<last + 1, l>>
  <2>1. f - 1 \in Nat /\ f - 1 + 1 = f
    OBVIOUS
  <2>2. /\ (f - 1) \div SduUnits \in Nat /\ (f - 1) % SduUnits \in Nat /\ (f - 1) % SduUnits < SduUnits
        /\ f - 1 = ((f - 1) \div SduUnits) * SduUnits + ((f - 1) % SduUnits)
        /\ UnitAt(f) = <<((f - 1) \div SduUnits) + 1, ((f - 1) % SduUnits) + 1>>
    BY <2>1, UnitFacts
  <2>3. last * SduUnits \in Nat
    BY <2>2, DivModIs, <1>2
  <2> QED
    BY <1>2, <2>2, <2>3
<1> HIDE DEF l, last
<1>7. LastByte(units) <=> l = SduUnits
  <2>1. f - e \in 1..f - e /\ e + (f - e) = f
    OBVIOUS
  <2>2. units[Len(units)] = UnitAt(f)
    BY <1>3, <2>1
  <2> QED
    BY <1>6, <2>2 DEF LastByte
<1>8. (last + 1) * SduUnits = last * SduUnits + SduUnits
  BY <1>2, <1>6
<1>9. u <= last * SduUnits
  <2>1. q <= last
    <3> SUFFICES ASSUME q >= last + 1 PROVE FALSE
      BY <1>6
    <3>1. q * SduUnits >= (last + 1) * SduUnits
      BY <1>2, <1>6
    <3> QED
      BY <1>1, <1>2, <1>6, <1>8, <3>1
  <2> QED
    BY <1>2, <1>6, <2>1
<1> HIDE DEF u
<1>10. /\ body \in Seq(Nat \X Nat) /\ Len(body) = f - u
       /\ body[Len(body)] = UnitAt(f) /\ body # << >>
  <2>1. u <= f /\ u < f /\ f - u \in 1..f - u /\ u + (f - u) = f
    BY <1>1, <1>2 DEF u
  <2>2. /\ body \in Seq(Nat \X Nat) /\ Len(body) = f - u
        /\ \A k \in 1..f - u : body[k] = UnitAt(u + k)
    BY <1>2, <2>1, StreamIs
  <2>3. body[Len(body)] = UnitAt(f)
    BY <2>1, <2>2
  <2> HIDE DEF body
  <2> QED
    BY <1>2, <2>1, <2>2, <2>3
<1>11. (IF a.keep # << >> THEN a.keep \o units ELSE units) = body
  <2>1. CASE u < e
    <3>1. a.keep \o units = Stream(u, e) \o Stream(e, f)
      BY <1>4
    <3>2. Stream(u, e) \o Stream(e, f) = Stream(u, f)
      <4>1. u <= e /\ e <= f
        BY <1>2, <2>1
      <4> QED
        BY <1>2, <4>1, StreamConcat
    <3> QED
      BY <1>4, <2>1, <3>1, <3>2
  <2>2. CASE ~(u < e)
    <3>1. u = e
      BY <1>1, <1>2, <2>2 DEF u
    <3> QED
      BY <1>4, <2>2, <3>1
  <2> QED
    BY <2>1, <2>2
<1> DEFINE w == IF l = SduUnits THEN f - u ELSE IF l < f - u THEN f - u - l ELSE 0
<1> HIDE DEF units, body
<1>12. Reassemble(a, sn, units) =
         [keep |-> SubSeq(body, w + 1, Len(body)), expected |-> Plus(sn, 1),
          up |-> a.up \o SubSeq(body, 1, w)]
  <2>1. a.expected = sn
    BY DEF AssemblyAt
  <2>2. FirstByte(units) # (a.keep # << >>)
    <3>1. u <= e
      BY <1>1 DEF u
    <3>2. (a.keep # << >>) <=> ~(e = u)
      BY <1>2, <1>4, <3>1
    <3> QED
      BY <1>5, <3>2, Zenon DEF FirstByte
  <2>3. BeforeLast(body) = IF l < f - u THEN f - u - l ELSE 0
    BY <1>6, <1>10 DEF BeforeLast
  <2>4. w = IF LastByte(units) \/ body = << >> THEN Len(body) ELSE BeforeLast(body)
    BY <1>7, <1>10, <2>3
  <2> HIDE DEF w
  <2>5. body = IF a.keep # << >> THEN a.keep \o units
               ELSE IF FirstByte(units) THEN units
               ELSE SubSeq(units, FirstField(units) + 1, Len(units))
    <3>1. CASE a.keep # << >>
      BY <1>11, <3>1, Zenon
    <3>2. CASE ~(a.keep # << >>)
      <4>1. FirstByte(units)
        BY <2>2, <3>2, Zenon DEF FirstByte
      <4> QED
        BY <1>11, <3>2, <4>1, Zenon
    <3> QED
      BY <3>1, <3>2
  <2>6. Reassemble(a, sn, units) =
          LET lost == sn # a.expected
              waiting == a.keep # << >>
              impossible == ~lost /\ FirstByte(units) = waiting
              b == IF waiting /\ ~lost THEN a.keep \o units
                   ELSE IF FirstByte(units) THEN units
                   ELSE SubSeq(units, FirstField(units) + 1, Len(units))
              whole == IF LastByte(units) \/ b = << >> THEN Len(b) ELSE BeforeLast(b)
          IN IF impossible THEN [a EXCEPT !.expected = Plus(sn, 1)]
             ELSE [keep |-> SubSeq(b, whole + 1, Len(b)), expected |-> Plus(sn, 1),
                   up |-> a.up \o SubSeq(b, 1, whole)]
    BY DEF Reassemble
  <2> QED
    BY <2>1, <2>2, <2>4, <2>5, <2>6
<1>13. \E n \in Nat : /\ w \in Nat /\ w <= f - u /\ u + w = n * SduUnits
                      /\ f < u + w + SduUnits
  <2>1. CASE l = SduUnits
    <3>1. w = f - u /\ last + 1 \in Nat /\ f = (last + 1) * SduUnits
      BY <1>6, <1>8, <2>1
    <3> HIDE DEF w
    <3> QED
      BY <1>2, <1>6, <1>9, <3>1
  <2>2. CASE l # SduUnits
    <3>1. w = IF l < f - u THEN f - u - l ELSE 0
      BY <2>2
    <3> HIDE DEF w
    <3>2. w \in Nat /\ w <= f - u /\ u + w = last * SduUnits
      BY <1>2, <1>6, <1>9, <3>1
    <3>3. f < u + w + SduUnits
      BY <1>2, <1>6, <2>2, <3>2
    <3> QED
      BY <1>6, <3>2, <3>3
  <2> QED
    BY <2>1, <2>2
<1> HIDE DEF w
<1>14. PICK n \in Nat : /\ w \in Nat /\ w <= f - u /\ u + w = n * SduUnits
                        /\ f < u + w + SduUnits
  BY <1>13
<1>15. u <= f /\ u + (f - u) = f /\ f - u \in Nat /\ u + w \in Nat
  BY <1>1, <1>2, <1>14 DEF u
<1>16. SubSeq(body, w + 1, Len(body)) = Stream(u + w, f)
  <2>1. Part(Stream(u, f), w, f - u) = Stream(u + w, u + (f - u))
    BY <1>2, <1>14, <1>15, StreamPart
  <2>2. SubSeq(body, w + 1, Len(body)) = Part(body, w, f - u)
    BY <1>10 DEF Part
  <2> QED
    BY <1>15, <2>1, <2>2 DEF body
<1>17. SubSeq(body, 1, w) = Stream(u, u + w)
  <2>1. Part(Stream(u, f), 0, w) = Stream(u + 0, u + w)
    BY <1>2, <1>14, <1>15, StreamPart
  <2>2. SubSeq(body, 1, w) = Part(body, 0, w) /\ u + 0 = u
    <3>1. 0 + 1 = 1 /\ u + 0 = u
      BY <1>2
    <3> QED
      BY <3>1 DEF Part
  <2> QED
    BY <2>1, <2>2 DEF body
<1>18. a.up \o SubSeq(body, 1, w) = Stream(0, u + w)
  <2>1. a.up = Stream(0, u) /\ 0 <= u /\ u <= u + w
    BY <1>1, <1>2, <1>14 DEF u
  <2>2. Stream(0, u) \o Stream(u, u + w) = Stream(0, u + w)
    BY <1>2, <1>15, <2>1, StreamConcat
  <2> QED
    BY <1>17, <2>1, <2>2
<1>19. u + w <= f
  BY <1>2, <1>14, <1>15
<1> DEFINE b == Reassemble(a, sn, units)
<1>a. b = [keep |-> Stream(u + w, f), expected |-> Plus(sn, 1), up |-> Stream(0, u + w)]
  BY <1>12, <1>16, <1>18, Zenon
<1> HIDE DEF b
<1>20. b.expected = Plus(sn, 1) /\ b.up = Stream(0, u + w) /\ b.keep = Stream(u + w, f)
  BY <1>a
<1>21. AssemblyAt(b, Plus(sn, 1), f)
  BY <1>14, <1>19, <1>20 DEF AssemblyAt
<1> QED
  BY <1>21 DEF b, units

\* The PDUs handed up one after the other: what HandUp recurs on.
Handed(n, p, h) ==
  h = [k \in 0..n |->
        IF k = 0 THEN assembly
        ELSE Reassemble(h[k - 1], Plus(vrR, k - 1), Buffered(Plus(vrR, k - 1), p))]

\* There is such a function,
LEMMA HandedExists ==
  ASSUME NEW p, NEW n \in Nat
  PROVE  \E h : Handed(n, p, h)
<1> DEFINE T == {k \in Nat : \E h : Handed(k, p, h)}
<1>1. 0 \in T
  <2> DEFINE h == [k \in 0..0 |-> assembly]
  <2>1. Handed(0, p, h)
    <3>1. \A k \in 0..0 : k = 0
      OBVIOUS
    <3> QED
      BY <3>1 DEF Handed
  <2> QED
    BY <2>1
<1>2. ASSUME NEW k \in T PROVE k + 1 \in T
  <2>1. PICK h : Handed(k, p, h)
    OBVIOUS
  <2> DEFINE g == [j \in 0..k + 1 |-> IF j <= k THEN h[j]
                     ELSE Reassemble(h[k], Plus(vrR, k), Buffered(Plus(vrR, k), p))]
  <2>2. Handed(k + 1, p, g)
    <3>1. ASSUME NEW j \in 0..k + 1
          PROVE  g[j] = IF j = 0 THEN assembly
                        ELSE Reassemble(g[j - 1], Plus(vrR, j - 1), Buffered(Plus(vrR, j - 1), p))
      <4>1. CASE j <= k
        <5>1. g[j] = h[j] /\ j \in 0..k
          BY <4>1
        <5>2. h[j] = IF j = 0 THEN assembly
                     ELSE Reassemble(h[j - 1], Plus(vrR, j - 1), Buffered(Plus(vrR, j - 1), p))
          BY <2>1, <5>1 DEF Handed
        <5>3. j # 0 => g[j - 1] = h[j - 1]
          BY <4>1
        <5> HIDE DEF g
        <5> QED
          BY <5>1, <5>2, <5>3
      <4>2. CASE ~(j <= k)
        <5>1. j = k + 1 /\ j - 1 = k /\ j # 0
          BY <4>2
        <5>2. g[j] = Reassemble(h[k], Plus(vrR, k), Buffered(Plus(vrR, k), p)) /\ g[k] = h[k]
          BY <5>1
        <5> HIDE DEF g
        <5> QED
          BY <5>1, <5>2
      <4> QED
        BY <4>1, <4>2
    <3> QED
      BY <3>1 DEF Handed
  <2> QED
    BY <2>2
<1>3. T = Nat
  <2> HIDE DEF T
  <2>1. T \in SUBSET Nat
    BY DEF T
  <2> QED
    BY <1>1, <1>2, <2>1, Induction
<1> QED
  BY <1>3

\* so that HandUp is what the recursion says.
LEMMA HandUpIs ==
  ASSUME NEW p, NEW n \in Nat
  PROVE  \E h : /\ HandUp(n, p) = h[n] /\ h[0] = assembly
                /\ \A k \in 0..n - 1 :
                     h[k + 1] = Reassemble(h[k], Plus(vrR, k), Buffered(Plus(vrR, k), p))
<1> DEFINE h == CHOOSE g : Handed(n, p, g)
<1>1. HandUp(n, p) = h[n]
  BY DEF HandUp, Handed
<1>2. Handed(n, p, h)
  BY HandedExists
<1> HIDE DEF h
<1>3. h[0] = assembly
  <2>1. 0 \in 0..n
    OBVIOUS
  <2> QED
    BY <1>2, <2>1 DEF Handed
<1>4. ASSUME NEW k \in 0..n - 1
      PROVE  h[k + 1] = Reassemble(h[k], Plus(vrR, k), Buffered(Plus(vrR, k), p))
  <2>1. k + 1 \in 0..n /\ k + 1 # 0 /\ k + 1 - 1 = k
    OBVIOUS
  <2>2. h[k + 1] = IF k + 1 = 0 THEN assembly
                   ELSE Reassemble(h[k + 1 - 1], Plus(vrR, k + 1 - 1),
                                   Buffered(Plus(vrR, k + 1 - 1), p))
    BY <1>2, <2>1 DEF Handed
  <2> QED
    BY <2>1, <2>2
<1> QED
  BY <1>1, <1>3, <1>4

\* Going on one by one.
LEMMA PlusFacts ==
  ASSUME NEW sn \in SN
  PROVE  /\ Plus(sn, 0) = sn /\ Plus(sn, 1) \in SN
         /\ \A k \in Nat : k < SnMod =>
              /\ Plus(sn, k) \in SN /\ Off(Plus(sn, k), sn) = k
              /\ Plus(Plus(sn, k), 1) = Plus(sn, k + 1)
<1>1. SnMod \in Nat /\ SnMod > 0 /\ sn \in Nat /\ sn < SnMod
  BY SnFacts
<1>2. 0 \in 0..SnMod /\ 1 \in 0..SnMod
  BY <1>1
<1>3. Plus(sn, 0) = sn
  <2>1. Plus(sn, 0) = IF sn + 0 < SnMod THEN sn + 0 ELSE sn + 0 - SnMod
    BY <1>2, PlusIs
  <2> QED
    BY <1>1, <2>1
<1>4. ASSUME NEW k \in Nat, k < SnMod
      PROVE  /\ Plus(sn, k) \in SN /\ Off(Plus(sn, k), sn) = k
             /\ Plus(Plus(sn, k), 1) = Plus(sn, k + 1)
  <2>1. k \in 0..SnMod /\ k + 1 \in 0..SnMod
    BY <1>1, <1>4
  <2>2. Plus(sn, k) \in SN /\ Plus(sn, k) = IF sn + k < SnMod THEN sn + k ELSE sn + k - SnMod
    BY <2>1, PlusIs
  <2>3. Off(sn, sn) = 0
    BY OffZero
  <2>4. Off(Plus(sn, k), sn) = k
    <3>1. Off(Plus(sn, k), sn) = IF Off(sn, sn) + k < SnMod THEN Off(sn, sn) + k
                                 ELSE Off(sn, sn) + k - SnMod
      BY <2>1, OffPlus
    <3> QED
      BY <1>4, <2>3, <3>1
  <2>5. Plus(Plus(sn, k), 1) = IF Plus(sn, k) + 1 < SnMod THEN Plus(sn, k) + 1
                               ELSE Plus(sn, k) + 1 - SnMod
    BY <1>2, <2>2, PlusIs
  <2>6. Plus(sn, k + 1) = IF sn + (k + 1) < SnMod THEN sn + (k + 1) ELSE sn + (k + 1) - SnMod
    BY <2>1, PlusIs
  <2>7. Plus(Plus(sn, k), 1) = Plus(sn, k + 1)
    BY <1>1, <1>4, <2>2, <2>5, <2>6
  <2> QED
    BY <2>2, <2>4, <2>7
<1>5. Plus(sn, 1) \in SN
  BY <1>2, PlusIs
<1> QED
  BY <1>3, <1>4, <1>5

\* The units of the PDU with sequence number sn, when pos[sn] come before it.
Piece(pos, sn) == Stream(pos[sn], pos[Plus(sn, 1)])

\* What is handed up are the next parts of the stream.
LEMMA HandUpStream ==
  ASSUME vrR \in SN, NEW pos \in [SN -> Nat], NEW p, NEW n \in Nat, n < SnMod,
         AssemblyAt(assembly, vrR, pos[vrR]),
         \A k \in 0..n - 1 : /\ pos[Plus(vrR, k)] < pos[Plus(Plus(vrR, k), 1)]
                             /\ Buffered(Plus(vrR, k), p) = Piece(pos, Plus(vrR, k))
  PROVE  AssemblyAt(HandUp(n, p), Plus(vrR, n), pos[Plus(vrR, n)])
<1>1. PICK h : /\ HandUp(n, p) = h[n] /\ h[0] = assembly
               /\ \A k \in 0..n - 1 :
                    h[k + 1] = Reassemble(h[k], Plus(vrR, k), Buffered(Plus(vrR, k), p))
  BY HandUpIs
<1> DEFINE Good(k) == AssemblyAt(h[k], Plus(vrR, k), pos[Plus(vrR, k)])
           T == {k \in Nat : k <= n => Good(k)}
<1>2. 0 \in T
  BY <1>1, PlusFacts
<1>3. ASSUME NEW k \in T PROVE k + 1 \in T
  <2> SUFFICES ASSUME k + 1 <= n PROVE Good(k + 1)
    OBVIOUS
  <2>1. k \in 0..n - 1 /\ k < SnMod /\ k \in Nat
    BY SnFacts
  <2>2. AssemblyAt(h[k], Plus(vrR, k), pos[Plus(vrR, k)])
    BY <2>1
  <2>3. Plus(vrR, k) \in SN /\ Plus(Plus(vrR, k), 1) = Plus(vrR, k + 1) /\ Plus(vrR, k + 1) \in SN
    BY <2>1, PlusFacts
  <2> DEFINE e == pos[Plus(vrR, k)]
             f == pos[Plus(vrR, k + 1)]
  <2>4. e \in Nat /\ f \in Nat /\ e < f
    BY <2>1, <2>3
  <2>5. h[k + 1] = Reassemble(h[k], Plus(vrR, k), Stream(e, f))
    BY <1>1, <2>1, <2>3 DEF Piece
  <2>6. AssemblyAt(Reassemble(h[k], Plus(vrR, k), Stream(e, f)), Plus(Plus(vrR, k), 1), f)
    <3>1. AssemblyAt(h[k], Plus(vrR, k), e)
      BY <2>2
    <3> HIDE DEF e, f
    <3> QED
      BY <2>4, <3>1, Reassembled
  <2> QED
    BY <2>3, <2>5, <2>6
<1>4. T = Nat
  <2> HIDE DEF T
  <2>1. T \in SUBSET Nat
    BY DEF T
  <2> QED
    BY <1>2, <1>3, <2>1, Induction
<1>5. Good(n)
  BY <1>4
<1> QED
  BY <1>1, <1>5

-----------------------------------------------------------------------------
(* The stream passes through.                                              *)

\* Sent, and not before VR(R).
Outstanding(sn) == Off(sn, vrR) < Off(vtS, vrR)

\* What is yet to be sent follows what was; what is outstanding carries its part
\* of the stream wherever it is; what lies before VR(R) has been handed up or kept.
StreamInv(pos) ==
  /\ pos[vtS] <= accepted * SduUnits /\ txon = Stream(pos[vtS], accepted * SduUnits)
  /\ pos[vrR] <= pos[vtS]
  /\ AssemblyAt(assembly, vrR, pos[vrR])
  /\ \A sn \in SN : Outstanding(sn) =>
       /\ pos[sn] < pos[Plus(sn, 1)] /\ pos[Plus(sn, 1)] <= pos[vtS]
       /\ sn \in DOMAIN rxon => rxon[sn] = Piece(pos, sn)
       /\ sn \in Held => data[sn] = Piece(pos, sn)
       /\ \A i \in DOMAIN pdus : pdus[i].sn = sn => pdus[i].units = Piece(pos, sn)

\* A step that sends only what is held, and changes nothing that is, keeps it.
LEMMA SameStream ==
  ASSUME NEW pos, StreamInv(pos), UNCHANGED <<txon, accepted, vtS, vrR, rxon, assembly>>,
         \A sn \in Held' : sn \in Held /\ data'[sn] = data[sn],
         \A j \in DOMAIN pdus' :
           \/ \E k \in DOMAIN pdus : pdus'[j].sn = pdus[k].sn /\ pdus'[j].units = pdus[k].units
           \/ pdus'[j].sn \in Held /\ pdus'[j].units = data[pdus'[j].sn]
  PROVE  StreamInv(pos)'
<1>1. \A sn \in SN : Outstanding(sn)' <=> Outstanding(sn)
  BY DEF Outstanding
<1>2. ASSUME NEW sn \in SN, Outstanding(sn)
      PROVE  /\ pos[sn] < pos[Plus(sn, 1)] /\ pos[Plus(sn, 1)] <= pos[vtS]
             /\ sn \in DOMAIN rxon => rxon[sn] = Piece(pos, sn)
             /\ sn \in Held => data[sn] = Piece(pos, sn)
             /\ \A i \in DOMAIN pdus : pdus[i].sn = sn => pdus[i].units = Piece(pos, sn)
  BY <1>2 DEF StreamInv
<1>3. ASSUME NEW sn \in SN, Outstanding(sn), NEW j \in DOMAIN pdus', pdus'[j].sn = sn
      PROVE  pdus'[j].units = Piece(pos, sn)
  BY <1>2, <1>3
<1>4. ASSUME NEW sn \in SN, Outstanding(sn), sn \in Held'
      PROVE  data'[sn] = Piece(pos, sn)
  BY <1>2, <1>4
<1>5. ASSUME NEW sn \in SN, Outstanding(sn)'
      PROVE  /\ pos[sn] < pos[Plus(sn, 1)] /\ pos[Plus(sn, 1)] <= pos[vtS']
             /\ sn \in DOMAIN rxon' => rxon'[sn] = Piece(pos, sn)
             /\ sn \in Held' => data'[sn] = Piece(pos, sn)
             /\ \A i \in DOMAIN pdus' : pdus'[i].sn = sn => pdus'[i].units = Piece(pos, sn)
  BY <1>1, <1>2, <1>3, <1>4, <1>5
<1>6. /\ pos[vtS'] <= accepted' * SduUnits /\ txon' = Stream(pos[vtS'], accepted' * SduUnits)
      /\ pos[vrR'] <= pos[vtS']
      /\ AssemblyAt(assembly', vrR', pos[vrR'])
  BY DEF StreamInv
<1> QED
  BY <1>5, <1>6 DEF StreamInv

\* An SDU is accepted: it comes last.
LEMMA TransmitPdcpPduStream ==
  ASSUME TypeInv, NEW pos \in [SN -> Nat], StreamInv(pos), TransmitPdcpPdu
  PROVE  StreamInv(pos)'
<1> DEFINE sdu == [k \in 1..SduUnits |-> <<accepted + 1, k>>]
           a == pos[vtS]
           b == accepted * SduUnits
           c == (accepted + 1) * SduUnits
<1>1. /\ accepted' = accepted + 1 /\ txon' = txon \o sdu
      /\ UNCHANGED <<txed, retx, data, vtS, rxon, vrR, assembly, pdus>>
  BY DEF TransmitPdcpPdu, rxVars, macVars
<1>2. accepted \in Nat /\ vtS \in SN
  <2>1. accepted \in 0..MaxSdus /\ vtS \in SN
    BY Zenon DEF TypeInv, SenderType
  <2> QED
    BY <2>1, ConstantFacts
<1>3. b \in Nat /\ c = b + SduUnits /\ sdu = Stream(b, c) /\ SduUnits \in Nat
  BY <1>2, SduStream, ConstantFacts
<1>4. a \in Nat /\ a <= b /\ txon = Stream(a, b)
  BY <1>2 DEF StreamInv
<1>5. a <= c /\ txon' = Stream(a, c)
  <2> HIDE DEF a, b, c, sdu
  <2>1. c \in Nat /\ b <= c /\ a <= c
    BY <1>3, <1>4
  <2>2. Stream(a, b) \o Stream(b, c) = Stream(a, c)
    BY <1>3, <1>4, <2>1, StreamConcat
  <2> QED
    BY <1>1, <1>3, <1>4, <2>1, <2>2
<1>6. /\ pos[vrR] <= pos[vtS]
      /\ AssemblyAt(assembly, vrR, pos[vrR])
      /\ \A sn \in SN : Outstanding(sn) =>
           /\ pos[sn] < pos[Plus(sn, 1)] /\ pos[Plus(sn, 1)] <= pos[vtS]
           /\ sn \in DOMAIN rxon => rxon[sn] = Piece(pos, sn)
           /\ sn \in Held => data[sn] = Piece(pos, sn)
           /\ \A i \in DOMAIN pdus : pdus[i].sn = sn => pdus[i].units = Piece(pos, sn)
  BY DEF StreamInv
<1>7. Held' = Held /\ \A sn : Outstanding(sn)' <=> Outstanding(sn)
  BY <1>1 DEF Held, Outstanding
<1>8. pos[vtS'] <= accepted' * SduUnits /\ txon' = Stream(pos[vtS'], accepted' * SduUnits)
  BY <1>1, <1>5
<1> HIDE DEF sdu, a, b, c
<1>9. /\ pos[vrR'] <= pos[vtS'] /\ AssemblyAt(assembly', vrR', pos[vrR'])
      /\ \A sn \in SN : Outstanding(sn)' =>
           /\ pos[sn] < pos[Plus(sn, 1)] /\ pos[Plus(sn, 1)] <= pos[vtS']
           /\ sn \in DOMAIN rxon' => rxon'[sn] = Piece(pos, sn)
           /\ sn \in Held' => data'[sn] = Piece(pos, sn)
           /\ \A i \in DOMAIN pdus' : pdus'[i].sn = sn => pdus'[i].units = Piece(pos, sn)
  BY <1>1, <1>6, <1>7
<1> QED
  BY <1>8, <1>9 DEF StreamInv

\* What is sent again is the part of its sequence number.
LEMMA RetransmitStream ==
  ASSUME TypeInv, NEW pos \in [SN -> Nat], StreamInv(pos), NEW sn \in SN, Retransmit(sn)
  PROVE  StreamInv(pos)'
<1> DEFINE m == [sn |-> sn, poll |-> (txon = << >> /\ retx = {sn}) \/ vtS = VtMs \/ justExpired,
                 units |-> data[sn], late |-> 0]
<1>1. /\ sn \in retx /\ retx' = retx \ {sn} /\ txed' = txed \cup {sn}
      /\ pdus' = Append(pdus, m)
      /\ UNCHANGED <<txon, accepted, vtS, vrR, rxon, assembly, data>>
  BY DEF Retransmit, rxVars
<1>2. \A x \in Held' : x \in Held /\ data'[x] = data[x]
  BY <1>1 DEF Held
<1>3. m.sn = sn /\ m.units = data[sn] /\ pdus \in Seq(DataPdu) /\ sn \in Held
  BY <1>1 DEF TypeInv, MacType, Held
<1> HIDE DEF m
<1>4. ASSUME NEW j \in DOMAIN pdus'
      PROVE  pdus'[j] = m \/ \E k \in DOMAIN pdus : pdus'[j] = pdus[k]
  BY <1>1, <1>3
<1>5. ASSUME NEW j \in DOMAIN pdus'
      PROVE  \/ \E k \in DOMAIN pdus : pdus'[j].sn = pdus[k].sn /\ pdus'[j].units = pdus[k].units
             \/ pdus'[j].sn \in Held /\ pdus'[j].units = data[pdus'[j].sn]
  BY <1>3, <1>4
<1> QED
  BY <1>1, <1>2, <1>5, SameStream

\* What a STATUS does not cover stays.
LEMMA ReceiveStatusStream ==
  ASSUME TypeInv, NEW pos \in [SN -> Nat], StreamInv(pos), NEW i \in DOMAIN statuses,
         ReceiveStatus(i)
  PROVE  StreamInv(pos)'
<1>1. /\ txed' \subseteq txed
      /\ retx' = CoveredRetx(Covered(statuses[i]), statuses[i])
      /\ data' = [sn \in SN |-> IF sn \in txed' \cup retx' THEN data[sn] ELSE << >>]
      /\ UNCHANGED <<txon, vtS, accepted, pdus, rxVars>>
  BY DEF ReceiveStatus
<1>2. Held' \subseteq Held
  BY <1>1 DEF Held, CoveredRetx
<1>3. Held \subseteq SN
  BY DEF Held, TypeInv, SenderType
<1>4. \A sn \in Held' : sn \in Held /\ data'[sn] = data[sn]
  BY <1>1, <1>2, <1>3 DEF Held
<1>5. UNCHANGED <<txon, accepted, vtS, vrR, rxon, assembly>> /\ pdus' = pdus
  BY <1>1 DEF rxVars
<1> QED
  BY <1>4, <1>5, SameStream

\* A new PDU takes the next part; no old PDU with its sequence number is anywhere.
LEMMA TransmitNewStream ==
  ASSUME TypeInv, ArqInv, NEW pos \in [SN -> Nat], StreamInv(pos),
         NEW n \in 1..PduUnits, TransmitNew(n)
  PROVE  \E next \in [SN -> Nat] : StreamInv(next)'
<1> DEFINE units == SubSeq(txon, 1, n)
           asked == \/ <<withoutPoll[1] + 1, withoutPoll[2] + n>>[1] >= PollPdu
                    \/ <<withoutPoll[1] + 1, withoutPoll[2] + n>>[2] >= PollByte
                    \/ SubSeq(txon, n + 1, Len(txon)) = << >>
                    \/ Plus(vtS, 1) = VtMs
                    \/ justExpired
           m == [sn |-> vtS, poll |-> asked, units |-> units, late |-> 0]
           a == pos[vtS]
           b == accepted * SduUnits
           s == Plus(vtS, 1)
<1>1. /\ retx = {} /\ WindowOpen /\ n \in 1..Len(txon)
      /\ vtS' = s /\ txed' = txed \cup {vtS} /\ retx' = retx
      /\ data' = [data EXCEPT ![vtS] = units]
      /\ txon' = SubSeq(txon, n + 1, Len(txon))
      /\ pdus' = Append(pdus, m)
      /\ UNCHANGED <<accepted, vrR, rxon, assembly>>
  BY DEF TransmitNew, rxVars
<1>2. /\ vtA \in SN /\ vtS \in SN /\ vrR \in SN /\ vrMs \in SN /\ vrH \in SN
      /\ pdus \in Seq(DataPdu) /\ data \in [SN -> Seq(Units)]
      /\ DOMAIN rxon \in SUBSET SN
  BY Zenon DEF TypeInv, SenderType, ReceiverType, MacType
<1>accepted. accepted \in Nat
  <2>1. accepted \in 0..MaxSdus
    BY Zenon DEF TypeInv, SenderType
  <2> QED
    BY <2>1, ConstantFacts
<1>3. m.sn = vtS /\ m.units = units
  OBVIOUS
<1> HIDE DEF m, asked
<1>4. a \in Nat /\ a <= b /\ txon = Stream(a, b) /\ b \in Nat
  BY <1>2, <1>accepted, ConstantFacts, SduStream DEF StreamInv
<1>5. n \in Nat /\ n >= 1 /\ a + n <= b /\ Len(txon) = b - a
  <2> HIDE DEF a, b
  <2>1. Len(txon) = b - a
    BY <1>4, StreamIs
  <2> QED
    BY <1>1, <1>4, <2>1
<1>6. units = Stream(a, a + n) /\ txon' = Stream(a + n, b)
  <2> HIDE DEF a, b
  <2>1. a <= b /\ 0 \in Nat /\ 0 <= n /\ n <= b - a /\ b - a \in Nat /\ b - a <= b - a
    BY <1>4, <1>5
  <2>2. Part(Stream(a, b), 0, n) = Stream(a + 0, a + n)
    BY <1>4, <1>5, <2>1, StreamPart
  <2>3. Part(Stream(a, b), n, b - a) = Stream(a + n, a + (b - a))
    BY <1>4, <1>5, <2>1, StreamPart
  <2>4. a + 0 = a /\ a + (b - a) = b /\ 0 + 1 = 1
    BY <1>4
  <2>5. units = Part(txon, 0, n) /\ txon' = Part(txon, n, b - a)
    BY <1>1, <1>5, <2>4 DEF Part
  <2> QED
    BY <1>4, <2>2, <2>3, <2>4, <2>5
<1>7. s \in SN /\ Off(s, vrR) = Off(vtS, vrR) + 1 /\ Off(vtS, vrR) \in Nat /\ Off(vtS, vrR) < Window
  <2>1. Off(vtS, vtA) <= Window /\ Off(vrR, vtA) <= Off(vtS, vtA)
    BY DEF ArqInv, WindowInv
  <2>2. Window \in 0..SnMod /\ 1 \in 0..SnMod /\ Window \in Nat /\ Window > 0 /\ SnMod = 2 * Window
    BY SnFacts
  <2>3. Off(vtA, vtA) = 0 /\ Plus(vtA, Window) \in SN
    BY <1>2, <2>2, OffZero, OffPlus
  <2>4. Off(Plus(vtA, Window), vtA) = Window
    BY <1>2, <2>2, <2>3, OffPlus
  <2>5. Off(vtS, vtA) # Window
    BY <1>1, <1>2, <2>3, <2>4, OffInjective DEF WindowOpen, VtMs
  <2>6. Off(vtS, vtA) = Off(vrR, vtA) + Off(vtS, vrR) /\ Off(vrR, vtA) \in Nat /\ Off(vtS, vrR) \in Nat
    <3>1. Off(vtS, vrR) \in Nat
      BY <1>2, OffZero
    <3>2. Off(vtS, vrR) <= Off(vtS, vrR)
      BY <3>1
    <3> QED
      BY <1>2, <3>2, FromVrR DEF ArqInv
  <2>7. Off(vtS, vrR) < Window
    BY <2>1, <2>2, <2>5, <2>6
  <2>8. s \in SN /\ Off(s, vrR) = IF Off(vtS, vrR) + 1 < SnMod THEN Off(vtS, vrR) + 1
                                  ELSE Off(vtS, vrR) + 1 - SnMod
    BY <1>2, <2>2, OffPlus
  <2> QED
    BY <2>2, <2>6, <2>7, <2>8
<1> HIDE DEF s
<1>8. PICK next \in [SN -> Nat] :
        /\ next[s] = a + n
        /\ \A x \in SN : Off(x, vrR) <= Off(vtS, vrR) => next[x] = pos[x]
  <2> DEFINE g == [pos EXCEPT ![s] = a + n]
  <2>1. \A x \in SN : Off(x, vrR) <= Off(vtS, vrR) => x # s
    BY <1>7
  <2>2. a + n \in Nat
    BY <1>4, <1>5
  <2> HIDE DEF a
  <2>3. /\ g \in [SN -> Nat] /\ g[s] = a + n
        /\ \A x \in SN : Off(x, vrR) <= Off(vtS, vrR) => g[x] = pos[x]
    BY <1>7, <2>1, <2>2
  <2> QED
    BY <2>3
<1>9. next[vtS] = a /\ next[vrR] = pos[vrR]
  <2>1. Off(vrR, vrR) = 0
    BY <1>2, OffZero
  <2> QED
    BY <1>2, <1>7, <1>8, <2>1
<1>10. ASSUME NEW sn \in SN, Off(sn, vrR) < Off(s, vrR)
       PROVE  sn = vtS \/ Outstanding(sn)
  <2>1. Off(sn, vrR) \in Nat
    BY <1>2, OffZero
  <2>2. Off(sn, vrR) = Off(vtS, vrR) \/ Off(sn, vrR) < Off(vtS, vrR)
    BY <1>7, <1>10, <2>1
  <2> QED
    BY <1>2, <2>2, OffInjective DEF Outstanding
<1>11. ASSUME NEW sn \in SN, Outstanding(sn)
       PROVE  /\ next[sn] = pos[sn] /\ next[Plus(sn, 1)] = pos[Plus(sn, 1)]
              /\ Piece(next, sn) = Piece(pos, sn) /\ sn # vtS
  <2>1. Off(sn, vrR) \in Nat /\ Off(sn, vrR) < Off(vtS, vrR)
    BY <1>2, <1>11, OffZero DEF Outstanding
  <2>2. 1 \in 0..SnMod /\ Off(vtS, vrR) < SnMod /\ SnMod \in Nat
    BY <1>2, SnFacts, OffZero
  <2>3. Plus(sn, 1) \in SN /\ Off(Plus(sn, 1), vrR) = IF Off(sn, vrR) + 1 < SnMod THEN Off(sn, vrR) + 1
                                                      ELSE Off(sn, vrR) + 1 - SnMod
    BY <1>2, <2>2, OffPlus
  <2>4. Off(Plus(sn, 1), vrR) <= Off(vtS, vrR) /\ Off(sn, vrR) <= Off(vtS, vrR)
    BY <1>7, <2>1, <2>2, <2>3
  <2> QED
    BY <1>8, <2>1, <2>3, <2>4 DEF Piece
<1>12. Piece(next, vtS) = units
  BY <1>6, <1>8, <1>9 DEF Piece, s
<1>13. vtS \notin DOMAIN rxon
  <2>1. /\ \A sn \in DOMAIN rxon : Off(sn, vrR) < Off(vrH, vrR)
        /\ Off(vrH, vrR) <= Off(vtS, vrR)
    BY DEF ArqInv, WindowInv
  <2>2. Off(vrH, vrR) \in Nat
    BY <1>2, OffZero
  <2> QED
    BY <1>7, <2>1, <2>2
<1>14. \A k \in DOMAIN pdus : pdus[k].sn # vtS
  <2>1. Off(vtS, vtS) = 0
    BY <1>2, OffZero
  <2> QED
    BY <2>1 DEF ArqInv, FlightInv
<1>15. ASSUME NEW j \in DOMAIN pdus'
       PROVE  pdus'[j] = m \/ \E k \in DOMAIN pdus : pdus'[j] = pdus[k]
  <2>1. pdus' = Append(pdus, m) /\ pdus \in Seq(DataPdu)
    BY <1>1, <1>2
  <2> QED
    BY <2>1
<1>16. ASSUME NEW sn \in SN, Outstanding(sn)
       PROVE  /\ pos[sn] < pos[Plus(sn, 1)] /\ pos[Plus(sn, 1)] <= a
              /\ sn \in DOMAIN rxon => rxon[sn] = Piece(pos, sn)
              /\ sn \in Held => data[sn] = Piece(pos, sn)
              /\ \A i \in DOMAIN pdus : pdus[i].sn = sn => pdus[i].units = Piece(pos, sn)
  BY <1>16 DEF StreamInv
<1> HIDE DEF units, a, b
<1>17. ASSUME NEW sn \in SN, Outstanding(sn)
       PROVE  /\ next[sn] < next[Plus(sn, 1)] /\ next[Plus(sn, 1)] <= a + n
              /\ sn \in DOMAIN rxon' => rxon'[sn] = Piece(next, sn)
              /\ sn \in Held' => data'[sn] = Piece(next, sn)
              /\ \A i \in DOMAIN pdus' : pdus'[i].sn = sn => pdus'[i].units = Piece(next, sn)
  <2>1. next[sn] < next[Plus(sn, 1)] /\ next[Plus(sn, 1)] <= a + n
    <3>1. Plus(sn, 1) \in SN
      BY PlusFacts
    <3>2. pos[Plus(sn, 1)] \in Nat
      BY <3>1
    <3> QED
      BY <1>4, <1>5, <1>11, <1>16, <1>17, <3>2
  <2>2. sn \in DOMAIN rxon' => rxon'[sn] = Piece(next, sn)
    BY <1>1, <1>11, <1>16, <1>17
  <2>3. sn \in Held' => data'[sn] = Piece(next, sn)
    BY <1>1, <1>2, <1>11, <1>16, <1>17 DEF Held
  <2>4. \A i \in DOMAIN pdus' : pdus'[i].sn = sn => pdus'[i].units = Piece(next, sn)
    BY <1>3, <1>11, <1>15, <1>16, <1>17
  <2> QED
    BY <2>1, <2>2, <2>3, <2>4
<1>18. /\ next[vtS] < next[Plus(vtS, 1)] /\ next[Plus(vtS, 1)] <= a + n
       /\ vtS \in DOMAIN rxon' => rxon'[vtS] = Piece(next, vtS)
       /\ vtS \in Held' => data'[vtS] = Piece(next, vtS)
       /\ \A i \in DOMAIN pdus' : pdus'[i].sn = vtS => pdus'[i].units = Piece(next, vtS)
  <2>1. next[Plus(vtS, 1)] = a + n
    BY <1>8 DEF s
  <2>2. next[vtS] < a + n /\ a + n <= a + n
    BY <1>4, <1>5, <1>9
  <2>3. data'[vtS] = units
    BY <1>1, <1>2
  <2>4. \A i \in DOMAIN pdus' : pdus'[i].sn = vtS => pdus'[i].units = units
    BY <1>3, <1>14, <1>15
  <2> QED
    BY <1>1, <1>12, <1>13, <2>1, <2>2, <2>3, <2>4
<1>19. \A sn \in SN : Outstanding(sn)' =>
         /\ next[sn] < next[Plus(sn, 1)] /\ next[Plus(sn, 1)] <= next[vtS']
         /\ sn \in DOMAIN rxon' => rxon'[sn] = Piece(next, sn)
         /\ sn \in Held' => data'[sn] = Piece(next, sn)
         /\ \A i \in DOMAIN pdus' : pdus'[i].sn = sn => pdus'[i].units = Piece(next, sn)
  <2> SUFFICES ASSUME NEW sn \in SN, Outstanding(sn)'
               PROVE  /\ next[sn] < next[Plus(sn, 1)] /\ next[Plus(sn, 1)] <= next[vtS']
                      /\ sn \in DOMAIN rxon' => rxon'[sn] = Piece(next, sn)
                      /\ sn \in Held' => data'[sn] = Piece(next, sn)
                      /\ \A i \in DOMAIN pdus' : pdus'[i].sn = sn => pdus'[i].units = Piece(next, sn)
    OBVIOUS
  <2>1. Off(sn, vrR) < Off(s, vrR)
    BY <1>1 DEF Outstanding
  <2>2. next[vtS'] = a + n
    BY <1>1, <1>8
  <2>3. CASE sn = vtS
    BY <1>18, <2>2, <2>3
  <2>4. CASE Outstanding(sn)
    BY <1>17, <2>2, <2>4
  <2> QED
    BY <1>10, <2>1, <2>3, <2>4
<1>20. next[vtS'] <= accepted' * SduUnits /\ txon' = Stream(next[vtS'], accepted' * SduUnits)
  BY <1>1, <1>5, <1>6, <1>8 DEF b
<1>21. next[vrR'] <= next[vtS'] /\ AssemblyAt(assembly', vrR', next[vrR'])
  <2>1. pos[vrR] <= a /\ AssemblyAt(assembly, vrR, pos[vrR]) /\ pos[vrR] \in Nat
    BY <1>2 DEF StreamInv, a
  <2>2. pos[vrR] <= a + n
    BY <1>4, <1>5, <2>1
  <2> QED
    BY <1>1, <1>8, <1>9, <2>1, <2>2
<1>22. StreamInv(next)'
  BY <1>19, <1>20, <1>21 DEF StreamInv
<1> QED
  BY <1>8, <1>22

\* What is taken is handed up where it belongs.
LEMMA ReceiveDataStream ==
  ASSUME TypeInv, ArqInv, NEW pos \in [SN -> Nat], StreamInv(pos), NEW i \in DOMAIN pdus,
         ReceiveData(i)
  PROVE  StreamInv(pos)'
<1> DEFINE p == pdus[i]
           r == NextR(p)
           buffer == BufferWith(p)
           d == Off(r, vrR)
<1>1. /\ vtS \in SN /\ vrR \in SN /\ pdus \in Seq(DataPdu) /\ p \in DataPdu
      /\ DOMAIN rxon \in SUBSET SN
  <2>1. vtS \in SN /\ vrR \in SN /\ pdus \in Seq(DataPdu) /\ DOMAIN rxon \in SUBSET SN
    BY Zenon DEF TypeInv, SenderType, ReceiverType, MacType
  <2>2. p \in DataPdu
    BY <2>1
  <2> QED
    BY <2>1, <2>2
<1>2. WindowInv /\ FlightInv
  BY DEF ArqInv
<1>3. /\ pdus' = Arrived(pdus, i)
      /\ UNCHANGED <<txed, retx, data, txon, accepted, vtS>>
  BY ReceiveDataIs DEF txVars
<1>4. Held' = Held
  BY <1>3 DEF Held
<1>5. \A j \in DOMAIN pdus' : \E k \in DOMAIN pdus :
        pdus'[j].sn = pdus[k].sn /\ pdus'[j].units = pdus[k].units
  BY <1>1, <1>3, PdusArrived
<1>6. CASE ~InsideWindow(p.sn, vrR)
  <2>1. UNCHANGED <<rxon, vrR, assembly>>
    BY <1>6, ReceiveDataIs
  <2> QED
    BY <1>3, <1>4, <1>5, <2>1, SameStream
<1>7. CASE InsideWindow(p.sn, vrR)
  <2>1. Off(p.sn, vrR) < Off(vtS, vrR)
    BY <1>2, <1>7, TakenIsSent
  <2>2. /\ rxon' = [sn \in buffer \ Between(vrR, r) |-> Buffered(sn, p)]
        /\ vrR' = r /\ assembly' = HandUp(d, p)
    BY <1>7, ReceiveDataIs
  <2>3. /\ buffer \in SUBSET SN /\ r \in SN
        /\ \A y \in SN : Off(y, vrR) < d => y \in buffer
        /\ d <= Off(NextMs(p), vrR) /\ Off(NextMs(p), vrR) <= Off(NextH(p), vrR)
        /\ Off(NextH(p), vrR) <= Off(vtS, vrR) /\ NextMs(p) \in SN /\ NextH(p) \in SN
    BY <1>1, <1>2, <2>1, TakenFacts
  <2>4. /\ d \in Nat /\ d < SnMod /\ Off(vtS, vrR) \in Nat /\ Off(vtS, vrR) < SnMod
        /\ Off(NextMs(p), vrR) \in Nat /\ Off(NextH(p), vrR) \in Nat
        /\ \A y \in SN : Off(y, vrR) \in Nat
        /\ SnMod \in Nat
    BY <1>1, <2>3, OffZero, SnFacts
  <2>5. d <= Off(vtS, vrR)
    <3> HIDE DEF d
    <3> QED
      BY <2>3, <2>4
  <2>6. ASSUME NEW sn \in SN, Outstanding(sn)
        PROVE  /\ pos[sn] < pos[Plus(sn, 1)] /\ pos[Plus(sn, 1)] <= pos[vtS]
               /\ sn \in DOMAIN rxon => rxon[sn] = Piece(pos, sn)
               /\ sn \in Held => data[sn] = Piece(pos, sn)
               /\ \A j \in DOMAIN pdus : pdus[j].sn = sn => pdus[j].units = Piece(pos, sn)
    BY <2>6 DEF StreamInv
  <2>7. ASSUME NEW sn \in buffer, Outstanding(sn) PROVE Buffered(sn, p) = Piece(pos, sn)
    <3>1. sn \in SN
      BY <2>3
    <3>2. CASE sn \in DOMAIN rxon
      BY <2>6, <2>7, <3>1, <3>2 DEF Buffered
    <3>3. CASE sn \notin DOMAIN rxon
      <4>1. sn = p.sn
        BY <3>3 DEF BufferWith
      <4>2. p.units = Piece(pos, sn)
        BY <2>6, <2>7, <3>1, <4>1
      <4> QED
        BY <3>3, <4>2 DEF Buffered
    <3> QED
      BY <3>2, <3>3
  <2> HIDE DEF p, r, buffer
  <2>8. \A y \in SN : Off(y, r) = IF d <= Off(y, vrR) THEN Off(y, vrR) - d
                                  ELSE Off(y, vrR) - d + SnMod
    BY <1>1, <2>3, OffFrom
  <2>9. ASSUME NEW sn \in SN, Off(sn, r) < Off(vtS, r)
        PROVE  Outstanding(sn)
    <3>1. Off(vtS, r) = Off(vtS, vrR) - d /\ Off(sn, vrR) \in Nat
      BY <1>1, <2>4, <2>5, <2>8
    <3>2. Off(sn, r) = IF d <= Off(sn, vrR) THEN Off(sn, vrR) - d ELSE Off(sn, vrR) - d + SnMod
      BY <2>8
    <3>3. Off(sn, vrR) < Off(vtS, vrR)
      BY <2>4, <2>5, <2>9, <3>1, <3>2
    <3> QED
      BY <3>3 DEF Outstanding
  <2>10. \A sn \in SN : Outstanding(sn)' => Outstanding(sn)
    BY <1>3, <2>2, <2>9 DEF Outstanding
  <2>11. pos[r] <= pos[vtS]
    <3>1. CASE d = Off(vtS, vrR)
      <4>1. r = vtS
        BY <1>1, <2>3, <3>1, OffInjective
      <4>2. pos[vtS] \in Nat
        BY <1>1
      <4> QED
        BY <4>1, <4>2
    <3>2. CASE d # Off(vtS, vrR)
      <4>1. Outstanding(r)
        BY <2>4, <2>5, <3>2 DEF Outstanding
      <4>2. Plus(r, 1) \in SN
        BY <2>3, PlusFacts
      <4>3. pos[r] < pos[Plus(r, 1)] /\ pos[Plus(r, 1)] <= pos[vtS]
        BY <2>3, <2>6, <4>1
      <4>4. pos[r] \in Nat /\ pos[Plus(r, 1)] \in Nat /\ pos[vtS] \in Nat
        BY <1>1, <2>3, <4>2
      <4> QED
        BY <4>3, <4>4
    <3> QED
      BY <3>1, <3>2
  <2>12. AssemblyAt(HandUp(d, p), r, pos[r])
    <3>1. ASSUME NEW k \in 0..d - 1
          PROVE  /\ pos[Plus(vrR, k)] < pos[Plus(Plus(vrR, k), 1)]
                 /\ Buffered(Plus(vrR, k), p) = Piece(pos, Plus(vrR, k))
      <4>1. k \in Nat /\ k < d /\ k < SnMod
        BY <2>4
      <4>2. Plus(vrR, k) \in SN /\ Off(Plus(vrR, k), vrR) = k
        BY <1>1, <4>1, PlusFacts
      <4>3. Plus(vrR, k) \in buffer /\ Outstanding(Plus(vrR, k))
        BY <2>3, <2>4, <2>5, <4>1, <4>2 DEF Outstanding
      <4> QED
        BY <2>6, <2>7, <4>2, <4>3
    <3>2. AssemblyAt(assembly, vrR, pos[vrR])
      BY DEF StreamInv
    <3>3. Plus(vrR, d) = r
      BY <1>1, <2>3, PlusOff
    <3> HIDE DEF d
    <3>4. AssemblyAt(HandUp(d, p), Plus(vrR, d), pos[Plus(vrR, d)])
      BY <1>1, <2>4, <3>1, <3>2, HandUpStream
    <3> QED
      BY <3>3, <3>4
  <2>13. /\ pos[vtS'] <= accepted' * SduUnits /\ txon' = Stream(pos[vtS'], accepted' * SduUnits)
         /\ pos[vrR'] <= pos[vtS'] /\ AssemblyAt(assembly', vrR', pos[vrR'])
    BY <1>3, <2>2, <2>11, <2>12 DEF StreamInv
  <2>14. ASSUME NEW sn \in SN, Outstanding(sn)'
         PROVE  /\ pos[sn] < pos[Plus(sn, 1)] /\ pos[Plus(sn, 1)] <= pos[vtS']
                /\ sn \in DOMAIN rxon' => rxon'[sn] = Piece(pos, sn)
                /\ sn \in Held' => data'[sn] = Piece(pos, sn)
                /\ \A j \in DOMAIN pdus' : pdus'[j].sn = sn => pdus'[j].units = Piece(pos, sn)
    <3>1. Outstanding(sn)
      BY <2>10, <2>14
    <3>2. sn \in DOMAIN rxon' => rxon'[sn] = Piece(pos, sn)
      BY <2>2, <2>7, <3>1
    <3>3. pos[sn] < pos[Plus(sn, 1)] /\ pos[Plus(sn, 1)] <= pos[vtS']
      BY <1>3, <2>6, <3>1
    <3>4. sn \in Held' => data'[sn] = Piece(pos, sn)
      BY <1>3, <1>4, <2>6, <3>1
    <3>5. \A j \in DOMAIN pdus' : pdus'[j].sn = sn => pdus'[j].units = Piece(pos, sn)
      BY <1>5, <2>6, <3>1
    <3> QED
      BY <3>2, <3>3, <3>4, <3>5
  <2> QED
    BY <2>13, <2>14 DEF StreamInv
<1> QED
  BY <1>6, <1>7

\* Some division of the stream into PDUs is the one that was made.
Streamed == \E pos \in [SN -> Nat] : StreamInv(pos)

\* Nothing is accepted at the start.
LEMMA InitStream == Init => Streamed
<1> SUFFICES ASSUME Init PROVE Streamed
  OBVIOUS
<1>1. /\ txon = << >> /\ vtS = 0 /\ vrR = 0 /\ accepted = 0
      /\ assembly = [keep |-> << >>, expected |-> 0, up |-> << >>]
  BY DEF Init
<1> DEFINE pos == [sn \in SN |-> 0]
<1>2. pos \in [SN -> Nat] /\ pos[0] = 0
  BY SnFacts
<1> HIDE DEF pos
<1>3. 0 * SduUnits = 0 /\ SduUnits \in Nat /\ SduUnits > 0
  BY ConstantFacts
<1>4. Stream(0, 0) = << >>
  <2>1. Stream(0, 0) \in Seq(Nat \X Nat) /\ Len(Stream(0, 0)) = 0
    BY StreamIs
  <2> QED
    BY <2>1
<1>5. AssemblyAt(assembly, 0, 0)
  BY <1>1, <1>3, <1>4 DEF AssemblyAt
<1>6. \A sn \in SN : ~Outstanding(sn)
  <2>1. Off(0, 0) = 0 /\ \A sn \in SN : Off(sn, 0) \in Nat
    BY SnFacts, OffZero
  <2> QED
    BY <1>1, <2>1 DEF Outstanding
<1>7. StreamInv(pos)
  BY <1>1, <1>2, <1>3, <1>4, <1>5, <1>6 DEF StreamInv
<1> QED
  BY <1>2, <1>7 DEF Streamed

\* Every step keeps the division.
LEMMA NextStream ==
  ASSUME TypeInv, ArqInv, Streamed, [Next]_vars
  PROVE  Streamed'
<1>1. PICK pos \in [SN -> Nat] : StreamInv(pos)
  BY DEF Streamed
<1>2. ASSUME UNCHANGED <<txon, accepted, vtS, vrR, rxon, assembly, data>>, Held' \subseteq Held,
             \A j \in DOMAIN pdus' : \E k \in DOMAIN pdus : pdus'[j] = pdus[k]
      PROVE  Streamed'
  <2>1. \A sn \in Held' : sn \in Held /\ data'[sn] = data[sn]
    BY <1>2
  <2>2. StreamInv(pos)'
    BY <1>1, <1>2, <2>1, SameStream
  <2> QED
    BY <2>2 DEF Streamed
<1>3. CASE TransmitPdcpPdu
  BY <1>1, <1>3, TransmitPdcpPduStream DEF Streamed
<1>4. CASE Transmit
  <2>1. CASE \E sn \in SN : Retransmit(sn)
    BY <1>1, <2>1, RetransmitStream DEF Streamed
  <2>2. CASE \E n \in 1..PduUnits : TransmitNew(n)
    BY <1>1, <2>2, TransmitNewStream DEF Streamed
  <2> QED
    BY <1>4, <2>1, <2>2 DEF Transmit
<1>5. CASE ExpirePollRetransmitTimer
  <2>1. UNCHANGED <<txon, accepted, vtS, vrR, rxon, assembly, data, pdus>>
    BY <1>5 DEF ExpirePollRetransmitTimer, rxVars, macVars
  <2>2. Held' \subseteq Held
    BY <1>5 DEF ExpirePollRetransmitTimer, Held
  <2> QED
    BY <1>2, <2>1, <2>2
<1>6. CASE \E sn \in SN : DataArrives(sn)
  BY <1>1, <1>6, ReceiveDataStream DEF Streamed, DataArrives
<1>7. CASE StatusArrives
  BY <1>1, <1>7, ReceiveStatusStream DEF Streamed, StatusArrives
<1>8. CASE StatusLeaves
  <2>1. UNCHANGED <<txon, accepted, vtS, vrR, rxon, assembly, data, txed, retx, pdus>>
    BY <1>8 DEF StatusLeaves, TransmitStatus, txVars
  <2> QED
    BY <1>2, <2>1 DEF Held
<1>9. CASE ExpireRbsTimer \/ ExpireStatusProhibitTimer \/ ExpireReorderingTimer \/ LoseStatus
           \/ UNCHANGED vars
  <2>1. UNCHANGED <<txon, accepted, vtS, vrR, rxon, assembly, data, txed, retx, pdus>>
    BY <1>9 DEF ExpireRbsTimer, ExpireStatusProhibitTimer, ExpireReorderingTimer, LoseStatus,
                vars, txVars, rxVars, macVars
  <2> QED
    BY <1>2, <2>1 DEF Held
<1>10. CASE LosePdu
  <2>1. /\ UNCHANGED <<txon, accepted, vtS, vrR, rxon, assembly, data, txed, retx>>
        /\ pdus # << >> /\ pdus' = Tail(pdus) /\ pdus \in Seq(DataPdu)
    BY <1>10 DEF LosePdu, txVars, rxVars, TypeInv, MacType
  <2>2. \A j \in DOMAIN pdus' : j + 1 \in DOMAIN pdus /\ pdus'[j] = pdus[j + 1]
    BY <2>1
  <2> QED
    BY <1>2, <2>1, <2>2 DEF Held
<1> QED
  BY <1>3, <1>4, <1>5, <1>6, <1>7, <1>8, <1>9, <1>10 DEF Next

-----------------------------------------------------------------------------
(* What follows from it.                                                   *)

\* Types and the invariant together, as one formula for the temporal steps.
SafeInv == TypeInv /\ ArqInv /\ Streamed

\* The invariant holds in every state, when STATUS PDUs keep their order.
THEOREM ArqInvariant ==
  ASSUME StatusOvertaking = 0
  PROVE  Spec => []SafeInv
<1>1. Init => SafeInv
  BY InitTypes, InitArq, InitStream DEF SafeInv
<1>2. SafeInv /\ [Next]_vars => SafeInv'
  BY NextTypes, NextArq, NextStream DEF SafeInv
<1> QED
  BY <1>1, <1>2, PTL DEF Spec

\* VT(A) <= VR(R) <= VR(MS) <= VR(H) <= VT(S), all seen from VT(A).
LEMMA SafeWindows == SafeInv => WindowsAgree
<1> SUFFICES ASSUME SafeInv PROVE WindowsAgree
  OBVIOUS
<1>1. TypeInv /\ WindowInv
  BY DEF SafeInv, ArqInv
<1>2. vrR \in SN /\ vrMs \in SN /\ vrH \in SN /\ vtS \in SN
  BY <1>1 DEF TypeInv, SenderType, ReceiverType
<1>3. /\ Off(vrMs, vrR) \in Nat /\ Off(vrH, vrR) \in Nat /\ Off(vtS, vrR) \in Nat
  BY <1>2, OffZero
<1>4. Off(vrMs, vrR) <= Off(vrH, vrR) /\ Off(vrH, vrR) <= Off(vtS, vrR) /\ Off(vtS, vtA) <= Window
  BY <1>1 DEF WindowInv
<1>5. Off(vrMs, vrR) <= Off(vtS, vrR)
  BY <1>3, <1>4
<1>6. /\ Off(vrMs, vtA) = Off(vrR, vtA) + Off(vrMs, vrR)
      /\ Off(vrH, vtA) = Off(vrR, vtA) + Off(vrH, vrR)
      /\ Off(vtS, vtA) = Off(vrR, vtA) + Off(vtS, vrR)
      /\ Off(vrR, vtA) \in Nat
  BY <1>1, <1>2, <1>3, <1>4, <1>5, FromVrR
<1> QED
  BY <1>3, <1>4, <1>6 DEF WindowsAgree

\* The state variables of the two sides stay in order across the wrap of the sequence numbers,
\* whatever is lost and whatever data PDUs overtake one another.
THEOREM WindowsAgreeHolds ==
  ASSUME StatusOvertaking = 0
  PROVE  Spec => []WindowsAgree
<1>1. Spec => []SafeInv
  BY ArqInvariant
<1> QED
  BY <1>1, SafeWindows, PTL

\* What is missing is held, and what a STATUS asks for.
LEMMA SafeHeld == SafeInv => NothingForgotten
<1> SUFFICES ASSUME SafeInv PROVE NothingForgotten
  OBVIOUS
<1>1. vrR \in SN /\ vtS \in SN
  BY DEF SafeInv, TypeInv, SenderType, ReceiverType
<1>2. HeldInv /\ StatusInv
  BY DEF SafeInv, ArqInv
<1>3. Between(vrR, vtS) \ DOMAIN rxon \subseteq txed \cup retx
  BY <1>1, <1>2, BetweenIs DEF HeldInv, Held
<1>4. NackedAreHeld
  BY <1>2 DEF NackedAreHeld, StatusInv, StatusTells, Held
<1> QED
  BY <1>3, <1>4 DEF NothingForgotten

\* The sender can send again all the receiver lacks: the assertion of DoReceivePdu on what a STATUS
\* asks for holds, and no PDU is given up while it is missing.
THEOREM NothingForgottenHolds ==
  ASSUME StatusOvertaking = 0
  PROVE  Spec => []NothingForgotten
<1>1. Spec => []SafeInv
  BY ArqInvariant
<1> QED
  BY <1>1, SafeHeld, PTL

\* What has been handed up and what is kept are the start of the stream.
LEMMA SafeStream ==
  ASSUME SafeInv
  PROVE  \E q \in Nat, e \in Nat :
           /\ q * SduUnits \in Nat /\ q * SduUnits <= e /\ e <= MaxSdus * SduUnits
           /\ assembly.up = Stream(0, q * SduUnits)
           /\ assembly.keep = Stream(q * SduUnits, e)
<1>1. PICK pos \in [SN -> Nat] : StreamInv(pos)
  BY DEF SafeInv, Streamed
<1>2. vrR \in SN /\ vtS \in SN /\ accepted \in Nat /\ accepted <= MaxSdus
  BY ConstantFacts DEF SafeInv, TypeInv, SenderType, ReceiverType
<1> DEFINE e == pos[vrR]
<1>3. PICK q \in Nat : /\ q * SduUnits <= e
                       /\ assembly.up = Stream(0, q * SduUnits)
                       /\ assembly.keep = Stream(q * SduUnits, e)
  BY <1>1 DEF StreamInv, AssemblyAt
<1>4. e \in Nat /\ e <= pos[vtS] /\ pos[vtS] \in Nat /\ pos[vtS] <= accepted * SduUnits
  BY <1>1, <1>2 DEF StreamInv
<1>5. accepted * SduUnits <= MaxSdus * SduUnits /\ accepted * SduUnits \in Nat
      /\ MaxSdus * SduUnits \in Nat
  BY <1>2, ConstantFacts
<1> HIDE DEF e
<1>6. e <= MaxSdus * SduUnits
  BY <1>4, <1>5
<1>7. q * SduUnits \in Nat
  BY ConstantFacts
<1> QED
  BY <1>3, <1>4, <1>6, <1>7

\* So the units handed up are those of the first SDUs, in order.
LEMMA SafeOrder == SafeInv => InOrderOnce
<1> SUFFICES ASSUME SafeInv, NEW k \in DOMAIN assembly.up
             PROVE  assembly.up[k] = UnitAt(k)
  BY DEF InOrderOnce, UnitAt
<1>1. PICK q \in Nat : q * SduUnits \in Nat /\ assembly.up = Stream(0, q * SduUnits)
  BY SafeStream
<1> DEFINE u == q * SduUnits
<1>2. u \in Nat /\ 0 <= u
  BY <1>1
<1> HIDE DEF u
<1>3. /\ Stream(0, u) \in Seq(Nat \X Nat) /\ Len(Stream(0, u)) = u - 0
      /\ \A j \in 1..u - 0 : Stream(0, u)[j] = UnitAt(0 + j)
  BY <1>2, StreamIs
<1>4. assembly.up = Stream(0, u)
  BY <1>1 DEF u
<1>5. k \in 1..u - 0 /\ 0 + k = k
  BY <1>2, <1>3, <1>4
<1> QED
  BY <1>3, <1>4, <1>5

\* ReassembleAndDeliver hands up whole SDUs, in order, none twice and none left out, however PDUs cut
\* them up and whatever is lost on the way.
THEOREM InOrderOnceHolds ==
  ASSUME StatusOvertaking = 0
  PROVE  Spec => []InOrderOnce
<1>1. Spec => []SafeInv
  BY ArqInvariant
<1> QED
  BY <1>1, SafeOrder, PTL

\* Types, of what is handed up too.
LEMMA SafeTypes == SafeInv => TypeOK
<1> SUFFICES ASSUME SafeInv PROVE TypeOK
  OBVIOUS
<1>1. SenderType /\ ReceiverType /\ txed \cap retx = {}
  BY DEF SafeInv, TypeInv, ArqInv, HeldInv
<1>2. assembly.keep \in Seq(Units) /\ assembly.up \in Seq(Units)
  <2>1. PICK q \in Nat, e \in Nat :
          /\ q * SduUnits \in Nat /\ q * SduUnits <= e /\ e <= MaxSdus * SduUnits
          /\ assembly.up = Stream(0, q * SduUnits)
          /\ assembly.keep = Stream(q * SduUnits, e)
    BY SafeStream
  <2> DEFINE u == q * SduUnits
             all == MaxSdus * SduUnits
  <2>2. u \in Nat /\ u <= e /\ e <= all /\ all \in Nat
    BY <2>1, ConstantFacts
  <2>3. assembly.up = Stream(0, u) /\ assembly.keep = Stream(u, e)
    BY <2>1
  <2>4. \A a \in Nat, b \in Nat : a <= b /\ b <= all => Stream(a, b) \in Seq(Units)
    BY StreamUnits
  <2> HIDE DEF u, all
  <2>5. 0 <= u /\ u <= all
    BY <2>2
  <2> QED
    BY <2>2, <2>3, <2>4, <2>5
<1>3. \A sn \in SN : data[sn] \in Seq(Units)
  BY <1>1 DEF SenderType
<1>4. /\ {vtA, vtS, pollSn, vrR, vrMs, vrH, vrX} \subseteq SN
      /\ {pollTimer, justExpired, rbsTimer, reordering, requested, announced, prohibited}
           \subseteq BOOLEAN
  BY <1>1 DEF SenderType, ReceiverType
<1>5. txon \in Seq(Units) /\ txed \subseteq SN /\ retx \subseteq SN /\ DOMAIN rxon \subseteq SN
      /\ accepted \in 0..MaxSdus
  BY <1>1 DEF SenderType, ReceiverType
<1> QED
  BY <1>1, <1>2, <1>3, <1>4, <1>5 DEF TypeOK

\* The types hold, and no PDU waits both for its acknowledgement and for its retransmission.
THEOREM TypesHold ==
  ASSUME StatusOvertaking = 0
  PROVE  Spec => []TypeOK
<1>1. Spec => []SafeInv
  BY ArqInvariant
<1> QED
  BY <1>1, SafeTypes, PTL

================================================================================

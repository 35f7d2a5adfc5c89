------------------------- MODULE NullMessageSyncProofs -------------------------
(***************************************************************************)
(* Theorems about NullMessageSync: with at most one link between two ranks *)
(* the guarantees are kept, no rank learns of its past, and a rank that is *)
(* done has left nothing behind, for every number of ranks and links,      *)
(* every topology, every delay and every tuning.  With a second link this  *)
(* is not so, as the run nullmsg_links shows.                              *)
(***************************************************************************)
EXTENDS NullMessageSync, WellFoundedInduction, TLAPS

-----------------------------------------------------------------------------
(* The topology.                                                           *)

\* At most one link joins two ranks, and no rank is alone.
SimpleTopology ==
  /\ \A k, l \in Link : Ends[k] = Ends[l] => k = l
  /\ \A r \in Rank : Neighbours(r) # {}

\* A set of natural numbers that is not empty has a least element.
LEMMA NatMin ==
  ASSUME NEW T \in SUBSET Nat, T # {}
  PROVE  \E t \in T : \A u \in T : t <= u
<1> DEFINE R == OpToRel(<, Nat)
<1>1. IsWellFoundedOn(R, Nat)
  BY NatLessThanWellFounded
<1>2. \A x, y \in Nat : x < y => <<x, y>> \in R
  BY DEF OpToRel
<1> HIDE DEF R
<1>3. PICK t \in T : \A u \in T : ~(<<u, t>> \in R)
  BY <1>1, WFMin
<1>4. \A u \in T : ~(u < t)
  BY <1>2, <1>3
<1>5. \A u \in T : t <= u
  BY <1>4
<1> QED BY <1>5

\* The one link to a neighbour, and its delays.
LEMMA Topology ==
  ASSUME SimpleTopology, NEW s \in Rank, NEW r \in Neighbours(s)
  PROVE  /\ r \in Rank /\ r # s /\ s \in Neighbours(r)
         /\ <<s, r>> \in Pairs /\ <<r, s>> \in Pairs
         /\ \E l \in Link : /\ Bundle(s, r) = {l} /\ Ends[l] = {s, r}
                            /\ BundleDelay(s, r) = LinkDelay[l]
                            /\ Peer(s, l) = r
         /\ BundleDelay(s, r) \in Nat /\ BundleDelay(s, r) > 0
         /\ NullDelay(s, r) \in Nat /\ NullDelay(s, r) > 0
<1>1. PICK l \in Link : Ends[l] = {s, r}
  BY DEF Neighbours
<1>2. r \in Rank /\ r # s
  BY DEF Neighbours
<1>3. s \in Neighbours(r)
  BY <1>1, <1>2 DEF Neighbours
<1>4. Bundle(s, r) = {l}
  BY <1>1 DEF Bundle, SimpleTopology
<1>5. LinkDelay[l] \in Nat /\ LinkDelay[l] > 0
  BY NullMessageAssumption
<1>6. BundleDelay(s, r) = LinkDelay[l]
  <2>1. { LinkDelay[k] : k \in Bundle(s, r) } = {LinkDelay[l]}
    BY <1>4
  <2>2. \A k \in Bundle(s, r) : LinkDelay[l] <= LinkDelay[k]
    BY <1>4, <1>5
  <2> QED BY <2>1, <2>2 DEF BundleDelay
<1>7. Peer(s, l) = r
  BY <1>1, <1>2 DEF Peer
<1>8. NullDelay(s, r) \in Nat /\ NullDelay(s, r) > 0
  <2>1. Tune \in Nat
    BY NullMessageAssumption
  <2>2. NullDelay(s, r) \in Int
    BY <1>5, <1>6, <2>1 DEF NullDelay
  <2> QED BY <2>2, NullMessageAssumption
<1> QED BY <1>1, <1>2, <1>3, <1>4, <1>5, <1>6, <1>7, <1>8 DEF Pairs

\* The rank at the other end of a link.
LEMMA PeerIs ==
  ASSUME SimpleTopology, NEW s \in Rank, NEW l \in Link, s \in Ends[l]
  PROVE  /\ Peer(s, l) \in Neighbours(s) /\ Bundle(s, Peer(s, l)) = {l}
         /\ BundleDelay(s, Peer(s, l)) = LinkDelay[l]
<1>1. PICK q \in Rank : q # s /\ Ends[l] = {s, q}
  BY NullMessageAssumption
<1>2. Peer(s, l) = q
  BY <1>1 DEF Peer
<1>3. q \in Neighbours(s)
  BY <1>1 DEF Neighbours
<1>4. PICK k \in Link : /\ Bundle(s, q) = {k} /\ Ends[k] = {s, q}
                         /\ BundleDelay(s, q) = LinkDelay[k]
  BY <1>3, Topology
<1>5. k = l
  BY <1>1, <1>4 DEF SimpleTopology
<1> QED BY <1>2, <1>3, <1>4, <1>5

-----------------------------------------------------------------------------
(* One channel: the guarantee g its receiver holds and the messages c      *)
(* under way.                                                              *)

Msg == [rx : Nat, link : Link \cup {0}, guarantee : Nat]

Known(g, c) == {g} \cup { c[i].guarantee : i \in 1..Len(c) }

\* Guarantees do not fall, and packets keep those sent before.
InOrder(g, c) ==
  \A i \in 1..Len(c) :
    /\ g <= c[i].guarantee
    /\ c[i].rx > 0 => g <= c[i].rx
    /\ \A j \in 1..i - 1 : /\ c[j].guarantee <= c[i].guarantee
                           /\ c[i].rx > 0 => c[j].guarantee <= c[i].rx

\* A message that keeps what is known may be sent.
LEMMA AppendKeeps ==
  ASSUME NEW c \in Seq(Msg), NEW g \in Nat, InOrder(g, c), NEW m \in Msg,
         \A k \in Known(g, c) : k <= m.guarantee /\ (m.rx > 0 => k <= m.rx)
  PROVE  /\ Append(c, m) \in Seq(Msg)
         /\ InOrder(g, Append(c, m))
         /\ Known(g, Append(c, m)) \subseteq Known(g, c) \cup {m.guarantee}
<1> DEFINE d == Append(c, m)
<1>1. /\ d \in Seq(Msg) /\ Len(d) = Len(c) + 1 /\ Len(c) \in Nat
      /\ d[Len(c) + 1] = m
      /\ \A i \in 1..Len(c) : d[i] = c[i]
  OBVIOUS
<1> HIDE DEF d
<1>2. ASSUME NEW i \in 1..Len(d)
      PROVE  /\ g <= d[i].guarantee
             /\ d[i].rx > 0 => g <= d[i].rx
             /\ \A j \in 1..i - 1 : /\ d[j].guarantee <= d[i].guarantee
                                    /\ d[i].rx > 0 => d[j].guarantee <= d[i].rx
  <2>1. CASE i \in 1..Len(c)
    BY <1>1, <2>1 DEF InOrder
  <2>2. CASE i = Len(c) + 1
    <3>1. \A j \in 1..i - 1 : j \in 1..Len(c) /\ d[j] = c[j]
      BY <1>1, <2>2
    <3>2. \A j \in 1..i - 1 : d[j].guarantee \in Known(g, c)
      BY <3>1 DEF Known
    <3>3. g \in Known(g, c) /\ d[i] = m
      BY <1>1, <2>2 DEF Known
    <3> QED BY <3>2, <3>3
  <2> QED BY <1>1, <2>1, <2>2
<1>3. InOrder(g, d)
  BY <1>2 DEF InOrder
<1>4. Known(g, d) \subseteq Known(g, c) \cup {m.guarantee}
  BY <1>1 DEF Known
<1> QED BY <1>1, <1>3, <1>4 DEF d

\* The guarantee held, and what is left, after the first n messages.
Held(g, c, n) == IF n = 0 THEN g ELSE c[n].guarantee
Rest(c, n) == SubSeq(c, n + 1, Len(c))

\* Receiving the first messages raises the guarantee and keeps the order.
LEMMA ReceiveKeeps ==
  ASSUME NEW c \in Seq(Msg), NEW g \in Nat, InOrder(g, c), NEW n \in Nat, n <= Len(c)
  PROVE  /\ Rest(c, n) \in Seq(Msg) /\ Held(g, c, n) \in Nat /\ g <= Held(g, c, n)
         /\ InOrder(Held(g, c, n), Rest(c, n))
         /\ Known(Held(g, c, n), Rest(c, n)) \subseteq Known(g, c)
<1>1. PICK h, d : h = Held(g, c, n) /\ d = Rest(c, n)
  OBVIOUS
<1>2. /\ d \in Seq(Msg) /\ Len(d) = Len(c) - n
      /\ \A i \in 1..Len(d) : i + n \in 1..Len(c) /\ d[i] = c[i + n]
  BY <1>1 DEF Rest
<1>3. h = IF n = 0 THEN g ELSE c[n].guarantee
  BY <1>1 DEF Held
<1>4. \A i \in 1..Len(c) : c[i] \in Msg
  OBVIOUS
<1>5. h \in Nat /\ g <= h
  BY <1>4, <1>3 DEF InOrder, Msg
<1>6. ASSUME NEW i \in 1..Len(d)
      PROVE  /\ h <= d[i].guarantee
             /\ d[i].rx > 0 => h <= d[i].rx
             /\ \A j \in 1..i - 1 : /\ d[j].guarantee <= d[i].guarantee
                                    /\ d[i].rx > 0 => d[j].guarantee <= d[i].rx
  <2>1. h <= d[i].guarantee /\ (d[i].rx > 0 => h <= d[i].rx)
    <3>1. CASE n = 0
      BY <1>2, <1>3, <3>1 DEF InOrder
    <3>2. CASE n # 0
      <4>1. n \in 1..(i + n) - 1 /\ i + n \in 1..Len(c)
        BY <1>2, <3>2
      <4> QED BY <1>2, <1>3, <3>2, <4>1 DEF InOrder
    <3> QED BY <3>1, <3>2
  <2>2. ASSUME NEW j \in 1..i - 1
        PROVE  /\ d[j].guarantee <= d[i].guarantee
               /\ d[i].rx > 0 => d[j].guarantee <= d[i].rx
    <3>1. j + n \in 1..(i + n) - 1 /\ d[j] = c[j + n] /\ d[i] = c[i + n]
      BY <1>2
    <3> QED BY <1>2, <3>1 DEF InOrder
  <2> QED BY <2>1, <2>2
<1>7. InOrder(h, d)
  BY <1>6 DEF InOrder
<1>8. Known(h, d) \subseteq Known(g, c)
  BY <1>2, <1>3 DEF Known
<1> QED BY <1>1, <1>2, <1>5, <1>7, <1>8

-----------------------------------------------------------------------------
(* The inductive invariant.                                                *)

Ev == [ts : Nat, kind : Kinds, of : Rank \cup Link \cup {0}]

\* A null event is of a neighbour, a completion of a link of the rank.
EvOf(r) == { e \in Ev : /\ e.kind = "null" => e.of \in Neighbours(r)
                        /\ e.kind = "complete" => e.of \in Link /\ r \in Ends[e.of] }

TypeInv ==
  /\ now \in [Rank -> Nat] /\ safe \in [Rank -> Nat]
  /\ events \in [Rank -> SUBSET Ev] /\ \A r \in Rank : events[r] \subseteq EvOf(r)
  /\ stop \in [Rank -> BOOLEAN] /\ pc \in [Rank -> PCs]
  /\ busy \in [Rank -> SUBSET Link]
  /\ channel \in [Pairs -> Seq(Msg)]
  /\ guarantee \in [Rank -> UNION { [Neighbours(r) -> Nat] : r \in Rank }]
  /\ \A r \in Rank : guarantee[r] \in [Neighbours(r) -> Nat]

IsNull(e, r) == e.kind = "null" /\ e.of = r
IsComplete(e, l) == e.kind = "complete" /\ e.of = l

\* A promise g of s to r concerns what s does from time g less the delay of the
\* link on.  That time has come;
Passed(s, r, g) == g <= now[s] + BundleDelay(s, r)

\* or the device is busy until then, and the next null message comes no earlier;
Pending(s, r, g) ==
  \E l \in Bundle(s, r) \cap busy[s] :
    \A e \in events[s] : IsComplete(e, l) \/ IsNull(e, r) => g <= e.ts + BundleDelay(s, r)

\* or nothing but null messages happens before it.
Quiet(s, r, g) ==
  /\ pc[s] # "handler"
  /\ g <= safe[s] + BundleDelay(s, r)
  /\ \A e \in events[s] : ~IsNull(e, r) => g <= e.ts + BundleDelay(s, r)

Covered(s, r, g) == Passed(s, r, g) \/ Pending(s, r, g) \/ Quiet(s, r, g)

\* The promises of s to r that are known to r or under way.
Promises(s, r) == Known(guarantee[r][s], channel[<<s, r>>])

PairInv(s, r) ==
  /\ InOrder(guarantee[r][s], channel[<<s, r>>])
  /\ \A g \in Promises(s, r) : Covered(s, r, g)

HasNull(E, s, r, t) == \E e \in E : IsNull(e, r) /\ e.ts <= t + NullDelay(s, r)
HasStop(E) == \E e \in E : e.kind = "stop"

OneEach(E) ==
  \A e, f \in E : e.kind = f.kind /\ e.kind \in {"null", "complete"} /\ e.of = f.of => e = f

RankInv(r) ==
  /\ now[r] <= safe[r]
  /\ \A e \in events[r] : now[r] <= e.ts
  /\ \A s \in Neighbours(r) : safe[r] <= guarantee[r][s]
  /\ OneEach(events[r])
  /\ \A e \in events[r] : e.kind = "complete" => e.of \in busy[r]
  /\ pc[r] # "start" => \A s \in Neighbours(r) : HasNull(events[r], r, s, now[r])
  /\ stop[r] \/ HasStop(events[r])
  /\ pc[r] = "start" => /\ now[r] = 0 /\ HasStop(events[r])
                        /\ \A e \in events[r] : e.kind # "null"
                        /\ \A s \in Neighbours(r) :
                             channel[<<r, s>>] = << >> /\ guarantee[s][r] = 0

PromiseInv ==
  /\ TypeInv
  /\ \A r \in Rank : RankInv(r)
  /\ \A s \in Rank : \A r \in Neighbours(s) : PairInv(s, r)

-----------------------------------------------------------------------------
(* Times.                                                                  *)

\* Earliest is the least time of a list that is not empty.
LEMMA EarliestIs ==
  ASSUME NEW E \in SUBSET Ev, E # {}
  PROVE  /\ Earliest(E) \in Nat
         /\ \E e \in E : e.ts = Earliest(E)
         /\ \A e \in E : Earliest(E) <= e.ts
<1> DEFINE T == { e.ts : e \in E }
<1>1. T \in SUBSET Nat /\ T # {}
  BY DEF Ev
<1>2. PICK t \in T : \A u \in T : t <= u
  BY <1>1, NatMin
<1>3. Earliest(E) \in T /\ \A e \in E : Earliest(E) <= e.ts
  BY <1>2 DEF Earliest
<1> QED BY <1>1, <1>3

\* SafeTime is the least of the guarantees.
LEMMA SafeTimeIs ==
  ASSUME NEW N, N # {}, NEW g \in [N -> Nat]
  PROVE  /\ \E s \in N : SafeTime(g) = g[s]
         /\ \A s \in N : SafeTime(g) <= g[s]
<1> DEFINE T == { g[s] : s \in N }
<1>1. T \in SUBSET Nat /\ T # {}
  OBVIOUS
<1>2. PICK t \in T : \A u \in T : t <= u
  BY <1>1, NatMin
<1>3. T = { g[s] : s \in DOMAIN g } /\ \A s \in N : g[s] \in T
  OBVIOUS
<1>4. SafeTime(g) \in T /\ \A s \in N : SafeTime(g) <= g[s]
  BY <1>2, <1>3 DEF SafeTime
<1> QED BY <1>4

\* A guarantee lies between the promises given and what is planned.
LEMMA GuaranteeIs ==
  ASSUME SimpleTopology, TypeInv, NEW s \in Rank, NEW r \in Neighbours(s),
         NEW E \in SUBSET Ev, E # {}
  PROVE  /\ GuaranteeTime(s, r, E) \in Nat
         /\ GuaranteeTime(s, r, E) <= safe[s] + BundleDelay(s, r)
         /\ \A e \in E : GuaranteeTime(s, r, E) <= e.ts + BundleDelay(s, r)
         /\ \A g \in Nat : /\ g <= safe[s] + BundleDelay(s, r)
                           /\ \A e \in E : g <= e.ts + BundleDelay(s, r)
                           => g <= GuaranteeTime(s, r, E)
<1> DEFINE D == BundleDelay(s, r)
           m == Earliest(E)
<1>1. D \in Nat /\ safe[s] \in Nat /\ \A e \in E : e.ts \in Nat
  BY Topology DEF TypeInv, Ev
<1>2. m \in Nat /\ (\E e \in E : e.ts = m) /\ \A e \in E : m <= e.ts
  BY EarliestIs
<1>3. GuaranteeTime(s, r, E) = (IF m <= safe[s] THEN m ELSE safe[s]) + D
  BY DEF GuaranteeTime, Lesser
<1> HIDE DEF D, m
<1> QED BY <1>1, <1>2, <1>3 DEF D

\* What the types say of the state of one rank and of one pair.
LEMMA RankTypes ==
  ASSUME TypeInv, NEW s \in Rank
  PROVE  /\ now[s] \in Nat /\ safe[s] \in Nat /\ events[s] \in SUBSET Ev
         /\ events[s] \subseteq EvOf(s)
         /\ \A e \in events[s] : e.ts \in Nat
         /\ busy[s] \in SUBSET Link /\ pc[s] \in PCs /\ stop[s] \in BOOLEAN
BY DEF TypeInv, Ev

\* What they say of one pair.
LEMMA PairTypes ==
  ASSUME SimpleTopology, TypeInv, NEW s \in Rank, NEW r \in Neighbours(s)
  PROVE  /\ channel[<<s, r>>] \in Seq(Msg) /\ guarantee[r][s] \in Nat
         /\ Promises(s, r) \subseteq Nat
<1>1. r \in Rank /\ s \in Neighbours(r) /\ <<s, r>> \in Pairs
  BY Topology
<1>2. channel[<<s, r>>] \in Seq(Msg) /\ guarantee[r][s] \in Nat
  BY <1>1 DEF TypeInv
<1>3. \A i \in 1..Len(channel[<<s, r>>]) : channel[<<s, r>>][i] \in Msg
  BY <1>2
<1> QED BY <1>2, <1>3 DEF Promises, Known, Msg

-----------------------------------------------------------------------------
(* Executing an event.                                                     *)

\* What is executed is the earliest event, and safe.
LEMMA ProcessIs ==
  ASSUME TypeInv, NEW s \in Rank, NEW e \in events[s], Process(s, e)
  PROVE  /\ ~stop[s] /\ e.ts <= safe[s] /\ \A f \in events[s] : e.ts <= f.ts
         /\ now' = [now EXCEPT ![s] = e.ts] /\ now'[s] = e.ts /\ e.ts \in Nat
         /\ UNCHANGED <<safe, guarantee>>
<1>1. events[s] \in SUBSET Ev /\ e.ts \in Nat
  BY RankTypes
<1>2. \A f \in events[s] : e.ts <= f.ts
  BY <1>1, EarliestIs DEF Process
<1> QED BY <1>1, <1>2 DEF Process, IsFinished, TypeInv

\* A promise when an event is executed: its time has come, or the device stays
\* busy, or a null message is sent to that neighbour with nothing due before.
LEMMA ProcessCovers ==
  ASSUME SimpleTopology, PromiseInv, NEW s \in Rank, NEW r \in Neighbours(s),
         NEW e \in events[s], Process(s, e), pc[s] # "handler", NEW g \in Promises(s, r)
  PROVE  \/ g <= e.ts + BundleDelay(s, r)
         \/ /\ Pending(s, r, g)
            /\ \A l \in Bundle(s, r) : ~IsComplete(e, l)
            /\ ~IsNull(e, r)
         \/ IsNull(e, r) /\ Quiet(s, r, g)
<1>1. Covered(s, r, g) /\ g \in Nat
  BY PairTypes DEF PromiseInv, PairInv
<1>2. /\ BundleDelay(s, r) \in Nat /\ now[s] \in Nat /\ e.ts \in Nat
      /\ now[s] <= e.ts /\ e.ts <= safe[s]
  BY Topology, RankTypes, ProcessIs DEF PromiseInv, RankInv
<1>3. CASE Passed(s, r, g)
  BY <1>1, <1>2, <1>3 DEF Passed
<1>4. CASE Pending(s, r, g)
  <2>1. PICK l \in Link : /\ Bundle(s, r) = {l} /\ Ends[l] = {s, r}
                           /\ BundleDelay(s, r) = LinkDelay[l]
                           /\ Peer(s, l) = r
    BY Topology
  <2>2. IsComplete(e, l) \/ IsNull(e, r) => g <= e.ts + BundleDelay(s, r)
    BY <1>4, <2>1 DEF Pending
  <2> QED BY <1>4, <2>1, <2>2
<1>5. CASE Quiet(s, r, g)
  BY <1>5 DEF Quiet
<1> QED BY <1>1, <1>3, <1>4, <1>5 DEF Covered

-----------------------------------------------------------------------------
(* Steps of one rank.                                                      *)

\* A step of rank s that receives nothing keeps the invariant when it keeps
\* what concerns s and the promises of s.
LEMMA Frame ==
  ASSUME SimpleTopology, PromiseInv, NEW s \in Rank,
         NEW t \in Nat, now' = [now EXCEPT ![s] = t],
         NEW F \in SUBSET EvOf(s), events' = [events EXCEPT ![s] = F],
         NEW b \in BOOLEAN, stop' = [stop EXCEPT ![s] = b],
         NEW B \in SUBSET Link, busy' = [busy EXCEPT ![s] = B],
         NEW p \in PCs, pc' = [pc EXCEPT ![s] = p],
         UNCHANGED <<safe, guarantee>>,
         channel' \in [Pairs -> Seq(Msg)],
         \A x \in Pairs : x[1] # s => channel'[x] = channel[x],
         RankInv(s)', \A r \in Neighbours(s) : PairInv(s, r)'
  PROVE  PromiseInv'
<1> USE DEF PromiseInv
<1>1. TypeInv'
  <2>1. F \in SUBSET Ev
    BY DEF EvOf
  <2> QED BY <2>1 DEF TypeInv
<1>2. \A q \in Rank \ {s} : /\ now'[q] = now[q] /\ events'[q] = events[q]
                             /\ stop'[q] = stop[q] /\ busy'[q] = busy[q] /\ pc'[q] = pc[q]
  BY DEF TypeInv
<1>3. ASSUME NEW q \in Rank \ {s}, NEW r \in Neighbours(q)
      PROVE  channel'[<<q, r>>] = channel[<<q, r>>]
  BY Topology
<1>4. ASSUME NEW q \in Rank \ {s} PROVE RankInv(q)'
  BY <1>2, <1>3 DEF RankInv, HasNull, HasStop
<1>5. ASSUME NEW q \in Rank \ {s}, NEW r \in Neighbours(q) PROVE PairInv(q, r)'
  <2>1. /\ InOrder(guarantee[r][q], channel[<<q, r>>])'
        /\ Promises(q, r)' = Promises(q, r)
    BY <1>3 DEF PairInv, Promises
  <2>2. ASSUME NEW g \in Promises(q, r) PROVE Covered(q, r, g)'
    <3>1. Covered(q, r, g)
      BY DEF PairInv
    <3> QED BY <1>2, <3>1 DEF Covered, Passed, Pending, Quiet
  <2> QED BY <2>1, <2>2 DEF PairInv
<1> QED BY <1>1, <1>4, <1>5

\* What is left when an event has been taken from the list.
LEMMA RemoveEvent ==
  ASSUME SimpleTopology, PromiseInv, NEW s \in Rank, pc[s] # "start",
         NEW e \in events[s], Process(s, e), NEW E, E = events[s] \ {e}
  PROVE  /\ E \in SUBSET EvOf(s)
         /\ \A f \in E : e.ts <= f.ts
         /\ \A q \in Neighbours(s) : ~IsNull(e, q) => HasNull(E, s, q, e.ts)
         /\ e.kind # "stop" => HasStop(E)
         /\ OneEach(E) /\ \A f \in E : f.kind = "complete" => f.of \in busy[s]
<1>1. /\ events[s] \in SUBSET EvOf(s) /\ \A f \in events[s] : e.ts <= f.ts
      /\ e.ts \in Nat /\ now[s] \in Nat /\ now[s] <= e.ts /\ ~stop[s]
      /\ \A f \in events[s] : f.ts \in Nat
  BY RankTypes, ProcessIs DEF PromiseInv, RankInv
<1>2. ASSUME NEW q \in Neighbours(s), ~IsNull(e, q) PROVE HasNull(E, s, q, e.ts)
  <2>1. PICK f \in events[s] : IsNull(f, q) /\ f.ts <= now[s] + NullDelay(s, q)
    BY DEF PromiseInv, RankInv, HasNull
  <2>2. f \in E
    BY <1>2, <2>1
  <2>3. NullDelay(s, q) \in Nat
    BY Topology
  <2> QED BY <1>1, <2>1, <2>2, <2>3 DEF HasNull
<1>3. e.kind # "stop" => HasStop(E)
  BY <1>1 DEF PromiseInv, RankInv, HasStop
<1>4. OneEach(E) /\ \A f \in E : f.kind = "complete" => f.of \in busy[s]
  BY DEF PromiseInv, RankInv, OneEach
<1> QED BY <1>1, <1>2, <1>3, <1>4

\* An event that neither sends nor ends a transmission.
LEMMA ConsumeKeeps ==
  ASSUME SimpleTopology, PromiseInv, NEW s \in Rank, pc[s] = "loop",
         NEW e \in events[s], Process(s, e), e.kind \notin {"null", "complete"},
         NEW p \in {"poll", "handler"}, pc' = [pc EXCEPT ![s] = p],
         events' = [events EXCEPT ![s] = @ \ {e}],
         NEW b \in BOOLEAN, stop' = [stop EXCEPT ![s] = b], e.kind = "stop" => b,
         UNCHANGED <<busy, channel>>
  PROVE  PromiseInv'
<1> DEFINE E == events[s] \ {e}
<1>1. /\ E \in SUBSET EvOf(s)
      /\ \A f \in E : e.ts <= f.ts
      /\ \A q \in Neighbours(s) : HasNull(E, s, q, e.ts)
      /\ e.kind # "stop" => HasStop(E)
      /\ OneEach(E) /\ \A f \in E : f.kind = "complete" => f.of \in busy[s]
  BY RemoveEvent DEF IsNull
<1>2. /\ now' = [now EXCEPT ![s] = e.ts] /\ now'[s] = e.ts /\ e.ts \in Nat
      /\ e.ts <= safe[s] /\ UNCHANGED <<safe, guarantee>>
  BY ProcessIs DEF PromiseInv
<1>3. events'[s] = E /\ pc'[s] = p /\ stop'[s] = b /\ busy' = [busy EXCEPT ![s] = busy[s]]
  BY DEF PromiseInv, TypeInv
<1>4. RankInv(s)'
  BY <1>1, <1>2, <1>3 DEF RankInv, PromiseInv, HasStop, HasNull
<1>5. ASSUME NEW r \in Neighbours(s) PROVE PairInv(s, r)'
  <2>1. InOrder(guarantee[r][s], channel[<<s, r>>])' /\ Promises(s, r)' = Promises(s, r)
    BY <1>2 DEF PromiseInv, PairInv, Promises
  <2>2. ASSUME NEW g \in Promises(s, r) PROVE Covered(s, r, g)'
    <3>1. \/ g <= e.ts + BundleDelay(s, r)
          \/ Pending(s, r, g)
      BY ProcessCovers DEF IsNull
    <3> QED BY <1>2, <1>3, <3>1 DEF Covered, Passed, Pending
  <2> QED BY <2>1, <2>2 DEF PairInv
<1>6. channel' \in [Pairs -> Seq(Msg)] /\ busy[s] \in SUBSET Link /\ p \in PCs
  BY DEF PromiseInv, TypeInv, PCs
<1> QED BY <1>1, <1>2, <1>3, <1>4, <1>5, <1>6, Frame

-----------------------------------------------------------------------------
(* Transmitting.                                                           *)

\* Rank s may start a transmission on its idle link l at time t, its event list
\* being E: the times of all its promises to the receiver have come.
CanStart(s, l, t, E) ==
  /\ t <= safe[s]
  /\ \A e \in E : t <= e.ts
  /\ \A q \in Neighbours(s) : HasNull(E, s, q, t)
  /\ OneEach(E) /\ \A e \in E : ~IsComplete(e, l)
  /\ \A g \in Promises(s, Peer(s, l)) : g <= t + LinkDelay[l]

\* What the transmission does: the event list becomes F, message m is sent.  It
\* keeps every promise given to its receiver, and the one it makes is Pending:
\* the new completion and the new null event come no earlier.
Started(s, l, t, E, F, m) ==
  /\ events' = [events EXCEPT ![s] = F]
  /\ channel' = [channel EXCEPT ![<<s, Peer(s, l)>>] = Append(@, m)]
  /\ \A k \in Promises(s, Peer(s, l)) : k <= m.guarantee /\ (m.rx > 0 => k <= m.rx)
  /\ \A f \in F : t <= f.ts
  /\ \A f \in F : IsComplete(f, l) \/ IsNull(f, Peer(s, l)) => m.guarantee <= f.ts + LinkDelay[l]
  /\ \A q \in Neighbours(s) : HasNull(F, s, q, t)
  /\ OneEach(F)
  /\ HasStop(E) => HasStop(F)
  /\ \A f \in F, k \in Link \ {l} : IsComplete(f, k) => f \in E
  /\ \A f \in F, q \in Neighbours(s) \ {Peer(s, l)} : IsNull(f, q) => f \in E

\* TransmitStart does that.
LEMMA TransmitStartIs ==
  ASSUME SimpleTopology, PromiseInv, NEW s \in Rank, NEW l \in Link, s \in Ends[l],
         NEW tx \in TxTimes, NEW t \in Nat, NEW E \in SUBSET EvOf(s), CanStart(s, l, t, E),
         TransmitStart(s, l, tx, t, E)
  PROVE  \E F \in SUBSET EvOf(s), m \in Msg : Started(s, l, t, E, F, m)
<1> DEFINE r == Peer(s, l)
           D == LinkDelay[l]
           c == Event(t + tx + Gap, "complete", l)
           z == Event(t + NullDelay(s, r), "null", r)
           E1 == E \cup {c}
           void(e) == [e EXCEPT !.kind = "void"]
           E2 == { IF e.kind = "null" /\ e.of = r THEN void(e) ELSE e : e \in E1 }
           F == E2 \cup {z}
           G == GuaranteeTime(s, r, E1)
           m == [rx |-> t + tx + D, link |-> l, guarantee |-> G]
<1>1. r \in Neighbours(s) /\ BundleDelay(s, r) = D /\ r \in Rank
  BY PeerIs, Topology
<1>2. /\ tx \in Nat /\ tx > 0 /\ Gap \in Nat /\ D \in Nat /\ D > 0
      /\ NullDelay(s, r) \in Nat
  <2>1. tx \in Nat /\ tx > 0 /\ Gap \in Nat
    BY NullMessageAssumption
  <2>2. LinkDelay[l] \in Nat /\ LinkDelay[l] > 0
    BY NullMessageAssumption
  <2>3. NullDelay(s, r) \in Nat
    BY <1>1, Topology
  <2> QED BY <2>1, <2>2, <2>3
<1>3. events' = [events EXCEPT ![s] = F] /\ channel' = [channel EXCEPT ![<<s, r>>] = Append(@, m)]
  BY DEF TransmitStart, WithNullEvent, NullCancelled
<1>4. c \in EvOf(s) /\ z \in EvOf(s) /\ t <= c.ts /\ t <= z.ts
  <2>1. c.kind \in Kinds /\ z.kind \in Kinds
    BY DEF Event, Kinds
  <2> QED BY <1>1, <1>2, <2>1 DEF EvOf, Ev, Event
<1>5. E1 \in SUBSET Ev /\ E1 # {} /\ \A e \in E1 : t <= e.ts /\ e.ts \in Nat /\ e \in EvOf(s)
  BY <1>4 DEF EvOf, Ev, CanStart
<1>6. /\ G \in Nat /\ \A e \in E1 : G <= e.ts + D
      /\ \A g \in Nat : /\ g <= safe[s] + D
                        /\ \A e \in E1 : g <= e.ts + D
                        => g <= G
  BY <1>1, <1>5, GuaranteeIs DEF PromiseInv
<1>7. m \in Msg
  BY <1>2, <1>6 DEF Msg
<1>8. ASSUME NEW k \in Promises(s, r) PROVE k <= m.guarantee /\ (m.rx > 0 => k <= m.rx)
  <2>1. k \in Nat /\ k <= t + D /\ safe[s] \in Nat
    BY <1>1, PairTypes, RankTypes DEF PromiseInv, CanStart
  <2>2. k <= safe[s] + D /\ \A e \in E1 : k <= e.ts + D
    BY <1>2, <1>5, <2>1 DEF CanStart
  <2>3. k <= G
    BY <1>6, <2>1, <2>2
  <2>4. k <= t + tx + D
    BY <1>2, <2>1
  <2> QED BY <2>3, <2>4
<1>9. ASSUME NEW e \in E1
      PROVE  /\ void(e) \in EvOf(s) /\ void(e).ts = e.ts /\ void(e).kind = "void"
  BY <1>5 DEF EvOf, Ev, Kinds
<1>10. ASSUME NEW f \in F
       PROVE  \/ f = z
              \/ f \in E1 /\ ~IsNull(f, r)
              \/ f.kind = "void" /\ f \in EvOf(s) /\ t <= f.ts
  BY <1>5, <1>9 DEF IsNull
<1>11. F \in SUBSET EvOf(s) /\ \A f \in F : t <= f.ts
  BY <1>4, <1>5, <1>10
<1>12. PICK e0 \in E : IsNull(e0, r) /\ e0.ts <= t + NullDelay(s, r)
  BY <1>1 DEF HasNull, CanStart
<1>13. G <= z.ts + D
  <2>1. G <= e0.ts + D /\ e0.ts \in Nat
    BY <1>5, <1>6, <1>12
  <2> QED BY <1>2, <1>6, <1>12, <2>1 DEF Event
<1>14. \A f \in F : IsComplete(f, l) \/ IsNull(f, r) => G <= f.ts + D
  BY <1>6, <1>10, <1>13 DEF IsComplete, IsNull
<1>15. \A e \in E : ~IsNull(e, r) => e \in F
  BY DEF IsNull
<1>16. ASSUME NEW q \in Neighbours(s) PROVE HasNull(F, s, q, t)
  <2>1. CASE q = r
    <3>1. z \in F /\ IsNull(z, r) /\ z.ts = t + NullDelay(s, r)
      BY DEF IsNull, Event
    <3>2. z.ts <= t + NullDelay(s, r)
      BY <1>2, <3>1
    <3> HIDE DEF z, F
    <3> QED BY <2>1, <3>1, <3>2 DEF HasNull
  <2>2. CASE q # r
    <3>1. PICK e \in E : IsNull(e, q) /\ e.ts <= t + NullDelay(s, q)
      BY DEF HasNull, CanStart
    <3> QED BY <1>15, <2>2, <3>1 DEF HasNull, IsNull
  <2> QED BY <2>1, <2>2
<1>17. HasStop(E) => HasStop(F)
  BY <1>15 DEF HasStop, IsNull
<1>18. \A f \in F, k \in Link \ {l} : IsComplete(f, k) => f \in E
  BY <1>10 DEF IsComplete, Event
<1>19. \A f \in F, q \in Neighbours(s) \ {r} : IsNull(f, q) => f \in E
  BY <1>10 DEF IsNull, Event
<1>20. OneEach(F)
  <2>1. \A f \in F : /\ f.kind = "complete" => f \in E \/ f = c
                     /\ f.kind = "null" => f = z \/ (f \in E /\ f.of # r)
    BY <1>10 DEF Event, IsNull
  <2>2. c.kind = "complete" /\ c.of = l /\ z.kind = "null" /\ z.of = r
    BY DEF Event
  <2> HIDE DEF F, c, z
  <2> QED BY <2>1, <2>2 DEF OneEach, IsComplete, CanStart
<1> HIDE DEF F, m, G
<1>21. m.guarantee = G
  BY DEF m
<1> QED BY <1>3, <1>7, <1>8, <1>11, <1>14, <1>16, <1>17, <1>18, <1>19, <1>20, <1>21 DEF Started

\* The promises of s to its neighbours but q are kept at time t, with events E.
OthersKept(s, q, t, E) ==
  \A r \in Neighbours(s) \ {q} : \A g \in Promises(s, r) :
    \/ g <= t + BundleDelay(s, r)
    \/ \E k \in Bundle(s, r) \cap busy[s] : \A e \in E :
         IsComplete(e, k) \/ IsNull(e, r) => g <= e.ts + BundleDelay(s, r)

\* A transmission that starts keeps the invariant.
LEMMA TransmitKeeps ==
  ASSUME SimpleTopology, PromiseInv, NEW s \in Rank, pc[s] # "start",
         NEW l \in Link, s \in Ends[l],
         NEW tx \in TxTimes, NEW t \in Nat, NEW E \in SUBSET EvOf(s), CanStart(s, l, t, E),
         stop[s] \/ HasStop(E), \A e \in E : e.kind = "complete" => e.of \in busy[s],
         OthersKept(s, Peer(s, l), t, E),
         TransmitStart(s, l, tx, t, E),
         now' = [now EXCEPT ![s] = t],
         NEW B \in SUBSET Link, busy' = [busy EXCEPT ![s] = B], B = busy[s] \cup {l},
         NEW p \in {"poll", "handler"}, pc' = [pc EXCEPT ![s] = p],
         UNCHANGED <<stop, safe, guarantee>>
  PROVE  PromiseInv'
<1> DEFINE q == Peer(s, l)
<1>1. PICK F \in SUBSET EvOf(s), m \in Msg : Started(s, l, t, E, F, m)
  BY TransmitStartIs
<1>2. /\ events' = [events EXCEPT ![s] = F]
      /\ channel' = [channel EXCEPT ![<<s, q>>] = Append(@, m)]
      /\ \A k \in Promises(s, q) : k <= m.guarantee /\ (m.rx > 0 => k <= m.rx)
      /\ \A f \in F : IsComplete(f, l) \/ IsNull(f, q) => m.guarantee <= f.ts + LinkDelay[l]
      /\ \A f \in F, k \in Link \ {l} : IsComplete(f, k) => f \in E
      /\ \A f \in F, r \in Neighbours(s) \ {q} : IsNull(f, r) => f \in E
  BY <1>1 DEF Started
<1>3. q \in Neighbours(s) /\ Bundle(s, q) = {l} /\ BundleDelay(s, q) = LinkDelay[l] /\ q \in Rank
  BY PeerIs, Topology
<1>4. /\ now'[s] = t /\ events'[s] = F /\ busy'[s] = busy[s] \cup {l} /\ pc'[s] = p
      /\ stop'[s] = stop[s] /\ safe'[s] = safe[s] /\ stop' = [stop EXCEPT ![s] = stop[s]]
  BY <1>2 DEF PromiseInv, TypeInv
<1>5. /\ channel \in [Pairs -> Seq(Msg)] /\ <<s, q>> \in Pairs
      /\ channel'[<<s, q>>] = Append(channel[<<s, q>>], m)
      /\ \A x \in Pairs : x # <<s, q>> => channel'[x] = channel[x]
      /\ channel' \in [Pairs -> Seq(Msg)]
  <2>1. channel \in [Pairs -> Seq(Msg)] /\ <<s, q>> \in Pairs
    BY <1>3, Topology DEF PromiseInv, TypeInv
  <2>2. Append(channel[<<s, q>>], m) \in Seq(Msg)
    BY <2>1
  <2> HIDE DEF q
  <2> QED BY <1>2, <2>1, <2>2
<1>6. RankInv(s)'
  <2>1. \A r \in Neighbours(s) : safe[s] <= guarantee[s][r]
    BY DEF PromiseInv, RankInv
  <2>2. \A f \in F : f.kind = "complete" => f.of \in busy[s] \cup {l}
    <3>1. \A f \in F : f.kind = "complete" => f.of \in Link
      BY DEF EvOf
    <3> QED BY <1>2, <3>1 DEF IsComplete
  <2> QED BY <1>1, <1>4, <2>1, <2>2 DEF RankInv, Started, CanStart
<1>7. ASSUME NEW r \in Neighbours(s) PROVE PairInv(s, r)'
  <2>1. CASE r = q
    <3> DEFINE c == channel[<<s, q>>]
               h == guarantee[q][s]
    <3>1. /\ InOrder(h, c) /\ c \in Seq(Msg) /\ h \in Nat /\ Promises(s, q) = Known(h, c)
          /\ Promises(s, q) \subseteq Nat
      BY <1>3, PairTypes DEF PromiseInv, PairInv, Promises
    <3>2. /\ InOrder(h, Append(c, m))
          /\ Known(h, Append(c, m)) \subseteq Known(h, c) \cup {m.guarantee}
      BY <1>2, <3>1, AppendKeeps
    <3>3. /\ InOrder(guarantee[q][s], channel[<<s, q>>])'
          /\ Promises(s, q)' = Known(h, Append(c, m))
      BY <1>5, <3>2 DEF Promises
    <3>4. ASSUME NEW g \in Promises(s, q) PROVE Covered(s, q, g)'
      BY <1>3, <1>4 DEF Covered, Passed, CanStart
    <3>5. Covered(s, q, m.guarantee)'
      BY <1>2, <1>3, <1>4 DEF Covered, Pending
    <3>6. \A g \in Promises(s, q)' : g \in Promises(s, q) \/ g = m.guarantee
      BY <3>1, <3>2, <3>3
    <3> HIDE DEF c, h, q
    <3>7. ASSUME NEW g \in Promises(s, q)' PROVE Covered(s, q, g)'
      BY <3>4, <3>5, <3>6
    <3>8. PairInv(s, q)'
      BY <3>3, <3>7 DEF PairInv
    <3> QED BY <2>1, <3>8
  <2>2. CASE r # q
    <3>1. /\ InOrder(guarantee[r][s], channel[<<s, r>>])' /\ Promises(s, r)' = Promises(s, r)
      BY <1>5, <2>2, Topology DEF PromiseInv, PairInv, Promises
    <3>2. ASSUME NEW g \in Promises(s, r) PROVE Covered(s, r, g)'
      <4>1. CASE g <= t + BundleDelay(s, r)
        BY <1>4, <4>1 DEF Covered, Passed
      <4>2. CASE \E k \in Bundle(s, r) \cap busy[s] : \A e \in E :
                   IsComplete(e, k) \/ IsNull(e, r) => g <= e.ts + BundleDelay(s, r)
        <5>1. PICK k \in Bundle(s, r) \cap busy[s] : \A e \in E :
                   IsComplete(e, k) \/ IsNull(e, r) => g <= e.ts + BundleDelay(s, r)
          BY <4>2
        <5>2. k \in Link \ {l}
          <6>1. k \in Link /\ Ends[k] = {s, r}
            BY <5>1 DEF Bundle
          <6>2. l \in Link /\ Ends[l] = {s, q}
            BY <1>3 DEF Bundle
          <6>3. r # s /\ q # s
            BY <1>3, Topology
          <6> QED BY <2>2, <6>1, <6>2, <6>3
        <5>3. \A f \in F : IsComplete(f, k) \/ IsNull(f, r) => f \in E
          BY <1>2, <2>2, <5>2
        <5> QED BY <1>4, <5>1, <5>3 DEF Covered, Pending
      <4> QED BY <2>2, <4>1, <4>2 DEF OthersKept
    <3> QED BY <3>1, <3>2 DEF PairInv
  <2> QED BY <2>1, <2>2
<1>8. /\ stop[s] \in BOOLEAN /\ p \in PCs
      /\ \A x \in Pairs : x[1] # s => channel'[x] = channel[x]
  BY <1>5 DEF PromiseInv, TypeInv, PCs
<1> QED BY <1>2, <1>4, <1>5, <1>6, <1>7, <1>8, Frame

-----------------------------------------------------------------------------
(* The actions.                                                            *)

\* A cancelled null event, and the stop event, keep the invariant.
LEMMA PlainKeeps ==
  ASSUME SimpleTopology, PromiseInv, NEW s \in Rank, NEW e \in events[s], PlainEvent(s, e)
  PROVE  PromiseInv'
<1>1. /\ pc[s] = "loop" /\ pc' = [pc EXCEPT ![s] = "poll"] /\ Process(s, e)
      /\ e.kind \in {"void", "stop"} /\ events' = [events EXCEPT ![s] = @ \ {e}]
      /\ stop' = [stop EXCEPT ![s] = stop[s] \/ e.kind = "stop"]
      /\ UNCHANGED <<busy, channel>>
  BY DEF PlainEvent, Goto, devVars
<1>2. (stop[s] \/ e.kind = "stop") \in BOOLEAN
  OBVIOUS
<1> QED BY <1>1, <1>2, ConsumeKeeps

\* So does the event of an application.
LEMMA ApplicationKeeps ==
  ASSUME SimpleTopology, PromiseInv, NEW s \in Rank, NEW e \in events[s], ApplicationEvent(s, e)
  PROVE  PromiseInv'
<1>1. /\ pc[s] = "loop" /\ pc' = [pc EXCEPT ![s] = "handler"] /\ Process(s, e)
      /\ e.kind \in {"app", "rx"} /\ events' = [events EXCEPT ![s] = @ \ {e}]
      /\ stop' = stop /\ UNCHANGED <<busy, channel>>
  BY DEF ApplicationEvent, Goto, devVars
<1>2. stop' = [stop EXCEPT ![s] = stop[s]] /\ stop[s] \in BOOLEAN
  BY <1>1 DEF PromiseInv, TypeInv
<1> QED BY <1>1, <1>2, ConsumeKeeps

\* The end of a transmission: the device is ready or transmits its next packet.
LEMMA CompleteKeeps ==
  ASSUME SimpleTopology, PromiseInv, NEW s \in Rank, NEW e \in events[s], TransmitComplete(s, e)
  PROVE  PromiseInv'
<1> DEFINE l == e.of
           E == events[s] \ {e}
<1>1. /\ pc[s] = "loop" /\ pc' = [pc EXCEPT ![s] = "poll"] /\ Process(s, e)
      /\ e.kind = "complete" /\ stop' = stop
  BY DEF TransmitComplete, Goto
<1>2. /\ now' = [now EXCEPT ![s] = e.ts] /\ now'[s] = e.ts /\ e.ts \in Nat
      /\ e.ts <= safe[s] /\ UNCHANGED <<safe, guarantee>>
  BY <1>1, ProcessIs DEF PromiseInv
<1>3. l \in Link /\ s \in Ends[l] /\ busy[s] \in SUBSET Link /\ IsComplete(e, l)
  BY <1>1, RankTypes DEF PromiseInv, EvOf, IsComplete
<1>4. /\ E \in SUBSET EvOf(s)
      /\ \A f \in E : e.ts <= f.ts
      /\ \A q \in Neighbours(s) : HasNull(E, s, q, e.ts)
      /\ OneEach(E) /\ HasStop(E)
      /\ \A f \in E : f.kind = "complete" => f.of \in busy[s]
  BY <1>1, RemoveEvent DEF IsNull
<1>5. \A f \in E : ~IsComplete(f, l)
  BY <1>3 DEF PromiseInv, RankInv, OneEach, IsComplete
<1>6. ASSUME NEW r \in Neighbours(s), NEW g \in Promises(s, r)
      PROVE  \/ g <= e.ts + BundleDelay(s, r)
             \/ \E k \in Bundle(s, r) \cap (busy[s] \ {l}) : \A f \in E :
                  IsComplete(f, k) \/ IsNull(f, r) => g <= f.ts + BundleDelay(s, r)
  <2>1. \/ g <= e.ts + BundleDelay(s, r)
        \/ Pending(s, r, g) /\ \A k \in Bundle(s, r) : ~IsComplete(e, k)
    BY <1>1, ProcessCovers DEF IsNull
  <2>2. CASE Pending(s, r, g) /\ \A k \in Bundle(s, r) : ~IsComplete(e, k)
    <3>1. PICK k \in Bundle(s, r) \cap busy[s] : \A f \in events[s] :
            IsComplete(f, k) \/ IsNull(f, r) => g <= f.ts + BundleDelay(s, r)
      BY <2>2 DEF Pending
    <3>2. k # l
      BY <1>3, <2>2, <3>1
    <3> QED BY <3>1, <3>2
  <2> QED BY <2>1, <2>2
<1>7. \A g \in Promises(s, Peer(s, l)) : g <= e.ts + LinkDelay[l]
  <2>1. /\ Peer(s, l) \in Neighbours(s) /\ Bundle(s, Peer(s, l)) = {l}
        /\ BundleDelay(s, Peer(s, l)) = LinkDelay[l]
    BY <1>3, PeerIs
  <2> QED BY <1>6, <2>1
<1>8. CASE queued[s][l] = 0
  <2>1. /\ busy' = [busy EXCEPT ![s] = @ \ {l}] /\ events' = [events EXCEPT ![s] = E]
        /\ UNCHANGED channel
    BY <1>8 DEF TransmitComplete
  <2>2. /\ events'[s] = E /\ pc'[s] = "poll" /\ stop' = [stop EXCEPT ![s] = stop[s]]
        /\ busy'[s] = busy[s] \ {l} /\ stop[s] \in BOOLEAN
    BY <1>1, <2>1 DEF PromiseInv, TypeInv
  <2>3. RankInv(s)'
    BY <1>1, <1>2, <1>4, <1>5, <2>1, <2>2 DEF RankInv, PromiseInv, IsComplete
  <2>4. ASSUME NEW r \in Neighbours(s) PROVE PairInv(s, r)'
    <3>1. InOrder(guarantee[r][s], channel[<<s, r>>])' /\ Promises(s, r)' = Promises(s, r)
      BY <1>2, <2>1 DEF PromiseInv, PairInv, Promises
    <3>2. ASSUME NEW g \in Promises(s, r) PROVE Covered(s, r, g)'
      BY <1>2, <1>6, <2>2 DEF Covered, Passed, Pending
    <3> QED BY <3>1, <3>2 DEF PairInv
  <2>5. channel' \in [Pairs -> Seq(Msg)] /\ "poll" \in PCs /\ busy[s] \ {l} \in SUBSET Link
    BY <1>3, <2>1 DEF PromiseInv, TypeInv, PCs
  <2> QED BY <1>1, <1>2, <1>4, <2>1, <2>2, <2>3, <2>4, <2>5, Frame
<1>9. CASE queued[s][l] # 0
  <2>1. PICK tx \in TxTimes : TransmitStart(s, l, tx, e.ts, E)
    BY <1>9 DEF TransmitComplete
  <2>2. UNCHANGED busy
    BY <1>9 DEF TransmitComplete
  <2>3. l \in busy[s]
    BY <1>1 DEF PromiseInv, RankInv
  <2>4. /\ busy' = [busy EXCEPT ![s] = busy[s]] /\ busy[s] = busy[s] \cup {l}
    BY <2>2, <2>3 DEF PromiseInv, TypeInv
  <2>5. CanStart(s, l, e.ts, E)
    BY <1>2, <1>4, <1>5, <1>7 DEF CanStart
  <2>6. OthersKept(s, Peer(s, l), e.ts, E)
    BY <1>6 DEF OthersKept
  <2> HIDE DEF E, l
  <2> QED BY <1>1, <1>2, <1>3, <1>4, <2>1, <2>4, <2>5, <2>6, TransmitKeeps
<1> QED BY <1>8, <1>9

\* A null message: its guarantee is the farthest that is safe, and nothing but
\* null events is due before.
LEMMA NullKeeps ==
  ASSUME SimpleTopology, PromiseInv, NEW s \in Rank, NEW e \in events[s], NullMessageEvent(s, e)
  PROVE  PromiseInv'
<1> DEFINE q == e.of
           E == events[s] \ {e}
           z == Event(e.ts + NullDelay(s, q), "null", q)
           F == E \cup {z}
           G == GuaranteeTime(s, q, E)
           m == NullMessage(G)
<1>1. /\ pc[s] = "loop" /\ pc' = [pc EXCEPT ![s] = "poll"] /\ Process(s, e)
      /\ e.kind = "null" /\ events' = [events EXCEPT ![s] = F]
      /\ channel' = [channel EXCEPT ![<<s, q>>] = Append(@, m)]
      /\ stop' = stop /\ busy' = busy
  BY DEF NullMessageEvent, Goto, WithNullEvent, devVars
<1>2. /\ now' = [now EXCEPT ![s] = e.ts] /\ now'[s] = e.ts /\ e.ts \in Nat
      /\ e.ts <= safe[s] /\ safe[s] \in Nat /\ UNCHANGED <<safe, guarantee>>
  BY <1>1, ProcessIs, RankTypes DEF PromiseInv
<1>3. /\ q \in Neighbours(s) /\ q \in Rank /\ IsNull(e, q)
      /\ BundleDelay(s, q) \in Nat /\ NullDelay(s, q) \in Nat
  <2>1. q \in Neighbours(s)
    BY <1>1, RankTypes DEF PromiseInv, EvOf
  <2> HIDE DEF q
  <2>2. /\ q \in Rank /\ BundleDelay(s, q) \in Nat /\ NullDelay(s, q) \in Nat
    BY <2>1, Topology
  <2>3. IsNull(e, q)
    BY <1>1 DEF IsNull, q
  <2> QED BY <2>1, <2>2, <2>3
<1>4. /\ E \in SUBSET EvOf(s)
      /\ \A f \in E : e.ts <= f.ts
      /\ \A r \in Neighbours(s) \ {q} : HasNull(E, s, r, e.ts)
      /\ OneEach(E) /\ HasStop(E)
      /\ \A f \in E : f.kind = "complete" => f.of \in busy[s]
  BY <1>1, RemoveEvent DEF IsNull
<1>5. E # {} /\ E \in SUBSET Ev
  BY <1>4 DEF HasStop, EvOf
<1>6. /\ G \in Nat /\ G <= safe[s] + BundleDelay(s, q)
      /\ \A f \in E : G <= f.ts + BundleDelay(s, q)
      /\ \A g \in Nat : /\ g <= safe[s] + BundleDelay(s, q)
                        /\ \A f \in E : g <= f.ts + BundleDelay(s, q)
                        => g <= G
  BY <1>3, <1>5, GuaranteeIs DEF PromiseInv
<1>7. m \in Msg /\ m.guarantee = G /\ m.rx = 0
  BY <1>6 DEF NullMessage, Msg
<1>8. \A f \in E : ~IsNull(f, q)
  BY <1>3 DEF PromiseInv, RankInv, OneEach, IsNull
<1>9. /\ z \in EvOf(s) /\ IsNull(z, q) /\ z.ts = e.ts + NullDelay(s, q) /\ e.ts <= z.ts
  <2>1. z.kind \in Kinds
    BY DEF Event, Kinds
  <2> QED BY <1>2, <1>3, <2>1 DEF Event, EvOf, Ev, IsNull
<1>10. /\ events'[s] = F /\ pc'[s] = "poll" /\ busy'[s] = busy[s] /\ stop'[s] = stop[s]
       /\ stop' = [stop EXCEPT ![s] = stop[s]] /\ busy' = [busy EXCEPT ![s] = busy[s]]
       /\ stop[s] \in BOOLEAN /\ busy[s] \in SUBSET Link /\ F \in SUBSET EvOf(s)
  BY <1>1, <1>4, <1>9 DEF PromiseInv, TypeInv
<1>11. /\ channel \in [Pairs -> Seq(Msg)] /\ <<s, q>> \in Pairs
       /\ channel'[<<s, q>>] = Append(channel[<<s, q>>], m)
       /\ \A x \in Pairs : x # <<s, q>> => channel'[x] = channel[x]
       /\ channel' \in [Pairs -> Seq(Msg)]
  <2>1. channel \in [Pairs -> Seq(Msg)] /\ <<s, q>> \in Pairs
    BY <1>3, Topology DEF PromiseInv, TypeInv
  <2>2. Append(channel[<<s, q>>], m) \in Seq(Msg)
    BY <1>7, <2>1
  <2> HIDE DEF q, m
  <2> QED BY <1>1, <2>1, <2>2
<1> HIDE DEF z, G, m
<1>12. RankInv(s)'
  <2>1. HasNull(F, s, q, e.ts)
    BY <1>2, <1>3, <1>9 DEF HasNull
  <2>2. \A r \in Neighbours(s) : HasNull(F, s, r, e.ts)
    BY <1>4, <2>1 DEF HasNull
  <2>3. OneEach(F) /\ HasStop(F) /\ \A f \in F : f.kind = "complete" => f.of \in busy[s]
    BY <1>4, <1>8, <1>9 DEF OneEach, HasStop, IsNull
  <2>4. \A f \in F : e.ts <= f.ts
    BY <1>4, <1>9
  <2> HIDE DEF F
  <2> QED BY <1>2, <1>10, <2>2, <2>3, <2>4 DEF PromiseInv, RankInv
<1>13. ASSUME NEW g \in Promises(s, q) PROVE g <= G
  <2>1. g \in Nat
    BY <1>3, PairTypes DEF PromiseInv
  <2>2. g <= e.ts + BundleDelay(s, q) \/ Quiet(s, q, g)
    BY <1>1, <1>3, ProcessCovers
  <2>3. g <= safe[s] + BundleDelay(s, q)
    BY <1>2, <1>3, <2>1, <2>2 DEF Quiet
  <2>4. ASSUME NEW f \in E PROVE g <= f.ts + BundleDelay(s, q)
    <3>1. f.ts \in Nat /\ e.ts <= f.ts
      BY <1>4, <1>5 DEF Ev
    <3> QED BY <1>2, <1>3, <1>8, <2>1, <2>2, <3>1 DEF Quiet
  <2> QED BY <1>6, <2>1, <2>3, <2>4
<1>14. ASSUME NEW g \in Nat, g <= G PROVE Quiet(s, q, g)'
  <2>1. g <= safe[s] + BundleDelay(s, q)
    BY <1>2, <1>3, <1>6, <1>14
  <2>2. ASSUME NEW f \in F, ~IsNull(f, q) PROVE g <= f.ts + BundleDelay(s, q)
    <3>1. f \in E /\ f.ts \in Nat
      BY <1>5, <1>9, <2>2 DEF Ev
    <3> QED BY <1>3, <1>6, <1>14, <3>1
  <2> QED BY <1>2, <1>10, <2>1, <2>2 DEF Quiet
<1>15. ASSUME NEW r \in Neighbours(s) PROVE PairInv(s, r)'
  <2>1. CASE r = q
    <3> DEFINE c == channel[<<s, q>>]
               h == guarantee[q][s]
    <3>1. /\ InOrder(h, c) /\ c \in Seq(Msg) /\ h \in Nat /\ Promises(s, q) = Known(h, c)
          /\ Promises(s, q) \subseteq Nat
      BY <1>3, PairTypes DEF PromiseInv, PairInv, Promises
    <3>2. /\ InOrder(h, Append(c, m))
          /\ Known(h, Append(c, m)) \subseteq Known(h, c) \cup {m.guarantee}
      BY <1>7, <1>13, <3>1, AppendKeeps
    <3>3. /\ InOrder(guarantee[q][s], channel[<<s, q>>])'
          /\ Promises(s, q)' = Known(h, Append(c, m))
      BY <1>2, <1>11, <3>2 DEF Promises
    <3>4. ASSUME NEW g \in Promises(s, q) \cup {G} PROVE Covered(s, q, g)'
      BY <1>6, <1>13, <1>14, <3>1 DEF Covered
    <3>5. \A g \in Promises(s, q)' : g \in Promises(s, q) \cup {G}
      BY <1>7, <3>1, <3>2, <3>3
    <3> HIDE DEF c, h, q
    <3>6. PairInv(s, q)'
      BY <3>3, <3>4, <3>5 DEF PairInv
    <3> QED BY <2>1, <3>6
  <2>2. CASE r # q
    <3>1. /\ InOrder(guarantee[r][s], channel[<<s, r>>])' /\ Promises(s, r)' = Promises(s, r)
      BY <1>2, <1>11, <2>2, Topology DEF PromiseInv, PairInv, Promises
    <3>2. ASSUME NEW g \in Promises(s, r) PROVE Covered(s, r, g)'
      <4>1. g <= e.ts + BundleDelay(s, r) \/ Pending(s, r, g)
        BY <1>1, <1>3, <2>2, ProcessCovers DEF IsNull
      <4>2. \A f \in F : (\E k : IsComplete(f, k)) \/ IsNull(f, r) => f \in E
        BY <1>9, <2>2 DEF IsNull, IsComplete
      <4> HIDE DEF F
      <4>3. Pending(s, r, g) => Pending(s, r, g)'
        BY <1>10, <4>2 DEF Pending
      <4> QED BY <1>2, <4>1, <4>3 DEF Covered, Passed
    <3> QED BY <3>1, <3>2 DEF PairInv
  <2> QED BY <2>1, <2>2
<1>16. "poll" \in PCs /\ \A x \in Pairs : x[1] # s => channel'[x] = channel[x]
  BY <1>11 DEF PCs
<1> HIDE DEF F
<1> QED BY <1>1, <1>2, <1>10, <1>11, <1>12, <1>15, <1>16, Frame

\* A packet that a handler sends: the device was idle, so that all promises to
\* the receiver have passed, or the packet is queued.
LEMMA SendKeeps ==
  ASSUME SimpleTopology, PromiseInv, NEW s \in Rank, NEW l \in Link, Send(s, l)
  PROVE  PromiseInv'
<1>1. pc[s] = "handler" /\ s \in Ends[l] /\ UNCHANGED <<now, stop, safe, guarantee, pc>>
  BY DEF Send
<1>2. CASE l \in busy[s]
  <2>1. UNCHANGED <<busy, events, channel>>
    BY <1>2 DEF Send
  <2> QED BY <1>1, <2>1 DEF PromiseInv, TypeInv, RankInv, PairInv, Promises, Covered,
                            Passed, Pending, Quiet, HasNull, HasStop
<1>3. CASE l \notin busy[s]
  <2>1. PICK tx \in TxTimes : TransmitStart(s, l, tx, now[s], events[s])
    BY <1>3 DEF Send
  <2>2. /\ busy' = [busy EXCEPT ![s] = busy[s] \cup {l}] /\ busy[s] \cup {l} \in SUBSET Link
        /\ now' = [now EXCEPT ![s] = now[s]] /\ pc' = [pc EXCEPT ![s] = "handler"]
    BY <1>1, <1>3, RankTypes DEF Send, PromiseInv, TypeInv
  <2>3. /\ now[s] \in Nat /\ events[s] \in SUBSET EvOf(s) /\ now[s] <= safe[s]
        /\ \A e \in events[s] : now[s] <= e.ts
        /\ \A q \in Neighbours(s) : HasNull(events[s], s, q, now[s])
        /\ OneEach(events[s]) /\ (stop[s] \/ HasStop(events[s]))
        /\ \A e \in events[s] : e.kind = "complete" => e.of \in busy[s]
    BY <1>1, RankTypes DEF PromiseInv, RankInv
  <2>4. ASSUME NEW r \in Neighbours(s), NEW g \in Promises(s, r)
        PROVE  Passed(s, r, g) \/ Pending(s, r, g)
    BY <1>1 DEF PromiseInv, PairInv, Covered, Quiet
  <2>5. CanStart(s, l, now[s], events[s])
    <3>1. /\ Peer(s, l) \in Neighbours(s) /\ Bundle(s, Peer(s, l)) = {l}
          /\ BundleDelay(s, Peer(s, l)) = LinkDelay[l]
      BY <1>1, PeerIs
    <3>2. \A g \in Promises(s, Peer(s, l)) : g <= now[s] + LinkDelay[l]
      BY <1>3, <2>4, <3>1 DEF Passed, Pending
    <3>3. \A e \in events[s] : ~IsComplete(e, l)
      BY <1>3, <2>3 DEF IsComplete
    <3> QED BY <2>3, <3>2, <3>3 DEF CanStart
  <2>6. OthersKept(s, Peer(s, l), now[s], events[s])
    BY <2>4 DEF OthersKept, Passed, Pending
  <2> QED BY <1>1, <2>1, <2>2, <2>3, <2>5, <2>6, TransmitKeeps
<1> QED BY <1>2, <1>3

\* A handler may change the list at will, but for null events, completions and
\* the stop event, as long as nothing is put into the past.
LEMMA ListKeeps ==
  ASSUME SimpleTopology, PromiseInv, NEW s \in Rank, pc[s] = "handler",
         NEW F \in SUBSET EvOf(s), events' = [events EXCEPT ![s] = F],
         UNCHANGED <<now, stop, safe, guarantee, busy, channel, pc>>,
         \A f \in F : now[s] <= f.ts,
         \A f : f.kind \in {"null", "complete", "stop"} => (f \in F <=> f \in events[s])
  PROVE  PromiseInv'
<1>1. now[s] \in Nat /\ events[s] \in SUBSET EvOf(s)
  BY RankTypes DEF PromiseInv
<1>2. /\ now' = [now EXCEPT ![s] = now[s]] /\ stop' = [stop EXCEPT ![s] = stop[s]]
      /\ busy' = [busy EXCEPT ![s] = busy[s]] /\ pc' = [pc EXCEPT ![s] = pc[s]]
      /\ stop[s] \in BOOLEAN /\ busy[s] \in SUBSET Link /\ pc[s] \in PCs
      /\ channel' \in [Pairs -> Seq(Msg)] /\ events'[s] = F
  BY <1>1 DEF PromiseInv, TypeInv
<1>3. RankInv(s)'
  <2>1. \A q \in Neighbours(s) : HasNull(F, s, q, now[s])
    BY DEF PromiseInv, RankInv, HasNull, IsNull
  <2>2. OneEach(F)
    BY DEF PromiseInv, RankInv, OneEach
  <2>3. HasStop(events[s]) => HasStop(F)
    BY DEF HasStop
  <2>4. \A f \in F : now[s] <= f.ts /\ (f.kind = "complete" => f.of \in busy[s])
    BY DEF PromiseInv, RankInv
  <2> QED BY <1>2, <2>1, <2>2, <2>3, <2>4 DEF PromiseInv, RankInv
<1>4. ASSUME NEW r \in Neighbours(s) PROVE PairInv(s, r)'
  <2>1. InOrder(guarantee[r][s], channel[<<s, r>>])' /\ Promises(s, r)' = Promises(s, r)
    BY DEF PromiseInv, PairInv, Promises
  <2>2. ASSUME NEW g \in Promises(s, r) PROVE Covered(s, r, g)'
    <3>1. Passed(s, r, g) \/ Pending(s, r, g)
      BY DEF PromiseInv, PairInv, Covered, Quiet
    <3>2. \A f \in F : (\E k : IsComplete(f, k)) \/ IsNull(f, r) => f \in events[s]
      BY DEF IsNull, IsComplete
    <3> QED BY <1>2, <3>1, <3>2 DEF Covered, Passed, Pending
  <2> QED BY <2>1, <2>2 DEF PairInv
<1> QED BY <1>1, <1>2, <1>3, <1>4, Frame

\* An event that a handler schedules.
LEMMA ScheduleKeeps ==
  ASSUME SimpleTopology, PromiseInv, NEW s \in Rank, NEW d \in AppDelays, Schedule(s, d)
  PROVE  PromiseInv'
<1> DEFINE z == Event(now[s] + d, "app", 0)
           F == events[s] \cup {z}
<1>1. /\ pc[s] = "handler" /\ events' = [events EXCEPT ![s] = F]
      /\ UNCHANGED <<now, stop, safe, guarantee, busy, channel, pc>>
  BY DEF Schedule, devVars
<1>2. now[s] \in Nat /\ d \in Nat /\ events[s] \in SUBSET EvOf(s)
  BY RankTypes, NullMessageAssumption DEF PromiseInv
<1>3. z \in EvOf(s) /\ now[s] <= z.ts /\ z.kind = "app"
  <2>1. z.kind \in Kinds
    BY DEF Event, Kinds
  <2> QED BY <1>2, <2>1 DEF Event, EvOf, Ev
<1> HIDE DEF z
<1>4. /\ F \in SUBSET EvOf(s) /\ \A f \in F : now[s] <= f.ts
      /\ \A f : f.kind \in {"null", "complete", "stop"} => (f \in F <=> f \in events[s])
  BY <1>2, <1>3 DEF PromiseInv, RankInv
<1> HIDE DEF F
<1> QED BY <1>1, <1>4, ListKeeps

\* An event that a handler cancels or removes.
LEMMA RevokeKeeps ==
  ASSUME SimpleTopology, PromiseInv, NEW s \in Rank, NEW e \in events[s],
         Cancel(s, e) \/ Remove(s, e)
  PROVE  PromiseInv'
<1> DEFINE z == [e EXCEPT !.kind = "void"]
           E == events[s] \ {e}
<1>1. /\ pc[s] = "handler" /\ e.kind = "app"
      /\ \/ events' = [events EXCEPT ![s] = E \cup {z}]
         \/ events' = [events EXCEPT ![s] = E]
      /\ UNCHANGED <<now, stop, safe, guarantee, busy, channel, pc>>
  BY DEF Cancel, Remove, devVars
<1>2. events[s] \in SUBSET EvOf(s) /\ now[s] <= e.ts
  BY RankTypes DEF PromiseInv, RankInv
<1>3. z \in EvOf(s) /\ now[s] <= z.ts /\ z.kind = "void"
  <2>1. "void" \in Kinds
    BY DEF Kinds
  <2>2. e \in Ev
    BY <1>2 DEF EvOf
  <2>3. z \in Ev /\ z.kind = "void" /\ z.ts = e.ts
    BY <2>1, <2>2 DEF Ev
  <2> HIDE DEF z
  <2> QED BY <1>2, <2>3 DEF EvOf
<1> HIDE DEF z
<1>4. ASSUME NEW F \in {E, E \cup {z}}
      PROVE  /\ F \in SUBSET EvOf(s) /\ \A f \in F : now[s] <= f.ts
             /\ \A f : f.kind \in {"null", "complete", "stop"} => (f \in F <=> f \in events[s])
  BY <1>1, <1>2, <1>3 DEF PromiseInv, RankInv
<1> HIDE DEF E
<1> QED BY <1>1, <1>4, ListKeeps

\* The end of a handler, and of Run.
LEMMA ReturnKeeps ==
  ASSUME SimpleTopology, PromiseInv, NEW s \in Rank, HandlerReturns(s) \/ RunReturns(s)
  PROVE  PromiseInv'
<1>1. PICK p \in {"poll", "done"} : pc' = [pc EXCEPT ![s] = p]
  BY DEF HandlerReturns, RunReturns, Goto
<1>2. pc[s] # "start" /\ UNCHANGED <<now, events, stop, safe, guarantee, busy, channel>>
  BY DEF HandlerReturns, RunReturns, Goto, simVars, devVars
<1>3. \A q \in Rank : /\ pc'[q] \in {"handler", "start"} => pc'[q] = pc[q]
                      /\ pc'[q] # "start" => pc[q] # "start"
  BY <1>1, <1>2 DEF PromiseInv, TypeInv
<1>4. TypeInv'
  BY <1>1, <1>2 DEF PromiseInv, TypeInv, PCs
<1>5. ASSUME NEW q \in Rank PROVE RankInv(q)'
  BY <1>2, <1>3 DEF PromiseInv, RankInv, HasNull, HasStop, OneEach
<1>6. ASSUME NEW q \in Rank, NEW r \in Neighbours(q) PROVE PairInv(q, r)'
  BY <1>2, <1>3 DEF PromiseInv, PairInv, Promises, Covered, Passed, Pending, Quiet
<1> QED BY <1>4, <1>5, <1>6 DEF PromiseInv

\* The first null messages.
LEMMA StartKeeps ==
  ASSUME SimpleTopology, PromiseInv, NEW s \in Rank, Start(s)
  PROVE  PromiseInv'
<1> DEFINE z(r) == Event(NullDelay(s, r), "null", r)
           F == events[s] \cup { z(r) : r \in Neighbours(s) }
           m(r) == NullMessage(BundleDelay(s, r))
<1>1. /\ pc[s] = "start" /\ pc' = [pc EXCEPT ![s] = "loop"]
      /\ events' = [events EXCEPT ![s] = F] /\ stop' = [stop EXCEPT ![s] = FALSE]
      /\ channel' = [p \in DOMAIN channel |->
                       IF p[1] = s THEN Append(channel[p], m(p[2])) ELSE channel[p]]
      /\ UNCHANGED <<now, safe, guarantee, busy>>
  BY DEF Start, Goto, devVars
<1>2. ASSUME NEW r \in Neighbours(s)
      PROVE  /\ BundleDelay(s, r) \in Nat /\ <<s, r>> \in Pairs /\ r \in Rank /\ r # s
             /\ z(r) \in EvOf(s) /\ IsNull(z(r), r) /\ z(r).ts = NullDelay(s, r)
             /\ NullDelay(s, r) \in Nat
             /\ m(r) \in Msg /\ m(r).rx = 0 /\ m(r).guarantee = BundleDelay(s, r)
  <2>1. /\ BundleDelay(s, r) \in Nat /\ NullDelay(s, r) \in Nat /\ r \in Rank /\ r # s
        /\ <<s, r>> \in Pairs
    BY Topology
  <2>2. z(r).kind \in Kinds
    BY DEF Event, Kinds
  <2> QED BY <2>1, <2>2 DEF Event, EvOf, Ev, IsNull, NullMessage, Msg
<1>3. /\ now[s] = 0 /\ HasStop(events[s]) /\ \A e \in events[s] : e.kind # "null" /\ now[s] <= e.ts
      /\ \A r \in Neighbours(s) : channel[<<s, r>>] = << >> /\ guarantee[r][s] = 0
      /\ events[s] \in SUBSET EvOf(s)
  BY <1>1, RankTypes DEF PromiseInv, RankInv
<1>4. /\ now' = [now EXCEPT ![s] = now[s]] /\ busy' = [busy EXCEPT ![s] = busy[s]]
      /\ busy[s] \in SUBSET Link /\ now[s] \in Nat /\ "loop" \in PCs
      /\ events'[s] = F /\ pc'[s] = "loop" /\ stop'[s] = FALSE
  BY <1>1 DEF PromiseInv, TypeInv, PCs
<1>5. F \in SUBSET EvOf(s)
  BY <1>2, <1>3
<1>6. /\ channel' \in [Pairs -> Seq(Msg)]
      /\ \A x \in Pairs : x[1] # s => channel'[x] = channel[x]
      /\ \A r \in Neighbours(s) : channel'[<<s, r>>] = << m(r) >>
  <2>1. channel \in [Pairs -> Seq(Msg)] /\ DOMAIN channel = Pairs
    BY DEF PromiseInv, TypeInv
  <2>2. \A x \in Pairs : x[1] = s => x[2] \in Neighbours(s)
    BY DEF Pairs
  <2>3. ASSUME NEW x \in Pairs
        PROVE  (IF x[1] = s THEN Append(channel[x], m(x[2])) ELSE channel[x]) \in Seq(Msg)
    <3>1. channel[x] \in Seq(Msg) /\ (x[1] = s => m(x[2]) \in Msg)
      BY <1>2, <2>1, <2>2
    <3> HIDE DEF m
    <3> QED BY <3>1
  <2>4. \A r \in Neighbours(s) : channel'[<<s, r>>] = Append(channel[<<s, r>>], m(r))
    BY <1>1, <1>2, <2>1
  <2>5. \A r \in Neighbours(s) : channel'[<<s, r>>] = << m(r) >>
    BY <1>3, <2>4
  <2> HIDE DEF m
  <2> QED BY <1>1, <2>1, <2>3, <2>5
<1>7. RankInv(s)'
  <2>1. ASSUME NEW r \in Neighbours(s) PROVE HasNull(F, s, r, now[s])
    <3>1. z(r) \in F
      OBVIOUS
    <3>2. IsNull(z(r), r) /\ z(r).ts = NullDelay(s, r) /\ NullDelay(s, r) \in Nat
      BY <1>2
    <3> HIDE DEF F, z
    <3> QED BY <1>3, <3>1, <3>2 DEF HasNull
  <2>2. \A f \in F : \/ f \in events[s]
                    \/ \E r \in Neighbours(s) : f = z(r)
    OBVIOUS
  <2>3. ASSUME NEW r \in Neighbours(s)
        PROVE  z(r).kind = "null" /\ z(r).of = r /\ now[s] <= z(r).ts
    <3>1. IsNull(z(r), r) /\ z(r).ts = NullDelay(s, r) /\ NullDelay(s, r) \in Nat
      BY <1>2
    <3> HIDE DEF z
    <3> QED BY <1>3, <3>1 DEF IsNull
  <2>4. HasStop(F)
    BY <1>3 DEF HasStop
  <2> HIDE DEF F, z
  <2>5. OneEach(F)
    BY <1>3, <2>2, <2>3 DEF OneEach, PromiseInv, RankInv
  <2>6. \A f \in F : now[s] <= f.ts /\ (f.kind = "complete" => f.of \in busy[s])
    BY <1>3, <2>2, <2>3 DEF PromiseInv, RankInv
  <2> QED BY <1>1, <1>4, <2>1, <2>4, <2>5, <2>6 DEF PromiseInv, RankInv
<1>8. ASSUME NEW r \in Neighbours(s) PROVE PairInv(s, r)'
  <2>1. guarantee'[r][s] = 0
    BY <1>1, <1>3
  <2>2. Len(<< m(r) >>) = 1 /\ << m(r) >>[1] = m(r) /\ guarantee'[r][s] = 0 /\ 1..1 = {1}
    BY <2>1
  <2>3. InOrder(guarantee[r][s], channel[<<s, r>>])'
    BY <1>2, <1>6, <2>2 DEF InOrder
  <2>4. Promises(s, r)' = {0, BundleDelay(s, r)}
    BY <1>2, <1>6, <2>2 DEF Promises, Known
  <2>5. ASSUME NEW g \in {0, BundleDelay(s, r)} PROVE Passed(s, r, g)'
    <3>1. now'[s] = 0 /\ BundleDelay(s, r) \in Nat
      BY <1>1, <1>2, <1>3
    <3> QED BY <3>1 DEF Passed
  <2> QED BY <2>3, <2>4, <2>5 DEF PairInv, Covered
<1> HIDE DEF F, m
<1> QED BY <1>1, <1>4, <1>5, <1>6, <1>7, <1>8, Frame

-----------------------------------------------------------------------------
(* Receiving.                                                              *)

\* What rank r receives from one neighbour: its guarantee does not fall, the
\* packets are due no earlier than the guarantee it held.
LEMMA ReceiveIs ==
  ASSUME SimpleTopology, PromiseInv, NEW r \in Rank, NEW n \in [Neighbours(r) -> Nat],
         Receive(r, n), NEW s \in Neighbours(r)
  PROVE  /\ channel'[<<s, r>>] \in Seq(Msg) /\ guarantee'[r][s] \in Nat
         /\ guarantee[r][s] <= guarantee'[r][s]
         /\ InOrder(guarantee[r][s], channel[<<s, r>>])'
         /\ Promises(s, r)' \subseteq Promises(s, r)
         /\ channel[<<s, r>>] = << >> => /\ channel'[<<s, r>>] = << >>
                                         /\ guarantee'[r][s] = guarantee[r][s]
         /\ \A i \in 1..n[s] : /\ SubSeq(channel[<<s, r>>], 1, n[s])[i] \in Msg
                               /\ SubSeq(channel[<<s, r>>], 1, n[s])[i].rx > 0 =>
                                    guarantee[r][s] <= SubSeq(channel[<<s, r>>], 1, n[s])[i].rx
<1> DEFINE c == channel[<<s, r>>]
           g == guarantee[r][s]
           k == n[s]
           h == Held(g, c, k)
           d == Rest(c, k)
<1>1. s \in Rank /\ r \in Neighbours(s) /\ <<s, r>> \in Pairs
  BY Topology
<1>2. c \in Seq(Msg) /\ g \in Nat /\ InOrder(g, c)
  BY <1>1, PairTypes DEF PromiseInv, PairInv
<1>3. k \in Nat /\ k <= Len(c) /\ k \in 0..Len(c)
  <2>1. k \in Nat /\ k <= Len(c)
    BY DEF Receive
  <2> QED BY <1>2, <2>1
<1>4. \A i \in 1..k : SubSeq(c, 1, k)[i] = c[i] /\ c[i] \in Msg
  BY <1>2, <1>3
<1>5. channel'[<<s, r>>] = d
  BY <1>1 DEF Receive, PromiseInv, TypeInv, Rest
<1>6. guarantee'[r] = [q \in Neighbours(r) |->
        IF n[q] = 0 THEN guarantee[r][q]
        ELSE SubSeq(channel[<<q, r>>], 1, n[q])[n[q]].guarantee]
  BY DEF Receive, PromiseInv, TypeInv
<1>7. guarantee'[r][s] = IF k = 0 THEN g ELSE SubSeq(c, 1, k)[k].guarantee
  BY <1>6
<1>8. guarantee'[r][s] = h
  BY <1>3, <1>4, <1>7 DEF Held
<1>9. d \in Seq(Msg) /\ h \in Nat /\ g <= h /\ InOrder(h, d) /\ Known(h, d) \subseteq Known(g, c)
  <2> HIDE DEF g, c, k
  <2> QED BY <1>2, <1>3, ReceiveKeeps
<1>10. c = << >> => d = << >> /\ h = g
  BY <1>3 DEF Held, Rest
<1>11. \A i \in 1..k : c[i].rx > 0 => g <= c[i].rx
  BY <1>2, <1>3 DEF InOrder
<1> HIDE DEF d, h, g, c, k
<1> QED BY <1>4, <1>5, <1>8, <1>9, <1>10, <1>11 DEF Promises, g, c, k

\* Receiving keeps the invariant.
LEMMA ReceiveStep ==
  ASSUME SimpleTopology, PromiseInv, NEW r \in Rank, pc[r] \notin {"start", "handler"},
         NEW n \in [Neighbours(r) -> Nat], Receive(r, n),
         NEW p \in PCs \ {"start", "handler"}, pc' = [pc EXCEPT ![r] = p]
  PROVE  PromiseInv'
<1> DEFINE Got(s) == SubSeq(channel[<<s, r>>], 1, n[s])
           New == UNION { { Event(m.rx, "rx", m.link) :
                            m \in { Got(s)[i] : i \in { k \in 1..n[s] : Got(s)[k].rx > 0 } } } :
                          s \in Neighbours(r) }
<1>1. /\ events' = [events EXCEPT ![r] = @ \cup New]
      /\ channel' = [x \in DOMAIN channel |->
           IF x[2] = r THEN SubSeq(channel[x], n[x[1]] + 1, Len(channel[x])) ELSE channel[x]]
      /\ safe' = [safe EXCEPT ![r] = SafeTime(guarantee'[r])]
      /\ guarantee' = [guarantee EXCEPT ![r] = [s \in Neighbours(r) |->
           IF n[s] = 0 THEN guarantee[r][s] ELSE Got(s)[n[s]].guarantee]]
      /\ UNCHANGED <<now, stop, busy>>
  BY DEF Receive, devVars
<1>2. /\ events[r] \in SUBSET EvOf(r) /\ now[r] \in Nat /\ safe[r] \in Nat /\ now[r] <= safe[r]
      /\ \A s \in Neighbours(r) : guarantee[r][s] \in Nat /\ safe[r] <= guarantee[r][s]
      /\ events'[r] = events[r] \cup New /\ pc'[r] = p
      /\ \A q \in Rank \ {r} : /\ events'[q] = events[q] /\ safe'[q] = safe[q]
                               /\ guarantee'[q] = guarantee[q] /\ pc'[q] = pc[q]
  BY <1>1, RankTypes DEF PromiseInv, TypeInv, RankInv
<1>3. ASSUME NEW f \in New PROVE f \in EvOf(r) /\ f.kind = "rx" /\ safe[r] <= f.ts /\ f.ts \in Nat
  <2>1. PICK s \in Neighbours(r) : \E i \in 1..n[s] :
          Got(s)[i].rx > 0 /\ f = Event(Got(s)[i].rx, "rx", Got(s)[i].link)
    OBVIOUS
  <2>2. PICK i \in 1..n[s] : Got(s)[i].rx > 0 /\ f = Event(Got(s)[i].rx, "rx", Got(s)[i].link)
    BY <2>1
  <2>3. Got(s)[i] \in Msg /\ guarantee[r][s] <= Got(s)[i].rx
    BY <2>2, ReceiveIs
  <2> DEFINE m == Got(s)[i]
  <2> HIDE DEF m
  <2>4. m \in Msg /\ guarantee[r][s] <= m.rx /\ f = Event(m.rx, "rx", m.link)
    BY <2>2, <2>3 DEF m
  <2>5. m.rx \in Nat /\ m.link \in Link \cup {0}
    BY <2>4 DEF Msg
  <2>6. safe[r] <= m.rx
    BY <1>2, <2>4, <2>5
  <2>7. f.ts = m.rx /\ f.kind = "rx" /\ f \in Ev
    BY <2>4, <2>5 DEF Event, Ev, Kinds
  <2> QED BY <2>5, <2>6, <2>7 DEF EvOf
<1> HIDE DEF New
<1>4. guarantee'[r] \in [Neighbours(r) -> Nat]
  <2>1. \A s \in Neighbours(r) : guarantee'[r][s] \in Nat
    BY ReceiveIs
  <2>2. guarantee'[r] = [s \in Neighbours(r) |-> guarantee'[r][s]]
    BY <1>1 DEF PromiseInv, TypeInv
  <2> QED BY <2>1, <2>2
<1>5. /\ safe'[r] \in Nat /\ safe[r] <= safe'[r]
      /\ \A s \in Neighbours(r) : safe'[r] <= guarantee'[r][s]
  <2>1. safe'[r] = SafeTime(guarantee'[r])
    BY <1>1 DEF PromiseInv, TypeInv
  <2>2. Neighbours(r) # {}
    BY DEF SimpleTopology
  <2>3. PICK s \in Neighbours(r) : safe'[r] = guarantee'[r][s]
    BY <1>4, <2>1, <2>2, SafeTimeIs
  <2>4. \A q \in Neighbours(r) : safe'[r] <= guarantee'[r][q]
    BY <1>4, <2>1, <2>2, SafeTimeIs
  <2>5. guarantee[r][s] <= guarantee'[r][s] /\ guarantee'[r][s] \in Nat
    BY ReceiveIs
  <2> QED BY <1>2, <2>3, <2>4, <2>5
<1>6. \A x \in Pairs : x[2] # r => channel'[x] = channel[x]
  BY <1>1 DEF PromiseInv, TypeInv
<1>7. TypeInv'
  <2>1. channel' \in [Pairs -> Seq(Msg)]
    <3>1. channel \in [Pairs -> Seq(Msg)]
      BY DEF PromiseInv, TypeInv
    <3>2. ASSUME NEW x \in Pairs PROVE channel'[x] \in Seq(Msg)
      <4>1. CASE x[2] = r
        <5>1. x = <<x[1], r>> /\ x[1] \in Rank /\ r \in Neighbours(x[1])
          BY <4>1 DEF Pairs
        <5>2. x[1] \in Neighbours(r)
          BY <5>1, Topology
        <5> QED BY <5>1, <5>2, ReceiveIs
      <4>2. CASE x[2] # r
        BY <1>6, <3>1, <4>2
      <4> QED BY <4>1, <4>2
    <3>3. channel' = [x \in Pairs |-> channel'[x]]
      BY <1>1, <3>1
    <3> QED BY <3>2, <3>3
  <2>2. events' \in [Rank -> SUBSET Ev] /\ \A q \in Rank : events'[q] \subseteq EvOf(q)
    <3>1. events'[r] \in SUBSET EvOf(r)
      BY <1>2, <1>3
    <3>2. \A q \in Rank : events'[q] \in SUBSET EvOf(q)
      BY <1>2, <3>1 DEF PromiseInv, TypeInv
    <3> QED BY <1>1, <3>2 DEF PromiseInv, TypeInv, EvOf
  <2>3. /\ guarantee' \in [Rank -> UNION { [Neighbours(q) -> Nat] : q \in Rank }]
        /\ \A q \in Rank : guarantee'[q] \in [Neighbours(q) -> Nat]
    <3>1. \A q \in Rank : guarantee'[q] \in [Neighbours(q) -> Nat]
      BY <1>2, <1>4 DEF PromiseInv, TypeInv
    <3>2. guarantee' = [q \in Rank |-> guarantee'[q]]
      BY <1>1 DEF PromiseInv, TypeInv
    <3> QED BY <3>1, <3>2
  <2>4. safe' \in [Rank -> Nat]
    BY <1>1, <1>2, <1>5 DEF PromiseInv, TypeInv
  <2> QED BY <1>1, <2>1, <2>2, <2>3, <2>4 DEF PromiseInv, TypeInv
<1>8. ASSUME NEW q \in Rank PROVE RankInv(q)'
  <2>1. CASE q = r
    <3>1. /\ now'[r] <= safe'[r]
          /\ \A f \in events'[r] : now'[r] <= f.ts /\ (f.kind = "complete" => f.of \in busy'[r])
      <4>1. now'[r] = now[r] /\ busy'[r] = busy[r]
        BY <1>1
      <4>2. now[r] <= safe'[r]
        BY <1>2, <1>5
      <4>3. \A f \in events[r] : now[r] <= f.ts /\ (f.kind = "complete" => f.of \in busy[r])
        BY DEF PromiseInv, RankInv
      <4>4. \A f \in New : now[r] <= f.ts /\ f.kind # "complete"
        BY <1>2, <1>3
      <4> QED BY <1>2, <4>1, <4>2, <4>3, <4>4
    <3>2. OneEach(events'[r])
      BY <1>2, <1>3 DEF PromiseInv, RankInv, OneEach
    <3>3. \A s \in Neighbours(r) : HasNull(events'[r], r, s, now'[r])
      BY <1>1, <1>2 DEF PromiseInv, RankInv, HasNull
    <3>4. stop'[r] \/ HasStop(events'[r])
      BY <1>1, <1>2 DEF PromiseInv, RankInv, HasStop
    <3> QED BY <1>2, <1>5, <2>1, <3>1, <3>2, <3>3, <3>4 DEF RankInv
  <2>2. CASE q # r
    <3>1. ASSUME NEW s \in Neighbours(q), channel[<<q, s>>] = << >>, guarantee[s][q] = 0
          PROVE  channel'[<<q, s>>] = << >> /\ guarantee'[s][q] = 0
      <4>1. s \in Rank /\ q \in Neighbours(s) /\ <<q, s>> \in Pairs
        BY Topology
      <4>2. CASE s = r
        BY <3>1, <4>1, <4>2, ReceiveIs
      <4>3. CASE s # r
        BY <1>2, <1>6, <3>1, <4>1, <4>3
      <4> QED BY <4>2, <4>3
    <3> QED BY <1>1, <1>2, <2>2, <3>1 DEF PromiseInv, RankInv
  <2> QED BY <2>1, <2>2
<1>9. ASSUME NEW s \in Rank, NEW q \in Neighbours(s), NEW g \in Promises(s, q)
      PROVE  Covered(s, q, g)'
  <2>1. Covered(s, q, g)
    BY DEF PromiseInv, PairInv
  <2>2. CASE s # r
    BY <1>1, <1>2, <2>1, <2>2 DEF Covered, Passed, Pending, Quiet
  <2>3. CASE s = r
    <3>1. Passed(s, q, g) => Passed(s, q, g)'
      BY <1>1 DEF Passed
    <3>2. Pending(s, q, g) => Pending(s, q, g)'
      BY <1>1, <1>2, <1>3, <2>3 DEF Pending, IsComplete, IsNull
    <3>3. ASSUME Quiet(s, q, g) PROVE Quiet(s, q, g)'
      <4>1. g \in Nat /\ BundleDelay(s, q) \in Nat
        BY PairTypes, Topology DEF PromiseInv
      <4>2. g <= safe'[s] + BundleDelay(s, q)
        BY <1>2, <1>5, <2>3, <3>3, <4>1 DEF Quiet
      <4>3. \A f \in New : g <= f.ts + BundleDelay(s, q)
        BY <1>2, <1>3, <2>3, <3>3, <4>1 DEF Quiet
      <4> QED BY <1>2, <2>3, <3>3, <4>2, <4>3 DEF Quiet
    <3> QED BY <2>1, <3>1, <3>2, <3>3 DEF Covered
  <2> QED BY <2>2, <2>3
<1>10. ASSUME NEW s \in Rank, NEW q \in Neighbours(s) PROVE PairInv(s, q)'
  <2>1. CASE q = r
    <3>1. s \in Neighbours(r)
      BY <2>1, Topology
    <3>2. InOrder(guarantee[r][s], channel[<<s, r>>])' /\ Promises(s, r)' \subseteq Promises(s, r)
      BY <3>1, ReceiveIs
    <3> QED BY <1>9, <2>1, <3>2 DEF PairInv
  <2>2. CASE q # r
    <3>1. channel'[<<s, q>>] = channel[<<s, q>>] /\ guarantee'[q][s] = guarantee[q][s]
      BY <1>2, <1>6, <2>2, Topology
    <3>2. InOrder(guarantee[q][s], channel[<<s, q>>])' /\ Promises(s, q)' = Promises(s, q)
      BY <3>1 DEF Promises, PromiseInv, PairInv
    <3> QED BY <1>9, <3>2 DEF PairInv
  <2> QED BY <2>1, <2>2
<1> QED BY <1>7, <1>8, <1>10 DEF PromiseInv

\* Receiving what has arrived.
LEMMA PollKeeps ==
  ASSUME SimpleTopology, PromiseInv, NEW r \in Rank, Poll(r)
  PROVE  PromiseInv'
<1>1. PICK n \in [Neighbours(r) -> {0} \cup UNION { DOMAIN channel[<<s, r>>] : s \in Neighbours(r) }] :
        Receive(r, n)
  BY DEF Poll
<1>2. ASSUME NEW s \in Neighbours(r), NEW i \in DOMAIN channel[<<s, r>>] PROVE i \in Nat
  <2>1. channel[<<s, r>>] \in Seq(Msg)
    BY Topology DEF PromiseInv, TypeInv
  <2> QED BY <2>1
<1>3. n \in [Neighbours(r) -> Nat]
  <2>1. ASSUME NEW q \in Neighbours(r) PROVE n[q] \in Nat
    <3>1. CASE n[q] = 0
      BY <3>1
    <3>2. CASE n[q] # 0
      <4>1. PICK s \in Neighbours(r) : n[q] \in DOMAIN channel[<<s, r>>]
        BY <3>2
      <4> QED BY <1>2, <4>1
    <3> QED BY <3>1, <3>2
  <2> QED BY <1>1, <2>1
<1>4. pc[r] = "poll" /\ pc' = [pc EXCEPT ![r] = "loop"] /\ "loop" \in PCs
  BY DEF Poll, Goto, PCs
<1> QED BY <1>1, <1>3, <1>4, ReceiveStep

\* Waiting for one message.
LEMMA BlockKeeps ==
  ASSUME SimpleTopology, PromiseInv, NEW r \in Rank, Block(r)
  PROVE  PromiseInv'
<1>1. PICK s \in Neighbours(r) : Receive(r, [q \in Neighbours(r) |-> IF q = s THEN 1 ELSE 0])
  BY DEF Block
<1>2. [q \in Neighbours(r) |-> IF q = s THEN 1 ELSE 0] \in [Neighbours(r) -> Nat]
  OBVIOUS
<1>3. pc[r] = "loop" /\ pc' = [pc EXCEPT ![r] = "loop"] /\ "loop" \in PCs
  BY DEF Block, PromiseInv, TypeInv, PCs
<1> QED BY <1>1, <1>2, <1>3, ReceiveStep

-----------------------------------------------------------------------------
(* The theorems.                                                           *)

\* The initial state satisfies the invariant.
LEMMA InitPromises == ASSUME SimpleTopology, Init PROVE PromiseInv
<1>1. TypeInv
  <2>1. ASSUME NEW r \in Rank PROVE events[r] \in SUBSET EvOf(r)
    <3>1. AppTimes[r] \in SUBSET Nat /\ StopTime \in Nat
      BY NullMessageAssumption
    <3> QED BY <3>1 DEF Init, Event, EvOf, Ev, Kinds
  <2>2. events \in [Rank -> SUBSET Ev]
    BY <2>1 DEF Init, EvOf
  <2>3. guarantee \in [Rank -> UNION { [Neighbours(r) -> Nat] : r \in Rank }]
        /\ \A r \in Rank : guarantee[r] \in [Neighbours(r) -> Nat]
    BY DEF Init
  <2>4. channel \in [Pairs -> Seq(Msg)]
    BY DEF Init
  <2> QED BY <2>1, <2>2, <2>3, <2>4 DEF Init, TypeInv, PCs
<1>2. ASSUME NEW r \in Rank PROVE RankInv(r)
  <2>1. \A e \in events[r] : e.ts \in Nat
    BY <1>1, RankTypes
  <2>2. \A e \in events[r] : e.kind \in {"stop", "app"}
    BY DEF Init, Event
  <2>3. HasStop(events[r])
    <3>1. Event(StopTime, "stop", 0) \in events[r] /\ Event(StopTime, "stop", 0).kind = "stop"
      BY DEF Init, Event
    <3> QED BY <3>1 DEF HasStop
  <2>4. now[r] = 0 /\ safe[r] = 0 /\ pc[r] = "start"
    BY DEF Init
  <2>5. ASSUME NEW s \in Neighbours(r)
        PROVE  channel[<<r, s>>] = << >> /\ guarantee[s][r] = 0 /\ guarantee[r][s] = 0
    <3>1. s \in Rank /\ r \in Neighbours(s) /\ <<r, s>> \in Pairs
      BY Topology
    <3> QED BY <3>1 DEF Init
  <2>6. OneEach(events[r])
    BY <2>2 DEF OneEach
  <2>7. \A e \in events[r] : now[r] <= e.ts
    BY <2>1, <2>4
  <2>8. \A e \in events[r] : e.kind # "null" /\ e.kind # "complete"
    BY <2>2
  <2>9. ASSUME NEW s \in Neighbours(r) PROVE safe[r] <= guarantee[r][s]
    <3>1. safe[r] = 0 /\ guarantee[r][s] = 0
      BY <2>4, <2>5
    <3> QED BY <3>1
  <2> QED BY <2>3, <2>4, <2>5, <2>6, <2>7, <2>8, <2>9 DEF RankInv
<1>3. ASSUME NEW s \in Rank, NEW r \in Neighbours(s) PROVE PairInv(s, r)
  <2>1. channel[<<s, r>>] = << >> /\ guarantee[r][s] = 0 /\ now[s] = 0
    BY Topology DEF Init
  <2>2. Promises(s, r) = {0}
    BY <2>1 DEF Promises, Known
  <2>3. BundleDelay(s, r) \in Nat
    BY Topology
  <2> QED BY <2>1, <2>2, <2>3 DEF PairInv, InOrder, Covered, Passed
<1> QED BY <1>1, <1>2, <1>3 DEF PromiseInv

\* Every step keeps it.
LEMMA NextPromises ==
  ASSUME SimpleTopology, PromiseInv, [Next]_vars PROVE PromiseInv'
<1>1. CASE UNCHANGED vars
  <2>1. UNCHANGED <<now, events, stop, safe, guarantee, busy, channel, pc>>
    BY <1>1 DEF vars, simVars, devVars
  <2> QED BY <2>1 DEF PromiseInv, TypeInv, RankInv, PairInv, Promises, Covered, Passed,
                      Pending, Quiet
<1>2. CASE Next
  <2>1. PICK r \in Rank : \/ Step(r)
                          \/ \E l \in Link : Send(r, l)
                          \/ \E d \in AppDelays : Schedule(r, d)
                          \/ \E e \in events[r] : Cancel(r, e) \/ Remove(r, e)
    BY <1>2 DEF Next
  <2>2. CASE Step(r)
    BY <2>2, StartKeeps, ReturnKeeps, PollKeeps, BlockKeeps, PlainKeeps, NullKeeps,
       CompleteKeeps, ApplicationKeeps DEF Step
  <2>3. CASE \E l \in Link : Send(r, l)
    BY <2>3, SendKeeps
  <2>4. CASE \E d \in AppDelays : Schedule(r, d)
    BY <2>4, ScheduleKeeps
  <2>5. CASE \E e \in events[r] : Cancel(r, e) \/ Remove(r, e)
    BY <2>5, RevokeKeeps
  <2> QED BY <2>1, <2>2, <2>3, <2>4, <2>5
<1> QED BY <1>1, <1>2

\* The invariant holds in every state.
THEOREM Invariance == ASSUME SimpleTopology PROVE Spec => []PromiseInv
<1>1. Init => PromiseInv
  BY InitPromises
<1>2. PromiseInv /\ [Next]_vars => PromiseInv'
  BY NextPromises
<1> QED BY <1>1, <1>2, PTL DEF Spec

\* The promise of a bundle is kept by every packet under way: with one link
\* between two ranks PointToPointRemoteChannel and the null messages never
\* announce more than what they can hold to.
THEOREM PromisesAreKept == ASSUME SimpleTopology PROVE Spec => []GuaranteesKept
<1>1. PromiseInv => GuaranteesKept
  <2> SUFFICES ASSUME PromiseInv, NEW x \in Pairs, NEW i \in DOMAIN channel[x], channel[x][i].rx > 0
               PROVE  /\ channel[x][i].rx >= guarantee[x[2]][x[1]]
                      /\ \A j \in 1..i - 1 : channel[x][i].rx >= channel[x][j].guarantee
    BY DEF GuaranteesKept
  <2>1. x[1] \in Rank /\ x[2] \in Neighbours(x[1]) /\ x = <<x[1], x[2]>>
    BY DEF Pairs
  <2>2. InOrder(guarantee[x[2]][x[1]], channel[x]) /\ channel[x] \in Seq(Msg)
    BY <2>1, PairTypes DEF PromiseInv, PairInv
  <2>3. i \in 1..Len(channel[x])
    BY <2>2
  <2> QED BY <2>2, <2>3 DEF InOrder
<1> QED BY <1>1, Invariance, PTL

\* No rank has still to learn of something in its past: the assertions of
\* CalculateSafeTime, SetGuaranteeTime and ScheduleWithContext hold.
THEOREM PastIsComplete == ASSUME SimpleTopology PROVE Spec => []NoMessageInPast
<1>1. PromiseInv => NoMessageInPast
  <2> SUFFICES ASSUME PromiseInv PROVE NoMessageInPast
    OBVIOUS
  <2>1. \A r \in Rank : safe[r] >= now[r]
    BY RankTypes DEF PromiseInv, RankInv
  <2>2. ASSUME NEW x \in Pairs, NEW i \in DOMAIN channel[x]
        PROVE  /\ channel[x][i].guarantee >= now[x[2]]
               /\ channel[x][i].rx > 0 => channel[x][i].rx >= now[x[2]]
    <3>1. /\ x[1] \in Rank /\ x[2] \in Neighbours(x[1]) /\ x = <<x[1], x[2]>>
      BY DEF Pairs
    <3>2. x[2] \in Rank /\ x[1] \in Neighbours(x[2])
      BY <3>1, Topology
    <3>3. /\ InOrder(guarantee[x[2]][x[1]], channel[x]) /\ channel[x] \in Seq(Msg)
          /\ guarantee[x[2]][x[1]] \in Nat
      BY <3>1, PairTypes DEF PromiseInv, PairInv
    <3>4. i \in 1..Len(channel[x]) /\ channel[x][i] \in Msg
      BY <3>3
    <3>5. /\ now[x[2]] <= safe[x[2]] /\ safe[x[2]] <= guarantee[x[2]][x[1]]
          /\ now[x[2]] \in Nat /\ safe[x[2]] \in Nat
      BY <3>2, RankTypes DEF PromiseInv, RankInv
    <3>6. /\ guarantee[x[2]][x[1]] <= channel[x][i].guarantee
          /\ channel[x][i].rx > 0 => guarantee[x[2]][x[1]] <= channel[x][i].rx
      BY <3>3, <3>4 DEF InOrder
    <3>7. channel[x][i].guarantee \in Nat /\ channel[x][i].rx \in Nat
      BY <3>4 DEF Msg
    <3> QED BY <3>3, <3>5, <3>6, <3>7
  <2> QED BY <2>1, <2>2 DEF NoMessageInPast
<1> QED BY <1>1, Invariance, PTL

-----------------------------------------------------------------------------
(* The end of the run and the devices.                                     *)

Devices(r) == { l \in Link : r \in Ends[l] }

\* Of a rank at time t with events E, stopped or not as over says, at p, with busy
\* devices B and queues Q: the stop event is due at the stop time and ends the
\* run then; every busy device has its completion to come, and only busy ones
\* queue packets.
EndAt(t, E, over, p, B, Q) ==
  /\ t <= StopTime
  /\ \A e \in E : e.kind = "stop" => e.ts = StopTime
  /\ over => t = StopTime
  /\ p = "done" => over
  /\ \A l \in B : \E e \in E : IsComplete(e, l)
  /\ \A l \in DOMAIN Q : Q[l] > 0 => l \in B

QueueTypes ==
  /\ queued \in [Rank -> UNION { [Devices(r) -> Nat] : r \in Rank }]
  /\ \A r \in Rank : queued[r] \in [Devices(r) -> Nat]

EndInv ==
  /\ QueueTypes
  /\ \A r \in Rank : EndAt(now[r], events[r], stop[r], pc[r], busy[r], queued[r])

\* A step of rank s keeps what concerns the others.
LEMMA EndFrame ==
  ASSUME EndInv, NEW s \in Rank, QueueTypes',
         \A r \in Rank \ {s} : /\ now'[r] = now[r] /\ events'[r] = events[r]
                                /\ stop'[r] = stop[r] /\ pc'[r] = pc[r]
                                /\ busy'[r] = busy[r] /\ queued'[r] = queued[r],
         EndAt(now'[s], events'[s], stop'[s], pc'[s], busy'[s], queued'[s])
  PROVE  EndInv'
<1>1. ASSUME NEW r \in Rank \ {s}
      PROVE  EndAt(now'[r], events'[r], stop'[r], pc'[r], busy'[r], queued'[r])
  BY <1>1 DEF EndInv
<1> QED BY <1>1 DEF EndInv

\* The list keeps its completions and gets no stop event.
KeepsEnds(E, F) ==
  /\ \A f \in F : f.kind = "stop" => f \in E
  /\ \A e \in E : e.kind = "complete" => e \in F

\* A step that starts or ends no transmission and does not move time.
LEMMA ListEnds ==
  ASSUME TypeInv, EndInv, NEW s \in Rank,
         NEW F, events' = [events EXCEPT ![s] = F], KeepsEnds(events[s], F),
         NEW over \in {FALSE, stop[s]}, stop' = [stop EXCEPT ![s] = over],
         NEW p, pc' = [pc EXCEPT ![s] = p], p = "done" => over,
         UNCHANGED <<now, busy, queued>>
  PROVE  EndInv'
<1>1. EndAt(now[s], events[s], stop[s], pc[s], busy[s], queued[s]) /\ QueueTypes'
  BY DEF EndInv, QueueTypes
<1>2. EndAt(now[s], F, over, p, busy[s], queued[s])
  BY <1>1 DEF EndAt, KeepsEnds, IsComplete
<1>3. /\ events'[s] = F /\ stop'[s] = over /\ pc'[s] = p
      /\ \A r \in Rank \ {s} : /\ events'[r] = events[r]
                                /\ stop'[r] = stop[r] /\ pc'[r] = pc[r]
  BY DEF TypeInv
<1> QED BY <1>1, <1>2, <1>3, EndFrame

\* The event that is executed is due no later than the stop time, and the stop
\* event then.
LEMMA ProcessEnds ==
  ASSUME PromiseInv, EndInv, NEW s \in Rank, NEW e \in events[s], Process(s, e)
  PROVE  /\ e.ts \in Nat /\ now' = [now EXCEPT ![s] = e.ts] /\ e.ts <= StopTime
         /\ e.kind = "stop" => e.ts = StopTime
         /\ stop[s] = FALSE
<1>1. /\ ~stop[s] /\ e.ts \in Nat /\ now' = [now EXCEPT ![s] = e.ts]
      /\ \A f \in events[s] : e.ts <= f.ts
  BY ProcessIs DEF PromiseInv
<1>2. PICK f \in events[s] : f.kind = "stop"
  BY <1>1 DEF PromiseInv, RankInv, HasStop
<1>3. \A g \in events[s] : g.kind = "stop" => g.ts = StopTime
  BY DEF EndInv, EndAt
<1>4. stop[s] = FALSE
  BY <1>1, RankTypes DEF PromiseInv
<1> QED BY <1>1, <1>2, <1>3, <1>4

\* What a transmission on link l makes of the list E.
LEMMA TransmitEnds ==
  ASSUME NEW s \in Rank, NEW l \in Link, NEW tx, NEW t, NEW E, TransmitStart(s, l, tx, t, E)
  PROVE  \E F : /\ events' = [events EXCEPT ![s] = F] /\ KeepsEnds(E, F)
                /\ \E f \in F : IsComplete(f, l)
<1> DEFINE r == Peer(s, l)
           c == Event(t + tx + Gap, "complete", l)
           z == Event(t + NullDelay(s, r), "null", r)
           E1 == E \cup {c}
           void(e) == [e EXCEPT !.kind = "void"]
           E2 == { IF e.kind = "null" /\ e.of = r THEN void(e) ELSE e : e \in E1 }
           F == E2 \cup {z}
<1>1. events' = [events EXCEPT ![s] = F]
  BY DEF TransmitStart, WithNullEvent, NullCancelled
<1>2. \A e \in E1 : e.kind = "complete" => e \in F
  OBVIOUS
<1>3. c \in F /\ IsComplete(c, l)
  BY <1>2 DEF IsComplete, Event
<1>4. ASSUME NEW f \in F, f.kind = "stop" PROVE f \in E
  <2>1. z.kind = "null" /\ c.kind = "complete"
    BY DEF Event
  <2>2. ASSUME NEW e \in E1, e.kind = "null" PROVE void(e).kind # "stop"
    <3>1. void(e).kind = "void" \/ void(e) = e
      OBVIOUS
    <3> QED BY <2>2, <3>1
  <2>3. PICK e \in E1 : f = IF e.kind = "null" /\ e.of = r THEN void(e) ELSE e
    BY <1>4, <2>1
  <2>4. f = e
    BY <1>4, <2>2, <2>3
  <2> QED BY <1>4, <2>1, <2>4
<1> HIDE DEF F, E1
<1> QED BY <1>1, <1>2, <1>3, <1>4 DEF KeepsEnds, E1

\* Executing an event moves time no farther than the stop time.
LEMMA MoveEnds ==
  ASSUME PromiseInv, EndInv, NEW s \in Rank, NEW e \in events[s], Process(s, e),
         NEW F, events' = [events EXCEPT ![s] = F],
         \A f \in F : f.kind = "stop" => f \in events[s],
         NEW over, stop' = [stop EXCEPT ![s] = over], over => e.kind = "stop",
         NEW p, pc' = [pc EXCEPT ![s] = p], p # "done",
         QueueTypes',
         \A r \in Rank \ {s} : busy'[r] = busy[r] /\ queued'[r] = queued[r],
         \A l \in busy'[s] : \E f \in F : IsComplete(f, l),
         \A l \in DOMAIN queued'[s] : queued'[s][l] > 0 => l \in busy'[s]
  PROVE  EndInv'
<1>1. /\ e.ts \in Nat /\ now' = [now EXCEPT ![s] = e.ts] /\ e.ts <= StopTime
      /\ e.kind = "stop" => e.ts = StopTime
  BY ProcessEnds
<1>2. \A f \in F : f.kind = "stop" => f.ts = StopTime
  BY DEF EndInv, EndAt
<1>3. EndAt(e.ts, F, over, p, busy'[s], queued'[s])
  BY <1>1, <1>2 DEF EndAt
<1>4. /\ now'[s] = e.ts /\ events'[s] = F /\ stop'[s] = over /\ pc'[s] = p
      /\ \A r \in Rank \ {s} : /\ now'[r] = now[r] /\ events'[r] = events[r]
                                /\ stop'[r] = stop[r] /\ pc'[r] = pc[r]
  BY <1>1 DEF PromiseInv, TypeInv
<1> QED BY <1>3, <1>4, EndFrame

\* Cancelled events, stop events, null messages and events of applications.
LEMMA ConsumeEnds ==
  ASSUME PromiseInv, EndInv, NEW s \in Rank, NEW e \in events[s],
         PlainEvent(s, e) \/ NullMessageEvent(s, e) \/ ApplicationEvent(s, e)
  PROVE  EndInv'
<1> DEFINE E == events[s] \ {e}
           z == Event(e.ts + NullDelay(s, e.of), "null", e.of)
<1>1. Process(s, e) /\ e.kind # "complete" /\ UNCHANGED <<busy, queued>>
  BY DEF PlainEvent, NullMessageEvent, ApplicationEvent, devVars
<1>2. PICK p : pc' = [pc EXCEPT ![s] = p] /\ p # "done"
  BY DEF PlainEvent, NullMessageEvent, ApplicationEvent, Goto
<1>3. stop[s] = FALSE
  BY <1>1, ProcessEnds
<1>4. PICK over \in BOOLEAN : stop' = [stop EXCEPT ![s] = over] /\ (over => e.kind = "stop")
  <2>1. CASE PlainEvent(s, e)
    <3>1. stop' = [stop EXCEPT ![s] = stop[s] \/ e.kind = "stop"]
      BY <2>1 DEF PlainEvent
    <3> QED BY <1>3, <3>1
  <2>2. CASE NullMessageEvent(s, e) \/ ApplicationEvent(s, e)
    <3>1. stop' = stop
      BY <2>2 DEF NullMessageEvent, ApplicationEvent
    <3>2. stop = [stop EXCEPT ![s] = FALSE]
      BY <1>3 DEF PromiseInv, TypeInv
    <3> QED BY <3>1, <3>2
  <2> QED BY <2>1, <2>2
<1>5. \/ events' = [events EXCEPT ![s] = E]
      \/ events' = [events EXCEPT ![s] = E \cup {z}]
  BY DEF PlainEvent, NullMessageEvent, ApplicationEvent, WithNullEvent
<1>6. z.kind = "null"
  BY DEF Event
<1> HIDE DEF z
<1>7. PICK F : /\ events' = [events EXCEPT ![s] = F]
               /\ \A f \in F : f.kind = "stop" => f \in events[s]
               /\ \A f \in events[s] : f.kind = "complete" => f \in F
  <2>1. CASE events' = [events EXCEPT ![s] = E]
    <3>1. /\ \A f \in E : f.kind = "stop" => f \in events[s]
          /\ \A f \in events[s] : f.kind = "complete" => f \in E
      BY <1>1
    <3> QED BY <2>1, <3>1
  <2>2. CASE events' = [events EXCEPT ![s] = E \cup {z}]
    <3>1. /\ \A f \in E \cup {z} : f.kind = "stop" => f \in events[s]
          /\ \A f \in events[s] : f.kind = "complete" => f \in E \cup {z}
      BY <1>1, <1>6
    <3> QED BY <2>2, <3>1
  <2> QED BY <1>5, <2>1, <2>2
<1>8. EndAt(now[s], events[s], stop[s], pc[s], busy[s], queued[s]) /\ QueueTypes'
  BY <1>1 DEF EndInv, QueueTypes
<1>9. /\ \A l \in busy'[s] : \E f \in F : IsComplete(f, l)
      /\ \A l \in DOMAIN queued'[s] : queued'[s][l] > 0 => l \in busy'[s]
  BY <1>1, <1>7, <1>8 DEF EndAt, IsComplete
<1> QED BY <1>1, <1>2, <1>4, <1>7, <1>8, <1>9, MoveEnds

\* The end of a transmission: the device is idle, or has a new completion.
LEMMA CompleteEnds ==
  ASSUME PromiseInv, EndInv, NEW s \in Rank, NEW e \in events[s], TransmitComplete(s, e)
  PROVE  EndInv'
<1> DEFINE l == e.of
           E == events[s] \ {e}
<1>1. /\ Process(s, e) /\ e.kind = "complete" /\ stop' = stop
      /\ pc' = [pc EXCEPT ![s] = "poll"]
  BY DEF TransmitComplete, Goto
<1>2. stop' = [stop EXCEPT ![s] = FALSE]
  BY <1>1, ProcessEnds DEF PromiseInv, TypeInv
<1>3. l \in Link /\ s \in Ends[l]
  BY <1>1, RankTypes DEF PromiseInv, EvOf
<1>4. l \in Devices(s)
  BY <1>3 DEF Devices
<1>5. QueueTypes /\ EndAt(now[s], events[s], stop[s], pc[s], busy[s], queued[s])
  BY DEF EndInv
<1>6. queued[s] \in [Devices(s) -> Nat]
  BY <1>5 DEF QueueTypes
<1>7. CASE queued[s][l] = 0
  <2>1. /\ busy' = [busy EXCEPT ![s] = @ \ {l}] /\ events' = [events EXCEPT ![s] = E]
        /\ queued' = queued
    BY <1>7 DEF TransmitComplete
  <2>2. /\ busy'[s] = busy[s] \ {l} /\ QueueTypes'
        /\ \A r \in Rank \ {s} : busy'[r] = busy[r] /\ queued'[r] = queued[r]
    BY <1>5, <2>1 DEF PromiseInv, TypeInv, QueueTypes
  <2>3. \A k \in busy'[s] : \E f \in E : IsComplete(f, k)
    BY <1>5, <2>2 DEF EndAt, IsComplete
  <2>4. \A k \in DOMAIN queued'[s] : queued'[s][k] > 0 => k \in busy'[s]
    BY <1>5, <1>7, <2>1, <2>2 DEF EndAt
  <2>5. \A f \in E : f.kind = "stop" => f \in events[s]
    OBVIOUS
  <2> HIDE DEF E, l
  <2> QED BY <1>1, <1>2, <2>1, <2>2, <2>3, <2>4, <2>5, MoveEnds
<1>8. CASE queued[s][l] # 0
  <2>1. /\ queued' = [queued EXCEPT ![s][l] = @ - 1] /\ busy' = busy
    BY <1>8 DEF TransmitComplete
  <2>2. PICK tx \in TxTimes : TransmitStart(s, l, tx, e.ts, E)
    BY <1>8 DEF TransmitComplete
  <2>3. PICK F : /\ events' = [events EXCEPT ![s] = F] /\ KeepsEnds(E, F)
                 /\ \E f \in F : IsComplete(f, l)
    BY <1>3, <2>2, TransmitEnds
  <2>4. queued[s][l] \in Nat /\ queued[s][l] > 0
    BY <1>4, <1>6, <1>8
  <2>5. /\ queued'[s] = [queued[s] EXCEPT ![l] = @ - 1]
        /\ \A r \in Rank \ {s} : busy'[r] = busy[r] /\ queued'[r] = queued[r]
    BY <1>5, <2>1 DEF QueueTypes
  <2>6. queued'[s] \in [Devices(s) -> Nat]
    BY <1>4, <1>6, <2>4, <2>5
  <2>7. QueueTypes'
    BY <1>5, <2>1, <2>5, <2>6 DEF QueueTypes
  <2>8. \A k \in busy'[s] : \E f \in F : IsComplete(f, k)
    BY <1>5, <2>1, <2>3 DEF EndAt, IsComplete, KeepsEnds
  <2>9. \A k \in DOMAIN queued'[s] : queued'[s][k] > 0 => k \in busy'[s]
    BY <1>5, <1>6, <2>1, <2>4, <2>5 DEF EndAt
  <2>10. \A f \in F : f.kind = "stop" => f \in events[s]
    BY <2>3 DEF KeepsEnds
  <2> HIDE DEF E, l
  <2> QED BY <1>1, <1>2, <2>3, <2>5, <2>7, <2>8, <2>9, <2>10, MoveEnds
<1> QED BY <1>7, <1>8

\* Sending: the packet is queued at a busy device or makes the device busy.
LEMMA SendEnds ==
  ASSUME PromiseInv, EndInv, NEW s \in Rank, NEW l \in Link, Send(s, l)
  PROVE  EndInv'
<1>1. s \in Ends[l] /\ UNCHANGED <<now, stop, pc>>
  BY DEF Send
<1>2. l \in Devices(s)
  BY <1>1 DEF Devices
<1>3. QueueTypes /\ EndAt(now[s], events[s], stop[s], pc[s], busy[s], queued[s])
  BY DEF EndInv
<1>4. queued[s] \in [Devices(s) -> Nat]
  BY <1>3 DEF QueueTypes
<1>5. CASE l \in busy[s]
  <2>1. queued' = [queued EXCEPT ![s][l] = @ + 1] /\ UNCHANGED <<busy, events>>
    BY <1>5 DEF Send
  <2>2. /\ queued'[s] = [queued[s] EXCEPT ![l] = @ + 1]
        /\ \A r \in Rank \ {s} : queued'[r] = queued[r]
    BY <1>3, <2>1 DEF QueueTypes
  <2>3. queued'[s] \in [Devices(s) -> Nat]
    BY <1>2, <1>4, <2>2
  <2>4. QueueTypes'
    BY <1>3, <2>1, <2>2, <2>3 DEF QueueTypes
  <2>5. \A k \in DOMAIN queued'[s] : queued'[s][k] > 0 => k \in busy[s]
    BY <1>3, <1>4, <1>5, <2>2 DEF EndAt
  <2>6. EndAt(now[s], events[s], stop[s], pc[s], busy[s], queued'[s])
    BY <1>3, <2>5 DEF EndAt
  <2> QED BY <1>1, <2>1, <2>2, <2>4, <2>6, EndFrame
<1>6. CASE l \notin busy[s]
  <2>1. busy' = [busy EXCEPT ![s] = @ \cup {l}] /\ queued' = queued
    BY <1>6 DEF Send
  <2>2. PICK tx \in TxTimes : TransmitStart(s, l, tx, now[s], events[s])
    BY <1>6 DEF Send
  <2>3. PICK F : /\ events' = [events EXCEPT ![s] = F] /\ KeepsEnds(events[s], F)
                 /\ \E f \in F : IsComplete(f, l)
    BY <2>2, TransmitEnds
  <2>4. /\ busy'[s] = busy[s] \cup {l} /\ events'[s] = F /\ QueueTypes'
        /\ \A r \in Rank \ {s} : busy'[r] = busy[r] /\ events'[r] = events[r]
    BY <1>3, <2>1, <2>3 DEF PromiseInv, TypeInv, QueueTypes
  <2>5. \A k \in busy'[s] : \E f \in F : IsComplete(f, k)
    BY <1>3, <2>3, <2>4 DEF EndAt, IsComplete, KeepsEnds
  <2>6. EndAt(now[s], F, stop[s], pc[s], busy'[s], queued[s])
    BY <1>3, <2>3, <2>4, <2>5 DEF EndAt, KeepsEnds
  <2> QED BY <1>1, <2>1, <2>4, <2>6, EndFrame
<1> QED BY <1>5, <1>6

\* Schedule, Cancel and Remove.
LEMMA HandlerEnds ==
  ASSUME PromiseInv, EndInv, NEW s \in Rank,
         \/ \E d \in AppDelays : Schedule(s, d)
         \/ \E e \in events[s] : Cancel(s, e) \/ Remove(s, e)
  PROVE  EndInv'
<1>1. pc[s] = "handler" /\ UNCHANGED <<now, stop, pc, busy, queued>>
  BY DEF Schedule, Cancel, Remove, devVars
<1>2. PICK F : events' = [events EXCEPT ![s] = F] /\ KeepsEnds(events[s], F)
  <2>1. CASE \E d \in AppDelays : Schedule(s, d)
    <3>1. PICK z : z.kind = "app" /\ events' = [events EXCEPT ![s] = events[s] \cup {z}]
      BY <2>1 DEF Schedule, Event
    <3>2. KeepsEnds(events[s], events[s] \cup {z})
      BY <3>1 DEF KeepsEnds
    <3> QED BY <3>1, <3>2
  <2>2. CASE \E e \in events[s] : Cancel(s, e)
    <3>1. PICK e \in events[s] : Cancel(s, e)
      BY <2>2
    <3>2. e.kind = "app" /\ e \in Ev
      BY <3>1, RankTypes DEF Cancel, PromiseInv
    <3>3. PICK z : z = [e EXCEPT !.kind = "void"]
      OBVIOUS
    <3>4. z.kind = "void"
      BY <3>2, <3>3 DEF Ev
    <3>5. events' = [events EXCEPT ![s] = (events[s] \ {e}) \cup {z}]
      BY <3>1, <3>3 DEF Cancel
    <3>6. KeepsEnds(events[s], (events[s] \ {e}) \cup {z})
      BY <3>2, <3>4 DEF KeepsEnds
    <3> QED BY <3>5, <3>6
  <2>3. CASE \E e \in events[s] : Remove(s, e)
    <3>1. PICK e \in events[s] : Remove(s, e)
      BY <2>3
    <3>2. e.kind = "app" /\ events' = [events EXCEPT ![s] = events[s] \ {e}]
      BY <3>1 DEF Remove
    <3>3. KeepsEnds(events[s], events[s] \ {e})
      BY <3>2 DEF KeepsEnds
    <3> QED BY <3>2, <3>3
  <2> QED BY <2>1, <2>2, <2>3
<1>3. PICK over \in {FALSE, stop[s]} : stop' = [stop EXCEPT ![s] = over] /\ over = stop[s]
  BY <1>1 DEF PromiseInv, TypeInv
<1>4. PICK p : pc' = [pc EXCEPT ![s] = p] /\ p = "handler"
  BY <1>1 DEF PromiseInv, TypeInv
<1>5. p # "done"
  BY <1>4
<1> QED BY <1>1, <1>2, <1>3, <1>4, <1>5, ListEnds DEF PromiseInv

\* The end of a handler, and of Run: nothing is left to execute, or Stop was called.
LEMMA ReturnEnds ==
  ASSUME PromiseInv, EndInv, NEW s \in Rank, HandlerReturns(s) \/ RunReturns(s)
  PROVE  EndInv'
<1>1. UNCHANGED <<now, events, stop, busy, queued>>
  BY DEF HandlerReturns, RunReturns, simVars, devVars
<1>2. PICK p : pc' = [pc EXCEPT ![s] = p] /\ (p = "done" => IsFinished(s))
  BY DEF HandlerReturns, RunReturns, Goto
<1>3. IsFinished(s) => stop[s]
  BY DEF IsFinished, PromiseInv, RankInv, HasStop
<1>4. PICK over \in {FALSE, stop[s]} : stop' = [stop EXCEPT ![s] = over] /\ over = stop[s]
  BY <1>1 DEF PromiseInv, TypeInv
<1>5. events' = [events EXCEPT ![s] = events[s]]
  BY <1>1 DEF PromiseInv, TypeInv
<1>6. KeepsEnds(events[s], events[s])
  BY DEF KeepsEnds
<1>7. p = "done" => over
  BY <1>2, <1>3, <1>4
<1> QED BY <1>1, <1>2, <1>4, <1>5, <1>6, <1>7, ListEnds DEF PromiseInv

\* Run up to the loop.
LEMMA StartEnds ==
  ASSUME PromiseInv, EndInv, NEW s \in Rank, Start(s)
  PROVE  EndInv'
<1> DEFINE New == { Event(NullDelay(s, q), "null", q) : q \in Neighbours(s) }
<1>1. /\ pc' = [pc EXCEPT ![s] = "loop"] /\ events' = [events EXCEPT ![s] = events[s] \cup New]
      /\ stop' = [stop EXCEPT ![s] = FALSE] /\ UNCHANGED <<now, busy, queued>>
  BY DEF Start, Goto, devVars
<1>2. \A z \in New : z.kind = "null"
  BY DEF Event
<1> HIDE DEF New
<1>3. KeepsEnds(events[s], events[s] \cup New)
  BY <1>2 DEF KeepsEnds
<1> QED BY <1>1, <1>3, ListEnds DEF PromiseInv

\* Receiving puts packets into the list.
LEMMA ReceiveEnds ==
  ASSUME PromiseInv, EndInv, NEW s \in Rank, Poll(s) \/ Block(s)
  PROVE  EndInv'
<1>1. PICK n : Receive(s, n)
  BY DEF Poll, Block
<1>2. pc' = [pc EXCEPT ![s] = "loop"]
  BY DEF Poll, Block, Goto, PromiseInv, TypeInv
<1> DEFINE Got(q) == SubSeq(channel[<<q, s>>], 1, n[q])
           Packets(q) == { Got(q)[i] : i \in { k \in 1..n[q] : Got(q)[k].rx > 0 } }
           New == UNION { { Event(m.rx, "rx", m.link) : m \in Packets(q) } : q \in Neighbours(s) }
<1>3. events' = [events EXCEPT ![s] = events[s] \cup New] /\ UNCHANGED <<now, stop, busy, queued>>
  BY <1>1 DEF Receive, devVars
<1> HIDE DEF Packets
<1>4. \A z \in New : z.kind = "rx"
  BY DEF Event
<1> HIDE DEF New
<1>5. KeepsEnds(events[s], events[s] \cup New)
  BY <1>4 DEF KeepsEnds
<1>6. PICK over \in {FALSE, stop[s]} : stop' = [stop EXCEPT ![s] = over] /\ over = stop[s]
  BY <1>3 DEF PromiseInv, TypeInv
<1> QED BY <1>2, <1>3, <1>5, <1>6, ListEnds DEF PromiseInv

\* The initial state.
LEMMA InitEnds == ASSUME Init PROVE EndInv
<1>1. QueueTypes
  BY DEF Init, QueueTypes, Devices
<1>2. ASSUME NEW r \in Rank
      PROVE  EndAt(now[r], events[r], stop[r], pc[r], busy[r], queued[r])
  <2>1. /\ now[r] = 0 /\ stop[r] = FALSE /\ pc[r] = "start" /\ busy[r] = {}
        /\ \A l \in DOMAIN queued[r] : queued[r][l] = 0
    BY DEF Init
  <2>2. \A e \in events[r] : e.kind = "stop" => e.ts = StopTime
    BY DEF Init, Event
  <2>3. 0 <= StopTime
    BY NullMessageAssumption
  <2> QED BY <2>1, <2>2, <2>3 DEF EndAt
<1> QED BY <1>1, <1>2 DEF EndInv

\* Every step keeps it.
LEMMA NextEnds ==
  ASSUME PromiseInv, EndInv, [Next]_vars PROVE EndInv'
<1>1. CASE UNCHANGED vars
  <2>1. UNCHANGED <<now, events, stop, pc, busy, queued>>
    BY <1>1 DEF vars, simVars, devVars
  <2> QED BY <2>1 DEF EndInv, QueueTypes, EndAt
<1>2. CASE Next
  <2>1. PICK r \in Rank : \/ Step(r)
                          \/ \E l \in Link : Send(r, l)
                          \/ \E d \in AppDelays : Schedule(r, d)
                          \/ \E e \in events[r] : Cancel(r, e) \/ Remove(r, e)
    BY <1>2 DEF Next
  <2>2. CASE Step(r)
    BY <2>2, StartEnds, ReturnEnds, ReceiveEnds, ConsumeEnds, CompleteEnds DEF Step
  <2>3. CASE \E l \in Link : Send(r, l)
    BY <2>3, SendEnds
  <2>4. CASE \/ \E d \in AppDelays : Schedule(r, d)
             \/ \E e \in events[r] : Cancel(r, e) \/ Remove(r, e)
    BY <2>4, HandlerEnds
  <2> QED BY <2>1, <2>2, <2>3, <2>4
<1> QED BY <1>1, <1>2

\* Every rank's run ends at the stop time, and no earlier.
THEOREM RunsEndAtStopTime == ASSUME SimpleTopology PROVE Spec => []EndInv
<1>1. Init => EndInv
  BY InitEnds
<1>2. PromiseInv /\ EndInv /\ [Next]_vars => EndInv'
  BY NextEnds
<1> QED BY <1>1, <1>2, Invariance, PTL DEF Spec

\* The types of the variables; a device transmits exactly while its completion
\* is in the list (PointToPointNetDevice: m_txMachineState), queues packets only
\* then, and time never passes the stop time.
THEOREM TypesHold == ASSUME SimpleTopology PROVE Spec => []TypeOK
<1>1. PromiseInv /\ EndInv => TypeOK
  <2> SUFFICES ASSUME PromiseInv, EndInv PROVE TypeOK
    OBVIOUS
  <2>1. now \in [Rank -> 0..StopTime]
    <3>1. ASSUME NEW r \in Rank PROVE now[r] \in 0..StopTime
      <4>1. now[r] \in Nat /\ now[r] <= StopTime /\ StopTime \in Nat
        BY RankTypes, NullMessageAssumption DEF PromiseInv, EndInv, EndAt
      <4> QED BY <4>1
    <3> QED BY <3>1 DEF PromiseInv, TypeInv
  <2>2. \A r \in Rank : \A e \in events[r] : e.ts \in Nat /\ e.kind \in Kinds
    BY DEF PromiseInv, TypeInv, Ev
  <2>3. safe \in [Rank -> Nat] /\ stop \in [Rank -> BOOLEAN] /\ pc \in [Rank -> PCs]
    BY DEF PromiseInv, TypeInv
  <2>4. ASSUME NEW r \in Rank
        PROVE  /\ guarantee[r] \in [Neighbours(r) -> Nat]
               /\ busy[r] = { l \in Link : \E e \in events[r] : e.kind = "complete" /\ e.of = l }
               /\ \A l \in DOMAIN queued[r] :
                    queued[r][l] \in Nat /\ (queued[r][l] > 0 => l \in busy[r])
    <3>1. guarantee[r] \in [Neighbours(r) -> Nat] /\ busy[r] \subseteq Link
      BY DEF PromiseInv, TypeInv
    <3>2. EndAt(now[r], events[r], stop[r], pc[r], busy[r], queued[r])
      BY DEF EndInv
    <3>3. \A e \in events[r] : e.kind = "complete" => e.of \in busy[r]
      BY DEF PromiseInv, RankInv
    <3>4. busy[r] = { l \in Link : \E e \in events[r] : e.kind = "complete" /\ e.of = l }
      BY <3>1, <3>2, <3>3 DEF EndAt, IsComplete
    <3>5. queued[r] \in [Devices(r) -> Nat]
      BY DEF EndInv, QueueTypes
    <3> QED BY <3>1, <3>2, <3>4, <3>5 DEF EndAt
  <2>5. ASSUME NEW x \in Pairs, NEW i \in DOMAIN channel[x]
        PROVE  channel[x][i].rx \in Nat /\ channel[x][i].guarantee \in Nat
    <3>1. channel[x] \in Seq(Msg)
      BY DEF PromiseInv, TypeInv
    <3>2. channel[x][i] \in Msg
      BY <3>1
    <3> QED BY <3>2 DEF Msg
  <2> QED BY <2>1, <2>2, <2>3, <2>4, <2>5 DEF TypeOK
<1> QED BY <1>1, Invariance, RunsEndAtStopTime, PTL

\* A rank whose Run has returned has executed all that was due before the stop
\* time, its own events and the packets of its neighbours: the guarantees it
\* held let it reach the stop time, and no packet under way may come before them.
THEOREM RunIsComplete == ASSUME SimpleTopology PROVE Spec => []NothingLeftBehind
<1>1. PromiseInv /\ EndInv /\ NoMessageInPast => NothingLeftBehind
  <2> SUFFICES ASSUME PromiseInv, EndInv, NoMessageInPast, NEW r \in Rank, pc[r] = "done"
               PROVE  /\ \A e \in events[r] : e.ts >= StopTime
                      /\ \A s \in Neighbours(r) : \A i \in DOMAIN channel[<<s, r>>] :
                           channel[<<s, r>>][i].rx > 0 => channel[<<s, r>>][i].rx >= StopTime
    BY DEF NothingLeftBehind
  <2>1. now[r] = StopTime
    BY DEF EndInv, EndAt
  <2>2. now[r] \in Nat /\ \A e \in events[r] : e.ts \in Nat /\ now[r] <= e.ts
    BY RankTypes DEF PromiseInv, RankInv
  <2>3. \A e \in events[r] : e.ts >= StopTime
    BY <2>1, <2>2
  <2>4. ASSUME NEW s \in Neighbours(r) PROVE <<s, r>> \in Pairs /\ <<s, r>>[2] = r
    <3>1. s \in Rank /\ r \in Neighbours(s)
      BY DEF Neighbours
    <3> QED BY <3>1 DEF Pairs
  <2> QED BY <2>1, <2>3, <2>4 DEF NoMessageInPast
<1> QED BY <1>1, Invariance, RunsEndAtStopTime, PastIsComplete, PTL

=============================================================================

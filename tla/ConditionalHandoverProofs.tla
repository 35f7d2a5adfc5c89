----------------------- MODULE ConditionalHandoverProofs -----------------------
(***************************************************************************)
(* Theorems about ConditionalHandover: its attempts keep apart, are driven *)
(* by their own events, deliver commands the RRC holds and match the last  *)
(* report, for every number of UEs, cells and reports, every report and    *)
(* every value of the attributes.                                          *)
(***************************************************************************)
EXTENDS ConditionalHandover, FiniteSetTheorems, WellFoundedInduction, TLAPS

-----------------------------------------------------------------------------
(* Candidates.                                                             *)

\* A set of natural numbers that is not empty has a least element.
LEMMA NatMin ==
  ASSUME NEW T \in SUBSET Nat, T # {}
  PROVE  \E t \in T : \A u \in T : t <= u
<1> DEFINE R == OpToRel(<, Nat)
<1>1. IsWellFoundedOn(R, Nat)
  BY NatLessThanWellFounded
<1>2. \A x, y \in Nat : x < y => <<x, y>> \in R
  BY DEF OpToRel
<1> HIDE DEF R
<1>3. PICK t \in T : \A u \in T : ~(<<u, t>> \in R)
  BY <1>1, WFMin
<1>4. \A u \in T : ~(u < t)
  BY <1>2, <1>3
<1>5. \A u \in T : t <= u
  BY <1>4
<1> QED BY <1>5

\* Candidates are measurements at places, which are numbers.
LEMMA CandidatesAre ==
  ASSUME NEW c \in Candidates
  PROVE  DOMAIN c \subseteq Nat /\ \A i \in DOMAIN c : c[i] \in Measurement
<1>1. PICK I \in SUBSET UNION { DOMAIN rep.list : rep \in Reports } : c \in [I -> Measurement]
  BY DEF Candidates
<1>2. ASSUME NEW rep \in Reports PROVE DOMAIN rep.list \subseteq Nat
  <2>1. rep.list \in Seq(Measurement)
    BY ChoAssumption DEF ReportType
  <2> QED BY <2>1
<1> QED BY <1>1, <1>2

\* The best candidate is one of them.
LEMMA BestIs ==
  ASSUME NEW c \in Candidates, ~Nobody(c)
  PROVE  \E i \in DOMAIN c : Best(c) = c[i]
<1>1. DOMAIN c \subseteq Nat /\ \A i \in DOMAIN c : c[i].rsrp \in 0..255
  BY CandidatesAre DEF Measurement
<1> DEFINE T == { 255 - c[i].rsrp : i \in DOMAIN c }
<1>2. T \in SUBSET Nat /\ T # {}
  <2>1. ASSUME NEW i \in DOMAIN c PROVE 255 - c[i].rsrp \in Nat
    BY <1>1
  <2> QED BY <2>1 DEF Nobody
<1>3. PICK t \in T : \A u \in T : t <= u
  BY <1>2, NatMin
<1>4. PICK k \in DOMAIN c : t = 255 - c[k].rsrp
  BY <1>3
<1>5. ASSUME NEW i \in DOMAIN c PROVE c[i].rsrp <= c[k].rsrp
  <2>1. 255 - c[i].rsrp \in T
    OBVIOUS
  <2> HIDE DEF T
  <2>2. 255 - c[k].rsrp <= 255 - c[i].rsrp
    BY <1>3, <1>4, <2>1
  <2>3. c[i].rsrp \in Int /\ c[k].rsrp \in Int
    BY <1>1
  <2> QED BY <2>2, <2>3
<1> DEFINE I == { i \in DOMAIN c : c[i].rsrp = c[k].rsrp }
<1>6. I \in SUBSET Nat /\ I # {}
  BY <1>1
<1>7. PICK i \in I : \A j \in I : i <= j
  BY <1>6, NatMin
<1>8. ASSUME NEW j \in DOMAIN c
      PROVE  c[j].rsrp <= c[i].rsrp /\ (j < i => c[j].rsrp < c[i].rsrp)
  <2>1. c[i].rsrp = c[k].rsrp /\ i \in DOMAIN c /\ c[j].rsrp <= c[k].rsrp
    BY <1>5, <1>7
  <2>2. c[j].rsrp = c[k].rsrp => i <= j
    BY <1>7
  <2>3. i \in Nat /\ j \in Nat /\ c[i].rsrp \in Nat /\ c[j].rsrp \in Nat
    BY <1>1, <2>1
  <2> QED BY <2>1, <2>2, <2>3
<1>9. i \in DOMAIN c
  BY <1>7
<1> QED BY <1>8, <1>9 DEF Best

\* Those of the neighbours of a report that qualify are candidates.
LEMMA QualifiedIs ==
  ASSUME NEW rep \in Reports
  PROVE  /\ Qualified(rep) \in Candidates
         /\ \A i \in DOMAIN Qualified(rep) :
              /\ i \in 1..Len(rep.list) /\ Qualified(rep)[i] = rep.list[i]
              /\ Met(Qualified(rep)[i].rsrp, rep.serving)
<1> DEFINE I == { j \in DOMAIN rep.list : Met(rep.list[j].rsrp, rep.serving) }
<1>1. Qualified(rep) = [i \in I |-> rep.list[i]]
  BY DEF Qualified
<1>2. rep.list \in Seq(Measurement)
  BY ChoAssumption DEF ReportType
<1>3. I \in SUBSET UNION { DOMAIN x.list : x \in Reports }
  OBVIOUS
<1>4. \A i \in I : i \in 1..Len(rep.list) /\ rep.list[i] \in Measurement
  BY <1>2
<1>5. [i \in I |-> rep.list[i]] \in [I -> Measurement]
  BY <1>4
<1>6. Qualified(rep) \in Candidates
  BY <1>1, <1>3, <1>5 DEF Candidates
<1> QED BY <1>1, <1>4, <1>6

\* The prepared ones among candidates.
LEMMA PreparedOnesAre ==
  ASSUME NEW r, NEW c \in Candidates
  PROVE  /\ PreparedOnes(r, c) \in Candidates
         /\ \A i \in DOMAIN PreparedOnes(r, c) :
              /\ i \in DOMAIN c /\ PreparedOnes(r, c)[i] = c[i]
              /\ <<r, c[i].cell>> \in prepared
<1>1. PICK I \in SUBSET UNION { DOMAIN rep.list : rep \in Reports } : c \in [I -> Measurement]
  BY DEF Candidates
<1> DEFINE J == { j \in DOMAIN c : <<r, c[j].cell>> \in prepared }
<1>2. PreparedOnes(r, c) = [i \in J |-> c[i]]
  BY DEF PreparedOnes
<1>3. J \in SUBSET UNION { DOMAIN rep.list : rep \in Reports } /\ [i \in J |-> c[i]] \in [J -> Measurement]
  BY <1>1
<1> QED BY <1>2, <1>3 DEF Candidates

\* Refreshing keeps the places.
LEMMA RefreshedIs ==
  ASSUME NEW c \in Candidates, NEW rep \in Reports
  PROVE  Refreshed(c, rep.list) \in Candidates /\ DOMAIN Refreshed(c, rep.list) = DOMAIN c
<1>1. PICK I \in SUBSET UNION { DOMAIN x.list : x \in Reports } : c \in [I -> Measurement]
  BY DEF Candidates
<1>2. rep.list \in Seq(Measurement)
  BY ChoAssumption DEF ReportType
<1> DEFINE L == { rep.list[k] : k \in 1..Len(rep.list) }
           v(i) == IF \E k \in 1..Len(rep.list) : rep.list[k].cell = c[i].cell
                   THEN CHOOSE m \in L : m.cell = c[i].cell
                   ELSE c[i]
<1>3. L \subseteq Measurement
  BY <1>2
<1>4. ASSUME NEW i \in I PROVE v(i) \in Measurement
  <2>1. CASE \E k \in 1..Len(rep.list) : rep.list[k].cell = c[i].cell
    <3>1. \E m \in L : m.cell = c[i].cell
      BY <2>1
    <3>2. (CHOOSE m \in L : m.cell = c[i].cell) \in L
      BY <3>1
    <3> QED BY <1>3, <2>1, <3>2
  <2>2. CASE ~ \E k \in 1..Len(rep.list) : rep.list[k].cell = c[i].cell
    BY <1>1, <2>2
  <2> QED BY <2>1, <2>2
<1>5. Refreshed(c, rep.list) = [i \in I |-> v(i)]
  BY <1>1 DEF Refreshed
<1> HIDE DEF v
<1>6. Refreshed(c, rep.list) \in [I -> Measurement]
  BY <1>4, <1>5
<1> QED BY <1>1, <1>6 DEF Candidates

-----------------------------------------------------------------------------
(* The inductive invariant.                                                *)

\* Whatever is left of an attempt is one event, or none once the UE holds the command.
Driven(r) ==
  Open(r) => IF pending[r].delivered THEN Of(r) = {} ELSE \E t \in timers : Of(r) = {t}

\* No entry refers to an event of another UE.
OwnEvents ==
  /\ \A t \in timers : t.id # 0
  /\ \A t \in timers, r \in Rntis : t.rnti # r => t.id \notin Refs(pending[r])

\* The entry is that of the last report: its candidates are neighbours of the
\* report that met the condition.
Fresh(r) ==
  /\ ~pending[r].delivered
  /\ pending[r].serving = lastReport[r].serving
  /\ \A i \in DOMAIN pending[r].candidates :
       /\ \E k \in 1..Len(lastReport[r].list) : lastReport[r].list[k] = pending[r].candidates[i]
       /\ Met(pending[r].candidates[i].rsrp, pending[r].serving)
  /\ \E i \in DOMAIN pending[r].candidates : pending[r].selected = pending[r].candidates[i]

CoreInv ==
  /\ pending \in [Rntis -> Entry \cup {None}]
  /\ \A r \in Rntis : Open(r) => pending[r] \in Entry /\ ~Nobody(pending[r].candidates)
  /\ timers \subseteq [id : Nat, rnti : Rntis, handler : Handlers] /\ IsFiniteSet(timers)
  /\ NoStrayTimers
  /\ \A r \in Rntis : Driven(r)
  /\ OwnEvents
  /\ DeliveredIsPrepared
  /\ ~retuned => \A r \in Rntis : Open(r) => Fresh(r)

RestInv ==
  /\ margin \in Margins
  /\ asked \subseteq Rntis \X Cells /\ prepared \subseteq Rntis \X Cells
  /\ lastReport \in [Rntis -> Reports \cup {NoReport}]
  /\ reports \in [Rntis -> 0..MaxReports] /\ retuned \in BOOLEAN
  /\ commanded \in (Rntis \X Cells) \cup {<<>>}

ChoInv == CoreInv /\ RestInv

-----------------------------------------------------------------------------
(* Identities and cancellation.                                            *)

\* There is always an identity that nobody has.
LEMMA NewIdIs ==
  ASSUME IsFiniteSet(timers)
  PROVE  /\ NewId \in Nat /\ NewId # 0
         /\ \A t \in timers : t.id # NewId
         /\ \A r \in Rntis : NewId \notin Refs(pending[r])
<1> DEFINE A == { t.id : t \in timers }
           B == UNION { Refs(pending[r]) : r \in Rntis }
           used == A \cup B
           n == Cardinality(used)
           Free == { i \in 1..n + 1 : i \notin used }
<1>1. IsFiniteSet(A)
  <2>1. [t \in timers |-> t.id] \in Surjection(timers, A)
    BY DEF Surjection
  <2> HIDE DEF A
  <2> QED BY <2>1, FS_Surjection
<1>2. IsFiniteSet(B)
  <2>1. IsFiniteSet({ Refs(pending[r]) : r \in Rntis })
    <3> DEFINE C == { Refs(pending[r]) : r \in Rntis }
    <3>1. [r \in Rntis |-> Refs(pending[r])] \in Surjection(Rntis, C)
      BY DEF Surjection
    <3> HIDE DEF C
    <3>2. IsFiniteSet(C)
      BY <3>1, ChoAssumption, FS_Surjection
    <3> QED BY <3>2 DEF C
  <2>2. ASSUME NEW r \in Rntis PROVE IsFiniteSet(Refs(pending[r]))
    <3> DEFINE e == pending[r]
    <3> HIDE DEF e
    <3>1. IsFiniteSet({e.decision, e.ack, e.delivery})
      <4>1. IsFiniteSet({e.decision})
        BY FS_Singleton
      <4>2. IsFiniteSet({e.decision} \cup {e.ack})
        BY <4>1, FS_AddElement
      <4>3. IsFiniteSet(({e.decision} \cup {e.ack}) \cup {e.delivery})
        BY <4>2, FS_AddElement
      <4>4. ({e.decision} \cup {e.ack}) \cup {e.delivery} = {e.decision, e.ack, e.delivery}
        OBVIOUS
      <4> QED BY <4>3, <4>4
    <3> QED BY <3>1, FS_EmptySet DEF Refs, e
  <2> QED BY <2>1, <2>2, FS_UNION
<1>3. IsFiniteSet(used) /\ n \in Nat
  BY <1>1, <1>2, FS_Union, FS_CardinalityType
<1> HIDE DEF used, n
<1>4. Free # {}
  <2>1. SUFFICES ASSUME 1..n + 1 \subseteq used PROVE FALSE
    OBVIOUS
  <2>2. Cardinality(1..n + 1) <= n
    BY <1>3, <2>1, FS_Subset DEF n
  <2>3. Cardinality(1..n + 1) = n + 1
    BY <1>3, FS_Interval
  <2> QED BY <1>3, <2>2, <2>3
<1>5. Free \in SUBSET Nat
  BY <1>3
<1>6. PICK i \in Free : \A k \in Free : i <= k
  BY <1>4, <1>5, NatMin
<1>7. i \in 1..n + 1 /\ i \notin used /\ \A j \in 1..i - 1 : j \in used
  BY <1>3, <1>6
<1>8. NewId \in 1..n + 1 /\ NewId \notin used
  BY <1>7 DEF NewId, used, n
<1> QED BY <1>3, <1>8 DEF used

\* Cancelling an entry takes out the events of its UE and no others.
LEMMA CancelTakes ==
  ASSUME CoreInv, NEW r \in Rntis, NEW ts \in SUBSET timers,
         \A t \in timers : t.rnti # r => t \in ts
  PROVE  Uncancelled(ts, pending[r]) = timers \ Of(r)
<1>1. \A t \in timers : t.rnti # r => t.id \notin Refs(pending[r])
  BY DEF CoreInv, OwnEvents
<1>2. ASSUME NEW t \in timers, t.rnti = r PROVE t.id \in Refs(pending[r])
  <2>1. t.handler \in Handlers
    BY DEF CoreInv
  <2> QED BY <1>2, <2>1 DEF CoreInv, NoStrayTimers, Refs, Open, Handlers
<1> QED BY <1>1, <1>2 DEF Uncancelled, Of

-----------------------------------------------------------------------------
(* What a step does to the entry of one UE.                                *)

\* The other UEs are left alone.
Elsewhere(r) ==
  /\ \A q \in Rntis \ {r} : /\ pending'[q] = pending[q] /\ lastReport'[q] = lastReport[q]
                           /\ \A c \in Cells : <<q, c>> \in prepared => <<q, c>> \in prepared'
  /\ margin' = margin /\ retuned' = retuned

\* The entry is closed.
LEMMA CloseKeeps ==
  ASSUME CoreInv, NEW r \in Rntis, Elsewhere(r),
         pending' = [pending EXCEPT ![r] = None], timers' = timers \ Of(r)
  PROVE  CoreInv'
<1>1. pending'[r] = None /\ \A q \in Rntis \ {r} : pending'[q] = pending[q]
  BY DEF CoreInv
<1>2. \A q \in Rntis : Open(q)' => q # r /\ Open(q) /\ pending'[q] = pending[q]
  BY <1>1 DEF Open
<1>3. \A t \in timers' : t \in timers /\ t.rnti \in Rntis \ {r}
  BY DEF CoreInv, Of
<1>4. \A q \in Rntis \ {r} : Of(q)' = Of(q)
  BY DEF Of
<1>5. IsFiniteSet(timers')
  BY FS_Subset DEF CoreInv
<1>6. NoStrayTimers'
  BY <1>1, <1>3 DEF CoreInv, NoStrayTimers, Open
<1>7. \A q \in Rntis : Driven(q)'
  BY <1>2, <1>4 DEF CoreInv, Driven, Of
<1>8. OwnEvents'
  BY <1>1, <1>3 DEF CoreInv, OwnEvents, Refs
<1>9. DeliveredIsPrepared'
  <2>1. ASSUME NEW q \in Rntis, Open(q)' PROVE pending[q].selected.cell \in Cells
    BY <1>2, <2>1 DEF CoreInv, Entry, Measurement
  <2> QED BY <1>2, <1>4, <2>1 DEF CoreInv, DeliveredIsPrepared, Elsewhere
<1>10. ASSUME ~retuned' PROVE \A q \in Rntis : Open(q)' => Fresh(q)'
  BY <1>2, <1>10 DEF CoreInv, Elsewhere, Fresh, Met
<1>11. /\ pending' \in [Rntis -> Entry \cup {None}]
       /\ \A q \in Rntis : Open(q)' => pending'[q] \in Entry /\ ~Nobody(pending'[q].candidates)
  BY <1>2 DEF CoreInv
<1> QED BY <1>3, <1>5, <1>6, <1>7, <1>8, <1>9, <1>10, <1>11 DEF CoreInv

\* The entry becomes e; what the UE does next is a new event, or nothing.
\* The event ids in e are those of the old entry, the new one or none.
LEMMA AdvanceKeeps ==
  ASSUME CoreInv, NEW r \in Rntis, Elsewhere(r),
         NEW e \in Entry, ~Nobody(e.candidates), pending' = [pending EXCEPT ![r] = e],
         NEW h \in Handlers, ~e.delivered,
         timers' = (timers \ Of(r)) \cup {Timer(r, h)},
         NewId = CASE h = "decision" -> e.decision
                   [] h = "poll"     -> e.ack
                   [] h = "delivery" -> e.delivery,
         Refs(e) \subseteq Refs(pending[r]) \cup {0, NewId},
         h = "delivery" => <<r, e.selected.cell>> \in prepared',
         ~retuned => Fresh(r)'
  PROVE  CoreInv'
<1> DEFINE u == Timer(r, h)
<1>1. pending'[r] = e /\ \A q \in Rntis \ {r} : pending'[q] = pending[q]
  BY DEF CoreInv
<1>2. Open(r)' /\ \A q \in Rntis \ {r} : Open(q)' = Open(q)
  BY <1>1 DEF Open, None, Nobody
<1>3. /\ NewId \in Nat /\ NewId # 0 /\ \A t \in timers : t.id # NewId
      /\ \A q \in Rntis : NewId \notin Refs(pending[q])
  BY NewIdIs DEF CoreInv
<1>4. u.id = NewId /\ u.rnti = r /\ u.handler = h /\ u \in [id : Nat, rnti : Rntis, handler : Handlers]
  BY <1>3 DEF Timer
<1> HIDE DEF u
<1>5. timers' = (timers \ Of(r)) \cup {u}
  BY DEF u
<1>6. \A t \in timers' : t = u \/ (t \in timers /\ t.rnti \in Rntis \ {r} /\ t.id \in Nat)
  BY <1>5 DEF CoreInv, Of
<1>7. Of(r)' = {u} /\ \A q \in Rntis \ {r} : Of(q)' = Of(q)
  BY <1>4, <1>5 DEF Of
<1>8. IsFiniteSet(timers')
  <2>1. IsFiniteSet(timers \ Of(r))
    BY FS_Subset DEF CoreInv
  <2> QED BY <1>5, <2>1, FS_AddElement
<1>9. timers' \subseteq [id : Nat, rnti : Rntis, handler : Handlers]
  BY <1>4, <1>5 DEF CoreInv
<1>10. NoStrayTimers'
  <2>1. ASSUME NEW t \in timers', t = u
        PROVE  /\ Open(t.rnti)'
               /\ t.id = CASE t.handler = "decision" -> pending'[t.rnti].decision
                           [] t.handler = "poll"     -> pending'[t.rnti].ack
                           [] t.handler = "delivery" -> pending'[t.rnti].delivery
    BY <1>1, <1>2, <1>4, <2>1
  <2>2. ASSUME NEW t \in timers, t.rnti \in Rntis \ {r}
        PROVE  /\ Open(t.rnti)'
               /\ t.id = CASE t.handler = "decision" -> pending'[t.rnti].decision
                           [] t.handler = "poll"     -> pending'[t.rnti].ack
                           [] t.handler = "delivery" -> pending'[t.rnti].delivery
    BY <1>1, <1>2, <2>2 DEF CoreInv, NoStrayTimers
  <2> QED BY <1>6, <2>1, <2>2 DEF NoStrayTimers
<1>11. \A q \in Rntis : Driven(q)'
  <2>1. Driven(r)'
    BY <1>1, <1>5, <1>7 DEF Driven
  <2>2. ASSUME NEW q \in Rntis \ {r} PROVE Driven(q)'
    BY <1>1, <1>2, <1>7 DEF CoreInv, Driven, Of
  <2> QED BY <2>1, <2>2
<1>12. OwnEvents'
  <2>1. ASSUME NEW t \in timers, t.rnti \in Rntis \ {r}, t.id \in Nat, NEW q \in Rntis, t.rnti # q
        PROVE  t.id \notin Refs(pending[q])'
    <3>1. t.id \notin Refs(pending[q]) /\ t.id # NewId
      BY <1>3, <2>1 DEF CoreInv, OwnEvents
    <3>2. t.id # 0
      BY DEF CoreInv, OwnEvents
    <3> QED BY <1>1, <2>1, <3>1, <3>2
  <2>2. ASSUME NEW q \in Rntis \ {r} PROVE u.id \notin Refs(pending[q])'
    BY <1>1, <1>3, <1>4
  <2>3. u.id # 0
    BY <1>3, <1>4
  <2>4. \A t \in timers : t.id # 0
    BY DEF CoreInv, OwnEvents
  <2>5. \A t \in timers' : t.id # 0
    BY <1>6, <2>3, <2>4
  <2> QED BY <1>4, <1>6, <2>1, <2>2, <2>5 DEF OwnEvents
<1>13. DeliveredIsPrepared'
  <2>1. ASSUME NEW q \in Rntis \ {r}, Open(q)' PROVE pending[q].selected.cell \in Cells
    BY <1>1, <1>2, <2>1 DEF CoreInv, Entry, Measurement
  <2>2. \A t \in Of(r)' : t.handler = h
    BY <1>4, <1>7
  <2> QED BY <1>1, <1>2, <1>7, <2>1, <2>2 DEF CoreInv, DeliveredIsPrepared, Elsewhere
<1>14. ASSUME ~retuned', NEW q \in Rntis, Open(q)' PROVE Fresh(q)'
  <2>1. ~retuned
    BY <1>14 DEF Elsewhere
  <2>2. CASE q # r
    <3>1. Fresh(q)
      BY <1>2, <1>14, <2>1, <2>2 DEF CoreInv
    <3>2. pending'[q] = pending[q] /\ lastReport'[q] = lastReport[q] /\ margin' = margin
      BY <1>1, <2>2 DEF Elsewhere
    <3> QED BY <3>1, <3>2 DEF Fresh, Met
  <2> QED BY <2>1, <2>2
<1>15. /\ pending' \in [Rntis -> Entry \cup {None}]
       /\ \A q \in Rntis : Open(q)' => pending'[q] \in Entry /\ ~Nobody(pending'[q].candidates)
  BY <1>1, <1>2 DEF CoreInv
<1> QED BY <1>8, <1>9, <1>10, <1>11, <1>12, <1>13, <1>14, <1>15 DEF CoreInv

\* The UE holds the command: the entry becomes e, which waits for reports.  The
\* attributes have been changed.
LEMMA MonitorKeeps ==
  ASSUME CoreInv, NEW r \in Rntis, Elsewhere(r), retuned, Open(r),
         NEW e \in Entry, ~Nobody(e.candidates), pending' = [pending EXCEPT ![r] = e],
         e.delivered, timers' = timers \ Of(r), Refs(e) = Refs(pending[r]),
         <<r, e.selected.cell>> \in prepared'
  PROVE  CoreInv'
<1>1. pending'[r] = e /\ \A q \in Rntis \ {r} : pending'[q] = pending[q]
  BY DEF CoreInv
<1>2. Open(r)' /\ \A q \in Rntis \ {r} : Open(q)' = Open(q)
  BY <1>1 DEF Open, None, Nobody
<1>3. \A t \in timers' : t \in timers /\ t.rnti \in Rntis \ {r}
  BY DEF CoreInv, Of
<1>4. Of(r)' = {} /\ \A q \in Rntis \ {r} : Of(q)' = Of(q)
  BY DEF Of
<1>5. IsFiniteSet(timers')
  BY FS_Subset DEF CoreInv
<1>6. NoStrayTimers'
  BY <1>1, <1>2, <1>3 DEF CoreInv, NoStrayTimers
<1>7. \A q \in Rntis : Driven(q)'
  <2>1. Driven(r)'
    BY <1>1, <1>4 DEF Driven
  <2>2. ASSUME NEW q \in Rntis \ {r} PROVE Driven(q)'
    BY <1>1, <1>2, <1>4 DEF CoreInv, Driven, Of
  <2> QED BY <2>1, <2>2
<1>8. OwnEvents'
  <2>1. \A q \in Rntis : Refs(pending[q])' = Refs(pending[q])
    BY <1>1
  <2> QED BY <1>3, <2>1 DEF CoreInv, OwnEvents
<1>9. DeliveredIsPrepared'
  <2>1. ASSUME NEW q \in Rntis \ {r}, Open(q)' PROVE pending[q].selected.cell \in Cells
    BY <1>1, <1>2, <2>1 DEF CoreInv, Entry, Measurement
  <2> QED BY <1>1, <1>2, <1>4, <2>1 DEF CoreInv, DeliveredIsPrepared, Elsewhere
<1>10. /\ pending' \in [Rntis -> Entry \cup {None}]
       /\ \A q \in Rntis : Open(q)' => pending'[q] \in Entry /\ ~Nobody(pending'[q].candidates)
  BY <1>1, <1>2 DEF CoreInv
<1> QED BY <1>3, <1>5, <1>6, <1>7, <1>8, <1>9, <1>10 DEF CoreInv, Elsewhere

\* What an event that fires finds: its entry, which it alone drives.
LEMMA FiringFinds ==
  ASSUME ChoInv, NEW h \in Handlers, NEW t, Firing(t, h)
  PROVE  /\ t.rnti \in Rntis /\ Open(t.rnti) /\ Of(t.rnti) = {t} /\ ~pending[t.rnti].delivered
         /\ pending[t.rnti] \in Entry /\ ~Nobody(pending[t.rnti].candidates)
         /\ timers \ {t} = timers \ Of(t.rnti)
         /\ h = "delivery" => <<t.rnti, pending[t.rnti].selected.cell>> \in prepared
<1>1. t \in timers /\ t.handler = h /\ t.rnti \in Rntis /\ t \in Of(t.rnti)
  BY DEF Firing, ChoInv, CoreInv, Of
<1>2. Open(t.rnti)
  BY <1>1 DEF ChoInv, CoreInv, NoStrayTimers
<1>3. ~pending[t.rnti].delivered /\ Of(t.rnti) = {t}
  BY <1>1, <1>2 DEF ChoInv, CoreInv, Driven
<1> QED BY <1>1, <1>2, <1>3 DEF ChoInv, CoreInv, DeliveredIsPrepared

\* ExecuteCho closes the entry; a cell that is handed over to was prepared.
LEMMA ExecuteIs ==
  ASSUME ChoInv, NEW r \in Rntis, Open(r), NEW e, e.candidates \in Candidates,
         NEW ts, ts = timers \ Of(r), ExecuteCho(r, e, ts)
  PROVE  /\ pending' = [pending EXCEPT ![r] = None] /\ timers' = timers \ Of(r)
         /\ \A q \in Rntis \ {r} : \A c \in Cells : <<q, c>> \in prepared => <<q, c>> \in prepared'
         /\ asked' \subseteq Rntis \X Cells /\ prepared' \subseteq Rntis \X Cells
         /\ commanded' \in (Rntis \X Cells) \cup {<<>>}
         /\ commanded' # <<>> => \E i \in DOMAIN e.candidates :
                                   /\ commanded' = <<r, e.candidates[i].cell>>
                                   /\ commanded' \in prepared
<1> DEFINE targets == PreparedOnes(r, e.candidates)
<1>1. /\ targets \in Candidates
      /\ \A i \in DOMAIN targets : /\ i \in DOMAIN e.candidates /\ targets[i] = e.candidates[i]
                                  /\ <<r, targets[i].cell>> \in prepared
  <2>1. /\ targets \in Candidates
        /\ \A i \in DOMAIN targets : /\ i \in DOMAIN e.candidates /\ targets[i] = e.candidates[i]
                                    /\ <<r, e.candidates[i].cell>> \in prepared
    BY PreparedOnesAre
  <2> HIDE DEF targets
  <2> QED BY <2>1
<1> HIDE DEF targets
<1>2. asked \subseteq Rntis \X Cells /\ prepared \subseteq Rntis \X Cells
  BY DEF ChoInv, RestInv
<1>3. CASE Nobody(targets)
  <2>1. CancelCho(r, ts) /\ UNCHANGED rrcVars /\ commanded' = <<>>
    BY <1>3 DEF ExecuteCho, targets
  <2>2. Uncancelled(ts, pending[r]) = timers \ Of(r)
    BY CancelTakes DEF ChoInv, Of
  <2> QED BY <1>2, <2>1, <2>2 DEF CancelCho, rrcVars
<1>4. CASE ~Nobody(targets)
  <2>1. PICK i \in DOMAIN targets : Best(targets) = targets[i]
    BY <1>1, <1>4, BestIs
  <2> DEFINE c == Best(targets).cell
  <2>2. i \in DOMAIN e.candidates /\ c = e.candidates[i].cell /\ <<r, c>> \in prepared
    BY <1>1, <2>1
  <2>3. /\ pending' = [pending EXCEPT ![r] = None] /\ timers' = ts
        /\ \/ RrcExecute(r, c)
           \/ UNCHANGED rrcVars /\ commanded' = <<>>
    BY <1>4 DEF ExecuteCho, targets
  <2> HIDE DEF c
  <2>4. CASE UNCHANGED rrcVars /\ commanded' = <<>>
    BY <1>2, <2>3, <2>4 DEF rrcVars
  <2>5. CASE /\ asked' = { x \in asked : x[1] # r }
             /\ prepared' = { x \in prepared : x[1] # r }
             /\ commanded' = <<r, c>>
    <3>1. \A q \in Rntis \ {r} : \A d \in Cells : <<q, d>> \in prepared => <<q, d>> \in prepared'
      BY <2>5
    <3> QED BY <1>2, <2>2, <2>3, <2>5, <3>1
  <2> QED BY <2>3, <2>4, <2>5 DEF RrcExecute
<1> QED BY <1>3, <1>4

-----------------------------------------------------------------------------
(* The measurement reports.                                                *)

\* What every report changes, and what the algorithm knows of the UE before.
LEMMA ReportIs ==
  ASSUME ChoInv, NEW r \in Rntis, NEW rep, TakeReport(r, rep)
  PROVE  /\ rep \in Reports /\ rep.serving \in 0..255
         /\ lastReport' \in [Rntis -> Reports \cup {NoReport}]
         /\ lastReport'[r] = rep /\ \A q \in Rntis \ {r} : lastReport'[q] = lastReport[q]
         /\ reports' \in [Rntis -> 0..MaxReports]
         /\ margin' = margin /\ margin' \in Margins
         /\ retuned' = retuned /\ retuned' \in BOOLEAN
<1>1. rep \in Reports /\ rep.serving \in 0..255
  BY ChoAssumption DEF TakeReport, ReportType
<1>2. /\ lastReport' \in [Rntis -> Reports \cup {NoReport}]
      /\ lastReport'[r] = rep /\ \A q \in Rntis \ {r} : lastReport'[q] = lastReport[q]
  BY <1>1 DEF TakeReport, ChoInv, RestInv
<1>3. reports[r] + 1 \in 0..MaxReports
  BY ChoAssumption DEF TakeReport, ChoInv, RestInv
<1>4. reports' \in [Rntis -> 0..MaxReports]
  BY <1>3 DEF TakeReport, ChoInv, RestInv
<1> QED BY <1>1, <1>2, <1>4 DEF TakeReport, ChoInv, RestInv

LEMMA LeaveConditionKeeps ==
  ASSUME ChoInv, NEW r \in Rntis, NEW rep, LeaveCondition(r, rep)
  PROVE  ChoInv'
<1>1. TakeReport(r, rep) /\ UNCHANGED rrcVars /\ commanded' = <<>>
  BY DEF LeaveCondition
<1>2. Elsewhere(r)
  <2>1. \A q \in Rntis \ {r} : pending'[q] = pending[q]
    BY DEF LeaveCondition, CancelCho, ChoInv, CoreInv
  <2> QED BY <1>1, <2>1, ReportIs DEF Elsewhere, rrcVars
<1>3. pending' = [pending EXCEPT ![r] = None] /\ timers' = timers \ Of(r)
  <2>1. CASE Open(r)
    BY <2>1, CancelTakes DEF LeaveCondition, CancelCho, ChoInv
  <2>2. CASE ~Open(r)
    <3>1. Of(r) = {}
      BY <2>2 DEF ChoInv, CoreInv, NoStrayTimers, Of
    <3> QED BY <2>2, <3>1 DEF LeaveCondition, ChoInv, CoreInv, Open
  <2> QED BY <2>1, <2>2
<1>4. CoreInv'
  BY <1>2, <1>3, CloseKeeps DEF ChoInv
<1> QED BY <1>1, <1>4, ReportIs DEF ChoInv, RestInv, rrcVars

LEMMA StartAttemptKeeps ==
  ASSUME ChoInv, NEW r \in Rntis, NEW rep, StartAttempt(r, rep)
  PROVE  ChoInv'
<1> DEFINE cands == Qualified(rep)
           e == [candidates |-> cands, serving |-> rep.serving, selected |-> Best(cands),
                 delivered |-> FALSE, decision |-> NewId, ack |-> 0, delivery |-> 0]
<1>1. TakeReport(r, rep) /\ UNCHANGED rrcVars /\ commanded' = <<>> /\ ~Nobody(cands)
  BY DEF StartAttempt
<1>2. Elsewhere(r)
  <2>1. \A q \in Rntis \ {r} : pending'[q] = pending[q]
    BY DEF StartAttempt, ChoInv, CoreInv
  <2> QED BY <1>1, <2>1, ReportIs DEF Elsewhere, rrcVars
<1>3. rep \in Reports /\ rep.serving \in 0..255 /\ lastReport'[r] = rep /\ margin' = margin
  BY <1>1, ReportIs
<1>4. /\ cands \in Candidates
      /\ \A i \in DOMAIN cands : /\ i \in 1..Len(rep.list) /\ cands[i] = rep.list[i]
                                 /\ Met(cands[i].rsrp, rep.serving)
  BY <1>3, QualifiedIs
<1>5. PICK k \in DOMAIN cands : Best(cands) = cands[k]
  BY <1>1, <1>4, BestIs
<1>6. Best(cands) \in Measurement
  BY <1>4, <1>5, CandidatesAre
<1>7. NewId \in Nat
  BY NewIdIs DEF ChoInv, CoreInv
<1>8. timers' = (timers \ Of(r)) \cup {Timer(r, "decision")}
  BY CancelTakes DEF StartAttempt, ChoInv
<1>9. pending' = [pending EXCEPT ![r] = e]
  BY DEF StartAttempt
<1> HIDE DEF cands
<1>10. e \in Entry
  BY <1>3, <1>4, <1>6, <1>7 DEF Entry
<1>11. Refs(e) \subseteq {0, NewId}
  BY DEF Refs
<1>12. Fresh(r)'
  <2>1. pending'[r] = e
    BY <1>9 DEF ChoInv, CoreInv
  <2>2. \A i \in DOMAIN cands : cands[i].rsrp > rep.serving + margin'
    BY <1>3, <1>4 DEF Met
  <2>3. \A i \in DOMAIN cands : \E j \in 1..Len(rep.list) : rep.list[j] = cands[i]
    BY <1>4
  <2>4. ~e.delivered /\ e.serving = rep.serving /\ e.candidates = cands /\ e.selected = cands[k]
    BY <1>5
  <2> HIDE DEF e
  <2> QED BY <1>3, <1>5, <2>1, <2>2, <2>3, <2>4 DEF Fresh, Met
<1>13. NewId = e.decision /\ ~e.delivered /\ ~Nobody(e.candidates)
  BY <1>1
<1> HIDE DEF e
<1>14. CoreInv'
  BY <1>2, <1>8, <1>9, <1>10, <1>11, <1>12, <1>13, AdvanceKeeps DEF ChoInv, Handlers
<1> QED BY <1>1, <1>14, ReportIs DEF ChoInv, RestInv, rrcVars

LEMMA MonitorExecutionKeeps ==
  ASSUME ChoInv, NEW r \in Rntis, NEW rep, MonitorExecution(r, rep)
  PROVE  ChoInv' /\ retuned
<1> DEFINE e == [pending[r] EXCEPT !.candidates = Refreshed(@, rep.list),
                                   !.serving = rep.serving]
<1>1. TakeReport(r, rep) /\ Open(r) /\ pending[r].delivered
  BY DEF MonitorExecution
<1>2. retuned
  BY <1>1 DEF ChoInv, CoreInv, Fresh
<1>3. rep \in Reports /\ rep.serving \in 0..255
  BY <1>1, ReportIs
<1>4. pending[r] \in Entry /\ ~Nobody(pending[r].candidates) /\ pending[r].candidates \in Candidates
  BY <1>1 DEF ChoInv, CoreInv, Entry
<1>5. /\ Refreshed(pending[r].candidates, rep.list) \in Candidates
      /\ ~Nobody(Refreshed(pending[r].candidates, rep.list))
  BY <1>3, <1>4, RefreshedIs DEF Nobody
<1>6. e \in Entry /\ ~Nobody(e.candidates) /\ e.delivered /\ e.selected = pending[r].selected
  BY <1>1, <1>3, <1>4, <1>5 DEF Entry
<1>7. Refs(e) = Refs(pending[r])
  <2>1. e # None /\ pending[r] # None
    <3> HIDE DEF e
    <3> QED BY <1>4, <1>6 DEF None, Nobody
  <2>2. e.decision = pending[r].decision /\ e.ack = pending[r].ack /\ e.delivery = pending[r].delivery
    BY <1>4 DEF Entry
  <2> HIDE DEF e
  <2> QED BY <2>1, <2>2 DEF Refs
<1>8. timers = timers \ Of(r)
  BY <1>1 DEF ChoInv, CoreInv, Driven
<1>9. <<r, pending[r].selected.cell>> \in prepared
  BY <1>1 DEF ChoInv, CoreInv, DeliveredIsPrepared
<1>10. \/ ExecuteCho(r, e, timers)
       \/ /\ pending' = [pending EXCEPT ![r] = e] /\ commanded' = <<>>
          /\ UNCHANGED <<timers, rrcVars>>
  BY DEF MonitorExecution
<1> HIDE DEF e
<1>11. CASE ExecuteCho(r, e, timers)
  <2>1. e.candidates \in Candidates
    BY <1>6 DEF Entry
  <2>2. /\ pending' = [pending EXCEPT ![r] = None] /\ timers' = timers \ Of(r)
        /\ \A q \in Rntis \ {r} : \A c \in Cells : <<q, c>> \in prepared => <<q, c>> \in prepared'
        /\ asked' \subseteq Rntis \X Cells /\ prepared' \subseteq Rntis \X Cells
        /\ commanded' \in (Rntis \X Cells) \cup {<<>>}
    BY <1>1, <1>8, <1>11, <2>1, ExecuteIs
  <2>3. Elsewhere(r)
    BY <1>1, <2>2, ReportIs DEF Elsewhere, ChoInv, CoreInv
  <2>4. CoreInv'
    BY <2>2, <2>3, CloseKeeps DEF ChoInv
  <2> QED BY <1>1, <1>2, <2>2, <2>4, ReportIs DEF ChoInv, RestInv
<1>12. CASE /\ pending' = [pending EXCEPT ![r] = e] /\ commanded' = <<>>
            /\ UNCHANGED <<timers, rrcVars>>
  <2>1. Elsewhere(r)
    BY <1>1, <1>12, ReportIs DEF Elsewhere, ChoInv, CoreInv, rrcVars
  <2>2. <<r, e.selected.cell>> \in prepared'
    BY <1>6, <1>9, <1>12 DEF rrcVars
  <2>3. CoreInv'
    BY <1>1, <1>2, <1>6, <1>7, <1>8, <1>12, <2>1, <2>2, MonitorKeeps DEF ChoInv
  <2> QED BY <1>1, <1>2, <1>12, <2>3, ReportIs DEF ChoInv, RestInv, rrcVars
<1> QED BY <1>10, <1>11, <1>12

-----------------------------------------------------------------------------
(* The events.                                                             *)

LEMMA DecisionKeeps ==
  ASSUME ChoInv, NEW t, OnChoDecisionCompleted(t)
  PROVE  ChoInv'
<1> DEFINE r == t.rnti
           rest == timers \ {t}
           e == [pending[r] EXCEPT !.ack = NewId]
<1>1. Firing(t, "decision") /\ commanded' = <<>> /\ UNCHANGED <<margin, histVars>>
  BY DEF OnChoDecisionCompleted
<1>2. /\ r \in Rntis /\ Open(r) /\ ~pending[r].delivered /\ pending[r] \in Entry
      /\ ~Nobody(pending[r].candidates) /\ rest = timers \ Of(r)
  BY <1>1, FiringFinds DEF Handlers
<1>3. PICK accepted \in SUBSET { pending[r].candidates[i].cell : i \in DOMAIN pending[r].candidates } :
        /\ asked' = asked \cup { <<r, c>> : c \in accepted }
        /\ IF accepted = {} THEN CancelCho(r, rest)
           ELSE /\ timers' = rest \cup {Timer(r, "poll")}
                /\ pending' = [pending EXCEPT ![r].ack = NewId]
        /\ UNCHANGED prepared
  BY <1>2 DEF OnChoDecisionCompleted
<1> HIDE DEF r
<1>4. RestInv'
  <2>1. accepted \subseteq Cells
    BY <1>2, CandidatesAre DEF Entry, Measurement
  <2> QED BY <1>1, <1>2, <1>3, <2>1 DEF ChoInv, RestInv, histVars
<1>5. Elsewhere(r)
  BY <1>1, <1>2, <1>3 DEF Elsewhere, histVars, CancelCho, ChoInv, CoreInv
<1>6. CASE accepted = {}
  <2>1. Uncancelled(rest, pending[r]) = timers \ Of(r)
    BY <1>2, CancelTakes DEF ChoInv, Of
  <2>2. CoreInv'
    BY <1>2, <1>3, <1>5, <1>6, <2>1, CloseKeeps DEF ChoInv, CancelCho
  <2> QED BY <1>4, <2>2 DEF ChoInv
<1>7. CASE accepted # {}
  <2>1. timers' = (timers \ Of(r)) \cup {Timer(r, "poll")} /\ pending' = [pending EXCEPT ![r] = e]
    BY <1>2, <1>3, <1>7
  <2>2. NewId \in Nat
    BY NewIdIs DEF ChoInv, CoreInv
  <2>3. /\ e \in Entry /\ e.ack = NewId /\ e.candidates = pending[r].candidates
        /\ e.selected = pending[r].selected /\ e.serving = pending[r].serving
        /\ e.delivered = pending[r].delivered
        /\ e.decision = pending[r].decision /\ e.delivery = pending[r].delivery
    BY <1>2, <2>2 DEF Entry
  <2> HIDE DEF e
  <2>4. Refs(e) \subseteq Refs(pending[r]) \cup {0, NewId}
    BY <1>2, <2>3 DEF Refs, Open
  <2>5. ~retuned => Fresh(r)'
    <3>1. pending'[r] = e
      BY <1>2, <2>1 DEF ChoInv, CoreInv
    <3> QED BY <1>1, <1>2, <2>3, <3>1 DEF ChoInv, CoreInv, Fresh, Met, histVars
  <2>6. CoreInv'
    BY <1>2, <1>5, <2>1, <2>3, <2>4, <2>5, AdvanceKeeps DEF ChoInv, Handlers
  <2> QED BY <1>4, <2>6 DEF ChoInv
<1> QED BY <1>6, <1>7

LEMMA PollKeeps ==
  ASSUME ChoInv, NEW t, PollConditionalPreparation(t)
  PROVE  ChoInv'
<1> DEFINE r == t.rnti
           rest == timers \ {t}
           targets == PreparedOnes(r, pending[r].candidates)
<1>1. Firing(t, "poll") /\ commanded' = <<>> /\ UNCHANGED <<margin, rrcVars, histVars>>
  BY DEF PollConditionalPreparation
<1>2. /\ r \in Rntis /\ Open(r) /\ ~pending[r].delivered /\ pending[r] \in Entry
      /\ ~Nobody(pending[r].candidates) /\ rest = timers \ Of(r)
  BY <1>1, FiringFinds DEF Handlers
<1>3. IF Nobody(targets)
      THEN /\ pending' = [pending EXCEPT ![r].ack = NewId]
           /\ timers' = rest \cup {Timer(r, "poll")}
      ELSE /\ pending' = [pending EXCEPT ![r].selected = Best(targets),
                                         ![r].delivered = FALSE,
                                         ![r].delivery = NewId]
           /\ timers' = rest \cup {Timer(r, "delivery")}
  BY <1>2 DEF PollConditionalPreparation
<1> HIDE DEF r, targets
<1>4. RestInv'
  BY <1>1 DEF ChoInv, RestInv, rrcVars, histVars
<1>5. Elsewhere(r)
  BY <1>1, <1>2, <1>3 DEF Elsewhere, histVars, rrcVars, ChoInv, CoreInv
<1>6. NewId \in Nat
  BY NewIdIs DEF ChoInv, CoreInv
<1>7. CASE Nobody(targets)
  <2> DEFINE e == [pending[r] EXCEPT !.ack = NewId]
  <2>1. timers' = (timers \ Of(r)) \cup {Timer(r, "poll")} /\ pending' = [pending EXCEPT ![r] = e]
    BY <1>2, <1>3, <1>7
  <2>2. /\ e \in Entry /\ e.ack = NewId /\ e.candidates = pending[r].candidates
        /\ e.selected = pending[r].selected /\ e.serving = pending[r].serving
        /\ e.delivered = pending[r].delivered
        /\ e.decision = pending[r].decision /\ e.delivery = pending[r].delivery
    BY <1>2, <1>6 DEF Entry
  <2> HIDE DEF e
  <2>3. Refs(e) \subseteq Refs(pending[r]) \cup {0, NewId}
    BY <1>2, <2>2 DEF Refs, Open
  <2>4. ~retuned => Fresh(r)'
    <3>1. pending'[r] = e
      BY <1>2, <2>1 DEF ChoInv, CoreInv
    <3> QED BY <1>1, <1>2, <2>2, <3>1 DEF ChoInv, CoreInv, Fresh, Met, histVars
  <2>5. CoreInv'
    BY <1>2, <1>5, <2>1, <2>2, <2>3, <2>4, AdvanceKeeps DEF ChoInv, Handlers
  <2> QED BY <1>4, <2>5 DEF ChoInv
<1>8. CASE ~Nobody(targets)
  <2> DEFINE e == [pending[r] EXCEPT !.selected = Best(targets), !.delivered = FALSE,
                                     !.delivery = NewId]
  <2>1. timers' = (timers \ Of(r)) \cup {Timer(r, "delivery")} /\ pending' = [pending EXCEPT ![r] = e]
    BY <1>2, <1>3, <1>8
  <2>2. pending[r].candidates \in Candidates
    BY <1>2 DEF Entry
  <2>3. /\ targets \in Candidates
        /\ \A i \in DOMAIN targets :
             /\ i \in DOMAIN pending[r].candidates /\ targets[i] = pending[r].candidates[i]
             /\ <<r, pending[r].candidates[i].cell>> \in prepared
    BY <2>2, PreparedOnesAre DEF targets
  <2>4. PICK k \in DOMAIN targets : Best(targets) = targets[k]
    BY <1>8, <2>3, BestIs
  <2>5. /\ k \in DOMAIN pending[r].candidates /\ Best(targets) = pending[r].candidates[k]
        /\ <<r, Best(targets).cell>> \in prepared /\ Best(targets) \in Measurement
    <3>1. k \in DOMAIN pending[r].candidates /\ Best(targets) = pending[r].candidates[k]
          /\ <<r, pending[r].candidates[k].cell>> \in prepared
      BY <2>3, <2>4
    <3> QED BY <2>2, <3>1, CandidatesAre
  <2>6. /\ e \in Entry /\ e.delivery = NewId /\ e.candidates = pending[r].candidates
        /\ e.selected = Best(targets) /\ e.serving = pending[r].serving /\ ~e.delivered
        /\ e.decision = pending[r].decision /\ e.ack = pending[r].ack
    BY <1>2, <1>6, <2>5 DEF Entry
  <2> HIDE DEF e
  <2>7. Refs(e) \subseteq Refs(pending[r]) \cup {0, NewId}
    BY <1>2, <2>6 DEF Refs, Open
  <2>8. ~retuned => Fresh(r)'
    <3>1. pending'[r] = e
      BY <1>2, <2>1 DEF ChoInv, CoreInv
    <3> QED BY <1>1, <1>2, <2>5, <2>6, <3>1 DEF ChoInv, CoreInv, Fresh, Met, histVars
  <2>9. <<r, e.selected.cell>> \in prepared'
    BY <1>1, <2>5, <2>6 DEF rrcVars
  <2>10. CoreInv'
    BY <1>2, <1>5, <2>1, <2>6, <2>7, <2>8, <2>9, AdvanceKeeps DEF ChoInv, Handlers
  <2> QED BY <1>4, <2>10 DEF ChoInv
<1> QED BY <1>7, <1>8

\* The command arrives: with the attributes of the report the condition holds.
LEMMA DeliveryFinds ==
  ASSUME ChoInv, NEW t, OnChoCommandDeliveredToUe(t)
  PROVE  /\ Firing(t, "delivery") /\ UNCHANGED <<margin, histVars>>
         /\ \/ ExecuteCho(t.rnti, pending[t.rnti], timers \ Of(t.rnti))
            \/ /\ retuned /\ pending' = [pending EXCEPT ![t.rnti].delivered = TRUE]
               /\ timers' = timers \ Of(t.rnti) /\ commanded' = <<>> /\ UNCHANGED rrcVars
<1> DEFINE r == t.rnti
<1>1. Firing(t, "delivery") /\ UNCHANGED <<margin, histVars>>
  BY DEF OnChoCommandDeliveredToUe
<1>2. r \in Rntis /\ Open(r) /\ timers \ {t} = timers \ Of(r)
  BY <1>1, FiringFinds DEF Handlers
<1>3. CASE Met(pending[r].selected.rsrp, pending[r].serving)
  BY <1>1, <1>2, <1>3 DEF OnChoCommandDeliveredToUe
<1>4. CASE ~Met(pending[r].selected.rsrp, pending[r].serving)
  <2>1. retuned
    BY <1>2, <1>4 DEF ChoInv, CoreInv, Fresh
  <2> QED BY <1>1, <1>2, <1>4, <2>1 DEF OnChoCommandDeliveredToUe
<1> QED BY <1>3, <1>4

LEMMA DeliveryKeeps ==
  ASSUME ChoInv, NEW t, OnChoCommandDeliveredToUe(t)
  PROVE  ChoInv'
<1> DEFINE r == t.rnti
<1>1. Firing(t, "delivery") /\ UNCHANGED <<margin, histVars>>
  BY DeliveryFinds
<1>2. /\ r \in Rntis /\ Open(r) /\ pending[r] \in Entry /\ ~Nobody(pending[r].candidates)
      /\ <<r, pending[r].selected.cell>> \in prepared /\ pending[r].candidates \in Candidates
  BY <1>1, FiringFinds DEF Handlers, Entry
<1>3. \/ ExecuteCho(r, pending[r], timers \ Of(r))
      \/ /\ retuned /\ pending' = [pending EXCEPT ![r].delivered = TRUE]
         /\ timers' = timers \ Of(r) /\ commanded' = <<>> /\ UNCHANGED rrcVars
  BY DeliveryFinds
<1> HIDE DEF r
<1>4. CASE ExecuteCho(r, pending[r], timers \ Of(r))
  <2>1. /\ pending' = [pending EXCEPT ![r] = None] /\ timers' = timers \ Of(r)
        /\ \A q \in Rntis \ {r} : \A c \in Cells : <<q, c>> \in prepared => <<q, c>> \in prepared'
        /\ asked' \subseteq Rntis \X Cells /\ prepared' \subseteq Rntis \X Cells
        /\ commanded' \in (Rntis \X Cells) \cup {<<>>}
    BY <1>2, <1>4, ExecuteIs
  <2>2. Elsewhere(r)
    BY <1>1, <2>1 DEF Elsewhere, histVars, ChoInv, CoreInv
  <2>3. CoreInv'
    BY <1>2, <2>1, <2>2, CloseKeeps DEF ChoInv
  <2> QED BY <1>1, <2>1, <2>3 DEF ChoInv, RestInv, histVars
<1>5. CASE /\ retuned /\ pending' = [pending EXCEPT ![r].delivered = TRUE]
           /\ timers' = timers \ Of(r) /\ commanded' = <<>> /\ UNCHANGED rrcVars
  <2> DEFINE e == [pending[r] EXCEPT !.delivered = TRUE]
  <2>1. pending' = [pending EXCEPT ![r] = e]
    BY <1>2, <1>5
  <2>2. /\ e \in Entry /\ e.candidates = pending[r].candidates /\ e.delivered
        /\ e.selected = pending[r].selected
        /\ e.decision = pending[r].decision /\ e.ack = pending[r].ack /\ e.delivery = pending[r].delivery
    BY <1>2 DEF Entry
  <2> HIDE DEF e
  <2>3. Refs(e) = Refs(pending[r])
    <3>1. e # None /\ pending[r] # None
      BY <1>2, <2>2 DEF None, Nobody
    <3> QED BY <2>2, <3>1 DEF Refs
  <2>4. Elsewhere(r)
    BY <1>1, <1>5 DEF Elsewhere, histVars, rrcVars, ChoInv, CoreInv
  <2>5. <<r, e.selected.cell>> \in prepared' /\ ~Nobody(e.candidates)
    BY <1>2, <1>5, <2>2 DEF rrcVars
  <2>6. CoreInv'
    BY <1>2, <1>5, <2>1, <2>2, <2>3, <2>4, <2>5, MonitorKeeps DEF ChoInv
  <2> QED BY <1>1, <1>5, <2>6 DEF ChoInv, RestInv, histVars, rrcVars
<1> QED BY <1>3, <1>4, <1>5

-----------------------------------------------------------------------------
(* The environment, and all steps.                                         *)

\* Nothing the algorithm holds is lost when targets answer or attributes change.
LEMMA AsidesKeep ==
  ASSUME CoreInv, UNCHANGED <<pending, timers, lastReport>>, prepared \subseteq prepared',
         retuned' \/ (UNCHANGED <<margin, retuned>>)
  PROVE  CoreInv'
<1>1. NoStrayTimers' /\ (\A r \in Rntis : Driven(r)') /\ OwnEvents'
  BY DEF CoreInv, NoStrayTimers, Driven, OwnEvents, Open, Of
<1>2. DeliveredIsPrepared'
  BY DEF CoreInv, DeliveredIsPrepared, Open, Of
<1>3. ASSUME ~retuned' PROVE \A r \in Rntis : Open(r)' => Fresh(r)'
  BY <1>3 DEF CoreInv, Fresh, Met, Open
<1>4. \A r \in Rntis : Open(r)' => pending'[r] \in Entry /\ ~Nobody(pending'[r].candidates)
  BY DEF CoreInv, Open
<1> QED BY <1>1, <1>2, <1>3, <1>4 DEF CoreInv

LEMMA EnvironmentKeeps ==
  ASSUME ChoInv,
         \/ \E r \in Rntis, c \in Cells : TargetAcks(r, c) \/ TargetFails(r, c)
         \/ \E m \in Margins : SetMargin(m)
         \/ UNCHANGED vars
  PROVE  ChoInv'
<1>1. ASSUME NEW r \in Rntis, NEW c \in Cells, TargetAcks(r, c) \/ TargetFails(r, c) PROVE ChoInv'
  <2>1. /\ UNCHANGED <<pending, timers, margin, histVars>> /\ prepared \subseteq prepared'
        /\ asked' \subseteq asked /\ prepared' \subseteq prepared \cup {<<r, c>>} /\ commanded' = <<>>
    BY <1>1 DEF TargetAcks, TargetFails
  <2>2. CoreInv'
    BY <2>1, AsidesKeep DEF ChoInv, histVars
  <2> QED BY <2>1, <2>2 DEF ChoInv, RestInv, histVars
<1>2. ASSUME NEW m \in Margins, SetMargin(m) PROVE ChoInv'
  <2>1. CoreInv'
    BY <1>2, AsidesKeep DEF SetMargin, ChoInv, rrcVars
  <2> QED BY <1>2, <2>1 DEF SetMargin, ChoInv, RestInv, rrcVars
<1>3. CASE UNCHANGED vars
  <2>1. CoreInv'
    BY <1>3, AsidesKeep DEF vars, rrcVars, histVars, ChoInv
  <2> QED BY <1>3, <2>1 DEF ChoInv, RestInv, vars, rrcVars, histVars
<1> QED BY <1>1, <1>2, <1>3

LEMMA InitEstablishes ==
  ASSUME Init
  PROVE  ChoInv
<1>1. CoreInv
  BY FS_EmptySet DEF Init, CoreInv, NoStrayTimers, Driven, OwnEvents, DeliveredIsPrepared, Open
<1>2. RestInv
  <2>1. 0 \in 0..MaxReports
    BY ChoAssumption
  <2>2. reports \in [Rntis -> 0..MaxReports] /\ lastReport \in [Rntis -> Reports \cup {NoReport}]
    BY <2>1 DEF Init
  <2>3. commanded \in (Rntis \X Cells) \cup {<<>>}
    BY Zenon DEF Init
  <2> QED BY <2>2, <2>3 DEF Init, RestInv
<1> QED BY <1>1, <1>2 DEF ChoInv

LEMMA StepKeeps ==
  ASSUME ChoInv, [Next]_vars
  PROVE  ChoInv'
<1>1. ASSUME NEW r \in Rntis, NEW rep \in Reports, DoReportUeMeas(r, rep) PROVE ChoInv'
  BY <1>1, MonitorExecutionKeeps, LeaveConditionKeeps, StartAttemptKeeps DEF DoReportUeMeas
<1>2. ASSUME NEW r \in Rntis, Fire(r) PROVE ChoInv'
  BY <1>2, DecisionKeeps, PollKeeps, DeliveryKeeps DEF Fire
<1> QED BY <1>1, <1>2, EnvironmentKeeps DEF Next

-----------------------------------------------------------------------------
(* Theorems.                                                               *)

\* The inductive invariant: an entry refers to the events of its own UE, one of
\* which drives it, and comes from the last report unless an attribute changed.
THEOREM Invariance == Spec => []ChoInv
<1>1. Init => ChoInv
  BY InitEstablishes
<1>2. ChoInv /\ [Next]_vars => ChoInv'
  BY StepKeeps
<1> QED BY <1>1, <1>2, PTL DEF Spec

\* The algorithm's entries, events and histories keep their types, and an entry
\* is never without candidates.
THEOREM TypeCorrect == Spec => []TypeOK
<1>1. ChoInv => TypeOK
  BY DEF ChoInv, CoreInv, RestInv, TypeOK
<1> QED BY <1>1, Invariance, PTL

\* Cancelling, replacing or executing an attempt leaves none of its events
\* behind: every pending event is the one its UE's entry stores (CancelCho).
THEOREM EventsOfTheirEntry == Spec => []NoStrayTimers
<1>1. ChoInv => NoStrayTimers
  BY DEF ChoInv, CoreInv
<1> QED BY <1>1, Invariance, PTL

\* Every attempt is driven by exactly one event until the UE holds the command,
\* and by none after it.
THEOREM DrivenByOneEvent == Spec => []EveryAttemptDriven
<1>1. ASSUME ChoInv PROVE EveryAttemptDriven
  <2>1. ASSUME NEW r \in Rntis, Open(r)
        PROVE  Cardinality(Of(r)) = IF pending[r].delivered THEN 0 ELSE 1
    <3>1. CASE pending[r].delivered
      BY <1>1, <2>1, <3>1, FS_EmptySet DEF ChoInv, CoreInv, Driven
    <3>2. CASE ~pending[r].delivered
      <4>1. PICK t \in timers : Of(r) = {t}
        BY <1>1, <2>1, <3>2 DEF ChoInv, CoreInv, Driven
      <4> QED BY <3>2, <4>1, FS_Singleton
    <3> QED BY <3>1, <3>2
  <2> QED BY <2>1 DEF EveryAttemptDriven
<1> QED BY <1>1, Invariance, PTL

\* A command on its way to the UE, or stored there, is one the RRC holds.
THEOREM DeliveredCommandIsHeld == Spec => []DeliveredIsPrepared
<1>1. ChoInv => DeliveredIsPrepared
  BY DEF ChoInv, CoreInv
<1> QED BY <1>1, Invariance, PTL

\* With attributes that do not change the command is carried out on delivery:
\* the monitoring of the execution condition is never reached.
THEOREM CarriedOutOnDelivery == Spec => []ExecutedOnDelivery
<1>1. ChoInv => ExecutedOnDelivery
  BY DEF ChoInv, CoreInv, Fresh, ExecutedOnDelivery
<1> QED BY <1>1, Invariance, PTL

\* With attributes that do not change a UE is handed over only to a prepared
\* cell that met the condition in the last report the UE sent.
THEOREM HandoverIsOfLastReport == Spec => HandoverMatchesLastReport
<1> DEFINE Matches ==
      LET r == commanded'[1]   c == commanded'[2] IN
      /\ commanded' \in prepared
      /\ \E i \in 1..Len(lastReport'[r].list) :
           /\ lastReport'[r].list[i].cell = c
           /\ Met(lastReport'[r].list[i].rsrp, lastReport'[r].serving)
<1>1. ASSUME ChoInv, Next, commanded' # <<>>, ~retuned PROVE Matches
  <2>1. ASSUME NEW r \in Rntis, NEW rep \in Reports, DoReportUeMeas(r, rep) PROVE FALSE
    <3>1. CASE MonitorExecution(r, rep)
      BY <1>1, <3>1, MonitorExecutionKeeps
    <3> QED BY <1>1, <2>1, <3>1 DEF DoReportUeMeas, LeaveCondition, StartAttempt
  <2>2. ASSUME NEW t, OnChoCommandDeliveredToUe(t) PROVE Matches
    <3> DEFINE r == t.rnti
    <3>1. Firing(t, "delivery") /\ UNCHANGED histVars
          /\ ExecuteCho(r, pending[r], timers \ Of(r))
      BY <1>1, <2>2, DeliveryFinds
    <3>2. r \in Rntis /\ Open(r) /\ pending[r].candidates \in Candidates
      BY <1>1, <3>1, FiringFinds DEF Handlers, Entry
    <3>3. PICK i \in DOMAIN pending[r].candidates :
            commanded' = <<r, pending[r].candidates[i].cell>> /\ commanded' \in prepared
      BY <1>1, <3>1, <3>2, ExecuteIs
    <3>4. Fresh(r)
      BY <1>1, <3>2 DEF ChoInv, CoreInv
    <3> HIDE DEF r
    <3>5. PICK k \in 1..Len(lastReport[r].list) :
            lastReport[r].list[k] = pending[r].candidates[i]
      BY <3>4 DEF Fresh
    <3>6. Met(lastReport[r].list[k].rsrp, lastReport[r].serving)
      BY <3>4, <3>5 DEF Fresh
    <3>7. lastReport' = lastReport /\ commanded'[1] = r
          /\ commanded'[2] = lastReport[r].list[k].cell
      BY <3>1, <3>3, <3>5 DEF histVars
    <3> QED BY <3>3, <3>5, <3>6, <3>7
  <2>3. ASSUME NEW r \in Rntis, Fire(r) PROVE Matches
    <3>1. ASSUME NEW t, OnChoDecisionCompleted(t) \/ PollConditionalPreparation(t) PROVE FALSE
      BY <1>1, <3>1 DEF OnChoDecisionCompleted, PollConditionalPreparation
    <3> QED BY <2>2, <2>3, <3>1 DEF Fire
  <2> QED BY <1>1, <2>1, <2>3 DEF Next, TargetAcks, TargetFails, SetMargin
<1>2. ChoInv /\ [Next]_vars => [commanded' # <<>> /\ ~retuned => Matches]_vars
  BY <1>1
<1>3. Spec => [][commanded' # <<>> /\ ~retuned => Matches]_vars
  BY <1>2, Invariance, PTL DEF Spec
<1> QED BY <1>3 DEF HandoverMatchesLastReport

=============================================================================

-------------------------- MODULE ConditionalHandover --------------------------
(***************************************************************************)
(* NrConditionalHandoverAlgorithm: the conditional handover (CHO) that the *)
(* serving gNB runs for each of its UEs.  A measurement report with a      *)
(* strong enough neighbour opens an attempt; after the decision delay the  *)
(* candidate cells are asked to prepare; the algorithm polls the RRC until *)
(* one of them has; the command travels to the UE; the handover is carried *)
(* out when the execution condition holds.                                 *)
(*                                                                         *)
(* Each handler runs as one simulator event and is one action.  The        *)
(* EventIds an attempt keeps and the simulator's pending events are        *)
(* separate, so that an event outliving its attempt would be seen: its     *)
(* handler is given the RNTI only.  NrGnbRrc, which stores the prepared    *)
(* commands, is external: its .cc file is not part of the tree.            *)
(***************************************************************************)
EXTENDS Integers, Sequences, FiniteSets

CONSTANTS
  Rntis,           \* the UEs of the cell
  Cells,           \* neighbour cells
  Reports,         \* measurement reports: [serving, list], see below
  Margins,         \* values of Hysteresis + A3Offset, in RSRP steps
  ExecutionModes,  \* values of EnableHandoverExecution
  MaxReports       \* bound: reports per UE

\* A report carries the RSRP of the serving cell and a list of neighbours with
\* theirs.  A neighbour without an RSRP result is skipped everywhere and is
\* left out of the list; a report without neighbours is ignored.
\* An RSRP is a uint8_t.
Measurement == [cell : Cells, rsrp : 0..255]
ReportType  == [serving : 0..255, list : Seq(Measurement)]

ASSUME ChoAssumption ==
  /\ IsFiniteSet(Rntis)
  /\ Reports \subseteq ReportType
  /\ Margins \subseteq Int
  /\ ExecutionModes \subseteq BOOLEAN
  /\ MaxReports \in Nat

VARIABLES
  pending,    \* m_pendingCho: rnti |-> entry or None
  timers,     \* the algorithm's pending simulator events: [id, rnti, handler]
  margin,     \* m_hysteresisDb + m_a3OffsetDb
  asked,      \* RRC: <<rnti, cell>> whose X2 preparation is under way
  prepared,   \* RRC: <<rnti, cell>> whose command is stored
  lastReport, \* history: the last report the algorithm took from each UE
  reports,    \* history: how many it took
  retuned,    \* history: an attribute was changed
  commanded   \* history: <<rnti, cell>> handed over by the last step, or <<>>

rrcVars == <<asked, prepared>>
histVars == <<lastReport, reports, retuned>>
vars == <<pending, timers, margin, rrcVars, histVars, commanded>>

None == [candidates |-> <<>>]
NoReport == [serving |-> 0, list |-> <<>>]
Handlers == {"decision", "poll", "delivery"}
Open(r) == pending[r] # None

-----------------------------------------------------------------------------
(* Candidates: measurements by their places in the report.                 *)

\* std::max_element: the first of the largest.
Best(cands) ==
  cands[CHOOSE i \in DOMAIN cands :
          \A j \in DOMAIN cands : /\ cands[j].rsrp <= cands[i].rsrp
                                  /\ j < i => cands[j].rsrp < cands[i].rsrp]

PreparedOnes(r, cands) ==
  [i \in { j \in DOMAIN cands : <<r, cands[j].cell>> \in prepared } |-> cands[i]]

Nobody(cands) == DOMAIN cands = {}

Met(rsrp, serving) == rsrp > serving + margin

\* The list holds a cell at most once.
Refreshed(cands, list) ==
  [i \in DOMAIN cands |->
     IF \E k \in 1..Len(list) : list[k].cell = cands[i].cell
     THEN CHOOSE m \in { list[k] : k \in 1..Len(list) } : m.cell = cands[i].cell
     ELSE cands[i]]

-----------------------------------------------------------------------------
(* The simulator's events.                                                 *)

Refs(e) == IF e = None THEN {} ELSE {e.decision, e.ack, e.delivery}

\* An identity no pending event and no stored EventId has.
NewId ==
  LET used == { t.id : t \in timers } \cup UNION { Refs(pending[r]) : r \in Rntis }
  IN  CHOOSE i \in 1..Cardinality(used) + 1 :
        i \notin used /\ \A j \in 1..i - 1 : j \in used

Timer(r, h) == [id |-> NewId, rnti |-> r, handler |-> h]

Firing(t, h) == t \in timers /\ t.handler = h

-----------------------------------------------------------------------------
(* CancelCho and ExecuteCho, called from the handlers on the entry e of r   *)
(* with the events ts.                                                     *)

\* Mutant: the poll is not cancelled.
MutUncancelled(ts, e) == { t \in ts : t.id \notin Refs(e) \/ t.handler = "poll" }

Uncancelled(ts, e) == { t \in ts : t.id \notin Refs(e) }

CancelCho(r, ts) ==
  /\ pending' = [pending EXCEPT ![r] = None]
  /\ timers' = Uncancelled(ts, pending[r])

\* ExecuteConditionalHandover may refuse; else the RRC sends the command and
\* drops what it prepared for the UE.
RrcExecute(r, cell) ==
  \/ UNCHANGED rrcVars /\ commanded' = <<>>
  \/ /\ asked' = { x \in asked : x[1] # r }
     /\ prepared' = { x \in prepared : x[1] # r }
     /\ commanded' = <<r, cell>>

ExecuteCho(r, e, ts) ==
  LET targets == PreparedOnes(r, e.candidates) IN
  IF Nobody(targets)
  THEN CancelCho(r, ts) /\ UNCHANGED rrcVars /\ commanded' = <<>>
  ELSE /\ pending' = [pending EXCEPT ![r] = None]
       /\ timers' = ts
       /\ \E on \in ExecutionModes :
            IF on THEN RrcExecute(r, Best(targets).cell)
                  ELSE UNCHANGED rrcVars /\ commanded' = <<>>

-----------------------------------------------------------------------------
(* DoReportUeMeas.                                                         *)

TakeReport(r, rep) ==
  /\ reports[r] < MaxReports
  /\ rep \in Reports
  /\ lastReport' = [lastReport EXCEPT ![r] = rep]
  /\ reports' = [reports EXCEPT ![r] = @ + 1]
  /\ UNCHANGED <<margin, retuned>>

\* The UE holds the command: watch the execution condition.
MonitorExecution(r, rep) ==
  LET e == [pending[r] EXCEPT !.candidates = Refreshed(@, rep.list),
                              !.serving = rep.serving] IN
  /\ TakeReport(r, rep)
  /\ Open(r) /\ pending[r].delivered
  /\ IF Met(Best(e.candidates).rsrp, e.serving)
     THEN ExecuteCho(r, e, timers)
     ELSE pending' = [pending EXCEPT ![r] = e] /\ commanded' = <<>>
          /\ UNCHANGED <<timers, rrcVars>>

Qualified(rep) ==
  [i \in { j \in DOMAIN rep.list : Met(rep.list[j].rsrp, rep.serving) } |-> rep.list[i]]

\* No neighbour is strong enough: an attempt under way is given up.
LeaveCondition(r, rep) ==
  /\ TakeReport(r, rep)
  /\ ~(Open(r) /\ pending[r].delivered)
  /\ Nobody(Qualified(rep))
  /\ commanded' = <<>>
  /\ IF Open(r) THEN CancelCho(r, timers) ELSE UNCHANGED <<pending, timers>>
  /\ UNCHANGED rrcVars

\* Mutant: the old entry is not cancelled, and emplace does not replace it.
MutStartAttempt(r, rep) ==
  LET cands == Qualified(rep) IN
  /\ TakeReport(r, rep)
  /\ ~(Open(r) /\ pending[r].delivered)
  /\ ~Nobody(cands)
  /\ commanded' = <<>>
  /\ timers' = timers \cup {Timer(r, "decision")}
  /\ pending' = [pending EXCEPT ![r] =
       IF Open(r) THEN @ ELSE
       [candidates |-> cands, serving |-> rep.serving, selected |-> Best(cands),
        delivered |-> FALSE, decision |-> NewId, ack |-> 0, delivery |-> 0]]
  /\ UNCHANGED rrcVars

\* A new attempt, in the place of the one under way.
StartAttempt(r, rep) ==
  LET cands == Qualified(rep) IN
  /\ TakeReport(r, rep)
  /\ ~(Open(r) /\ pending[r].delivered)
  /\ ~Nobody(cands)
  /\ commanded' = <<>>
  /\ timers' = Uncancelled(timers, pending[r]) \cup {Timer(r, "decision")}
  /\ pending' = [pending EXCEPT ![r] =
       [candidates |-> cands, serving |-> rep.serving, selected |-> Best(cands),
        delivered |-> FALSE, decision |-> NewId, ack |-> 0, delivery |-> 0]]
  /\ UNCHANGED rrcVars

-----------------------------------------------------------------------------
(* The handlers of the attempt's events.                                   *)

\* OnChoDecisionCompleted: the RRC takes or refuses each candidate.
OnChoDecisionCompleted(t) ==
  LET r == t.rnti   rest == timers \ {t} IN
  /\ Firing(t, "decision")
  /\ commanded' = <<>>
  /\ IF ~Open(r) THEN timers' = rest /\ UNCHANGED <<pending, rrcVars>>
     ELSE \E accepted \in SUBSET { pending[r].candidates[i].cell :
                                   i \in DOMAIN pending[r].candidates } :
            /\ asked' = asked \cup { <<r, c>> : c \in accepted }
            /\ IF accepted = {} THEN CancelCho(r, rest)
               ELSE /\ timers' = rest \cup {Timer(r, "poll")}
                    /\ pending' = [pending EXCEPT ![r].ack = NewId]
            /\ UNCHANGED prepared
  /\ UNCHANGED <<margin, histVars>>

\* Mutant: the command is sent without waiting for a prepared target.
MutPollConditionalPreparation(t) ==
  LET r == t.rnti   rest == timers \ {t} IN
  /\ Firing(t, "poll")
  /\ commanded' = <<>>
  /\ IF ~Open(r) THEN timers' = rest /\ UNCHANGED pending
     ELSE /\ pending' = [pending EXCEPT ![r].delivered = FALSE, ![r].delivery = NewId]
          /\ timers' = rest \cup {Timer(r, "delivery")}
  /\ UNCHANGED <<margin, rrcVars, histVars>>

\* Mutant: an unanswered poll is not repeated.
MutPollOnce(t) ==
  LET r == t.rnti   rest == timers \ {t} IN
  /\ Firing(t, "poll")
  /\ commanded' = <<>>
  /\ IF ~Open(r) \/ Nobody(PreparedOnes(r, pending[r].candidates))
     THEN timers' = rest /\ UNCHANGED pending
     ELSE /\ pending' = [pending EXCEPT
               ![r].selected = Best(PreparedOnes(r, pending[r].candidates)),
               ![r].delivered = FALSE, ![r].delivery = NewId]
          /\ timers' = rest \cup {Timer(r, "delivery")}
  /\ UNCHANGED <<margin, rrcVars, histVars>>

\* Mutant: only the candidate selected at the start is waited for.
MutPollSelected(t) ==
  LET r == t.rnti   rest == timers \ {t} IN
  /\ Firing(t, "poll")
  /\ commanded' = <<>>
  /\ IF ~Open(r) THEN timers' = rest /\ UNCHANGED pending
     ELSE IF Nobody(PreparedOnes(r, <<pending[r].selected>>))
     THEN /\ pending' = [pending EXCEPT ![r].ack = NewId]
          /\ timers' = rest \cup {Timer(r, "poll")}
     ELSE /\ pending' = [pending EXCEPT ![r].delivered = FALSE, ![r].delivery = NewId]
          /\ timers' = rest \cup {Timer(r, "delivery")}
  /\ UNCHANGED <<margin, rrcVars, histVars>>

\* PollConditionalPreparation and the OnHandoverPreparationCompleted it calls:
\* send the command once a candidate is prepared, else poll again.
PollConditionalPreparation(t) ==
  LET r == t.rnti   rest == timers \ {t}
      targets == PreparedOnes(r, pending[r].candidates) IN
  /\ Firing(t, "poll")
  /\ commanded' = <<>>
  /\ IF ~Open(r) THEN timers' = rest /\ UNCHANGED pending
     ELSE IF Nobody(targets)
     THEN /\ pending' = [pending EXCEPT ![r].ack = NewId]
          /\ timers' = rest \cup {Timer(r, "poll")}
     ELSE /\ pending' = [pending EXCEPT ![r].selected = Best(targets),
                                        ![r].delivered = FALSE,
                                        ![r].delivery = NewId]
          /\ timers' = rest \cup {Timer(r, "delivery")}
  /\ UNCHANGED <<margin, rrcVars, histVars>>

\* Mutant: the entry forgets its candidates when the command is delivered.
MutDeliveredEmpty(t) ==
  LET r == t.rnti IN
  /\ Firing(t, "delivery")
  /\ pending' = [pending EXCEPT ![r].candidates = <<>>]
  /\ timers' = timers \ {t} /\ commanded' = <<>>
  /\ UNCHANGED <<margin, rrcVars, histVars>>

\* OnChoCommandDeliveredToUe: the condition is tested with the stored RSRPs.
OnChoCommandDeliveredToUe(t) ==
  LET r == t.rnti   rest == timers \ {t} IN
  /\ Firing(t, "delivery")
  /\ IF Open(r) /\ Met(pending[r].selected.rsrp, pending[r].serving)
     THEN ExecuteCho(r, pending[r], rest)
     ELSE /\ pending' = IF Open(r) THEN [pending EXCEPT ![r].delivered = TRUE]
                                   ELSE pending
          /\ timers' = rest /\ commanded' = <<>>
          /\ UNCHANGED rrcVars
  /\ UNCHANGED <<margin, histVars>>

-----------------------------------------------------------------------------
(* The environment.                                                        *)

\* The X2 answer of a target: an acknowledgement or a failure.
TargetAcks(r, c) ==
  /\ <<r, c>> \in asked
  /\ asked' = asked \ {<<r, c>>}
  /\ prepared' = prepared \cup {<<r, c>>}
  /\ commanded' = <<>>
  /\ UNCHANGED <<pending, timers, margin, histVars>>

TargetFails(r, c) ==
  /\ <<r, c>> \in asked
  /\ asked' = asked \ {<<r, c>>}
  /\ commanded' = <<>>
  /\ UNCHANGED <<pending, timers, margin, prepared, histVars>>

\* SetAttribute on Hysteresis or A3Offset while the simulation runs.
SetMargin(m) ==
  /\ m \in Margins \ {margin}
  /\ margin' = m
  /\ retuned' = TRUE
  /\ commanded' = <<>>
  /\ UNCHANGED <<pending, timers, rrcVars, lastReport, reports>>

-----------------------------------------------------------------------------
Init ==
  /\ pending = [r \in Rntis |-> None]
  /\ timers = {}
  /\ margin \in Margins
  /\ asked = {} /\ prepared = {}
  /\ lastReport = [r \in Rntis |-> NoReport]
  /\ reports = [r \in Rntis |-> 0]
  /\ retuned = FALSE
  /\ commanded = <<>>

Fire(r) ==
  \E t \in { x \in timers : x.rnti = r } :
    \/ OnChoDecisionCompleted(t)
    \/ PollConditionalPreparation(t)
    \/ OnChoCommandDeliveredToUe(t)

DoReportUeMeas(r, rep) ==
  MonitorExecution(r, rep) \/ LeaveCondition(r, rep) \/ StartAttempt(r, rep)

Next ==
  \/ \E r \in Rntis, rep \in Reports : DoReportUeMeas(r, rep)
  \/ \E r \in Rntis : Fire(r)
  \/ \E r \in Rntis, c \in Cells : TargetAcks(r, c) \/ TargetFails(r, c)
  \/ \E m \in Margins : SetMargin(m)

Spec == Init /\ [][Next]_vars

\* The simulator executes every pending event (DefaultSimulator).
FairSpec == Spec /\ \A r \in Rntis : WF_vars(Fire(r))

-----------------------------------------------------------------------------
(* Properties.                                                             *)

Candidates ==
  UNION { [I -> Measurement] : I \in SUBSET UNION { DOMAIN rep.list : rep \in Reports } }

Entry == [candidates : Candidates, serving : 0..255, selected : Measurement,
          delivered : BOOLEAN, decision : Nat, ack : Nat, delivery : Nat]

TypeOK ==
  /\ pending \in [Rntis -> Entry \cup {None}]
  /\ \A r \in Rntis : Open(r) => ~Nobody(pending[r].candidates)
  /\ timers \subseteq [id : Nat, rnti : Rntis, handler : Handlers]
  /\ margin \in Margins
  /\ asked \subseteq Rntis \X Cells /\ prepared \subseteq Rntis \X Cells
  /\ lastReport \in [Rntis -> Reports \cup {NoReport}]
  /\ reports \in [Rntis -> 0..MaxReports] /\ retuned \in BOOLEAN
  /\ commanded \in (Rntis \X Cells) \cup {<<>>}

Of(r) == { t \in timers : t.rnti = r }

\* No event of an attempt that was cancelled, replaced or executed is left to
\* act on a later attempt of the same RNTI.
NoStrayTimers ==
  \A t \in timers :
    /\ Open(t.rnti)
    /\ t.id = CASE t.handler = "decision" -> pending[t.rnti].decision
                [] t.handler = "poll"     -> pending[t.rnti].ack
                [] t.handler = "delivery" -> pending[t.rnti].delivery

\* An attempt is never stuck: until the command is with the UE exactly one
\* event will take it on.  After that only reports do.
EveryAttemptDriven ==
  \A r \in Rntis : Open(r) =>
    Cardinality(Of(r)) = IF pending[r].delivered THEN 0 ELSE 1

\* The command on its way to the UE, or stored there, is one the RRC holds,
\* whatever happened to the other candidates in the meantime.
DeliveredIsPrepared ==
  \A r \in Rntis :
    Open(r) /\ (pending[r].delivered \/ \E t \in Of(r) : t.handler = "delivery")
      => <<r, pending[r].selected.cell>> \in prepared

\* With attributes that do not change the UE never monitors the execution
\* condition: it holds with the RSRPs of the report that opened the attempt,
\* so that the handover is carried out the moment the command is delivered.
ExecutedOnDelivery ==
  ~retuned => \A r \in Rntis : Open(r) => ~pending[r].delivered

\* With attributes that do not change a UE is handed over only to a cell the
\* RRC had prepared and that met the condition in the last report the UE sent:
\* no attempt outlives the report that contradicts it.
HandoverMatchesLastReport ==
  [][commanded' # <<>> /\ ~retuned =>
       LET r == commanded'[1]   c == commanded'[2] IN
       /\ commanded' \in prepared
       /\ \E i \in 1..Len(lastReport'[r].list) :
            /\ lastReport'[r].list[i].cell = c
            /\ Met(lastReport'[r].list[i].rsrp, lastReport'[r].serving)]_vars

\* nr-x2-conditional-handover-test.cc on enableChoExecution, "Execute actual NR
\* conditional handover after CHO execution condition is met": the cell handed
\* over to is one whose stored RSRP meets the condition.
HandoverMeetsCondition ==
  [][commanded' # <<>> =>
       LET r == commanded'[1]
           cands == IF pending[r].delivered
                    THEN Refreshed(pending[r].candidates, lastReport'[r].list)
                    ELSE pending[r].candidates
           serving == IF pending[r].delivered THEN lastReport'[r].serving
                                              ELSE pending[r].serving
       IN  \E i \in DOMAIN cands : /\ cands[i].cell = commanded'[2]
                                   /\ Met(cands[i].rsrp, serving)]_vars

Polling(r) == \E t \in Of(r) : t.handler = "poll"

\* A target that has prepared is made use of: the command is delivered and the
\* attempt ends or is monitored, unless a newer report takes its place.
PreparedIsUsed ==
  \A r \in Rntis :
    (/\ Polling(r)
     /\ \E i \in DOMAIN pending[r].candidates :
          <<r, pending[r].candidates[i].cell>> \in prepared)
      ~> \/ ~Open(r) \/ pending[r].delivered
         \/ \E t \in Of(r) : t.handler = "decision"

=============================================================================

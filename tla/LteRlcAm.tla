-------------------------------- MODULE LteRlcAm --------------------------------
(***************************************************************************)
(* LteRlcAm: the acknowledged mode of the LTE radio link control, of one   *)
(* direction: the transmitting side of one entity, the receiving side of   *)
(* its peer, and between them the MAC, which loses PDUs and, with several  *)
(* HARQ processes, lets them overtake one another.                         *)
(*                                                                         *)
(* An SDU is SduUnits units, the granularity at which transmission         *)
(* opportunities cut the stream of SDUs into data PDUs; a unit is a pair   *)
(* <<SDU, place in it>>.  Sequence numbers count modulo SnMod (1024 in     *)
(* the code), and the window is half of that.  Timers fire at any time     *)
(* while they are pending.  The retransmission counters, which are only    *)
(* logged, are left out.                                                   *)
(*                                                                         *)
(* Both entities are part of a two-way connection, so that opportunities   *)
(* may come at any time; the MAC owes one only for what a buffer status    *)
(* report told it of.                                                      *)
(***************************************************************************)
EXTENDS Integers, Sequences, FiniteSets

CONSTANTS
  SnMod,       \* the sequence number space
  PollPdu,     \* m_pollPdu
  PollByte,    \* m_pollByte, in units
  MaxTxBuffer, \* m_maxTxBufferSize, in units
  SduUnits,    \* units of an SDU
  PduUnits,    \* bound: units of a data PDU
  DataOvertaking, StatusOvertaking, \* bound: how many later PDUs of a direction
               \* overtake one in the MAC
  DataInFlight, StatusInFlight, \* bound: PDUs of a direction under way
  MaxSdus      \* bound: SDUs accepted

ASSUME RlcAssumption ==
  /\ SnMod \in Nat /\ SnMod % 2 = 0 /\ SnMod > 0
  /\ {PollPdu, PollByte, SduUnits, PduUnits, DataInFlight, StatusInFlight} \subseteq Nat \ {0}
  /\ {MaxTxBuffer, DataOvertaking, StatusOvertaking, MaxSdus} \subseteq Nat

Window == SnMod \div 2
SN == 0..SnMod - 1

VARIABLES
  txon,         \* m_txonBuffer: units not yet sent
  txed,         \* sequence numbers in m_txedBuffer: sent and not acknowledged
  retx,         \* sequence numbers in m_retxBuffer
  data,         \* data[sn]: the units of the PDU in one of these buffers
  vtA, vtS,     \* VT(A), VT(S)
  pollSn,       \* POLL_SN
  withoutPoll,  \* <<PDU_WITHOUT_POLL, BYTE_WITHOUT_POLL>>
  pollTimer,    \* m_pollRetransmitTimer is pending
  justExpired,  \* m_pollRetransmitTimerJustExpired
  rbsTimer,     \* m_rbsTimer is pending: it repeats the buffer status report
  rxon,         \* m_rxonBuffer: the units of each sequence number in it
  vrR, vrMs, vrH, vrX, \* VR(R), VR(MS), VR(H), VR(X)
  reordering,   \* m_reorderingTimer is pending
  requested,    \* m_statusPduRequested
  announced,    \* the MAC has been told of the STATUS PDU
  prohibited,   \* m_statusProhibitTimer is pending
  assembly,     \* [keep, expected, up]: m_keepS0 while it waits for more, the
                \* expected sequence number, and the units handed up so far
  pdus,         \* data PDUs under way
  statuses,     \* STATUS PDUs under way
  accepted      \* history: SDUs accepted

txVars == <<txon, txed, retx, data, vtA, vtS, pollSn, withoutPoll, pollTimer, justExpired, rbsTimer, accepted>>
rxVars == <<rxon, vrR, vrMs, vrH, vrX, reordering, requested, announced, prohibited, assembly>>
macVars == <<pdus, statuses>>
vars == <<txVars, rxVars, macVars>>

\* SequenceNumber10: comparisons are made on the distance from a modulus base.
Plus(sn, n) == (sn + n) % SnMod
Off(sn, base) == (sn - base) % SnMod
Between(a, b) == { Plus(a, i) : i \in 0..Off(b, a) - 1 }

VtMs == Plus(vtA, Window)

-----------------------------------------------------------------------------
(* The MAC and PHY, as the environment of the RLC: PDUs are lost, the       *)
(* oldest first, and overtaken a bounded number of times.                  *)

CanArrive(q, i, most) == \A j \in 1..i - 1 : q[j].late < most

Overtaken(m) == [m EXCEPT !.late = @ + 1]

\* The queue without its i-th PDU, which overtook those before it.
Arrived(q, i) ==
  [j \in 1..i - 1 |-> Overtaken(q[j])] \o SubSeq(q, i + 1, Len(q))

LosePdu ==
  /\ pdus # << >>
  /\ pdus' = Tail(pdus)
  /\ UNCHANGED <<txVars, rxVars, statuses>>

LoseStatus ==
  /\ statuses # << >>
  /\ statuses' = Tail(statuses)
  /\ UNCHANGED <<txVars, rxVars, pdus>>

-----------------------------------------------------------------------------
(* The transmitting side.                                                  *)

\* DoTransmitPdcpPdu: an SDU that does not fit is dropped.  What there is to
\* send is reported now and at every expiry of m_rbsTimer.
TransmitPdcpPdu ==
  /\ accepted < MaxSdus
  /\ Len(txon) + SduUnits <= MaxTxBuffer \/ MaxTxBuffer = 0
  /\ accepted' = accepted + 1
  /\ txon' = txon \o [k \in 1..SduUnits |-> <<accepted + 1, k>>]
  /\ rbsTimer' = TRUE
  /\ UNCHANGED <<txed, retx, data, vtA, vtS, pollSn, withoutPoll, pollTimer,
                 justExpired, rxVars, macVars>>

\* A data PDU that asks for a STATUS starts the timer anew.
Poll(asked, s, counts) ==
  IF asked
  THEN /\ pollSn' = Off(s, 1) /\ pollTimer' = TRUE
       /\ justExpired' = FALSE /\ withoutPoll' = <<0, 0>>
  ELSE withoutPoll' = counts /\ UNCHANGED <<pollSn, pollTimer, justExpired>>

\* DoNotifyTxOpportunity with PDUs to retransmit: the first of them.
Retransmit(sn) ==
  LET asked == \/ txon = << >> /\ retx = {sn}
               \/ vtS = VtMs
               \/ justExpired
  IN
  /\ sn \in retx /\ Between(vtA, sn) \cap retx = {}
  /\ Len(pdus) < DataInFlight
  /\ Poll(asked, vtS, withoutPoll)
  /\ pdus' = Append(pdus, [sn |-> sn, poll |-> asked, units |-> data[sn], late |-> 0])
  /\ retx' = retx \ {sn} /\ txed' = txed \cup {sn}
  /\ UNCHANGED <<txon, data, vtA, vtS, rbsTimer, accepted, rxVars, statuses>>

\* Mutant: the window is not looked at.
MutWindowOpen == TRUE
WindowOpen == vtS # VtMs

\* The delay of the MAC is short of a window of PDUs: none is under way any
\* more when its successor by a window is sent.
MacDrained == \A i \in DOMAIN pdus : pdus[i].sn # Plus(vtS, Window)

\* DoNotifyTxOpportunity with new data: the opportunity takes n units.
TransmitNew(n) ==
  LET units == SubSeq(txon, 1, n)
      rest == SubSeq(txon, n + 1, Len(txon))
      counts == <<withoutPoll[1] + 1, withoutPoll[2] + n>>
      asked == \/ counts[1] >= PollPdu \/ counts[2] >= PollByte
               \/ rest = << >>
               \/ Plus(vtS, 1) = VtMs
               \/ justExpired
  IN
  /\ retx = {} /\ n \in 1..Len(txon) /\ WindowOpen
  /\ Len(pdus) < DataInFlight /\ MacDrained
  /\ txon' = rest
  /\ vtS' = Plus(vtS, 1)
  /\ data' = [data EXCEPT ![vtS] = units]
  /\ txed' = txed \cup {vtS}
  /\ Poll(asked, vtS', counts)
  /\ pdus' = Append(pdus, [sn |-> vtS, poll |-> asked, units |-> units, late |-> 0])
  /\ UNCHANGED <<retx, vtA, rbsTimer, accepted, rxVars, statuses>>

\* Mutant: only what was sent first is sent again.
MutExpirePollRetransmitTimer ==
  /\ pollTimer
  /\ pollTimer' = FALSE /\ justExpired' = TRUE
  /\ UNCHANGED <<txed, retx, txon, data, vtA, vtS, pollSn, withoutPoll, rbsTimer, accepted, rxVars, macVars>>

\* Mutant: the PDUs are copied to m_retxBuffer and stay in m_txedBuffer.
MutCopied ==
  /\ pollTimer
  /\ pollTimer' = FALSE /\ justExpired' = TRUE
  /\ IF (txon = << >> /\ retx = {}) \/ vtS = VtMs
     THEN retx' = retx \cup txed
     ELSE UNCHANGED retx
  /\ UNCHANGED <<txed, txon, data, vtA, vtS, pollSn, withoutPoll, rbsTimer, accepted, rxVars, macVars>>

\* When there is nothing else to carry the poll, all that is not acknowledged
\* is to be sent again.
ExpirePollRetransmitTimer ==
  /\ pollTimer
  /\ pollTimer' = FALSE /\ justExpired' = TRUE
  /\ IF (txon = << >> /\ retx = {}) \/ vtS = VtMs
     THEN retx' = retx \cup txed /\ txed' = {}
     ELSE UNCHANGED <<retx, txed>>
  /\ UNCHANGED <<txon, data, vtA, vtS, pollSn, withoutPoll, rbsTimer, accepted, rxVars, macVars>>

\* The report is repeated as long as there is anything in the buffers.
ExpireRbsTimer ==
  /\ rbsTimer
  /\ rbsTimer' = (txon # << >> \/ txed # {} \/ retx # {})
  /\ UNCHANGED <<txon, txed, retx, data, vtA, vtS, pollSn, withoutPoll, pollTimer,
                 justExpired, accepted, rxVars, macVars>>

\* Mutant: a PDU that is reported missing is not sent again.
MutNackedRetx(covered, m) == retx \ (covered \ m.nacks)

CoveredRetx(covered, m) == (retx \ (covered \ m.nacks)) \cup (covered \cap m.nacks \cap txed)

\* A STATUS PDU covers what lies below ACK_SN and VT(S).
UpTo(m) == IF Off(m.ack, vtA) <= Off(vtS, vtA) THEN m.ack ELSE vtS
Covered(m) == Between(vtA, UpTo(m))

\* DoReceivePdu of a STATUS PDU.
ReceiveStatus(i) ==
  LET m == statuses[i]
      covered == Covered(m)
      kept == { sn \in covered : sn \in m.nacks }
  IN
  /\ CanArrive(statuses, i, StatusOvertaking)
  /\ statuses' = Arrived(statuses, i)
  /\ txed' = txed \ covered
  /\ retx' = CoveredRetx(covered, m)
  /\ data' = [sn \in SN |-> IF sn \in txed' \cup retx' THEN data[sn] ELSE << >>]
  /\ vtA' = IF kept = {} THEN UpTo(m)
            ELSE CHOOSE sn \in kept : Between(vtA, sn) \cap kept = {}
  /\ pollTimer' = (pollTimer /\ pollSn \notin covered)
  /\ UNCHANGED <<txon, vtS, pollSn, withoutPoll, justExpired, rbsTimer, accepted, rxVars, pdus>>

-----------------------------------------------------------------------------
(* The receiving side.                                                     *)

\* The first sequence number from sn on that is not in the buffer.
FirstMissing(sn, buffer) ==
  CHOOSE x \in SN : x \notin buffer /\ Between(sn, x) \subseteq buffer

FirstByte(units) == units[1][2] = 1
LastByte(units) == units[Len(units)][2] = SduUnits

\* The units of a PDU follow one another, and a data field is those of one SDU:
\* where the first one ends, and how many units come before the last one.
FirstField(units) ==
  IF SduUnits - units[1][2] < Len(units) THEN SduUnits + 1 - units[1][2] ELSE Len(units)
BeforeLast(units) ==
  IF units[Len(units)][2] < Len(units) THEN Len(units) - units[Len(units)][2] ELSE 0

\* ReassembleAndDeliver: the first data field of a PDU may complete what was
\* kept, the last may be kept in turn.
Reassemble(a, sn, units) ==
  LET lost == sn # a.expected
      waiting == a.keep # << >>
      impossible == ~lost /\ FirstByte(units) = waiting
      body == IF waiting /\ ~lost THEN a.keep \o units
              ELSE IF FirstByte(units) THEN units
              ELSE SubSeq(units, FirstField(units) + 1, Len(units))
      whole == IF LastByte(units) \/ body = << >> THEN Len(body) ELSE BeforeLast(body)
  IN IF impossible THEN [a EXCEPT !.expected = Plus(sn, 1)]
     ELSE [keep |-> SubSeq(body, whole + 1, Len(body)), expected |-> Plus(sn, 1),
           up |-> a.up \o SubSeq(body, 1, whole)]

\* What m_rxonBuffer holds once it has taken p.
Buffered(sn, p) == IF sn \in DOMAIN rxon THEN rxon[sn] ELSE p.units

\* The assembly when the first n PDUs from VR(R) on have been handed to it.
HandUp(n, p) ==
  LET handed[k \in 0..n] ==
        IF k = 0 THEN assembly
        ELSE Reassemble(handed[k - 1], Plus(vrR, k - 1), Buffered(Plus(vrR, k - 1), p))
  IN handed[n]

\* Mutant: a PDU outside the window is taken all the same.
MutInsideWindow(sn, r) == TRUE

\* IsInsideReceivingWindow with VR(R) = r; VR(MR) is r plus the window.
InsideWindow(sn, r) == Off(sn, r) < Window

\* DoReceivePdu of a data PDU.  Only the STATUS that a poll asks for is
\* announced to the MAC, and only when the prohibit timer is not running.
ReceiveData(i) ==
  LET p == pdus[i]
      buffer == DOMAIN rxon \cup {p.sn}
      h == IF Off(p.sn, vrR) >= Off(vrH, vrR) THEN Plus(p.sn, 1) ELSE vrH
      r == IF p.sn = vrR THEN FirstMissing(vrR, buffer) ELSE vrR
      stays == reordering /\ vrX # r /\ (InsideWindow(vrX, r) \/ vrX = Plus(r, Window))
  IN
  /\ CanArrive(pdus, i, DataOvertaking)
  /\ pdus' = Arrived(pdus, i)
  /\ requested' = (requested \/ p.poll)
  /\ announced' = (announced \/ (p.poll /\ ~prohibited))
  /\ IF InsideWindow(p.sn, vrR)
     THEN /\ rxon' = [sn \in buffer \ Between(vrR, r) |-> Buffered(sn, p)]
          /\ vrH' = h
          /\ vrMs' = FirstMissing(vrMs, buffer)
          /\ vrR' = r
          /\ assembly' = HandUp(Off(r, vrR), p)
          /\ reordering' = (stays \/ h # r)
          /\ vrX' = IF ~stays /\ h # r THEN h ELSE vrX
     ELSE UNCHANGED <<rxon, vrH, vrMs, vrR, assembly, reordering, vrX>>
  /\ UNCHANGED <<prohibited, txVars, statuses>>

\* DoNotifyTxOpportunity with a STATUS requested: it lists what is missing
\* below ACK_SN, which is VR(MS) or, when no more fits, the first not listed.
TransmitStatus(ack) ==
  LET missing == Between(vrR, vrMs) \ DOMAIN rxon IN
  /\ requested /\ ~prohibited
  /\ ack \in missing \cup {vrMs}
  /\ Len(statuses) < StatusInFlight
  /\ statuses' = Append(statuses, [ack |-> ack, nacks |-> missing \cap Between(vrR, ack), late |-> 0])
  /\ requested' = FALSE /\ announced' = FALSE /\ prohibited' = TRUE
  /\ UNCHANGED <<rxon, vrR, vrMs, vrH, vrX, reordering, assembly, txVars, pdus>>

ExpireStatusProhibitTimer ==
  /\ prohibited
  /\ prohibited' = FALSE
  /\ UNCHANGED <<rxon, vrR, vrMs, vrH, vrX, reordering, requested, announced, assembly, txVars, macVars>>

\* A STATUS is asked for, but nothing is reported to the MAC.
ExpireReorderingTimer ==
  LET ms == FirstMissing(vrX, DOMAIN rxon) IN
  /\ reordering
  /\ vrMs' = ms
  /\ reordering' = (Off(vrH, vrR) > Off(ms, vrR))
  /\ vrX' = IF reordering' THEN vrH ELSE vrX
  /\ requested' = TRUE
  /\ UNCHANGED <<rxon, vrR, vrH, announced, prohibited, assembly, txVars, macVars>>

-----------------------------------------------------------------------------
Init ==
  /\ txon = << >> /\ txed = {} /\ retx = {} /\ data = [sn \in SN |-> << >>]
  /\ vtA = 0 /\ vtS = 0
  /\ pollSn = 0 /\ withoutPoll = <<0, 0>>
  /\ pollTimer = FALSE /\ justExpired = FALSE /\ rbsTimer = FALSE
  /\ rxon = << >>
  /\ vrR = 0 /\ vrMs = 0 /\ vrH = 0 /\ vrX = 0
  /\ reordering = FALSE /\ requested = FALSE /\ prohibited = FALSE
  /\ announced = FALSE
  /\ assembly = [keep |-> << >>, expected |-> 0, up |-> << >>]
  /\ pdus = << >> /\ statuses = << >>
  /\ accepted = 0

Transmit == (\E sn \in SN : Retransmit(sn)) \/ (\E n \in 1..PduUnits : TransmitNew(n))
DataArrives(sn) == \E i \in DOMAIN pdus : pdus[i].sn = sn /\ ReceiveData(i)
StatusArrives == \E i \in DOMAIN statuses : ReceiveStatus(i)
StatusLeaves == \E sn \in SN : TransmitStatus(sn)

Next ==
  \/ TransmitPdcpPdu
  \/ Transmit
  \/ ExpirePollRetransmitTimer
  \/ ExpireRbsTimer
  \/ \E sn \in SN : DataArrives(sn)
  \/ StatusArrives
  \/ StatusLeaves
  \/ ExpireStatusProhibitTimer
  \/ ExpireReorderingTimer
  \/ LosePdu
  \/ LoseStatus

Spec == Init /\ [][Next]_vars

NewDataArrives == \E i \in DOMAIN pdus :
  pdus[i].sn \notin DOMAIN rxon /\ InsideWindow(pdus[i].sn, vrR) /\ ReceiveData(i)
PollArrives == \E i \in DOMAIN pdus : pdus[i].poll /\ ReceiveData(i)

\* The oldest PDU in the MAC arrives or is lost.
MacEnds == LosePdu \/ (pdus # << >> /\ ReceiveData(1))

\* Timers expire; the MAC gives opportunities for data that are reported again and
\* again and for a STATUS PDU it was told of, and ends every transmission; it does
\* not lose for ever the PDUs the receiver lacks, the polls or the STATUS PDUs.
FairSpec ==
  /\ Spec
  /\ WF_vars((rbsTimer /\ Transmit) \/ ExpirePollRetransmitTimer)
  /\ WF_vars((announced /\ StatusLeaves) \/ ExpireStatusProhibitTimer)
  /\ WF_vars(MacEnds)
  /\ SF_vars(NewDataArrives) /\ SF_vars(PollArrives) /\ SF_vars(StatusArrives)

-----------------------------------------------------------------------------
(* Properties.                                                             *)

Units == (1..MaxSdus) \X (1..SduUnits)

\* Types of the variables, for the whole module; a PDU is not both waiting for
\* its acknowledgement and for its retransmission, as an assertion says.
TypeOK ==
  /\ txon \in Seq(Units)
  /\ txed \subseteq SN /\ retx \subseteq SN /\ txed \cap retx = {}
  /\ {vtA, vtS, pollSn, vrR, vrMs, vrH, vrX} \subseteq SN
  /\ DOMAIN rxon \subseteq SN
  /\ \A sn \in SN : data[sn] \in Seq(Units)
  /\ assembly.keep \in Seq(Units) /\ assembly.up \in Seq(Units)
  /\ accepted \in 0..MaxSdus
  /\ {pollTimer, justExpired, rbsTimer, reordering, requested, announced, prohibited} \subseteq BOOLEAN

\* The state variables of the two sides stay in order, across the wrap of the
\* sequence numbers: VT(A) <= VR(R) <= VR(MS) <= VR(H) <= VT(S) <= VT(MS).
WindowsAgree ==
  /\ Off(vrR, vtA) <= Off(vrMs, vtA)
  /\ Off(vrMs, vtA) <= Off(vrH, vtA)
  /\ Off(vrH, vtA) <= Off(vtS, vtA)
  /\ Off(vtS, vtA) <= Window

\* DoReceivePdu asserts that a PDU that a STATUS asks for is in one of the two
\* buffers, to be sent again: NS_ASSERT(m_retxBuffer.at(seqNumberValue).m_pdu).
NackedAreHeld ==
  \A i \in DOMAIN statuses :
    CanArrive(statuses, i, StatusOvertaking)
      => statuses[i].nacks \cap Covered(statuses[i]) \subseteq txed \cup retx

\* What the receiver still lacks of the PDUs sent the sender can send again, and
\* so it can what a STATUS under way asks for.
NothingForgotten ==
  /\ Between(vrR, vtS) \ DOMAIN rxon \subseteq txed \cup retx
  /\ NackedAreHeld

\* The SDUs handed up are those accepted: whole, in order, none twice, none
\* left out.
InOrderOnce ==
  \A k \in DOMAIN assembly.up :
    assembly.up[k] = <<((k - 1) \div SduUnits) + 1, ((k - 1) % SduUnits) + 1>>

HandedUp == Len(assembly.up) \div SduUnits

\* Every SDU is handed up in the end, however many PDUs and STATUS PDUs are lost
\* on the way: once no more are accepted, none stays behind.
EverySduHandedUp == accepted = MaxSdus ~> HandedUp = MaxSdus

=============================================================================

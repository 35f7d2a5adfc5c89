------------------------------- MODULE X2Handover -------------------------------
(***************************************************************************)
(* The X2 handover of one UE: LteEnbRrc and its UeManagers at the source   *)
(* and the target eNB, LteUeRrc, and the X2 messages between the eNBs.     *)
(*                                                                         *)
(* A context is a UeManager; contexts are numbered in the order they are   *)
(* made, across the eNBs, and the number stands for the RNTI.  The UE has  *)
(* one bearer, so that there is one GTP TEID.  A handover timer fires at   *)
(* any time while it is pending, whatever its attribute says.  X2 is one   *)
(* point-to-point link per pair of eNBs and keeps the order of signalling  *)
(* and data.  RRC messages are those of the real protocol: the             *)
(* reconfigurations and their completion travel by radio and may never     *)
(* arrive, RRC CONNECTION RELEASE and the UE's request to remove its       *)
(* context are events of no delay.                                         *)
(*                                                                         *)
(* The reconfigurations are the handover command and the one that the      *)
(* target sends after the path switch: the set-up of the bearer has left   *)
(* it pending (m_pendingRrcConnectionReconfiguration) in every context     *)
(* that a handover makes.  An assertion or fatal error of the code that    *)
(* fails ends the program: aborted says which.  Other reconfigurations,    *)
(* for bearers that come or go or a change of the configuration, handover  *)
(* inside an eNB, SN STATUS TRANSFER, which changes nothing, and what the  *)
(* UE does once it has left connected mode are left out.                   *)
(***************************************************************************)
EXTENDS Integers, Sequences, FiniteSets

CONSTANTS
  Enb,          \* the eNBs
  Home,         \* where the UE is connected first
  MaxHandovers, \* bound: handovers that are triggered
  MaxForwarded  \* bound: packets forwarded over X2-U

ASSUME X2Assumption == Home \in Enb /\ MaxHandovers \in Nat /\ MaxForwarded \in Nat

Context == 1..MaxHandovers + 1
None == 0

States == {"CONNECTED_NORMALLY", "CONNECTION_RECONFIGURATION", "HANDOVER_PREPARATION",
           "HANDOVER_JOINING", "HANDOVER_PATH_SWITCH", "HANDOVER_LEAVING"}

VARIABLES
  state,      \* m_state of the contexts in m_ueMap, "none" before, "removed" after
  enb,        \* the eNB of a context
  source,     \* m_sourceCellId and m_sourceX2apId: the context at the source
  target,     \* m_targetCellId and m_targetX2apId: the context at the target
  joining,    \* contexts whose m_handoverJoiningTimeout is pending
  leaving,    \* contexts whose m_handoverLeavingTimeout is pending
  x2u,        \* m_x2uTeidInfoMap of each eNB: the context forwarded data is for
  x2,         \* x2[e][f]: messages under way from e to f
  pathSwitch, \* contexts whose PATH SWITCH REQUEST the MME is answering
  ue,         \* the UE: [state, context], the latter its m_cellId and m_rnti
  command,    \* reconfigurations on air to the UE: <<context that sends it, context at
              \* the target>>, the latter None without mobility control information
  completed,  \* contexts to which a reconfiguration completed is on air
  release,    \* an RRC CONNECTION RELEASE to the UE is pending
  removal,    \* contexts that the UE has asked to remove, not yet received
  handovers,  \* handovers triggered
  forwarded,  \* packets forwarded
  aborted     \* the assertion that failed, or "no"

enbVars == <<state, enb, source, target, joining, leaving, x2u>>
ueVars == <<ue, command, completed>>
eventVars == <<release, removal>>
countVars == <<handovers, forwarded>>
vars == <<enbVars, x2, pathSwitch, ueVars, eventVars, countVars, aborted>>

Live(c) == c \in Context /\ state[c] \in States

-----------------------------------------------------------------------------
(* Messages and contexts.                                                  *)

Msg(kind, old, new) == [kind |-> kind, old |-> old, new |-> new]

\* X2 with message m sent from e to f.
Sent(q, e, f, m) == [q EXCEPT ![e][f] = Append(@, m)]

\* The next message from e to f is of this kind; X2 without it.
Arrives(e, f, kind) == x2[e][f] # << >> /\ Head(x2[e][f]).kind = kind
Taken(e, f) == [x2 EXCEPT ![e][f] = Tail(@)]

\* An assertion fails: nothing happens any more.
Abort(reason) ==
  /\ aborted' = reason
  /\ UNCHANGED <<enbVars, x2, pathSwitch, ueVars, eventVars, countVars>>

\* RemoveUe: the context goes with its pending events and, as the UeManager is
\* disposed of, its X2-U TEID.  What the UE had on air to it is lost.
RemoveUe(c) ==
  /\ state' = [state EXCEPT ![c] = "removed"]
  /\ joining' = joining \ {c} /\ leaving' = leaving \ {c}
  /\ x2u' = [x2u EXCEPT ![enb[c]] = None]
  /\ completed' = completed \ {c}
  /\ UNCHANGED <<enb, source, target>>

\* X2 with the HANDOVER PREPARATION FAILURE of context c sent to its source.
FailureSent(c) == Sent(x2, enb[c], enb[source[c]], Msg("FAILURE", source[c], None))

\* Mutant: the context is removed before the UE is sent anything.
MutSendRrcConnectionRelease(c) == RemoveUe(c) /\ UNCHANGED release

\* SendRrcConnectionRelease, for a context that is not joining: the UE is told,
\* the context removed.
SendRrcConnectionRelease(c) == release' = TRUE /\ RemoveUe(c)

-----------------------------------------------------------------------------
(* The source.                                                             *)

\* Mutant: a second handover is prepared during the first.
MutTriggerHandover(c, e) ==
  /\ handovers < MaxHandovers
  /\ state[c] \in {"CONNECTED_NORMALLY", "HANDOVER_PREPARATION"}
  /\ e # enb[c]
  /\ state' = [state EXCEPT ![c] = "HANDOVER_PREPARATION"]
  /\ x2' = Sent(x2, enb[c], e, Msg("REQUEST", c, None))
  /\ handovers' = handovers + 1
  /\ UNCHANGED <<enb, source, target, joining, leaving, x2u, pathSwitch, ueVars, eventVars,
                 forwarded, aborted>>

\* DoTriggerHandover: PrepareHandover to another eNB.
TriggerHandover(c, e) ==
  /\ handovers < MaxHandovers
  /\ state[c] = "CONNECTED_NORMALLY"
  /\ e # enb[c]
  /\ state' = [state EXCEPT ![c] = "HANDOVER_PREPARATION"]
  /\ x2' = Sent(x2, enb[c], e, Msg("REQUEST", c, None))
  /\ handovers' = handovers + 1
  /\ UNCHANGED <<enb, source, target, joining, leaving, x2u, pathSwitch, ueVars, eventVars,
                 forwarded, aborted>>

\* Mutant: the context that has sent the command does not leave.
MutReceiveAck(e, f) ==
  LET m == Head(x2[e][f]) IN
  /\ Arrives(e, f, "ACK") /\ Live(m.old)
  /\ x2' = Taken(e, f)
  /\ target' = [target EXCEPT ![m.old] = m.new]
  /\ leaving' = leaving \cup {m.old}
  /\ command' = command \cup {<<m.old, m.new>>}
  /\ UNCHANGED <<state, enb, source, joining, x2u, pathSwitch, ue, completed, eventVars,
                 countVars, aborted>>

\* DoRecvHandoverRequestAck: GetUeManager asserts that the context exists; its
\* state is not looked at.  The command goes to the UE.
ReceiveAck(e, f) ==
  LET m == Head(x2[e][f]) IN
  /\ Arrives(e, f, "ACK")
  /\ IF Live(m.old)
     THEN /\ x2' = Taken(e, f)
          /\ state' = [state EXCEPT ![m.old] = "HANDOVER_LEAVING"]
          /\ target' = [target EXCEPT ![m.old] = m.new]
          /\ leaving' = leaving \cup {m.old}
          /\ command' = command \cup {<<m.old, m.new>>}
          /\ UNCHANGED <<enb, source, joining, x2u, pathSwitch, ue, completed, eventVars,
                         countVars, aborted>>
     ELSE Abort("acknowledged context")

\* DoRecvHandoverPreparationFailure: the handover is given up, or, when the UE
\* may already be on its way, the connection.
ReceiveFailure(e, f) ==
  LET c == Head(x2[e][f]).old IN
  /\ Arrives(e, f, "FAILURE")
  /\ \/ /\ ~Live(c)
        /\ x2' = Taken(e, f)
        /\ UNCHANGED <<enbVars, pathSwitch, ueVars, eventVars, countVars, aborted>>
     \/ /\ Live(c) /\ state[c] = "HANDOVER_PREPARATION"
        /\ x2' = Taken(e, f)
        /\ state' = [state EXCEPT ![c] = "CONNECTED_NORMALLY"]
        /\ UNCHANGED <<enb, source, target, joining, leaving, x2u, pathSwitch, ueVars,
                       eventVars, countVars, aborted>>
     \/ /\ Live(c) /\ state[c] = "HANDOVER_LEAVING"
        /\ x2' = Taken(e, f)
        /\ SendRrcConnectionRelease(c)
        /\ UNCHANGED <<pathSwitch, ue, command, removal, countVars, aborted>>
     \/ /\ Live(c) /\ state[c] \notin {"HANDOVER_PREPARATION", "HANDOVER_LEAVING"}
        /\ Abort("failed context")

\* DoRecvUeContextRelease: the handover has succeeded.
ReceiveContextRelease(e, f) ==
  LET c == Head(x2[e][f]).old IN
  /\ Arrives(e, f, "RELEASE")
  /\ \/ /\ ~Live(c)
        /\ x2' = Taken(e, f)
        /\ UNCHANGED <<enbVars, pathSwitch, ueVars, eventVars, countVars, aborted>>
     \/ /\ Live(c) /\ state[c] = "HANDOVER_LEAVING"
        /\ x2' = Taken(e, f)
        /\ RemoveUe(c)
        /\ UNCHANGED <<pathSwitch, ue, command, eventVars, countVars, aborted>>
     \/ /\ Live(c) /\ state[c] # "HANDOVER_LEAVING"
        /\ Abort("released context")

\* SendData of a leaving context: downlink data are forwarded to the target.
ForwardData(c) ==
  /\ forwarded < MaxForwarded
  /\ state[c] = "HANDOVER_LEAVING"
  /\ x2' = Sent(x2, enb[c], enb[target[c]], Msg("DATA", None, None))
  /\ forwarded' = forwarded + 1
  /\ UNCHANGED <<enbVars, pathSwitch, ueVars, eventVars, handovers, aborted>>

\* HandoverLeavingTimeout: HANDOVER CANCEL to the target, RRC CONNECTION RELEASE to
\* the UE, and the context is removed.
HandoverLeavingTimeout(c) ==
  /\ c \in leaving
  /\ IF state[c] = "HANDOVER_LEAVING"
     THEN /\ x2' = Sent(x2, enb[c], enb[target[c]], Msg("CANCEL", c, target[c]))
          /\ SendRrcConnectionRelease(c)
          /\ UNCHANGED <<pathSwitch, ue, command, removal, countVars, aborted>>
     ELSE Abort("leaving timeout")

-----------------------------------------------------------------------------
(* The target.                                                             *)

\* DoRecvHandoverRequest that is not admitted, for want of a preamble too.
RefuseRequest(e, f) ==
  /\ Arrives(e, f, "REQUEST")
  /\ x2' = Sent(Taken(e, f), f, e, Msg("FAILURE", Head(x2[e][f]).old, None))
  /\ UNCHANGED <<enbVars, pathSwitch, ueVars, eventVars, countVars, aborted>>

\* DoRecvHandoverRequest that is admitted: a joining context, its bearer with
\* the X2-U TEID, its timer, and the acknowledgement with the command.
AcceptRequest(e, f) == \E new \in Context :
  LET old == Head(x2[e][f]).old IN
  /\ Arrives(e, f, "REQUEST")
  /\ state[new] = "none" /\ \A k \in 1..new - 1 : state[k] # "none"
  /\ IF x2u[f] = None
     THEN /\ x2' = Sent(Taken(e, f), f, e, Msg("ACK", old, new))
          /\ state' = [state EXCEPT ![new] = "HANDOVER_JOINING"]
          /\ enb' = [enb EXCEPT ![new] = f]
          /\ source' = [source EXCEPT ![new] = old]
          /\ joining' = joining \cup {new}
          /\ x2u' = [x2u EXCEPT ![f] = new]
          /\ UNCHANGED <<target, leaving, pathSwitch, ueVars, eventVars, countVars, aborted>>
     ELSE Abort("overwritten TEID")

\* Mutant: the joining timer is left running.
MutReceiveCompleted(c) ==
  /\ c \in completed /\ state[c] = "HANDOVER_JOINING"
  /\ completed' = completed \ {c}
  /\ state' = [state EXCEPT ![c] = "HANDOVER_PATH_SWITCH"]
  /\ pathSwitch' = pathSwitch \cup {c}
  /\ UNCHANGED <<enb, source, target, joining, leaving, x2u, x2, ue, command, eventVars,
                 countVars, aborted>>

\* RecvRrcConnectionReconfigurationCompleted: the UE has joined, and the MME is
\* asked to switch the path; or the reconfiguration that follows is over.
ReceiveCompleted(c) ==
  /\ c \in completed
  /\ \/ /\ state[c] = "HANDOVER_JOINING"
        /\ completed' = completed \ {c}
        /\ joining' = joining \ {c}
        /\ state' = [state EXCEPT ![c] = "HANDOVER_PATH_SWITCH"]
        /\ pathSwitch' = pathSwitch \cup {c}
        /\ UNCHANGED <<enb, source, target, leaving, x2u, x2, ue, command, eventVars,
                       countVars, aborted>>
     \/ /\ state[c] = "CONNECTION_RECONFIGURATION"
        /\ completed' = completed \ {c}
        /\ state' = [state EXCEPT ![c] = "CONNECTED_NORMALLY"]
        /\ UNCHANGED <<enb, source, target, joining, leaving, x2u, x2, pathSwitch, ue,
                       command, eventVars, countVars, aborted>>
     \/ /\ state[c] \in {"CONNECTED_NORMALLY", "HANDOVER_LEAVING"}
        /\ completed' = completed \ {c}
        /\ UNCHANGED <<enbVars, x2, pathSwitch, ue, command, eventVars, countVars, aborted>>
     \/ /\ state[c] \in {"HANDOVER_PREPARATION", "HANDOVER_PATH_SWITCH"}
        /\ Abort("completed context")

\* DoPathSwitchRequestAcknowledge: the eNB application finds the RNTI by the IMSI,
\* GetUeManager asserts that its context exists, and SendUeContextRelease that it is
\* waiting.  The source is told to release its context; SwitchToState of
\* CONNECTED_NORMALLY sends the pending reconfiguration and goes on to
\* CONNECTION_RECONFIGURATION, for which there is no timer.
ReceivePathSwitchAck(c) ==
  /\ c \in pathSwitch
  /\ IF state[c] = "HANDOVER_PATH_SWITCH"
     THEN /\ pathSwitch' = pathSwitch \ {c}
          /\ x2' = Sent(x2, enb[c], enb[source[c]], Msg("RELEASE", source[c], c))
          /\ state' = [state EXCEPT ![c] = "CONNECTION_RECONFIGURATION"]
          /\ command' = command \cup {<<c, None>>}
          /\ UNCHANGED <<enb, source, target, joining, leaving, x2u, ue, completed,
                         eventVars, countVars, aborted>>
     ELSE Abort("switched context")

\* HandoverJoiningTimeout: the source is told, the context removed.
HandoverJoiningTimeout(c) ==
  /\ c \in joining
  /\ IF state[c] = "HANDOVER_JOINING"
     THEN /\ x2' = FailureSent(c)
          /\ RemoveUe(c)
          /\ UNCHANGED <<pathSwitch, ue, command, eventVars, countVars, aborted>>
     ELSE Abort("joining timeout")

\* DoRecvHandoverCancel: RecvHandoverCancel asserts the state and cancels the timer,
\* the bearer is released at the gateways; the context stays.
ReceiveCancel(e, f) ==
  LET c == Head(x2[e][f]).new IN
  /\ Arrives(e, f, "CANCEL")
  /\ IF Live(c) /\ state[c] # "HANDOVER_JOINING"
     THEN Abort("cancelled context")
     ELSE /\ x2' = Taken(e, f)
          /\ joining' = joining \ {c}
          /\ UNCHANGED <<state, enb, source, target, leaving, x2u, pathSwitch, ueVars,
                         eventVars, countVars, aborted>>

\* DoRecvUeData: data without a TEID entry are a fatal error; a leaving context
\* forwards them once more, any other keeps them.
ReceiveData(e, f) ==
  LET c == x2u[f] IN
  /\ Arrives(e, f, "DATA")
  /\ IF c # None
     THEN /\ x2' = IF state[c] = "HANDOVER_LEAVING"
                   THEN Sent(Taken(e, f), f, enb[target[c]], Head(x2[e][f]))
                   ELSE Taken(e, f)
          /\ UNCHANGED <<enbVars, pathSwitch, ueVars, eventVars, countVars, aborted>>
     ELSE Abort("forwarded data")

\* DoRecvIdealUeContextRemoveRequest, at the source as at the target.
ReceiveRemoval(c) ==
  /\ c \in removal
  /\ removal' = removal \ {c}
  /\ IF Live(c)
     THEN /\ x2' = IF state[c] = "HANDOVER_JOINING" THEN FailureSent(c) ELSE x2
          /\ RemoveUe(c)
     ELSE UNCHANGED <<enbVars, x2, completed>>
  /\ UNCHANGED <<pathSwitch, ue, command, release, countVars, aborted>>

-----------------------------------------------------------------------------
(* The UE.                                                                 *)

\* DoRecvRrcConnectionReconfiguration with mobility control information.
ReceiveCommand(c, n) ==
  /\ <<c, n>> \in command
  /\ ue = [state |-> "connected", context |-> c]
  /\ ue' = [state |-> "handover", context |-> n]
  /\ command' = command \ {<<c, n>>}
  /\ UNCHANGED <<enbVars, x2, pathSwitch, completed, eventVars, countVars, aborted>>

\* DoRecvRrcConnectionReconfiguration without it.
ReceiveReconfiguration(c) ==
  /\ <<c, None>> \in command
  /\ ue = [state |-> "connected", context |-> c]
  /\ command' = command \ {<<c, None>>}
  /\ completed' = completed \cup {c}
  /\ UNCHANGED <<enbVars, x2, pathSwitch, ue, eventVars, countVars, aborted>>

\* DoNotifyRandomAccessSuccessful: the target's MAC answers the preamble while it
\* has the context.
RandomAccessSucceeds ==
  /\ ue.state = "handover" /\ Live(ue.context)
  /\ ue' = [ue EXCEPT !.state = "connected"]
  /\ completed' = completed \cup {ue.context}
  /\ UNCHANGED <<enbVars, x2, pathSwitch, command, eventVars, countVars, aborted>>

\* Mutant: the RNTI is cleared before the request is made.
MutLeaveCleared ==
  /\ ue' = [ue EXCEPT !.state = "left"]
  /\ command' = {}
  /\ removal' = removal \cup {None}
  /\ UNCHANGED <<enbVars, x2, pathSwitch, completed, countVars, aborted>>

\* Mutant: the eNB is not asked.
MutLeaveSilently ==
  /\ ue' = [ue EXCEPT !.state = "left"]
  /\ command' = {}
  /\ UNCHANGED <<enbVars, x2, pathSwitch, completed, removal, countVars, aborted>>

\* The UE leaves connected mode: its RLC entities go, and the eNB it is at is
\* asked to remove its context.
Leave ==
  /\ ue' = [ue EXCEPT !.state = "left"]
  /\ command' = {}
  /\ removal' = removal \cup {ue.context}
  /\ UNCHANGED <<enbVars, x2, pathSwitch, completed, countVars, aborted>>

\* DoNotifyRandomAccessFailed.
RandomAccessFails == ue.state = "handover" /\ Leave /\ UNCHANGED release

\* RadioLinkFailureDetected: its timer is cancelled during a handover.
RadioLinkFailure == ue.state = "connected" /\ Leave /\ UNCHANGED release

\* DoRecvRrcConnectionRelease.
ReceiveRelease ==
  /\ release /\ release' = FALSE
  /\ \/ ue.state # "left" /\ Leave
     \/ /\ ue.state = "left"
        /\ UNCHANGED <<enbVars, x2, pathSwitch, ueVars, removal, countVars, aborted>>

-----------------------------------------------------------------------------
Init ==
  /\ state = [c \in Context |-> IF c = 1 THEN "CONNECTED_NORMALLY" ELSE "none"]
  /\ enb = [c \in Context |-> Home]
  /\ source = [c \in Context |-> None] /\ target = [c \in Context |-> None]
  /\ joining = {} /\ leaving = {}
  /\ x2u = [e \in Enb |-> None]
  /\ x2 = [e \in Enb |-> [f \in Enb |-> << >>]]
  /\ pathSwitch = {}
  /\ ue = [state |-> "connected", context |-> 1]
  /\ command = {} /\ completed = {}
  /\ release = FALSE /\ removal = {}
  /\ handovers = 0 /\ forwarded = 0
  /\ aborted = "no"

\* A message from e reaches f.
X2Delivers(e, f) ==
  \/ RefuseRequest(e, f) \/ AcceptRequest(e, f) \/ ReceiveAck(e, f)
  \/ ReceiveFailure(e, f) \/ ReceiveContextRelease(e, f)
  \/ ReceiveCancel(e, f) \/ ReceiveData(e, f)

RandomAccessEnds == RandomAccessSucceeds \/ RandomAccessFails

Next ==
  /\ aborted = "no"
  /\ \/ \E e, f \in Enb : X2Delivers(e, f)
     \/ \E c \in Context :
          \/ \E e \in Enb : TriggerHandover(c, e)
          \/ ForwardData(c)
          \/ HandoverLeavingTimeout(c) \/ HandoverJoiningTimeout(c)
          \/ ReceiveCompleted(c) \/ ReceivePathSwitchAck(c) \/ ReceiveRemoval(c)
          \/ ReceiveReconfiguration(c) \/ \E n \in Context : ReceiveCommand(c, n)
     \/ RandomAccessEnds \/ RadioLinkFailure \/ ReceiveRelease

Spec == Init /\ [][Next]_vars

Step(A) == aborted = "no" /\ A

\* X2 delivers, the MME answers, events and timers are executed and the random
\* access ends in success or failure; nothing is assumed of what is on air.
FairSpec ==
  /\ Spec
  /\ \A e, f \in Enb : WF_vars(Step(X2Delivers(e, f)))
  /\ \A c \in Context :
       /\ WF_vars(Step(HandoverLeavingTimeout(c)))
       /\ WF_vars(Step(HandoverJoiningTimeout(c)))
       /\ WF_vars(Step(ReceivePathSwitchAck(c)))
       /\ WF_vars(Step(ReceiveRemoval(c)))
  /\ WF_vars(Step(RandomAccessEnds))
  /\ WF_vars(Step(ReceiveRelease))

-----------------------------------------------------------------------------
(* Properties.                                                             *)

Messages == UNION { { x2[e][f][i] : i \in DOMAIN x2[e][f] } : e \in Enb, f \in Enb }

Kinds == {"REQUEST", "ACK", "FAILURE", "RELEASE", "CANCEL", "DATA"}

\* Types of the variables, for the whole module.
TypeOK ==
  /\ state \in [Context -> States \cup {"none", "removed"}]
  /\ enb \in [Context -> Enb]
  /\ source \in [Context -> Context \cup {None}] /\ target \in [Context -> Context \cup {None}]
  /\ joining \subseteq Context /\ leaving \subseteq Context
  /\ x2u \in [Enb -> Context \cup {None}]
  /\ Messages \subseteq [kind : Kinds, old : Context \cup {None}, new : Context \cup {None}]
  /\ pathSwitch \subseteq Context
  /\ ue \in [state : {"connected", "handover", "left"}, context : Context]
  /\ command \subseteq Context \X (Context \cup {None})
  /\ completed \subseteq Context /\ removal \subseteq Context
  /\ release \in BOOLEAN
  /\ handovers \in 0..MaxHandovers /\ forwarded \in 0..MaxForwarded

\* A handover timer is pending only for a context that exists and is in the state
\* the timer is for, as HandoverJoiningTimeout and HandoverLeavingTimeout assert,
\* and a leaving context never waits without one.
TimersMatchStates ==
  /\ \A c \in joining : state[c] = "HANDOVER_JOINING"
  /\ leaving = { c \in Context : state[c] = "HANDOVER_LEAVING" }

\* What is under way to a context that exists finds it in the state it is meant
\* for: the acknowledgement or refusal of its request, the failure of its target,
\* its release, the completion of a reconfiguration, the answer of the MME.
MessagesAwaited ==
  /\ \A m \in Messages :
       /\ m.kind \in {"REQUEST", "ACK"} /\ Live(m.old)
            => state[m.old] = "HANDOVER_PREPARATION"
       /\ m.kind = "FAILURE" /\ Live(m.old)
            => state[m.old] \in {"HANDOVER_PREPARATION", "HANDOVER_LEAVING"}
       /\ m.kind = "RELEASE" /\ Live(m.old) => state[m.old] = "HANDOVER_LEAVING"
  /\ \A c \in completed :
       Live(c) => state[c] \in {"HANDOVER_JOINING", "CONNECTION_RECONFIGURATION"}
  /\ \A c \in pathSwitch : Live(c) => state[c] = "HANDOVER_PATH_SWITCH"

Serving == {"CONNECTED_NORMALLY", "CONNECTION_RECONFIGURATION", "HANDOVER_PREPARATION",
            "HANDOVER_PATH_SWITCH"}

\* Two eNBs never serve the UE at once, whichever of a preparation's outcomes come late.
OneServes == \A c, d \in Context : state[c] \in Serving /\ state[d] \in Serving => c = d

\* One eNB serves the UE.  When the UE comes back to an eNB that still has
\* its former context, that one is leaving and its release is under way, on another
\* link than the one the UE came back by: the order of one link would have settled it.
OneContextServes ==
  /\ OneServes
  /\ \A c, d \in Context :
       Live(c) /\ Live(d) /\ enb[c] = enb[d] /\ c < d
         => /\ state[c] = "HANDOVER_LEAVING"
            /\ \E f \in Enb \ {enb[source[d]]} :
                 \E i \in DOMAIN x2[f][enb[c]] :
                   x2[f][enb[c]][i].kind = "RELEASE" /\ x2[f][enb[c]][i].old = c

\* A UE whose context has been removed will be told: the release is on its way, or
\* the source of its handover is still there to send it.
UeWillBeTold ==
  ue.state # "left" /\ ~Live(ue.context)
    => release \/ (source[ue.context] # None /\ state[source[ue.context]] = "HANDOVER_LEAVING")

\* The reconfiguration after the path switch or its completion has not arrived.
Reconfiguring(c) ==
  state[c] = "CONNECTION_RECONFIGURATION" /\ (<<c, None>> \in command \/ c \in completed)

\* At rest: the UE is connected to the one context there is, or it has left and there
\* is none, but for a joining context that was cancelled, which nobody removes.  A
\* connected context is ready for the next handover, unless the exchange that ends the
\* one it was made by is lost on air: that ends no wait.
Settled ==
  /\ ue.state # "left"
       => /\ ue.state = "connected"
          /\ state[ue.context] = "CONNECTED_NORMALLY" \/ Reconfiguring(ue.context)
  /\ \A c \in Context :
       Live(c) => \/ ue = [state |-> "connected", context |-> c]
                  \/ ue.state = "left" /\ state[c] = "HANDOVER_JOINING" /\ c \notin joining

\* Every handover settles, whatever is lost on air and in whatever order the timers
\* fire: eNBs and UE agree in the end on the context that serves, and it waits for
\* nothing but a reconfiguration on air, unless an assertion has ended the program.
HandoversSettle == <>[](Settled \/ aborted # "no")

\* No assertion or fatal error of the handlers can fail: GetUeManager's
\* NS_ASSERT_MSG that the context of a message exists, for one.
NoAssertionFails == aborted = "no"

=============================================================================

---------------------------- MODULE X2HandoverProofs ----------------------------
(***************************************************************************)
(* Theorems about X2Handover, for every set of eNBs, every number of       *)
(* handovers and every number of packets forwarded.                        *)
(***************************************************************************)
EXTENDS X2Handover, TLAPS

-----------------------------------------------------------------------------
(* The inductive invariant; ReturnInv, further down, adds to it where the   *)
(* UE's former contexts are.                                               *)

Message == [kind : Kinds, old : Context \cup {None}, new : Context \cup {None}]

Queues == [Enb -> [Enb -> Seq(Message)]]

\* What is under way from e to f, in queues q and now.
WireOf(q, e, f) == { q[e][f][i] : i \in DOMAIN q[e][f] }
Wire(e, f) == WireOf(x2, e, f)

TypeInv ==
  /\ state \in [Context -> States \cup {"none", "removed"}]
  /\ enb \in [Context -> Enb]
  /\ source \in [Context -> Context \cup {None}] /\ target \in [Context -> Context \cup {None}]
  /\ joining \in SUBSET Context /\ leaving \in SUBSET Context
  /\ x2u \in [Enb -> Context \cup {None}]
  /\ x2 \in Queues
  /\ pathSwitch \in SUBSET Context
  /\ ue \in [state : {"connected", "handover", "left"}, context : Context]
  /\ command \in SUBSET (Context \X (Context \cup {None}))
  /\ completed \in SUBSET Context /\ removal \in SUBSET Context
  /\ release \in BOOLEAN
  /\ handovers \in 0..MaxHandovers /\ forwarded \in 0..MaxForwarded

\* The UE may have left this context for another one.
Gone(c) == state[c] \in {"HANDOVER_LEAVING", "removed"}

\* No joining context is meant to take over from c.
NoneJoins(c) == \A n \in Context : state[n] = "HANDOVER_JOINING" => source[n] # c

\* The UE has not been at this context, a joining one, yet.
Untouched(n) ==
  /\ state[n] \in {"HANDOVER_JOINING", "removed"}
  /\ n \notin completed /\ ue.context # n
  /\ \A d \in Context : source[d] # n
  /\ \A e, f \in Enb : \A m \in Wire(e, f) :
       (m.kind = "REQUEST" => m.old # n) /\ (m.kind = "RELEASE" => m.new # n)

\* What is true of the contexts while a message from e to f is under way.
RequestInv(e, f, m) ==
  /\ m.old \in Context /\ enb[m.old] = e
  /\ state[m.old] \in {"HANDOVER_PREPARATION", "removed"}
  /\ NoneJoins(m.old)

AckInv(e, f, m) ==
  /\ m.old \in Context /\ m.new \in Context
  /\ enb[m.old] = f /\ enb[m.new] = e
  /\ state[m.old] \in {"HANDOVER_PREPARATION", "removed"}
  /\ source[m.new] = m.old
  /\ \A n \in Context : state[n] = "HANDOVER_JOINING" /\ source[n] = m.old => n = m.new
  /\ Untouched(m.new) /\ <<m.old, m.new>> \notin command

FailureInv(m) ==
  /\ m.old \in Context
  /\ state[m.old] \in {"HANDOVER_PREPARATION", "HANDOVER_LEAVING", "removed"}
  /\ NoneJoins(m.old)

ReleaseInv(m) ==
  /\ m.old \in Context /\ m.new \in Context
  /\ Gone(m.old) /\ source[m.new] = m.old /\ target[m.old] = m.new
  /\ state[m.new] \notin {"none", "HANDOVER_JOINING", "HANDOVER_PATH_SWITCH"}
  /\ ue.context # m.old

Timely(e, f, m) ==
  /\ m.kind = "REQUEST" => RequestInv(e, f, m)
  /\ m.kind = "ACK" => AckInv(e, f, m)
  /\ m.kind = "FAILURE" => FailureInv(m)
  /\ m.kind = "RELEASE" => ReleaseInv(m)

MessageInv == \A e, f \in Enb : \A m \in Wire(e, f) : Timely(e, f, m)

\* A preparation is one message under way at a time, but for an acknowledgement
\* that is followed by the failure of the target it speaks of.
Asks(m, c) == m.kind \in {"REQUEST", "ACK", "FAILURE"} /\ m.old = c

Ordered(q) == \A e, f, g, h \in Enb :
  \A i \in DOMAIN q[e][f], j \in DOMAIN q[g][h], c \in Context :
    Asks(q[e][f][i], c) /\ Asks(q[g][h][j], c)
      => /\ e = g /\ f = h
         /\ i < j => q[e][f][i].kind = "ACK" /\ q[g][h][j].kind = "FAILURE"
OrderInv == Ordered(x2)

ContextInv ==
  /\ \A c \in Context : source[c] # c /\ (source[c] # None => state[source[c]] # "none")
  /\ \A c \in Context : state[c] = "HANDOVER_JOINING"
       => /\ source[c] \in Context
          /\ state[source[c]] \in {"HANDOVER_PREPARATION", "HANDOVER_LEAVING", "removed"}
          /\ \A d \in Context : state[d] = "HANDOVER_JOINING" /\ source[d] = source[c] => c = d
  /\ \A c \in Context : state[c] = "HANDOVER_LEAVING" => target[c] \in Context
  /\ \A c \in Context :
       c \in completed \/ state[c] \in {"HANDOVER_PATH_SWITCH", "CONNECTION_RECONFIGURATION"}
       => /\ source[c] \in Context /\ Gone(source[c]) /\ target[source[c]] = c
          /\ ue.context # source[c]
  /\ \A c \in completed : state[c] \in {"HANDOVER_JOINING", "CONNECTION_RECONFIGURATION"}
  /\ \A c \in pathSwitch : state[c] \in {"HANDOVER_PATH_SWITCH", "removed"}

\* A reconfiguration after the path switch is under way.
ReconfigurationInv == ue.state # "left" =>
  \A c \in Context : <<c, None>> \in command
    => state[c] = "CONNECTION_RECONFIGURATION" /\ c \notin completed

CommandInv == \A c, n \in Context : <<c, n>> \in command
  => source[n] = c /\ target[c] = n /\ Gone(c) /\ Untouched(n)

\* Where the UE is, and that it will be told.
UeInv ==
  /\ state[ue.context] # "none"
  /\ source[ue.context] # None
       => Gone(source[ue.context]) /\ target[source[ue.context]] = ue.context
  /\ ue.state = "handover"
       => state[ue.context] \in {"HANDOVER_JOINING", "removed"} /\ ue.context \notin completed

SourceTells(n) == source[n] # None /\ state[source[n]] = "HANDOVER_LEAVING"

ToldInv == ue.state # "left" =>
  /\ removal = {}
  /\ state[ue.context] = "removed"
       => \/ release
          \/ /\ SourceTells(ue.context)
             /\ \A e, f \in Enb : \A m \in Wire(e, f) : m.kind = "RELEASE" => m.new # ue.context
  /\ state[ue.context] = "HANDOVER_JOINING" => release \/ SourceTells(ue.context)
  /\ \A n \in Context : <<ue.context, n>> \in command
       => release \/ state[ue.context] = "HANDOVER_LEAVING"

\* The contexts the UE is on its way to, none of which serves it yet.
Coming(n) ==
  \/ n \in completed /\ state[n] = "HANDOVER_JOINING"
  \/ ue = [state |-> "handover", context |-> n]
  \/ \E c \in Context : <<c, n>> \in command

ServeInv ==
  /\ OneServes
  /\ \A c, n \in Context : state[c] \in Serving => ~Coming(n)
  /\ \A m, n \in Context : Coming(m) /\ Coming(n) => m = n

HandoverInv ==
  /\ TypeInv /\ MessageInv /\ OrderInv /\ ContextInv /\ CommandInv
  /\ ReconfigurationInv /\ UeInv /\ ToldInv /\ ServeInv /\ TimersMatchStates

-----------------------------------------------------------------------------
(* Queues.                                                                 *)

Less(q, e, f) == [q EXCEPT ![e][f] = Tail(@)]

\* A message leaves the head of a queue: what stays was there, and in that order.
LEMMA LessIs ==
  ASSUME NEW q \in Queues, NEW e \in Enb, NEW f \in Enb, q[e][f] # << >>
  PROVE  /\ Less(q, e, f) \in Queues
         /\ Head(q[e][f]) \in WireOf(q, e, f) /\ Head(q[e][f]) = q[e][f][1]
         /\ 1 \in DOMAIN q[e][f]
         /\ \A g, h \in Enb : \A i \in DOMAIN Less(q, e, f)[g][h] :
              LET j == IF g = e /\ h = f THEN i + 1 ELSE i IN
              j \in DOMAIN q[g][h] /\ Less(q, e, f)[g][h][i] = q[g][h][j] /\ i \in Nat
<1>1. q[e][f] \in Seq(Message) /\ q[e] \in [Enb -> Seq(Message)]
  BY DEF Queues
<1>2. Len(q[e][f]) \in Nat /\ Len(q[e][f]) > 0
  BY <1>1
<1>3. 1 \in DOMAIN q[e][f] /\ Head(q[e][f]) = q[e][f][1]
  BY <1>1, <1>2
<1>4. Tail(q[e][f]) \in Seq(Message)
  BY <1>1
<1>5. Less(q, e, f) \in Queues
  BY <1>1, <1>4 DEF Less, Queues
<1>6. ASSUME NEW g \in Enb, NEW h \in Enb, NEW i \in DOMAIN Less(q, e, f)[g][h]
      PROVE  LET j == IF g = e /\ h = f THEN i + 1 ELSE i IN
             j \in DOMAIN q[g][h] /\ Less(q, e, f)[g][h][i] = q[g][h][j] /\ i \in Nat
  <2>1. CASE g = e /\ h = f
    <3>1. Less(q, e, f)[g][h] = Tail(q[e][f])
      BY <2>1, <1>1 DEF Less, Queues
    <3> QED BY <2>1, <3>1, <1>1
  <2>2. CASE ~(g = e /\ h = f)
    <3>1. Less(q, e, f)[g][h] = q[g][h]
      BY <2>2, <1>1 DEF Less, Queues
    <3>2. q[g][h] \in Seq(Message)
      BY DEF Queues
    <3> QED BY <2>2, <3>1, <3>2
  <2> QED BY <2>1, <2>2
<1>7. Head(q[e][f]) \in WireOf(q, e, f)
  BY <1>3 DEF WireOf
<1> QED BY <1>3, <1>5, <1>6, <1>7

\* A queue that a message is sent into is one.
LEMMA SentQueues ==
  ASSUME NEW q \in Queues, NEW e \in Enb, NEW f \in Enb, NEW m \in Message
  PROVE  Sent(q, e, f, m) \in Queues
<1>1. q[e][f] \in Seq(Message) /\ q[e] \in [Enb -> Seq(Message)]
  BY DEF Queues
<1>2. Append(q[e][f], m) \in Seq(Message)
  BY <1>1
<1> QED BY <1>1, <1>2 DEF Sent, Queues

\* A message is sent: it comes last.
LEMMA SentIs ==
  ASSUME NEW q \in Queues, NEW e \in Enb, NEW f \in Enb, NEW m \in Message,
         NEW g \in Enb, NEW h \in Enb, NEW i \in DOMAIN Sent(q, e, f, m)[g][h]
  PROVE  /\ i \in Nat
         /\ \/ i \in DOMAIN q[g][h] /\ Sent(q, e, f, m)[g][h][i] = q[g][h][i]
            \/ /\ g = e /\ h = f /\ Sent(q, e, f, m)[g][h][i] = m
               /\ \A j \in DOMAIN Sent(q, e, f, m)[g][h] : j <= i
<1>1. q[e][f] \in Seq(Message) /\ q[e] \in [Enb -> Seq(Message)]
  BY DEF Queues
<1>2. CASE g = e /\ h = f
  <2>1. Sent(q, e, f, m)[g][h] = Append(q[e][f], m)
    BY <1>2, <1>1 DEF Sent, Queues
  <2> QED BY <1>2, <2>1, <1>1
<1>3. CASE ~(g = e /\ h = f)
  <2>1. Sent(q, e, f, m)[g][h] = q[g][h]
    BY <1>3, <1>1 DEF Sent, Queues
  <2>2. q[g][h] \in Seq(Message)
    BY DEF Queues
  <2> QED BY <1>3, <2>1, <2>2
<1> QED BY <1>2, <1>3

\* Taking a message puts none under way.
LEMMA LessWire ==
  ASSUME NEW q \in Queues, NEW e \in Enb, NEW f \in Enb, q[e][f] # << >>,
         NEW g \in Enb, NEW h \in Enb
  PROVE  WireOf(Less(q, e, f), g, h) \subseteq WireOf(q, g, h)
BY LessIs DEF WireOf

\* What is under way after a message is sent was so before, or is that message.
LEMMA SentWire ==
  ASSUME NEW q \in Queues, NEW e \in Enb, NEW f \in Enb, NEW m \in Message,
         NEW g \in Enb, NEW h \in Enb, NEW k \in WireOf(Sent(q, e, f, m), g, h)
  PROVE  k \in WireOf(q, g, h) \/ (g = e /\ h = f /\ k = m)
BY SentIs DEF WireOf

\* Taking a message keeps the order of a preparation's messages.
LEMMA LessOrdered ==
  ASSUME NEW q \in Queues, NEW e \in Enb, NEW f \in Enb, q[e][f] # << >>, Ordered(q)
  PROVE  Ordered(Less(q, e, f))
<1> DEFINE r == Less(q, e, f)
<1> SUFFICES ASSUME NEW a \in Enb, NEW b \in Enb, NEW g \in Enb, NEW h \in Enb,
                    NEW i \in DOMAIN r[a][b], NEW j \in DOMAIN r[g][h], NEW c \in Context,
                    Asks(r[a][b][i], c), Asks(r[g][h][j], c)
             PROVE  /\ a = g /\ b = h
                    /\ i < j => r[a][b][i].kind = "ACK" /\ r[g][h][j].kind = "FAILURE"
  BY DEF Ordered
<1> DEFINE ii == IF a = e /\ b = f THEN i + 1 ELSE i
           jj == IF g = e /\ h = f THEN j + 1 ELSE j
<1>1. ii \in DOMAIN q[a][b] /\ r[a][b][i] = q[a][b][ii] /\ i \in Nat
  BY LessIs
<1>2. jj \in DOMAIN q[g][h] /\ r[g][h][j] = q[g][h][jj] /\ j \in Nat
  BY LessIs
<1> HIDE DEF r, ii, jj
<1>3. a = g /\ b = h /\ (ii < jj => q[a][b][ii].kind = "ACK" /\ q[g][h][jj].kind = "FAILURE")
  BY <1>1, <1>2 DEF Ordered
<1> USE DEF ii, jj
<1>4. i < j => ii < jj
  BY <1>1, <1>2, <1>3
<1> QED BY <1>1, <1>2, <1>3, <1>4

\* So does sending one of which nothing is under way, or the failure after the
\* acknowledgement on its channel.
LEMMA SentOrdered ==
  ASSUME NEW q \in Queues, NEW e \in Enb, NEW f \in Enb, NEW m \in Message, Ordered(q),
         \A g, h \in Enb : \A k \in WireOf(q, g, h) : \A c \in Context :
           Asks(m, c) /\ Asks(k, c) => g = e /\ h = f /\ k.kind = "ACK" /\ m.kind = "FAILURE"
  PROVE  Ordered(Sent(q, e, f, m))
<1> DEFINE r == Sent(q, e, f, m)
<1> SUFFICES ASSUME NEW a \in Enb, NEW b \in Enb, NEW g \in Enb, NEW h \in Enb,
                    NEW i \in DOMAIN r[a][b], NEW j \in DOMAIN r[g][h], NEW c \in Context,
                    Asks(r[a][b][i], c), Asks(r[g][h][j], c)
             PROVE  /\ a = g /\ b = h
                    /\ i < j => r[a][b][i].kind = "ACK" /\ r[g][h][j].kind = "FAILURE"
  BY DEF Ordered
<1>1. /\ i \in Nat
      /\ \/ i \in DOMAIN q[a][b] /\ r[a][b][i] = q[a][b][i]
         \/ a = e /\ b = f /\ r[a][b][i] = m /\ \A l \in DOMAIN r[a][b] : l <= i
  BY SentIs
<1>2. /\ j \in Nat
      /\ \/ j \in DOMAIN q[g][h] /\ r[g][h][j] = q[g][h][j]
         \/ g = e /\ h = f /\ r[g][h][j] = m /\ \A l \in DOMAIN r[g][h] : l <= j
  BY SentIs
<1> HIDE DEF r
<1>3. \A k, l \in Enb : \A p \in DOMAIN q[k][l] : q[k][l][p] \in WireOf(q, k, l)
  BY DEF WireOf
<1>4. CASE i \in DOMAIN q[a][b] /\ r[a][b][i] = q[a][b][i]
            /\ j \in DOMAIN q[g][h] /\ r[g][h][j] = q[g][h][j]
  BY <1>4 DEF Ordered
<1>5. CASE /\ i \in DOMAIN q[a][b] /\ r[a][b][i] = q[a][b][i]
           /\ g = e /\ h = f /\ r[g][h][j] = m
  BY <1>5, <1>3
<1>6. CASE /\ a = e /\ b = f /\ r[a][b][i] = m /\ \A l \in DOMAIN r[a][b] : l <= i
           /\ j \in DOMAIN q[g][h] /\ r[g][h][j] = q[g][h][j]
  <2>1. g = e /\ h = f
    BY <1>6, <1>3
  <2>2. ~(i < j)
    BY <2>1, <1>6, <1>1, <1>2
  <2> QED BY <2>1, <2>2, <1>6
<1>7. CASE /\ a = e /\ b = f /\ \A l \in DOMAIN r[a][b] : l <= i
           /\ g = e /\ h = f
  BY <1>7, <1>1, <1>2
<1> QED BY <1>1, <1>2, <1>4, <1>5, <1>6, <1>7

\* Of a preparation whose message has been taken nothing is left under way, but for
\* the failure that follows the acknowledgement.
LEMMA TakenLeaves ==
  ASSUME NEW q \in Queues, NEW e \in Enb, NEW f \in Enb, q[e][f] # << >>, Ordered(q),
         NEW c \in Context, Asks(Head(q[e][f]), c),
         NEW g \in Enb, NEW h \in Enb, NEW k \in WireOf(Less(q, e, f), g, h), Asks(k, c)
  PROVE  g = e /\ h = f /\ Head(q[e][f]).kind = "ACK" /\ k.kind = "FAILURE"
<1> DEFINE r == Less(q, e, f)
<1>1. PICK i \in DOMAIN r[g][h] : k = r[g][h][i]
  BY DEF WireOf
<1> DEFINE j == IF g = e /\ h = f THEN i + 1 ELSE i
<1>2. j \in DOMAIN q[g][h] /\ k = q[g][h][j] /\ i \in Nat
  BY <1>1, LessIs
<1>3. 1 \in DOMAIN q[e][f] /\ Head(q[e][f]) = q[e][f][1]
  BY LessIs
<1>4. i > 0
  <2>1. CASE g = e /\ h = f
    <3>1. r[g][h] = Tail(q[e][f])
      BY <2>1 DEF Less, Queues
    <3>2. q[e][f] \in Seq(Message)
      BY DEF Queues
    <3> QED BY <3>1, <3>2, <1>1
  <2>2. CASE ~(g = e /\ h = f)
    <3>1. q[g][h] \in Seq(Message)
      BY DEF Queues
    <3> QED BY <3>1, <1>2, <2>2
  <2> QED BY <2>1, <2>2
<1>5. g = e /\ h = f /\ (1 < j => q[e][f][1].kind = "ACK" /\ k.kind = "FAILURE")
  BY <1>2, <1>3 DEF Ordered
<1> QED BY <1>2, <1>3, <1>4, <1>5

-----------------------------------------------------------------------------
(* The invariant holds at first, and every step keeps it.                  *)

\* Msg makes messages.
LEMMA MessageIs ==
  ASSUME NEW kind \in Kinds, NEW old \in Context \cup {None}, NEW new \in Context \cup {None}
  PROVE  Msg(kind, old, new) \in Message
BY DEF Msg, Message

\* At first nothing is under way and the UE is at its only context.
LEMMA InitHolds == Init => HandoverInv
<1> SUFFICES ASSUME Init PROVE HandoverInv
  OBVIOUS
<1> USE DEF Init
<1>0. 1 \in Context /\ x2 \in Queues
  <2>1. << >> \in Seq(Message)
    OBVIOUS
  <2>2. [f \in Enb |-> << >>] \in [Enb -> Seq(Message)]
    BY <2>1
  <2> QED BY <2>2, X2Assumption DEF Queues, Context
<1>1. TypeInv
  <2>1. state \in [Context -> States \cup {"none", "removed"}]
    BY DEF States
  <2>2. enb \in [Context -> Enb] /\ x2u \in [Enb -> Context \cup {None}]
    BY X2Assumption
  <2>3. handovers \in 0..MaxHandovers /\ forwarded \in 0..MaxForwarded
    BY X2Assumption
  <2> QED BY <1>0, <2>1, <2>2, <2>3 DEF TypeInv
<1>2. \A e, f \in Enb : Wire(e, f) = {}
  BY DEF Wire, WireOf
<1>3. MessageInv /\ OrderInv
  BY <1>2 DEF MessageInv, OrderInv, Ordered, Wire, WireOf
<1>4. ContextInv /\ CommandInv /\ ReconfigurationInv /\ UeInv /\ ToldInv /\ TimersMatchStates
  BY <1>1, <1>2 DEF TypeInv, ContextInv, CommandInv, ReconfigurationInv, UeInv, ToldInv, TimersMatchStates, Context, None, Gone
<1>5. ServeInv
  BY DEF ServeInv, OneServes, Serving, Coming
<1> QED BY <1>1, <1>3, <1>4, <1>5 DEF HandoverInv

\* The types used throughout.
LEMMA SameTypes ==
  ASSUME HandoverInv
  PROVE  /\ x2 \in Queues
         /\ \A n \in Context : source[n] \in Context \cup {None} /\ enb[n] \in Enb
         /\ OrderInv /\ Ordered(x2) /\ ue.context \in Context
BY DEF HandoverInv, TypeInv, OrderInv

\* A step that moves no context and not the UE, and leaves no more under way but for
\* data and cancellations, keeps the invariant.
LEMMA QuietKeeps ==
  ASSUME HandoverInv, TypeInv', OrderInv',
         \A g, h \in Enb : \A k \in Wire(g, h)' : k \in Wire(g, h) \/ k.kind \in {"DATA", "CANCEL"},
         UNCHANGED <<state, enb, source, target, leaving, ue>>,
         release' = release \/ ue.state = "left",
         joining' \subseteq joining, removal' \subseteq removal, command' \subseteq command,
         completed' \subseteq completed, pathSwitch' \subseteq pathSwitch
  PROVE  HandoverInv'
<1>1. ASSUME NEW n \in Context, Untouched(n) PROVE Untouched(n)'
  BY <1>1 DEF Untouched
<1>2. MessageInv'
  <2> SUFFICES ASSUME NEW g \in Enb, NEW h \in Enb, NEW k \in Wire(g, h)' PROVE Timely(g, h, k)'
    BY DEF MessageInv
  <2>1. CASE k.kind \in {"DATA", "CANCEL"}
    BY <2>1 DEF Timely
  <2>2. CASE k \in Wire(g, h)
    <3>1. Timely(g, h, k)
      BY <2>2 DEF HandoverInv, MessageInv
    <3>2. k.kind = "ACK" => AckInv(g, h, k)'
      BY <1>1, <3>1 DEF AckInv, Timely
    <3> QED BY <3>1, <3>2 DEF Timely, RequestInv, FailureInv, ReleaseInv, NoneJoins, Gone
  <2> QED BY <2>1, <2>2
<1>3. ContextInv' /\ TimersMatchStates'
  BY DEF HandoverInv, ContextInv, TimersMatchStates, Gone
<1>4. CommandInv' /\ ReconfigurationInv' /\ UeInv'
  BY <1>1 DEF HandoverInv, CommandInv, ReconfigurationInv, UeInv, Gone
<1>5. ToldInv'
  BY DEF HandoverInv, ToldInv, SourceTells
<1>6. ServeInv'
  BY DEF HandoverInv, ServeInv, OneServes, Coming
<1> QED BY <1>2, <1>3, <1>4, <1>5, <1>6 DEF HandoverInv

\* A stutter, and an abort, which only says why.
LEMMA NothingChanges ==
  ASSUME HandoverInv,
         UNCHANGED <<enbVars, x2, pathSwitch, ueVars, eventVars, countVars>>
  PROVE  HandoverInv'
<1> USE DEF enbVars, ueVars, eventVars, countVars
<1>1. TypeInv'
  BY DEF HandoverInv, TypeInv
<1>2. OrderInv'
  BY DEF HandoverInv, OrderInv
<1>3. \A g, h \in Enb : Wire(g, h)' = Wire(g, h)
  BY DEF Wire
<1> QED BY <1>1, <1>2, <1>3, QuietKeeps

\* In CONNECTED_NORMALLY nothing is asked of c and nobody joins for it.
LEMMA TriggerHandoverKeeps ==
  ASSUME HandoverInv, NEW c \in Context, NEW e \in Enb, TriggerHandover(c, e)
  PROVE  HandoverInv'
<1> DEFINE m == Msg("REQUEST", c, None)
<1> USE DEF TriggerHandover, enbVars, ueVars, eventVars, countVars
<1>1. m \in Message /\ x2 \in Queues /\ enb[c] \in Enb /\ x2' = Sent(x2, enb[c], e, m)
  BY MessageIs DEF HandoverInv, TypeInv, Kinds
<1>2. \A g, h \in Enb : \A k \in Wire(g, h)' : k \in Wire(g, h) \/ (g = enb[c] /\ h = e /\ k = m)
  BY <1>1, SentWire DEF Wire
<1>3. m.kind = "REQUEST" /\ m.old = c
  BY DEF Msg
<1> HIDE DEF m
<1>4. TypeInv'
  <2>1. x2' \in Queues
    BY <1>1, SentQueues
  <2>2. handovers' \in 0..MaxHandovers
    BY X2Assumption DEF HandoverInv, TypeInv
  <2> QED BY <2>1, <2>2 DEF HandoverInv, TypeInv, States
<1>5. ASSUME NEW g \in Enb, NEW h \in Enb, NEW k \in Wire(g, h) PROVE ~Asks(k, c)
  <2>1. state[c] = "CONNECTED_NORMALLY"
    OBVIOUS
  <2>2. Timely(g, h, k)
    BY DEF HandoverInv, MessageInv
  <2> QED BY <2>1, <2>2 DEF Timely, RequestInv, AckInv, FailureInv, Asks
<1>6. OrderInv'
  BY <1>1, <1>3, <1>5, SentOrdered DEF HandoverInv, OrderInv, Asks, Wire
<1>7. NoneJoins(c)
  BY DEF HandoverInv, ContextInv, NoneJoins, TypeInv
<1>untouched. \A n \in Context : Untouched(n) => Untouched(n)'
  BY <1>2, <1>3 DEF HandoverInv, Untouched, TypeInv
<1>8. MessageInv'
  <2> SUFFICES ASSUME NEW g \in Enb, NEW h \in Enb, NEW k \in Wire(g, h)' PROVE Timely(g, h, k)'
    BY DEF MessageInv
  <2>1. CASE k = m /\ g = enb[c]
    BY <2>1, <1>3, <1>7 DEF Timely, RequestInv, NoneJoins, HandoverInv, TypeInv
  <2>2. CASE k \in Wire(g, h)
    <3>1. Timely(g, h, k) /\ ~Asks(k, c)
      BY <2>2, <1>5 DEF HandoverInv, MessageInv
    <3>2. k.kind = "REQUEST" => RequestInv(g, h, k)'
      BY <3>1 DEF Timely, RequestInv, NoneJoins, Asks, HandoverInv, TypeInv
    <3>3. k.kind = "ACK" => AckInv(g, h, k)'
      BY <3>1, <1>untouched DEF Timely, AckInv, Asks, HandoverInv, TypeInv
    <3>4. k.kind = "FAILURE" => FailureInv(k)'
      BY <3>1 DEF Timely, FailureInv, NoneJoins, Asks, HandoverInv, TypeInv
    <3>5. k.kind = "RELEASE" => ReleaseInv(k)'
      BY <3>1 DEF Timely, ReleaseInv, Gone, HandoverInv, TypeInv
    <3> QED BY <3>2, <3>3, <3>4, <3>5 DEF Timely
  <2> QED BY <1>2, <2>1, <2>2
<1>9. ContextInv' /\ TimersMatchStates'
  BY DEF HandoverInv, ContextInv, TimersMatchStates, TypeInv, Gone
<1>10. CommandInv' /\ ReconfigurationInv' /\ UeInv'
  BY <1>2, <1>3 DEF HandoverInv, CommandInv, ReconfigurationInv, UeInv, TypeInv, Gone, Untouched
<1>11. ToldInv'
  BY <1>2, <1>3 DEF HandoverInv, ToldInv, SourceTells, TypeInv
<1>12. ServeInv'
  BY DEF HandoverInv, ServeInv, OneServes, Serving, Coming, TypeInv
<1> QED BY <1>4, <1>6, <1>8, <1>9, <1>10, <1>11, <1>12 DEF HandoverInv

\* The message from e to f is taken.
LEMMA TakenFacts ==
  ASSUME HandoverInv, NEW e \in Enb, NEW f \in Enb, x2[e][f] # << >>
  PROVE  /\ Taken(e, f) \in Queues /\ Ordered(Taken(e, f))
         /\ Head(x2[e][f]) \in Wire(e, f) /\ Head(x2[e][f]) \in Message
         /\ Timely(e, f, Head(x2[e][f]))
         /\ \A g, h \in Enb : WireOf(Taken(e, f), g, h) \subseteq Wire(g, h)
         /\ \A c \in Context : Asks(Head(x2[e][f]), c) =>
              \A g, h \in Enb : \A k \in WireOf(Taken(e, f), g, h) : Asks(k, c) =>
                g = e /\ h = f /\ Head(x2[e][f]).kind = "ACK" /\ k.kind = "FAILURE"
<1>1. Taken(e, f) = Less(x2, e, f)
  BY DEF Taken, Less
<1>2. x2 \in Queues /\ Ordered(x2)
  BY SameTypes
<1>3. Head(x2[e][f]) \in Wire(e, f)
  BY <1>2, LessIs DEF Wire
<1>4. Head(x2[e][f]) \in Message
  <2>1. x2[e][f] \in Seq(Message)
    BY <1>2 DEF Queues
  <2> QED BY <2>1
<1>5. Timely(e, f, Head(x2[e][f]))
  BY <1>3 DEF HandoverInv, MessageInv
<1>6. Less(x2, e, f) \in Queues /\ Ordered(Less(x2, e, f))
  BY <1>2, LessIs, LessOrdered
<1>7. \A g, h \in Enb : WireOf(Less(x2, e, f), g, h) \subseteq Wire(g, h)
  BY <1>2, LessWire DEF Wire
<1>8. ASSUME NEW c \in Context, Asks(Head(x2[e][f]), c), NEW g \in Enb, NEW h \in Enb,
             NEW k \in WireOf(Less(x2, e, f), g, h), Asks(k, c)
      PROVE  g = e /\ h = f /\ Head(x2[e][f]).kind = "ACK" /\ k.kind = "FAILURE"
  BY <1>2, <1>8, TakenLeaves
<1> QED BY <1>1, <1>3, <1>4, <1>5, <1>6, <1>7, <1>8

\* A context is removed.
LEMMA RemoveUeKeeps ==
  ASSUME HandoverInv, NEW c \in Context, state[c] \in States, RemoveUe(c),
         state[c] \in {"HANDOVER_JOINING", "HANDOVER_LEAVING"} \/ ue.state = "left",
         UNCHANGED <<ue, command, pathSwitch, handovers, forwarded>>,
         x2' \in Queues, OrderInv', ToldInv', removal' \subseteq removal, release' \in BOOLEAN,
         \A g, h \in Enb : \A k \in Wire(g, h)' :
           \/ k \in Wire(g, h)
           \/ k.kind \in {"DATA", "CANCEL"}
           \/ k.kind = "FAILURE" /\ k.old = source[c] /\ state[c] = "HANDOVER_JOINING"
  PROVE  HandoverInv'
<1> USE DEF RemoveUe
<1>1. TypeInv'
  BY DEF HandoverInv, TypeInv
<1>types. /\ state \in [Context -> States \cup {"none", "removed"}]
      /\ source \in [Context -> Context \cup {None}]
  BY DEF HandoverInv, TypeInv
<1>2. ASSUME NEW n \in Context, Untouched(n) PROVE Untouched(n)'
  BY <1>2, <1>types DEF Untouched
<1>3. MessageInv'
  <2> SUFFICES ASSUME NEW g \in Enb, NEW h \in Enb, NEW k \in Wire(g, h)' PROVE Timely(g, h, k)'
    BY DEF MessageInv
  <2>1. CASE k.kind \in {"DATA", "CANCEL"}
    BY <2>1 DEF Timely
  <2>2. CASE k \in Wire(g, h)
    <3>1. Timely(g, h, k)
      BY <2>2 DEF HandoverInv, MessageInv
    <3>2. k.kind = "ACK" => AckInv(g, h, k)'
      BY <1>2, <1>types, <3>1 DEF AckInv, Timely
    <3>3. k.kind = "RELEASE" => ReleaseInv(k)'
      BY <1>types, <3>1 DEF ReleaseInv, Timely, Gone
    <3>4. k.kind = "REQUEST" => RequestInv(g, h, k)'
      BY <1>types, <3>1 DEF Timely, RequestInv, NoneJoins
    <3>5. k.kind = "FAILURE" => FailureInv(k)'
      BY <1>types, <3>1 DEF Timely, FailureInv, NoneJoins
    <3> QED BY <3>2, <3>3, <3>4, <3>5 DEF Timely
  <2>3. CASE k.kind = "FAILURE" /\ k.old = source[c] /\ state[c] = "HANDOVER_JOINING"
    <3>1. FailureInv(k)'
      BY <2>3, <1>types DEF FailureInv, NoneJoins, HandoverInv, ContextInv
    <3> QED BY <2>3, <3>1 DEF Timely
  <2> QED BY <2>1, <2>2, <2>3
<1>4. ContextInv'
  BY <1>types DEF HandoverInv, ContextInv, Gone, States
<1>5. TimersMatchStates'
  BY <1>types DEF HandoverInv, TimersMatchStates
<1>6. CommandInv' /\ ReconfigurationInv'
  BY <1>2, <1>types DEF HandoverInv, CommandInv, ReconfigurationInv, Gone
<1>7. UeInv'
  BY <1>types, SameTypes DEF HandoverInv, UeInv, Gone
<1>8. ServeInv'
  BY <1>types DEF HandoverInv, ServeInv, OneServes, Coming, Serving
<1> QED BY <1>1, <1>3, <1>4, <1>5, <1>6, <1>7, <1>8 DEF HandoverInv

\* Of the preparation only the failure of the target can be left, which a leaving
\* context takes too.  No other context serves, and nothing else is coming.
LEMMA ReceiveAckKeeps ==
  ASSUME HandoverInv, NEW e \in Enb, NEW f \in Enb, ReceiveAck(e, f)
  PROVE  HandoverInv'
<1> DEFINE m == Head(x2[e][f])
           c == m.old
           n == m.new
<1> USE DEF enbVars, ueVars, eventVars, countVars
<1>1. CASE ~Live(c)
  BY <1>1, NothingChanges DEF ReceiveAck, Abort
<1>2. CASE Live(c)
  <2>1. /\ x2[e][f] # << >> /\ m.kind = "ACK"
        /\ x2' = Taken(e, f)
        /\ state' = [state EXCEPT ![c] = "HANDOVER_LEAVING"]
        /\ target' = [target EXCEPT ![c] = n]
        /\ leaving' = leaving \cup {c}
        /\ command' = command \cup {<<c, n>>}
        /\ UNCHANGED <<enb, source, joining, x2u, pathSwitch, ue, completed, eventVars, countVars>>
    BY <1>2 DEF ReceiveAck, Arrives
  <2>2. x2' \in Queues /\ OrderInv' /\ AckInv(e, f, m) /\ m \in Message
    BY <2>1, TakenFacts DEF OrderInv, Timely
  <2>3. /\ c \in Context /\ n \in Context /\ state[c] = "HANDOVER_PREPARATION"
        /\ source[n] = c /\ Untouched(n)
    BY <1>2, <2>2 DEF AckInv, Live, States
  <2>4. \A g, h \in Enb : \A k \in Wire(g, h)' :
          k \in Wire(g, h) /\ (Asks(k, c) => k.kind = "FAILURE")
    BY <2>1, <2>3, TakenFacts DEF Wire, Asks
  <2>types. /\ state \in [Context -> States \cup {"none", "removed"}]
        /\ target \in [Context -> Context \cup {None}]
        /\ source \in [Context -> Context \cup {None}]
    BY DEF HandoverInv, TypeInv
  <2> HIDE DEF m, c, n
  <2>5. TypeInv'
    BY <2>1, <2>2, <2>3 DEF HandoverInv, TypeInv, States
  <2>6. ASSUME NEW d \in Context, Untouched(d) PROVE Untouched(d)'
    BY <2>1, <2>3, <2>4, <2>6, <2>types DEF Untouched
  <2>7. MessageInv'
    <3> SUFFICES ASSUME NEW g \in Enb, NEW h \in Enb, NEW k \in Wire(g, h)' PROVE Timely(g, h, k)'
      BY DEF MessageInv
    <3>1. Timely(g, h, k) /\ (Asks(k, c) => k.kind = "FAILURE")
      BY <2>4 DEF HandoverInv, MessageInv
    <3>2. k.kind = "REQUEST" => RequestInv(g, h, k)'
      BY <3>1, <2>1, <2>3, <2>types DEF Timely, RequestInv, NoneJoins, Asks
    <3>3. k.kind = "ACK" => AckInv(g, h, k)'
      BY <3>1, <2>1, <2>3, <2>6, <2>types DEF Timely, AckInv, Asks
    <3>4. k.kind = "FAILURE" => FailureInv(k)'
      BY <3>1, <2>1, <2>3, <2>types DEF Timely, FailureInv, NoneJoins
    <3>5. k.kind = "RELEASE" => ReleaseInv(k)'
      BY <3>1, <2>1, <2>3, <2>types DEF Timely, ReleaseInv, Gone
    <3> QED BY <3>2, <3>3, <3>4, <3>5 DEF Timely
  <2>8. ContextInv'
    BY <2>1, <2>3, <2>types DEF HandoverInv, ContextInv, Gone
  <2>9. CommandInv'
    BY <2>1, <2>3, <2>6, <2>types DEF HandoverInv, CommandInv, Gone
  <2>reconfiguration. ReconfigurationInv'
    BY <2>1, <2>3, <2>types DEF HandoverInv, ReconfigurationInv, Context, None
  <2>10. UeInv'
    BY <2>1, <2>3, <2>types, SameTypes DEF HandoverInv, UeInv, Gone
  <2>11. ToldInv'
    BY <2>1, <2>3, <2>4, <2>types, SameTypes DEF HandoverInv, ToldInv, SourceTells
  <2>12. ServeInv'
    BY <2>1, <2>3, <2>types DEF HandoverInv, ServeInv, OneServes, Coming, Serving
  <2>13. TimersMatchStates'
    BY <2>1, <2>3, <2>types DEF HandoverInv, TimersMatchStates
  <2> QED BY <2>2, <2>5, <2>7, <2>8, <2>9, <2>10, <2>11, <2>12, <2>13,
         <2>reconfiguration DEF HandoverInv
<1> QED BY <1>1, <1>2

\* Nothing is left of the preparation, so that the next one starts afresh.
LEMMA ReceiveFailureKeeps ==
  ASSUME HandoverInv, NEW e \in Enb, NEW f \in Enb, ReceiveFailure(e, f)
  PROVE  HandoverInv'
<1> DEFINE m == Head(x2[e][f])
           c == m.old
<1> USE DEF enbVars, ueVars, eventVars, countVars
<1>1. CASE /\ x2' = Taken(e, f)
           /\ UNCHANGED <<enbVars, pathSwitch, ueVars, eventVars, countVars>>
           /\ x2[e][f] # << >>
  <2>1. x2' \in Queues /\ OrderInv' /\ \A g, h \in Enb : Wire(g, h)' \subseteq Wire(g, h)
    BY <1>1, TakenFacts DEF OrderInv, Wire
  <2>2. TypeInv'
    BY <1>1, <2>1 DEF HandoverInv, TypeInv
  <2> QED BY <1>1, <2>1, <2>2, QuietKeeps
<1>2. CASE /\ x2[e][f] # << >> /\ m.kind = "FAILURE" /\ x2' = Taken(e, f)
           /\ Live(c) /\ state[c] = "HANDOVER_PREPARATION"
           /\ state' = [state EXCEPT ![c] = "CONNECTED_NORMALLY"]
           /\ UNCHANGED <<enb, source, target, joining, leaving, x2u, pathSwitch, ueVars,
                          eventVars, countVars>>
  <2>1. x2' \in Queues /\ OrderInv' /\ FailureInv(m)
    BY <1>2, TakenFacts DEF OrderInv, Timely
  <2>2. c \in Context /\ NoneJoins(c)
    BY <1>2, <2>1 DEF FailureInv
  <2>3. \A g, h \in Enb : \A k \in Wire(g, h)' : k \in Wire(g, h) /\ ~Asks(k, c)
    BY <1>2, <2>2, TakenFacts DEF Wire, Asks
  <2>types. /\ state \in [Context -> States \cup {"none", "removed"}]
        /\ source \in [Context -> Context \cup {None}]
    BY DEF HandoverInv, TypeInv
  <2> HIDE DEF m, c
  <2>5. TypeInv'
    BY <1>2, <2>1, <2>2 DEF HandoverInv, TypeInv, States
  <2>6. ASSUME NEW d \in Context, Untouched(d) PROVE Untouched(d)'
    BY <1>2, <2>3, <2>6, <2>types DEF Untouched
  <2>7. MessageInv'
    <3> SUFFICES ASSUME NEW g \in Enb, NEW h \in Enb, NEW k \in Wire(g, h)' PROVE Timely(g, h, k)'
      BY DEF MessageInv
    <3>1. Timely(g, h, k) /\ ~Asks(k, c)
      BY <2>3 DEF HandoverInv, MessageInv
    <3>2. k.kind = "REQUEST" => RequestInv(g, h, k)'
      BY <3>1, <1>2, <2>types DEF Timely, RequestInv, NoneJoins, Asks
    <3>3. k.kind = "ACK" => AckInv(g, h, k)'
      BY <3>1, <1>2, <2>6, <2>types DEF Timely, AckInv, Asks
    <3>4. k.kind = "FAILURE" => FailureInv(k)'
      BY <3>1, <1>2, <2>types DEF Timely, FailureInv, NoneJoins, Asks
    <3>5. k.kind = "RELEASE" => ReleaseInv(k)'
      BY <3>1, <1>2, <2>types DEF Timely, ReleaseInv, Gone
    <3> QED BY <3>2, <3>3, <3>4, <3>5 DEF Timely
  <2>8. ContextInv' /\ TimersMatchStates'
    BY <1>2, <2>2, <2>types DEF HandoverInv, ContextInv, TimersMatchStates, Gone, NoneJoins
  <2>9. CommandInv' /\ ReconfigurationInv' /\ UeInv'
    BY <1>2, <2>2, <2>6, <2>types, SameTypes
    DEF HandoverInv, CommandInv, ReconfigurationInv, UeInv, Gone
  <2>11. ToldInv'
    BY <1>2, <2>2, <2>3, <2>types, SameTypes DEF HandoverInv, ToldInv, SourceTells
  <2>12. ServeInv'
    BY <1>2, <2>2, <2>types DEF HandoverInv, ServeInv, OneServes, Coming, Serving
  <2> QED BY <2>1, <2>5, <2>7, <2>8, <2>9, <2>11, <2>12 DEF HandoverInv
<1>3. CASE /\ x2[e][f] # << >> /\ x2' = Taken(e, f)
           /\ Live(c) /\ state[c] = "HANDOVER_LEAVING" /\ SendRrcConnectionRelease(c)
           /\ UNCHANGED <<pathSwitch, ue, command, removal, countVars>>
  <2>1. x2' \in Queues /\ OrderInv' /\ \A g, h \in Enb : Wire(g, h)' \subseteq Wire(g, h)
    BY <1>3, TakenFacts DEF OrderInv, Wire
  <2>2. c \in Context /\ state[c] \in States /\ RemoveUe(c) /\ release' = TRUE
    BY <1>3 DEF Live, SendRrcConnectionRelease
  <2>3. ToldInv'
    BY <1>3, <2>2 DEF HandoverInv, ToldInv
  <2> QED BY <1>3, <2>1, <2>2, <2>3, RemoveUeKeeps
<1>4. CASE Abort("failed context")
  BY <1>4, NothingChanges DEF Abort
<1> QED BY <1>1, <1>2, <1>3, <1>4 DEF ReceiveFailure, Arrives

\* The UE is not at the context that is released: it is at the target or beyond.
LEMMA ReceiveContextReleaseKeeps ==
  ASSUME HandoverInv, NEW e \in Enb, NEW f \in Enb, ReceiveContextRelease(e, f)
  PROVE  HandoverInv'
<1> DEFINE m == Head(x2[e][f])
           c == m.old
<1> USE DEF enbVars, ueVars, eventVars, countVars
<1>1. /\ x2[e][f] # << >> /\ m.kind = "RELEASE"
      /\ \A g, h \in Enb : WireOf(Taken(e, f), g, h) \subseteq Wire(g, h)
      /\ Taken(e, f) \in Queues /\ Ordered(Taken(e, f)) /\ m \in Wire(e, f) /\ ReleaseInv(m)
  BY TakenFacts DEF ReceiveContextRelease, Arrives, Timely
<1>2. CASE /\ x2' = Taken(e, f)
           /\ UNCHANGED <<enbVars, pathSwitch, ueVars, eventVars, countVars>>
  <2>1. x2' \in Queues /\ OrderInv' /\ \A g, h \in Enb : Wire(g, h)' \subseteq Wire(g, h)
    BY <1>1, <1>2 DEF OrderInv, Wire
  <2>2. TypeInv'
    BY <1>2, <2>1 DEF HandoverInv, TypeInv
  <2> QED BY <1>2, <2>1, <2>2, QuietKeeps
<1>3. CASE /\ x2' = Taken(e, f) /\ Live(c) /\ state[c] = "HANDOVER_LEAVING" /\ RemoveUe(c)
           /\ UNCHANGED <<pathSwitch, ue, command, eventVars, countVars>>
  <2>1. x2' \in Queues /\ OrderInv' /\ \A g, h \in Enb : Wire(g, h)' \subseteq Wire(g, h)
    BY <1>1, <1>3 DEF OrderInv, Wire
  <2>2. c \in Context /\ state[c] \in States /\ state' = [state EXCEPT ![c] = "removed"]
    BY <1>3 DEF Live, RemoveUe
  <2>3. ToldInv'
    <3> HIDE DEF m, c
    <3>1. ue.context # c /\ source[m.new] = c /\ target[c] = m.new /\ m.new # None
          /\ state[m.new] # "HANDOVER_JOINING"
      BY <1>1 DEF ReleaseInv, c, Context, None
    <3>2. state \in [Context -> States \cup {"none", "removed"}]
          /\ source \in [Context -> Context \cup {None}] /\ ue.context \in Context
      BY SameTypes DEF HandoverInv, TypeInv
    <3>3. source' = source /\ UNCHANGED <<ue, command, release, removal>>
      BY <1>3 DEF RemoveUe
    <3>4. source[ue.context] = c => ue.context = m.new
      BY <3>1, <2>2, SameTypes DEF HandoverInv, UeInv, Context, None
    <3>5. CASE source[ue.context] # c
      BY <2>1, <2>2, <3>1, <3>2, <3>3, <3>5 DEF HandoverInv, ToldInv, SourceTells
    <3>6. CASE ue.context = m.new
      BY <1>1, <2>1, <2>2, <3>1, <3>2, <3>3, <3>6 DEF HandoverInv, ToldInv, SourceTells
    <3> QED BY <3>4, <3>5, <3>6
  <2> QED BY <1>3, <2>1, <2>2, <2>3, RemoveUeKeeps DEF HandoverInv, TypeInv
<1>4. CASE Abort("released context")
  BY <1>4, NothingChanges DEF Abort
<1> QED BY <1>2, <1>3, <1>4 DEF ReceiveContextRelease

\* Data and cancellations tell no context anything the invariant speaks of.
LEMMA ForwardDataKeeps ==
  ASSUME HandoverInv, NEW c \in Context, ForwardData(c)
  PROVE  HandoverInv'
<1> DEFINE m == Msg("DATA", None, None)
<1> USE DEF enbVars, ueVars, eventVars, countVars
<1>1. m \in Message /\ m.kind = "DATA"
  BY MessageIs DEF Kinds, Msg
<1>2. enb[c] \in Enb /\ enb[target[c]] \in Enb /\ x2' = Sent(x2, enb[c], enb[target[c]], m)
  BY SameTypes DEF ForwardData, HandoverInv, ContextInv
<1> HIDE DEF m
<1>3. x2' \in Queues /\ \A g, h \in Enb : \A k \in Wire(g, h)' : k \in Wire(g, h) \/ k = m
  BY <1>1, <1>2, SameTypes, SentQueues, SentWire DEF Wire
<1>4. OrderInv'
  BY <1>1, <1>2, SameTypes, SentOrdered DEF OrderInv, Asks
<1>5. TypeInv'
  <2>1. forwarded' \in 0..MaxForwarded
    BY X2Assumption DEF ForwardData, HandoverInv, TypeInv
  <2> QED BY <1>3, <2>1 DEF ForwardData, HandoverInv, TypeInv
<1> QED BY <1>1, <1>3, <1>4, <1>5, QuietKeeps DEF ForwardData

\* The UE is told.
LEMMA HandoverLeavingTimeoutKeeps ==
  ASSUME HandoverInv, NEW c \in Context, HandoverLeavingTimeout(c)
  PROVE  HandoverInv'
<1> DEFINE m == Msg("CANCEL", c, target[c])
<1> USE DEF enbVars, ueVars, eventVars, countVars
<1>1. c \in Context /\ state[c] = "HANDOVER_LEAVING" /\ target[c] \in Context
  BY DEF HandoverLeavingTimeout, HandoverInv, TimersMatchStates, ContextInv
<1>2. /\ x2' = Sent(x2, enb[c], enb[target[c]], m) /\ SendRrcConnectionRelease(c)
      /\ UNCHANGED <<pathSwitch, ue, command, removal, countVars>>
  BY <1>1 DEF HandoverLeavingTimeout
<1>3. m \in Message /\ m.kind = "CANCEL"
  BY <1>1, MessageIs DEF Kinds, Msg
<1> HIDE DEF m
<1>4. enb[c] \in Enb /\ enb[target[c]] \in Enb
  BY <1>1, SameTypes
<1>5. x2' \in Queues /\ \A g, h \in Enb : \A k \in Wire(g, h)' : k \in Wire(g, h) \/ k = m
  BY <1>2, <1>3, <1>4, SameTypes, SentQueues, SentWire DEF Wire
<1>6. OrderInv'
  BY <1>2, <1>3, <1>4, SameTypes, SentOrdered DEF OrderInv, Asks
<1>7. RemoveUe(c) /\ release' = TRUE /\ state[c] \in States
  BY <1>1, <1>2 DEF SendRrcConnectionRelease, States
<1>8. ToldInv'
  BY <1>2, <1>7 DEF HandoverInv, ToldInv
<1> QED BY <1>1, <1>2, <1>3, <1>5, <1>6, <1>7, <1>8, RemoveUeKeeps

\* The request was all there was of the preparation; its failure takes its place.
LEMMA RefuseRequestKeeps ==
  ASSUME HandoverInv, NEW e \in Enb, NEW f \in Enb, RefuseRequest(e, f)
  PROVE  HandoverInv'
<1> DEFINE r == Head(x2[e][f])
           c == r.old
           m == Msg("FAILURE", c, None)
<1> USE DEF enbVars, ueVars, eventVars, countVars
<1>1. /\ x2[e][f] # << >> /\ r.kind = "REQUEST"
      /\ x2' = Sent(Taken(e, f), f, e, m)
      /\ UNCHANGED <<enbVars, pathSwitch, ueVars, eventVars, countVars>>
  BY DEF RefuseRequest, Arrives
<1>2. /\ Taken(e, f) \in Queues /\ Ordered(Taken(e, f)) /\ RequestInv(e, f, r)
      /\ \A g, h \in Enb : WireOf(Taken(e, f), g, h) \subseteq Wire(g, h)
  BY <1>1, TakenFacts DEF Timely
<1>3. c \in Context /\ m \in Message /\ m.kind = "FAILURE" /\ m.old = c
  BY <1>2, MessageIs DEF RequestInv, Kinds, Msg
<1>4. \A g, h \in Enb : \A k \in WireOf(Taken(e, f), g, h) : ~Asks(k, c)
  BY <1>1, <1>3, TakenFacts DEF Asks
<1>5. state[c] \in {"HANDOVER_PREPARATION", "removed"} /\ NoneJoins(c)
  BY <1>2 DEF RequestInv
<1> HIDE DEF r, c, m
<1>6. x2' \in Queues /\ \A g, h \in Enb : \A k \in Wire(g, h)' : k \in Wire(g, h) \/ k = m
  BY <1>1, <1>2, <1>3, SentQueues, SentWire DEF Wire
<1>7. OrderInv'
  BY <1>1, <1>2, <1>3, <1>4, SentOrdered DEF OrderInv, Asks
<1>8. TypeInv'
  BY <1>1, <1>6 DEF HandoverInv, TypeInv
<1>9. ASSUME NEW n \in Context, Untouched(n) PROVE Untouched(n)'
  BY <1>1, <1>3, <1>6, <1>9 DEF Untouched
<1>10. MessageInv'
  <2> SUFFICES ASSUME NEW g \in Enb, NEW h \in Enb, NEW k \in Wire(g, h)' PROVE Timely(g, h, k)'
    BY DEF MessageInv
  <2>1. CASE k = m
    BY <1>1, <1>3, <1>5, <2>1 DEF Timely, FailureInv, NoneJoins
  <2>2. CASE k \in Wire(g, h)
    <3>1. Timely(g, h, k)
      BY <2>2 DEF HandoverInv, MessageInv
    <3>2. k.kind = "ACK" => AckInv(g, h, k)'
      BY <1>1, <1>9, <3>1 DEF AckInv, Timely
    <3> QED BY <1>1, <3>1, <3>2 DEF Timely, RequestInv, FailureInv, ReleaseInv, NoneJoins, Gone
  <2> QED BY <1>6, <2>1, <2>2
<1>11. ContextInv' /\ TimersMatchStates'
  BY <1>1 DEF HandoverInv, ContextInv, TimersMatchStates, Gone
<1>12. CommandInv' /\ ReconfigurationInv' /\ UeInv'
  BY <1>1, <1>9 DEF HandoverInv, CommandInv, ReconfigurationInv, UeInv, Gone
<1>13. ToldInv'
  BY <1>1, <1>3, <1>6 DEF HandoverInv, ToldInv, SourceTells
<1>14. ServeInv'
  BY <1>1 DEF HandoverInv, ServeInv, OneServes, Coming
<1> QED BY <1>7, <1>8, <1>10, <1>11, <1>12, <1>13, <1>14 DEF HandoverInv

\* The new context was mentioned nowhere; the acknowledgement takes the place of the
\* request.
LEMMA AcceptRequestKeeps ==
  ASSUME HandoverInv, NEW e \in Enb, NEW f \in Enb, AcceptRequest(e, f)
  PROVE  HandoverInv'
<1> DEFINE r == Head(x2[e][f])
           old == r.old
<1> USE DEF enbVars, ueVars, eventVars, countVars
<1>1. PICK new \in Context :
        /\ x2[e][f] # << >> /\ r.kind = "REQUEST" /\ state[new] = "none"
        /\ \/ /\ x2' = Sent(Taken(e, f), f, e, Msg("ACK", old, new))
              /\ state' = [state EXCEPT ![new] = "HANDOVER_JOINING"]
              /\ enb' = [enb EXCEPT ![new] = f]
              /\ source' = [source EXCEPT ![new] = old]
              /\ joining' = joining \cup {new}
              /\ x2u' = [x2u EXCEPT ![f] = new]
              /\ UNCHANGED <<target, leaving, pathSwitch, ueVars, eventVars, countVars>>
           \/ Abort("overwritten TEID")
  BY DEF AcceptRequest, Arrives
<1>2. CASE Abort("overwritten TEID")
  BY <1>2, NothingChanges DEF Abort
<1>3. CASE /\ x2' = Sent(Taken(e, f), f, e, Msg("ACK", old, new))
           /\ state' = [state EXCEPT ![new] = "HANDOVER_JOINING"]
           /\ enb' = [enb EXCEPT ![new] = f]
           /\ source' = [source EXCEPT ![new] = old]
           /\ joining' = joining \cup {new}
           /\ x2u' = [x2u EXCEPT ![f] = new]
           /\ UNCHANGED <<target, leaving, pathSwitch, ueVars, eventVars, countVars>>
  <2> DEFINE m == Msg("ACK", old, new)
  <2>1. /\ Taken(e, f) \in Queues /\ Ordered(Taken(e, f)) /\ RequestInv(e, f, r)
        /\ \A g, h \in Enb : WireOf(Taken(e, f), g, h) \subseteq Wire(g, h)
        /\ r \in Wire(e, f)
    BY <1>1, TakenFacts DEF Timely
  <2>2. old \in Context /\ m \in Message /\ m.kind = "ACK" /\ m.old = old /\ m.new = new
    BY <2>1, MessageIs DEF RequestInv, Kinds, Msg
  <2>3. \A g, h \in Enb : \A k \in WireOf(Taken(e, f), g, h) : ~Asks(k, old)
    BY <1>1, <2>2, TakenFacts DEF Asks
  <2>4. state[old] \in {"HANDOVER_PREPARATION", "removed"} /\ NoneJoins(old) /\ enb[old] = e
    BY <2>1 DEF RequestInv
  <2>types. /\ state \in [Context -> States \cup {"none", "removed"}]
        /\ source \in [Context -> Context \cup {None}] /\ enb \in [Context -> Enb]
    BY DEF HandoverInv, TypeInv
  <2>5. x2' = Sent(Taken(e, f), f, e, m)
    BY <1>3
  <2> HIDE DEF m
  <2>6. x2' \in Queues /\ \A g, h \in Enb : \A k \in Wire(g, h)' :
          \/ k \in Wire(g, h) /\ ~Asks(k, old)
          \/ k = m /\ g = f /\ h = e
    BY <2>1, <2>2, <2>3, <2>5, SentQueues, SentWire DEF Wire
  <2>7. OrderInv'
    BY <2>1, <2>2, <2>3, <2>5, SentOrdered DEF OrderInv, Asks
  <2>8. TypeInv'
    BY <1>3, <2>2, <2>6 DEF HandoverInv, TypeInv, States
  <2>9. /\ new # old /\ ue.context # new /\ new \notin completed
        /\ \A d \in Context : source[d] # new
        /\ \A d, n \in Context : <<d, n>> \in command => d # new /\ n # new
    <3>0. new # None
      BY X2Assumption DEF Context, None
    <3>1. new # old
      BY <1>1, <2>4
    <3>2. state[new] = "none" /\ ContextInv
      BY <1>1 DEF HandoverInv
    <3>3. new \notin completed
      BY <3>2 DEF ContextInv
    <3>4. \A d \in Context : source[d] # new
      BY <3>0, <3>2 DEF ContextInv
    <3> QED BY <3>1, <3>2, <3>3, <3>4 DEF HandoverInv, UeInv, CommandInv, Untouched, Gone
  <2>10. ASSUME NEW g \in Enb, NEW h \in Enb, NEW k \in Wire(g, h), k.kind # "CANCEL", k.kind # "DATA"
         PROVE  Timely(g, h, k) /\ (k.kind \in {"REQUEST", "ACK", "FAILURE", "RELEASE"} => k.old # new)
                /\ (k.kind \in {"ACK", "RELEASE"} => k.new # new)
    <3>1. Timely(g, h, k)
      BY DEF HandoverInv, MessageInv
    <3> QED BY <1>1, <3>1 DEF Timely, RequestInv, AckInv, FailureInv, ReleaseInv, Untouched, Gone
  <2>11. ASSUME NEW d \in Context, Untouched(d), d # new PROVE Untouched(d)'
    <3>1. d # old
      BY <1>1, <2>1, <2>11 DEF Untouched
    <3> QED BY <1>3, <2>2, <2>6, <2>11, <2>types, <3>1 DEF Untouched
  <2>12. Untouched(new)'
    BY <1>1, <1>3, <2>2, <2>6, <2>9, <2>10, <2>types DEF Untouched
  <2>13. MessageInv'
    <3> SUFFICES ASSUME NEW g \in Enb, NEW h \in Enb, NEW k \in Wire(g, h)' PROVE Timely(g, h, k)'
      BY DEF MessageInv
    <3>1. CASE k = m /\ g = f /\ h = e
      <4>1. AckInv(g, h, k)'
        BY <1>3, <2>2, <2>4, <2>9, <2>12, <2>types, <3>1 DEF AckInv, NoneJoins
      <4> QED BY <2>2, <3>1, <4>1 DEF Timely
    <3>2. CASE k \in Wire(g, h) /\ ~Asks(k, old)
      <4>1. CASE k.kind \in {"CANCEL", "DATA"}
        BY <4>1 DEF Timely
      <4>2. CASE k.kind \notin {"CANCEL", "DATA"}
        <5>1. /\ Timely(g, h, k) /\ (k.kind \in {"REQUEST", "ACK", "FAILURE", "RELEASE"} => k.old # new)
              /\ (k.kind \in {"ACK", "RELEASE"} => k.new # new) /\ ~Asks(k, old)
          BY <2>10, <3>2, <4>2
        <5>2. k.kind = "REQUEST" => RequestInv(g, h, k)'
          BY <5>1, <1>3, <2>9, <2>types DEF Timely, RequestInv, NoneJoins, Asks
        <5>3. k.kind = "ACK" => AckInv(g, h, k)'
          BY <5>1, <1>3, <2>9, <2>11, <2>types DEF Timely, AckInv, Asks
        <5>4. k.kind = "FAILURE" => FailureInv(k)'
          BY <5>1, <1>3, <2>types DEF Timely, FailureInv, NoneJoins, Asks
        <5>5. k.kind = "RELEASE" => ReleaseInv(k)'
          BY <5>1, <1>3, <2>types DEF Timely, ReleaseInv, Gone
        <5> QED BY <5>2, <5>3, <5>4, <5>5 DEF Timely
      <4> QED BY <4>1, <4>2
    <3> QED BY <2>6, <3>1, <3>2
  <2>14. ContextInv'
    BY <1>1, <1>3, <2>2, <2>4, <2>9, <2>types DEF HandoverInv, ContextInv, Gone, NoneJoins
  <2>15. CommandInv' /\ ReconfigurationInv'
    BY <1>1, <1>3, <2>9, <2>11, <2>types DEF HandoverInv, CommandInv, ReconfigurationInv, Gone
  <2>16. UeInv'
    BY <1>1, <1>3, <2>9, <2>types, SameTypes DEF HandoverInv, UeInv, Gone
  <2>17. ToldInv'
    BY <1>1, <1>3, <2>2, <2>6, <2>9, <2>types, SameTypes DEF HandoverInv, ToldInv, SourceTells
  <2>18. ServeInv'
    BY <1>1, <1>3, <2>9, <2>types DEF HandoverInv, ServeInv, OneServes, Coming, Serving
  <2>19. TimersMatchStates'
    BY <1>1, <1>3, <2>types DEF HandoverInv, TimersMatchStates
  <2> QED BY <2>7, <2>8, <2>13, <2>14, <2>15, <2>16, <2>17, <2>18, <2>19 DEF HandoverInv
<1> QED BY <1>1, <1>2, <1>3

\* Nobody served, and nobody else was coming.
LEMMA JoiningCompletedKeeps ==
  ASSUME HandoverInv, NEW c \in Context, ReceiveCompleted(c), state[c] = "HANDOVER_JOINING"
  PROVE  HandoverInv'
<1> USE DEF enbVars, ueVars, eventVars, countVars
<1>1. c \in completed /\ state[c] = "HANDOVER_JOINING"
  BY DEF ReceiveCompleted, HandoverInv, ContextInv
<1>2. /\ completed' = completed \ {c}
      /\ joining' = joining \ {c}
      /\ state' = [state EXCEPT ![c] = "HANDOVER_PATH_SWITCH"]
      /\ pathSwitch' = pathSwitch \cup {c}
      /\ UNCHANGED <<enb, source, target, leaving, x2u, x2, ue, command, eventVars, countVars>>
  BY <1>1 DEF ReceiveCompleted
<1>types. /\ state \in [Context -> States \cup {"none", "removed"}]
      /\ source \in [Context -> Context \cup {None}]
  BY DEF HandoverInv, TypeInv
<1>3. \A g, h \in Enb : Wire(g, h)' = Wire(g, h)
  BY <1>2 DEF Wire
<1>4. OrderInv'
  BY <1>2 DEF HandoverInv, OrderInv
<1>5. TypeInv'
  BY <1>2 DEF HandoverInv, TypeInv, States
<1>6. ASSUME NEW n \in Context, Untouched(n) PROVE Untouched(n)' /\ n # c
  BY <1>1, <1>2, <1>3, <1>6, <1>types DEF Untouched
<1>7. MessageInv'
  <2> SUFFICES ASSUME NEW g \in Enb, NEW h \in Enb, NEW k \in Wire(g, h) PROVE Timely(g, h, k)'
    BY <1>3 DEF MessageInv
  <2>1. Timely(g, h, k)
    BY DEF HandoverInv, MessageInv
  <2>2. k.kind = "REQUEST" => RequestInv(g, h, k)'
    BY <2>1, <1>1, <1>2, <1>types DEF Timely, RequestInv, NoneJoins
  <2>3. k.kind = "ACK" => AckInv(g, h, k)'
    BY <2>1, <1>1, <1>2, <1>6, <1>types DEF Timely, AckInv
  <2>4. k.kind = "FAILURE" => FailureInv(k)'
    BY <2>1, <1>1, <1>2, <1>types DEF Timely, FailureInv, NoneJoins
  <2>5. k.kind = "RELEASE" => ReleaseInv(k)'
    BY <2>1, <1>1, <1>2, <1>types DEF Timely, ReleaseInv, Gone
  <2> QED BY <2>2, <2>3, <2>4, <2>5 DEF Timely
<1>8. ContextInv'
  BY <1>1, <1>2, <1>types DEF HandoverInv, ContextInv, Gone
<1>9. CommandInv' /\ ReconfigurationInv' /\ UeInv'
  BY <1>1, <1>2, <1>6, <1>types, SameTypes
  DEF HandoverInv, CommandInv, ReconfigurationInv, UeInv, Gone
<1>10. ToldInv'
  BY <1>1, <1>2, <1>3, <1>types, SameTypes DEF HandoverInv, ToldInv, SourceTells, CommandInv, Gone
<1>11. ServeInv'
  <2>1. Coming(c) /\ \A n \in Context : Coming(n)' => Coming(n) /\ n # c
    <3>1. \A d \in Context : <<d, c>> \notin command
      BY <1>1 DEF HandoverInv, CommandInv, Untouched
    <3>2. ue # [state |-> "handover", context |-> c]
      BY <1>1 DEF HandoverInv, UeInv
    <3> QED BY <1>1, <1>2, <1>types, <3>1, <3>2 DEF Coming
  <2>2. \A n \in Context : ~Coming(n)'
    BY <2>1 DEF HandoverInv, ServeInv
  <2>3. OneServes'
    BY <1>2, <2>1, <1>types DEF HandoverInv, ServeInv, OneServes, Serving
  <2> QED BY <2>2, <2>3 DEF ServeInv
<1>12. TimersMatchStates'
  BY <1>1, <1>2, <1>types DEF HandoverInv, TimersMatchStates
<1> QED BY <1>4, <1>5, <1>7, <1>8, <1>9, <1>10, <1>11, <1>12 DEF HandoverInv

\* c serves before and after, and it is still not what is coming.
LEMMA ReconfigurationCompletedKeeps ==
  ASSUME HandoverInv, NEW c \in Context, ReceiveCompleted(c),
         state[c] = "CONNECTION_RECONFIGURATION"
  PROVE  HandoverInv'
<1> USE DEF enbVars, ueVars, eventVars, countVars
<1>1. c \in completed /\ (ue.state # "left" => <<c, None>> \notin command)
  BY DEF ReceiveCompleted, HandoverInv, ReconfigurationInv
<1>2. /\ completed' = completed \ {c}
      /\ state' = [state EXCEPT ![c] = "CONNECTED_NORMALLY"]
      /\ UNCHANGED <<enb, source, target, joining, leaving, x2u, x2, pathSwitch, ue, command,
                     eventVars, countVars>>
  BY DEF ReceiveCompleted
<1>types. /\ state \in [Context -> States \cup {"none", "removed"}]
      /\ source \in [Context -> Context \cup {None}]
  BY DEF HandoverInv, TypeInv
<1>3. \A g, h \in Enb : Wire(g, h)' = Wire(g, h)
  BY <1>2 DEF Wire
<1>4. OrderInv'
  BY <1>2 DEF HandoverInv, OrderInv
<1>5. TypeInv'
  BY <1>2 DEF HandoverInv, TypeInv, States
<1>6. ASSUME NEW n \in Context, Untouched(n) PROVE Untouched(n)'
  BY <1>2, <1>3, <1>6, <1>types DEF Untouched
<1>7. MessageInv'
  <2> SUFFICES ASSUME NEW g \in Enb, NEW h \in Enb, NEW k \in Wire(g, h) PROVE Timely(g, h, k)'
    BY <1>3 DEF MessageInv
  <2>1. Timely(g, h, k)
    BY DEF HandoverInv, MessageInv
  <2>2. k.kind = "REQUEST" => RequestInv(g, h, k)'
    BY <2>1, <1>2, <1>types DEF Timely, RequestInv, NoneJoins
  <2>3. k.kind = "ACK" => AckInv(g, h, k)'
    BY <2>1, <1>2, <1>6, <1>types DEF Timely, AckInv
  <2>4. k.kind = "FAILURE" => FailureInv(k)'
    BY <2>1, <1>2, <1>types DEF Timely, FailureInv, NoneJoins
  <2>5. k.kind = "RELEASE" => ReleaseInv(k)'
    BY <2>1, <1>2, <1>types DEF Timely, ReleaseInv, Gone
  <2> QED BY <2>2, <2>3, <2>4, <2>5 DEF Timely
<1>8. ContextInv' /\ TimersMatchStates'
  BY <1>2, <1>types DEF HandoverInv, ContextInv, TimersMatchStates, Gone
<1>9. CommandInv' /\ UeInv'
  BY <1>2, <1>6, <1>types, SameTypes DEF HandoverInv, CommandInv, UeInv, Gone
<1>10. ReconfigurationInv'
  BY <1>1, <1>2, <1>types DEF HandoverInv, ReconfigurationInv
<1>11. ToldInv'
  BY <1>2, <1>3, <1>types, SameTypes DEF HandoverInv, ToldInv, SourceTells
<1>12. ServeInv'
  BY <1>2, <1>types DEF HandoverInv, ServeInv, OneServes, Coming, Serving
<1> QED BY <1>4, <1>5, <1>7, <1>8, <1>9, <1>10, <1>11, <1>12 DEF HandoverInv

\* One or the other is what is completed.
LEMMA ReceiveCompletedKeeps ==
  ASSUME HandoverInv, NEW c \in Context, ReceiveCompleted(c)
  PROVE  HandoverInv'
<1>1. state[c] \in {"HANDOVER_JOINING", "CONNECTION_RECONFIGURATION"}
  BY DEF ReceiveCompleted, HandoverInv, ContextInv
<1> QED BY <1>1, JoiningCompletedKeeps, ReconfigurationCompletedKeeps

\* The UE answers the context that serves it.
LEMMA ReceiveReconfigurationKeeps ==
  ASSUME HandoverInv, NEW c \in Context, ReceiveReconfiguration(c)
  PROVE  HandoverInv'
<1> USE DEF enbVars, ueVars, eventVars, countVars
<1>1. /\ <<c, None>> \in command /\ ue = [state |-> "connected", context |-> c]
      /\ command' = command \ {<<c, None>>} /\ completed' = completed \cup {c}
      /\ UNCHANGED <<enbVars, x2, pathSwitch, ue, eventVars, countVars>>
  BY DEF ReceiveReconfiguration
<1>2. state[c] = "CONNECTION_RECONFIGURATION" /\ ue.state # "left" /\ ue.context = c
  BY <1>1 DEF HandoverInv, ReconfigurationInv
<1>3. \A g, h \in Enb : Wire(g, h)' = Wire(g, h)
  BY <1>1 DEF Wire
<1>4. OrderInv'
  BY <1>1 DEF HandoverInv, OrderInv
<1>5. TypeInv'
  BY <1>1 DEF HandoverInv, TypeInv
<1>6. ASSUME NEW n \in Context, Untouched(n) PROVE Untouched(n)'
  BY <1>1, <1>2, <1>3, <1>6 DEF Untouched
<1>7. MessageInv'
  <2> SUFFICES ASSUME NEW g \in Enb, NEW h \in Enb, NEW k \in Wire(g, h) PROVE Timely(g, h, k)'
    BY <1>3 DEF MessageInv
  <2>1. Timely(g, h, k)
    BY DEF HandoverInv, MessageInv
  <2>2. k.kind = "ACK" => AckInv(g, h, k)'
    BY <2>1, <1>1, <1>6 DEF Timely, AckInv
  <2> QED BY <1>1, <2>1, <2>2 DEF Timely, RequestInv, FailureInv, ReleaseInv, NoneJoins, Gone
<1>8. ContextInv' /\ TimersMatchStates'
  BY <1>1, <1>2 DEF HandoverInv, ContextInv, TimersMatchStates, Gone
<1>9. CommandInv' /\ ReconfigurationInv' /\ UeInv'
  BY <1>1, <1>6 DEF HandoverInv, CommandInv, ReconfigurationInv, UeInv, Gone
<1>10. ToldInv'
  BY <1>1, <1>3 DEF HandoverInv, ToldInv, SourceTells
<1>11. ServeInv'
  <2>1. \A k \in Context : Coming(k)' => Coming(k)
    BY <1>1, <1>2 DEF Coming
  <2> QED BY <1>1, <2>1 DEF HandoverInv, ServeInv, OneServes
<1> QED BY <1>4, <1>5, <1>7, <1>8, <1>9, <1>10, <1>11 DEF HandoverInv

\* The source has been left for c, and the UE is not there.
LEMMA ReceivePathSwitchAckKeeps ==
  ASSUME HandoverInv, NEW c \in Context, ReceivePathSwitchAck(c)
  PROVE  HandoverInv'
<1> DEFINE m == Msg("RELEASE", source[c], c)
<1> USE DEF enbVars, ueVars, eventVars, countVars
<1>1. CASE Abort("switched context")
  BY <1>1, NothingChanges DEF Abort
<1>2. CASE /\ state[c] = "HANDOVER_PATH_SWITCH"
           /\ pathSwitch' = pathSwitch \ {c}
           /\ x2' = Sent(x2, enb[c], enb[source[c]], m)
           /\ state' = [state EXCEPT ![c] = "CONNECTION_RECONFIGURATION"]
           /\ command' = command \cup {<<c, None>>}
           /\ UNCHANGED <<enb, source, target, joining, leaving, x2u, ue, completed, eventVars,
                          countVars>>
  <2>1. /\ source[c] \in Context /\ Gone(source[c]) /\ target[source[c]] = c
        /\ ue.context # source[c] /\ source[c] # c
    BY <1>2 DEF HandoverInv, ContextInv
  <2>2. m \in Message /\ m.kind = "RELEASE" /\ m.old = source[c] /\ m.new = c
    BY <2>1, MessageIs DEF Kinds, Msg
  <2>types. /\ state \in [Context -> States \cup {"none", "removed"}]
        /\ source \in [Context -> Context \cup {None}]
        /\ enb[c] \in Enb /\ enb[source[c]] \in Enb
    BY <2>1, SameTypes DEF HandoverInv, TypeInv
  <2> HIDE DEF m
  <2>3. x2' \in Queues /\ \A g, h \in Enb : \A k \in Wire(g, h)' : k \in Wire(g, h) \/ k = m
    BY <1>2, <2>2, <2>types, SameTypes, SentQueues, SentWire DEF Wire
  <2>4. OrderInv'
    BY <1>2, <2>2, <2>types, SameTypes, SentOrdered DEF OrderInv, Asks
  <2>5. TypeInv'
    BY <1>2, <2>3 DEF HandoverInv, TypeInv, States
  <2>air. \A d, n \in Context : <<d, n>> \in command' <=> <<d, n>> \in command
    BY <1>2 DEF Context, None
  <2>6. ASSUME NEW n \in Context, Untouched(n) PROVE Untouched(n)'
    BY <1>2, <2>2, <2>3, <2>6, <2>types DEF Untouched
  <2>7. MessageInv'
    <3> SUFFICES ASSUME NEW g \in Enb, NEW h \in Enb, NEW k \in Wire(g, h)' PROVE Timely(g, h, k)'
      BY DEF MessageInv
    <3>1. CASE k = m
      BY <1>2, <2>1, <2>2, <2>types, <3>1 DEF Timely, ReleaseInv, Gone
    <3>2. CASE k \in Wire(g, h)
      <4>1. Timely(g, h, k)
        BY <3>2 DEF HandoverInv, MessageInv
      <4>2. k.kind = "REQUEST" => RequestInv(g, h, k)'
        BY <4>1, <1>2, <2>types DEF Timely, RequestInv, NoneJoins
      <4>3. k.kind = "ACK" => AckInv(g, h, k)'
        BY <4>1, <1>2, <2>6, <2>air, <2>types DEF Timely, AckInv
      <4>4. k.kind = "FAILURE" => FailureInv(k)'
        BY <4>1, <1>2, <2>types DEF Timely, FailureInv, NoneJoins
      <4>5. k.kind = "RELEASE" => ReleaseInv(k)'
        BY <4>1, <1>2, <2>types DEF Timely, ReleaseInv, Gone
      <4> QED BY <4>2, <4>3, <4>4, <4>5 DEF Timely
    <3> QED BY <2>3, <3>1, <3>2
  <2>8. ContextInv' /\ TimersMatchStates'
    BY <1>2, <2>types DEF HandoverInv, ContextInv, TimersMatchStates, Gone
  <2>9. CommandInv' /\ UeInv'
    BY <1>2, <2>6, <2>air, <2>types, SameTypes DEF HandoverInv, CommandInv, UeInv, Gone
  <2>reconfiguration. ReconfigurationInv'
    <3>1. c \notin completed
      BY <1>2 DEF HandoverInv, ContextInv
    <3> QED BY <1>2, <2>types, <3>1 DEF HandoverInv, ReconfigurationInv
  <2>10. ToldInv'
    BY <1>2, <2>2, <2>3, <2>air, <2>types, SameTypes DEF HandoverInv, ToldInv, SourceTells
  <2>11. ServeInv'
    BY <1>2, <2>air, <2>types DEF HandoverInv, ServeInv, OneServes, Coming, Serving
  <2> QED BY <2>4, <2>5, <2>7, <2>8, <2>9, <2>10, <2>11, <2>reconfiguration DEF HandoverInv
<1> QED BY <1>1, <1>2 DEF ReceivePathSwitchAck

\* The failure of a joining context goes where its acknowledgement has gone.
LEMMA FailureSentFacts ==
  ASSUME HandoverInv, NEW c \in Context, state[c] = "HANDOVER_JOINING"
  PROVE  /\ FailureSent(c) \in Queues /\ Ordered(FailureSent(c))
         /\ \A g, h \in Enb : \A k \in WireOf(FailureSent(c), g, h) :
              k \in Wire(g, h) \/ (k.kind = "FAILURE" /\ k.old = source[c])
<1> DEFINE m == Msg("FAILURE", source[c], None)
<1>1. source[c] \in Context /\ enb[c] \in Enb /\ enb[source[c]] \in Enb
  BY SameTypes DEF HandoverInv, ContextInv
<1>2. m \in Message /\ m.kind = "FAILURE" /\ m.old = source[c]
  BY <1>1, MessageIs DEF Kinds, Msg
<1>3. FailureSent(c) = Sent(x2, enb[c], enb[source[c]], m)
  BY DEF FailureSent
<1> HIDE DEF m
<1>4. ASSUME NEW g \in Enb, NEW h \in Enb, NEW k \in Wire(g, h), Asks(k, source[c])
      PROVE  g = enb[c] /\ h = enb[source[c]] /\ k.kind = "ACK"
  <2>1. Timely(g, h, k)
    BY DEF HandoverInv, MessageInv
  <2>2. k.kind # "REQUEST" /\ k.kind # "FAILURE"
    BY <1>4, <2>1 DEF Timely, RequestInv, FailureInv, NoneJoins, Asks
  <2>3. k.kind = "ACK"
    BY <1>4, <2>2 DEF Asks
  <2> QED BY <1>4, <2>1, <2>3 DEF Timely, AckInv, Asks
<1>5. Ordered(FailureSent(c))
  <2>1. \A g, h \in Enb : \A k \in WireOf(x2, g, h) : \A d \in Context :
          Asks(m, d) /\ Asks(k, d)
            => g = enb[c] /\ h = enb[source[c]] /\ k.kind = "ACK" /\ m.kind = "FAILURE"
    BY <1>2, <1>4 DEF Wire, Asks
  <2> QED BY <1>1, <1>2, <1>3, <2>1, SameTypes, SentOrdered
<1> QED BY <1>1, <1>2, <1>3, <1>5, SameTypes, SentQueues, SentWire DEF Wire

\* A UE that is at the context is told by the source, which is leaving.
LEMMA HandoverJoiningTimeoutKeeps ==
  ASSUME HandoverInv, NEW c \in Context, HandoverJoiningTimeout(c)
  PROVE  HandoverInv'
<1> USE DEF enbVars, ueVars, eventVars, countVars
<1>1. state[c] = "HANDOVER_JOINING"
  BY DEF HandoverJoiningTimeout, HandoverInv, TimersMatchStates
<1>2. /\ x2' = FailureSent(c) /\ RemoveUe(c)
      /\ UNCHANGED <<pathSwitch, ue, command, eventVars, countVars>>
  BY <1>1 DEF HandoverJoiningTimeout
<1>3. /\ x2' \in Queues /\ OrderInv'
      /\ \A g, h \in Enb : \A k \in Wire(g, h)' :
           k \in Wire(g, h) \/ (k.kind = "FAILURE" /\ k.old = source[c])
  BY <1>1, <1>2, FailureSentFacts DEF OrderInv, Wire
<1>4. ToldInv'
  <2>1. state' = [state EXCEPT ![c] = "removed"] /\ source' = source
    BY <1>2 DEF RemoveUe
  <2>2. \A g, h \in Enb : \A k \in Wire(g, h) : k.kind = "RELEASE" => k.new # c
    BY <1>1 DEF HandoverInv, MessageInv, Timely, ReleaseInv
  <2>3. /\ state \in [Context -> States \cup {"none", "removed"}]
        /\ source \in [Context -> Context \cup {None}] /\ ue.context \in Context
        /\ source[c] # c
    BY SameTypes DEF HandoverInv, TypeInv, ContextInv
  <2>4. \A n \in Context : SourceTells(n) => SourceTells(n)'
    BY <1>1, <2>1, <2>3 DEF SourceTells
  <2>5. ToldInv
    BY DEF HandoverInv
  <2> QED BY <1>1, <1>2, <1>3, <2>1, <2>2, <2>3, <2>4, <2>5 DEF ToldInv
<1> QED BY <1>1, <1>2, <1>3, <1>4, RemoveUeKeeps DEF HandoverInv, TypeInv, States

\* The UE has left connected mode.
LEMMA ReceiveRemovalKeeps ==
  ASSUME HandoverInv, NEW c \in Context, ReceiveRemoval(c)
  PROVE  HandoverInv'
<1> USE DEF enbVars, ueVars, eventVars, countVars
<1>1. /\ c \in removal /\ removal' = removal \ {c}
      /\ UNCHANGED <<pathSwitch, ue, command, release, countVars>>
  BY DEF ReceiveRemoval
<1>2. ToldInv' /\ ue.state = "left"
  BY <1>1 DEF HandoverInv, ToldInv
<1>3. CASE Live(c)
  <2>1. state[c] \in States /\ RemoveUe(c)
    BY <1>3 DEF ReceiveRemoval, Live
  <2>2. /\ x2' \in Queues /\ OrderInv'
        /\ \A g, h \in Enb : \A k \in Wire(g, h)' :
             \/ k \in Wire(g, h)
             \/ k.kind = "FAILURE" /\ k.old = source[c] /\ state[c] = "HANDOVER_JOINING"
    <3>1. CASE state[c] = "HANDOVER_JOINING"
      <4>1. x2' = FailureSent(c)
        BY <1>3, <3>1 DEF ReceiveRemoval
      <4> QED BY <3>1, <4>1, FailureSentFacts DEF OrderInv, Wire
    <3>2. CASE state[c] # "HANDOVER_JOINING"
      <4>1. x2' = x2
        BY <1>3, <3>2 DEF ReceiveRemoval
      <4> QED BY <4>1, SameTypes DEF OrderInv, Wire
    <3> QED BY <3>1, <3>2
  <2> QED BY <1>1, <1>2, <2>1, <2>2, RemoveUeKeeps DEF HandoverInv, TypeInv
<1>4. CASE ~Live(c)
  <2>1. UNCHANGED <<enbVars, x2, completed>>
    BY <1>4 DEF ReceiveRemoval
  <2>2. OrderInv' /\ \A g, h \in Enb : Wire(g, h)' = Wire(g, h)
    BY <2>1, SameTypes DEF OrderInv, Wire
  <2>3. TypeInv'
    BY <1>1, <2>1 DEF HandoverInv, TypeInv
  <2> QED BY <1>1, <2>1, <2>2, <2>3, QuietKeeps
<1> QED BY <1>3, <1>4

\* Only a timer and a message go.
LEMMA ReceiveCancelKeeps ==
  ASSUME HandoverInv, NEW e \in Enb, NEW f \in Enb, ReceiveCancel(e, f)
  PROVE  HandoverInv'
<1> USE DEF enbVars, ueVars, eventVars, countVars
<1>1. CASE Abort("cancelled context")
  BY <1>1, NothingChanges DEF Abort
<1>2. CASE /\ x2[e][f] # << >> /\ x2' = Taken(e, f) /\ joining' \subseteq joining
           /\ UNCHANGED <<state, enb, source, target, leaving, x2u, pathSwitch, ueVars,
                          eventVars, countVars>>
  <2>1. x2' \in Queues /\ OrderInv' /\ \A g, h \in Enb : Wire(g, h)' \subseteq Wire(g, h)
    BY <1>2, TakenFacts DEF OrderInv, Wire
  <2>2. TypeInv'
    BY <1>2, <2>1 DEF HandoverInv, TypeInv
  <2> QED BY <1>2, <2>1, <2>2, QuietKeeps
<1> QED BY <1>1, <1>2 DEF ReceiveCancel, Arrives

\* Data that are forwarded once more are data.
LEMMA ReceiveDataKeeps ==
  ASSUME HandoverInv, NEW e \in Enb, NEW f \in Enb, ReceiveData(e, f)
  PROVE  HandoverInv'
<1> DEFINE m == Head(x2[e][f])
           c == x2u[f]
<1> USE DEF enbVars, ueVars, eventVars, countVars
<1>1. CASE Abort("forwarded data")
  BY <1>1, NothingChanges DEF Abort
<1>2. CASE /\ c # None
           /\ x2' = IF state[c] = "HANDOVER_LEAVING" THEN Sent(Taken(e, f), f, enb[target[c]], m)
                                                     ELSE Taken(e, f)
           /\ UNCHANGED <<enbVars, pathSwitch, ueVars, eventVars, countVars>>
  <2>1. /\ x2[e][f] # << >> /\ m.kind = "DATA" /\ m \in Message
        /\ Taken(e, f) \in Queues /\ Ordered(Taken(e, f))
        /\ \A g, h \in Enb : WireOf(Taken(e, f), g, h) \subseteq Wire(g, h)
    BY TakenFacts DEF ReceiveData, Arrives
  <2>2. /\ x2' \in Queues /\ OrderInv'
        /\ \A g, h \in Enb : \A k \in Wire(g, h)' : k \in Wire(g, h) \/ k.kind = "DATA"
    <3>1. CASE state[c] = "HANDOVER_LEAVING"
      <4>1. enb[target[c]] \in Enb /\ x2' = Sent(Taken(e, f), f, enb[target[c]], m)
        BY <1>2, <3>1, SameTypes DEF HandoverInv, ContextInv, TypeInv
      <4> HIDE DEF m
      <4>2. x2' \in Queues /\ \A g, h \in Enb : \A k \in Wire(g, h)' : k \in Wire(g, h) \/ k = m
        BY <2>1, <4>1, SentQueues, SentWire DEF Wire
      <4>3. OrderInv'
        BY <2>1, <4>1, SentOrdered DEF OrderInv, Asks
      <4> QED BY <2>1, <4>2, <4>3
    <3>2. CASE state[c] # "HANDOVER_LEAVING"
      BY <1>2, <2>1, <3>2 DEF OrderInv, Wire
    <3> QED BY <3>1, <3>2
  <2>3. TypeInv'
    BY <1>2, <2>2 DEF HandoverInv, TypeInv
  <2> QED BY <1>2, <2>2, <2>3, QuietKeeps
<1> QED BY <1>1, <1>2 DEF ReceiveData

\* The command was the only one on air.
LEMMA ReceiveCommandKeeps ==
  ASSUME HandoverInv, NEW c \in Context, NEW n \in Context, ReceiveCommand(c, n)
  PROVE  HandoverInv'
<1> USE DEF enbVars, ueVars, eventVars, countVars
<1>1. /\ <<c, n>> \in command /\ ue = [state |-> "connected", context |-> c]
      /\ ue' = [state |-> "handover", context |-> n]
      /\ command' = command \ {<<c, n>>}
      /\ UNCHANGED <<enbVars, x2, pathSwitch, completed, eventVars, countVars>>
  BY DEF ReceiveCommand
<1>2. source[n] = c /\ target[c] = n /\ Gone(c) /\ Untouched(n) /\ Coming(n)
  BY <1>1 DEF HandoverInv, CommandInv, Coming
<1>3. command' = {}
  <2>1. command \in SUBSET (Context \X (Context \cup {None}))
    BY DEF HandoverInv, TypeInv
  <2>2. ASSUME NEW d \in Context, NEW k \in Context, <<d, k>> \in command
        PROVE  d = c /\ k = n
    BY <1>2, <2>2 DEF HandoverInv, CommandInv, ServeInv, Coming
  <2>3. ASSUME NEW d \in Context PROVE <<d, None>> \notin command
    <3>1. <<d, None>> \in command => state[d] \in Serving
      BY <1>1 DEF HandoverInv, ReconfigurationInv, Serving
    <3> QED BY <1>2, <3>1 DEF HandoverInv, ServeInv
  <2> QED BY <1>1, <2>1, <2>2, <2>3
<1>4. \A g, h \in Enb : Wire(g, h)' = Wire(g, h)
  BY <1>1 DEF Wire
<1>5. OrderInv'
  BY <1>1, SameTypes DEF OrderInv
<1>6. TypeInv'
  BY <1>1, <1>3 DEF HandoverInv, TypeInv
<1>7. MessageInv'
  <2> SUFFICES ASSUME NEW g \in Enb, NEW h \in Enb, NEW k \in Wire(g, h) PROVE Timely(g, h, k)'
    BY <1>4 DEF MessageInv
  <2>1. Timely(g, h, k)
    BY DEF HandoverInv, MessageInv
  <2>2. k.kind = "ACK" => AckInv(g, h, k)'
    <3> SUFFICES ASSUME k.kind = "ACK" PROVE AckInv(g, h, k)'
      OBVIOUS
    <3>1. AckInv(g, h, k) /\ k.new # n
      BY <2>1, <1>1, <1>2 DEF Timely, AckInv
    <3>2. Untouched(k.new)'
      BY <3>1, <1>1, <1>4 DEF AckInv, Untouched
    <3> QED BY <3>1, <3>2, <1>1, <1>3 DEF AckInv
  <2>3. k.kind = "RELEASE" => ReleaseInv(k)'
    BY <2>1, <1>1, <1>2 DEF Timely, ReleaseInv, Gone, Untouched
  <2> QED BY <1>1, <2>1, <2>2, <2>3 DEF Timely, RequestInv, FailureInv, NoneJoins
<1>8. ContextInv'
  BY <1>1, <1>2 DEF HandoverInv, ContextInv, Gone, Untouched
<1>9. CommandInv' /\ ReconfigurationInv' /\ TimersMatchStates'
  BY <1>1, <1>3 DEF HandoverInv, CommandInv, ReconfigurationInv, TimersMatchStates
<1>10. UeInv'
  BY <1>1, <1>2 DEF UeInv, Gone, Untouched
<1>11. ToldInv'
  <2>1. removal = {} /\ (release \/ state[c] = "HANDOVER_LEAVING")
    BY <1>1 DEF HandoverInv, ToldInv
  <2>2. \A g, h \in Enb : \A k \in Wire(g, h) : k.kind = "RELEASE" => k.new # n
    BY <1>2 DEF Untouched
  <2>3. source[n] # None
    BY <1>2, X2Assumption DEF Context, None
  <2> QED BY <1>1, <1>2, <1>3, <1>4, <2>1, <2>2, <2>3 DEF ToldInv, SourceTells
<1>12. ServeInv'
  <2>1. \A k \in Context : Coming(k)' => Coming(k)
    BY <1>1, <1>2, <1>3 DEF Coming
  <2> QED BY <1>1, <2>1 DEF HandoverInv, ServeInv, OneServes
<1> QED BY <1>5, <1>6, <1>7, <1>8, <1>9, <1>10, <1>11, <1>12 DEF HandoverInv

\* The UE was coming, and still is.
LEMMA RandomAccessSucceedsKeeps ==
  ASSUME HandoverInv, RandomAccessSucceeds
  PROVE  HandoverInv'
<1> DEFINE n == ue.context
<1> USE DEF enbVars, ueVars, eventVars, countVars
<1>1. /\ ue.state = "handover" /\ ue \in [state : {"connected", "handover", "left"}, context : Context]
      /\ n \in Context
      /\ ue' = [ue EXCEPT !.state = "connected"] /\ completed' = completed \cup {n}
      /\ UNCHANGED <<enbVars, x2, pathSwitch, command, eventVars, countVars>>
  BY DEF RandomAccessSucceeds, HandoverInv, TypeInv
<1>2. state[n] = "HANDOVER_JOINING"
  BY <1>1 DEF RandomAccessSucceeds, Live, HandoverInv, UeInv, States
<1>3. /\ source[n] \in Context /\ source[n] # n /\ source[n] # None
  BY <1>1, <1>2, X2Assumption DEF HandoverInv, ContextInv, Context, None
<1>4. Gone(source[n]) /\ target[source[n]] = n
  BY <1>3 DEF HandoverInv, UeInv
<1>ue. ue' = [state |-> "connected", context |-> n] /\ ue = [state |-> "handover", context |-> n]
  BY <1>1
<1> HIDE DEF n
<1>5. \A g, h \in Enb : Wire(g, h)' = Wire(g, h)
  BY <1>1 DEF Wire
<1>6. OrderInv'
  BY <1>1, SameTypes DEF OrderInv
<1>7. TypeInv'
  BY <1>1, <1>ue DEF HandoverInv, TypeInv
<1>8. ASSUME NEW d \in Context, Untouched(d) PROVE Untouched(d)'
  BY <1>1, <1>5, <1>8, <1>ue DEF Untouched
<1>9. MessageInv'
  <2> SUFFICES ASSUME NEW g \in Enb, NEW h \in Enb, NEW k \in Wire(g, h) PROVE Timely(g, h, k)'
    BY <1>5 DEF MessageInv
  <2>1. Timely(g, h, k)
    BY DEF HandoverInv, MessageInv
  <2>2. k.kind = "ACK" => AckInv(g, h, k)'
    BY <1>1, <1>8, <2>1 DEF Timely, AckInv
  <2> QED BY <1>1, <1>ue, <2>1, <2>2 DEF Timely, RequestInv, FailureInv, ReleaseInv, NoneJoins, Gone
<1>10. ContextInv' /\ TimersMatchStates'
  BY <1>1, <1>ue, <1>2, <1>3, <1>4 DEF HandoverInv, ContextInv, TimersMatchStates, Gone
<1>11. CommandInv' /\ UeInv'
  BY <1>1, <1>ue, <1>4, <1>8 DEF HandoverInv, CommandInv, UeInv, Gone
<1>reconfiguration. ReconfigurationInv'
  BY <1>1, <1>ue, <1>2 DEF HandoverInv, ReconfigurationInv
<1>12. ToldInv'
  BY <1>1, <1>ue, <1>5 DEF HandoverInv, ToldInv, SourceTells
<1>13. ServeInv'
  <2>1. \A k \in Context : Coming(k)' => Coming(k)
    BY <1>1, <1>ue DEF Coming
  <2> QED BY <1>1, <2>1 DEF HandoverInv, ServeInv, OneServes
<1> QED BY <1>6, <1>7, <1>9, <1>10, <1>11, <1>12, <1>13, <1>reconfiguration DEF HandoverInv

\* A UE that has left is served by nobody's handover.
LEMMA LeaveKeeps ==
  ASSUME HandoverInv, Leave, release' \in BOOLEAN
  PROVE  HandoverInv'
<1> USE DEF enbVars, ueVars, eventVars, countVars
<1>1. /\ ue' = [ue EXCEPT !.state = "left"] /\ command' = {} /\ removal' = removal \cup {ue.context}
      /\ ue \in [state : {"connected", "handover", "left"}, context : Context]
      /\ UNCHANGED <<enbVars, x2, pathSwitch, completed, countVars>>
  BY DEF Leave, HandoverInv, TypeInv
<1>ue. ue'.state = "left" /\ ue'.context = ue.context /\ ue.context \in Context
  BY <1>1
<1>2. \A g, h \in Enb : Wire(g, h)' = Wire(g, h)
  BY <1>1 DEF Wire
<1>3. OrderInv'
  BY <1>1, SameTypes DEF OrderInv
<1>4. TypeInv'
  BY <1>1 DEF HandoverInv, TypeInv
<1>5. ASSUME NEW d \in Context, Untouched(d) PROVE Untouched(d)'
  BY <1>1, <1>2, <1>5, <1>ue DEF Untouched
<1>6. MessageInv'
  <2> SUFFICES ASSUME NEW g \in Enb, NEW h \in Enb, NEW k \in Wire(g, h) PROVE Timely(g, h, k)'
    BY <1>2 DEF MessageInv
  <2>1. Timely(g, h, k)
    BY DEF HandoverInv, MessageInv
  <2>2. k.kind = "ACK" => AckInv(g, h, k)'
    BY <1>1, <1>5, <2>1 DEF Timely, AckInv
  <2> QED BY <1>1, <1>ue, <2>1, <2>2 DEF Timely, RequestInv, FailureInv, ReleaseInv, NoneJoins, Gone
<1>7. ContextInv' /\ TimersMatchStates'
  BY <1>1, <1>ue DEF HandoverInv, ContextInv, TimersMatchStates, Gone
<1>8. CommandInv' /\ ReconfigurationInv' /\ UeInv' /\ ToldInv'
  BY <1>1, <1>ue DEF HandoverInv, CommandInv, ReconfigurationInv, UeInv, ToldInv, Gone
<1>9. ServeInv'
  <2>1. \A k \in Context : Coming(k)' => Coming(k)
    BY <1>1, <1>ue DEF Coming
  <2> QED BY <1>1, <2>1 DEF HandoverInv, ServeInv, OneServes
<1> QED BY <1>3, <1>4, <1>6, <1>7, <1>8, <1>9 DEF HandoverInv

\* A UE that has left need not be told.
LEMMA ReceiveReleaseKeeps ==
  ASSUME HandoverInv, ReceiveRelease
  PROVE  HandoverInv'
<1> USE DEF enbVars, ueVars, eventVars, countVars
<1>1. CASE Leave
  BY <1>1, LeaveKeeps DEF ReceiveRelease
<1>2. CASE /\ ue.state = "left"
           /\ UNCHANGED <<enbVars, x2, pathSwitch, ueVars, removal, countVars>>
  <2>1. \A g, h \in Enb : Wire(g, h)' = Wire(g, h)
    BY <1>2 DEF Wire
  <2>2. OrderInv' /\ TypeInv'
    BY <1>2, SameTypes DEF OrderInv, ReceiveRelease, HandoverInv, TypeInv
  <2> QED BY <1>2, <2>1, <2>2, QuietKeeps
<1> QED BY <1>1, <1>2 DEF ReceiveRelease

\* One case per action.
LEMMA NextKeeps == HandoverInv /\ [Next]_vars => HandoverInv'
<1> SUFFICES ASSUME HandoverInv, [Next]_vars PROVE HandoverInv'
  OBVIOUS
<1>1. ASSUME NEW e \in Enb, NEW f \in Enb, X2Delivers(e, f) PROVE HandoverInv'
  BY <1>1, RefuseRequestKeeps, AcceptRequestKeeps, ReceiveAckKeeps, ReceiveFailureKeeps,
     ReceiveContextReleaseKeeps, ReceiveCancelKeeps, ReceiveDataKeeps DEF X2Delivers
<1>2. ASSUME NEW c \in Context, NEW e \in Enb, TriggerHandover(c, e) PROVE HandoverInv'
  BY <1>2, TriggerHandoverKeeps
<1>3. ASSUME NEW c \in Context,
             \/ ForwardData(c) \/ HandoverLeavingTimeout(c) \/ HandoverJoiningTimeout(c)
             \/ ReceiveCompleted(c) \/ ReceivePathSwitchAck(c) \/ ReceiveRemoval(c)
             \/ ReceiveReconfiguration(c)
      PROVE  HandoverInv'
  BY <1>3, ForwardDataKeeps, HandoverLeavingTimeoutKeeps, HandoverJoiningTimeoutKeeps,
     ReceiveCompletedKeeps, ReceivePathSwitchAckKeeps, ReceiveRemovalKeeps,
     ReceiveReconfigurationKeeps
<1>4. ASSUME NEW c \in Context, NEW n \in Context, ReceiveCommand(c, n) PROVE HandoverInv'
  BY <1>4, ReceiveCommandKeeps
<1>5. CASE RandomAccessEnds \/ RadioLinkFailure
  <2>1. CASE RandomAccessSucceeds
    BY <2>1, RandomAccessSucceedsKeeps
  <2>2. CASE RandomAccessFails \/ RadioLinkFailure
    BY <2>2, LeaveKeeps DEF RandomAccessFails, RadioLinkFailure, HandoverInv, TypeInv
  <2> QED BY <1>5, <2>1, <2>2 DEF RandomAccessEnds
<1>6. CASE ReceiveRelease
  BY <1>6, ReceiveReleaseKeeps
<1>7. CASE UNCHANGED vars
  BY <1>7, NothingChanges DEF vars
<1> QED BY <1>1, <1>2, <1>3, <1>4, <1>5, <1>6, <1>7 DEF Next

\* The invariant that the theorems but OneContextOfUe are read from.
LEMMA HandoverInvHolds == Spec => []HandoverInv
BY InitHolds, NextKeeps, PTL DEF Spec

-----------------------------------------------------------------------------
(* Where the UE's former contexts are.                                     *)

\* A request is the last of what matters on its link, and there is one at most.
Single(q) == \A e, f, g, h \in Enb : \A i \in DOMAIN q[e][f], j \in DOMAIN q[g][h] :
  q[e][f][i].kind = "REQUEST"
    => /\ q[g][h][j].kind = "REQUEST" => e = g /\ f = h /\ i = j
       /\ q[g][h][j].kind = "RELEASE" /\ e = g /\ f = h => j < i

\* While c asks for a handover, it is the only context that is not leaving.
Alone(c) == \A d \in Context :
  /\ state[d] \notin {"CONNECTED_NORMALLY", "CONNECTION_RECONFIGURATION",
                      "HANDOVER_JOINING", "HANDOVER_PATH_SWITCH"}
  /\ state[d] = "HANDOVER_PREPARATION" => d = c

AskedInv == \A e, f \in Enb : \A m \in Wire(e, f) :
  m.kind = "REQUEST" => e # f /\ Alone(m.old)

\* A joining context is the only one, besides the one it is meant to take over from.
JoinInv == \A n, d \in Context : state[n] = "HANDOVER_JOINING" =>
  /\ state[d] \notin {"CONNECTED_NORMALLY", "CONNECTION_RECONFIGURATION", "HANDOVER_PATH_SWITCH"}
  /\ state[d] = "HANDOVER_JOINING" => d = n
  /\ state[d] = "HANDOVER_PREPARATION" => d = source[n]

\* A leaving context waits for the outcome of its handover, or for its release.
Released(c) == \E f \in Enb : \E m \in Wire(f, enb[c]) : m.kind = "RELEASE" /\ m.old = c

Undecided(c) ==
  /\ \A e, f \in Enb : \A m \in Wire(e, f) : m.kind # "REQUEST"
  /\ \A d \in Context :
       /\ state[d] \notin {"CONNECTED_NORMALLY", "CONNECTION_RECONFIGURATION",
                           "HANDOVER_PREPARATION"}
       /\ state[d] \in {"HANDOVER_JOINING", "HANDOVER_PATH_SWITCH"} => source[d] = c

LeaveInv == \A c \in Context : state[c] = "HANDOVER_LEAVING" => Released(c) \/ Undecided(c)

\* Contexts are made one after the other.
NumberInv == \A c, d \in Context : c < d /\ state[c] = "none" => state[d] = "none"

\* A former context of the UE at an eNB it has come back to.
Elsewhere(c, d) == \E f \in Enb \ {enb[source[d]]} : \E m \in Wire(f, enb[c]) :
  m.kind = "RELEASE" /\ m.old = c

FormerInv == \A c, d \in Context :
  Live(c) /\ Live(d) /\ enb[c] = enb[d] /\ c < d
    => state[c] = "HANDOVER_LEAVING" /\ Elsewhere(c, d)

ReturnInv ==
  /\ Single(x2) /\ AskedInv /\ JoinInv /\ LeaveInv /\ NumberInv /\ FormerInv

-----------------------------------------------------------------------------
(* Queues: what comes after a request, and which releases stay.            *)

\* A message leaves: all others stay.
LEMMA LessLeaves ==
  ASSUME NEW q \in Queues, NEW e \in Enb, NEW f \in Enb, q[e][f] # << >>,
         NEW g \in Enb, NEW h \in Enb, NEW k \in WireOf(q, g, h)
  PROVE  k \in WireOf(Less(q, e, f), g, h) \/ (g = e /\ h = f /\ k = Head(q[e][f]))
<1>1. q[e][f] \in Seq(Message) /\ q[e] \in [Enb -> Seq(Message)]
  BY DEF Queues
<1>2. PICK i \in DOMAIN q[g][h] : k = q[g][h][i]
  BY DEF WireOf
<1>3. CASE g = e /\ h = f
  <2>1. Less(q, e, f)[e][f] = Tail(q[e][f])
    BY <1>1 DEF Less, Queues
  <2>2. i \in 1..Len(q[e][f]) /\ k = q[e][f][i] /\ Len(q[e][f]) \in Nat
    BY <1>1, <1>2, <1>3
  <2>3. CASE i = 1
    BY <1>1, <2>2, <2>3, <1>3
  <2>4. CASE i # 1
    <3>1. i - 1 \in DOMAIN Tail(q[e][f]) /\ Tail(q[e][f])[i - 1] = q[e][f][i]
      BY <1>1, <2>2, <2>4
    <3> QED BY <1>3, <2>1, <2>2, <3>1 DEF WireOf
  <2> QED BY <2>3, <2>4
<1>4. CASE ~(g = e /\ h = f)
  <2>1. Less(q, e, f)[g][h] = q[g][h]
    BY <1>4, <1>1 DEF Less, Queues
  <2> QED BY <1>2, <2>1 DEF WireOf
<1> QED BY <1>3, <1>4

\* A message is sent: all others stay, and it is under way.
LEMMA SentLeaves ==
  ASSUME NEW q \in Queues, NEW e \in Enb, NEW f \in Enb, NEW m \in Message
  PROVE  /\ \A g, h \in Enb : WireOf(q, g, h) \subseteq WireOf(Sent(q, e, f, m), g, h)
         /\ m \in WireOf(Sent(q, e, f, m), e, f)
<1>1. q[e][f] \in Seq(Message) /\ q[e] \in [Enb -> Seq(Message)]
  BY DEF Queues
<1>2. Sent(q, e, f, m)[e][f] = Append(q[e][f], m)
  BY <1>1 DEF Sent, Queues
<1>3. Len(q[e][f]) + 1 \in DOMAIN Append(q[e][f], m) /\ Append(q[e][f], m)[Len(q[e][f]) + 1] = m
  BY <1>1
<1>4. \A i \in DOMAIN q[e][f] :
        i \in DOMAIN Append(q[e][f], m) /\ Append(q[e][f], m)[i] = q[e][f][i]
  BY <1>1
<1>5. ASSUME NEW g \in Enb, NEW h \in Enb, ~(g = e /\ h = f)
      PROVE  Sent(q, e, f, m)[g][h] = q[g][h]
  BY <1>5, <1>1 DEF Sent, Queues
<1>6. WireOf(q, e, f) \subseteq WireOf(Sent(q, e, f, m), e, f)
  BY <1>2, <1>4 DEF WireOf
<1>7. m \in WireOf(Sent(q, e, f, m), e, f)
  BY <1>2, <1>3 DEF WireOf
<1>8. ASSUME NEW g \in Enb, NEW h \in Enb, ~(g = e /\ h = f)
      PROVE  WireOf(q, g, h) \subseteq WireOf(Sent(q, e, f, m), g, h)
  BY <1>5, <1>8 DEF WireOf
<1> QED BY <1>6, <1>7, <1>8, Zenon

\* Taking a message keeps a request last.
LEMMA LessSingle ==
  ASSUME NEW q \in Queues, NEW e \in Enb, NEW f \in Enb, q[e][f] # << >>, Single(q)
  PROVE  Single(Less(q, e, f))
<1> DEFINE r == Less(q, e, f)
<1> SUFFICES ASSUME NEW a \in Enb, NEW b \in Enb, NEW g \in Enb, NEW h \in Enb,
                    NEW i \in DOMAIN r[a][b], NEW j \in DOMAIN r[g][h], r[a][b][i].kind = "REQUEST"
             PROVE  /\ r[g][h][j].kind = "REQUEST" => a = g /\ b = h /\ i = j
                    /\ r[g][h][j].kind = "RELEASE" /\ a = g /\ b = h => j < i
  BY DEF Single
<1> DEFINE ii == IF a = e /\ b = f THEN i + 1 ELSE i
           jj == IF g = e /\ h = f THEN j + 1 ELSE j
<1>1. ii \in DOMAIN q[a][b] /\ r[a][b][i] = q[a][b][ii] /\ i \in Nat
  BY LessIs
<1>2. jj \in DOMAIN q[g][h] /\ r[g][h][j] = q[g][h][jj] /\ j \in Nat
  BY LessIs
<1> HIDE DEF r, ii, jj
<1>3. /\ q[g][h][jj].kind = "REQUEST" => a = g /\ b = h /\ ii = jj
      /\ q[g][h][jj].kind = "RELEASE" /\ a = g /\ b = h => jj < ii
  BY <1>1, <1>2 DEF Single
<1> USE DEF ii, jj
<1> QED BY <1>1, <1>2, <1>3

\* So does sending one, unless a request is under way and it is a request or a release.
LEMMA SentSingle ==
  ASSUME NEW q \in Queues, NEW e \in Enb, NEW f \in Enb, NEW m \in Message, Single(q),
         m.kind \in {"REQUEST", "RELEASE"}
           => \A g, h \in Enb : \A k \in WireOf(q, g, h) : k.kind # "REQUEST"
  PROVE  Single(Sent(q, e, f, m))
<1> DEFINE r == Sent(q, e, f, m)
<1> SUFFICES ASSUME NEW a \in Enb, NEW b \in Enb, NEW g \in Enb, NEW h \in Enb,
                    NEW i \in DOMAIN r[a][b], NEW j \in DOMAIN r[g][h], r[a][b][i].kind = "REQUEST"
             PROVE  /\ r[g][h][j].kind = "REQUEST" => a = g /\ b = h /\ i = j
                    /\ r[g][h][j].kind = "RELEASE" /\ a = g /\ b = h => j < i
  BY DEF Single
<1>1. /\ i \in Nat
      /\ \/ i \in DOMAIN q[a][b] /\ r[a][b][i] = q[a][b][i]
         \/ a = e /\ b = f /\ r[a][b][i] = m /\ \A l \in DOMAIN r[a][b] : l <= i
  BY SentIs
<1>2. /\ j \in Nat
      /\ \/ j \in DOMAIN q[g][h] /\ r[g][h][j] = q[g][h][j]
         \/ g = e /\ h = f /\ r[g][h][j] = m /\ \A l \in DOMAIN r[g][h] : l <= j
  BY SentIs
<1> HIDE DEF r
<1>3. \A k, l \in Enb : \A p \in DOMAIN q[k][l] : q[k][l][p] \in WireOf(q, k, l)
  BY DEF WireOf
<1>4. CASE i \in DOMAIN q[a][b] /\ r[a][b][i] = q[a][b][i]
            /\ j \in DOMAIN q[g][h] /\ r[g][h][j] = q[g][h][j]
  BY <1>4 DEF Single
<1>5. CASE i \in DOMAIN q[a][b] /\ r[a][b][i] = q[a][b][i] /\ r[g][h][j] = m
  BY <1>5, <1>3
<1>6. CASE /\ a = e /\ b = f /\ r[a][b][i] = m /\ \A l \in DOMAIN r[a][b] : l <= i
           /\ j \in DOMAIN q[g][h] /\ r[g][h][j] = q[g][h][j]
  <2>1. r[g][h][j].kind # "REQUEST"
    BY <1>6, <1>3
  <2>2. CASE a = g /\ b = h /\ r[g][h][j].kind = "RELEASE"
    <3>1. j <= i
      BY <1>6, <2>2
    <3>2. i # j
      BY <1>6, <2>2
    <3> QED BY <2>1, <3>1, <3>2, <1>1, <1>2
  <2> QED BY <2>1, <2>2
<1>7. CASE /\ a = e /\ b = f /\ r[a][b][i] = m /\ \A l \in DOMAIN r[a][b] : l <= i
           /\ g = e /\ h = f /\ r[g][h][j] = m /\ \A l \in DOMAIN r[g][h] : l <= j
  <2>1. i <= j /\ j <= i
    BY <1>7
  <2>2. i = j
    BY <2>1, <1>1, <1>2
  <2> QED BY <2>2, <1>7
<1> QED BY <1>1, <1>2, <1>4, <1>5, <1>6, <1>7

\* Queues r come after queues q without a new request and with every release.
Follows(q, r) ==
  /\ Single(q) => Single(r)
  /\ \A g, h \in Enb :
       /\ \A k \in WireOf(r, g, h) : k.kind = "REQUEST" => k \in WireOf(q, g, h)
       /\ \A k \in WireOf(q, g, h) : k.kind = "RELEASE" => k \in WireOf(r, g, h)

\* A message that is no release is taken.
LEMMA LessFollows ==
  ASSUME NEW q \in Queues, NEW e \in Enb, NEW f \in Enb, q[e][f] # << >>,
         Head(q[e][f]).kind # "RELEASE"
  PROVE  Follows(q, Less(q, e, f))
<1>1. Single(q) => Single(Less(q, e, f))
  BY LessSingle
<1>2. ASSUME NEW g \in Enb, NEW h \in Enb
      PROVE  /\ WireOf(Less(q, e, f), g, h) \subseteq WireOf(q, g, h)
             /\ \A k \in WireOf(q, g, h) : k.kind = "RELEASE" => k \in WireOf(Less(q, e, f), g, h)
  BY LessWire, LessLeaves
<1> QED BY <1>1, <1>2 DEF Follows

\* A message that is neither a request nor a release is sent.
LEMMA SentFollows ==
  ASSUME NEW q \in Queues, NEW e \in Enb, NEW f \in Enb, NEW m \in Message,
         m.kind \notin {"REQUEST", "RELEASE"}
  PROVE  Follows(q, Sent(q, e, f, m))
<1>1. Single(q) => Single(Sent(q, e, f, m))
  BY SentSingle
<1>2. \A g, h \in Enb : \A k \in WireOf(Sent(q, e, f, m), g, h) :
        k.kind = "REQUEST" => k \in WireOf(q, g, h)
  BY SentWire
<1>3. \A g, h \in Enb : WireOf(q, g, h) \subseteq WireOf(Sent(q, e, f, m), g, h)
  BY SentLeaves
<1> QED BY <1>1, <1>2, <1>3 DEF Follows

\* A step that makes no context, moves none but to remove it, asks for no handover, and takes no
\* release but of a context that it removes, keeps the invariant.
LEMMA RestKeeps ==
  ASSUME HandoverInv, ReturnInv, Single(x2'), UNCHANGED <<enb, source>>,
         \A c \in Context : state'[c] = state[c] \/ (Live(c) /\ state'[c] = "removed"),
         \A g, h \in Enb : \A k \in WireOf(x2', g, h) : k.kind = "REQUEST" => k \in Wire(g, h),
         \A g, h \in Enb : \A k \in Wire(g, h) :
           k.kind = "RELEASE" => k \in WireOf(x2', g, h) \/ state'[k.old] = "removed"
  PROVE  ReturnInv'
<1>1. AskedInv'
  BY DEF ReturnInv, AskedInv, Alone, Wire
<1>2. JoinInv'
  BY DEF ReturnInv, JoinInv
<1>3. ASSUME NEW c \in Context, state'[c] = "HANDOVER_LEAVING" PROVE Released(c)' \/ Undecided(c)'
  <2>1. state[c] = "HANDOVER_LEAVING"
    BY <1>3
  <2>2. CASE Released(c)
    BY <1>3, <2>2, SameTypes DEF Released, Wire
  <2>3. CASE Undecided(c)
    BY <2>3 DEF Undecided, Wire
  <2> QED BY <2>1, <2>2, <2>3 DEF ReturnInv, LeaveInv
<1>4. NumberInv'
  BY DEF ReturnInv, NumberInv, Live, States
<1>5. ASSUME NEW c \in Context, NEW d \in Context, Live(c)', Live(d)', enb'[c] = enb'[d], c < d
      PROVE  (state[c] = "HANDOVER_LEAVING" /\ Elsewhere(c, d))'
  <2>1. Live(c) /\ Live(d) /\ state'[c] = state[c] /\ state'[c] # "removed"
    BY <1>5 DEF Live, States
  <2>2. state[c] = "HANDOVER_LEAVING" /\ Elsewhere(c, d)
    BY <1>5, <2>1 DEF ReturnInv, FormerInv
  <2>3. Elsewhere(c, d)'
    BY <2>1, <2>2, SameTypes DEF Elsewhere, Wire
  <2> QED BY <2>1, <2>2, <2>3
<1> QED BY <1>1, <1>2, <1>3, <1>4, <1>5 DEF ReturnInv, LeaveInv, FormerInv

\* No release goes and no request comes.
LEMMA FollowsKeeps ==
  ASSUME HandoverInv, ReturnInv, Follows(x2, x2'), UNCHANGED <<enb, source>>,
         \A c \in Context : state'[c] = state[c] \/ (Live(c) /\ state'[c] = "removed")
  PROVE  ReturnInv'
<1>1. Single(x2')
  BY DEF ReturnInv, Follows
<1>2. \A g, h \in Enb : \A k \in WireOf(x2', g, h) : k.kind = "REQUEST" => k \in Wire(g, h)
  BY DEF Follows, Wire
<1>3. \A g, h \in Enb : \A k \in Wire(g, h) : k.kind = "RELEASE" => k \in WireOf(x2', g, h)
  BY DEF Follows, Wire
<1> QED BY <1>1, <1>2, <1>3, RestKeeps

\* As long as no release goes, a context that is released stays so.
LEMMA ReleasedStays ==
  ASSUME HandoverInv, Follows(x2, x2'), enb' = enb, NEW c \in Context, Released(c)
  PROVE  Released(c)'
BY SameTypes DEF Released, Follows, Wire

\* And a former context, once it is one, until it is removed.
LEMMA FormerStays ==
  ASSUME HandoverInv, ReturnInv, UNCHANGED <<enb, source>>,
         \A g, h \in Enb : \A k \in Wire(g, h) : k.kind = "RELEASE" => k \in WireOf(x2', g, h),
         \A c \in Context : Live(c)' => Live(c),
         \A c \in Context : state[c] = "HANDOVER_LEAVING" /\ Live(c)' => state'[c] = state[c]
  PROVE  FormerInv'
<1> SUFFICES ASSUME NEW a \in Context, NEW d \in Context, Live(a)', Live(d)',
                    enb'[a] = enb'[d], a < d
             PROVE  (state[a] = "HANDOVER_LEAVING" /\ Elsewhere(a, d))'
  BY DEF FormerInv
<1>1. Live(a) /\ Live(d)
  OBVIOUS
<1>2. state[a] = "HANDOVER_LEAVING" /\ Elsewhere(a, d)
  BY <1>1 DEF ReturnInv, FormerInv
<1>3. Elsewhere(a, d)'
  BY <1>2, SameTypes DEF Elsewhere, Wire
<1> QED BY <1>2, <1>3

\* While a handover can be asked for or is, a leaving context is released.
LEMMA LeavingIsReleased ==
  ASSUME ReturnInv, NEW c \in Context, state[c] = "HANDOVER_LEAVING", NEW d \in Context,
         state[d] \in {"CONNECTED_NORMALLY", "HANDOVER_PREPARATION"}
  PROVE  Released(c)
BY DEF ReturnInv, LeaveInv, Undecided

\* X2 stays as it is.
LEMMA SameFollows ==
  ASSUME x2' = x2
  PROVE  Follows(x2, x2')
BY DEF Follows

\* RemoveUe only removes.
LEMMA RemoveUeRemoves ==
  ASSUME HandoverInv, NEW c \in Context, Live(c), RemoveUe(c)
  PROVE  /\ UNCHANGED <<enb, source>>
         /\ \A d \in Context : state'[d] = state[d] \/ (Live(d) /\ state'[d] = "removed")
         /\ state'[c] = "removed"
<1>1. state \in [Context -> States \cup {"none", "removed"}]
  BY DEF HandoverInv, TypeInv
<1> QED BY <1>1 DEF RemoveUe

\* A handler takes its message.
LEMMA TakenFollows ==
  ASSUME HandoverInv, NEW e \in Enb, NEW f \in Enb, x2[e][f] # << >>,
         Head(x2[e][f]).kind # "RELEASE"
  PROVE  Follows(x2, Taken(e, f))
BY SameTypes, LessFollows DEF Taken, Less

\* A handler takes its message and sends another.
LEMMA TakenSentFollows ==
  ASSUME HandoverInv, NEW e \in Enb, NEW f \in Enb, x2[e][f] # << >>,
         Head(x2[e][f]).kind # "RELEASE", NEW g \in Enb, NEW h \in Enb,
         NEW m \in Message, m.kind \notin {"REQUEST", "RELEASE"}
  PROVE  Follows(x2, Sent(Taken(e, f), g, h, m))
<1>1. Follows(x2, Taken(e, f)) /\ Taken(e, f) \in Queues
  BY TakenFollows, TakenFacts
<1>2. Follows(Taken(e, f), Sent(Taken(e, f), g, h, m))
  BY <1>1, SentFollows
<1> QED BY <1>1, <1>2 DEF Follows

\* A joining context tells its source that it fails.
LEMMA FailureSentFollows ==
  ASSUME HandoverInv, NEW c \in Context, state[c] = "HANDOVER_JOINING"
  PROVE  Follows(x2, FailureSent(c))
<1>1. source[c] \in Context /\ enb[c] \in Enb /\ enb[source[c]] \in Enb /\ x2 \in Queues
  BY SameTypes DEF HandoverInv, ContextInv
<1>2. Msg("FAILURE", source[c], None) \in Message
  BY <1>1, MessageIs DEF Kinds
<1>3. Msg("FAILURE", source[c], None).kind \notin {"REQUEST", "RELEASE"}
  BY DEF Msg
<1> QED BY <1>1, <1>2, <1>3, SentFollows DEF FailureSent

\* The handler of c's request finds all other contexts leaving.
LEMMA TriggerHandoverReturns ==
  ASSUME HandoverInv, ReturnInv, NEW c \in Context, NEW e \in Enb, TriggerHandover(c, e)
  PROVE  ReturnInv'
<1> DEFINE m == Msg("REQUEST", c, None)
<1>types. state \in [Context -> States \cup {"none", "removed"}]
  BY DEF HandoverInv, TypeInv
<1>1. /\ m \in Message /\ x2 \in Queues /\ enb[c] \in Enb /\ x2' = Sent(x2, enb[c], e, m)
      /\ m.kind = "REQUEST" /\ m.old = c /\ e # enb[c]
      /\ state[c] = "CONNECTED_NORMALLY"
      /\ state' = [state EXCEPT ![c] = "HANDOVER_PREPARATION"]
      /\ UNCHANGED <<enb, source>>
  BY MessageIs, SameTypes DEF TriggerHandover, enbVars, Kinds, Msg
<1> HIDE DEF m
<1>2. \A g, h \in Enb : \A k \in Wire(g, h) : k.kind # "REQUEST"
  BY <1>1 DEF ReturnInv, AskedInv, Alone
<1>3. Single(x2')
  BY <1>1, <1>2, SentSingle DEF ReturnInv, Wire
<1>4. \A g, h \in Enb : \A k \in Wire(g, h)' : k \in Wire(g, h) \/ (g = enb[c] /\ h = e /\ k = m)
  BY <1>1, SentWire DEF Wire
<1>5. \A g, h \in Enb : Wire(g, h) \subseteq Wire(g, h)'
  BY <1>1, SentLeaves DEF Wire
<1>6. \A d \in Context : state[d] \in Serving => d = c
  BY <1>1 DEF HandoverInv, ServeInv, OneServes, Serving
<1>7. \A d \in Context : state[d] # "HANDOVER_JOINING"
  BY <1>1 DEF ReturnInv, JoinInv
<1>8. Alone(c)'
  BY <1>1, <1>6, <1>7, <1>types DEF Alone, Serving
<1>9. AskedInv'
  BY <1>1, <1>2, <1>4, <1>8 DEF AskedInv
<1>10. JoinInv'
  BY <1>1, <1>7, <1>types DEF JoinInv
<1>11. ASSUME NEW d \in Context, state'[d] = "HANDOVER_LEAVING" PROVE Released(d)'
  <2>1. state[d] = "HANDOVER_LEAVING"
    BY <1>1, <1>11, <1>types
  <2>2. Released(d)
    BY <2>1, <1>1, LeavingIsReleased
  <2> QED BY <2>2, <1>1, <1>5, SameTypes DEF Released
<1>12. NumberInv'
  BY <1>1, <1>types DEF ReturnInv, NumberInv, States
<1>13. FormerInv'
  <2>1. \A d \in Context : /\ Live(d)' => Live(d)
                           /\ state[d] = "HANDOVER_LEAVING" => state'[d] = state[d]
    BY <1>1, <1>types DEF Live, States
  <2> QED BY <1>1, <1>5, <2>1, FormerStays DEF Wire
<1> QED BY <1>3, <1>9, <1>10, <1>11, <1>12, <1>13 DEF ReturnInv, LeaveInv

\* What c waits for from now on is undecided.
LEMMA ReceiveAckReturns ==
  ASSUME HandoverInv, ReturnInv, NEW e \in Enb, NEW f \in Enb, ReceiveAck(e, f)
  PROVE  ReturnInv'
<1> DEFINE m == Head(x2[e][f])
<1>0. PICK c : c = m.old
  OBVIOUS
<1>types. state \in [Context -> States \cup {"none", "removed"}]
  BY DEF HandoverInv, TypeInv
<1>1. CASE ~Live(c)
  <2>1. UNCHANGED <<state, enb, source, x2>>
    BY <1>0, <1>1 DEF ReceiveAck, Abort, enbVars
  <2> QED BY <2>1, SameFollows, FollowsKeeps
<1>2. CASE Live(c)
  <2>1. /\ x2[e][f] # << >> /\ m.kind = "ACK" /\ x2' = Taken(e, f)
        /\ state' = [state EXCEPT ![c] = "HANDOVER_LEAVING"]
        /\ UNCHANGED <<enb, source>>
    BY <1>0, <1>2 DEF ReceiveAck, Arrives
  <2>2. /\ c \in Context /\ state[c] = "HANDOVER_PREPARATION" /\ m \in Wire(e, f)
        /\ \A g, h \in Enb : \A k \in Wire(g, h)' :
             k \in Wire(g, h) /\ (Asks(k, c) => k.kind = "FAILURE")
    <3>1. AckInv(e, f, m) /\ m \in Wire(e, f)
      BY <2>1, TakenFacts DEF Timely
    <3>2. c \in Context /\ state[c] = "HANDOVER_PREPARATION"
      BY <1>0, <1>2, <3>1 DEF AckInv, Live, States
    <3> QED BY <1>0, <2>1, <3>1, <3>2, TakenFacts DEF Wire, Asks
  <2>3. Follows(x2, x2')
    BY <2>1, TakenFollows
  <2> HIDE DEF m
  <2>4. \A g, h \in Enb : \A k \in Wire(g, h)' : k.kind # "REQUEST"
    <3> SUFFICES ASSUME NEW g \in Enb, NEW h \in Enb, NEW k \in Wire(g, h)', k.kind = "REQUEST"
                 PROVE  FALSE
      OBVIOUS
    <3>1. Alone(k.old) /\ k \in Wire(g, h)
      BY <2>2 DEF ReturnInv, AskedInv
    <3>2. k.old = c
      BY <2>2, <3>1 DEF Alone
    <3> QED BY <2>2, <3>2 DEF Asks
  <2>5. \A d \in Context : state[d] \in Serving => d = c
    BY <2>2 DEF HandoverInv, ServeInv, OneServes, Serving
  <2>6. \A d \in Context : state[d] = "HANDOVER_JOINING" => source[d] = c
    BY <2>2 DEF ReturnInv, JoinInv
  <2>7. Undecided(c)'
    BY <2>1, <2>2, <2>4, <2>5, <2>6, <1>types DEF Undecided, Serving
  <2>8. ASSUME NEW d \in Context, state'[d] = "HANDOVER_LEAVING", d # c PROVE Released(d)'
    <3>1. state[d] = "HANDOVER_LEAVING"
      BY <2>1, <2>8, <1>types
    <3>2. Released(d)
      BY <3>1, <2>2, LeavingIsReleased
    <3> QED BY <3>2, <2>1, <2>3, ReleasedStays
  <2>9. Single(x2') /\ AskedInv'
    BY <2>3, <2>4 DEF ReturnInv, AskedInv, Follows
  <2>10. JoinInv'
    BY <2>1, <2>2, <1>types DEF ReturnInv, JoinInv
  <2>11. NumberInv'
    BY <2>1, <2>2, <1>types DEF ReturnInv, NumberInv
  <2>12. FormerInv'
    <3>1. \A d \in Context : /\ Live(d)' => Live(d)
                             /\ state[d] = "HANDOVER_LEAVING" => state'[d] = state[d]
      BY <2>1, <2>2, <1>types DEF Live, States
    <3> QED BY <2>1, <2>3, <3>1, FormerStays DEF Wire, Follows
  <2> QED BY <2>7, <2>8, <2>9, <2>10, <2>11, <2>12 DEF ReturnInv, LeaveInv
<1> QED BY <1>1, <1>2

\* The handover is given up: c was the only one that asked, and nobody joins for it.
LEMMA ReceiveFailureReturns ==
  ASSUME HandoverInv, ReturnInv, NEW e \in Enb, NEW f \in Enb, ReceiveFailure(e, f)
  PROVE  ReturnInv'
<1> DEFINE m == Head(x2[e][f])
<1>0. PICK c : c = m.old
  OBVIOUS
<1>types. state \in [Context -> States \cup {"none", "removed"}]
  BY DEF HandoverInv, TypeInv
<1>1. /\ x2[e][f] # << >> /\ m.kind = "FAILURE" /\ FailureInv(m)
      /\ Follows(x2, Taken(e, f))
      /\ \A g, h \in Enb : \A k \in WireOf(Taken(e, f), g, h) : k \in Wire(g, h) /\ ~Asks(k, c)
  <2>1. x2[e][f] # << >> /\ m.kind = "FAILURE" /\ FailureInv(m)
    BY TakenFacts DEF ReceiveFailure, Arrives, Timely
  <2>2. Asks(m, c) /\ c \in Context
    BY <1>0, <2>1 DEF Asks, FailureInv
  <2> QED BY <2>1, <2>2, TakenFacts, TakenFollows
<1>2. CASE UNCHANGED <<state, enb, source>> /\ x2' \in {x2, Taken(e, f)}
  BY <1>1, <1>2, SameFollows, FollowsKeeps
<1>3. CASE Live(c) /\ x2' = Taken(e, f) /\ RemoveUe(c)
  <2>1. c \in Context
    BY <1>3 DEF Live
  <2> QED BY <1>1, <1>3, <2>1, RemoveUeRemoves, FollowsKeeps
<1>4. CASE /\ Live(c) /\ state[c] = "HANDOVER_PREPARATION" /\ x2' = Taken(e, f)
           /\ state' = [state EXCEPT ![c] = "CONNECTED_NORMALLY"]
           /\ UNCHANGED <<enb, source>>
  <2>1. c \in Context /\ NoneJoins(c) /\ Follows(x2, x2')
    BY <1>0, <1>1, <1>4 DEF FailureInv
  <2>2. \A g, h \in Enb : \A k \in Wire(g, h)' : k \in Wire(g, h) /\ ~Asks(k, c)
    BY <1>1, <1>4 DEF Wire
  <2> HIDE DEF m
  <2>3. \A n \in Context : state[n] # "HANDOVER_JOINING"
    BY <1>4, <2>1 DEF ReturnInv, JoinInv, NoneJoins
  <2>4. \A g, h \in Enb : \A k \in Wire(g, h)' : k.kind # "REQUEST"
    BY <1>4, <2>1, <2>2 DEF ReturnInv, AskedInv, Alone, Asks
  <2>5. Single(x2') /\ AskedInv'
    BY <2>1, <2>4 DEF ReturnInv, AskedInv, Follows
  <2>6. JoinInv'
    BY <1>4, <2>1, <2>3, <1>types DEF JoinInv
  <2>7. NumberInv'
    BY <1>4, <2>1, <1>types DEF ReturnInv, NumberInv
  <2>8. ASSUME NEW d \in Context, state'[d] = "HANDOVER_LEAVING" PROVE Released(d)'
    <3>1. state[d] = "HANDOVER_LEAVING"
      BY <1>4, <2>1, <2>8, <1>types
    <3>2. Released(d)
      BY <1>4, <2>1, <3>1, LeavingIsReleased
    <3> QED BY <1>4, <2>1, <3>2, ReleasedStays
  <2>9. FormerInv'
    <3>1. \A d \in Context : /\ Live(d)' => Live(d)
                             /\ state[d] = "HANDOVER_LEAVING" => state'[d] = state[d]
      BY <1>4, <2>1, <1>types DEF Live, States
    <3> QED BY <1>4, <2>1, <3>1, FormerStays DEF Wire, Follows
  <2> QED BY <2>5, <2>6, <2>7, <2>8, <2>9 DEF ReturnInv, LeaveInv
<1> QED BY <1>0, <1>2, <1>3, <1>4 DEF ReceiveFailure, Abort, SendRrcConnectionRelease, enbVars

\* The release that goes is that of a context which is gone by now.
LEMMA ReceiveContextReleaseReturns ==
  ASSUME HandoverInv, ReturnInv, NEW e \in Enb, NEW f \in Enb, ReceiveContextRelease(e, f)
  PROVE  ReturnInv'
<1> DEFINE m == Head(x2[e][f])
<1>0. PICK c : c = m.old
  OBVIOUS
<1>1. x2[e][f] # << >> /\ m.kind = "RELEASE" /\ ReleaseInv(m) /\ x2 \in Queues
  BY TakenFacts, SameTypes DEF ReceiveContextRelease, Arrives, Timely
<1>2. /\ Single(Taken(e, f))
      /\ \A g, h \in Enb : \A k \in WireOf(Taken(e, f), g, h) : k \in Wire(g, h)
      /\ \A g, h \in Enb : \A k \in Wire(g, h) : k \in WireOf(Taken(e, f), g, h) \/ k = m
  <2>1. Taken(e, f) = Less(x2, e, f)
    BY DEF Taken, Less
  <2> QED BY <1>1, <2>1, LessSingle, LessWire, LessLeaves DEF ReturnInv, Wire
<1>3. CASE Abort("released context")
  <2>1. UNCHANGED <<state, enb, source, x2>>
    BY <1>3 DEF Abort, enbVars
  <2> QED BY <2>1, SameFollows, FollowsKeeps
<1>4. CASE ~Live(c) /\ x2' = Taken(e, f) /\ UNCHANGED enbVars
  <2>1. state'[c] = "removed"
    BY <1>0, <1>1, <1>4 DEF ReleaseInv, Gone, Live, States, enbVars
  <2>2. UNCHANGED <<state, enb, source>>
    BY <1>4 DEF enbVars
  <2>3. \A g, h \in Enb : \A k \in Wire(g, h) :
          k.kind = "RELEASE" => k \in WireOf(x2', g, h) \/ state'[k.old] = "removed"
    BY <1>0, <1>2, <1>4, <2>1
  <2> HIDE DEF m
  <2> QED BY <1>2, <1>4, <2>2, <2>3, RestKeeps
<1>5. CASE Live(c) /\ x2' = Taken(e, f) /\ RemoveUe(c)
  <2>1. /\ UNCHANGED <<enb, source>> /\ state'[c] = "removed"
        /\ \A d \in Context : state'[d] = state[d] \/ (Live(d) /\ state'[d] = "removed")
    BY <1>5, RemoveUeRemoves DEF Live
  <2>2. \A g, h \in Enb : \A k \in Wire(g, h) :
          k.kind = "RELEASE" => k \in WireOf(x2', g, h) \/ state'[k.old] = "removed"
    BY <1>0, <1>2, <1>5, <2>1
  <2> HIDE DEF m
  <2> QED BY <1>2, <1>5, <2>1, <2>2, RestKeeps
<1> QED BY <1>0, <1>3, <1>4, <1>5 DEF ReceiveContextRelease

\* The path is switched for c: its source alone was undecided, and is released now.
LEMMA ReceivePathSwitchAckReturns ==
  ASSUME HandoverInv, ReturnInv, NEW c \in Context, ReceivePathSwitchAck(c)
  PROVE  ReturnInv'
<1> DEFINE m == Msg("RELEASE", source[c], c)
<1>types. state \in [Context -> States \cup {"none", "removed"}]
  BY DEF HandoverInv, TypeInv
<1>1. CASE Abort("switched context")
  <2>1. UNCHANGED <<state, enb, source, x2>>
    BY <1>1 DEF Abort, enbVars
  <2> QED BY <2>1, SameFollows, FollowsKeeps
<1>2. CASE /\ state[c] = "HANDOVER_PATH_SWITCH"
           /\ x2' = Sent(x2, enb[c], enb[source[c]], m)
           /\ state' = [state EXCEPT ![c] = "CONNECTION_RECONFIGURATION"]
           /\ UNCHANGED <<enb, source>>
  <2>1. /\ source[c] \in Context /\ enb[c] \in Enb /\ enb[source[c]] \in Enb /\ x2 \in Queues
    BY <1>2, SameTypes DEF HandoverInv, ContextInv
  <2>2. m \in Message /\ m.kind = "RELEASE" /\ m.old = source[c]
    BY <2>1, MessageIs DEF Kinds, Msg
  <2>3. PICK s : s = source[c]
    OBVIOUS
  <2> HIDE DEF m
  <2>4. \A g, h \in Enb : \A k \in Wire(g, h) : k.kind # "REQUEST"
    BY <1>2 DEF ReturnInv, AskedInv, Alone
  <2>5. /\ \A g, h \in Enb : Wire(g, h) \subseteq Wire(g, h)'
        /\ m \in Wire(enb[c], enb[s])'
        /\ \A g, h \in Enb : \A k \in Wire(g, h)' : k \in Wire(g, h) \/ k = m
    BY <1>2, <2>1, <2>2, <2>3, SentLeaves, SentWire DEF Wire
  <2>6. Single(x2') /\ AskedInv'
    <3>1. Single(x2')
      BY <1>2, <2>1, <2>2, <2>4, SentSingle DEF ReturnInv, Wire
    <3>2. AskedInv'
      BY <2>2, <2>4, <2>5 DEF AskedInv
    <3> QED BY <3>1, <3>2
  <2>7. \A n \in Context : state[n] # "HANDOVER_JOINING"
    BY <1>2 DEF ReturnInv, JoinInv
  <2>8. JoinInv'
    BY <1>2, <2>7, <1>types DEF JoinInv
  <2>9. NumberInv'
    BY <1>2, <1>types DEF ReturnInv, NumberInv
  <2>10. ASSUME NEW d \in Context, state'[d] = "HANDOVER_LEAVING" PROVE Released(d)'
    <3>1. state[d] = "HANDOVER_LEAVING"
      BY <1>2, <2>10, <1>types
    <3>2. CASE Released(d)
      BY <1>2, <2>5, <3>2, SameTypes DEF Released
    <3>3. CASE Undecided(d)
      <4>1. d = s
        BY <1>2, <2>3, <3>3 DEF Undecided
      <4> QED BY <1>2, <2>1, <2>2, <2>3, <2>5, <4>1 DEF Released
    <3> QED BY <3>1, <3>2, <3>3 DEF ReturnInv, LeaveInv
  <2>11. FormerInv'
    <3>1. \A d \in Context : /\ Live(d)' => Live(d)
                             /\ state[d] = "HANDOVER_LEAVING" => state'[d] = state[d]
      BY <1>2, <1>types DEF Live, States
    <3> QED BY <1>2, <2>5, <3>1, FormerStays DEF Wire
  <2> QED BY <2>6, <2>8, <2>9, <2>10, <2>11 DEF ReturnInv, LeaveInv
<1> QED BY <1>1, <1>2 DEF ReceivePathSwitchAck

\* Nothing is asked of anybody else, so that whoever leaves waits for c.
LEMMA ReceiveCompletedReturns ==
  ASSUME HandoverInv, ReturnInv, NEW c \in Context, ReceiveCompleted(c)
  PROVE  ReturnInv'
<1>1. c \in completed /\ state[c] \in {"HANDOVER_JOINING", "CONNECTION_RECONFIGURATION"}
  BY DEF ReceiveCompleted, HandoverInv, ContextInv
<1>2. /\ state' = [state EXCEPT ![c] = IF state[c] = "HANDOVER_JOINING"
                                       THEN "HANDOVER_PATH_SWITCH" ELSE "CONNECTED_NORMALLY"]
      /\ UNCHANGED <<enb, source, x2>>
  BY <1>1 DEF ReceiveCompleted
<1>types. state \in [Context -> States \cup {"none", "removed"}]
  BY DEF HandoverInv, TypeInv
<1>3. \A g, h \in Enb : Wire(g, h)' = Wire(g, h)
  BY <1>2 DEF Wire
<1>4. \A g, h \in Enb : \A k \in Wire(g, h) : k.kind # "REQUEST"
  BY <1>1 DEF ReturnInv, AskedInv, Alone
<1>5. Single(x2') /\ AskedInv'
  BY <1>2, <1>3, <1>4 DEF ReturnInv, AskedInv
<1>6. JoinInv'
  BY <1>1, <1>2, <1>types DEF ReturnInv, JoinInv
<1>7. NumberInv'
  BY <1>1, <1>2, <1>types DEF ReturnInv, NumberInv
<1>8. ASSUME NEW d \in Context, state'[d] = "HANDOVER_LEAVING" PROVE Released(d)' \/ Undecided(d)'
  <2>1. state[d] = "HANDOVER_LEAVING"
    BY <1>2, <1>8, <1>types
  <2>2. CASE Released(d)
    BY <1>2, <1>3, <2>2, SameTypes DEF Released
  <2>3. CASE Undecided(d)
    BY <1>1, <1>2, <1>3, <2>3, <1>types DEF Undecided
  <2> QED BY <2>1, <2>2, <2>3 DEF ReturnInv, LeaveInv
<1>9. FormerInv'
  <2>1. \A d \in Context : /\ Live(d)' => Live(d)
                           /\ state[d] = "HANDOVER_LEAVING" => state'[d] = state[d]
    BY <1>1, <1>2, <1>types DEF Live, States
  <2> QED BY <1>2, <2>1, FormerStays DEF Wire
<1> QED BY <1>5, <1>6, <1>7, <1>8, <1>9 DEF ReturnInv, LeaveInv

\* The request was last of its link, so that a former context at f has its release on another.
LEMMA AcceptRequestReturns ==
  ASSUME HandoverInv, ReturnInv, NEW e \in Enb, NEW f \in Enb, AcceptRequest(e, f)
  PROVE  ReturnInv'
<1> DEFINE r == Head(x2[e][f])
<1>types. /\ state \in [Context -> States \cup {"none", "removed"}]
          /\ enb \in [Context -> Enb] /\ source \in [Context -> Context \cup {None}]
          /\ x2 \in Queues
  BY DEF HandoverInv, TypeInv
<1>0. PICK old : old = r.old
  OBVIOUS
<1>1. PICK new \in Context :
        /\ x2[e][f] # << >> /\ r.kind = "REQUEST" /\ state[new] = "none"
        /\ \A k \in 1..new - 1 : state[k] # "none"
        /\ \/ /\ x2' = Sent(Taken(e, f), f, e, Msg("ACK", old, new))
              /\ state' = [state EXCEPT ![new] = "HANDOVER_JOINING"]
              /\ enb' = [enb EXCEPT ![new] = f]
              /\ source' = [source EXCEPT ![new] = old]
           \/ Abort("overwritten TEID")
  BY <1>0 DEF AcceptRequest, Arrives
<1>2. CASE Abort("overwritten TEID")
  <2>1. UNCHANGED <<state, enb, source, x2>>
    BY <1>2 DEF Abort, enbVars
  <2> QED BY <2>1, SameFollows, FollowsKeeps
<1>3. CASE /\ x2' = Sent(Taken(e, f), f, e, Msg("ACK", old, new))
           /\ state' = [state EXCEPT ![new] = "HANDOVER_JOINING"]
           /\ enb' = [enb EXCEPT ![new] = f]
           /\ source' = [source EXCEPT ![new] = old]
  <2>1. /\ Taken(e, f) \in Queues /\ RequestInv(e, f, r) /\ r \in Wire(e, f)
        /\ e # f /\ Alone(old)
        /\ 1 \in DOMAIN x2[e][f] /\ r = x2[e][f][1]
    <3>1. RequestInv(e, f, r) /\ r \in Wire(e, f) /\ Taken(e, f) \in Queues
      BY <1>1, TakenFacts DEF Timely
    <3>2. x2 \in Queues /\ x2[e][f] # << >>
      BY <1>1, <1>types
    <3>3. 1 \in DOMAIN x2[e][f] /\ r = x2[e][f][1]
      BY <3>2, LessIs
    <3> QED BY <1>0, <1>1, <3>1, <3>3 DEF ReturnInv, AskedInv
  <2>first. ASSUME NEW g \in Enb, NEW h \in Enb, NEW j \in DOMAIN x2[g][h]
            PROVE  /\ x2[g][h][j].kind = "REQUEST" => e = g /\ f = h /\ 1 = j
                   /\ x2[g][h][j].kind = "RELEASE" /\ e = g /\ f = h => j < 1
    <3>1. Single(x2) /\ 1 \in DOMAIN x2[e][f] /\ x2[e][f][1].kind = "REQUEST"
      BY <1>1, <2>1 DEF ReturnInv
    <3> QED BY <3>1 DEF Single
  <2>2. old \in Context /\ enb[old] = e /\ old # new
    BY <1>0, <1>1, <2>1 DEF RequestInv
  <2>3. Msg("ACK", old, new) \in Message /\ Msg("ACK", old, new).kind = "ACK"
    BY <2>2, MessageIs DEF Kinds, Msg
  <2>4. Follows(x2, x2')
    BY <1>1, <1>3, <2>3, TakenSentFollows
  <2>5. \A g, h \in Enb : \A k \in Wire(g, h)' : k.kind # "REQUEST"
    <3> SUFFICES ASSUME NEW g \in Enb, NEW h \in Enb, NEW k \in Wire(g, h)', k.kind = "REQUEST"
                 PROVE  FALSE
      OBVIOUS
    <3>1. k \in WireOf(Less(x2, e, f), g, h)
      BY <1>3, <2>1, <2>3, SentWire DEF Wire, Taken, Less
    <3>2. PICK i \in DOMAIN Less(x2, e, f)[g][h] : k = Less(x2, e, f)[g][h][i]
      BY <3>1 DEF WireOf
    <3>3. PICK j : j = IF g = e /\ h = f THEN i + 1 ELSE i
      OBVIOUS
    <3>full. x2 \in Queues /\ x2[e][f] # << >>
      BY <1>1, <1>types
    <3>in. j \in DOMAIN x2[g][h] /\ k = x2[g][h][j] /\ i \in Nat
      BY <3>full, <3>2, <3>3, LessIs
    <3>4. g = e /\ h = f /\ 1 = j
      BY <2>first, <3>in
    <3>5. i = 0
      BY <3>3, <3>in, <3>4
    <3>6. x2[e][f] \in Seq(Message)
      BY <1>types DEF Queues
    <3>7. Less(x2, e, f)[g][h] = Tail(x2[e][f])
      BY <3>4, <1>types DEF Less, Queues
    <3> QED BY <3>2, <3>5, <3>6, <3>7
  <2>6. \A k \in Wire(e, f) : k.kind # "RELEASE"
    <3> SUFFICES ASSUME NEW k \in Wire(e, f), k.kind = "RELEASE" PROVE FALSE
      OBVIOUS
    <3>1. PICK j \in DOMAIN x2[e][f] : k = x2[e][f][j]
      BY DEF Wire, WireOf
    <3>2. j < 1
      BY <2>first, <3>1
    <3>3. x2[e][f] \in Seq(Message)
      BY <1>types DEF Queues
    <3>4. j \in Nat /\ j >= 1
      BY <3>1, <3>3
    <3> QED BY <3>2, <3>4
  <2>7. \A d \in Context : state[d] = "HANDOVER_LEAVING" => Released(d)
    <3>1. r.kind = "REQUEST" /\ r \in Wire(e, f)
      BY <1>1, <2>1, Zenon
    <3>2. \A d \in Context : ~Undecided(d)
      BY <3>1 DEF Undecided
    <3> QED BY <3>2 DEF ReturnInv, LeaveInv
  <2> HIDE DEF r
  <2>8. Single(x2') /\ AskedInv'
    BY <2>4, <2>5 DEF ReturnInv, AskedInv, Follows
  <2>9. JoinInv'
    BY <1>1, <1>3, <1>types, <2>1, <2>2 DEF JoinInv, Alone
  <2>10. ASSUME NEW c \in Context, NEW d \in Context, c < d, state'[c] = "none"
         PROVE  state'[d] = "none"
    <3>1. state[c] = "none" /\ c # new
      BY <1>1, <1>3, <1>types, <2>10
    <3>2. d # new
      <4>1. c \in Nat /\ c >= 1 /\ d \in Nat
        BY X2Assumption DEF Context
      <4>2. d = new => c \in 1..new - 1
        BY <2>10, <4>1
      <4>3. \A k \in 1..new - 1 : state[k] # "none"
        BY <1>1
      <4> QED BY <3>1, <4>2, <4>3
    <3> QED BY <1>3, <1>types, <2>10, <3>1, <3>2 DEF ReturnInv, NumberInv
  <2>11. ASSUME NEW d \in Context, state'[d] = "HANDOVER_LEAVING" PROVE Released(d)'
    <3>1. state[d] = "HANDOVER_LEAVING" /\ d # new
      BY <1>1, <1>3, <2>11, <1>types
    <3>2. Released(d) /\ enb'[d] = enb[d] /\ enb[d] \in Enb
      BY <1>3, <2>7, <3>1, <1>types
    <3> QED BY <2>4, <3>2 DEF Released, Follows, Wire
  <2>12. ASSUME NEW a \in Context, NEW d \in Context, Live(a)', Live(d)', enb'[a] = enb'[d], a < d
         PROVE  (state[a] = "HANDOVER_LEAVING" /\ Elsewhere(a, d))'
    <3>1. CASE d = new
      <4>1. Live(a) /\ a # new /\ enb[a] = f /\ state'[a] = state[a] /\ enb'[a] = f
        BY <1>3, <2>12, <3>1, <1>types DEF Live, Context
      <4>2. a # old
        BY <2>1, <2>2, <4>1
      <4>3. state[a] = "HANDOVER_LEAVING"
        BY <2>1, <4>1, <4>2 DEF Alone, Live, States
      <4>4. PICK g \in Enb : \E k \in Wire(g, f) : k.kind = "RELEASE" /\ k.old = a
        BY <2>7, <4>1, <4>3 DEF Released
      <4>5. g # e /\ \E k \in Wire(g, f)' : k.kind = "RELEASE" /\ k.old = a
        BY <2>4, <2>6, <4>4 DEF Follows, Wire
      <4>6. enb'[source'[d]] = e
        BY <1>3, <2>2, <3>1, <1>types
      <4> QED BY <4>1, <4>3, <4>5, <4>6 DEF Elsewhere
    <3>2. CASE a = new
      <4>1. d # new /\ state[d] # "none"
        BY <1>3, <2>12, <3>2, <1>types DEF Live, States, Context
      <4> QED BY <1>1, <2>12, <3>2, <4>1 DEF ReturnInv, NumberInv
    <3>3. CASE a # new /\ d # new
      <4>1. /\ Live(a) /\ Live(d) /\ enb'[a] = enb[a] /\ enb'[d] = enb[d]
            /\ state'[a] = state[a] /\ source'[d] = source[d]
        BY <1>3, <2>12, <3>3, <1>types DEF Live
      <4>2. state[a] = "HANDOVER_LEAVING" /\ Elsewhere(a, d)
        BY <2>12, <4>1 DEF ReturnInv, FormerInv
      <4>3. source[d] # new
        <5>0. new # None
          BY X2Assumption DEF None, Context
        <5>1. state[new] = "none" /\ new # None
          BY <1>1, <5>0, Zenon
        <5>2. source[d] # None => state[source[d]] # "none"
          BY DEF HandoverInv, ContextInv
        <5> QED BY <5>1, <5>2
      <4>4. enb'[source'[d]] = enb[source[d]]
        BY <1>3, <4>1, <4>3, <1>types
      <4> QED BY <2>4, <4>1, <4>2, <4>4, <1>types DEF Elsewhere, Follows, Wire
    <3> QED BY <3>1, <3>2, <3>3
  <2> QED BY <2>8, <2>9, <2>10, <2>11, <2>12 DEF ReturnInv, LeaveInv, FormerInv, NumberInv
<1> QED BY <1>1, <1>2, <1>3

\* The other messages of X2.
LEMMA OthersReturn ==
  ASSUME HandoverInv, ReturnInv, NEW e \in Enb, NEW f \in Enb,
         RefuseRequest(e, f) \/ ReceiveCancel(e, f) \/ ReceiveData(e, f)
  PROVE  ReturnInv'
<1> DEFINE m == Head(x2[e][f])
<1>1. UNCHANGED <<state, enb, source>>
  BY DEF RefuseRequest, ReceiveCancel, ReceiveData, Abort, enbVars
<1>2. /\ x2[e][f] # << >> /\ m.kind \in {"REQUEST", "CANCEL", "DATA"}
      /\ m \in Message /\ Timely(e, f, m)
  BY TakenFacts DEF RefuseRequest, ReceiveCancel, ReceiveData, Arrives
<1>3. Follows(x2, Taken(e, f))
  BY <1>2, TakenFollows
<1>4. CASE RefuseRequest(e, f)
  <2>1. Msg("FAILURE", m.old, None) \in Message /\ Msg("FAILURE", m.old, None).kind = "FAILURE"
    BY <1>2, MessageIs DEF Message, Kinds, Msg
  <2>2. x2' = Sent(Taken(e, f), f, e, Msg("FAILURE", m.old, None))
    BY <1>4 DEF RefuseRequest
  <2>3. Follows(x2, x2')
    BY <1>2, <2>1, <2>2, TakenSentFollows
  <2> QED BY <1>1, <2>3, FollowsKeeps
<1>5. CASE x2' \in {x2, Taken(e, f)}
  BY <1>1, <1>3, <1>5, SameFollows, FollowsKeeps
<1>6. CASE ReceiveData(e, f) /\ x2' \notin {x2, Taken(e, f)}
  <2>1. PICK c : c = x2u[f]
    OBVIOUS
  <2>2. /\ c # None /\ state[c] = "HANDOVER_LEAVING" /\ m.kind = "DATA"
        /\ x2' = Sent(Taken(e, f), f, enb[target[c]], m)
    BY <1>6, <2>1 DEF ReceiveData, Arrives, Abort
  <2>3. enb[target[c]] \in Enb
    BY <2>1, <2>2, SameTypes DEF HandoverInv, ContextInv, TypeInv
  <2>4. Follows(x2, x2')
    BY <1>2, <2>2, <2>3, TakenSentFollows
  <2> QED BY <1>1, <2>4, FollowsKeeps
<1> QED BY <1>4, <1>5, <1>6 DEF ReceiveCancel, Abort

\* Timeouts and data forwarded send neither requests nor releases, and the UE only asks for
\* contexts to be removed.
LEMMA TimersReturn ==
  ASSUME HandoverInv, ReturnInv, NEW c \in Context,
         ForwardData(c) \/ HandoverLeavingTimeout(c) \/ HandoverJoiningTimeout(c) \/ ReceiveRemoval(c)
  PROVE  ReturnInv'
<1>types. /\ state \in [Context -> States \cup {"none", "removed"}] /\ x2 \in Queues
          /\ enb[c] \in Enb /\ target \in [Context -> Context \cup {None}]
  BY SameTypes DEF HandoverInv, TypeInv
<1>1. CASE ForwardData(c)
  <2>1. /\ enb[target[c]] \in Enb /\ UNCHANGED <<state, enb, source>>
        /\ x2' = Sent(x2, enb[c], enb[target[c]], Msg("DATA", None, None))
    BY <1>1, SameTypes DEF ForwardData, enbVars, HandoverInv, ContextInv
  <2>2. Msg("DATA", None, None) \in Message /\ Msg("DATA", None, None).kind = "DATA"
    BY MessageIs DEF Kinds, Msg
  <2>3. Follows(x2, x2')
    BY <1>types, <2>1, <2>2, SentFollows
  <2> QED BY <2>1, <2>3, FollowsKeeps
<1>2. CASE HandoverLeavingTimeout(c)
  <2>1. state[c] = "HANDOVER_LEAVING" /\ target[c] \in Context
    BY <1>2 DEF HandoverLeavingTimeout, HandoverInv, TimersMatchStates, ContextInv
  <2>2. RemoveUe(c) /\ x2' = Sent(x2, enb[c], enb[target[c]], Msg("CANCEL", c, target[c]))
    BY <1>2, <2>1 DEF HandoverLeavingTimeout, SendRrcConnectionRelease
  <2>3. Msg("CANCEL", c, target[c]) \in Message /\ Msg("CANCEL", c, target[c]).kind = "CANCEL"
    BY <2>1, MessageIs DEF Kinds, Msg
  <2>4. Follows(x2, x2') /\ Live(c)
    BY <1>types, <2>1, <2>2, <2>3, SameTypes, SentFollows DEF Live, States
  <2> QED BY <2>2, <2>4, RemoveUeRemoves, FollowsKeeps
<1>3. CASE HandoverJoiningTimeout(c)
  <2>1. state[c] = "HANDOVER_JOINING"
    BY <1>3 DEF HandoverJoiningTimeout, HandoverInv, TimersMatchStates
  <2>2. RemoveUe(c) /\ x2' = FailureSent(c) /\ Live(c)
    BY <1>3, <2>1 DEF HandoverJoiningTimeout, Live, States
  <2>3. Follows(x2, x2')
    BY <2>1, <2>2, FailureSentFollows
  <2> QED BY <2>2, <2>3, RemoveUeRemoves, FollowsKeeps
<1>4. CASE ReceiveRemoval(c)
  <2>1. CASE ~Live(c)
    <3>1. UNCHANGED <<state, enb, source, x2>>
      BY <1>4, <2>1 DEF ReceiveRemoval, enbVars
    <3> QED BY <3>1, SameFollows, FollowsKeeps
  <2>2. CASE Live(c)
    <3>1. RemoveUe(c)
      BY <1>4, <2>2 DEF ReceiveRemoval
    <3>2. Follows(x2, x2')
      <4>1. CASE state[c] = "HANDOVER_JOINING"
        BY <1>4, <2>2, <4>1, FailureSentFollows DEF ReceiveRemoval
      <4>2. CASE state[c] # "HANDOVER_JOINING"
        BY <1>4, <2>2, <4>2, SameFollows DEF ReceiveRemoval
      <4> QED BY <4>1, <4>2
    <3> QED BY <2>2, <3>1, <3>2, RemoveUeRemoves, FollowsKeeps
  <2> QED BY <2>1, <2>2
<1> QED BY <1>1, <1>2, <1>3, <1>4

\* One case per action.
LEMMA NextReturns == HandoverInv /\ ReturnInv /\ [Next]_vars => ReturnInv'
<1> SUFFICES ASSUME HandoverInv, ReturnInv, [Next]_vars PROVE ReturnInv'
  OBVIOUS
<1>1. ASSUME NEW e \in Enb, NEW f \in Enb, X2Delivers(e, f) PROVE ReturnInv'
  BY <1>1, AcceptRequestReturns, ReceiveAckReturns, ReceiveFailureReturns,
     ReceiveContextReleaseReturns, OthersReturn DEF X2Delivers
<1>2. ASSUME NEW c \in Context, NEW e \in Enb, TriggerHandover(c, e) PROVE ReturnInv'
  BY <1>2, TriggerHandoverReturns
<1>3. ASSUME NEW c \in Context,
             \/ ForwardData(c) \/ HandoverLeavingTimeout(c) \/ HandoverJoiningTimeout(c)
             \/ ReceiveCompleted(c) \/ ReceivePathSwitchAck(c) \/ ReceiveRemoval(c)
             \/ ReceiveReconfiguration(c)
      PROVE  ReturnInv'
  <2>1. CASE ReceiveReconfiguration(c)
    BY <2>1, SameFollows, FollowsKeeps DEF ReceiveReconfiguration, enbVars
  <2> QED BY <1>3, <2>1, TimersReturn, ReceiveCompletedReturns, ReceivePathSwitchAckReturns
<1>4. ASSUME UNCHANGED <<state, enb, source, x2>> PROVE ReturnInv'
  BY <1>4, SameFollows, FollowsKeeps
<1>5. ASSUME NEW c \in Context, NEW n \in Context, ReceiveCommand(c, n) PROVE ReturnInv'
  BY <1>4, <1>5 DEF ReceiveCommand, enbVars
<1>6. CASE RandomAccessEnds \/ RadioLinkFailure \/ ReceiveRelease
  BY <1>4, <1>6 DEF RandomAccessEnds, RandomAccessSucceeds, RandomAccessFails, RadioLinkFailure,
                    ReceiveRelease, Leave, enbVars
<1>7. CASE UNCHANGED vars
  BY <1>4, <1>7 DEF vars, enbVars
<1> QED BY <1>1, <1>2, <1>3, <1>5, <1>6, <1>7 DEF Next

\* At first there is one context and nothing is under way.
LEMMA InitReturns == Init => ReturnInv
<1> SUFFICES ASSUME Init PROVE ReturnInv
  OBVIOUS
<1>1. \A e, f \in Enb : x2[e][f] = << >> /\ Wire(e, f) = {}
  BY DEF Init, Wire, WireOf
<1>2. \A c \in Context : state[c] = IF c = 1 THEN "CONNECTED_NORMALLY" ELSE "none"
  BY DEF Init
<1>3. Single(x2) /\ AskedInv
  BY <1>1 DEF Single, AskedInv
<1>4. JoinInv /\ LeaveInv
  BY <1>2 DEF JoinInv, LeaveInv
<1>5. NumberInv /\ FormerInv
  BY <1>2 DEF NumberInv, FormerInv, Live, States, Context
<1> QED BY <1>3, <1>4, <1>5 DEF ReturnInv

\* The invariant that OneContextOfUe is read from.
LEMMA ReturnInvHolds == Spec => [](HandoverInv /\ ReturnInv)
BY InitHolds, InitReturns, NextKeeps, NextReturns, PTL DEF Spec

-----------------------------------------------------------------------------
(* The theorems.                                                           *)

\* Contexts, timers, messages and what the UE waits for keep their types, whatever is
\* sent and taken.
THEOREM TypeCorrect == Spec => []TypeOK
<1>1. HandoverInv => TypeOK
  <2> SUFFICES ASSUME HandoverInv PROVE TypeOK
    OBVIOUS
  <2>1. \A e, f \in Enb : \A i \in DOMAIN x2[e][f] : x2[e][f][i] \in Message
    <3>1. \A e, f \in Enb : x2[e][f] \in Seq(Message)
      BY SameTypes DEF Queues
    <3> QED BY <3>1
  <2>2. Messages \subseteq Message
    BY <2>1 DEF Messages
  <2> QED BY <2>2 DEF HandoverInv, TypeInv, TypeOK, Message
<1> QED BY <1>1, HandoverInvHolds, PTL

\* HandoverJoiningTimeout and HandoverLeavingTimeout never run for a context that has
\* moved on, and no leaving context is left without a timer.
THEOREM TimersAreRight == Spec => []TimersMatchStates
<1>1. HandoverInv => TimersMatchStates
  BY DEF HandoverInv
<1> QED BY <1>1, HandoverInvHolds, PTL

\* What DoRecvHandoverPreparationFailure, DoRecvUeContextRelease, SendUeContextRelease and
\* RecvRrcConnectionReconfigurationCompleted are given is for a context that waits for it:
\* their fatal errors for any other state are never met.
THEOREM MessagesAreAwaited == Spec => []MessagesAwaited
<1>1. HandoverInv => MessagesAwaited
  <2> SUFFICES ASSUME HandoverInv PROVE MessagesAwaited
    OBVIOUS
  <2>1. ASSUME NEW m \in Messages
        PROVE  /\ m.kind \in {"REQUEST", "ACK"} /\ Live(m.old)
                    => state[m.old] = "HANDOVER_PREPARATION"
               /\ m.kind = "FAILURE" /\ Live(m.old)
                    => state[m.old] \in {"HANDOVER_PREPARATION", "HANDOVER_LEAVING"}
               /\ m.kind = "RELEASE" /\ Live(m.old) => state[m.old] = "HANDOVER_LEAVING"
    <3>1. PICK e \in Enb, f \in Enb : m \in Wire(e, f)
      BY DEF Messages, Wire, WireOf
    <3>2. Timely(e, f, m)
      BY <3>1 DEF HandoverInv, MessageInv
    <3> QED BY <3>2 DEF Timely, RequestInv, AckInv, FailureInv, ReleaseInv, Gone, Live, States
  <2>2. \A c \in completed :
          Live(c) => state[c] \in {"HANDOVER_JOINING", "CONNECTION_RECONFIGURATION"}
    BY DEF HandoverInv, ContextInv, TypeInv
  <2>3. \A c \in pathSwitch : Live(c) => state[c] = "HANDOVER_PATH_SWITCH"
    BY DEF HandoverInv, ContextInv, Live, States
  <2> QED BY <2>1, <2>2, <2>3 DEF MessagesAwaited
<1> QED BY <1>1, HandoverInvHolds, PTL

\* A UE in connected mode whose context is gone is never forgotten: the RRC CONNECTION
\* RELEASE that tells it is pending, or its source waits with the timer that sends it.
THEOREM UeIsTold == Spec => []UeWillBeTold
<1>1. HandoverInv => UeWillBeTold
  <2> SUFFICES ASSUME HandoverInv, ue.state # "left", ~Live(ue.context)
               PROVE  release \/ (source[ue.context] # None /\ state[source[ue.context]] = "HANDOVER_LEAVING")
    BY DEF UeWillBeTold
  <2>1. state[ue.context] \in States \cup {"none", "removed"} /\ ue.context \in Context
    BY SameTypes DEF HandoverInv, TypeInv
  <2>2. state[ue.context] = "removed"
    BY <2>1 DEF HandoverInv, UeInv, Live
  <2> QED BY <2>2 DEF HandoverInv, ToldInv, SourceTells
<1> QED BY <1>1, HandoverInvHolds, PTL

\* No two contexts serve the UE, in whatever order the handover messages, the timers and
\* the UE's own steps come.
THEOREM OneEnbServes == Spec => []OneServes
<1>1. HandoverInv => OneServes
  BY DEF HandoverInv, ServeInv
<1> QED BY <1>1, HandoverInvHolds, PTL

\* One eNB serves the UE, and when the UE comes back to an eNB that has not yet released its former
\* context, as the release is still under way on another link, this one is leaving: of two
\* contexts of the UE at one eNB it is always known which one is meant.
THEOREM OneContextOfUe == Spec => []OneContextServes
<1>1. HandoverInv /\ ReturnInv => OneContextServes
  <2> SUFFICES ASSUME HandoverInv, ReturnInv, NEW c \in Context, NEW d \in Context,
                      Live(c), Live(d), enb[c] = enb[d], c < d
               PROVE  /\ state[c] = "HANDOVER_LEAVING"
                      /\ \E f \in Enb \ {enb[source[d]]} : \E i \in DOMAIN x2[f][enb[c]] :
                           x2[f][enb[c]][i].kind = "RELEASE" /\ x2[f][enb[c]][i].old = c
    BY DEF OneContextServes, HandoverInv, ServeInv
  <2>1. state[c] = "HANDOVER_LEAVING" /\ Elsewhere(c, d)
    BY DEF ReturnInv, FormerInv
  <2> QED BY <2>1 DEF Elsewhere, Wire, WireOf
<1> QED BY <1>1, ReturnInvHolds, PTL

\* Assertions and fatal errors: of a timeout that runs for a context in another state, of a
\* failure, a release or a completion that finds its context in one.
NoTimelyAbort == aborted \notin
  {"joining timeout", "leaving timeout", "failed context", "released context", "completed context"}

\* The program never ends in one of these: as long as no other reconfiguration, for bearers
\* that come or go, is asked for, the default cases of DoRecvHandoverPreparationFailure and
\* RecvRrcConnectionReconfigurationCompleted, the assertions of DoRecvUeContextRelease and
\* of the two timeouts are dead code.
THEOREM TimelyHandlersNeverAbort == Spec => []NoTimelyAbort
<1>1. Init => NoTimelyAbort
  BY DEF Init, NoTimelyAbort
<1>2. HandoverInv /\ NoTimelyAbort /\ [Next]_vars => NoTimelyAbort'
  <2> SUFFICES ASSUME HandoverInv, NoTimelyAbort, [Next]_vars
               PROVE  NoTimelyAbort'
    OBVIOUS
  <2>1. CASE UNCHANGED vars
    BY <2>1 DEF vars, NoTimelyAbort
  <2>2. ASSUME NEW e \in Enb, NEW f \in Enb, X2Delivers(e, f), aborted = "no"
        PROVE  NoTimelyAbort'
    <3>1. CASE RefuseRequest(e, f) \/ AcceptRequest(e, f)
      BY <2>2, <3>1 DEF NoTimelyAbort, RefuseRequest, AcceptRequest, Abort
    <3>2. CASE ReceiveAck(e, f) \/ ReceiveCancel(e, f) \/ ReceiveData(e, f)
      BY <2>2, <3>2 DEF NoTimelyAbort, ReceiveAck, ReceiveCancel, ReceiveData, Abort
    <3>3. CASE ReceiveFailure(e, f)
      <4>1. Timely(e, f, Head(x2[e][f])) /\ Head(x2[e][f]).kind = "FAILURE"
        BY <3>3, TakenFacts DEF ReceiveFailure, Arrives
      <4>2. ~(Live(Head(x2[e][f]).old)
              /\ state[Head(x2[e][f]).old] \notin {"HANDOVER_PREPARATION", "HANDOVER_LEAVING"})
        BY <4>1 DEF Timely, FailureInv, Live, States
      <4> QED BY <2>2, <3>3, <4>2 DEF ReceiveFailure, NoTimelyAbort
    <3>4. CASE ReceiveContextRelease(e, f)
      <4>1. Timely(e, f, Head(x2[e][f])) /\ Head(x2[e][f]).kind = "RELEASE"
        BY <3>4, TakenFacts DEF ReceiveContextRelease, Arrives
      <4>2. ~(Live(Head(x2[e][f]).old) /\ state[Head(x2[e][f]).old] # "HANDOVER_LEAVING")
        BY <4>1 DEF Timely, ReleaseInv, Gone, Live, States
      <4> QED BY <2>2, <3>4, <4>2 DEF ReceiveContextRelease, NoTimelyAbort
    <3> QED BY <2>2, <3>1, <3>2, <3>3, <3>4 DEF X2Delivers
  <2>3. ASSUME NEW c \in Context, aborted = "no",
               \/ ForwardData(c) \/ ReceivePathSwitchAck(c) \/ ReceiveRemoval(c)
               \/ \E e \in Enb : TriggerHandover(c, e)
               \/ ReceiveReconfiguration(c) \/ \E n \in Context : ReceiveCommand(c, n)
        PROVE  NoTimelyAbort'
    BY <2>3 DEF ForwardData, ReceivePathSwitchAck, ReceiveRemoval, TriggerHandover,
                ReceiveReconfiguration, ReceiveCommand, Abort, NoTimelyAbort
  <2>4. ASSUME NEW c \in Context, aborted = "no",
               HandoverLeavingTimeout(c) \/ HandoverJoiningTimeout(c) \/ ReceiveCompleted(c)
        PROVE  NoTimelyAbort'
    <3>1. /\ c \in joining => state[c] = "HANDOVER_JOINING"
          /\ c \in leaving => state[c] = "HANDOVER_LEAVING"
          /\ c \in completed => state[c] \in {"HANDOVER_JOINING", "CONNECTION_RECONFIGURATION"}
      BY DEF HandoverInv, TimersMatchStates, ContextInv
    <3> QED BY <2>4, <3>1 DEF HandoverLeavingTimeout, HandoverJoiningTimeout, ReceiveCompleted,
                           NoTimelyAbort
  <2>5. CASE aborted = "no" /\ (RandomAccessEnds \/ RadioLinkFailure \/ ReceiveRelease)
    BY <2>5 DEF RandomAccessEnds, RandomAccessSucceeds, RandomAccessFails, RadioLinkFailure,
                ReceiveRelease, Leave, NoTimelyAbort
  <2> QED BY <2>1, <2>2, <2>3, <2>4, <2>5 DEF Next
<1> QED BY <1>1, <1>2, HandoverInvHolds, PTL DEF Spec

=============================================================================

----------------------------- MODULE NullMessageSync -----------------------------
(***************************************************************************)
(* NullMessageSimulatorImpl: a simulation divided among MPI ranks that are *)
(* kept in step by guarantees.  Every message a rank sends, a packet or a  *)
(* null message, promises its neighbour a time before which no further     *)
(* packet will arrive; a rank executes an event only when all its          *)
(* neighbours' guarantees reach that far, and else blocks for a message.   *)
(* Packets leave through the point-to-point devices of the remote links.   *)
(*                                                                         *)
(* An event is a record [ts, kind, of]; ties, which the event list breaks  *)
(* by uid, are broken either way here.  MPI keeps the messages between two *)
(* ranks in order.  A packet is its receive time and its link; rx = 0 is a *)
(* null message, as on the wire.                                           *)
(***************************************************************************)
EXTENDS Integers, Sequences, FiniteSets

CONSTANTS
  Rank,      \* the MPI ranks
  Link,      \* the remote point-to-point links
  Ends,      \* the two ranks of each link
  LinkDelay, \* the delay of each link
  TxTimes,   \* transmission times of packets
  Gap,       \* the devices' interframe gap
  Tune,      \* the attribute SchedulerTune, in percent
  StopTime,  \* when every rank calls Simulator::Stop
  AppTimes,  \* times of the events that each rank's applications schedule before Run
  AppDelays, \* delays that handlers pass to Schedule
  MaxSends   \* bound: packets that the handlers of each rank send

Neighbours(r) == { s \in Rank \ {r} : \E l \in Link : Ends[l] = {r, s} }
Bundle(r, s) == { l \in Link : Ends[l] = {r, s} }
Peer(r, l) == CHOOSE s \in Ends[l] : s # r

\* RemoteChannelBundle::AddChannel: the least delay of the bundle's channels.
BundleDelay(r, s) ==
  CHOOSE d \in { LinkDelay[l] : l \in Bundle(r, s) } :
    \A l \in Bundle(r, s) : d <= LinkDelay[l]

NullDelay(r, s) == (Tune * BundleDelay(r, s)) \div 100

ASSUME NullMessageAssumption ==
  /\ \A l \in Link : \E r, s \in Rank : r # s /\ Ends[l] = {r, s}
  /\ LinkDelay \in [Link -> Nat \ {0}]
  /\ TxTimes \subseteq Nat \ {0} /\ Gap \in Nat
  /\ Tune \in 1..100 /\ \A r \in Rank : \A s \in Neighbours(r) : NullDelay(r, s) > 0
  /\ StopTime \in Nat \ {0} /\ AppTimes \in [Rank -> SUBSET Nat] /\ AppDelays \subseteq Nat
  /\ MaxSends \in [Rank -> Nat]

VARIABLES
  now,       \* m_currentTs of each rank
  events,    \* m_events
  stop,      \* m_stop
  safe,      \* m_safeTime
  guarantee, \* m_guaranteeTime of the bundles: guarantee[r][s], what s promised r
  busy,      \* busy[r]: links whose device at r is transmitting
  queued,    \* queued[r][l]: packets waiting in that device's queue
  channel,   \* channel[<<s, r>>]: messages under way from s to r
  pc,        \* where each rank is
  sent       \* packets the handlers of a rank have sent

simVars == <<now, events, stop, safe>>
devVars == <<busy, queued, sent>>
vars == <<simVars, guarantee, devVars, channel, pc>>

\* Before Run, at the loop test, in a handler of an application, receiving
\* what has arrived, after Run.
PCs == {"start", "loop", "handler", "poll", "done"}

Lesser(a, b) == IF a <= b THEN a ELSE b

\* The time of Next() in the event list E.
Earliest(E) == CHOOSE t \in { e.ts : e \in E } : \A e \in E : t <= e.ts

Event(t, kind, of) == [ts |-> t, kind |-> kind, of |-> of]

-----------------------------------------------------------------------------
(* Guarantees and null messages.                                           *)

\* Mutant: what may still arrive at r itself is forgotten.
MutGuaranteeTime(r, s, E) == Earliest(E) + BundleDelay(r, s)

\* CalculateGuaranteeTime, with the event list E.
GuaranteeTime(r, s, E) == Lesser(Earliest(E), safe[r]) + BundleDelay(r, s)

\* Mutant: the null message is not sent again.
MutWithNullEvent(r, s, t, E) == E

\* ScheduleNullMessageEvent at time t.
WithNullEvent(r, s, t, E) == E \cup {Event(t + NullDelay(r, s), "null", s)}

\* Simulator::Cancel of the bundle's null event: it stays in the list.
NullCancelled(s, E) ==
  { IF e.kind = "null" /\ e.of = s THEN [e EXCEPT !.kind = "void"] ELSE e : e \in E }

\* PointToPointNetDevice::TransmitStart at time t with the event list E, and
\* SendPacket of the remote channel.
TransmitStart(r, l, tx, t, E) ==
  LET s == Peer(r, l)
      E1 == E \cup {Event(t + tx + Gap, "complete", l)}
      m == [rx |-> t + tx + LinkDelay[l], link |-> l, guarantee |-> GuaranteeTime(r, s, E1)]
  IN /\ events' = [events EXCEPT ![r] = WithNullEvent(r, s, t, NullCancelled(s, E1))]
     /\ channel' = [channel EXCEPT ![<<r, s>>] = Append(@, m)]

Goto(r, p, q) == pc[r] = p /\ pc' = [pc EXCEPT ![r] = q]

NullMessage(g) == [rx |-> 0, link |-> 0, guarantee |-> g]

\* Run up to the loop: InitializeNullMessageEvents.
Start(r) ==
  /\ Goto(r, "start", "loop")
  /\ channel' = [p \in DOMAIN channel |->
       IF p[1] = r THEN Append(channel[p], NullMessage(BundleDelay(r, p[2]))) ELSE channel[p]]
  /\ events' = [events EXCEPT ![r] = @ \cup
       { Event(NullDelay(r, s), "null", s) : s \in Neighbours(r) }]
  /\ stop' = [stop EXCEPT ![r] = FALSE]
  /\ UNCHANGED <<now, safe, guarantee, devVars>>

-----------------------------------------------------------------------------
(* ProcessOneEvent: one action for each kind of event.                     *)

IsFinished(r) == stop[r] \/ events[r] = {}

\* Mutant: the safe time is not looked at.
MutProcess(r, e) ==
  /\ ~IsFinished(r)
  /\ e \in events[r] /\ e.ts = Earliest(events[r])
  /\ now' = [now EXCEPT ![r] = e.ts]
  /\ UNCHANGED <<safe, guarantee>>

\* The next event, when it is safe to execute it.
Process(r, e) ==
  /\ ~IsFinished(r)
  /\ e \in events[r] /\ e.ts = Earliest(events[r]) /\ e.ts <= safe[r]
  /\ now' = [now EXCEPT ![r] = e.ts]
  /\ UNCHANGED <<safe, guarantee>>

\* A cancelled event, or one that calls Simulator::Stop.
PlainEvent(r, e) ==
  /\ Goto(r, "loop", "poll")
  /\ Process(r, e)
  /\ e.kind \in {"void", "stop"}
  /\ events' = [events EXCEPT ![r] = @ \ {e}]
  /\ stop' = [stop EXCEPT ![r] = @ \/ e.kind = "stop"]
  /\ UNCHANGED <<devVars, channel>>

NullMessageEvent(r, e) ==
  LET E == events[r] \ {e} IN
  /\ Goto(r, "loop", "poll")
  /\ Process(r, e)
  /\ e.kind = "null"
  /\ channel' = [channel EXCEPT ![<<r, e.of>>] =
                   Append(@, NullMessage(GuaranteeTime(r, e.of, E)))]
  /\ events' = [events EXCEPT ![r] = WithNullEvent(r, e.of, e.ts, E)]
  /\ UNCHANGED <<stop, devVars>>

\* Mutant: the device is ready even as it transmits its next packet.
MutTransmitComplete(r, e) ==
  /\ Goto(r, "loop", "poll")
  /\ Process(r, e)
  /\ e.kind = "complete"
  /\ busy' = [busy EXCEPT ![r] = @ \ {e.of}]
  /\ IF queued[r][e.of] = 0
     THEN /\ events' = [events EXCEPT ![r] = @ \ {e}]
          /\ UNCHANGED <<queued, channel>>
     ELSE /\ queued' = [queued EXCEPT ![r][e.of] = @ - 1]
          /\ \E tx \in TxTimes : TransmitStart(r, e.of, tx, e.ts, events[r] \ {e})
  /\ UNCHANGED <<stop, sent>>

\* TransmitComplete: the device is ready, or transmits its next packet.
TransmitComplete(r, e) ==
  /\ Goto(r, "loop", "poll")
  /\ Process(r, e)
  /\ e.kind = "complete"
  /\ IF queued[r][e.of] = 0
     THEN /\ busy' = [busy EXCEPT ![r] = @ \ {e.of}]
          /\ events' = [events EXCEPT ![r] = @ \ {e}]
          /\ UNCHANGED <<queued, channel>>
     ELSE /\ queued' = [queued EXCEPT ![r][e.of] = @ - 1]
          /\ \E tx \in TxTimes : TransmitStart(r, e.of, tx, e.ts, events[r] \ {e})
          /\ UNCHANGED busy
  /\ UNCHANGED <<stop, sent>>

\* An event of an application or the reception of a packet.
ApplicationEvent(r, e) ==
  /\ Goto(r, "loop", "handler")
  /\ Process(r, e)
  /\ e.kind \in {"app", "rx"}
  /\ events' = [events EXCEPT ![r] = @ \ {e}]
  /\ UNCHANGED <<stop, devVars, channel>>

\* PointToPointNetDevice::Send in a handler.
Send(r, l) ==
  /\ pc[r] = "handler" /\ r \in Ends[l]
  /\ sent[r] < MaxSends[r]
  /\ sent' = [sent EXCEPT ![r] = @ + 1]
  /\ IF l \in busy[r]
     THEN /\ queued' = [queued EXCEPT ![r][l] = @ + 1]
          /\ UNCHANGED <<busy, events, channel>>
     ELSE /\ busy' = [busy EXCEPT ![r] = @ \cup {l}]
          /\ \E tx \in TxTimes : TransmitStart(r, l, tx, now[r], events[r])
          /\ UNCHANGED queued
  /\ UNCHANGED <<now, stop, safe, guarantee, pc>>

\* Simulator::Schedule in a handler.
Schedule(r, d) ==
  /\ pc[r] = "handler"
  /\ now[r] + d <= StopTime
  /\ events' = [events EXCEPT ![r] = @ \cup {Event(now[r] + d, "app", 0)}]
  /\ UNCHANGED <<now, stop, safe, guarantee, devVars, channel, pc>>

\* Simulator::Cancel and Simulator::Remove, in a handler, of a pending event of
\* an application: a cancelled one stays in the list.
Cancel(r, e) ==
  /\ pc[r] = "handler"
  /\ e.kind = "app"
  /\ events' = [events EXCEPT ![r] = (@ \ {e}) \cup {[e EXCEPT !.kind = "void"]}]
  /\ UNCHANGED <<now, stop, safe, guarantee, devVars, channel, pc>>

Remove(r, e) ==
  /\ pc[r] = "handler"
  /\ e.kind = "app"
  /\ events' = [events EXCEPT ![r] = @ \ {e}]
  /\ UNCHANGED <<now, stop, safe, guarantee, devVars, channel, pc>>

HandlerReturns(r) ==
  /\ Goto(r, "handler", "poll")
  /\ UNCHANGED <<simVars, guarantee, devVars, channel>>

-----------------------------------------------------------------------------
(* Receiving.                                                              *)

\* Mutant: the guarantee that reaches farthest.
MutSafeTime(g) == CHOOSE t \in { g[s] : s \in DOMAIN g } : \A s \in DOMAIN g : t >= g[s]

\* RemoteChannelBundleManager::GetSafeTime, of a rank's guarantees g.
SafeTime(g) == CHOOSE t \in { g[s] : s \in DOMAIN g } : \A s \in DOMAIN g : t <= g[s]

\* ReceiveMessages, of the first n[s] messages from each neighbour s.  The
\* order among neighbours makes no difference.
Receive(r, n) ==
  LET Got(s) == SubSeq(channel[<<s, r>>], 1, n[s])
      Packets(s) == { Got(s)[i] : i \in { k \in 1..n[s] : Got(s)[k].rx > 0 } }
  IN
  /\ \A s \in Neighbours(r) : n[s] <= Len(channel[<<s, r>>])
  /\ events' = [events EXCEPT ![r] = @ \cup
       UNION { { Event(m.rx, "rx", m.link) : m \in Packets(s) } : s \in Neighbours(r) }]
  /\ guarantee' = [guarantee EXCEPT ![r] = [s \in Neighbours(r) |->
       IF n[s] = 0 THEN @[s] ELSE Got(s)[n[s]].guarantee]]
  /\ channel' = [p \in DOMAIN channel |->
       IF p[2] = r THEN SubSeq(channel[p], n[p[1]] + 1, Len(channel[p])) ELSE channel[p]]
  /\ safe' = [safe EXCEPT ![r] = SafeTime(guarantee'[r])]
  /\ UNCHANGED <<now, stop, devVars>>

\* HandleArrivingMessagesNonBlocking: what has arrived, any part of what was sent.
Poll(r) ==
  /\ Goto(r, "poll", "loop")
  /\ \E n \in [Neighbours(r) ->
               {0} \cup UNION { DOMAIN channel[<<s, r>>] : s \in Neighbours(r) }] :
       Receive(r, n)

\* HandleArrivingMessagesBlocking: one message.
Block(r) ==
  /\ pc[r] = "loop" /\ ~IsFinished(r)
  /\ Earliest(events[r]) > safe[r]
  /\ \E s \in Neighbours(r) : Receive(r, [q \in Neighbours(r) |-> IF q = s THEN 1 ELSE 0])
  /\ UNCHANGED pc

RunReturns(r) ==
  /\ Goto(r, "loop", "done")
  /\ IsFinished(r)
  /\ UNCHANGED <<simVars, guarantee, devVars, channel>>

-----------------------------------------------------------------------------
Pairs == { p \in Rank \X Rank : p[2] \in Neighbours(p[1]) }

Init ==
  /\ now = [r \in Rank |-> 0] /\ safe = [r \in Rank |-> 0]
  /\ events = [r \in Rank |-> {Event(StopTime, "stop", 0)} \cup
                               { Event(t, "app", 0) : t \in AppTimes[r] }]
  /\ stop = [r \in Rank |-> FALSE]
  /\ guarantee = [r \in Rank |-> [s \in Neighbours(r) |-> 0]]
  /\ busy = [r \in Rank |-> {}]
  /\ queued = [r \in Rank |-> [l \in { k \in Link : r \in Ends[k] } |-> 0]]
  /\ channel = [p \in Pairs |-> << >>]
  /\ pc = [r \in Rank |-> "start"]
  /\ sent = [r \in Rank |-> 0]

\* The steps that the program of rank r takes of itself.
Step(r) ==
  \/ Start(r) \/ HandlerReturns(r) \/ Poll(r) \/ Block(r) \/ RunReturns(r)
  \/ \E e \in events[r] : \/ PlainEvent(r, e) \/ NullMessageEvent(r, e)
                          \/ TransmitComplete(r, e) \/ ApplicationEvent(r, e)

Next ==
  \E r \in Rank :
    \/ Step(r)
    \/ \E l \in Link : Send(r, l)
    \/ \E d \in AppDelays : Schedule(r, d)
    \/ \E e \in events[r] : Cancel(r, e) \/ Remove(r, e)

Spec == Init /\ [][Next]_vars

\* Every rank's process keeps running.
FairSpec == Spec /\ \A r \in Rank : WF_vars(Step(r))

-----------------------------------------------------------------------------
(* Properties.                                                             *)

Kinds == {"app", "rx", "complete", "null", "void", "stop"}

\* Types of the variables, for the whole module; a device that transmits has
\* its completion in the event list, and only such a device queues packets.
TypeOK ==
  /\ now \in [Rank -> 0..StopTime] /\ safe \in [Rank -> Nat]
  /\ \A r \in Rank : \A e \in events[r] : e.ts \in Nat /\ e.kind \in Kinds
  /\ stop \in [Rank -> BOOLEAN] /\ pc \in [Rank -> PCs]
  /\ \A r \in Rank :
       /\ guarantee[r] \in [Neighbours(r) -> Nat]
       /\ busy[r] = { l \in Link : \E e \in events[r] : e.kind = "complete" /\ e.of = l }
       /\ \A l \in DOMAIN queued[r] : queued[r][l] \in Nat /\ (queued[r][l] > 0 => l \in busy[r])
  /\ \A p \in Pairs : \A i \in DOMAIN channel[p] :
       channel[p][i].rx \in Nat /\ channel[p][i].guarantee \in Nat

\* The promise a bundle makes (remote-channel-bundle.h: "No PacketMessage will
\* ever arrive ... with a ReceiveTime less than this"): every packet under way
\* keeps the guarantee its receiver holds and those of the messages before it.
GuaranteesKept ==
  \A p \in Pairs : \A i \in DOMAIN channel[p] :
    channel[p][i].rx > 0 =>
      /\ channel[p][i].rx >= guarantee[p[2]][p[1]]
      /\ \A j \in 1..i - 1 : channel[p][i].rx >= channel[p][j].guarantee

\* Nothing a rank has still to learn lies in its past: the assertions of
\* CalculateSafeTime, SetGuaranteeTime and ScheduleWithContext.
NoMessageInPast ==
  /\ \A r \in Rank : safe[r] >= now[r]
  /\ \A p \in Pairs : \A i \in DOMAIN channel[p] :
       /\ channel[p][i].guarantee >= now[p[2]]
       /\ channel[p][i].rx > 0 => channel[p][i].rx >= now[p[2]]

\* A rank whose run is over has executed everything due before the stop time:
\* no such event is left in its list and no such packet under way to it.
NothingLeftBehind ==
  \A r \in Rank : pc[r] = "done" =>
    /\ \A e \in events[r] : e.ts >= StopTime
    /\ \A s \in Neighbours(r) : \A i \in DOMAIN channel[<<s, r>>] :
         LET m == channel[<<s, r>>][i] IN m.rx > 0 => m.rx >= StopTime

\* The ranks never wait for each other for ever: all reach the stop time.
EveryRankStops == <>(\A r \in Rank : pc[r] = "done")

=============================================================================

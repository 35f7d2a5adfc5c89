--------------------------- MODULE DefaultSimulator ---------------------------
(***************************************************************************)
(* DefaultSimulatorImpl: the event loop of ns-3.  The main thread runs the *)
(* loop and, inside an event handler, calls the Simulator API; any other   *)
(* thread may post events with ScheduleWithContext, which go through a     *)
(* mutex-protected list that the main thread empties after every event.    *)
(*                                                                         *)
(* An EventId and the scheduler's Event are the same record                *)
(* [ts, uid, impl]; impl numbers the EventImpl objects in the order of     *)
(* their creation and stands for the pointer.  Contexts are abstracted.    *)
(***************************************************************************)
EXTENDS EventKey, Sequences, FiniteSets

CONSTANTS
  Delays,     \* the delays callers pass (0 is ScheduleNow)
  UidSpan,    \* number of values of the uint32_t m_uid: 2^32 in the code
  MaxEvents   \* bound: EventImpl objects created

\* EventId::UID
INVALID == 0
DESTROY == 2
VALID   == 4

ASSUME SimAssumption ==
  /\ Delays \subseteq Nat
  /\ MaxEvents \in Nat
  /\ UidSpan \in Nat
  /\ UidSpan > VALID + 1
  /\ UidSpan > MaxEvents

VARIABLES
  events,       \* m_events, the scheduler: a set ordered by Less
  cancelled,    \* impls with EventImpl::m_cancel set
  uid,          \* m_uid
  currentTs,    \* m_currentTs
  currentUid,   \* m_currentUid
  unscheduled,  \* m_unscheduledEvents
  remote,       \* m_eventsWithContext: records [delay, impl]
  remoteEmpty,  \* m_eventsWithContextEmpty
  destroyEvents,\* m_destroyEvents
  stop,         \* m_stop
  pc,           \* where the main thread is
  made,         \* number of EventImpl objects created so far
  stopImpls,    \* impls whose function is Simulator::Stop
  ids,          \* every EventId the API returned
  invoked,      \* history: impls whose function was called
  revoked       \* history: impls cancelled or removed before they were called

implVars == <<made, stopImpls, ids>>
histVars == <<invoked, revoked>>
vars == <<events, cancelled, uid, currentTs, currentUid, unscheduled, remote,
          remoteEmpty, destroyEvents, stop, pc, implVars, histVars>>

\* Positions of the main thread: outside Run ("idle"), at the ProcessEvents-
\* WithContext that opens Run or follows an event, at the loop test, in an
\* event handler, in Simulator::Destroy and in a handler it called.
PCs == {"idle", "runDrain", "drain", "loop", "handler",
        "destroying", "destroyHandler", "disposed"}

\* Unsigned wrap-around of a sum below 2 * UidSpan.
Wrap(u) == IF u >= UidSpan THEN u - UidSpan ELSE u

-----------------------------------------------------------------------------
(* EventId tests.                                                          *)

InDestroyList(id) == \E i \in 1..Len(destroyEvents) : destroyEvents[i] = id

\* Mutant: the current event itself counts as pending.
MutIsExpiredStrict(id) ==
  IF id.uid = DESTROY
  THEN id.impl \in cancelled \/ ~InDestroyList(id)
  ELSE \/ id.ts < currentTs
       \/ id.ts = currentTs /\ id.uid < currentUid
       \/ id.impl \in cancelled

\* Mutant: the tie is not looked at.
MutIsExpiredTie(id) ==
  IF id.uid = DESTROY
  THEN id.impl \in cancelled \/ ~InDestroyList(id)
  ELSE id.ts <= currentTs \/ id.impl \in cancelled

IsExpired(id) ==
  IF id.uid = DESTROY
  THEN id.impl \in cancelled \/ ~InDestroyList(id)
  ELSE \/ id.ts < currentTs
       \/ id.ts = currentTs /\ id.uid <= currentUid
       \/ id.impl \in cancelled

-----------------------------------------------------------------------------
(* The API, called by the main thread between runs or from a handler.      *)

CanCall == pc \in {"idle", "handler", "destroyHandler"}

Insert(e) ==
  /\ events' = events \cup {e}
  /\ uid' = Wrap(uid + 1)
  /\ unscheduled' = unscheduled + 1
  /\ made' = made + 1

\* Mutant: the delay is taken from the clock instead of added to it.
MutNewEvent(d) == [ts |-> d - currentTs, uid |-> uid, impl |-> made + 1]

NewEvent(d) == [ts |-> currentTs + d, uid |-> uid, impl |-> made + 1]

\* Simulator::Schedule and ScheduleNow.
Schedule(d) ==
  /\ CanCall /\ made < MaxEvents
  /\ Insert(NewEvent(d))
  /\ ids' = ids \cup {NewEvent(d)}
  /\ UNCHANGED <<cancelled, currentTs, currentUid, remote, remoteEmpty,
                 destroyEvents, stop, pc, stopImpls, histVars>>

\* Simulator::Stop(delay): an ordinary event that calls Simulator::Stop.
StopAt(d) ==
  /\ CanCall /\ made < MaxEvents
  /\ Insert(NewEvent(d))
  /\ ids' = ids \cup {NewEvent(d)}
  /\ stopImpls' = stopImpls \cup {made + 1}
  /\ UNCHANGED <<cancelled, currentTs, currentUid, remote, remoteEmpty,
                 destroyEvents, stop, pc, histVars>>

\* ScheduleWithContext on the main thread: no EventId comes back.
ScheduleWithContext(d) ==
  /\ CanCall /\ made < MaxEvents
  /\ Insert(NewEvent(d))
  /\ UNCHANGED <<cancelled, currentTs, currentUid, remote, remoteEmpty,
                 destroyEvents, stop, pc, stopImpls, ids, histVars>>

\* ScheduleDestroy: the id carries the reserved uid, m_uid advances all the same.
ScheduleDestroy ==
  LET id == [ts |-> currentTs, uid |-> DESTROY, impl |-> made + 1] IN
  /\ CanCall /\ made < MaxEvents
  /\ destroyEvents' = Append(destroyEvents, id)
  /\ ids' = ids \cup {id}
  /\ uid' = Wrap(uid + 1)
  /\ made' = made + 1
  /\ UNCHANGED <<events, cancelled, currentTs, currentUid, unscheduled, remote,
                 remoteEmpty, stop, pc, stopImpls, histVars>>

Revoke(id) == revoked' = IF id.impl \in invoked THEN revoked
                                                ELSE revoked \cup {id.impl}

Cancel(id) ==
  /\ CanCall
  /\ cancelled' = IF IsExpired(id) THEN cancelled ELSE cancelled \cup {id.impl}
  /\ Revoke(id)
  /\ UNCHANGED <<events, uid, currentTs, currentUid, unscheduled, remote,
                 remoteEmpty, destroyEvents, stop, pc, implVars, invoked>>

\* The list without its i-th element.
Erase(s, i) == [j \in 1..Len(s) - 1 |-> IF j < i THEN s[j] ELSE s[j + 1]]

\* Remove of an id with the reserved uid only looks in m_destroyEvents.
RemoveDestroy(id) ==
  /\ CanCall /\ id.uid = DESTROY
  /\ IF InDestroyList(id)
     THEN \E i \in 1..Len(destroyEvents) :
            destroyEvents[i] = id /\ destroyEvents' = Erase(destroyEvents, i)
     ELSE UNCHANGED destroyEvents
  /\ Revoke(id)
  /\ UNCHANGED <<events, cancelled, uid, currentTs, currentUid, unscheduled,
                 remote, remoteEmpty, stop, pc, implVars, invoked>>

\* Mutant: m_unscheduledEvents is not decremented.
MutRemoveNoCount(id) ==
  /\ CanCall /\ id.uid # DESTROY
  /\ IF IsExpired(id)
     THEN UNCHANGED <<events, cancelled>>
     ELSE events' = events \ {id} /\ cancelled' = cancelled \cup {id.impl}
  /\ Revoke(id)
  /\ UNCHANGED <<uid, currentTs, currentUid, unscheduled, remote, remoteEmpty,
                 destroyEvents, stop, pc, implVars, invoked>>

\* Mutant: every event of that time is erased.
MutRemoveTies(id) ==
  /\ CanCall /\ id.uid # DESTROY
  /\ IF IsExpired(id)
     THEN UNCHANGED <<events, cancelled, unscheduled>>
     ELSE /\ events' = { e \in events : e.ts # id.ts }
          /\ cancelled' = cancelled \cup {id.impl}
          /\ unscheduled' = unscheduled - 1
  /\ Revoke(id)
  /\ UNCHANGED <<uid, currentTs, currentUid, remote, remoteEmpty,
                 destroyEvents, stop, pc, implVars, invoked>>

Remove(id) ==
  /\ CanCall /\ id.uid # DESTROY
  /\ IF IsExpired(id)
     THEN UNCHANGED <<events, cancelled, unscheduled>>
     ELSE /\ events' = events \ {id}
          /\ cancelled' = cancelled \cup {id.impl}
          /\ unscheduled' = unscheduled - 1
  /\ Revoke(id)
  /\ UNCHANGED <<uid, currentTs, currentUid, remote, remoteEmpty,
                 destroyEvents, stop, pc, implVars, invoked>>

StopNow ==
  /\ CanCall
  /\ stop' = TRUE
  /\ UNCHANGED <<events, cancelled, uid, currentTs, currentUid, unscheduled,
                 remote, remoteEmpty, destroyEvents, pc, implVars, histVars>>

-----------------------------------------------------------------------------
(* Any other thread: the push and the flag are one critical section of        *)
(* m_eventsWithContextMutex.                                               *)

Post(d) ==
  /\ pc # "disposed" /\ made < MaxEvents
  /\ remote' = Append(remote, [delay |-> d, impl |-> made + 1])
  /\ remoteEmpty' = FALSE
  /\ made' = made + 1
  /\ UNCHANGED <<events, cancelled, uid, currentTs, currentUid, unscheduled,
                 destroyEvents, stop, pc, stopImpls, ids, histVars>>

-----------------------------------------------------------------------------
(* The loop.                                                               *)

Goto(p, q) == pc = p /\ pc' = q

Run ==
  /\ Goto("idle", "runDrain")
  /\ UNCHANGED <<events, cancelled, uid, currentTs, currentUid, unscheduled,
                 remote, remoteEmpty, destroyEvents, stop, implVars, histVars>>

\* The posted events, timed from the main thread's clock at the drain.
Arrivals == { [ts   |-> currentTs + remote[i].delay,
               uid  |-> Wrap(uid + i - 1),
               impl |-> remote[i].impl] : i \in 1..Len(remote) }

\* ProcessEventsWithContext.  The flag is read without the mutex; a thread
\* that posts between the read and the swap is an interleaving of Post, and
\* a read of the old value is a Post that comes later.
ProcessEventsWithContext ==
  IF remoteEmpty
  THEN UNCHANGED <<events, uid, unscheduled, remote, remoteEmpty>>
  ELSE /\ events' = events \cup Arrivals
       /\ uid' = Wrap(uid + Len(remote))
       /\ unscheduled' = unscheduled + Len(remote)
       /\ remote' = <<>>
       /\ remoteEmpty' = TRUE

DrainAtRun ==
  /\ Goto("runDrain", "loop")
  /\ ProcessEventsWithContext
  /\ stop' = FALSE
  /\ UNCHANGED <<cancelled, currentTs, currentUid, destroyEvents, implVars, histVars>>

Drain ==
  /\ Goto("drain", "loop")
  /\ ProcessEventsWithContext
  /\ UNCHANGED <<cancelled, currentTs, currentUid, destroyEvents, stop,
                 implVars, histVars>>

\* The part of ProcessOneEvent up to the handler.
Dequeue(e) ==
  /\ pc = "loop" /\ ~stop
  /\ IsEarliest(e, events)
  /\ events' = events \ {e}
  /\ unscheduled' = unscheduled - 1
  /\ currentTs' = e.ts
  /\ currentUid' = e.uid

\* EventImpl::Invoke of a cancelled event does nothing.
SkipCancelled(e) ==
  /\ Dequeue(e)
  /\ e.impl \in cancelled
  /\ pc' = "drain"
  /\ UNCHANGED <<cancelled, uid, remote, remoteEmpty, destroyEvents, stop,
                 implVars, histVars>>

\* Mutant: the cancelled flag is not tested.
MutInvoke(e) ==
  /\ Dequeue(e)
  /\ invoked' = invoked \cup {e.impl}
  /\ IF e.impl \in stopImpls THEN stop' = TRUE /\ pc' = "drain"
                             ELSE pc' = "handler" /\ UNCHANGED stop
  /\ UNCHANGED <<cancelled, uid, remote, remoteEmpty, destroyEvents, implVars, revoked>>

Invoke(e) ==
  /\ Dequeue(e)
  /\ e.impl \notin cancelled
  /\ invoked' = invoked \cup {e.impl}
  /\ IF e.impl \in stopImpls THEN stop' = TRUE /\ pc' = "drain"
                             ELSE pc' = "handler" /\ UNCHANGED stop
  /\ UNCHANGED <<cancelled, uid, remote, remoteEmpty, destroyEvents, implVars, revoked>>

\* Mutant: the posted events are not fetched after the handler.
MutHandlerReturns ==
  /\ Goto("handler", "loop") \/ Goto("destroyHandler", "destroying")
  /\ UNCHANGED <<events, cancelled, uid, currentTs, currentUid, unscheduled,
                 remote, remoteEmpty, destroyEvents, stop, implVars, histVars>>

HandlerReturns ==
  /\ Goto("handler", "drain") \/ Goto("destroyHandler", "destroying")
  /\ UNCHANGED <<events, cancelled, uid, currentTs, currentUid, unscheduled,
                 remote, remoteEmpty, destroyEvents, stop, implVars, histVars>>

RunReturns ==
  /\ Goto("loop", "idle")
  /\ events = {} \/ stop
  /\ UNCHANGED <<events, cancelled, uid, currentTs, currentUid, unscheduled,
                 remote, remoteEmpty, destroyEvents, stop, implVars, histVars>>

-----------------------------------------------------------------------------
(* Simulator::Destroy: run the destroy events, then dispose of the rest.   *)

Destroy ==
  /\ Goto("idle", "destroying")
  /\ UNCHANGED <<events, cancelled, uid, currentTs, currentUid, unscheduled,
                 remote, remoteEmpty, destroyEvents, stop, implVars, histVars>>

DestroyOne ==
  LET id == Head(destroyEvents) IN
  /\ pc = "destroying" /\ destroyEvents # <<>>
  /\ destroyEvents' = Tail(destroyEvents)
  /\ IF id.impl \in cancelled
     THEN UNCHANGED <<invoked, pc>>
     ELSE invoked' = invoked \cup {id.impl} /\ pc' = "destroyHandler"
  /\ UNCHANGED <<events, cancelled, uid, currentTs, currentUid, unscheduled,
                 remote, remoteEmpty, stop, implVars, revoked>>

\* DoDispose: the posted and the scheduled events are dropped unexecuted.
DoDispose ==
  /\ destroyEvents = <<>>
  /\ Goto("destroying", "disposed")
  /\ events' = {}
  /\ remote' = <<>> /\ remoteEmpty' = TRUE
  /\ uid' = Wrap(uid + Len(remote))
  /\ unscheduled' = unscheduled + Len(remote)
  /\ UNCHANGED <<cancelled, currentTs, currentUid, destroyEvents, stop,
                 implVars, histVars>>

-----------------------------------------------------------------------------
Init ==
  /\ events = {} /\ cancelled = {}
  /\ uid = VALID
  /\ currentTs = 0 /\ currentUid = INVALID
  /\ unscheduled = 0
  /\ remote = <<>> /\ remoteEmpty = TRUE
  /\ destroyEvents = <<>>
  /\ stop = FALSE
  /\ pc = "idle"
  /\ made = 0 /\ stopImpls = {} /\ ids = {}
  /\ invoked = {} /\ revoked = {}

Api ==
  \/ \E d \in Delays : Schedule(d) \/ StopAt(d) \/ ScheduleWithContext(d)
  \/ ScheduleDestroy
  \/ \E id \in ids : Cancel(id) \/ RemoveDestroy(id) \/ Remove(id)
  \/ StopNow

\* The steps the main thread takes on its own, without the user's program.
Loop ==
  \/ DrainAtRun \/ Drain
  \/ \E e \in events : SkipCancelled(e) \/ Invoke(e)
  \/ RunReturns

Next ==
  \/ Api
  \/ Loop
  \/ HandlerReturns
  \/ Run
  \/ Destroy \/ DestroyOne \/ DoDispose
  \/ \E d \in Delays : Post(d)

Spec == Init /\ [][Next]_vars

\* The thread that runs the loop keeps running, and handlers return.
FairSpec == Spec /\ WF_vars(Loop) /\ WF_vars(HandlerReturns)

-----------------------------------------------------------------------------
(* Properties.                                                             *)

Event == [ts : Nat, uid : 0..UidSpan - 1, impl : 1..MaxEvents]
Posted == [delay : Nat, impl : 1..MaxEvents]

\* Types of the variables, for the whole module.
TypeOK ==
  /\ events \in SUBSET Event /\ ids \in SUBSET Event
  /\ cancelled \in SUBSET (1..MaxEvents)
  /\ uid \in 0..UidSpan - 1 /\ currentUid \in 0..UidSpan - 1
  /\ currentTs \in Nat
  /\ unscheduled \in Int
  /\ remote \in Seq(Posted)
  /\ remoteEmpty \in BOOLEAN /\ stop \in BOOLEAN
  /\ destroyEvents \in Seq(Event)
  /\ pc \in PCs
  /\ made \in 0..MaxEvents
  /\ stopImpls \in SUBSET (1..MaxEvents)
  /\ invoked \in SUBSET (1..MaxEvents) /\ revoked \in SUBSET (1..MaxEvents)

\* The events that will be executed unless they are withdrawn.
Live == { e \in events : e.impl \notin cancelled }

DestroyImpls == { id.impl : id \in { i \in ids : i.uid = DESTROY } }

\* IsExpired, which compares an EventId with the clock and never looks into
\* the scheduler, agrees with the scheduler: an id is pending exactly while
\* its event is stored there uncancelled.
ExpiredIffGone ==
  pc # "disposed" =>
    \A id \in ids : id.uid # DESTROY => (IsExpired(id) <=> id \notin Live)

\* ProcessOneEvent's NS_ASSERT(next.key.m_ts >= m_currentTs), for every event
\* stored and with the tie broken: all of them lie ahead of the current one,
\* the events other threads posted included.
EventsAhead ==
  \A e \in events : Less([ts |-> currentTs, uid |-> currentUid], e)

\* m_unscheduledEvents, which Run's closing NS_ASSERT relies on, counts the
\* stored events through posts, removals and cancellations.
CountsMatch == pc # "disposed" => unscheduled = Cardinality(events)

\* The unlocked emptiness flag never hides posted events from the loop.
FlagMatches == remoteEmpty <=> remote = <<>>

\* Cancel and Remove are final: an event withdrawn before its function was
\* called never has it called, whatever the order of events at that time.
RevokedNeverRuns == invoked \cap revoked = {}

InvokedNow(e) == e \in events /\ e.impl \in invoked' \ invoked

\* Tied events run in the order they were scheduled in (events.rst: "tied
\* events are handled in FIFO order").  It is about the events that have an
\* EventId; posts have none and are ordered as they are drained.
TiesAreFifo ==
  [][\A e, f \in events \cap ids :
       InvokedNow(e) /\ f.ts = e.ts => e.impl <= f.impl]_vars

\* No event later than a pending Stop(delay) is executed.
NothingRunsPastStop ==
  [][\A e \in events, s \in Live :
       InvokedNow(e) /\ s.impl \in stopImpls => e.ts <= s.ts]_vars

\* When Run ends for lack of events, every event that was scheduled through
\* an EventId has been executed or withdrawn: none got lost on the way.
NaturalEndLosesNothing ==
  [][pc = "loop" /\ pc' = "idle" /\ ~stop =>
       \A id \in ids : id.uid # DESTROY => id.impl \in invoked \cup cancelled]_vars

Waiting(i) == \/ \E e \in Live : e.impl = i
              \/ \E k \in 1..Len(remote) : remote[k].impl = i

\* Every event that waits while a handler runs, or when Run fetches the posted
\* events, is executed or cancelled by that Run unless Stop ends it: an event
\* posted while the last handler runs is not left behind.
EveryEventResolves ==
  \A i \in 1..MaxEvents :
    (pc \in {"runDrain", "drain", "handler"} /\ Waiting(i))
      ~> (i \in invoked \cup cancelled \/ (pc = "idle" /\ stop))

\* The loop implements the calendar the users of the simulator rely on.
Calendar == INSTANCE EventCalendar
              WITH now <- currentTs, pending <- Live, ran <- invoked \ DestroyImpls
ImplementsCalendar == Calendar!CalSpec

=============================================================================

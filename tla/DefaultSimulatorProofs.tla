------------------------ MODULE DefaultSimulatorProofs ------------------------
(***************************************************************************)
(* Theorems about DefaultSimulator, for every set of delays and every      *)
(* number of events: revoking is final, and the loop implements            *)
(* EventCalendar, executes ties in the order they were scheduled in,       *)
(* counts its events and loses none.                                       *)
(***************************************************************************)
EXTENDS DefaultSimulator, SequenceTheorems, FiniteSetTheorems, TLAPS

-----------------------------------------------------------------------------
(* Type correctness.                                                       *)

\* The posts waiting are among the events made, which bounds the uids a drain
\* hands out.
TypeInv == TypeOK /\ Len(remote) <= made

\* Erasing an element of a list leaves a list of the same type.
LEMMA EraseType ==
  ASSUME NEW S, NEW s \in Seq(S), NEW i \in 1..Len(s)
  PROVE  Erase(s, i) \in Seq(S) /\ Len(Erase(s, i)) = Len(s) - 1
BY DEF Erase

\* Facts about sequences, for an opaque element set.
LEMMA SeqFacts ==
  ASSUME NEW S, NEW s \in Seq(S), NEW x \in S
  PROVE  /\ <<>> \in Seq(S) /\ Len(<<>>) = 0
         /\ \A i \in 1..Len(s) : s[i] \in S
         /\ Len(s) \in Nat
         /\ Append(s, x) \in Seq(S) /\ Len(Append(s, x)) = Len(s) + 1
OBVIOUS

\* Wrap stays in the range of the counter.
LEMMA WrapType ==
  ASSUME NEW u \in Nat, u < 2 * UidSpan
  PROVE  Wrap(u) \in 0..UidSpan - 1
BY SimAssumption DEF Wrap

\* The drain adds well-formed events only.
LEMMA DrainType ==
  ASSUME TypeInv, ProcessEventsWithContext
  PROVE  /\ events' \in SUBSET Event
         /\ uid' \in 0..UidSpan - 1
         /\ unscheduled' \in Int
         /\ remote' \in Seq(Posted)
         /\ Len(remote') <= made
         /\ remoteEmpty' \in BOOLEAN
<1>1. CASE remoteEmpty
  BY <1>1 DEF TypeInv, TypeOK, ProcessEventsWithContext
<1>2. CASE ~remoteEmpty
  <2>1. ASSUME NEW a \in Arrivals PROVE a \in Event
    <3>1. PICK i \in 1..Len(remote) :
            a = [ts |-> currentTs + remote[i].delay,
                 uid |-> Wrap(uid + i - 1), impl |-> remote[i].impl]
      BY <2>1 DEF Arrivals
    <3>2. remote[i] \in Posted
      BY DEF TypeInv, TypeOK
    <3>3. uid + i - 1 \in Nat /\ uid + i - 1 < 2 * UidSpan
      BY SimAssumption DEF TypeInv, TypeOK
    <3>4. Wrap(uid + i - 1) \in 0..UidSpan - 1
      BY <3>3, WrapType
    <3> QED BY <3>1, <3>2, <3>4 DEF TypeInv, TypeOK, Event, Posted
  <2>2. Wrap(uid + Len(remote)) \in 0..UidSpan - 1
    <3>1. uid + Len(remote) \in Nat /\ uid + Len(remote) < 2 * UidSpan
      BY SimAssumption DEF TypeInv, TypeOK
    <3> QED BY <3>1, WrapType
  <2> QED BY <1>2, <2>1, <2>2 DEF TypeInv, TypeOK, ProcessEventsWithContext
<1> QED BY <1>1, <1>2

LEMMA TypeInit == Init => TypeInv
<1> SUFFICES ASSUME Init PROVE TypeInv
  OBVIOUS
<1>1. remote \in Seq(Posted) /\ Len(remote) = 0 /\ destroyEvents \in Seq(Event)
  BY DEF Init
<1>2. remoteEmpty \in BOOLEAN /\ stop \in BOOLEAN /\ pc \in PCs
  BY DEF Init, PCs
<1>3. uid \in 0..UidSpan - 1 /\ currentUid \in 0..UidSpan - 1
  BY SimAssumption DEF Init, VALID, INVALID
<1>4. made \in 0..MaxEvents /\ made = 0 /\ currentTs \in Nat /\ unscheduled \in Int
  BY SimAssumption DEF Init
<1> QED BY <1>1, <1>2, <1>3, <1>4 DEF Init, TypeInv, TypeOK

LEMMA TypeNext == TypeInv /\ [Next]_vars => TypeInv'
<1> SUFFICES ASSUME TypeInv, [Next]_vars PROVE TypeInv'
  OBVIOUS
<1> USE SimAssumption DEF TypeInv, TypeOK, implVars, histVars
<1>new. ASSUME NEW d \in Delays, made < MaxEvents PROVE NewEvent(d) \in Event
  BY <1>new DEF NewEvent, Event
<1>wrap. Wrap(uid + 1) \in 0..UidSpan - 1
  BY WrapType
<1>1. ASSUME NEW d \in Delays, Schedule(d) PROVE TypeInv'
  BY <1>1, <1>new, <1>wrap DEF Schedule, Insert
<1>2. ASSUME NEW d \in Delays, StopAt(d) PROVE TypeInv'
  BY <1>2, <1>new, <1>wrap DEF StopAt, Insert
<1>3. ASSUME NEW d \in Delays, ScheduleWithContext(d) PROVE TypeInv'
  BY <1>3, <1>new, <1>wrap DEF ScheduleWithContext, Insert
<1>4. CASE ScheduleDestroy
  BY <1>4, <1>wrap DEF ScheduleDestroy, Event, DESTROY, VALID
<1>5. ASSUME NEW id \in ids, Cancel(id) PROVE TypeInv'
  BY <1>5 DEF Cancel, Revoke, Event
<1>6. ASSUME NEW id \in ids, RemoveDestroy(id) PROVE TypeInv'
  <2>1. destroyEvents' \in Seq(Event)
    BY <1>6, EraseType DEF RemoveDestroy
  <2> QED BY <1>6, <2>1 DEF RemoveDestroy, Revoke, Event
<1>7. ASSUME NEW id \in ids, Remove(id) PROVE TypeInv'
  <2>1. id.impl \in 1..MaxEvents
    BY DEF Event
  <2>2. CASE IsExpired(id)
    BY <1>7, <2>1, <2>2 DEF Remove, Revoke
  <2>3. CASE ~IsExpired(id)
    <3>1. events' \in SUBSET Event /\ unscheduled' \in Int
      BY <1>7, <2>3 DEF Remove
    <3>2. cancelled' \in SUBSET (1..MaxEvents)
      BY <1>7, <2>1, <2>3 DEF Remove
    <3>3. revoked' \in SUBSET (1..MaxEvents)
      BY <1>7, <2>1 DEF Remove, Revoke
    <3> QED BY <1>7, <3>1, <3>2, <3>3 DEF Remove
  <2> QED BY <2>2, <2>3
<1>8. CASE StopNow
  BY <1>8 DEF StopNow
<1>9. ASSUME NEW d \in Delays, Post(d) PROVE TypeInv'
  <2>1. [delay |-> d, impl |-> made + 1] \in Posted
    BY <1>9 DEF Post, Posted
  <2>2. remote' \in Seq(Posted) /\ Len(remote') = Len(remote) + 1
    BY <1>9, <2>1 DEF Post
  <2>3. remoteEmpty' \in BOOLEAN
    BY <1>9 DEF Post
  <2>4. made' \in 0..MaxEvents /\ made' = made + 1
    BY <1>9 DEF Post
  <2> QED BY <1>9, <2>2, <2>3, <2>4 DEF Post
<1>10. CASE DrainAtRun
  BY <1>10, DrainType DEF DrainAtRun, Goto, PCs
<1>11. CASE Drain
  BY <1>11, DrainType DEF Drain, Goto, PCs
<1>12. ASSUME NEW e \in events, SkipCancelled(e) PROVE TypeInv'
  BY <1>12 DEF SkipCancelled, Dequeue, Event, PCs
<1>13. ASSUME NEW e \in events, Invoke(e) PROVE TypeInv'
  <2>1. /\ e.ts \in Nat /\ e.uid \in 0..UidSpan - 1
        /\ e.impl \in 1..MaxEvents
    BY DEF Event
  <2>2. stop' \in BOOLEAN /\ pc' \in PCs
    BY <1>13 DEF Invoke, PCs
  <2>3. /\ events' \in SUBSET Event /\ unscheduled' \in Int
        /\ currentTs' \in Nat /\ currentUid' \in 0..UidSpan - 1
    BY <1>13, <2>1 DEF Invoke, Dequeue
  <2>4. invoked' \in SUBSET (1..MaxEvents)
    BY <1>13, <2>1 DEF Invoke
  <2> QED BY <1>13, <2>2, <2>3, <2>4 DEF Invoke
<1>14. CASE RunReturns \/ HandlerReturns \/ Run \/ Destroy
  BY <1>14 DEF RunReturns, HandlerReturns, Run, Destroy, Goto, PCs
<1>15. CASE DestroyOne
  <2>1. Head(destroyEvents) \in Event /\ Tail(destroyEvents) \in Seq(Event)
    BY <1>15 DEF DestroyOne
  <2> QED BY <1>15, <2>1 DEF DestroyOne, Event, PCs
<1>16. CASE DoDispose
  <2>1. Wrap(uid + Len(remote)) \in 0..UidSpan - 1
    BY WrapType
  <2> QED BY <1>16, <2>1 DEF DoDispose, Goto, PCs
<1>17. CASE UNCHANGED vars
  BY <1>17 DEF vars
<1> QED
  BY <1>1, <1>2, <1>3, <1>4, <1>5, <1>6, <1>7, <1>8, <1>9, <1>10, <1>11,
     <1>12, <1>13, <1>14, <1>15, <1>16, <1>17
  DEF Next, Api, Loop

\* Type correctness of the event loop, the wrap-around of m_uid included.
THEOREM TypeCorrect == Spec => []TypeOK
<1>1. TypeInv => TypeOK
  BY DEF TypeInv
<1> QED BY <1>1, TypeInit, TypeNext, PTL DEF Spec

-----------------------------------------------------------------------------
(* The flag that is read without the mutex.                                *)

LEMMA FlagNext == TypeInv /\ FlagMatches /\ [Next]_vars => FlagMatches'
<1> SUFFICES ASSUME TypeInv, FlagMatches, [Next]_vars PROVE FlagMatches'
  OBVIOUS
<1>1. CASE UNCHANGED <<remote, remoteEmpty>>
  BY <1>1 DEF FlagMatches
<1>2. ASSUME NEW d \in Delays, Post(d) PROVE FlagMatches'
  <2>1. [delay |-> d, impl |-> made + 1] \in Posted
    BY <1>2, SimAssumption DEF Post, Posted, TypeInv, TypeOK
  <2>2. Len(remote') = Len(remote) + 1 /\ Len(remote) \in Nat
    BY <1>2, <2>1, SeqFacts DEF Post, TypeInv, TypeOK
  <2>3. remote' # <<>>
    BY <2>2
  <2> QED BY <1>2, <2>3 DEF Post, FlagMatches
<1>3. CASE ProcessEventsWithContext
  <2>1. CASE remoteEmpty
    BY <1>1, <1>3, <2>1 DEF ProcessEventsWithContext
  <2>2. CASE ~remoteEmpty
    BY <1>3, <2>2 DEF ProcessEventsWithContext, FlagMatches
  <2> QED BY <2>1, <2>2
<1>4. CASE DoDispose
  BY <1>4 DEF DoDispose, FlagMatches
<1>5. CASE Loop
  <2>1. CASE RunReturns \/ \E e \in events : SkipCancelled(e) \/ Invoke(e)
    BY <1>1, <2>1 DEF RunReturns, SkipCancelled, Invoke
  <2> QED BY <1>3, <1>5, <2>1 DEF Loop, DrainAtRun, Drain
<1>6. CASE Api
  BY <1>1, <1>6
  DEF Api, Schedule, StopAt, ScheduleWithContext, ScheduleDestroy, Cancel,
      RemoveDestroy, Remove, StopNow
<1>7. CASE HandlerReturns \/ Run \/ Destroy \/ DestroyOne \/ UNCHANGED vars
  BY <1>1, <1>7 DEF HandlerReturns, Run, Destroy, DestroyOne, vars
<1> QED BY <1>2, <1>4, <1>5, <1>6, <1>7 DEF Next

\* m_eventsWithContextEmpty is true exactly when no posted event waits, so the
\* loop, which reads it without the mutex, never overlooks one.
THEOREM FlagCorrect == Spec => []FlagMatches
<1>1. Init => FlagMatches
  BY DEF Init, FlagMatches
<1> QED BY <1>1, TypeInit, TypeNext, FlagNext, PTL DEF Spec

-----------------------------------------------------------------------------
(* The order of events, while m_uid has not wrapped around.                *)

NoWrap == VALID + MaxEvents < UidSpan

Current == [ts |-> currentTs, uid |-> currentUid]

Numbered(id) == id.uid # DESTROY

\* Uids are handed out in sequence: what is stored or was returned lies below
\* the counter, and so does the current event.
UidInv ==
  /\ uid + Len(remote) = VALID + made
  /\ currentUid < uid
  /\ \A e \in events : VALID <= e.uid /\ e.uid < uid

\* An id whose event has left the scheduler uncancelled is not ahead of the
\* current event.
GoneIsPast ==
  pc # "disposed" =>
    \A id \in ids : Numbered(id) /\ id \notin events /\ id.impl \notin cancelled
                     => ~Less(Current, id)

OrderInv == TypeInv /\ UidInv /\ EventsAhead /\ GoneIsPast

\* Without a wrap-around the counter simply advances.
LEMMA WrapExact ==
  ASSUME NoWrap, NEW u \in Nat, u <= VALID + MaxEvents
  PROVE  Wrap(u) = u
BY SimAssumption DEF NoWrap, Wrap, VALID

\* The types of an event's fields.
LEMMA EventFields ==
  ASSUME NEW e \in Event
  PROVE  e.ts \in Nat /\ e.uid \in Int /\ e.impl \in 1..MaxEvents
BY SimAssumption DEF Event

\* Scheduling on the main thread puts the new event behind the current one.
LEMMA InsertOrder ==
  ASSUME NoWrap, OrderInv, NEW d \in Delays, made < MaxEvents,
         Insert(NewEvent(d)), ids' \subseteq ids \cup {NewEvent(d)},
         UNCHANGED <<cancelled, currentTs, currentUid, remote, pc>>
  PROVE  UidInv' /\ EventsAhead' /\ GoneIsPast'
<1> DEFINE n == NewEvent(d)
<1>1. n.ts = currentTs + d /\ n.uid = uid /\ events' = events \cup {n}
  BY DEF NewEvent, Insert
<1>2. /\ d \in Nat /\ made \in Nat /\ currentTs \in Nat /\ currentUid \in Nat
      /\ uid \in Nat /\ Len(remote) \in Nat /\ events \subseteq Event
  BY SimAssumption DEF OrderInv, TypeInv, TypeOK
<1>3. uid' = uid + 1
  <2>1. uid + 1 \in Nat /\ uid + 1 <= VALID + MaxEvents
    BY <1>2, SimAssumption DEF OrderInv, UidInv, VALID
  <2> QED BY <2>1, WrapExact DEF Insert
<1>4. \A e \in events : e.uid \in Int
  BY <1>2, EventFields
<1>5. uid' + Len(remote') = VALID + made' /\ currentUid' < uid'
  BY <1>2, <1>3 DEF Insert, OrderInv, UidInv, VALID
<1>6. VALID <= uid
  BY <1>2 DEF OrderInv, UidInv, TypeInv, VALID
<1>7. UidInv'
  BY <1>1, <1>2, <1>3, <1>4, <1>5, <1>6 DEF OrderInv, UidInv, VALID
<1>8. Less(Current, n)
  BY <1>1, <1>2 DEF Less, Current, OrderInv, UidInv
<1>9. EventsAhead'
  BY <1>1, <1>8 DEF EventsAhead, OrderInv, Current
<1>10. GoneIsPast'
  BY <1>1 DEF GoneIsPast, OrderInv, Current
<1> QED BY <1>7, <1>9, <1>10

\* A step that adds no event, and flags what it takes out, keeps the order.
LEMMA ShrinkOrder ==
  ASSUME OrderInv, uid <= uid', uid' \in Int,
         uid' + Len(remote') = VALID + made',
         events' \subseteq events, cancelled \subseteq cancelled',
         \A e \in events \ events' : e.impl \in cancelled',
         \A id \in ids' : Numbered(id) => id \in ids,
         UNCHANGED <<currentTs, currentUid>>,
         pc' # "disposed" => pc # "disposed"
  PROVE  UidInv' /\ EventsAhead' /\ GoneIsPast'
<1>1. /\ uid \in Int /\ currentUid \in Int /\ events \subseteq Event
  BY DEF OrderInv, TypeInv, TypeOK
<1>2. \A e \in events : e.uid \in Int
  BY <1>1, EventFields
<1>3. UidInv'
  BY <1>1, <1>2 DEF OrderInv, UidInv, VALID
<1>4. EventsAhead'
  BY DEF EventsAhead, OrderInv
<1>5. GoneIsPast'
  BY DEF GoneIsPast, OrderInv, Current
<1> QED BY <1>3, <1>4, <1>5

\* Times and uids of the posted events.
LEMMA ArrivalRange ==
  ASSUME NoWrap, OrderInv, NEW a \in Arrivals
  PROVE  /\ a.ts \in Nat /\ a.uid \in Nat
         /\ currentTs <= a.ts /\ uid <= a.uid /\ a.uid < uid + Len(remote)
<1>0. /\ made \in Nat /\ currentTs \in Nat /\ uid \in Nat /\ Len(remote) \in Nat
      /\ made <= MaxEvents
  BY SimAssumption DEF OrderInv, TypeInv, TypeOK
<1>1. PICK i \in 1..Len(remote) :
        a = [ts |-> currentTs + remote[i].delay,
             uid |-> Wrap(uid + i - 1), impl |-> remote[i].impl]
  BY DEF Arrivals
<1>2. remote[i] \in Posted
  BY DEF OrderInv, TypeInv, TypeOK
<1>3. uid + i - 1 \in Nat /\ uid + i - 1 <= VALID + MaxEvents
  BY <1>0, SimAssumption DEF OrderInv, UidInv, VALID
<1>4. Wrap(uid + i - 1) = uid + i - 1
  BY <1>3, WrapExact
<1>5. remote[i].delay \in Nat
  BY <1>2 DEF Posted
<1> QED BY <1>0, <1>1, <1>4, <1>5

\* The posted events are timed from the clock at the drain and numbered from
\* m_uid, so they too lie ahead of the current event.
LEMMA DrainOrder ==
  ASSUME NoWrap, OrderInv, ProcessEventsWithContext,
         UNCHANGED <<cancelled, currentTs, currentUid, ids, made>>,
         pc # "disposed"
  PROVE  UidInv' /\ EventsAhead' /\ GoneIsPast'
<1>1. /\ made \in Nat /\ currentTs \in Nat /\ currentUid \in Nat
      /\ uid \in Nat /\ Len(remote) \in Nat /\ events \subseteq Event
      /\ made <= MaxEvents
  BY SimAssumption DEF OrderInv, TypeInv, TypeOK
<1>2. CASE remoteEmpty
  <2>1. UNCHANGED <<events, uid, remote>>
    BY <1>2 DEF ProcessEventsWithContext
  <2> QED BY <1>1, <2>1 DEF OrderInv, UidInv, EventsAhead, GoneIsPast, Current
<1>3. CASE ~remoteEmpty
  <2>1. uid' = uid + Len(remote)
    <3>1. uid + Len(remote) \in Nat /\ uid + Len(remote) <= VALID + MaxEvents
      BY <1>1, SimAssumption DEF OrderInv, UidInv, VALID
    <3> QED BY <1>3, <3>1, WrapExact DEF ProcessEventsWithContext
  <2>2. remote' = <<>> /\ Len(remote') = 0 /\ events' = events \cup Arrivals
    BY <1>3 DEF ProcessEventsWithContext
  <2>3. \A a \in Arrivals : /\ a.ts \in Nat /\ a.uid \in Nat
                            /\ currentTs <= a.ts /\ uid <= a.uid /\ a.uid < uid'
    BY <2>1, ArrivalRange
  <2>4. \A e \in events : e.uid \in Int
    BY <1>1, EventFields
  <2>5. VALID <= uid
    BY <1>1 DEF OrderInv, UidInv, TypeInv, VALID
  <2>6. uid' + Len(remote') = VALID + made' /\ currentUid' < uid' /\ uid <= uid'
    BY <1>1, <2>1, <2>2 DEF OrderInv, UidInv, VALID
  <2>7. UidInv'
    BY <1>1, <2>1, <2>2, <2>3, <2>4, <2>5, <2>6 DEF OrderInv, UidInv, VALID
  <2>8. \A a \in Arrivals : Less(Current, a)
    BY <1>1, <2>3 DEF Less, Current, OrderInv, UidInv
  <2>9. EventsAhead'
    BY <2>2, <2>8 DEF EventsAhead, OrderInv, Current
  <2>10. GoneIsPast'
    BY <2>2 DEF GoneIsPast, OrderInv, Current
  <2> QED BY <2>7, <2>9, <2>10
<1> QED BY <1>2, <1>3

\* The loop takes the earliest event: the others stay ahead of it, and what
\* was past stays past.
LEMMA DequeueOrder ==
  ASSUME OrderInv, NEW e \in events, Dequeue(e),
         UNCHANGED <<cancelled, uid, remote, ids, made>>
  PROVE  UidInv' /\ EventsAhead' /\ GoneIsPast'
<1>1. /\ currentTs \in Nat /\ currentUid \in Nat /\ uid \in Nat
      /\ events \subseteq Event /\ ids \subseteq Event
  BY SimAssumption DEF OrderInv, TypeInv, TypeOK
<1>2. \A f \in events \cup ids : f.ts \in Nat /\ f.uid \in Int
  BY <1>1, EventFields
<1>3. /\ events' = events \ {e} /\ currentTs' = e.ts /\ currentUid' = e.uid
      /\ pc # "disposed" /\ IsEarliest(e, events)
  BY DEF Dequeue
<1>4. UidInv'
  BY <1>1, <1>3 DEF OrderInv, UidInv
<1>5. EventsAhead'
  BY <1>3 DEF EventsAhead, IsEarliest, Less
<1>6. Less(Current, e)
  BY DEF OrderInv, EventsAhead, Current
<1>7. ASSUME NEW id \in ids, Numbered(id), id \notin events', id.impl \notin cancelled
      PROVE  ~Less(Current', id)
  <2>1. CASE id = e
    BY <1>2, <1>3, <2>1 DEF Less, Current
  <2>2. CASE id # e
    <3>1. ~Less(Current, id)
      BY <1>3, <1>7, <2>2 DEF OrderInv, GoneIsPast
    <3> QED BY <1>1, <1>2, <1>3, <1>6, <3>1 DEF Less, Current
  <2> QED BY <2>1, <2>2
<1>8. GoneIsPast'
  BY <1>7 DEF GoneIsPast
<1> QED BY <1>4, <1>5, <1>8

LEMMA OrderInit == Init => OrderInv
<1> SUFFICES ASSUME Init PROVE OrderInv
  OBVIOUS
<1>1. TypeInv
  BY TypeInit
<1>2. UidInv
  BY DEF Init, UidInv, INVALID, VALID
<1> QED BY <1>1, <1>2 DEF Init, OrderInv, EventsAhead, GoneIsPast

LEMMA OrderNext ==
  ASSUME NoWrap, OrderInv, [Next]_vars
  PROVE  OrderInv'
<1> USE DEF implVars, histVars
<1>0. TypeInv'
  BY TypeNext DEF OrderInv
<1>t. /\ uid \in Int /\ made \in Nat /\ Len(remote) \in Nat
      /\ uid + Len(remote) = VALID + made
  BY SimAssumption DEF OrderInv, TypeInv, TypeOK, UidInv
<1> DEFINE G == UidInv' /\ EventsAhead' /\ GoneIsPast'
<1> SUFFICES G
  BY <1>0 DEF OrderInv
<1>1. ASSUME NEW d \in Delays, Schedule(d) \/ StopAt(d) \/ ScheduleWithContext(d)
      PROVE  G
  BY <1>1, InsertOrder DEF Schedule, StopAt, ScheduleWithContext
<1>2. CASE ScheduleDestroy
  <2>1. uid + 1 \in Nat /\ uid + 1 <= VALID + MaxEvents
    BY <1>2, <1>t, SimAssumption
    DEF ScheduleDestroy, OrderInv, TypeInv, TypeOK, VALID
  <2>2. uid' = uid + 1 /\ made' = made + 1 /\ remote' = remote
    BY <1>2, <2>1, WrapExact DEF ScheduleDestroy
  <2>3. uid' + Len(remote') = VALID + made'
    BY <1>t, <2>2 DEF VALID
  <2>4. \A id \in ids' : Numbered(id) => id \in ids
    BY <1>2 DEF ScheduleDestroy, Numbered
  <2>5. uid <= uid' /\ uid' \in Int
    BY <1>t, <2>2
  <2>6. UNCHANGED <<events, cancelled, currentTs, currentUid, pc>>
    BY <1>2 DEF ScheduleDestroy
  <2> QED BY <2>3, <2>4, <2>5, <2>6, ShrinkOrder
<1>3. ASSUME NEW id \in ids, Cancel(id) \/ RemoveDestroy(id) PROVE G
  BY <1>3, <1>t, ShrinkOrder DEF Cancel, RemoveDestroy
<1>4. ASSUME NEW id \in ids, Remove(id) PROVE G
  BY <1>4, <1>t, ShrinkOrder DEF Remove
<1>5. CASE StopNow \/ HandlerReturns \/ Run \/ Destroy \/ DestroyOne \/ RunReturns
  <2>1. UNCHANGED <<events, cancelled, uid, currentTs, currentUid, remote, made, ids>>
    BY <1>5 DEF StopNow, HandlerReturns, Run, Destroy, DestroyOne, RunReturns
  <2>2. pc # "disposed"
    BY <1>5 DEF StopNow, CanCall, HandlerReturns, Run, Destroy, DestroyOne,
                RunReturns, Goto
  <2> QED BY <1>t, <2>1, <2>2, ShrinkOrder
<1>6. CASE DrainAtRun \/ Drain
  <2>1. /\ ProcessEventsWithContext /\ pc # "disposed"
        /\ UNCHANGED <<cancelled, currentTs, currentUid, ids, made>>
    BY <1>6 DEF DrainAtRun, Drain, Goto
  <2> QED BY <2>1, DrainOrder
<1>7. ASSUME NEW e \in events, SkipCancelled(e) \/ Invoke(e) PROVE G
  BY <1>7, DequeueOrder DEF SkipCancelled, Invoke
<1>8. CASE DoDispose
  <2>1. uid + Len(remote) \in Nat /\ uid + Len(remote) <= VALID + MaxEvents
    BY <1>t, SimAssumption DEF OrderInv, TypeInv, TypeOK, VALID
  <2>2. uid' = uid + Len(remote) /\ events' = {} /\ remote' = <<>> /\ pc' = "disposed"
    BY <1>8, <2>1, WrapExact DEF DoDispose, Goto
  <2>3. Len(remote') = 0 /\ made' = made /\ currentUid' = currentUid
    BY <1>8, <2>2 DEF DoDispose
  <2>4. currentUid \in Int
    BY DEF OrderInv, TypeInv, TypeOK
  <2>5. UidInv'
    BY <1>t, <2>2, <2>3, <2>4 DEF OrderInv, UidInv, VALID
  <2>6. EventsAhead'
    BY <2>2 DEF EventsAhead
  <2>7. GoneIsPast'
    BY <2>2 DEF GoneIsPast
  <2> QED BY <2>5, <2>6, <2>7
<1>9. ASSUME NEW d \in Delays, Post(d) PROVE G
  <2>1. Len(remote') = Len(remote) + 1
    BY <1>9, SeqFacts DEF Post, OrderInv, TypeInv, TypeOK
  <2>2. made' = made + 1 /\ uid' = uid
    BY <1>9 DEF Post
  <2>3. uid' + Len(remote') = VALID + made'
    BY <1>t, <2>1, <2>2 DEF VALID
  <2> QED BY <1>9, <1>t, <2>2, <2>3, ShrinkOrder DEF Post
<1>10. CASE UNCHANGED vars
  <2>1. UNCHANGED <<events, cancelled, uid, currentTs, currentUid, remote, made, ids, pc>>
    BY <1>10 DEF vars
  <2> QED BY <1>t, <2>1, ShrinkOrder
<1> QED
  BY <1>1, <1>2, <1>3, <1>4, <1>5, <1>6, <1>7, <1>8, <1>9, <1>10
  DEF Next, Api, Loop

\* As long as m_uid does not wrap around, time never runs backwards: every
\* stored event lies ahead of the current one.
THEOREM EventsStayAhead ==
  ASSUME NoWrap PROVE Spec => []EventsAhead
<1>1. OrderInv => EventsAhead
  BY DEF OrderInv
<1>2. OrderInv /\ [Next]_vars => OrderInv'
  BY OrderNext
<1> QED BY <1>1, <1>2, OrderInit, PTL DEF Spec

\* Comparing with the clock decides what the scheduler holds.
LEMMA ExpiredGone == OrderInv => ExpiredIffGone
<1> SUFFICES ASSUME OrderInv, pc # "disposed", NEW id \in ids, Numbered(id)
             PROVE  IsExpired(id) <=> id \notin Live
  BY DEF ExpiredIffGone, Numbered
<1>1. /\ currentTs \in Int /\ currentUid \in Int
      /\ id.ts \in Int /\ id.uid \in Int
  BY EventFields DEF OrderInv, TypeInv, TypeOK
<1>2. IsExpired(id) <=> id.impl \in cancelled \/ ~Less(Current, id)
  BY <1>1 DEF IsExpired, Numbered, Less, Current
<1>3. id \in events => Less(Current, id)
  BY DEF OrderInv, EventsAhead, Current
<1>4. id \notin events /\ id.impl \notin cancelled => ~Less(Current, id)
  BY DEF OrderInv, GoneIsPast
<1> QED BY <1>2, <1>3, <1>4 DEF Live

\* As long as m_uid does not wrap around, IsExpired, a comparison with the
\* clock, tells exactly which events are no longer pending in the scheduler.
THEOREM ExpiredExactly ==
  ASSUME NoWrap PROVE Spec => []ExpiredIffGone
<1>1. OrderInv /\ [Next]_vars => OrderInv'
  BY OrderNext
<1> QED BY <1>1, ExpiredGone, OrderInit, PTL DEF Spec

-----------------------------------------------------------------------------
(* Revocation: what was cancelled or removed in time is never called.      *)

Known == events \cup ids

\* Every EventImpl is known through one event record only.
KnownInv ==
  /\ \A e \in Known : e.impl <= made
  /\ \A e, f \in Known : e.impl = f.impl => e = f

\* A posted EventImpl is known to nobody else yet.
RemoteInv ==
  /\ \A k \in 1..Len(remote) : remote[k].impl <= made
  /\ \A k \in 1..Len(remote) : \A e \in Known : e.impl # remote[k].impl
  /\ \A k, l \in 1..Len(remote) : remote[k].impl = remote[l].impl => k = l

\* The destroy list holds ids with the reserved uid, each once.
ListInv ==
  /\ \A k \in 1..Len(destroyEvents) :
       destroyEvents[k] \in ids /\ destroyEvents[k].uid = DESTROY
  /\ \A k, l \in 1..Len(destroyEvents) : destroyEvents[k] = destroyEvents[l] => k = l

ImplInv == KnownInv /\ RemoteInv /\ ListInv

StoredImpls  == { e.impl : e \in events }
RemoteImpls  == { remote[k].impl : k \in 1..Len(remote) }
ListedImpls  == { destroyEvents[k].impl : k \in 1..Len(destroyEvents) }
WaitingImpls == StoredImpls \cup RemoteImpls \cup ListedImpls

\* What was revoked is flagged cancelled or waits nowhere.
RevokedInv ==
  \A i \in revoked : i <= made /\ (i \in cancelled \/ i \notin WaitingImpls)

SafeInv == OrderInv /\ ImplInv /\ RevokedInv /\ RevokedNeverRuns

\* The element an erased list has at each position.
LEMMA EraseAt ==
  ASSUME NEW S, NEW s \in Seq(S), NEW i \in 1..Len(s), NEW k \in 1..Len(Erase(s, i))
  PROVE  /\ k \in 1..Len(s) - 1
         /\ k < i => Erase(s, i)[k] = s[k]
         /\ k >= i => Erase(s, i)[k] = s[k + 1]
BY DEF Erase

\* The tail is the list without its first element.
LEMMA TailIsErase ==
  ASSUME NEW S, NEW s \in Seq(S), s # <<>>
  PROVE  1 \in 1..Len(s) /\ Head(s) = s[1] /\ Tail(s) = Erase(s, 1)
<1>1. Len(s) \in Nat /\ Len(s) # 0
  OBVIOUS
<1>2. /\ Tail(s) \in Seq(S) /\ Len(Tail(s)) = Len(s) - 1
      /\ \A j \in 1..Len(s) - 1 : Tail(s)[j] = s[j + 1]
  BY HeadTailProperties
<1>3. /\ Erase(s, 1) \in Seq(S) /\ Len(Erase(s, 1)) = Len(s) - 1
      /\ \A j \in 1..Len(s) - 1 : Erase(s, 1)[j] = s[j + 1]
  BY <1>1, EraseType DEF Erase
<1>4. Tail(s) = Erase(s, 1)
  BY <1>2, <1>3, SeqEqual
<1> QED BY <1>1, <1>4

\* Erasing a list of distinct elements takes out the one element.
LEMMA EraseList ==
  ASSUME TypeInv, ListInv, NEW i \in 1..Len(destroyEvents),
         destroyEvents' = Erase(destroyEvents, i), ids' = ids
  PROVE  /\ ListInv'
         /\ ListedImpls' \subseteq ListedImpls
         /\ \A k \in 1..Len(destroyEvents') : destroyEvents'[k] # destroyEvents[i]
<1> DEFINE d == destroyEvents
<1> DEFINE at(k) == IF k < i THEN k ELSE k + 1
<1>1. d \in Seq(Event) /\ Len(d) \in Nat
  BY DEF TypeInv, TypeOK
<1>2. ASSUME NEW k \in 1..Len(d')
      PROVE  k \in Int /\ at(k) \in 1..Len(d) /\ at(k) # i /\ d'[k] = d[at(k)]
  BY <1>1, <1>2, EraseAt
<1> HIDE DEF at
<1>3. \A k \in 1..Len(d') : d'[k] # d[i]
  BY <1>2 DEF ListInv
<1>4. \A k \in 1..Len(d') : d'[k] \in ids' /\ d'[k].uid = DESTROY
  BY <1>2 DEF ListInv
<1>5. \A k, l \in 1..Len(d') : d'[k] = d'[l] => k = l
  <2> SUFFICES ASSUME NEW k \in 1..Len(d'), NEW l \in 1..Len(d'), d'[k] = d'[l]
               PROVE  k = l
    OBVIOUS
  <2>1. at(k) = at(l)
    BY <1>2 DEF ListInv
  <2> QED BY <1>2, <2>1 DEF at
<1>6. ListedImpls' \subseteq ListedImpls
  BY <1>2 DEF ListedImpls
<1> QED BY <1>3, <1>4, <1>5, <1>6 DEF ListInv

\* One new EventImpl, in a record of its own.
LEMMA NewImpl ==
  ASSUME TypeInv, KnownInv, RemoteInv, NEW n, n.impl = made + 1,
         Known' \subseteq Known \cup {n}, remote' = remote, made' = made + 1
  PROVE  KnownInv' /\ RemoteInv'
<1>1. /\ \A e \in Known : e.impl \in Int
      /\ \A k \in 1..Len(remote) : remote[k].impl \in Int
  <2>1. \A k \in 1..Len(remote) : remote[k] \in Posted
    BY DEF TypeInv, TypeOK
  <2>2. Known \subseteq Event
    BY DEF TypeInv, TypeOK, Known
  <2> QED BY <2>1, <2>2, SimAssumption DEF Posted, Event
<1>2. made \in Int /\ Len(remote) \in Nat
  BY SimAssumption DEF TypeInv, TypeOK
<1>3. KnownInv'
  BY <1>1, <1>2 DEF KnownInv
<1>4. RemoteInv'
  BY <1>1, <1>2 DEF RemoteInv
<1> QED BY <1>3, <1>4

\* One new EventImpl, posted by another thread.
LEMMA NewPost ==
  ASSUME TypeInv, ImplInv, NEW d \in Delays, Post(d)
  PROVE  ImplInv' /\ WaitingImpls' \subseteq WaitingImpls \cup {made'}
<1> DEFINE p == [delay |-> d, impl |-> made + 1]
<1>1. p \in Posted /\ p.impl = made + 1 /\ made' = made + 1
  BY SimAssumption DEF Post, Posted, TypeInv, TypeOK
<1>2. /\ Len(remote) \in Nat /\ Len(remote') = Len(remote) + 1
      /\ \A k \in 1..Len(remote) : remote'[k] = remote[k]
      /\ remote'[Len(remote) + 1] = p
  <2>1. remote \in Seq(Posted) /\ remote' = Append(remote, p)
    BY DEF Post, TypeInv, TypeOK
  <2> HIDE DEF p
  <2> QED BY <1>1, <2>1
<1>3. /\ \A e \in Known : e.impl \in Int
      /\ \A k \in 1..Len(remote) : remote[k].impl \in Int
  <2>1. \A k \in 1..Len(remote) : remote[k] \in Posted
    BY DEF TypeInv, TypeOK
  <2>2. Known \subseteq Event
    BY DEF TypeInv, TypeOK, Known
  <2> QED BY <2>1, <2>2, SimAssumption DEF Posted, Event
<1>4. made \in Int
  BY SimAssumption DEF TypeInv, TypeOK
<1>5. /\ UNCHANGED <<events, ids, destroyEvents>> /\ Known' = Known
  BY DEF Post, Known
<1>6. KnownInv' /\ ListInv'
  BY <1>1, <1>3, <1>4, <1>5 DEF ImplInv, KnownInv, ListInv
<1>7. \A k \in 1..Len(remote') : k \in 1..Len(remote) \/ k = Len(remote) + 1
  BY <1>2
<1> HIDE DEF p
<1>8. RemoteInv'
  <2>1. \A k \in 1..Len(remote') :
          IF k = Len(remote) + 1
          THEN remote'[k].impl = made + 1
          ELSE k \in 1..Len(remote) /\ remote'[k].impl = remote[k].impl
    BY <1>1, <1>2, <1>7
  <2>2. \A k \in 1..Len(remote') : remote'[k].impl <= made'
    BY <1>1, <1>3, <1>4, <2>1 DEF ImplInv, RemoteInv
  <2>3. \A k \in 1..Len(remote') : \A e \in Known' : e.impl # remote'[k].impl
    BY <1>3, <1>4, <1>5, <2>1 DEF ImplInv, KnownInv, RemoteInv
  <2>4. \A k, l \in 1..Len(remote') : remote'[k].impl = remote'[l].impl => k = l
    BY <1>3, <1>4, <2>1 DEF ImplInv, RemoteInv
  <2> QED BY <2>2, <2>3, <2>4 DEF RemoteInv
<1>9. WaitingImpls' \subseteq WaitingImpls \cup {made'}
  BY <1>1, <1>2, <1>5, <1>7
  DEF WaitingImpls, StoredImpls, RemoteImpls, ListedImpls
<1> QED BY <1>6, <1>8, <1>9 DEF ImplInv

\* The drain moves the posted EventImpls into the scheduler, each once.
LEMMA DrainImpl ==
  ASSUME TypeInv, ImplInv, ProcessEventsWithContext,
         UNCHANGED <<ids, made, destroyEvents>>
  PROVE  ImplInv' /\ WaitingImpls' \subseteq WaitingImpls
<1>1. CASE remoteEmpty
  BY <1>1
  DEF ProcessEventsWithContext, ImplInv, KnownInv, RemoteInv, ListInv, Known,
      WaitingImpls, StoredImpls, RemoteImpls, ListedImpls
<1>2. CASE ~remoteEmpty
  <2>1. events' = events \cup Arrivals /\ remote' = <<>> /\ Len(remote') = 0
    BY <1>2 DEF ProcessEventsWithContext
  <2>2. \A a \in Arrivals : \E k \in 1..Len(remote) :
          a = [ts |-> currentTs + remote[k].delay,
               uid |-> Wrap(uid + k - 1), impl |-> remote[k].impl]
    BY DEF Arrivals
  <2>3. \A a \in Arrivals : /\ a.impl <= made
                            /\ a.impl \in RemoteImpls
                            /\ \A e \in Known : e.impl # a.impl
    BY <2>2 DEF ImplInv, RemoteInv, RemoteImpls
  <2>4. \A a, b \in Arrivals : a.impl = b.impl => a = b
    <3> SUFFICES ASSUME NEW a \in Arrivals, NEW b \in Arrivals, a.impl = b.impl
                 PROVE  a = b
      OBVIOUS
    <3>1. PICK k \in 1..Len(remote) :
            a = [ts |-> currentTs + remote[k].delay,
                 uid |-> Wrap(uid + k - 1), impl |-> remote[k].impl]
      BY <2>2
    <3>2. PICK l \in 1..Len(remote) :
            b = [ts |-> currentTs + remote[l].delay,
                 uid |-> Wrap(uid + l - 1), impl |-> remote[l].impl]
      BY <2>2
    <3>3. k = l
      BY <3>1, <3>2 DEF ImplInv, RemoteInv
    <3> QED BY <3>1, <3>2, <3>3
  <2>5. Known' = Known \cup Arrivals
    BY <2>1 DEF Known
  <2>6. KnownInv'
    BY <2>3, <2>4, <2>5 DEF ImplInv, KnownInv
  <2>7. RemoteInv' /\ ListInv'
    BY <2>1 DEF ImplInv, RemoteInv, ListInv
  <2>8. WaitingImpls' \subseteq WaitingImpls
    BY <2>1, <2>3 DEF WaitingImpls, StoredImpls, RemoteImpls, ListedImpls
  <2> QED BY <2>6, <2>7, <2>8 DEF ImplInv
<1> QED BY <1>1, <1>2

\* A step in which nothing but a new EventImpl starts to wait, and which
\* revokes only what is flagged or waits nowhere.
LEMMA RevokedStep ==
  ASSUME TypeInv, RevokedInv, made' \in {made, made + 1},
         \/ WaitingImpls' \subseteq WaitingImpls
         \/ made' = made + 1 /\ WaitingImpls' \subseteq WaitingImpls \cup {made'},
         cancelled \subseteq cancelled',
         \A i \in revoked' \ revoked :
           i <= made' /\ (i \in cancelled' \/ i \notin WaitingImpls')
  PROVE  RevokedInv'
<1>1. made \in Int /\ revoked \subseteq Int
  BY SimAssumption DEF TypeInv, TypeOK
<1> SUFFICES ASSUME NEW i \in revoked'
             PROVE  i <= made' /\ (i \in cancelled' \/ i \notin WaitingImpls')
  BY DEF RevokedInv
<1>2. CASE i \in revoked
  <2>1. i \in Int /\ i <= made /\ (i \in cancelled \/ i \notin WaitingImpls)
    BY <1>1, <1>2 DEF RevokedInv
  <2>2. i <= made' /\ (made' = made + 1 => i # made')
    BY <1>1, <2>1
  <2> QED BY <2>1, <2>2
<1> QED BY <1>2

\* Cancelling and removing: an id that counts as expired without being flagged
\* has no event left in the scheduler.
LEMMA ExpiredWaitsNowhere ==
  ASSUME OrderInv, ImplInv, CanCall, NEW id \in ids, IsExpired(id)
  PROVE  id.impl \in cancelled \/ id.impl \notin WaitingImpls
<1> SUFFICES ASSUME id.impl \notin cancelled PROVE id.impl \notin WaitingImpls
  OBVIOUS
<1>1. /\ currentTs \in Int /\ currentUid \in Int
      /\ \A e \in Known : e \in Event /\ e.ts \in Int /\ e.uid \in Int
  <2>1. Known \subseteq Event /\ currentTs \in Int /\ currentUid \in Int
    BY DEF OrderInv, TypeInv, TypeOK, Known
  <2> QED BY <2>1, EventFields
<1>2. id.impl \notin StoredImpls
  <2> SUFFICES ASSUME NEW e \in events, e.impl = id.impl PROVE FALSE
    BY DEF StoredImpls
  <2>1. e = id
    BY DEF ImplInv, KnownInv, Known
  <2>2. id.uid # DESTROY
    BY <1>1, <2>1 DEF OrderInv, UidInv, VALID, DESTROY, Known
  <2>3. ~Less(Current, id)
    BY <1>1, <2>2 DEF IsExpired, Less, Current, Known
  <2> QED BY <2>1, <2>3 DEF OrderInv, EventsAhead, Current
<1>3. id.impl \notin RemoteImpls
  BY DEF RemoteImpls, ImplInv, RemoteInv, Known
<1>4. id.impl \notin ListedImpls
  <2> SUFFICES ASSUME NEW k \in 1..Len(destroyEvents),
                      destroyEvents[k].impl = id.impl
               PROVE  FALSE
    BY DEF ListedImpls
  <2>1. destroyEvents[k] = id /\ id.uid = DESTROY
    BY DEF ImplInv, KnownInv, ListInv, Known
  <2> QED BY <2>1 DEF IsExpired, InDestroyList
<1> QED BY <1>2, <1>3, <1>4 DEF WaitingImpls

LEMMA SafeInit == Init => SafeInv
<1> SUFFICES ASSUME Init PROVE SafeInv
  OBVIOUS
<1>1. OrderInv
  BY OrderInit
<1>2. ImplInv
  BY DEF Init, ImplInv, KnownInv, RemoteInv, ListInv, Known
<1> QED BY <1>1, <1>2 DEF Init, SafeInv, RevokedInv, RevokedNeverRuns

\* What is called waits unflagged, so it was not revoked.
LEMMA CalledNotRevoked ==
  ASSUME SafeInv, NEW i \in WaitingImpls, i \notin cancelled,
         invoked' = invoked \cup {i}, revoked' = revoked
  PROVE  RevokedNeverRuns'
BY DEF SafeInv, RevokedInv, RevokedNeverRuns

\* A step that adds no event record and keeps the counter.
LEMMA LessKnown ==
  ASSUME SafeInv, Known' \subseteq Known, UNCHANGED <<remote, made>>
  PROVE  KnownInv' /\ RemoteInv'
BY DEF SafeInv, ImplInv, KnownInv, RemoteInv

LEMMA SafeNext ==
  ASSUME NoWrap, SafeInv, [Next]_vars
  PROVE  SafeInv'
<1> USE DEF implVars, histVars
<1>0. OrderInv' /\ TypeInv /\ OrderInv /\ ImplInv /\ RevokedInv /\ RevokedNeverRuns
  BY OrderNext DEF OrderInv, SafeInv
<1>i. made \in Int
  BY <1>0, SimAssumption DEF TypeInv, TypeOK
<1> DEFINE G == ImplInv' /\ RevokedInv' /\ RevokedNeverRuns'
<1> SUFFICES G
  BY <1>0 DEF SafeInv
<1>1. ASSUME NEW d \in Delays, Schedule(d) \/ StopAt(d) \/ ScheduleWithContext(d)
      PROVE  G
  <2>1. /\ NewEvent(d).impl = made + 1 /\ made' = made + 1
        /\ events' = events \cup {NewEvent(d)}
        /\ ids \subseteq ids' /\ ids' \subseteq ids \cup {NewEvent(d)}
        /\ UNCHANGED <<remote, destroyEvents, cancelled, invoked, revoked>>
    BY <1>1 DEF Schedule, StopAt, ScheduleWithContext, Insert, NewEvent
  <2>2. Known' \subseteq Known \cup {NewEvent(d)}
    BY <2>1 DEF Known
  <2>3. KnownInv' /\ RemoteInv'
    BY <1>0, <2>1, <2>2, NewImpl DEF ImplInv
  <2>4. ListInv'
    BY <1>0, <2>1 DEF ImplInv, ListInv
  <2>5. WaitingImpls' \subseteq WaitingImpls \cup {made'}
    BY <2>1 DEF WaitingImpls, StoredImpls, RemoteImpls, ListedImpls
  <2>6. RevokedInv'
    BY <1>0, <2>1, <2>5, RevokedStep
  <2> QED BY <1>0, <2>1, <2>3, <2>4, <2>6 DEF ImplInv, RevokedNeverRuns
<1>2. CASE ScheduleDestroy
  <2> DEFINE n == [ts |-> currentTs, uid |-> DESTROY, impl |-> made + 1]
  <2>1. /\ n.impl = made + 1 /\ n.uid = DESTROY /\ made' = made + 1
        /\ destroyEvents' = Append(destroyEvents, n)
        /\ ids' = ids \cup {n}
        /\ UNCHANGED <<events, remote, cancelled, invoked, revoked>>
    BY <1>2 DEF ScheduleDestroy
  <2> HIDE DEF n
  <2>2. /\ Len(destroyEvents) \in Nat /\ Len(destroyEvents') = Len(destroyEvents) + 1
        /\ \A k \in 1..Len(destroyEvents) : destroyEvents'[k] = destroyEvents[k]
        /\ destroyEvents'[Len(destroyEvents) + 1] = n
    <3>1. destroyEvents \in Seq(Event)
      BY <1>0 DEF TypeInv, TypeOK
    <3> QED BY <2>1, <3>1
  <2>3. \A k \in 1..Len(destroyEvents') :
          IF k = Len(destroyEvents) + 1
          THEN destroyEvents'[k] = n
          ELSE k \in 1..Len(destroyEvents) /\ destroyEvents'[k] = destroyEvents[k]
    BY <2>2
  <2>4. n \notin ids
    <3>1. \A id \in ids : id.impl \in Int
      BY <1>0, EventFields DEF TypeInv, TypeOK
    <3> QED BY <1>0, <1>i, <2>1, <3>1 DEF ImplInv, KnownInv, Known
  <2>5. ListInv'
    <3>1. \A k \in 1..Len(destroyEvents') :
            destroyEvents'[k] \in ids' /\ destroyEvents'[k].uid = DESTROY
      BY <1>0, <2>1, <2>3 DEF ImplInv, ListInv
    <3>2. \A k, l \in 1..Len(destroyEvents') :
            destroyEvents'[k] = destroyEvents'[l] => k = l
      BY <1>0, <2>3, <2>4 DEF ImplInv, ListInv
    <3> QED BY <3>1, <3>2 DEF ListInv
  <2>6. Known' \subseteq Known \cup {n}
    BY <2>1 DEF Known
  <2>7. KnownInv' /\ RemoteInv'
    BY <1>0, <2>1, <2>6, NewImpl DEF ImplInv
  <2>8. WaitingImpls' \subseteq WaitingImpls \cup {made'}
    BY <2>1, <2>3 DEF WaitingImpls, StoredImpls, RemoteImpls, ListedImpls
  <2>9. RevokedInv'
    BY <1>0, <2>1, <2>8, RevokedStep
  <2> QED BY <1>0, <2>1, <2>5, <2>7, <2>9 DEF ImplInv, RevokedNeverRuns
<1>3. ASSUME NEW id \in ids, Cancel(id) \/ Remove(id) \/ RemoveDestroy(id) PROVE G
  <2>1. /\ CanCall /\ Revoke(id) /\ events' \subseteq events
        /\ UNCHANGED <<ids, remote, made, invoked>>
        /\ cancelled \subseteq cancelled'
    BY <1>3 DEF Cancel, Remove, RemoveDestroy
  <2>2. ListInv' /\ ListedImpls' \subseteq ListedImpls
    <3>1. CASE UNCHANGED destroyEvents
      BY <1>0, <2>1, <3>1 DEF ImplInv, ListInv, ListedImpls
    <3>2. CASE RemoveDestroy(id) /\ InDestroyList(id)
      BY <1>0, <2>1, <3>2, EraseList DEF RemoveDestroy, ImplInv
    <3> QED BY <1>3, <3>1, <3>2 DEF Cancel, Remove, RemoveDestroy
  <2>3. KnownInv' /\ RemoteInv'
    BY <2>1, LessKnown DEF Known
  <2>4. WaitingImpls' \subseteq WaitingImpls
    BY <2>1, <2>2 DEF WaitingImpls, StoredImpls, RemoteImpls
  <2>5. id.impl <= made
    BY <1>0 DEF ImplInv, KnownInv, Known
  <2>6. id.impl \in cancelled' \/ id.impl \notin WaitingImpls'
    <3>1. CASE IsExpired(id)
      BY <1>0, <2>1, <2>4, <3>1, ExpiredWaitsNowhere
    <3>2. CASE (Cancel(id) \/ Remove(id)) /\ ~IsExpired(id)
      BY <3>2 DEF Cancel, Remove
    <3>3. CASE RemoveDestroy(id) /\ ~IsExpired(id)
      <4>1. PICK i \in 1..Len(destroyEvents) :
              destroyEvents[i] = id /\ destroyEvents' = Erase(destroyEvents, i)
        BY <3>3 DEF RemoveDestroy, IsExpired
      <4>2. \A k \in 1..Len(destroyEvents') : destroyEvents'[k] # id
        BY <1>0, <2>1, <4>1, EraseList DEF ImplInv
      <4>3. id.impl \notin ListedImpls'
        BY <1>0, <2>1, <2>2, <2>3, <4>2
        DEF ListedImpls, ListInv, KnownInv, Known
      <4>4. id.impl \notin RemoteImpls'
        BY <2>1, <2>3 DEF RemoteImpls, RemoteInv, Known
      <4>5. id.impl \notin StoredImpls'
        <5> SUFFICES ASSUME NEW e \in events', e.impl = id.impl PROVE FALSE
          BY DEF StoredImpls
        <5>1. e = id /\ id.uid = DESTROY
          BY <2>1, <2>3, <3>3 DEF KnownInv, Known, RemoveDestroy
        <5>2. e.uid \in Int /\ VALID <= e.uid
          BY <1>0, EventFields DEF OrderInv, UidInv, TypeInv, TypeOK
        <5> QED BY <5>1, <5>2 DEF VALID, DESTROY
      <4> QED BY <4>3, <4>4, <4>5 DEF WaitingImpls
    <3> QED BY <1>3, <3>1, <3>2, <3>3
  <2>7. RevokedInv'
    BY <1>0, <2>1, <2>4, <2>5, <2>6, RevokedStep DEF Revoke
  <2> QED BY <1>0, <2>1, <2>2, <2>3, <2>7 DEF ImplInv, RevokedNeverRuns, Revoke
<1>4. ASSUME NEW d \in Delays, Post(d) PROVE G
  <2>1. /\ made' = made + 1 /\ UNCHANGED <<cancelled, invoked, revoked>>
    BY <1>4 DEF Post
  <2>2. ImplInv' /\ WaitingImpls' \subseteq WaitingImpls \cup {made'}
    BY <1>0, <1>4, NewPost
  <2>3. RevokedInv'
    BY <1>0, <2>1, <2>2, RevokedStep
  <2> QED BY <1>0, <2>1, <2>2, <2>3 DEF RevokedNeverRuns
<1>5. CASE DrainAtRun \/ Drain
  <2>1. /\ ProcessEventsWithContext
        /\ UNCHANGED <<ids, made, destroyEvents, cancelled, invoked, revoked>>
    BY <1>5 DEF DrainAtRun, Drain
  <2>2. ImplInv' /\ WaitingImpls' \subseteq WaitingImpls
    BY <1>0, <2>1, DrainImpl
  <2>3. RevokedInv'
    BY <1>0, <2>1, <2>2, RevokedStep
  <2> QED BY <1>0, <2>1, <2>2, <2>3 DEF RevokedNeverRuns
<1>6. ASSUME NEW e \in events, SkipCancelled(e) \/ Invoke(e) PROVE G
  <2>1. /\ events' \subseteq events
        /\ UNCHANGED <<ids, made, remote, destroyEvents, cancelled, revoked>>
    BY <1>6 DEF SkipCancelled, Invoke, Dequeue
  <2>2. KnownInv' /\ RemoteInv' /\ ListInv'
    BY <1>0, <2>1, LessKnown DEF Known, ImplInv, ListInv
  <2>3. WaitingImpls' \subseteq WaitingImpls
    BY <2>1 DEF WaitingImpls, StoredImpls, RemoteImpls, ListedImpls
  <2>4. RevokedInv'
    BY <1>0, <2>1, <2>3, RevokedStep
  <2>5. RevokedNeverRuns'
    <3>1. CASE SkipCancelled(e)
      BY <1>0, <3>1 DEF SkipCancelled, RevokedNeverRuns
    <3>2. CASE Invoke(e)
      <4>1. e.impl \in WaitingImpls
        BY DEF WaitingImpls, StoredImpls
      <4> QED BY <2>1, <3>2, <4>1, CalledNotRevoked DEF Invoke
    <3> QED BY <1>6, <3>1, <3>2
  <2> QED BY <2>2, <2>4, <2>5 DEF ImplInv
<1>7. CASE DestroyOne
  <2>1. /\ 1 \in 1..Len(destroyEvents) /\ Head(destroyEvents) = destroyEvents[1]
        /\ destroyEvents' = Erase(destroyEvents, 1)
    BY <1>0, <1>7, TailIsErase DEF DestroyOne, TypeInv, TypeOK
  <2>2. UNCHANGED <<ids, events, made, remote, cancelled, revoked>>
    BY <1>7 DEF DestroyOne
  <2>3. ListInv' /\ ListedImpls' \subseteq ListedImpls
    BY <1>0, <2>1, <2>2, EraseList DEF ImplInv
  <2>4. KnownInv' /\ RemoteInv'
    BY <2>2, LessKnown DEF Known
  <2>5. WaitingImpls' \subseteq WaitingImpls
    BY <2>2, <2>3 DEF WaitingImpls, StoredImpls, RemoteImpls
  <2>6. RevokedInv'
    BY <1>0, <2>2, <2>5, RevokedStep
  <2>7. RevokedNeverRuns'
    <3> DEFINE i == destroyEvents[1].impl
    <3>1. i \in WaitingImpls
      BY <2>1 DEF WaitingImpls, ListedImpls
    <3>2. \/ invoked' = invoked
          \/ i \notin cancelled /\ invoked' = invoked \cup {i}
      BY <1>7, <2>1 DEF DestroyOne
    <3> QED BY <1>0, <2>2, <3>1, <3>2, CalledNotRevoked DEF RevokedNeverRuns
  <2> QED BY <2>3, <2>4, <2>6, <2>7 DEF ImplInv
<1>8. CASE DoDispose
  <2>1. /\ events' = {} /\ remote' = <<>> /\ Len(remote') = 0
        /\ UNCHANGED <<ids, made, destroyEvents, cancelled, invoked, revoked>>
    BY <1>8 DEF DoDispose
  <2>2. ImplInv'
    BY <1>0, <2>1 DEF ImplInv, KnownInv, RemoteInv, ListInv, Known
  <2>3. WaitingImpls' \subseteq WaitingImpls
    BY <2>1 DEF WaitingImpls, StoredImpls, RemoteImpls, ListedImpls
  <2>4. RevokedInv'
    BY <1>0, <2>1, <2>3, RevokedStep
  <2> QED BY <1>0, <2>1, <2>2, <2>4 DEF RevokedNeverRuns
<1>9. CASE StopNow \/ HandlerReturns \/ Run \/ Destroy \/ RunReturns \/ UNCHANGED vars
  <2>1. UNCHANGED <<events, ids, made, remote, destroyEvents, cancelled, invoked, revoked>>
    BY <1>9 DEF StopNow, HandlerReturns, Run, Destroy, RunReturns, vars
  <2> QED BY <1>0, <2>1
      DEF ImplInv, KnownInv, RemoteInv, ListInv, Known, RevokedNeverRuns,
          RevokedInv, WaitingImpls, StoredImpls, RemoteImpls, ListedImpls
<1> QED
  BY <1>1, <1>2, <1>3, <1>4, <1>5, <1>6, <1>7, <1>8, <1>9 DEF Next, Api, Loop

\* As long as m_uid does not wrap around, Cancel and Remove are final, for ids
\* of ordinary and of destroy events.
THEOREM RevocationIsFinal ==
  ASSUME NoWrap PROVE Spec => []RevokedNeverRuns
<1>1. SafeInv => RevokedNeverRuns
  BY DEF SafeInv
<1>2. SafeInv /\ [Next]_vars => SafeInv'
  BY SafeNext
<1> QED BY <1>1, <1>2, SafeInit, PTL DEF Spec

-----------------------------------------------------------------------------
(* An EventImpl is called once.                                            *)

\* What was called waits nowhere any more.
CalledInv == \A i \in invoked : i <= made /\ i \notin WaitingImpls

LoopInv == SafeInv /\ CalledInv

\* A step that calls nothing, and in which only a new EventImpl starts to wait.
LEMMA CalledStep ==
  ASSUME TypeInv, CalledInv, invoked' = invoked, made' \in {made, made + 1},
         \/ WaitingImpls' \subseteq WaitingImpls
         \/ made' = made + 1 /\ WaitingImpls' \subseteq WaitingImpls \cup {made'}
  PROVE  CalledInv'
<1>1. made \in Int /\ invoked \subseteq Int
  BY SimAssumption DEF TypeInv, TypeOK
<1> SUFFICES ASSUME NEW i \in invoked PROVE i <= made' /\ i \notin WaitingImpls'
  BY DEF CalledInv
<1>2. i \in Int /\ i <= made /\ i \notin WaitingImpls
  BY <1>1 DEF CalledInv
<1>3. i <= made' /\ (made' = made + 1 => i # made')
  BY <1>1, <1>2
<1> QED BY <1>2, <1>3

\* The event called leaves the only place its EventImpl waits in.
LEMMA InvokeLeaves ==
  ASSUME SafeInv, NEW e \in events, events' = events \ {e},
         UNCHANGED <<remote, destroyEvents>>
  PROVE  e.impl \notin WaitingImpls' /\ WaitingImpls' \subseteq WaitingImpls
<1>1. /\ KnownInv /\ RemoteInv /\ ListInv /\ e.uid \in Int /\ VALID <= e.uid
  BY EventFields
  DEF SafeInv, ImplInv, OrderInv, UidInv, TypeInv, TypeOK
<1>2. e.impl \notin StoredImpls'
  BY <1>1 DEF StoredImpls, KnownInv, Known
<1>3. e.impl \notin RemoteImpls'
  BY <1>1 DEF RemoteImpls, RemoteInv, Known
<1>4. e.impl \notin ListedImpls'
  <2> SUFFICES ASSUME NEW k \in 1..Len(destroyEvents), destroyEvents[k].impl = e.impl
               PROVE  FALSE
    BY DEF ListedImpls
  <2>1. destroyEvents[k] = e /\ e.uid = DESTROY
    BY <1>1 DEF KnownInv, ListInv, Known
  <2> QED BY <1>1, <2>1 DEF VALID, DESTROY
<1>5. WaitingImpls' \subseteq WaitingImpls
  BY DEF WaitingImpls, StoredImpls, RemoteImpls, ListedImpls
<1> QED BY <1>2, <1>3, <1>4, <1>5 DEF WaitingImpls

\* So does the destroy event called.
LEMMA DestroyLeaves ==
  ASSUME SafeInv, DestroyOne
  PROVE  /\ 1 \in 1..Len(destroyEvents) /\ Head(destroyEvents) = destroyEvents[1]
         /\ destroyEvents[1].impl \notin WaitingImpls'
         /\ destroyEvents[1].impl \in WaitingImpls
         /\ WaitingImpls' \subseteq WaitingImpls
<1> DEFINE h == destroyEvents[1]
<1>0. /\ TypeInv /\ KnownInv /\ RemoteInv /\ ListInv
      /\ UNCHANGED <<ids, events, remote>>
  BY DEF SafeInv, ImplInv, OrderInv, DestroyOne, implVars
<1>1. /\ 1 \in 1..Len(destroyEvents) /\ Head(destroyEvents) = h
      /\ destroyEvents' = Erase(destroyEvents, 1)
  BY <1>0, TailIsErase DEF DestroyOne, TypeInv, TypeOK
<1>2. /\ ListInv' /\ ListedImpls' \subseteq ListedImpls
      /\ \A k \in 1..Len(destroyEvents') : destroyEvents'[k] # h
  BY <1>0, <1>1, EraseList
<1>3. h \in ids /\ h.uid = DESTROY
  BY <1>0, <1>1 DEF ListInv
<1>4. h.impl \notin ListedImpls'
  BY <1>0, <1>2, <1>3 DEF ListedImpls, ListInv, KnownInv, Known
<1>5. h.impl \notin RemoteImpls'
  BY <1>0, <1>3 DEF RemoteImpls, RemoteInv, Known
<1>6. h.impl \notin StoredImpls'
  <2> SUFFICES ASSUME NEW e \in events, e.impl = h.impl PROVE FALSE
    BY <1>0 DEF StoredImpls
  <2>1. e = h
    BY <1>0, <1>3 DEF KnownInv, Known
  <2>2. e.uid \in Int /\ VALID <= e.uid
    BY <1>0, EventFields DEF SafeInv, OrderInv, UidInv, TypeInv, TypeOK
  <2> QED BY <1>3, <2>1, <2>2 DEF VALID, DESTROY
<1>7. h.impl \in WaitingImpls
  BY <1>1 DEF WaitingImpls, ListedImpls
<1>8. WaitingImpls' \subseteq WaitingImpls
  BY <1>0, <1>2 DEF WaitingImpls, StoredImpls, RemoteImpls
<1> QED BY <1>1, <1>4, <1>5, <1>6, <1>7, <1>8 DEF WaitingImpls

\* Where EventImpls start to wait: nowhere, or in the new one's place.
LEMMA WaitingNext ==
  ASSUME SafeInv, [Next]_vars
  PROVE  /\ made' \in {made, made + 1}
         /\ \/ WaitingImpls' \subseteq WaitingImpls
            \/ made' = made + 1 /\ WaitingImpls' \subseteq WaitingImpls \cup {made'}
<1> USE DEF implVars, histVars
<1>0. TypeInv /\ ImplInv
  BY DEF SafeInv, OrderInv
<1> DEFINE G == /\ made' \in {made, made + 1}
                /\ \/ WaitingImpls' \subseteq WaitingImpls
                   \/ /\ made' = made + 1
                      /\ WaitingImpls' \subseteq WaitingImpls \cup {made'}
<1> SUFFICES G
  OBVIOUS
<1>1. ASSUME NEW d \in Delays, Schedule(d) \/ StopAt(d) \/ ScheduleWithContext(d)
      PROVE  G
  <2>1. /\ NewEvent(d).impl = made + 1 /\ made' = made + 1
        /\ events' = events \cup {NewEvent(d)}
        /\ UNCHANGED <<remote, destroyEvents>>
    BY <1>1 DEF Schedule, StopAt, ScheduleWithContext, Insert, NewEvent
  <2> QED BY <2>1 DEF WaitingImpls, StoredImpls, RemoteImpls, ListedImpls
<1>2. CASE ScheduleDestroy
  <2> DEFINE n == [ts |-> currentTs, uid |-> DESTROY, impl |-> made + 1]
  <2>1. /\ n.impl = made + 1 /\ made' = made + 1
        /\ destroyEvents' = Append(destroyEvents, n)
        /\ UNCHANGED <<events, remote>>
    BY <1>2 DEF ScheduleDestroy
  <2> HIDE DEF n
  <2>2. destroyEvents \in Seq(Event)
    BY <1>0 DEF TypeInv, TypeOK
  <2>3. \A k \in 1..Len(destroyEvents') :
          \/ destroyEvents'[k] = n
          \/ k \in 1..Len(destroyEvents) /\ destroyEvents'[k] = destroyEvents[k]
    BY <2>1, <2>2
  <2>4. ListedImpls' \subseteq ListedImpls \cup {made'}
    BY <2>1, <2>3 DEF ListedImpls
  <2> QED BY <2>1, <2>4 DEF WaitingImpls, StoredImpls, RemoteImpls
<1>3. ASSUME NEW id \in ids, Cancel(id) \/ Remove(id) \/ RemoveDestroy(id) PROVE G
  <2>1. events' \subseteq events /\ UNCHANGED <<ids, remote, made>>
    BY <1>3 DEF Cancel, Remove, RemoveDestroy
  <2>2. ListedImpls' \subseteq ListedImpls
    <3>1. CASE UNCHANGED destroyEvents
      BY <3>1 DEF ListedImpls
    <3>2. CASE RemoveDestroy(id) /\ InDestroyList(id)
      BY <1>0, <2>1, <3>2, EraseList DEF RemoveDestroy, ImplInv
    <3> QED BY <1>3, <3>1, <3>2 DEF Cancel, Remove, RemoveDestroy
  <2> QED BY <2>1, <2>2 DEF WaitingImpls, StoredImpls, RemoteImpls
<1>4. ASSUME NEW d \in Delays, Post(d) PROVE G
  BY <1>0, <1>4, NewPost DEF Post
<1>5. CASE DrainAtRun \/ Drain
  BY <1>0, <1>5, DrainImpl DEF DrainAtRun, Drain
<1>6. ASSUME NEW e \in events, SkipCancelled(e) \/ Invoke(e) PROVE G
  <2>1. /\ events' = events \ {e} /\ UNCHANGED <<made, remote, destroyEvents>>
    BY <1>6 DEF SkipCancelled, Invoke, Dequeue
  <2> QED BY <2>1, InvokeLeaves
<1>7. CASE DestroyOne
  BY <1>7, DestroyLeaves DEF DestroyOne
<1>8. CASE DoDispose
  <2>1. /\ events' = {} /\ remote' = <<>> /\ Len(remote') = 0
        /\ UNCHANGED <<made, destroyEvents>>
    BY <1>8 DEF DoDispose
  <2> QED BY <2>1 DEF WaitingImpls, StoredImpls, RemoteImpls, ListedImpls
<1>9. CASE StopNow \/ HandlerReturns \/ Run \/ Destroy \/ RunReturns \/ UNCHANGED vars
  <2>1. UNCHANGED <<events, made, remote, destroyEvents>>
    BY <1>9 DEF StopNow, HandlerReturns, Run, Destroy, RunReturns, vars
  <2> QED BY <2>1 DEF WaitingImpls, StoredImpls, RemoteImpls, ListedImpls
<1> QED
  BY <1>1, <1>2, <1>3, <1>4, <1>5, <1>6, <1>7, <1>8, <1>9 DEF Next, Api, Loop

LEMMA LoopInit == Init => LoopInv
BY SafeInit DEF Init, LoopInv, CalledInv

LEMMA LoopNext ==
  ASSUME NoWrap, LoopInv, [Next]_vars
  PROVE  LoopInv'
<1> USE DEF implVars, histVars
<1>0. SafeInv' /\ SafeInv /\ TypeInv /\ CalledInv
  BY SafeNext DEF LoopInv, SafeInv, OrderInv
<1>1. CASE invoked' = invoked
  BY <1>0, <1>1, WaitingNext, CalledStep DEF LoopInv
<1>2. ASSUME NEW e \in events, Invoke(e) PROVE CalledInv'
  <2>1. /\ events' = events \ {e} /\ UNCHANGED <<made, remote, destroyEvents>>
        /\ invoked' = invoked \cup {e.impl}
    BY <1>2 DEF Invoke, Dequeue
  <2>2. e.impl <= made
    BY <1>0 DEF SafeInv, ImplInv, KnownInv, Known
  <2> QED BY <1>0, <2>1, <2>2, InvokeLeaves DEF CalledInv
<1>3. CASE DestroyOne
  <2> DEFINE i == destroyEvents[1].impl
  <2>1. i \notin WaitingImpls' /\ WaitingImpls' \subseteq WaitingImpls
    BY <1>0, <1>3, DestroyLeaves
  <2>2. invoked' \subseteq invoked \cup {i} /\ made' = made
    BY <1>0, <1>3, DestroyLeaves DEF DestroyOne
  <2>3. i <= made
    BY <1>0, <1>3, DestroyLeaves
    DEF SafeInv, ImplInv, KnownInv, ListInv, Known
  <2>4. CalledInv'
    BY <1>0, <2>1, <2>2, <2>3 DEF CalledInv
  <2> QED BY <1>0, <2>4 DEF LoopInv
<1>4. \/ invoked' = invoked
      \/ \E e \in events : Invoke(e)
      \/ DestroyOne
  BY DEF Next, Api, Loop, Schedule, StopAt, ScheduleWithContext, ScheduleDestroy,
         Cancel, Remove, RemoveDestroy, StopNow, Post, DrainAtRun, Drain,
         SkipCancelled, DoDispose, HandlerReturns, Run, Destroy, RunReturns, vars
<1> QED BY <1>0, <1>1, <1>2, <1>3, <1>4 DEF LoopInv

-----------------------------------------------------------------------------
(* The refinement mapping: the clock, the live events, and what was called *)
(* except by Simulator::Destroy.                                           *)

Ran == invoked \ DestroyImpls

\* The facts about types and order every step uses.
LEMMA LoopFacts ==
  ASSUME LoopInv
  PROVE  /\ currentTs \in Nat /\ uid \in Nat /\ made \in Nat /\ VALID <= uid
         /\ \A e \in events \cup ids : e.ts \in Nat /\ e.uid \in Int /\ e.impl \in Nat
         /\ \A e \in events : VALID <= e.uid /\ e.uid < uid
         /\ \A i \in invoked : i \in Nat /\ i <= made
<1>1. /\ events \subseteq Event /\ ids \subseteq Event /\ currentTs \in Nat
      /\ uid \in Nat /\ made \in Nat /\ Len(remote) \in Nat /\ Len(remote) <= made
      /\ invoked \subseteq Nat
  BY SimAssumption DEF LoopInv, SafeInv, OrderInv, TypeInv, TypeOK
<1>2. \A e \in events \cup ids : e.ts \in Nat /\ e.uid \in Int /\ e.impl \in Nat
  BY <1>1, EventFields
<1>3. VALID <= uid
  BY <1>1 DEF LoopInv, SafeInv, OrderInv, UidInv, VALID
<1> QED BY <1>1, <1>2, <1>3
        DEF LoopInv, SafeInv, OrderInv, UidInv, CalledInv

\* Destroy events are not calendar events.
LEMMA NotDestroy ==
  ASSUME LoopInv, NEW e \in events
  PROVE  e.impl \notin DestroyImpls
<1> SUFFICES ASSUME NEW id \in ids, id.uid = DESTROY, id.impl = e.impl PROVE FALSE
  BY DEF DestroyImpls
<1>1. id = e
  BY DEF LoopInv, SafeInv, ImplInv, KnownInv, Known
<1> QED BY <1>1, LoopFacts DEF VALID, DESTROY

LEMMA CalendarInit == Init => Calendar!CalInit
BY DEF Init, Calendar!CalInit, Live

\* Every step of the loop, of its callers and of the posting threads is a step
\* of the calendar or leaves it alone.
LEMMA CalendarNext ==
  ASSUME NoWrap, LoopInv, [Next]_vars
  PROVE  [Calendar!CalNext]_(Calendar!calVars)
<1> USE DEF implVars, histVars
<1> DEFINE S == UNCHANGED <<currentTs, Live, Ran>>
<1>s. S => [Calendar!CalNext]_(Calendar!calVars)
  BY DEF Calendar!calVars, Ran
<1>a. Calendar!Arrive \/ Calendar!Withdraw \/ Calendar!Execute \/ Calendar!Tick
        => [Calendar!CalNext]_(Calendar!calVars)
  BY DEF Calendar!CalNext
<1>1. ASSUME NEW d \in Delays, Schedule(d) \/ StopAt(d) \/ ScheduleWithContext(d)
      PROVE  Calendar!Arrive
  <2> DEFINE n == NewEvent(d)
  <2>1. /\ n.ts = currentTs + d /\ n.uid = uid /\ n.impl = made + 1
        /\ events' = events \cup {n}
        /\ ids \subseteq ids' /\ ids' \subseteq ids \cup {n}
        /\ UNCHANGED <<currentTs, cancelled, invoked>>
    BY <1>1 DEF Schedule, StopAt, ScheduleWithContext, Insert, NewEvent
  <2> HIDE DEF n
  <2>2. d \in Nat
    BY SimAssumption
  <2>3. DestroyImpls' = DestroyImpls
    BY <2>1, LoopFacts DEF DestroyImpls, VALID, DESTROY
  <2>4. Live \subseteq Live' /\ Live' \subseteq Live \cup {n}
    BY <2>1 DEF Live
  <2>5. n.ts >= currentTs /\ n.impl \notin Ran
    BY <2>1, <2>2, LoopFacts DEF Ran
  <2>6. \A f \in Live : f.uid < n.uid
    BY <2>1, LoopFacts DEF Live
  <2> QED BY <2>1, <2>3, <2>4, <2>5, <2>6 DEF Calendar!Arrive, Ran
<1>2. CASE ScheduleDestroy
  <2> DEFINE n == [ts |-> currentTs, uid |-> DESTROY, impl |-> made + 1]
  <2>1. /\ n.impl = made + 1 /\ ids' = ids \cup {n}
        /\ UNCHANGED <<events, currentTs, cancelled, invoked>>
    BY <1>2 DEF ScheduleDestroy
  <2> HIDE DEF n
  <2>2. DestroyImpls \subseteq DestroyImpls' /\ DestroyImpls' \subseteq DestroyImpls \cup {made + 1}
    BY <2>1 DEF DestroyImpls
  <2>3. made + 1 \notin invoked
    BY LoopFacts
  <2>4. S
    BY <2>1, <2>2, <2>3 DEF Live, Ran
  <2> QED BY <1>s, <2>4
<1>3. ASSUME NEW id \in ids, Cancel(id) \/ Remove(id) \/ RemoveDestroy(id)
      PROVE  Calendar!Withdraw
  <2>1. /\ events' \subseteq events /\ cancelled \subseteq cancelled'
        /\ UNCHANGED <<currentTs, ids, invoked>>
    BY <1>3 DEF Cancel, Remove, RemoveDestroy
  <2> QED BY <2>1 DEF Calendar!Withdraw, Live, DestroyImpls
<1>4. CASE DrainAtRun \/ Drain
  <2>1. /\ ProcessEventsWithContext
        /\ UNCHANGED <<currentTs, cancelled, ids, invoked>>
    BY <1>4 DEF DrainAtRun, Drain
  <2>2. CASE remoteEmpty
    <3>1. S
      BY <2>1, <2>2 DEF ProcessEventsWithContext, Live, Ran, DestroyImpls
    <3> QED BY <1>s, <3>1
  <2>3. CASE ~remoteEmpty
    <3>1. events' = events \cup Arrivals
      BY <2>1, <2>3 DEF ProcessEventsWithContext
    <3>2. ASSUME NEW a \in Arrivals
          PROVE  /\ a.ts >= currentTs /\ a.impl \notin Ran
                 /\ \A f \in Live : f.uid < a.uid
      <4>1. a.ts \in Nat /\ a.uid \in Nat /\ currentTs <= a.ts /\ uid <= a.uid
        BY ArrivalRange DEF LoopInv, SafeInv
      <4>2. a.impl \in WaitingImpls
        BY DEF Arrivals, WaitingImpls, RemoteImpls
      <4>3. a.impl \notin Ran
        BY <4>2 DEF LoopInv, CalledInv, Ran
      <4> QED BY <4>1, <4>3, LoopFacts DEF Live
    <3>3. Live \subseteq Live' /\ Live' \subseteq Live \cup Arrivals
      BY <2>1, <3>1 DEF Live
    <3>4. Calendar!Arrive
      BY <2>1, <3>2, <3>3 DEF Calendar!Arrive, Ran, DestroyImpls
    <3> QED BY <1>a, <3>4
  <2> QED BY <2>2, <2>3
<1>5. ASSUME NEW e \in events, SkipCancelled(e) PROVE Calendar!Tick
  <2>1. /\ events' = events \ {e} /\ currentTs' = e.ts /\ e.impl \in cancelled
        /\ IsEarliest(e, events) /\ UNCHANGED <<cancelled, ids, invoked>>
    BY <1>5 DEF SkipCancelled, Dequeue
  <2>2. Live' = Live
    BY <2>1 DEF Live
  <2>3. currentTs <= e.ts
    BY LoopFacts DEF LoopInv, SafeInv, OrderInv, EventsAhead, Less
  <2>4. \A f \in Live : e.ts <= f.ts
    BY <2>1, LoopFacts DEF Live, IsEarliest, Less
  <2> QED BY <2>1, <2>2, <2>3, <2>4, LoopFacts DEF Calendar!Tick, DestroyImpls
<1>6. ASSUME NEW e \in events, Invoke(e) PROVE Calendar!Execute
  <2>1. /\ events' = events \ {e} /\ currentTs' = e.ts /\ e.impl \notin cancelled
        /\ IsEarliest(e, events) /\ UNCHANGED <<cancelled, ids>>
        /\ invoked' = invoked \cup {e.impl}
    BY <1>6 DEF Invoke, Dequeue
  <2>2. e \in Live /\ Live' = Live \ {e}
    BY <2>1 DEF Live
  <2>3. Calendar!IsEarliest(e, Live)
    BY <2>1, <2>2 DEF Calendar!IsEarliest, Calendar!Less, IsEarliest, Less, Live
  <2>4. e.impl \notin invoked
    BY DEF LoopInv, CalledInv, WaitingImpls, StoredImpls
  <2>5. Ran' = Ran \cup {e.impl}
    BY <2>1, NotDestroy DEF Ran, DestroyImpls
  <2> QED BY <2>1, <2>2, <2>3, <2>4, <2>5 DEF Calendar!Execute, Ran
<1>7. CASE DestroyOne
  <2>1. /\ invoked' \subseteq invoked \cup {destroyEvents[1].impl}
        /\ invoked \subseteq invoked'
        /\ UNCHANGED <<events, cancelled, currentTs, ids>>
    BY <1>7, DestroyLeaves DEF DestroyOne, LoopInv
  <2>2. destroyEvents[1].impl \in DestroyImpls
    BY <1>7, DestroyLeaves DEF LoopInv, SafeInv, ImplInv, ListInv, DestroyImpls
  <2>3. S
    BY <2>1, <2>2 DEF Live, Ran, DestroyImpls
  <2> QED BY <1>s, <2>3
<1>8. CASE DoDispose
  <2>1. events' = {} /\ UNCHANGED <<currentTs, ids, invoked>>
    BY <1>8 DEF DoDispose
  <2>2. Calendar!Withdraw
    BY <2>1 DEF Calendar!Withdraw, Live, DestroyImpls
  <2> QED BY <1>a, <2>2
<1>9. CASE \/ StopNow \/ HandlerReturns \/ Run \/ Destroy \/ RunReturns
           \/ UNCHANGED vars \/ \E d \in Delays : Post(d)
  <2>1. UNCHANGED <<events, cancelled, currentTs, ids, invoked>>
    BY <1>9 DEF StopNow, HandlerReturns, Run, Destroy, RunReturns, Post, vars
  <2>2. S
    BY <2>1 DEF Live, Ran, DestroyImpls
  <2> QED BY <1>s, <2>2
<1> QED
  BY <1>a, <1>1, <1>2, <1>3, <1>4, <1>5, <1>6, <1>7, <1>8, <1>9 DEF Next, Api, Loop

\* As long as m_uid does not wrap around the event loop is a calendar: it
\* executes the live events one at a time, earliest first, ties in the order
\* of arrival, each once, and never lets time run past one.
THEOREM LoopImplementsCalendar ==
  ASSUME NoWrap PROVE Spec => ImplementsCalendar
<1>1. LoopInv /\ [Next]_vars => LoopInv'
  BY LoopNext
<1>2. LoopInv /\ [Next]_vars => [Calendar!CalNext]_(Calendar!calVars)
  BY CalendarNext
<1> QED
  BY <1>1, <1>2, LoopInit, CalendarInit, PTL
  DEF Spec, ImplementsCalendar, Calendar!CalSpec

-----------------------------------------------------------------------------
(* Ties, stops and the end of a run.                                       *)

\* Uids order the EventImpls as their creation does, for the events scheduled
\* through an EventId.
FifoInv == \A e, f \in events \cap ids : e.uid < f.uid => e.impl < f.impl

\* What left the scheduler was called or flagged.
ResolvedInv ==
  pc # "disposed" =>
    \A id \in ids : Numbered(id) => id \in events \/ id.impl \in invoked \cup cancelled

RunInv == LoopInv /\ FifoInv /\ ResolvedInv

LEMMA RunInit == Init => RunInv
BY LoopInit DEF Init, RunInv, FifoInv, ResolvedInv

LEMMA FifoNext ==
  ASSUME NoWrap, RunInv, [Next]_vars
  PROVE  FifoInv'
<1> USE DEF implVars, histVars
<1>0. LoopInv /\ FifoInv
  BY DEF RunInv
<1>1. CASE events' \cap ids' \subseteq events \cap ids
  BY <1>0, <1>1 DEF FifoInv
<1>2. ASSUME NEW d \in Delays, Schedule(d) \/ StopAt(d) \/ ScheduleWithContext(d)
      PROVE  FifoInv'
  <2> DEFINE n == NewEvent(d)
  <2>1. /\ n.uid = uid /\ n.impl = made + 1 /\ events' = events \cup {n}
        /\ ids' \subseteq ids \cup {n}
    BY <1>2 DEF Schedule, StopAt, ScheduleWithContext, Insert, NewEvent
  <2> HIDE DEF n
  <2>2. \A e \in events \cup ids : e.impl <= made
    BY <1>0 DEF LoopInv, SafeInv, ImplInv, KnownInv, Known
  <2>3. n \notin events \cup ids
    BY <1>0, <2>1, <2>2, LoopFacts
  <2>4. events' \cap ids' \subseteq (events \cap ids) \cup {n}
    BY <2>1, <2>3
  <2> QED BY <1>0, <2>1, <2>2, <2>4, LoopFacts DEF FifoInv
<1>3. CASE ScheduleDestroy
  <2>1. /\ events' = events
        /\ ids' = ids \cup {[ts |-> currentTs, uid |-> DESTROY, impl |-> made + 1]}
    BY <1>3 DEF ScheduleDestroy
  <2>2. \A e \in events : e.uid # DESTROY
    BY <1>0, LoopFacts DEF VALID, DESTROY
  <2>3. events' \cap ids' \subseteq events \cap ids
    BY <2>1, <2>2
  <2> QED BY <1>1, <2>3
<1>4. CASE DrainAtRun \/ Drain
  <2>1. ids' = ids /\ events' \subseteq events \cup Arrivals
    BY <1>4 DEF DrainAtRun, Drain, ProcessEventsWithContext
  <2>2. \A a \in Arrivals : a \notin ids
    BY <1>0 DEF Arrivals, LoopInv, SafeInv, ImplInv, RemoteInv, Known
  <2>3. events' \cap ids' \subseteq events \cap ids
    BY <2>1, <2>2
  <2> QED BY <1>1, <2>3
<1>5. ASSUME NEW e \in events, SkipCancelled(e) \/ Invoke(e)
      PROVE  events' \subseteq events /\ ids' = ids
  BY <1>5 DEF SkipCancelled, Invoke, Dequeue
<1>6. ASSUME NEW id \in ids, Cancel(id) \/ RemoveDestroy(id) \/ Remove(id)
      PROVE  events' \subseteq events /\ ids' = ids
  BY <1>6 DEF Cancel, RemoveDestroy, Remove
<1>7. CASE \/ StopNow \/ HandlerReturns \/ Run \/ Destroy \/ DestroyOne \/ DoDispose
           \/ RunReturns \/ UNCHANGED vars \/ \E d \in Delays : Post(d)
  <2>1. events' \subseteq events /\ ids' = ids
    BY <1>7 DEF StopNow, HandlerReturns, Run, Destroy, DestroyOne, DoDispose,
                RunReturns, Post, vars
  <2> QED BY <1>1, <2>1
<1> QED
  BY <1>1, <1>2, <1>3, <1>4, <1>5, <1>6, <1>7 DEF Next, Api, Loop

LEMMA ResolvedNext ==
  ASSUME NoWrap, RunInv, [Next]_vars
  PROVE  ResolvedInv'
<1> USE DEF implVars, histVars
<1>1. ASSUME invoked \subseteq invoked', cancelled \subseteq cancelled',
             pc' # "disposed" => pc # "disposed",
             \A id \in ids' : Numbered(id) => id \in ids \/ id \in events',
             \A e \in events \ events' : e.impl \in invoked' \cup cancelled'
      PROVE  ResolvedInv'
  BY <1>1 DEF RunInv, ResolvedInv
<1>2. ASSUME NEW d \in Delays, Schedule(d) \/ StopAt(d) \/ ScheduleWithContext(d)
      PROVE  ResolvedInv'
  BY <1>1, <1>2 DEF Schedule, StopAt, ScheduleWithContext, Insert
<1>3. CASE ScheduleDestroy
  BY <1>1, <1>3 DEF ScheduleDestroy, Numbered
<1>4. ASSUME NEW id \in ids, Cancel(id) \/ Remove(id) \/ RemoveDestroy(id)
      PROVE  ResolvedInv'
  BY <1>1, <1>4 DEF Cancel, Remove, RemoveDestroy
<1>5. CASE DrainAtRun \/ Drain
  <2>1. /\ events \subseteq events' /\ pc # "disposed"
        /\ UNCHANGED <<ids, invoked, cancelled>>
    BY <1>5 DEF DrainAtRun, Drain, ProcessEventsWithContext, Goto
  <2> QED BY <1>1, <2>1
<1>6. ASSUME NEW e \in events, SkipCancelled(e) \/ Invoke(e) PROVE ResolvedInv'
  <2>1. /\ events' = events \ {e} /\ pc # "disposed" /\ UNCHANGED <<ids, cancelled>>
        /\ invoked \subseteq invoked' /\ e.impl \in invoked' \cup cancelled'
    BY <1>6 DEF SkipCancelled, Invoke, Dequeue
  <2> QED BY <1>1, <2>1
<1>7. CASE \/ StopNow \/ HandlerReturns \/ Run \/ Destroy \/ DestroyOne
           \/ RunReturns \/ UNCHANGED vars \/ \E d \in Delays : Post(d)
  <2>1. /\ invoked \subseteq invoked' /\ UNCHANGED <<events, ids, cancelled>>
    BY <1>7 DEF StopNow, HandlerReturns, Run, Destroy, DestroyOne, RunReturns, Post, vars
  <2>2. pc' # "disposed" => pc # "disposed"
    BY <1>7 DEF StopNow, CanCall, HandlerReturns, Run, Destroy, DestroyOne,
                RunReturns, Post, vars, Goto
  <2> QED BY <1>1, <2>1, <2>2
<1>8. CASE DoDispose
  BY <1>8 DEF DoDispose, Goto, ResolvedInv
<1> QED
  BY <1>2, <1>3, <1>4, <1>5, <1>6, <1>7, <1>8 DEF Next, Api, Loop

LEMMA RunNext == ASSUME NoWrap, RunInv, [Next]_vars PROVE RunInv'
BY LoopNext, FifoNext, ResolvedNext DEF RunInv

\* Only the loop calls a stored event, and it calls the earliest.
LEMMA CalledIsEarliest ==
  ASSUME LoopInv, [Next]_vars, NEW e \in events, InvokedNow(e)
  PROVE  IsEarliest(e, events)
<1> USE DEF implVars, histVars
<1>1. ASSUME NEW x \in events, Invoke(x) PROVE IsEarliest(e, events)
  <2>1. invoked' = invoked \cup {x.impl} /\ IsEarliest(x, events)
    BY <1>1 DEF Invoke, Dequeue
  <2>2. e = x
    BY <2>1 DEF InvokedNow, LoopInv, SafeInv, ImplInv, KnownInv, Known
  <2> QED BY <2>1, <2>2
<1>2. CASE DestroyOne
  <2>1. invoked' \subseteq invoked \cup {destroyEvents[1].impl}
    BY <1>2, DestroyLeaves DEF DestroyOne, LoopInv
  <2>2. destroyEvents[1].impl \in DestroyImpls
    BY <1>2, DestroyLeaves DEF LoopInv, SafeInv, ImplInv, ListInv, DestroyImpls
  <2> QED BY <2>1, <2>2, NotDestroy DEF InvokedNow
<1>3. \/ invoked' = invoked
      \/ \E x \in events : Invoke(x)
      \/ DestroyOne
  BY DEF Next, Api, Loop, Schedule, StopAt, ScheduleWithContext, ScheduleDestroy,
         Cancel, Remove, RemoveDestroy, StopNow, Post, DrainAtRun, Drain,
         SkipCancelled, DoDispose, HandlerReturns, Run, Destroy, RunReturns, vars
<1> QED BY <1>1, <1>2, <1>3 DEF InvokedNow

\* As long as m_uid does not wrap around, tied events that have an EventId run
\* in the order they were scheduled in.
THEOREM TiesStayFifo ==
  ASSUME NoWrap PROVE Spec => TiesAreFifo
<1>1. RunInv /\ [Next]_vars => RunInv'
  BY RunNext
<1>2. ASSUME RunInv, [Next]_vars
      PROVE  \A e, f \in events \cap ids :
               InvokedNow(e) /\ f.ts = e.ts => e.impl <= f.impl
  <2> SUFFICES ASSUME NEW e \in events \cap ids, NEW f \in events \cap ids,
                      InvokedNow(e), f.ts = e.ts
               PROVE  e.impl <= f.impl
    OBVIOUS
  <2>1. IsEarliest(e, events)
    BY <1>2, CalledIsEarliest DEF RunInv
  <2>2. e.impl \in Nat /\ f.impl \in Nat /\ e.ts \in Nat
    BY <1>2, LoopFacts DEF RunInv
  <2>3. f = e \/ e.uid < f.uid
    BY <2>1, <2>2 DEF IsEarliest, Less
  <2> QED BY <1>2, <2>2, <2>3 DEF RunInv, FifoInv
<1>3. RunInv /\ [Next]_vars
        => [\A e, f \in events \cap ids :
              InvokedNow(e) /\ f.ts = e.ts => e.impl <= f.impl]_vars
  BY <1>2
<1> QED BY <1>1, <1>3, RunInit, PTL DEF Spec, TiesAreFifo

\* As long as m_uid does not wrap around, no event later than a pending
\* Stop(delay) is executed.
THEOREM StopIsNotPassed ==
  ASSUME NoWrap PROVE Spec => NothingRunsPastStop
<1>1. LoopInv /\ [Next]_vars => LoopInv'
  BY LoopNext
<1>2. ASSUME LoopInv, [Next]_vars
      PROVE  \A e \in events, s \in Live :
               InvokedNow(e) /\ s.impl \in stopImpls => e.ts <= s.ts
  <2> SUFFICES ASSUME NEW e \in events, NEW s \in Live, InvokedNow(e)
               PROVE  e.ts <= s.ts
    OBVIOUS
  <2>1. IsEarliest(e, events)
    BY <1>2, CalledIsEarliest
  <2>2. e.ts \in Nat /\ s.ts \in Nat
    BY <1>2, LoopFacts DEF Live
  <2> QED BY <2>1, <2>2 DEF IsEarliest, Less, Live
<1>3. LoopInv /\ [Next]_vars
        => [\A e \in events, s \in Live :
              InvokedNow(e) /\ s.impl \in stopImpls => e.ts <= s.ts]_vars
  BY <1>2
<1> QED BY <1>1, <1>3, LoopInit, PTL DEF Spec, NothingRunsPastStop

\* As long as m_uid does not wrap around, a run that ends for lack of events
\* has executed or withdrawn every event that was scheduled.
THEOREM EndLosesNothing ==
  ASSUME NoWrap PROVE Spec => NaturalEndLosesNothing
<1>1. RunInv /\ [Next]_vars => RunInv'
  BY RunNext
<1>2. ASSUME RunInv, [Next]_vars, pc = "loop", pc' = "idle", ~stop
      PROVE  \A id \in ids : id.uid # DESTROY => id.impl \in invoked \cup cancelled
  <2>1. events = {}
    BY <1>2
    DEF Next, Api, Loop, Schedule, StopAt, ScheduleWithContext, ScheduleDestroy,
        Cancel, Remove, RemoveDestroy, StopNow, CanCall, Post, DrainAtRun, Drain,
        SkipCancelled, Invoke, DoDispose, HandlerReturns, Run, Destroy, DestroyOne,
        RunReturns, Goto, vars
  <2> QED BY <1>2, <2>1 DEF RunInv, ResolvedInv, Numbered
<1>3. RunInv /\ [Next]_vars
        => [pc = "loop" /\ pc' = "idle" /\ ~stop =>
              \A id \in ids : id.uid # DESTROY => id.impl \in invoked \cup cancelled]_vars
  BY <1>2
<1> QED BY <1>1, <1>3, RunInit, PTL DEF Spec, NaturalEndLosesNothing

-----------------------------------------------------------------------------
(* The count of stored events.                                             *)

CountInv ==
  /\ pc # "disposed" => unscheduled = Cardinality(events)
  /\ IsFiniteSet(events)

\* A drain moves as many events into the scheduler as were posted.
LEMMA ArrivalCount ==
  ASSUME LoopInv
  PROVE  IsFiniteSet(Arrivals) /\ Cardinality(Arrivals) = Len(remote)
<1> DEFINE I == 1..Len(remote)
           f == [i \in I |-> [ts   |-> currentTs + remote[i].delay,
                              uid  |-> Wrap(uid + i - 1),
                              impl |-> remote[i].impl]]
<1>1. Len(remote) \in Nat /\ IsFiniteSet(I) /\ Cardinality(I) = Len(remote)
  <2>1. Len(remote) \in Nat
    BY DEF LoopInv, SafeInv, OrderInv, TypeInv, TypeOK
  <2> QED BY <2>1, FS_Interval
<1>2. Arrivals = { f[i] : i \in I } /\ \A i \in I : f[i].impl = remote[i].impl
  BY DEF Arrivals
<1>3. f \in [I -> Arrivals]
  BY DEF Arrivals
<1> HIDE DEF f, I
<1>4. \A i, j \in I : f[i] = f[j] => i = j
  BY <1>2 DEF I, LoopInv, SafeInv, ImplInv, RemoteInv
<1>5. f \in Bijection(I, Arrivals)
  BY <1>2, <1>3, <1>4 DEF Bijection, Injection, IsInjective, Surjection
<1>6. ExistsBijection(I, Arrivals)
  BY <1>5 DEF ExistsBijection
<1> QED BY <1>1, <1>6, FS_Bijection

LEMMA CountNext ==
  ASSUME NoWrap, LoopInv, CountInv, [Next]_vars
  PROVE  CountInv'
<1> USE DEF implVars, histVars
<1>0. /\ IsFiniteSet(events) /\ Cardinality(events) \in Nat
      /\ pc # "disposed" => unscheduled = Cardinality(events)
  BY FS_CardinalityType DEF CountInv
<1>1. ASSUME NEW d \in Delays, Schedule(d) \/ StopAt(d) \/ ScheduleWithContext(d)
      PROVE  CountInv'
  <2>1. /\ events' = events \cup {NewEvent(d)} /\ unscheduled' = unscheduled + 1
        /\ NewEvent(d).uid = uid /\ pc # "disposed"
    BY <1>1 DEF Schedule, StopAt, ScheduleWithContext, Insert, NewEvent, CanCall
  <2>2. NewEvent(d) \notin events
    BY <2>1, LoopFacts
  <2>3. /\ IsFiniteSet(events \cup {NewEvent(d)})
        /\ Cardinality(events \cup {NewEvent(d)}) = Cardinality(events) + 1
    BY <1>0, <2>2, FS_AddElement
  <2> QED BY <1>0, <2>1, <2>3 DEF CountInv
<1>2. ASSUME NEW id \in ids, Remove(id) PROVE CountInv'
  <2>0. pc # "disposed" /\ id.uid # DESTROY
    BY <1>2 DEF Remove, CanCall
  <2>1. CASE IsExpired(id)
    BY <1>0, <1>2, <2>1 DEF Remove, CountInv
  <2>2. CASE ~IsExpired(id)
    <3>1. id \in events
      BY <2>0, <2>2, ExpiredGone DEF LoopInv, SafeInv, ExpiredIffGone, Live
    <3>2. events' = events \ {id} /\ unscheduled' = unscheduled - 1
      BY <1>2, <2>2 DEF Remove
    <3>3. /\ IsFiniteSet(events \ {id})
          /\ Cardinality(events \ {id}) = Cardinality(events) - 1
      BY <1>0, <3>1, FS_RemoveElement
    <3> QED BY <1>0, <2>0, <3>2, <3>3 DEF CountInv
  <2> QED BY <2>1, <2>2
<1>3. CASE DrainAtRun \/ Drain
  <2>0. ProcessEventsWithContext /\ pc # "disposed"
    BY <1>3 DEF DrainAtRun, Drain, Goto
  <2>1. CASE remoteEmpty
    BY <1>0, <2>0, <2>1 DEF ProcessEventsWithContext, CountInv
  <2>2. CASE ~remoteEmpty
    <3>1. /\ events' = events \cup Arrivals
          /\ unscheduled' = unscheduled + Len(remote)
      BY <2>0, <2>2 DEF ProcessEventsWithContext
    <3>2. events \cap Arrivals = {}
      <4>1. \A a \in Arrivals : a.uid \in Nat /\ uid <= a.uid
        BY ArrivalRange DEF LoopInv, SafeInv
      <4> QED BY <4>1, LoopFacts
    <3>3. Cardinality(events \cap Arrivals) = 0
      BY <3>2, FS_EmptySet
    <3>4. /\ IsFiniteSet(Arrivals) /\ Cardinality(Arrivals) = Len(remote)
          /\ Len(remote) \in Nat
      BY ArrivalCount, FS_CardinalityType
    <3>5. /\ IsFiniteSet(events \cup Arrivals)
          /\ Cardinality(events \cup Arrivals)
               = Cardinality(events) + Cardinality(Arrivals)
                 - Cardinality(events \cap Arrivals)
      BY <1>0, <3>4, FS_Union
    <3> QED BY <1>0, <2>0, <3>1, <3>3, <3>4, <3>5 DEF CountInv
  <2> QED BY <2>1, <2>2
<1>4. ASSUME NEW e \in events, SkipCancelled(e) \/ Invoke(e) PROVE CountInv'
  <2>1. /\ events' = events \ {e} /\ unscheduled' = unscheduled - 1
        /\ pc # "disposed"
    BY <1>4 DEF SkipCancelled, Invoke, Dequeue
  <2>2. /\ IsFiniteSet(events \ {e})
        /\ Cardinality(events \ {e}) = Cardinality(events) - 1
    BY <1>0, FS_RemoveElement
  <2> QED BY <1>0, <2>1, <2>2 DEF CountInv
<1>5. CASE DoDispose
  BY <1>5, FS_EmptySet DEF DoDispose, Goto, CountInv
<1>6. CASE \/ ScheduleDestroy \/ StopNow \/ HandlerReturns \/ Run \/ Destroy
           \/ DestroyOne \/ RunReturns \/ UNCHANGED vars
           \/ \E d \in Delays : Post(d)
           \/ \E id \in ids : Cancel(id) \/ RemoveDestroy(id)
  <2>1. UNCHANGED <<events, unscheduled>>
    BY <1>6 DEF ScheduleDestroy, StopNow, HandlerReturns, Run, Destroy, DestroyOne,
                RunReturns, Post, Cancel, RemoveDestroy, vars
  <2>2. pc' # "disposed" => pc # "disposed"
    BY <1>6 DEF ScheduleDestroy, StopNow, CanCall, HandlerReturns, Run, Destroy,
                DestroyOne, RunReturns, Post, Cancel, RemoveDestroy, vars, Goto
  <2> QED BY <1>0, <2>1, <2>2 DEF CountInv
<1> QED
  BY <1>1, <1>2, <1>3, <1>4, <1>5, <1>6 DEF Next, Api, Loop

\* As long as m_uid does not wrap around, m_unscheduledEvents is the number of
\* stored events, through drains, removals and cancellations.
THEOREM CountIsExact ==
  ASSUME NoWrap PROVE Spec => []CountsMatch
<1>1. Init => CountInv
  BY FS_EmptySet DEF Init, CountInv
<1>2. LoopInv /\ [Next]_vars => LoopInv'
  BY LoopNext
<1>3. LoopInv /\ CountInv /\ [Next]_vars => CountInv'
  BY CountNext
<1>4. CountInv => CountsMatch
  BY DEF CountInv, CountsMatch
<1> QED BY <1>1, <1>2, <1>3, <1>4, LoopInit, PTL DEF Spec

=============================================================================

------------------------ MODULE RealtimeSimulatorProofs ------------------------
(***************************************************************************)
(* Theorems about RealtimeSimulator, for every set of delays, every hard   *)
(* limit, every reach of the clock and every number of events.             *)
(***************************************************************************)
EXTENDS RealtimeSimulator, TLAPS

-----------------------------------------------------------------------------
(* Type correctness.                                                       *)

LEMMA ConstantTypes ==
  /\ Slack \in Nat /\ Epoch \in Nat /\ MaxClock \in Nat /\ MaxEvents \in Nat
  /\ MaxRuns \in Nat /\ \A d \in Delays : d \in Nat
BY RealtimeAssumption

LEMMA NewEventType ==
  ASSUME TypeOK, made < MaxEvents, NEW t \in Nat
  PROVE  [ts |-> t, uid |-> NewUid] \in Event
BY RealtimeAssumption DEF TypeOK, NewUid, VALID, Uids, Event

LEMMA InsertType ==
  ASSUME TypeOK, NEW t \in Nat, Insert(t)
  PROVE  /\ events' \in SUBSET Event /\ made' \in 0..MaxEvents
         /\ [ts |-> t, uid |-> NewUid] \in Event
         /\ condition' \in BOOLEAN
<1>1. made' \in 0..MaxEvents
  BY RealtimeAssumption DEF TypeOK, Insert
<1> QED BY <1>1, NewEventType DEF Insert, TypeOK

LEMMA TypeInit == Init => TypeOK
<1> SUFFICES ASSUME Init PROVE TypeOK
  OBVIOUS
<1>1. pc \in PCs /\ {stop, running, condition} \subseteq BOOLEAN
  BY DEF Init, PCs
<1>2. made \in 0..MaxEvents /\ runs \in 0..MaxRuns
  BY ConstantTypes DEF Init
<1> QED BY <1>1, <1>2 DEF Init, TypeOK

LEMMA TypeNext == TypeOK /\ [Next]_vars => TypeOK'
<1> SUFFICES ASSUME TypeOK, [Next]_vars PROVE TypeOK'
  OBVIOUS
<1> USE DEF idVars, histVars, waitVars, currentVars
<1>0. currentTs \in Nat /\ clock \in Nat /\ deadline \in Nat
  BY ConstantTypes DEF TypeOK
<1>a. ASSUME NEW d \in Delays, NEW t \in Nat PROVE t + d \in Nat
  BY ConstantTypes
<1>1. ASSUME NEW d \in Delays, Schedule(d) PROVE TypeOK'
  <2>1. currentTs + d \in Nat /\ Insert(currentTs + d)
    BY <1>0, <1>1, <1>a DEF Schedule
  <2> QED BY <1>1, <2>1, InsertType DEF Schedule, Insert, TypeOK
<1>2. ASSUME NEW d \in Delays, StopAt(d) PROVE TypeOK'
  <2>1. currentTs + d \in Nat /\ Insert(currentTs + d)
    BY <1>0, <1>2, <1>a DEF StopAt
  <2>2. NewUid \in Uids
    BY <2>1, InsertType DEF Event
  <2> QED BY <1>2, <2>1, <2>2, InsertType DEF StopAt, Insert, TypeOK
<1>3. ASSUME NEW d \in Delays, Post(d) PROVE TypeOK'
  <2>1. RealtimeNow + d \in Nat /\ Insert(RealtimeNow + d)
    BY <1>0, <1>3, <1>a DEF Post, RealtimeNow
  <2> QED BY <1>3, <2>1, InsertType DEF Post, Insert, TypeOK
<1>4. ASSUME NEW d \in Delays, ScheduleRealtime(d) PROVE TypeOK'
  <2>1. clock + d \in Nat /\ Insert(clock + d)
    BY <1>0, <1>4, <1>a DEF ScheduleRealtime
  <2> QED BY <1>4, <2>1, InsertType DEF ScheduleRealtime, Insert, TypeOK
<1>5. ASSUME NEW id \in ids, Cancel(id) \/ Remove(id) PROVE TypeOK'
  <2>1. id.uid \in Uids
    BY DEF TypeOK, Event
  <2> QED BY <1>5, <2>1 DEF Cancel, Remove, TypeOK
<1>6. CASE Stop
  BY <1>6 DEF Stop, TypeOK
<1>7. CASE Run
  <2>1. runs' \in 0..MaxRuns
    BY <1>7, ConstantTypes DEF Run, TypeOK
  <2>2. pc' \in PCs /\ {stop', running', condition'} \subseteq BOOLEAN
    BY <1>7 DEF Run, Goto, TypeOK, PCs
  <2> QED BY <1>7, <2>1, <2>2 DEF Run, TypeOK
<1>8. CASE SetOrigin
  BY <1>8, ConstantTypes DEF SetOrigin, Goto, TypeOK, PCs
<1>9. CASE Look \/ NapEnds \/ RunReturns \/ HandlerReturns
  BY <1>9 DEF Look, NapEnds, RunReturns, HandlerReturns, Goto, TypeOK, PCs
<1>10. CASE Plan
  <2>1. deadline' \in Nat
    BY <1>0, <1>10 DEF Plan, IsEarliest, TypeOK, Event
  <2> QED BY <1>10, <2>1 DEF Plan, Goto, TypeOK, PCs, Waits
<1>11. CASE BeginWait \/ SleepEnds \/ SpinEnds
  <2>1. pc' \in PCs
    BY <1>11 DEF BeginWait, SleepEnds, SpinEnds, Goto, PCs, Waits
  <2> QED BY <1>11, <2>1 DEF BeginWait, SleepEnds, SpinEnds, TypeOK
<1>12. ASSUME NEW e \in events, HardLimitExceeded(e) PROVE TypeOK'
  BY <1>12 DEF HardLimitExceeded, Goto, TypeOK, PCs
<1>13. ASSUME NEW e \in events, Invoke(e) PROVE TypeOK'
  <2>1. e.ts \in Nat /\ e.uid \in Uids
    BY DEF TypeOK, Event
  <2>2. stop' \in BOOLEAN /\ pc' \in PCs /\ invoked' \in SUBSET Uids
    BY <1>13, <2>1 DEF Invoke, TypeOK, PCs
  <2> QED BY <1>13, <2>1, <2>2 DEF Invoke, Dequeue, TypeOK
<1>14. CASE Tick
  <2>1. clock' \in 0..MaxClock
    BY <1>0, <1>14, ConstantTypes DEF Tick
  <2> QED BY <1>14, <2>1 DEF Tick, TypeOK
<1>15. CASE UNCHANGED vars
  BY <1>15 DEF vars, TypeOK
<1> QED
  BY <1>1, <1>2, <1>3, <1>4, <1>5, <1>6, <1>7, <1>8, <1>9, <1>10, <1>11, <1>12,
     <1>13, <1>14, <1>15 DEF Next, Main

\* The variables of the real-time loop keep their types.
THEOREM TypeCorrect == Spec => []TypeOK
BY TypeInit, TypeNext, PTL DEF Spec

-----------------------------------------------------------------------------
(* The wait.                                                               *)

\* While the main thread waits, and when the wait is over, the list holds an
\* event of the time it waits for or an earlier one; over means due.
DueInv ==
  /\ pc \in Waits \cup {"dispatch"} => \E e \in events : e.ts <= deadline
  /\ pc = "dispatch" => deadline <= clock

WaitInv == TypeOK /\ NoStaleWait /\ DueInv

LEMMA WaitInit == Init => WaitInv
BY TypeInit DEF Init, WaitInv, NoStaleWait, DueInv, Waits

LEMMA WaitNext == WaitInv /\ [Next]_vars => WaitInv'
<1> SUFFICES ASSUME WaitInv, [Next]_vars PROVE NoStaleWait' /\ DueInv'
  BY TypeNext DEF WaitInv
<1> USE DEF idVars, histVars, waitVars, currentVars
<1>0. /\ clock \in Nat /\ deadline \in Nat /\ Slack \in Nat
      /\ \A e \in events : e.ts \in Nat
      /\ condition \in BOOLEAN
      /\ NoStaleWait /\ DueInv
  BY RealtimeAssumption DEF WaitInv, TypeOK, Event
<1>1. ASSUME NEW t, Insert(t) PROVE NoStaleWait' /\ DueInv'
  BY <1>0, <1>1 DEF Insert, NoStaleWait, DueInv
<1>2. CASE Stop \/ UNCHANGED vars
  BY <1>0, <1>2 DEF Stop, vars, NoStaleWait, DueInv
<1>3. ASSUME NEW id \in ids, Cancel(id) \/ Remove(id) PROVE NoStaleWait' /\ DueInv'
  BY <1>3 DEF Cancel, Remove, CanCall, NoStaleWait, DueInv, Waits
<1>4. CASE Run \/ SetOrigin \/ NapEnds \/ RunReturns \/ HandlerReturns
  BY <1>4 DEF Run, SetOrigin, NapEnds, RunReturns, HandlerReturns, Goto, NoStaleWait, DueInv, Waits
<1>5. CASE Look
  BY <1>5 DEF Look, Goto, NoStaleWait, DueInv, Waits
<1>6. CASE Plan
  <2>1. PICK e \in events : /\ IsEarliest(e, events)
                            /\ deadline' = IF e.ts <= clock THEN clock ELSE e.ts
    BY <1>6 DEF Plan, IsEarliest
  <2>2. \A f \in events : e.ts <= f.ts
    BY <1>0, <2>1 DEF IsEarliest, Less
  <2>3. pc' = "sync" /\ UNCHANGED <<events, clock>>
    BY <1>6 DEF Plan, Goto
  <2>4. e.ts <= deadline' /\ (clock < deadline' => deadline' = e.ts)
    BY <1>0, <2>1
  <2>5. ~(clock' < deadline' /\ \E f \in events' : f.ts < deadline')
    BY <1>0, <2>2, <2>3, <2>4
  <2> QED BY <2>3, <2>4, <2>5 DEF NoStaleWait, DueInv
<1>7. CASE BeginWait \/ SleepEnds \/ SpinEnds
  <2>1. /\ UNCHANGED <<events, condition, clock, deadline>>
        /\ pc \in Waits
        /\ pc' \in {"sleep", "spin", "dispatch", "plan"}
    BY <1>7 DEF BeginWait, SleepEnds, SpinEnds, Goto, Waits
  <2>2. pc' = "dispatch" => deadline <= clock
    BY <1>0, <1>7 DEF BeginWait, SleepEnds, SpinEnds, Goto
  <2> QED BY <1>0, <2>1, <2>2 DEF NoStaleWait, DueInv, Waits
<1>8. ASSUME NEW e \in events, HardLimitExceeded(e) PROVE NoStaleWait' /\ DueInv'
  BY <1>8 DEF HardLimitExceeded, Goto, NoStaleWait, DueInv, Waits
<1>9. ASSUME NEW e \in events, Invoke(e) PROVE NoStaleWait' /\ DueInv'
  <2>1. pc' \in {"loop", "handler"}
    BY <1>9 DEF Invoke
  <2> QED BY <2>1 DEF NoStaleWait, DueInv, Waits
<1>10. CASE Tick
  BY <1>0, <1>10 DEF Tick, NoStaleWait, DueInv
<1> QED
  BY <1>1, <1>2, <1>3, <1>4, <1>5, <1>6, <1>7, <1>8, <1>9, <1>10
  DEF Next, Main, Schedule, StopAt, Post, ScheduleRealtime

\* No signal is lost between the reset of the condition under the mutex and the
\* wait outside of it (ProcessOneEvent, WallClockSynchronizer::DoSynchronize).
THEOREM WaitIsCurrent == Spec => []NoStaleWait
<1>1. WaitInv => NoStaleWait
  BY DEF WaitInv
<1> QED BY <1>1, WaitInit, WaitNext, PTL DEF Spec

\* An event that the main thread takes off the list is due.
LEMMA DequeuedIsDue ==
  ASSUME WaitInv, pc = "dispatch", NEW e \in events, IsEarliest(e, events)
  PROVE  e.ts <= clock
<1>1. PICK f \in events : f.ts <= deadline
  BY DEF WaitInv, DueInv
<1>2. e.ts \in Nat /\ f.ts \in Nat /\ deadline \in Nat /\ clock \in Nat
  BY RealtimeAssumption DEF WaitInv, TypeOK, Event
<1>3. e.ts <= f.ts
  BY <1>2 DEF IsEarliest, Less
<1> QED BY <1>1, <1>2, <1>3 DEF WaitInv, DueInv

LEMMA DueNext ==
  ASSUME WaitInv, [Next]_vars
  PROVE  \A e \in events : e \notin events' /\ pc = "dispatch" => e.ts <= clock
<1> USE DEF idVars, histVars, waitVars, currentVars
<1> SUFFICES ASSUME NEW e \in events, e \notin events', pc = "dispatch"
             PROVE  e.ts <= clock
  OBVIOUS
<1>1. ASSUME NEW f \in events, Invoke(f) PROVE e.ts <= clock
  <2>1. e = f /\ IsEarliest(f, events)
    BY <1>1 DEF Invoke, Dequeue
  <2> QED BY <2>1, DequeuedIsDue
<1>2. (\E f \in events : Invoke(f)) \/ events \subseteq events'
  BY DEF Next, Main, Schedule, StopAt, Post, ScheduleRealtime, Insert, Cancel, Remove,
         CanCall, Stop, Run, SetOrigin, Look, NapEnds, RunReturns, Plan, BeginWait,
         SleepEnds, SpinEnds, HardLimitExceeded, HandlerReturns, Tick, Goto, vars
<1> QED BY <1>1, <1>2

\* However the list changes during the wait, no event is executed before the
\* wall clock reaches its time.
THEOREM NothingRunsEarly == Spec => NeverEarly
<1>1. WaitInv /\ [Next]_vars
        => [\A e \in events : e \notin events' /\ pc = "dispatch" => e.ts <= clock]_vars
  BY DueNext
<1> QED BY <1>1, WaitInit, WaitNext, PTL DEF Spec, NeverEarly

-----------------------------------------------------------------------------
(* The refinement of the calendar, in the first run.                       *)

\* Simulation time does not pass the wall clock, nor any event of the list; the
\* first run starts at time zero.
AheadInv ==
  /\ currentTs <= clock
  /\ \A e \in events : currentTs <= e.ts
  /\ runs = 0 \/ pc = "origin" => currentTs = 0
  /\ runs = 0 => pc = "idle"

\* Uids are those handed out, an event of the list has its own, and what was
\* executed is not in the list.
UidInv ==
  /\ \A e \in events : e.uid < NewUid /\ e.uid \notin invoked
  /\ \A u \in invoked : u < NewUid
  /\ \A e, f \in events : e.uid = f.uid => e = f

LoopInv == WaitInv /\ AheadInv /\ UidInv

LEMMA LoopFacts ==
  ASSUME LoopInv
  PROVE  /\ currentTs \in Nat /\ clock \in Nat /\ made \in Nat /\ runs \in Nat
         /\ NewUid \in Nat /\ NewUid = VALID + made
         /\ \A e \in events : e.ts \in Nat /\ e.uid \in Nat /\ currentTs <= e.ts
         /\ \A u \in invoked : u \in Nat
<1>1. Uids \subseteq Nat
  BY ConstantTypes DEF Uids, VALID
<1>2. /\ currentTs \in Nat /\ clock \in Nat /\ made \in Nat /\ runs \in Nat
      /\ events \subseteq Event /\ invoked \subseteq Uids
  BY ConstantTypes DEF LoopInv, WaitInv, TypeOK
<1>3. NewUid \in Nat /\ NewUid = VALID + made
  BY <1>2 DEF NewUid, VALID
<1> QED BY <1>1, <1>2, <1>3 DEF LoopInv, AheadInv, Event

LEMMA LoopInit == Init => LoopInv
BY WaitInit, ConstantTypes DEF Init, LoopInv, AheadInv, UidInv

\* An insertion at the current time or later.
LEMMA InsertLoop ==
  ASSUME LoopInv, NEW t \in Nat, currentTs <= t, Insert(t)
  PROVE  AheadInv' /\ UidInv'
<1>1. /\ made' = made + 1 /\ NewUid' = NewUid + 1
      /\ events' = events \cup {[ts |-> t, uid |-> NewUid]}
      /\ UNCHANGED <<currentTs, clock, pc, invoked, runs>>
  BY LoopFacts DEF Insert, NewUid, VALID, currentVars, waitVars, histVars
<1>2. AheadInv'
  BY <1>1, LoopFacts DEF LoopInv, AheadInv
<1>3. \A e \in events' : e.uid < NewUid' /\ e.uid \notin invoked'
  BY <1>1, LoopFacts DEF LoopInv, UidInv
<1>4. \A u \in invoked' : u < NewUid'
  BY <1>1, LoopFacts DEF LoopInv, UidInv
<1>5. \A e, f \in events' : e.uid = f.uid => e = f
  BY <1>1, LoopFacts DEF LoopInv, UidInv
<1> QED BY <1>2, <1>3, <1>4, <1>5 DEF UidInv

\* When events are inserted: never before the current time.
LEMMA InsertTimes ==
  ASSUME LoopInv, NEW d \in Delays
  PROVE  \A t \in {currentTs + d, RealtimeNow + d, clock + d} : t \in Nat /\ currentTs <= t
BY LoopFacts, ConstantTypes DEF LoopInv, AheadInv, RealtimeNow

LEMMA LoopNext ==
  ASSUME MaxRuns = 1, LoopInv, [Next]_vars
  PROVE  LoopInv'
<1> USE DEF idVars, histVars, waitVars, currentVars
<1> SUFFICES AheadInv' /\ UidInv'
  BY WaitNext DEF LoopInv
<1>0. AheadInv /\ UidInv
  BY DEF LoopInv
<1>1. ASSUME NEW d \in Delays,
             Schedule(d) \/ StopAt(d) \/ Post(d) \/ ScheduleRealtime(d)
      PROVE  AheadInv' /\ UidInv'
  <2>1. PICK t \in {currentTs + d, RealtimeNow + d, clock + d} : Insert(t)
    BY <1>1 DEF Schedule, StopAt, Post, ScheduleRealtime
  <2>2. t \in Nat /\ currentTs <= t
    BY InsertTimes
  <2> QED BY <2>1, <2>2, InsertLoop
<1>2. ASSUME NEW id \in ids, Cancel(id) \/ Remove(id) PROVE AheadInv' /\ UidInv'
  <2>1. events' \subseteq events /\ UNCHANGED <<made, currentTs, clock, pc, invoked, runs>>
    BY <1>2 DEF Cancel, Remove
  <2> QED BY <1>0, <2>1 DEF AheadInv, UidInv, NewUid
<1>3. CASE Run
  <2>1. /\ pc = "idle" /\ pc' = "origin" /\ runs = 0 /\ runs' = 1
        /\ UNCHANGED <<events, made, currentTs, clock, invoked>>
    BY <1>3, LoopFacts DEF Run, Goto
  <2>2. currentTs = 0
    BY <1>0, <2>1 DEF AheadInv
  <2> QED BY <1>0, <2>1, <2>2 DEF AheadInv, UidInv, NewUid
<1>4. CASE SetOrigin
  <2>1. /\ pc = "origin" /\ pc' = "loop" /\ clock' = 0
        /\ UNCHANGED <<events, made, currentTs, invoked, runs>>
    BY <1>4 DEF SetOrigin, Goto
  <2>2. currentTs = 0 /\ runs # 0
    BY <1>0, <2>1 DEF AheadInv
  <2> QED BY <1>0, <2>1, <2>2 DEF AheadInv, UidInv, NewUid
<1>5. CASE Stop \/ Look \/ NapEnds \/ RunReturns \/ Plan \/ BeginWait \/ SleepEnds
           \/ SpinEnds \/ HandlerReturns \/ UNCHANGED vars
           \/ \E e \in events : HardLimitExceeded(e)
  <2>1. UNCHANGED <<events, made, currentTs, clock, invoked, runs>>
    BY <1>5 DEF Stop, Look, NapEnds, RunReturns, Plan, BeginWait, SleepEnds, SpinEnds,
                HandlerReturns, HardLimitExceeded, vars
  <2>2. \/ pc' = pc
        \/ pc # "idle" /\ pc' = "idle"
        \/ pc \notin {"idle", "origin"} /\ pc' \notin {"idle", "origin"}
    BY <1>5 DEF Stop, Look, NapEnds, RunReturns, Plan, BeginWait, SleepEnds, SpinEnds,
                HandlerReturns, HardLimitExceeded, Goto, vars
  <2>3. runs \in {0, 1}
    BY DEF LoopInv, WaitInv, TypeOK
  <2>4. AheadInv'
    BY <1>0, <2>1, <2>2, <2>3 DEF AheadInv
  <2>5. UidInv'
    BY <1>0, <2>1 DEF UidInv, NewUid
  <2> QED BY <2>4, <2>5
<1>6. ASSUME NEW e \in events, Invoke(e) PROVE AheadInv' /\ UidInv'
  <2>1. /\ pc = "dispatch" /\ IsEarliest(e, events)
        /\ events' = events \ {e} /\ currentTs' = e.ts
        /\ pc' \in {"loop", "handler"}
        /\ invoked' \subseteq invoked \cup {e.uid}
        /\ UNCHANGED <<made, clock, runs>>
    BY <1>6 DEF Invoke, Dequeue
  <2>2. e.ts <= clock
    BY <2>1, DequeuedIsDue DEF LoopInv
  <2>3. \A f \in events' : e.ts <= f.ts
    BY <2>1, LoopFacts DEF IsEarliest, Less
  <2>4. runs # 0
    BY <1>0, <2>1 DEF AheadInv
  <2>5. AheadInv'
    BY <2>1, <2>2, <2>3, <2>4 DEF AheadInv
  <2>6. UidInv'
    BY <1>0, <2>1 DEF UidInv, NewUid
  <2> QED BY <2>5, <2>6
<1>7. CASE Tick
  <2>1. /\ clock' = clock + 1
        /\ UNCHANGED <<events, made, currentTs, invoked, runs, pc>>
    BY <1>7 DEF Tick
  <2> QED BY <1>0, <2>1, LoopFacts DEF AheadInv, UidInv, NewUid
<1> QED
  BY <1>1, <1>2, <1>3, <1>4, <1>5, <1>6, <1>7 DEF Next, Main

-----------------------------------------------------------------------------
AsCal(e) == [ts |-> e.ts, uid |-> e.uid, impl |-> e.uid]

LEMMA CalendarInit == Init => Calendar!CalInit
BY DEF Init, Calendar!CalInit, Pending, Live

\* The calendar's image of an insertion.
LEMMA InsertArrives ==
  ASSUME LoopInv, NEW t \in Nat, currentTs <= t, Insert(t)
  PROVE  Calendar!Arrive
<1> DEFINE n == [ts |-> t, uid |-> NewUid]
<1>1. /\ events' = events \cup {n}
      /\ UNCHANGED <<currentTs, cancelled, invoked>>
  BY DEF Insert, currentVars, histVars
<1>2. Pending \subseteq Pending' /\ Pending' \subseteq Pending \cup {AsCal(n)}
  BY <1>1 DEF Pending, Live, AsCal
<1>3. AsCal(n).ts >= currentTs /\ AsCal(n).impl \notin invoked
  BY LoopFacts DEF AsCal, LoopInv, UidInv
<1>4. \A f \in Pending : f.uid < AsCal(n).uid
  BY LoopFacts DEF AsCal, LoopInv, UidInv, Pending, Live
<1> QED BY <1>1, <1>2, <1>3, <1>4 DEF Calendar!Arrive

LEMMA CalendarNext ==
  ASSUME LoopInv, [Next]_vars
  PROVE  [Calendar!CalNext]_(Calendar!calVars)
<1> USE DEF idVars, histVars, waitVars, currentVars
<1>s. UNCHANGED <<currentTs, Pending, invoked>> => [Calendar!CalNext]_(Calendar!calVars)
  BY DEF Calendar!calVars
<1>a. Calendar!Arrive \/ Calendar!Withdraw \/ Calendar!Execute \/ Calendar!Tick
        => [Calendar!CalNext]_(Calendar!calVars)
  BY DEF Calendar!CalNext
<1>1. ASSUME NEW d \in Delays,
             Schedule(d) \/ StopAt(d) \/ Post(d) \/ ScheduleRealtime(d)
      PROVE  Calendar!Arrive
  <2>1. PICK t \in {currentTs + d, RealtimeNow + d, clock + d} : Insert(t)
    BY <1>1 DEF Schedule, StopAt, Post, ScheduleRealtime
  <2>2. t \in Nat /\ currentTs <= t
    BY InsertTimes
  <2> QED BY <2>1, <2>2, InsertArrives
<1>2. ASSUME NEW id \in ids, Cancel(id) \/ Remove(id) PROVE Calendar!Withdraw
  <2>1. /\ events' \subseteq events /\ cancelled \subseteq cancelled'
        /\ UNCHANGED <<currentTs, invoked>>
    BY <1>2 DEF Cancel, Remove
  <2> QED BY <2>1 DEF Calendar!Withdraw, Pending, Live
<1>3. CASE Stop \/ Run \/ SetOrigin \/ Look \/ NapEnds \/ RunReturns \/ Plan \/ BeginWait
           \/ SleepEnds \/ SpinEnds \/ HandlerReturns \/ Tick \/ UNCHANGED vars
           \/ \E e \in events : HardLimitExceeded(e)
  <2>1. UNCHANGED <<events, cancelled, currentTs, invoked>>
    BY <1>3 DEF Stop, Run, SetOrigin, Look, NapEnds, RunReturns, Plan, BeginWait, SleepEnds,
                SpinEnds, HandlerReturns, Tick, HardLimitExceeded, vars
  <2> QED BY <1>s, <2>1 DEF Pending, Live
<1>4. ASSUME NEW e \in events, Invoke(e) PROVE Calendar!Execute \/ Calendar!Tick
  <2>1. /\ IsEarliest(e, events) /\ events' = events \ {e} /\ currentTs' = e.ts
        /\ UNCHANGED cancelled
    BY <1>4 DEF Invoke, Dequeue
  <2>2. CASE e.uid \in cancelled
    <3>1. invoked' = invoked
      BY <1>4, <2>2 DEF Invoke
    <3>2. Pending' = Pending
      BY <2>1, <2>2 DEF Pending, Live
    <3>3. \A f \in Pending : e.ts <= f.ts
      BY <2>1, LoopFacts DEF Pending, Live, IsEarliest, Less
    <3>4. currentTs' >= currentTs
      BY <2>1, LoopFacts
    <3> QED BY <2>1, <3>1, <3>2, <3>3, <3>4 DEF Calendar!Tick
  <2>3. CASE e.uid \notin cancelled
    <3>1. invoked' = invoked \cup {AsCal(e).impl}
      BY <1>4, <2>3 DEF Invoke, AsCal
    <3>2. e \in Live /\ Live' = Live \ {e}
      BY <2>1, <2>3 DEF Live
    <3>3. \A f \in events : AsCal(f) = AsCal(e) => f = e
      BY DEF AsCal, LoopInv, UidInv
    <3>4. Pending = { AsCal(f) : f \in Live } /\ Pending' = { AsCal(f) : f \in Live' }
      BY DEF Pending, AsCal
    <3>5. AsCal(e) \in Pending /\ Pending' = Pending \ {AsCal(e)}
      BY <3>2, <3>3, <3>4 DEF Live
    <3>6. \A f \in Live : f # e => Less(e, f)
      BY <2>1 DEF IsEarliest, Live
    <3>7. Calendar!IsEarliest(AsCal(e), Pending)
      BY <3>4, <3>5, <3>6 DEF Calendar!IsEarliest, Calendar!Less, Less, AsCal
    <3>8. AsCal(e).impl \notin invoked
      BY DEF AsCal, LoopInv, UidInv
    <3>9. currentTs' = AsCal(e).ts
      BY <2>1 DEF AsCal
    <3> QED BY <3>1, <3>5, <3>7, <3>8, <3>9 DEF Calendar!Execute
  <2> QED BY <2>2, <2>3
<1> QED
  BY <1>a, <1>1, <1>2, <1>3, <1>4 DEF Next, Main

\* In its first run the real-time loop is a calendar: it executes the live events
\* one at a time, earliest first, ties in the order of arrival, each once, though
\* the wall clock decides when posts of other threads take place.
THEOREM LoopImplementsCalendar ==
  ASSUME MaxRuns = 1 PROVE Spec => ImplementsCalendar
<1>1. LoopInv /\ [Next]_vars => LoopInv'
  BY LoopNext
<1>2. LoopInv /\ [Next]_vars => [Calendar!CalNext]_(Calendar!calVars)
  BY CalendarNext
<1> QED
  BY <1>1, <1>2, LoopInit, CalendarInit, PTL
  DEF Spec, ImplementsCalendar, Calendar!CalSpec

=============================================================================

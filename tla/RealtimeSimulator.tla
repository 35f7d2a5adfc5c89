--------------------------- MODULE RealtimeSimulator ---------------------------
(***************************************************************************)
(* RealtimeSimulatorImpl with its WallClockSynchronizer: the event loop    *)
(* that executes each event when the wall clock reaches its time.  Between *)
(* events the main thread sleeps, then spins, outside the simulator's      *)
(* mutex; other threads insert events meanwhile and signal it, because     *)
(* theirs may be due first.                                                *)
(*                                                                         *)
(* An event is the record [ts, uid] of its key: m_uid is advanced by every *)
(* insertion, so that the uid tells the EventImpl objects apart.  Contexts *)
(* and the event counters are abstracted, destroy events are as in         *)
(* DefaultSimulator.  A critical section of m_mutex is one step.           *)
(***************************************************************************)
EXTENDS EventKey, FiniteSets

CONSTANTS
  Delays,      \* the delays callers pass
  HardLimits,  \* values of HardLimit; BestEffort is a limit beyond the clock
  Slack,       \* the three jiffies that are spun instead of slept
  Epoch,       \* the wall clock before SetOrigin: far from simulation time
  MaxClock,    \* bound: how far the wall clock advances in a run
  MaxEvents,   \* bound: events made
  MaxRuns      \* bound: calls of Run

ASSUME RealtimeAssumption ==
  /\ Delays \subseteq Nat /\ HardLimits \subseteq Nat
  /\ {Slack, Epoch, MaxClock, MaxEvents, MaxRuns} \subseteq Nat
  /\ \A d \in Delays : MaxClock + d < Epoch

VARIABLES
  events,     \* m_events
  made,       \* events created: m_uid - VALID
  currentTs,  \* m_currentTs
  currentUid, \* m_currentUid
  stop,       \* m_stop
  running,    \* m_running
  condition,  \* the synchronizer's m_condition
  clock,      \* the synchronizer's normalized real time
  deadline,   \* tsNow + tsDelay of the wait under way
  pc,         \* where the main thread is
  limit,      \* m_hardLimit
  cancelled,  \* uids with EventImpl::m_cancel set
  stopUids,   \* uids whose function is Simulator::Stop
  ids,        \* every EventId the API returned
  invoked,    \* history: uids whose function was called
  runs        \* history: calls of Run

currentVars == <<currentTs, currentUid>>
waitVars == <<clock, deadline>>
idVars == <<cancelled, stopUids, ids>>
histVars == <<invoked, runs>>
vars == <<events, made, currentVars, stop, running, condition, waitVars, pc,
          limit, idVars, histVars>>

\* Positions of the main thread: outside Run, between setting m_running and
\* the clock's origin, at the loop test, asleep for want of events, in
\* ProcessOneEvent before planning a wait, in Synchronize before waiting,
\* asleep, spinning, after it, in a handler, and after the fatal error.
Waits == {"sync", "sleep", "spin"}
PCs == {"idle", "origin", "loop", "nap", "plan", "dispatch", "handler", "fatal"} \cup Waits

VALID == 4
NewUid == VALID + made

IsExpired(id) ==
  \/ id.ts < currentTs
  \/ id.ts = currentTs /\ id.uid <= currentUid
  \/ id.uid \in cancelled

-----------------------------------------------------------------------------
(* Insertions.                                                             *)

\* Mutant: the waiting main thread is not told.
MutInsert(ts) ==
  /\ made < MaxEvents
  /\ events' = events \cup {[ts |-> ts, uid |-> NewUid]}
  /\ made' = made + 1
  /\ UNCHANGED <<currentVars, running, condition, waitVars, pc, limit, cancelled, histVars>>

\* The common end of the Schedule methods, under the mutex.
Insert(ts) ==
  /\ made < MaxEvents
  /\ events' = events \cup {[ts |-> ts, uid |-> NewUid]}
  /\ made' = made + 1
  /\ condition' = TRUE
  /\ UNCHANGED <<currentVars, running, waitVars, pc, limit, cancelled, histVars>>

\* The main thread calls the API between runs and from a handler.
CanCall == pc \in {"idle", "handler"}

\* Schedule and ScheduleNow; ScheduleWithContext on the main thread is the same
\* with an id nobody uses.
Schedule(d) ==
  /\ CanCall
  /\ Insert(currentTs + d)
  /\ ids' = ids \cup {[ts |-> currentTs + d, uid |-> NewUid]}
  /\ UNCHANGED <<stop, stopUids>>

\* Stop(delay): an ordinary event that calls Simulator::Stop.
StopAt(d) ==
  /\ CanCall
  /\ Insert(currentTs + d)
  /\ ids' = ids \cup {[ts |-> currentTs + d, uid |-> NewUid]}
  /\ stopUids' = stopUids \cup {NewUid}
  /\ UNCHANGED stop

\* Real time if the simulator is running, else where it stopped.
RealtimeNow == IF running THEN clock ELSE currentTs

\* ScheduleWithContext on another thread; with no delay
\* ScheduleRealtimeNowWithContext on any thread.
Post(d) ==
  /\ pc # "fatal"
  /\ Insert(RealtimeNow + d)
  /\ UNCHANGED <<stop, stopUids, ids>>

\* ScheduleRealtimeWithContext, on any thread.
ScheduleRealtime(d) ==
  /\ pc # "fatal"
  /\ Insert(clock + d)
  /\ UNCHANGED <<stop, stopUids, ids>>

-----------------------------------------------------------------------------
(* Cancellations, by the main thread, and Stop, by any.                    *)

Cancel(id) ==
  /\ CanCall
  /\ cancelled' = IF IsExpired(id) THEN cancelled ELSE cancelled \cup {id.uid}
  /\ UNCHANGED <<events, made, currentVars, stop, running, condition, waitVars,
                 pc, limit, stopUids, ids, histVars>>

Remove(id) ==
  /\ CanCall /\ ~IsExpired(id)
  /\ events' = events \ {id}
  /\ cancelled' = cancelled \cup {id.uid}
  /\ UNCHANGED <<made, currentVars, stop, running, condition, waitVars, pc,
                 limit, stopUids, ids, histVars>>

Stop ==
  /\ pc # "fatal"
  /\ stop' = TRUE
  /\ UNCHANGED <<events, made, currentVars, running, condition, waitVars, pc,
                 limit, idVars, histVars>>

-----------------------------------------------------------------------------
(* Run.                                                                    *)

Goto(p, q) == pc = p /\ pc' = q

Run ==
  /\ Goto("idle", "origin")
  /\ runs < MaxRuns
  /\ stop' = FALSE /\ running' = TRUE
  /\ runs' = runs + 1
  /\ UNCHANGED <<events, made, currentVars, condition, waitVars, limit, idVars, invoked>>

\* DoSetOrigin: the wall clock restarts from zero, whatever m_currentTs is.
SetOrigin ==
  /\ Goto("origin", "loop")
  /\ clock' = 0
  /\ UNCHANGED <<events, made, currentVars, stop, running, condition, deadline,
                 limit, idVars, histVars>>

\* The loop test and the look into the event list.  A Stop between the two is
\* a Stop after them.
Look ==
  /\ Goto("loop", IF events = {} THEN "nap" ELSE "plan")
  /\ ~stop
  /\ UNCHANGED <<events, made, currentVars, stop, running, condition, waitVars,
                 limit, idVars, histVars>>

\* Synchronize for one second: ended by a signal, also an old one, or by time.
NapEnds ==
  /\ Goto("nap", "loop")
  /\ UNCHANGED <<events, made, currentVars, stop, running, condition, waitVars,
                 limit, idVars, histVars>>

RunReturns ==
  /\ Goto("loop", "idle")
  /\ stop
  /\ running' = FALSE
  /\ UNCHANGED <<events, made, currentVars, stop, condition, waitVars, limit,
                 idVars, histVars>>

-----------------------------------------------------------------------------
(* ProcessOneEvent: plan a wait for the head of the event list, wait in    *)
(* Synchronize, start again if that was interrupted, execute the head.     *)

\* Mutant: a late event makes a negative delay.
MutPlan ==
  /\ Goto("plan", "sync")
  /\ \E e \in events : IsEarliest(e, events) /\ deadline' = e.ts - clock
  /\ condition' = FALSE
  /\ UNCHANGED <<events, made, currentVars, stop, running, clock, limit, idVars, histVars>>

Plan ==
  /\ Goto("plan", "sync")
  /\ \E e \in events : /\ IsEarliest(e, events)
                       /\ deadline' = IF e.ts <= clock THEN clock ELSE e.ts
  /\ condition' = FALSE
  /\ UNCHANGED <<events, made, currentVars, stop, running, clock, limit, idVars, histVars>>

\* Mutant: the condition is reset outside the critical section.
MutBeginWait ==
  /\ Goto("sync", IF deadline - clock > Slack THEN "sleep"
                  ELSE IF clock >= deadline THEN "dispatch" ELSE "spin")
  /\ condition' = FALSE
  /\ UNCHANGED <<events, made, currentVars, stop, running, waitVars, limit, idVars, histVars>>

\* DoSynchronize up to the wait.
BeginWait ==
  /\ Goto("sync", IF deadline - clock > Slack THEN "sleep"
                  ELSE IF clock >= deadline THEN "dispatch" ELSE "spin")
  /\ UNCHANGED <<events, made, currentVars, stop, running, condition, waitVars,
                 limit, idVars, histVars>>

\* Mutant: a signal counts as the end of the wait.
MutSleepEnds ==
  /\ \/ condition /\ Goto("sleep", "dispatch")
     \/ ~condition /\ clock + Slack >= deadline /\ Goto("sleep", "plan")
  /\ UNCHANGED <<events, made, currentVars, stop, running, condition, waitVars,
                 limit, idVars, histVars>>

\* SleepWait returns the condition: true when it was signalled, and then the
\* rest is spun; false when the time is over, which starts anew.
SleepEnds ==
  /\ \/ condition /\ Goto("sleep", IF clock >= deadline THEN "dispatch" ELSE "spin")
     \/ ~condition /\ clock + Slack >= deadline /\ Goto("sleep", "plan")
  /\ UNCHANGED <<events, made, currentVars, stop, running, condition, waitVars,
                 limit, idVars, histVars>>

\* SpinWait reads the clock, then the condition: both may have turned.
SpinEnds ==
  /\ \/ clock >= deadline /\ Goto("spin", "dispatch")
     \/ condition /\ Goto("spin", "plan")
  /\ UNCHANGED <<events, made, currentVars, stop, running, condition, waitVars,
                 limit, idVars, histVars>>

Jitter(e) == IF clock >= e.ts THEN clock - e.ts ELSE e.ts - clock

\* NS_FATAL_ERROR under the mutex: the program ends, and what it did since it
\* took the mutex is seen by nobody.
HardLimitExceeded(e) ==
  /\ Goto("dispatch", "fatal")
  /\ IsEarliest(e, events)
  /\ Jitter(e) > limit
  /\ UNCHANGED <<events, made, currentVars, stop, running, condition, waitVars,
                 limit, idVars, histVars>>

\* RemoveNext and the new current time, within the hard limit.
Dequeue(e) ==
  /\ pc = "dispatch"
  /\ IsEarliest(e, events)
  /\ Jitter(e) <= limit
  /\ events' = events \ {e}
  /\ currentTs' = e.ts /\ currentUid' = e.uid

\* Mutant: the cancelled flag is not tested.
MutInvoke(e) ==
  /\ Dequeue(e)
  /\ invoked' = invoked \cup {e.uid}
  /\ pc' = "handler"
  /\ UNCHANGED <<made, stop, running, condition, waitVars, limit, idVars, runs>>

\* EventImpl::Invoke: of a cancelled event nothing, of Simulator::Stop the flag.
Invoke(e) ==
  /\ Dequeue(e)
  /\ IF e.uid \in cancelled
     THEN pc' = "loop" /\ UNCHANGED <<stop, invoked>>
     ELSE /\ invoked' = invoked \cup {e.uid}
          /\ IF e.uid \in stopUids THEN pc' = "loop" /\ stop' = TRUE
                                   ELSE pc' = "handler" /\ UNCHANGED stop
  /\ UNCHANGED <<made, running, condition, waitVars, limit, idVars, runs>>

HandlerReturns ==
  /\ Goto("handler", "loop")
  /\ UNCHANGED <<events, made, currentVars, stop, running, condition, waitVars,
                 limit, idVars, histVars>>

\* The wall clock.
Tick ==
  /\ clock < MaxClock
  /\ clock' = clock + 1
  /\ UNCHANGED <<events, made, currentVars, stop, running, condition, deadline,
                 pc, limit, idVars, histVars>>

-----------------------------------------------------------------------------
Init ==
  /\ events = {} /\ made = 0
  /\ currentTs = 0 /\ currentUid = 0
  /\ stop = FALSE /\ running = FALSE
  /\ condition = FALSE
  /\ clock = Epoch /\ deadline = 0
  /\ pc = "idle"
  /\ limit \in HardLimits
  /\ cancelled = {} /\ stopUids = {} /\ ids = {}
  /\ invoked = {} /\ runs = 0

\* The main thread's own steps.
Main ==
  \/ SetOrigin \/ Look \/ NapEnds \/ RunReturns
  \/ Plan \/ BeginWait \/ SleepEnds \/ SpinEnds
  \/ \E e \in events : HardLimitExceeded(e) \/ Invoke(e)

Next ==
  \/ \E d \in Delays : Schedule(d) \/ StopAt(d) \/ Post(d) \/ ScheduleRealtime(d)
  \/ \E id \in ids : Cancel(id) \/ Remove(id)
  \/ Stop
  \/ Run
  \/ Main
  \/ HandlerReturns
  \/ Tick

Spec == Init /\ [][Next]_vars

\* The main thread keeps running, handlers return and time passes.
FairSpec == Spec /\ WF_vars(Main) /\ WF_vars(HandlerReturns) /\ WF_vars(Tick)

-----------------------------------------------------------------------------
(* Properties.                                                             *)

Uids == VALID..VALID + MaxEvents - 1
Event == [ts : Nat, uid : Uids]

\* Types of the variables, for the whole module.
TypeOK ==
  /\ events \in SUBSET Event /\ ids \in SUBSET Event
  /\ made \in 0..MaxEvents /\ runs \in 0..MaxRuns
  /\ currentTs \in Nat /\ currentUid \in Uids \cup {0}
  /\ {stop, running, condition} \subseteq BOOLEAN
  /\ clock \in 0..MaxClock \cup {Epoch} /\ deadline \in Nat
  /\ pc \in PCs
  /\ limit \in HardLimits
  /\ cancelled \in SUBSET Uids /\ stopUids \in SUBSET Uids /\ invoked \in SUBSET Uids

\* No signal is lost: while the main thread waits for a later event than the
\* first one, or sleeps for want of events though there are some, the
\* condition is set, which ends the wait.
NoStaleWait ==
  /\ pc \in Waits /\ clock < deadline /\ (\E e \in events : e.ts < deadline) => condition
  /\ pc = "nap" /\ events # {} => condition

\* What is taken off the list is due, though the list changes during the wait
\* and Synchronize tells only that the time planned for is over
\* (ProcessOneEvent: "it must be due").
NeverEarly ==
  [][\A e \in events : e \notin events' /\ pc = "dispatch" => e.ts <= clock]_vars

Live == { e \in events : e.uid \notin cancelled }

\* Every event that waits in a run is executed when its time comes, however
\* late it was inserted and whatever the main thread was waiting for, unless it
\* is cancelled or the run is stopped.
EveryEventRuns ==
  \A u \in Uids :
    (running /\ \E e \in Live : e.uid = u /\ e.ts <= MaxClock)
      ~> (u \in invoked \cup cancelled \/ stop \/ pc = "fatal")

Pending == { [ts |-> e.ts, uid |-> e.uid, impl |-> e.uid] : e \in Live }

\* In its first run the real-time loop implements the same calendar as the
\* default one: posts by real time never land before an executed event.
Calendar == INSTANCE EventCalendar
  WITH now <- currentTs, ran <- invoked, pending <- Pending
ImplementsCalendar == Calendar!CalSpec

=============================================================================

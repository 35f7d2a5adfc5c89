# ns-3.46: a TLA+ verification project

TLA+ models of the event loops of this ns-3 tree (sequential, real-time and distributed),
of its NR conditional handover, its LTE acknowledged-mode RLC and its LTE X2 handover,
checked with TLC and, for all of them but one event list, proved with TLAPS. Paths below are
relative to the repository root.

## 1. Inventory: the system and its parts

ns-3 is a discrete-event network simulator. Everything a simulated node does happens
inside an *event*: a function object with a time, kept in an event list and called by
one loop. Protocol modules never call each other at a later time directly; they
schedule events, keep the `EventId`s, and cancel them. A protocol model is therefore a
set of handlers that the loop calls one at a time in time order, and whatever is
concurrent in it comes from which events are pending. Threads and processes exist at two places:
`ScheduleWithContext` and its real-time relatives may be called from outside the main
thread (emulated devices, visualisers), and the distributed loops are one process per MPI rank.

| Component | State | Operations | Talks to | What is hard | What makes it correct |
|---|---|---|---|---|---|
| Event loop, `src/core/model/default-simulator-impl.cc` | event list, clock, current uid, next uid, counts, mutex-protected list of posts with its flag, destroy list, stop flag | Schedule, ScheduleNow, ScheduleWithContext (both threads), ScheduleDestroy, Cancel, Remove, IsExpired, Stop, Stop(delay), Run, Destroy | every module, by callbacks; the event list; posting threads | unlocked flag; posts timed and numbered late; expiry decided by comparing keys; uid overflow; stop | time order and FIFO ties; a revoked event never runs; nothing lost; counts exact; a post is not left behind |
| Event lists, `heap-scheduler.cc`, `calendar-scheduler.cc`, `list-`, `map-`, `priority-queue-scheduler.cc` | heap array; buckets with the pointer of the year scan | Insert, RemoveNext, PeekNext, Remove | the event loop only | removal from the middle, last parent with one child, resize and sampling, later years | RemoveNext returns the earliest event held; no event lost |
| Real-time loop, `realtime-simulator-impl.cc`, `wall-clock-synchronizer.cc` | event list under a mutex, synchronizer condition, wall clock | as above plus ScheduleRealtime | posting threads, the clock | an earlier event inserted while the loop waits; the window between planning a wait and waiting; lateness | order, no missed wake-up, nothing early |
| Timers, `timer.cc`, `watchdog.cc` | pending event, expiry or remaining time | Schedule, Suspend, Resume, Cancel, Ping | event loop | lazy re-arming, suspend at expiry | one expiry per arming, not early |
| Distributed loops, `src/mpi/model` | event list, safe time, guarantee per neighbour, remote devices, packets in transit | Run, null messages, packets, lookahead | other ranks by MPI | guarantees computed in the middle of a handler; everyone blocked; message in the past | no rank executes beyond what its neighbours guarantee; all ranks stop |
| NR conditional handover, `contrib/nr/model/nr-conditional-handover-algorithm.cc` | one attempt per RNTI with candidates, stored RSRPs, three EventIds, "command delivered" | measurement report, decision completed, preparation poll, command delivered, cancel, execute | `NrGnbRrc` (SAP calls, X2 preparation), the event loop | reports that overtake timers; events that outlive their attempt; partial preparation; attributes changed at run time | no stray events, every attempt driven, a handover matches a report and the condition |
| LTE RLC AM, `src/lte/model/lte-rlc-am.cc` | windows, transmission/retransmission buffers, timers | transmit opportunity, receive PDU, status, timer expiries | MAC, PDCP | loss, duplication, window stall, sequence number wrap | in-order delivery once; window never exceeded |
| LTE RRC and X2, `lte-enb-rrc.cc`, `lte-ue-rrc.cc`, `epc-x2.cc` | UE manager state per RNTI, timers | connection, reconfiguration, handover messages | peers by X2 and RRC messages | joining/leaving timeouts that cross messages, late messages after context removal, losses on air | one eNB serves the UE; eNBs and UE agree in the end; no context leaked |
| NR gNB MAC and scheduler, `contrib/nr/model/nr-gnb-mac.cc`, `nr-mac-scheduler-ns3.cc` | RNTI and HARQ tables | slot indications, RACH, HARQ feedback | PHY, RRC | feedback races, process reuse | one transmission per HARQ process |
| NR RRC protocol and no-op managers | – | serialise RRC messages; pass-through | RRC | – | – |
| Wi-Fi block ack, `src/wifi/model/block-ack-*.cc` | originator window, scoreboard | notify, BAR, discard | MAC queues | modulo-4096 arithmetic | window only moves forward |
| Internet (TCP, ARP, NDP), routing (AODV, OLSR, ...), traffic control | caches, tables, buffers | packets and timers | each other | timers against answers | entry state machines |
| PHY, channel, mobility, energy; helpers, attributes, traces | numeric models, configuration | – | – | – | no discrete state to check |

`contrib/nr` is incomplete in the tree: `nr-gnb-rrc.cc`, for one, is absent and is
modelled only as far as `nr-conditional-handover-algorithm.cc` calls it.

## 2. Modules

| Module | Models | Correspondence |
|---|---|---|
| `EventKey` | `Scheduler::EventKey::operator<` | `Less`, and `IsEarliest` from it |
| `EventCalendar` | abstract: what `Simulator` promises its users | pending events, the clock, the impls executed |
| `EventList` | abstract: what `Scheduler` promises the loop | the set of events held, what RemoveNext returned last |
| `DefaultSimulator` | `DefaultSimulatorImpl` | one variable per member (`m_events` → `events`, `m_uid` → `uid`, ...), one action per API method and per stretch of the loop between two points where another thread or the user's handler can act |
| `DefaultSimulatorProofs` | – | its safety invariants, the action properties, the counter and the refinement of `EventCalendar`, proved |
| `HeapScheduler` | `HeapScheduler` | the array is a sequence (item 0 of the code, which is unused, is left out); `BottomUp`, `TopDown`, `Exch`, `Smallest` are the methods of the same names, `UpStep` and `DownStep` an iteration of their loops |
| `HeapSchedulerProofs` | – | the heap loses nothing and, until the Remove that breaks its order, returns the earliest event; proved for arrays of every length |
| `CalendarScheduler` | `CalendarScheduler` | the buckets, the year pointer, `DoInsert`, `DoRemoveNext`, `Sample` and `Width` (`CalculateNewWidth`), `Resize*`; the attribute `Reverse` is chosen in `Init` |
| `CalendarSchedulerProofs` | – | the calendar queue implements `EventList`, for any number of events and any delays; proved |
| `RealtimeSimulator` | `RealtimeSimulatorImpl` with `WallClockSynchronizer` | `pc` is the main thread's position in `Run`, `ProcessOneEvent` and `DoSynchronize`; a critical section of `m_mutex` is one step; `Tick` is the wall clock |
| `RealtimeSimulatorProofs` | – | its safety properties and the refinement of `EventCalendar`, proved |
| `NullMessageSync` | `NullMessageSimulatorImpl`, `NullMessageMpiInterface`, `RemoteChannelBundle`, the remote point-to-point devices | one loop, clock, event list, safe time and set of guarantees per rank; MPI is a FIFO channel per ordered pair of ranks |
| `NullMessageSyncProofs` | – | the guarantees are kept and an ended run has left nothing behind, for any topology with one link per pair; proved |
| `ConditionalHandover` | `NrConditionalHandoverAlgorithm` | `pending` is `m_pendingCho`, `timers` the simulator events of the algorithm, one action per handler (`DoReportUeMeas` in the four ways it can end) |
| `ConditionalHandoverProofs` | – | its invariants and the handover property, proved for any number of UEs, cells and reports |
| `LteRlcAm` | `LteRlcAm`, `SequenceNumber10` | one transmitting and one receiving side, one action per kind of PDU and per timer, the MAC between them |
| `LteRlcAmProofs` | – | its safety properties, proved for every window, number and size of SDUs |
| `X2Handover` | `LteEnbRrc` and `UeManager` at several eNBs, `LteUeRrc`, `EpcX2` | one action per X2 or RRC handler and per timer; contexts, messages and timers of one UE |
| `X2HandoverProofs` | – | one eNB serves the UE and has one context for it, messages and timers find the contexts they are meant for, the UE is told; proved for any number of eNBs and handovers |
| `MC...` | – | constant values for TLC |

How they fit: `DefaultSimulator` keeps its event list as a set ordered by `EventKey`;
`CalendarScheduler` is checked against `EventList`, which is that
set, and proved to implement it; of `HeapScheduler` the runs show where it does not, and the proofs that it does until then. `DefaultSimulator` and `RealtimeSimulator` are checked against `EventCalendar`, and proved to implement
it. `NullMessageSync` takes from the event list that the earliest event comes first. The protocol models
(`ConditionalHandover`, `LteRlcAm`, `X2Handover`) take from the event loop that pending events are
executed, once, unless cancelled; their timers fire in any order, which covers every choice of the delay attributes.

Details of `DefaultSimulator` a reader should know:

- `pc` is the position of the main thread. `Post`, the call from another thread, is
  enabled at every position; the push and the flag are one critical section in the
  code. The read of the flag in `ProcessEventsWithContext` is outside the mutex: a stale
  value is the same behaviour as a `Post` that comes after the drain. Formally the unlocked
  read is a data race; the model takes the outcomes to be the old and the new value.
- `impl` numbers the EventImpl objects in the order they are created and stands for
  the pointer; an `EventId` and the scheduler's `Event` are then the same record.
  Contexts and the event counter (`m_eventCount`) are left out; `SetScheduler` moves the
  set unchanged and would be a stuttering step.
- Handlers may call any API method any number of times; a handler that is
  `Simulator::Stop` (from `Stop(delay)`) is executed at once.
- `invoked` and `revoked` are history variables.

`RealtimeSimulator`:

- The wait for an event is planned inside the mutex, where the condition is reset; the wait itself
  happens outside. A post in between must end it. It sleeps until three jiffies before the deadline and
  spins the rest; both ends race with signals, and the model lets a
  sleep end by either.
- Every insertion advances `m_uid`, so the uid tells the EventImpl objects apart and no `impl` is needed.
  Destroy events are as in the default loop and left out.
- `Epoch` is what the wall clock shows before `SetOrigin`: a time far from simulation time.

`NullMessageSync`:

- An event is `[ts, kind, of]`: of an application, a reception, the completion of a transmission,
  a null message due, a cancelled one ("void"), the stop. Ties are broken either way.
- A guarantee is computed where the code computes it: when a null message is sent, and in the middle of a handler
  when the device starts a packet. A handler may schedule events and send packets any number of times within the bounds.
- `Poll` takes any part of what was sent, because MPI need not have delivered the rest; `Block` takes one message.

`LteRlcAm`:

- Bytes are units; an SDU has `SduUnits` of them, and an opportunity cuts off any number. Sequence numbers
  count modulo `SnMod` in place of 1024, so that wrap-around happens within a few PDUs.
- The MAC and PHY below (`lte-enb-mac.cc`, `lte-ue-mac.cc`, `lte-spectrum-phy.cc`) are modelled only as the environment of the
  RLC: they may lose any PDU, and `DataOvertaking` bounds how many later ones overtake one, as HARQ retransmissions do. Opportunities
  come at any time, as the entities belong to a two-way connection, but are owed only for what was reported.

`ConditionalHandover`: the `EventId`s an attempt stores and the events really pending
are two pieces of state, so that a handler of an old attempt which fires on a new one
would be seen. The events themselves (`NewId`, `Timer`, `Firing`) are those of the default loop. `RrcExecute`,
`TargetAcks` and `TargetFails` are the RRC, which is not in the tree.

`X2Handover`:

- Contexts are numbered across the eNBs in the order they are made; the number stands for the RNTI, which in the
  code is also the X2 AP id. The UE has one bearer, so one TEID entry per eNB.
- X2 is a FIFO link per ordered pair of eNBs, for signalling and data together, as the point-to-point link is. Links are not ordered
  among one another.
- A handover has two reconfigurations: the command of the source, and one that the target sends once the path is switched, because
  setting up the bearer in a joining context leaves it pending (`lte-enb-rrc.cc:482`, 601-613, 998, 1679-1683). Until the second is
  completed the context is in `CONNECTION_RECONFIGURATION` and takes no trigger. Both, and the answers of the
  UE, travel by radio and may never arrive; the ideal RRC protocol is the case in which they arrive at once. RRC CONNECTION RELEASE and the UE's request to remove its context are
  zero-delay events in both protocols.
- An `NS_ASSERT` or `NS_FATAL_ERROR` of a handler that fails sets `aborted`, and nothing happens any more.

## 3. Runs

Every run says `CHECK_DEADLOCK FALSE` because a program ends: `Destroy` and the stop time are final, the
bounds on events, reports, SDUs and handovers are reached.

| Run | Question | Instance | Outcome |
|---|---|---|---|
| `simulator` | Is the loop's bookkeeping exact, is the order right, is nothing lost, does it implement `EventCalendar`? | delays {0, 1}, 3 events, no uid overflow | holds |
| `heap` | Does the heap lose nothing, and return the earliest event, up to the kind of Remove below? | delays {0, 1}, 7 insertions | holds |
| `heap_remove_order` | Does RemoveNext always return the earliest event (`scheduler.h:203`)? | same | violated |
| `calendar` | Does the calendar queue implement `EventList`? | delays near and far, 6 insertions, both bucket orders | holds |
| `realtime` | Is no event early, no wait stale, is every event executed whoever inserts it, does it implement `EventCalendar`? | delays {0, 2}, 3 events, wall clock up to 2, hard limit tight or none, one Run; 1.0 million states | holds |
| `nullmsg` | Are guarantees kept, is nothing received in the past, do all ranks stop with nothing left behind? | 3 ranks in a row, link delays 3 and 4, stop time 7, 3 packets; 0.5 million states | holds |
| `nullmsg_links` | Are guarantees kept with two links between two ranks (`remote-channel-bundle.h:147`)? | 2 ranks, 2 links, 2 packets | violated |
| `cho` | Are attempts driven by their own events, is the delivered command one the RRC holds, is a handover justified by the last report, is a prepared target used? | 1 UE, 2 cells, every report over 3 RSRP levels, 3 reports, margins {0, 1}, execution on and off; 0.1 million states | holds |
| `cho_condition` | Does the cell handed over to meet the execution condition? | the same, execution on | violated |
| `rlc` | Do the windows agree, is nothing forgotten, are SDUs handed up in order, once, all? | `SnMod` 4, 3 SDUs of 2 units, one PDU overtakes; 0.2 million states | holds |
| `x2` | Do messages and timers find the contexts they are meant for, does one eNB serve the UE, do eNBs and UE agree in the end? | 3 eNBs, 3 handovers, 1 forwarded packet; 0.2 million states | holds |
| `x2_stale` | Can no assertion of the handlers fail? | 2 eNBs, 1 handover | violated |

### What the violated runs show

- `heap_remove_order`: `HeapScheduler::Remove` moves the last item to the hole and only
  sifts it down. If the item belongs to another subtree it may precede its new parent;
  the heap order is lost and a later RemoveNext is not the earliest. Six or seven
  insertions and a Remove suffice, `misplaced` records that it happened, and
  `EarliestUnlessMisplaced` shows that this is the only way the heap goes wrong.
- `cho_condition`: the execution condition is tested for the best candidate, whereas
  `ExecuteCho` picks the best *prepared* candidate. The trace has `Hysteresis` or `A3Offset` changed between the report that opened the
  attempt and the delivery; with constant attributes the candidates all meet the condition.
- `nullmsg_links`: `SendPacket` attaches to a packet the guarantee computed from the *next* event in
  the list, while the present handler still runs. If that handler then sends on a second link to the same rank, the
  packet arrives before the guarantee. With one link per pair the device, busy or queueing, keeps
  this from happening; `NullMessageSyncProofs` proves it.
- `x2_stale`: the acknowledgement of a handover request is answered with `GetUeManager`, without the
  "check if the RNTI is not stale" the other X2 handlers have. A radio link failure of the UE during the preparation removes
  the context, and the assertion of `GetUeManager` fails.

### Other observations

Event loop

- `Stop(delay)` inserts an ordinary event, so events of the stop time that were scheduled before it still run, whereas
  `simulator.h:153` says `Run` returns when the next event's time is "greater than or equal to the stop time".
  That nothing *later* runs is proved (`StopIsNotPassed`).
- `m_uid` is a `uint32_t` without a check. After 2^32 events a later tied event has the smaller uid and runs first
  (against `events.rst:79`); the theorems say so by their hypothesis `NoWrap`.
- `Run` clears `m_stop`, so a `Stop()` before `Run()` has no effect; no document says what it should do.

Real-time loop

- `WallClockSynchronizer::DoSetOrigin` ignores its argument: in a second `Run` the wall clock restarts at 0 below `m_currentTs`, posts land before
  executed events and the assertions at lines 552, 593 and 625 can fail. `ImplementsCalendar` is therefore checked and proved for one Run.
- A post between `m_running = true` and `SetOrigin` gets the time of the unnormalised clock.
- `SleepWait` returns true when it was signalled, the opposite of its comment; its callers make up for it.
- `Stop` from another thread does not signal, so it takes effect when the wait under way ends. `Run` does
  not end for lack of events. `Remove` looks at `IsExpired` before it takes the lock. `ScheduleRealtimeWithContext` never sets the context.

Null messages

- When one rank stops earlier than another (different stop times, an immediate `Stop`), the other blocks in `MPI_Probe` for ever.
- A `SchedulerTune` that truncates a null message delay to 0 would have ranks exchange null messages of one time for ever; `NullMessageAssumption` excludes it.
- `Next` asserts on an empty list when no stop is scheduled.

Conditional handover

- With constant attributes the condition tested on delivery is the one that opened the attempt, with the same stored
  RSRPs, so the branch that monitors the execution condition over later reports is unreachable unless `Hysteresis` or
  `A3Offset` changes during the simulation (`CarriedOutOnDelivery`, proved).
- `CancelCho` leaves the prepared commands at the RRC; a later attempt takes them for
  its own. Whether a command expires is decided in `nr-gnb-rrc.cc`, which is not in the tree, so no property covers
  it. `CompleteChoAfterRandomAccess` is never called. The preparation poll has no timeout.

RLC

- The properties hold for STATUS PDUs that keep their order (`StatusOvertaking = 0`). When one overtakes another
  (try `SnMod` 6, `MaxSdus` 2, `StatusOvertaking` 1, `StatusInFlight` 2), a stale NACK fails the assertion at
  `lte-rlc-am.cc:1097`, and a stale ACK_SN below VT(A) makes the loop at line 1063 go around.
- `ExpireReorderingTimer` (1718) and `ExpireStatusProhibitTimer` do not report to the MAC, so the STATUS PDU
  they ask for leaves only when the MAC gives an opportunity for another reason. That is why
  `EverySduHandedUp` needs the transmitter's poll timer.

X2 handover

- Assertions that can fail, found with `NoAssertionFails`: the acknowledgement for a removed context (`x2_stale`); the path
  switch answer after the UE's context was removed (`EpcEnbApplication` keeps its RNTI); a HANDOVER CANCEL that reaches a
  target beyond `HANDOVER_JOINING`; X2-U data for a removed context; and, from four
  handovers on, the overwritten TEID entry (`lte-enb-rrc.cc:394`) of a UE that comes back by the third eNB. The other `Abort`s of the model,
  those of the two timeouts, of the failure, the release and the completion, are not reachable (`TimelyHandlersNeverAbort`); with the
  reconfigurations that are left out, for bearers that come or go, nothing is said of them.
- If the reconfiguration after the path switch or its completion is lost on air, the context stays in `CONNECTION_RECONFIGURATION`,
  in which no timer runs, and ignores every further trigger (`lte-enb-rrc.cc:3131`) while the UE is served.
  `Settled` allows just this; nothing else keeps a connected context from `CONNECTED_NORMALLY`.
- A cancelled joining context has no timer any more and is removed only at the UE's own request. When the UE never got the command, it
  stays (`Settled` allows just this), against the description of `HandoverJoiningTimeoutDuration`
  in `lte-enb-rrc.h:1687`. It takes a joining timeout longer than the leaving timeout.
- With three eNBs and unequal X2 delays a UE can return to an eNB whose former context for it still waits for its
  release. That context's removal then erases the TEID entries of the new one. `OneContextServes` says this is the only way in which one eNB has two contexts.
- No timer runs in `HANDOVER_PREPARATION`; a lost X2 message, which a point-to-point link does not produce, would leave it for ever.

### Bounds, and why they are enough

- `MaxEvents` = 3 in `simulator` and `realtime`: a property relates at most a pending event, one
  tied or later event, and one that is posted, stopping or revoked meanwhile. Delays {0, 1} give ties,
  the present and the future; {0, 2} in `realtime` leave room for a sleep and a spin.
- `UidSpan` = 64 keeps `m_uid` from overflowing.
- `MaxEvents` = 7 in `heap`: the smallest heap in which an item can be moved below
  a parent it precedes has six; seven fills the third level, and parents with one child occur.
- `MaxEvents` = 6 in `calendar`: the bucket count doubles from 2 to 4 and halves
  to 1, sampling happens with 2 and more events, and the far delay leaves the current year.
- Three ranks in a row are the smallest topology in which a guarantee depends on another rank's; two delays make one
  neighbour's guarantee the binding one, first one then the other; the queue of a busy device is used. Application delays of 0 are covered by the theorems.
- Two cells are enough for "another candidate is prepared"; three reports are an attempt, its replacement and a last word. Any number of UEs is
  covered by the theorems.
- `SnMod` = 4 has windows of two and wraps several times within three SDUs; one overtaking PDU makes gaps, duplicates and
  the reordering timer happen.
- Three handovers between three eNBs are enough to come back to the first eNB by another link than the one by which it was left.

### Fairness

- `DefaultSimulator`: the main thread keeps executing the loop
  (`Run` is a `while`) and handlers return; nothing is assumed of the user's
  program, of posting threads or of `Run` being called.
- `RealtimeSimulator`: the same, and the wall clock advances.
- `NullMessageSync`: every rank's process keeps running.
- `ConditionalHandover`: pending events of each UE are executed, which is what
  `EveryEventResolves` says of the loop. Nothing is assumed of the RRC and the targets:
  `PreparedIsUsed` starts from a target that has prepared.
- `LteRlcAm`: timers expire; the MAC ends every transmission, gives opportunities for data that are reported over and over by
  `m_rbsTimer` and for a STATUS PDU it was told of; it does not lose for ever the PDUs that the receiver
  lacks, the polls or the STATUS PDUs.
- `X2Handover`: X2 delivers, the MME answers, events and timers are executed, a random access ends in success or failure.
  Nothing is assumed of what is on air, the reconfiguration after the path switch included.

## 4. Proofs

### The default loop

`DefaultSimulatorProofs` proves, for every set of delays and every `MaxEvents`:

| Theorem | Property | Assumption beyond `SimAssumption` |
|---|---|---|
| `TypeCorrect` | `TypeOK` | none, overflow of `m_uid` included |
| `FlagCorrect` | `FlagMatches`: the unlocked flag never hides a post | none |
| `EventsStayAhead` | `EventsAhead`: no stored event lies behind the current one | `NoWrap` |
| `ExpiredExactly` | `ExpiredIffGone` | `NoWrap` |
| `RevocationIsFinal` | `RevokedNeverRuns` | `NoWrap` |
| `LoopImplementsCalendar` | `ImplementsCalendar` | `NoWrap` |
| `TiesStayFifo` | `TiesAreFifo`, which is about the events that have an `EventId` (posts have none) | `NoWrap` |
| `StopIsNotPassed` | `NothingRunsPastStop`: nothing later than a pending `Stop(delay)` runs | `NoWrap` |
| `EndLosesNothing` | `NaturalEndLosesNothing` | `NoWrap` |
| `CountIsExact` | `CountsMatch` | `NoWrap` |

`SimAssumption` says that delays are naturals, that the uid counter has room for the reserved
values, and that it has more values than there can be events at once. `NoWrap`
(`VALID + MaxEvents < UidSpan`) says fewer than 2^32 - 4 events are created; without it
the properties are false, the order of ties for one. It is a hypothesis of the theorems, not
an assumption of the module.

The argument:

1. `TypeInv` adds to `TypeOK` that the posted list is no longer than the number of
   events made, which bounds the uids a drain hands out.
2. `OrderInv` = `TypeInv` and
   - `UidInv`: `uid + Len(remote) = VALID + made`, the current uid and every stored uid lie below `uid`.
     So a new event, also one drained late, ties behind what is stored and behind the current event;
   - `EventsAhead`: every stored event is later than the current one;
   - `GoneIsPast`: an id whose event left the list uncancelled is not ahead of the current event.

   `ExpiredIffGone` follows from the last two; neither is inductive without the uids. The step lemmas are by
   effect, not by action: a step inserts (`InsertOrder`), drains (`DrainOrder`),
   dequeues (`DequeueOrder`) or only takes out what it flags (`ShrinkOrder`).
3. `SafeInv` adds `ImplInv` (an EventImpl is known through one record and waits in one of
   the event list, the posted list and the destroy list, there once) and `RevokedInv` (what was revoked is flagged
   or waits nowhere). `ExpiredWaitsNowhere` is the heart: `Cancel` and `Remove` do nothing to an id that
   `IsExpired`, and that is right because such an event is in no list any more. Hence what is called is never revoked.

4. `LoopInv` adds `CalledInv`, an event that was called waits nowhere any more. It is
   what makes the refinement mapping work: the calendar's clock is `currentTs`, its pending
   events are the live ones, the impls it has run are `invoked` without the destroy
   events. Inserting and draining are arrivals in the calendar, withdrawing a live event is a
   cancellation, calling one is an execution, which asks that no live event is earlier
   (`EventsAhead`); everything else stutters.
5. `RunInv` adds `FifoInv` (of two stored events, the smaller uid belongs to the
   one scheduled first) and `ResolvedInv` (an event that has been scheduled waits, was called
   or was withdrawn). The first gives the tie order, the second that an ended run lost nothing.
6. `CountInv`: until it is disposed, `unscheduled` is the cardinality of the event list. A
   drain adds a whole sequence at once: `ArrivalCount` shows that as many events arrive as the
   sequence has entries, because they get distinct uids.

`TypeInv`, `OrderInv` and `SafeInv` were checked with TLC on the instance of `simulator` first.

### The real-time loop

`RealtimeSimulatorProofs`, for every set of delays, hard limits and bounds:

| Theorem | Property | Assumption beyond `RealtimeAssumption` |
|---|---|---|
| `TypeCorrect` | `TypeOK` | none |
| `WaitIsCurrent` | `NoStaleWait` | none |
| `NothingRunsEarly` | `NeverEarly` | none |
| `LoopImplementsCalendar` | `ImplementsCalendar` | `MaxRuns = 1` |

`WaitInv` is `NoStaleWait` with `DueInv`: while the main thread waits, and when the wait is over, the list holds an event of the time it
waits for or an earlier one, and when it goes on to dequeue that time has come. `LoopInv` is the
analogue of the default loop's, with `AheadInv` and `UidInv` for the order; posts take their time from the wall clock, which in the first Run is
never behind `m_currentTs`.

### Null messages

`NullMessageSyncProofs`, for any ranks, links, delays and tuning, under `SimpleTopology` (at most one link between two ranks; with two
the first property is false, see `nullmsg_links`; and no rank without a neighbour, for which the code has no safe time):

| Theorem | Property |
|---|---|
| `TypesHold` | `TypeOK` |
| `PromisesAreKept` | `GuaranteesKept` |
| `PastIsComplete` | `NoMessageInPast` |
| `RunIsComplete` | `NothingLeftBehind` |

`PromiseInv` is the conjunction of `TypeInv`, `RankInv` (a rank's safe time is at most the least of its guarantees, its events are
not behind its clock, it keeps a null event for every neighbour) and `PairInv` over ordered pairs: the promises a rank has made to
another come in order, and each is `Covered`: its time has come (`Passed`), or the device is busy until then
(`Pending`), or nothing but null messages happens before it (`Quiet`). The key point is that a guarantee is never lower than an
earlier one although `SendPacket` computes it from a list that changes: the completion or null event that bounded the earlier one
is still there.

`EndInv`, proved on top of it, is about one rank at a time: the stop event is due at the stop time and stays in the list until it is
executed, which is the only way to `stop`; hence the clock never passes the stop time and stands there when `Run` returns. What is
left then is not behind the clock: in the list by `RankInv`, under way by the promises. The rest of `EndInv` says that a busy device has its completion to
come and that only such a device queues packets, which together with `PromiseInv` gives `TypeOK`.

### The heap

`HeapSchedulerProofs`, for every number of events and every set of delays: `TypesHold` (`TypeOK`), `NothingLost` (`HoldsExactly`) and
`EarliestIsNext` (`EarliestUnlessMisplaced`). `HeapInv` says that the array holds the events held, each once, that their uids differ and are
those given out, and that, unless `misplaced`, no item precedes its parent (`Ordered`). A step is a sift, and a sift is a loop:
`BottomUpIs` and `TopDownIs` state what the loops do to any array. Their states stay in `Ups` and `Downs`, in which the items are the
original ones and the order is broken at the moving item only (`UpOrder`, `DownOrder`); `UpStepIs` and `DownStepIs` show that
an iteration keeps that, and that the position moves until nothing is to do, so that `Len(h)` iterations are enough. That a run of
the loop exists (`RunExists`) and the induction over it (`Climb`) come from the least number of a set (`NatMin`). `ExtractOrder` is where
`misplaced` comes in: the last item may sink from the hole if it does not precede the parent, which at the root it never does.

### The calendar queue

`CalendarSchedulerProofs`, for both orders of the buckets, every set of delays and every number of events up to the 32768 of `CalendarAssumption`
(beyond which the code stops doubling the buckets, a case that the model leaves out):

| Theorem | States |
|---|---|
| `CalendarInvariant` | `CalendarInv`, the inductive invariant |
| `TypesHold` | `TypeOK`: neither the width nor the number of buckets is ever zero, the pointer is at a bucket there is |
| `ImplementsEventList` | `ImplementsList`: RemoveNext hands back the earliest event held, and nothing is lost or handed back twice |

`CalendarInv` says that `qSize` counts the events held, and that the calendar is `Ready`: it holds them each in the bucket of its
time, in the order of the bucket and once (`Fills`); the pointer and `top` are at the year of the event handed back last (`Points`); and
nothing held is earlier than that event (`Ahead`), which is what the client promises. TLC checked it first. The argument:

1. A bucket is a sequence that lists a set in order (`Lists`). `PlacedIs`, `NextIs` and `ErasedIs` say that inserting, popping and erasing
   keep it so; the places are found by `SelectInSeq`, whose result is the least of a set of numbers (`FirstPlace`).
2. `DoRemoveNextIs` is the heart. By `Points` and `Ahead` the scan begins at the earliest year in which there can be an event. An event
   of year y is met in pass y - L from the year L of the pointer, if within one turn, and buckets that come before belong to earlier years
   that are empty. So the first hit is the earliest event, and without a hit the least of the first events of the buckets is. In both
   cases the pointer is left at the year of the event found.
3. `SampleIs`: the samples drawn to find the new width are different events, so that putting them back restores the calendar, whose pointer
   is then restored; they come in order, so that no separation is negative and the new width is not zero (`WidthIs`).
4. `DoResizeIs`: moving bucket after bucket to an empty calendar whose pointer is at the year of the last event handed back leaves a
   calendar that is ready again. Hence Resize, and ResizeUp and ResizeDown, lose nothing.

The loops are recursive functions; that they exist (`LoopExists`) and the induction over them (`Climb`) are as for the heap. Facts about
division (`DivBelow`, `DivMod`, `StepsDiffer`, `StepsReach`) tie times to years and years to buckets.

### Conditional handover

`ConditionalHandoverProofs`, for any number of UEs, cells, reports and margins: `TypeCorrect` (`TypeOK`),
`EventsOfTheirEntry` (`NoStrayTimers`), `DrivenByOneEvent` (`EveryAttemptDriven`), `DeliveredCommandIsHeld`
(`DeliveredIsPrepared`), `CarriedOutOnDelivery` (`ExecutedOnDelivery`: with constant attributes no UE waits with a delivered command) and `HandoverIsOfLastReport`
(`HandoverMatchesLastReport`). The invariant `ChoInv` is `CoreInv` (`Driven`: an attempt has exactly the event of its stage;
`OwnEvents`: no entry refers to an event of another UE; `Fresh`: the candidates
are neighbours of the last report that met the condition) and `RestInv`, the types of the rest.

### LTE RLC acknowledged mode

`LteRlcAmProofs`, for every window, number and size of SDUs, amount of loss and every bound on how far data PDUs overtake one another:

| Theorem | States |
|---|---|
| `ArqInvariant` | the inductive invariant of the protocol |
| `TypesHold` | `TypeOK` |
| `WindowsAgreeHolds` | `WindowsAgree` |
| `NothingForgottenHolds` | `NothingForgotten` |
| `InOrderOnceHolds` | `InOrderOnce` |

All are under the hypothesis `StatusOvertaking = 0`: STATUS PDUs keep their order. Without it the code's own assertions fail (section 3, RLC),
so the hypothesis is the weakest of its kind. `SafeInv` is `TypeInv`, `ArqInv` and `Streamed`, each checked with TLC first.

- `ArqInv` has five parts. `WindowInv`: VT(A), VR(R), VR(MS), VR(H) and VT(S) follow one another within one window, and the receiver
  buffers nothing outside VR(R) to VR(H). `ReorderInv`: what the reordering timer waits for lies below VR(X), and VR(MS) is not beyond
  the first sequence number missing from VR(X) on. `HeldInv`: the sender has all that the receiver misses, in one of its two buffers and
  never in both. `FlightInv`: no PDU is more than a window behind VT(S), so that an old one
  cannot be taken for a new one although numbers wrap around. `StatusInv`: a STATUS PDU under way reports missing only what the sender
  still holds, and everything the receiver misses below its ACK_SN; a later one names nothing that an earlier one has acknowledged.
- `Streamed` gives every PDU a place in the stream of SDU units: there is a `pos`, from sequence numbers to units, of which `StreamInv` says that
  a PDU holds the units from its place on, that the places of neighbouring PDUs join, and that what was handed up ends where the
  PDU at VR(R) begins. Hence the branches of the reassembly for a lost segment are never taken, and each SDU is handed up once and in order.

`Induction` over the units of a PDU comes from the least number of a set (`LeastOf`).

### X2 handover

`X2HandoverProofs`, for any number of eNBs, handovers and forwarded packets, from `X2Assumption` alone:

| Theorem | States |
|---|---|
| `TypeCorrect` | `TypeOK` |
| `TimersAreRight` | `TimersMatchStates` |
| `MessagesAreAwaited` | `MessagesAwaited` |
| `UeIsTold` | `UeWillBeTold` |
| `OneEnbServes` | `OneServes`, the first part of `OneContextServes` |
| `OneContextOfUe` | `OneContextServes`: nor has an eNB two contexts, a former one that waits for its release apart |
| `TimelyHandlersNeverAbort` | five assertions and fatal errors that are dead code as long as no other reconfiguration is asked for |

None of them is inductive. `HandoverInv`, which was checked with TLC first, follows a handover by what stands for it:

- `MessageInv` says what holds of the contexts while a message is under way, and `OrderInv` that a preparation is
  at most one message at a time: a request, then its acknowledgement or its failure, except that an
  acknowledgement may be followed, on the same channel, by the failure of the target it speaks of. Here the order of X2 is needed: were the failure
  first, the acknowledgement would find the context connected or in a later preparation.
- `Untouched(n)`: until the UE gets the command, the target context `n` has been neither completed nor made the source of
  another handover. An acknowledgement and a command on air speak of untouched contexts only.
- `ContextInv`, `UeInv` and `CommandInv` tie `source` to `target`: a context the UE has left is leaving or removed, and points to the one
  it left for.
- `ServeInv` is the heart: while a context serves the UE, it is on its way to none (`Coming`: a command on air, a random
  access, the completion of a joining on air), and it never is on its way to two. So a completed handover finds nobody else serving.
- `ReconfigurationInv`: while the UE is in connected mode, a reconfiguration on air without mobility control finds its context in `CONNECTION_RECONFIGURATION` and not yet
  completed, so that no completion reaches a context that does not wait for it.
- `ToldInv`: a UE whose context is gone has its release pending, or its source is still leaving, and no release of that
  source is under way, which would take it away before its timer tells the UE.

`ReturnInv`, proved on top of it, says where the former contexts of a UE that comes back are. While a target is asked for the UE, every
other context is leaving (`AskedInv`, `JoinInv`); a leaving context waits for the outcome of its handover or its release is under way
(`LeaveInv`); and the request is the last of what matters on its link, so a release on that link is handled before it. The former context at the eNB the UE comes back to (`FormerInv`)
hence has its release on another link, which is what `OneContextServes` allows. This too was checked with TLC first, with four handovers.

There is one lemma per action; `QuietKeeps` and `RemoveUeKeeps` are the parts several of them share.

### Only model-checked

Liveness (`EveryRankStops`, `EverySduHandedUp` and their like), which needs fairness and ENABLED. Every other
property that a passing run checks is a theorem as well, for every value of the constants that the hypotheses named above allow; the properties of the runs that expect a
violation are false of the code.

## 5. Not modelled, and the plan

Parts of the modelled components that are left out, with the reason:

- `DistributedSimulatorImpl`: the granted-time-window loop is a barrier with a reduction per window; it shares no code with the null
  messages and would be a small module of its own, the next candidate.
- `RealtimeSimulatorImpl::Destroy` and `SetScheduler`: as in the default loop.
- LTE RRC: connection establishment, reconfigurations other than those of a handover (bearers that come or go, changed
  configurations), handover between the cells of one eNB, reestablishment (not
  implemented in the code), the reconnection of a UE that left connected mode.
- `LteRlcAm`: the retransmission count, which is only logged, and resegmentation, which the code does not have.

Further candidates, in this order: `Watchdog` and `Timer` (lazy re-arming, suspend at expiry), the block acknowledgement window
of Wi-Fi, the states of ARP cache entries, AODV route entries.

Left out for good: PHY, propagation, mobility and energy models (floating-point
numerics), helpers, attribute and trace plumbing, examples, bindings, build files, and
TCP, which deserves a project of its own. `ListScheduler`, `MapScheduler` and
`PriorityQueueScheduler` delegate the order to a C++ container. The tree is of more than two thousand implementation
files; the models stand for the parts in which order, concurrency and failure matter most, a small share of
its lines.

## 6. Running

    tlc -config simulator.cfg MCDefaultSimulator.tla     # and so on: one .cfg per run
    tlapm DefaultSimulatorProofs.tla
    tlapm RealtimeSimulatorProofs.tla
    tlapm NullMessageSyncProofs.tla
    tlapm ConditionalHandoverProofs.tla
    tlapm X2HandoverProofs.tla
    tlapm LteRlcAmProofs.tla
    tlapm HeapSchedulerProofs.tla
    tlapm CalendarSchedulerProofs.tla

Operators named `Mut...` are deliberately wrong variants of the definitions that follow
them; substituting one makes the property it is paired with in `PROJECT.json` fail,
which shows that the property depends on that line of the code.

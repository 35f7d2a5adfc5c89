----------------------------- MODULE EventCalendar -----------------------------
(***************************************************************************)
(* What the ns-3 simulator promises its users (Simulator::Schedule,        *)
(* Cancel, Run): a calendar of pending events that are executed one at a   *)
(* time, each at its own time, earliest first and, among events of one     *)
(* time, first scheduled first; time never goes backwards; an event that   *)
(* was withdrawn is not executed.  DefaultSimulator implements it.         *)
(***************************************************************************)
EXTENDS EventKey

VARIABLES
  now,      \* current simulation time
  pending,  \* events scheduled and not withdrawn: records [ts, uid, impl]
  ran       \* impls of the events already executed

calVars == <<now, pending, ran>>

CalInit == now = 0 /\ pending = {} /\ ran = {}

\* New events join: none in the past, each behind those of the same time.
Arrive ==
  /\ pending \subseteq pending'
  /\ \A e \in pending' \ pending :
       /\ e.ts >= now
       /\ e.impl \notin ran
       /\ \A f \in pending : f.ts = e.ts => f.uid < e.uid
  /\ UNCHANGED <<now, ran>>

Withdraw == pending' \subseteq pending /\ UNCHANGED <<now, ran>>

Execute ==
  \E e \in pending :
    /\ IsEarliest(e, pending)
    /\ e.impl \notin ran
    /\ now' = e.ts
    /\ pending' = pending \ {e}
    /\ ran' = ran \cup {e.impl}

\* Time may pass up to the next pending event.
Tick ==
  /\ now' >= now
  /\ \A e \in pending : now' <= e.ts
  /\ UNCHANGED <<pending, ran>>

CalNext == Arrive \/ Withdraw \/ Execute \/ Tick

CalSpec == CalInit /\ [][CalNext]_calVars

=============================================================================

------------------------------- MODULE EventKey -------------------------------
(***************************************************************************)
(* The total order on scheduled events: Scheduler::EventKey and its        *)
(* operator<.  An event is a record with fields ts (EventKey::m_ts) and    *)
(* uid (EventKey::m_uid); the context is carried by the key but not        *)
(* compared.                                                               *)
(***************************************************************************)
EXTENDS Integers

\* Mutant: ties are broken the other way round.
MutLess(a, b) == a.ts < b.ts \/ (a.ts = b.ts /\ a.uid > b.uid)

Less(a, b) == a.ts < b.ts \/ (a.ts = b.ts /\ a.uid < b.uid)

\* e is the event every Scheduler subclass promises to return next.
IsEarliest(e, S) == e \in S /\ \A f \in S \ {e} : Less(e, f)

=============================================================================

------------------------------- MODULE EventList -------------------------------
(***************************************************************************)
(* What ns3::Scheduler promises the simulator: an event list whose         *)
(* RemoveNext hands back the earliest event it holds.  The subclasses      *)
(* HeapScheduler and CalendarScheduler are shown to implement it.          *)
(***************************************************************************)
EXTENDS EventKey

VARIABLES
  list,  \* the events held
  next   \* what the last RemoveNext handed back

listVars == <<list, next>>

NoEvent == [ts |-> 0, uid |-> 0]

ListInit == list = {} /\ next = NoEvent

ListInsert ==
  /\ \E e \in list' \ list : list' = list \cup {e}
  /\ UNCHANGED next

ListRemoveNext ==
  \E e \in list :
    /\ IsEarliest(e, list)
    /\ next' = e
    /\ list' = list \ {e}

ListRemove ==
  /\ \E e \in list : list' = list \ {e}
  /\ UNCHANGED next

ListNext == ListInsert \/ ListRemoveNext \/ ListRemove

ListSpec == ListInit /\ [][ListNext]_listVars

=============================================================================

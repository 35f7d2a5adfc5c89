--------------------------- MODULE MCHeapScheduler ---------------------------
(* Small instances of HeapScheduler: events that tie and events that do not. *)
EXTENDS HeapScheduler

ThreeDelays == {0, 1, 2}
TwoDelays == {0, 1}
=============================================================================

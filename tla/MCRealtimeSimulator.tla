------------------------- MODULE MCRealtimeSimulator -------------------------
(* A small instance of RealtimeSimulator for TLC.                           *)
EXTENDS RealtimeSimulator

\* The events of an instance are few, the reach of its clock short.
BestEffort == 100
Limits == {1, BestEffort}
=============================================================================

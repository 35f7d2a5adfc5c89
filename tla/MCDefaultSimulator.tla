------------------------- MODULE MCDefaultSimulator -------------------------
(* Small instances of DefaultSimulator for TLC: two delays, so that events  *)
(* tie and follow one another, and a handful of events.                     *)
EXTENDS DefaultSimulator

TwoDelays == {0, 1}
OneDelay == {1}
=============================================================================

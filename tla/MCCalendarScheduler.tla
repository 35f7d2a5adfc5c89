------------------------- MODULE MCCalendarScheduler -------------------------
(* Small instances of CalendarScheduler: ties, neighbours and an event that  *)
(* lies years ahead of the pointer.                                          *)
EXTENDS CalendarScheduler

NearAndFar == {0, 1, 9}
=============================================================================

-------------------------- MODULE MCCalendarHealth --------------------------
(* A finite instance of CalendarHealth. *)
EXTENDS CalendarHealth
=============================================================================

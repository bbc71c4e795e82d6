---------------------------- MODULE MCDBusCalls ----------------------------
(***************************************************************************)
(* The two timers of TIMER_UNITS.                                          *)
(***************************************************************************)
EXTENDS DBusCalls

TIMER_UNITS == <<"daily", "weekly">>
=============================================================================

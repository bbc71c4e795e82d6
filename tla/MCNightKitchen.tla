--------------------------- MODULE MCNightKitchen ---------------------------
(***************************************************************************)
(* A daily and a weekly runner.  They differ in their timers only, which   *)
(* may fire any time: the safety runs use that they are interchangeable.   *)
(***************************************************************************)
EXTENDS NightKitchen, TLC

CONSTANTS daily, weekly

Interchangeable == Permutations({daily, weekly})
=============================================================================

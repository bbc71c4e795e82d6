---------------------------- MODULE MCStartUnit ----------------------------
(***************************************************************************)
(* Two runners with targets of their own, as the daily and the weekly      *)
(* service start them.                                                     *)
(***************************************************************************)
EXTENDS StartUnit

CONSTANTS dailyRunner, weeklyRunner, dailyTarget, weeklyTarget

OwnTargets == [r \in Runners |-> IF r = dailyRunner THEN dailyTarget ELSE weeklyTarget]
=============================================================================

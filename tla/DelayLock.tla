------------------------------ MODULE DelayLock ------------------------------
(***************************************************************************)
(* What a delay inhibitor lock is for, seen from outside the daemon: a     *)
(* suspend or shutdown is announced, and if it was announced under a       *)
(* promise then the machine does not go down before the announcement has   *)
(* been acted upon.  A promise can be withdrawn (the holder died, or the   *)
(* service manager's patience ran out) but never acquired late.            *)
(*                                                                         *)
(* PowerMonitor implements this specification.                             *)
(***************************************************************************)
VARIABLES
  phase,      \* "idle", "announced" or "down"
  promised,   \* the operation was announced under a lock that still counts
  notified    \* the announcement has been acted upon

vars == <<phase, promised, notified>>

Init == phase = "idle" /\ promised = FALSE /\ notified = FALSE

Announce ==
  /\ phase = "idle"
  /\ phase' = "announced"
  /\ promised' \in BOOLEAN
  /\ notified' = FALSE

Notify == notified' = TRUE /\ UNCHANGED <<phase, promised>>

Withdraw == promised' = FALSE /\ UNCHANGED <<phase, notified>>

GoDown ==
  /\ phase = "announced"
  /\ promised => notified
  /\ phase' = "down"
  /\ UNCHANGED <<promised, notified>>

Return ==
  /\ phase = "down"
  /\ phase' = "idle"
  /\ UNCHANGED <<promised, notified>>

Next == Announce \/ Notify \/ Withdraw \/ GoDown \/ Return

Spec == Init /\ [][Next]_vars
=============================================================================

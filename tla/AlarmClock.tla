----------------------------- MODULE AlarmClock -----------------------------
(***************************************************************************)
(* What the scheduler promises before a shutdown, without timers, calls and*)
(* the RTC: a machine that goes off has promised to be on at certain times *)
(* and keeps the promise by itself; nothing is promised for a time that has*)
(* come already, and nothing is taken back while the machine is off.       *)
(***************************************************************************)
EXTENDS Integers

CONSTANTS Times, Start

VARIABLES
  now,     \* the time
  on,      \* the machine is on
  promise  \* the times it will be on at

vars == <<now, on, promise>>

AllAhead == \A t \in promise : now < t

Init == now = Start /\ on = TRUE /\ promise = {}

\* A running machine may make promises, and withdraw them.
Promise ==
  /\ on
  /\ promise' \subseteq Times
  /\ UNCHANGED <<now, on>>

SwitchOff ==
  /\ on /\ AllAhead
  /\ on' = FALSE
  /\ UNCHANGED <<now, promise>>

\* The machine comes on: for one of its promises, or for any other reason.
SwitchOn ==
  /\ ~on
  /\ on' = TRUE /\ promise' = {}
  /\ UNCHANGED now

Tick ==
  /\ now' = now + 1
  /\ \/ on /\ on' = TRUE /\ promise' \in {promise, {}}
     \/ ~on /\ on' = TRUE /\ promise' = {}
     \/ ~on /\ AllAhead' /\ UNCHANGED <<on, promise>>

Next == Tick \/ SwitchOff \/ SwitchOn \/ Promise

Spec == Init /\ [][Next]_vars
=============================================================================

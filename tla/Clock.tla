------------------------------- MODULE Clock -------------------------------
(***************************************************************************)
(* What the services around the gate have in common: the second counter    *)
(* that now_secs and SystemTime::now read, which only moves forward, and   *)
(* which service a behaviour is about.  The services share no other state, *)
(* so each is checked with the others at rest.                             *)
(***************************************************************************)
EXTENDS Integers

CONSTANT MaxClock       \* bound: the last second of a behaviour

ASSUME MaxClockAssumption == MaxClock \in Nat

VARIABLES clock, part

Tick == clock < MaxClock /\ clock' = clock + 1
=============================================================================

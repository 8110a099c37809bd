------------------------------- MODULE HubClock -------------------------------
(* Date.now() of one hub, coarse enough for the windows and TTLs it compares. *)
EXTENDS Integers

CONSTANT LastTick  \* the clock stops here

ASSUME ClockAssumption == LastTick \in Nat \ {0}

VARIABLE now

ClockInit == now = 1
Tick == now < LastTick /\ now' = now + 1
=============================================================================

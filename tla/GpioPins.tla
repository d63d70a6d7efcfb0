------------------------------- MODULE GpioPins -------------------------------
(***************************************************************************)
(* What writegpio promises of the pins between the Raspberry Pi and the    *)
(* processor: between the call and the return each pin it drives goes from *)
(* the level it has to the one asked for, once, at a moment of its own.    *)
(* This is what module Raspictl assumes of it.                             *)
(***************************************************************************)
CONSTANTS Pins

VARIABLES
    pins,       \* the pins that are up, as the processor sees them
    goal,       \* the pins that shall be up
    busy        \* a writegpio is in progress

vars == <<pins, goal, busy>>

Init == pins = {} /\ goal = {} /\ ~busy

Call == ~busy /\ busy' /\ goal' \in SUBSET Pins /\ UNCHANGED pins

Move ==
    /\ busy
    /\ \E up \in SUBSET (goal \ pins), down \in SUBSET (pins \ goal) :
         pins' = (pins \cup up) \ down
    /\ UNCHANGED <<goal, busy>>

Return == busy /\ ~busy' /\ pins' = goal /\ UNCHANGED goal

Next == Call \/ Move \/ Return
Spec == Init /\ [][Next]_vars
===============================================================================

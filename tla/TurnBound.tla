------------------------------ MODULE TurnBound ------------------------------
(***************************************************************************)
(* The bound on the turns of a session, for the task, its abstract life    *)
(* and the goroutines that use it.                                         *)
(***************************************************************************)
EXTENDS Naturals

CONSTANT MaxTurn      \* bound on the number of turns of one session

ASSUME MaxTurnAssumption == MaxTurn \in Nat
==============================================================================

----------------------------- MODULE SessionTask -----------------------------
(***************************************************************************)
(* The Task of internal/session/task.go: the state and the current turn of *)
(* one session, changed only by methods that hold the task's mutex, so     *)
(* each method is one action.  A method that returns an error changes      *)
(* nothing; its action is then not enabled, and a module that composes the *)
(* task says what its caller does with the error.                          *)
(*                                                                         *)
(* outcome is a history variable: how each turn was settled.               *)
(* updatedAt is left out: only Expired reads it.  turn is an int64 in the  *)
(* code; a session cannot begin 2^63 turns, so it does not wrap here.      *)
(***************************************************************************)
EXTENDS TurnBound

VARIABLES state, turn, outcome

taskVars == <<state, turn, outcome>>

States   == {"created", "negotiating", "active", "processing", "responding",
             "closed"}
Outcomes == {"none", "completed", "interrupted", "reset", "ended"}
Turns    == 1 .. MaxTurn

InTurn == state \in {"processing", "responding"}

TypeOK == /\ state \in States
          /\ turn \in 0 .. MaxTurn
          /\ outcome \in [Turns -> Outcomes]

NewTask == /\ state = "created"
           /\ turn = 0
           /\ outcome = [t \in Turns |-> "none"]

Settle(how) == outcome' = IF InTurn THEN [outcome EXCEPT ![turn] = how]
                                    ELSE outcome

BeginNegotiation == /\ state = "created"
                    /\ state' = "negotiating"
                    /\ UNCHANGED <<turn, outcome>>

\* Also from processing and responding: the turn in progress is dropped.
MarkActive == /\ state \in {"created", "negotiating", "processing", "responding"}
              /\ state' = "active"
              /\ Settle("reset")
              /\ UNCHANGED turn

StartTurn == /\ state = "active"
             /\ turn < MaxTurn
             /\ turn' = turn + 1
             /\ state' = "processing"
             /\ UNCHANGED outcome

\* EnsureTurn reuses the turn in progress and otherwise starts one.
ReuseTurn  == InTurn /\ UNCHANGED taskVars
EnsureTurn == StartTurn \/ ReuseTurn

StartResponse(t) == /\ state = "processing"
                    /\ t = turn
                    /\ state' = "responding"
                    /\ UNCHANGED <<turn, outcome>>

\* Mutants stand before the definition they replace.  This one does not check
\* the state.
CompleteTurnAnyState(t) == /\ t = turn
                           /\ state # "closed"
                           /\ state' = "active"
                           /\ outcome' = [outcome EXCEPT ![turn] = "completed"]
                           /\ UNCHANGED turn

CompleteTurn(t) == /\ t = turn
                   /\ InTurn
                   /\ state' = "active"
                   /\ Settle("completed")
                   /\ UNCHANGED turn

\* The turn is not advanced: NextTurnID is only announced.
Interrupt == /\ InTurn
             /\ state' = "active"
             /\ Settle("interrupted")
             /\ UNCHANGED turn

\* closing is never observable: End passes through it under the mutex.
End == /\ state # "closed"
       /\ state' = "closed"
       /\ Settle("ended")
       /\ UNCHANGED turn

\* Any goroutine may call any method, with any turn id it has ever seen.
Next == \/ BeginNegotiation
        \/ MarkActive
        \/ EnsureTurn
        \/ \E t \in Turns : StartResponse(t)
        \/ \E t \in Turns : CompleteTurn(t)
        \/ Interrupt
        \/ End

Spec == NewTask /\ [][Next]_taskVars
------------------------------------------------------------------------------
(* Properties. *)

\* A turn has no outcome exactly while it is the turn in progress, whatever
\* order StartTurn, Interrupt, CompleteTurn, MarkActive and End are called in:
\* no turn is left open behind a newer one, and none is settled early.
SettledUnlessCurrent ==
    \A t \in Turns : IF t > turn \/ (t = turn /\ InTurn)
                     THEN outcome[t] = "none"
                     ELSE outcome[t] # "none"

\* The abstract life of turn t, read off the task.
StatusOf(t) == IF t > turn THEN "unused"
               ELSE IF t = turn /\ InTurn THEN state
               ELSE outcome[t]

Lifecycle == INSTANCE TurnLifecycle
                 WITH status <- [t \in Turns |-> StatusOf(t)],
                      closed <- (state = "closed")

\* The task implements the turn lifecycle: turns begin in order and one at a
\* time, respond at most once, and keep their outcome; in particular a turn
\* that Interrupt settled is never completed by a late CompleteTurn.
TurnLifecycleSpec == Lifecycle!Spec
==============================================================================

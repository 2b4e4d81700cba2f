---------------------------- MODULE TurnLifecycle ----------------------------
(***************************************************************************)
(* What a voice session promises about its turns, with no session state,   *)
(* no mutex and no goroutine: turns begin in order and one at a time, a    *)
(* turn begins to respond at most once, and a turn that was settled        *)
(* (completed, interrupted, reset or ended) keeps that outcome for ever.   *)
(* SessionTask implements this specification.                              *)
(***************************************************************************)
EXTENDS TurnBound

VARIABLES status,     \* status[t]: where turn t is in its life
          closed      \* the session accepts no further turn

Turns == 1 .. MaxTurn
Open  == {"processing", "responding"}
Settled == {"completed", "interrupted", "reset", "ended"}

lifecycleVars == <<status, closed>>

Init == /\ status = [t \in Turns |-> "unused"]
        /\ closed = FALSE

\* A turn begins only when every earlier turn is settled.
Begin(t) == /\ ~closed
            /\ status[t] = "unused"
            /\ \A s \in Turns : s < t => status[s] \in Settled
            /\ status' = [status EXCEPT ![t] = "processing"]
            /\ UNCHANGED closed

Respond(t) == /\ ~closed
              /\ status[t] = "processing"
              /\ status' = [status EXCEPT ![t] = "responding"]
              /\ UNCHANGED closed

Settle(t) == /\ ~closed
             /\ status[t] \in Open
             /\ \E how \in Settled \ {"ended"} :
                   status' = [status EXCEPT ![t] = how]
             /\ UNCHANGED closed

\* Ending the session settles the open turn, if there is one, and is final.
Close == /\ ~closed
         /\ closed' = TRUE
         /\ status' = [t \in Turns |-> IF status[t] \in Open THEN "ended"
                                                            ELSE status[t]]

Next == \/ \E t \in Turns : Begin(t) \/ Respond(t) \/ Settle(t)
        \/ Close

Spec == Init /\ [][Next]_lifecycleVars
==============================================================================

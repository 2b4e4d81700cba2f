------------------------------ MODULE AsrStream ------------------------------
(***************************************************************************)
(* What ASRAdapter.Transcribe promises to who reads its channel: partial   *)
(* transcripts, then at most one final transcript, with nothing after it,  *)
(* and the channel is closed once.  A stream may end without a final.      *)
(***************************************************************************)
EXTENDS Sequences

VARIABLES events,   \* the transcripts sent so far
          ended     \* the channel is closed

vars == <<events, ended>>

Init == events = <<>> /\ ended = FALSE

Finished == events # <<>> /\ events[Len(events)] = "final"

Send(event) ==
    /\ ~ended /\ ~Finished
    /\ events' = Append(events, event)
    /\ UNCHANGED ended

End ==
    /\ ~ended
    /\ ended' = TRUE
    /\ UNCHANGED events

Next == End \/ \E event \in {"partial", "final"} : Send(event)

Spec == Init /\ [][Next]_vars
==============================================================================

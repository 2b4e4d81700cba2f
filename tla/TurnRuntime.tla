----------------------------- MODULE TurnRuntime -----------------------------
(***************************************************************************)
(* One session of the bot: the goroutines that share its Task, its ASR     *)
(* input, its reply's cancel handle and its downlink audio.                *)
(*                                                                         *)
(*   - a stretch of user speech u: the goroutine that endpointing starts   *)
(*     (rtc_manager onSpeechStart, control_runtime handleVADStart,         *)
(*     asr_runtime HandleSpeechStart), then the goroutine that forwards    *)
(*     its ASR stream (forwardEvents, HandleASREvent);                     *)
(*   - a reply r: response_runtime run, started for the final transcript   *)
(*     of speech r, or runAssistantTurn for the Opening greeting;          *)
(*   - DataChannel callbacks (open, turn.interrupt_hint), HTTP handlers,   *)
(*     session.close from signaling, the loss of the connection, and the   *)
(*     goroutine that ScheduleEnd leaves behind.                           *)
(*                                                                         *)
(* A step is what a goroutine does between two points where another can    *)
(* change what it uses next: one mutex section, or one call that blocks.   *)
(* The session's task is SessionTask; manager.Get fails exactly when the   *)
(* task is closed, because Manager.End closes and unregisters it under the *)
(* manager's mutex.  Audio, transcripts and events carry no content.       *)
(***************************************************************************)
EXTENDS TurnBound, FiniteSets

CONSTANTS Speech,      \* stretches of user speech
          Opening,     \* the reply that speaks the opening greeting
          NoRun,
          Events,      \* the outside events that happen, out of OutsideEvents
          MaxCalls     \* bound on the HTTP calls and interrupt hints together

ASSUME RunsAssumption == Opening \notin Speech /\ NoRun \notin Speech \cup {Opening}
ASSUME CallsAssumption == MaxCalls \in Nat

\* "track" is the end of the user's track alone.  A run leaves some of them out:
\* a client need not open its control channel, and without it there is no
\* greeting; an LLM need not end the call.
OutsideEvents == {"channel", "candidate", "hint", "http", "end_call", "close", "lost",
                  "track"}
ASSUME EventsAssumption == Events \subseteq OutsideEvents

\* Each stretch of speech, each call and the greeting begin at most one turn,
\* so the bound on turns never stops the model.
ASSUME TurnsSuffice == IsFiniteSet(Speech)
                       /\ MaxTurn = Cardinality(Speech) + MaxCalls + 1

Runs == Speech \cup {Opening}

VARIABLES
    state, turn, outcome,  \* the session's Task
    boot,         \* handleCreateSession, up to MarkActive
    channel,      \* the control DataChannel
    rtc,          \* the rtcManager's entry for the session
    track,        \* the goroutine of OnTrack, which reads the user's audio
    triggers,     \* calls of maybeStartOpeningTurn under way
    opener,       \* StartAssistantTurn
    speech,       \* speech[u]: where u's goroutine is
    heard,        \* heard[u]: the turn being answered when u began, 0 if none
    cutOff,       \* cutOff[u]: the turn that u interrupted, 0 if none
    input,        \* the speech whose ASR stream is asrRuntime.input, or NoRun
    hint, hintTurn,        \* the handler of turn.interrupt_hint
    http, httpTurn,        \* the handler of POST .../turns
    calls,        \* HTTP calls and hints so far
    run,          \* run[r]: where reply r is
    turnOf,       \* turnOf[r]: the turn of r's speech, ASR stream and reply
    cancelled,    \* replies whose context is cancelled
    spoke,        \* replies that produced a segment
    endCall,      \* replies whose LLM called end_call
    handle, handleTurn,    \* responseRuntime.cancel and currentTurn
    audio,        \* replies with audio queued in or played by the downlink
    closers       \* steps that a session end has left to do

taskVars   == <<state, turn, outcome>>
setupVars  == <<boot, channel, rtc, track, triggers, opener>>
speechVars == <<speech, heard, cutOff>>
callVars   == <<hint, hintTurn, http, httpTurn, calls>>
replyVars  == <<run, turnOf, cancelled, spoke, endCall, handle, handleTurn, audio>>
vars == <<taskVars, setupVars, speechVars, input, callVars, replyVars, closers>>

Task == INSTANCE SessionTask

SpeechSteps == {"idle", "vad", "interrupt", "cancel", "flush", "ensure",
                "attach", "start", "listen", "final", "install", "finalized",
                "drained", "done"}
RunSteps == {"none", "start", "ask", "stream", "tail", "wait", "drain",
             "drained", "complete", "schedule", "clear", "done"}

SetupTypeOK ==
    /\ boot \in {"negotiate", "activate", "done"}
    /\ channel \in {"closed", "opening", "ready"}
    /\ rtc \in [entry : {"live", "gone", "empty"}, opening : BOOLEAN,
                ending : Runs \cup {NoRun}]
    /\ track \in {"none", "live", "closing", "ended"}
    /\ triggers \in 0 .. 2
    /\ opener \in {"idle", "start", "install"}

SpeechTypeOK ==
    /\ speech \in [Speech -> SpeechSteps]
    /\ heard \in [Speech -> 0 .. MaxTurn]
    /\ cutOff \in [Speech -> 0 .. MaxTurn]
    /\ input \in Speech \cup {NoRun}

CallTypeOK ==
    /\ hint \in {"idle", "placeholder", "interrupt", "cancel", "flush"}
    /\ http \in {"idle", "respond"}
    /\ hintTurn \in 0 .. MaxTurn /\ httpTurn \in 0 .. MaxTurn
    /\ calls \in 0 .. MaxCalls

ReplyTypeOK ==
    /\ run \in [Runs -> RunSteps]
    /\ turnOf \in [Runs -> 0 .. MaxTurn]
    /\ cancelled \subseteq Runs /\ spoke \subseteq Runs /\ endCall \subseteq Runs
    /\ handle \in Runs \cup {NoRun} /\ handleTurn \in 0 .. MaxTurn
    /\ audio \subseteq Runs

TypeOK ==
    /\ Task!TypeOK /\ SetupTypeOK /\ SpeechTypeOK /\ CallTypeOK /\ ReplyTypeOK
    /\ closers \subseteq {"grace", "rtc", "task"}

Entry(entry) == [entry |-> entry, opening |-> FALSE, ending |-> NoRun]

Init ==
    /\ Task!NewTask
    /\ boot = "negotiate"
    /\ channel = "closed"
    /\ rtc = Entry("live")
    /\ track = "none"
    /\ triggers = 0
    /\ opener = "idle"
    /\ speech = [u \in Speech |-> "idle"]
    /\ heard = [u \in Speech |-> 0]
    /\ cutOff = [u \in Speech |-> 0]
    /\ input = NoRun
    /\ hint = "idle" /\ hintTurn = 0
    /\ http = "idle" /\ httpTurn = 0
    /\ calls = 0
    /\ run = [r \in Runs |-> "none"]
    /\ turnOf = [r \in Runs |-> 0]
    /\ cancelled = {} /\ spoke = {} /\ endCall = {}
    /\ handle = NoRun /\ handleTurn = 0
    /\ audio = {}
    /\ closers = {}
------------------------------------------------------------------------------
(* Shared steps. *)

\* manager.Get finds the task.
Registered == state # "closed"

\* The entry made by HandleOffer, with the runtimes that OnTrack puts in it.
Live == rtc.entry = "live"

\* interruptResponse calls Flush, which blocks, holding the rtcManager's mutex.
RtcFree == hint # "flush" /\ \A u \in Speech : speech[u] # "flush"

\* Mutants stand before the definition they replace.  This one forgets to drop
\* the handle it has cancelled.
CancelHandleKeepsIt ==
    /\ cancelled' = cancelled \cup ({handle} \ {NoRun})
    /\ UNCHANGED <<handle, handleTurn>>

\* cancelCurrent, first half: take the handle under the mutex and cancel it.
\* Nothing runs between the two that could tell them apart: a reply's check of
\* its context does not use the mutex.
CancelHandle ==
    /\ cancelled' = cancelled \cup ({handle} \ {NoRun})
    /\ handle' = NoRun
    /\ handleTurn' = 0

\* Mutant: empties the queue without counting the frames as done.
SilenceUncounted == audio' = {} /\ UNCHANGED run

\* cancelCurrent, second half: Flush empties the downlink, which releases the
\* replies that wait for it to be idle.
Silence ==
    /\ audio' = {}
    /\ run' = [r \in Runs |-> IF run[r] = "drain" THEN "drained" ELSE run[r]]

Flush == Silence /\ UNCHANGED <<turnOf, cancelled, spoke, endCall, handle, handleTurn>>

\* responseRuntime.completeTurn: the error of CompleteTurn is only logged.
TryComplete(t) ==
    \/ Task!CompleteTurn(t)
    \/ ~(t = turn /\ Task!InTurn) /\ UNCHANGED taskVars

MarkActive ==
    \/ Task!MarkActive
    \/ state \in {"active", "closed"} /\ UNCHANGED taskVars

\* rtcManager.Close: the entry goes, the ASR input and the reply are cancelled,
\* the downlink closes and releases who waits for it.
RtcClose ==
    /\ RtcFree
    /\ rtc' = Entry("gone")
    /\ IF Live
       THEN /\ input' = NoRun
            /\ CancelHandle
            /\ Silence
            /\ UNCHANGED <<turnOf, spoke, endCall>>
       ELSE UNCHANGED <<input, replyVars>>
    /\ UNCHANGED <<boot, channel, track, triggers, opener>>

\* markControlReady and HandleICECandidate make an entry when there is none.
EntryOnDemand == rtc' = IF rtc.entry = "gone" THEN Entry("empty") ELSE rtc
------------------------------------------------------------------------------
(* Setting the session up, and the opening greeting. *)

CreateSession ==
    /\ \/ /\ boot = "negotiate" /\ boot' = "activate"
          /\ \/ Task!BeginNegotiation
             \/ state # "created" /\ UNCHANGED taskVars
       \/ /\ boot = "activate" /\ boot' = "done"
          /\ MarkActive
    /\ UNCHANGED <<channel, rtc, track, triggers, opener, speechVars, input, callVars,
                   replyVars, closers>>

\* channel.OnOpen: whatever the task is doing, it becomes active.
ChannelOpen ==
    /\ "channel" \in Events
    /\ boot = "done" /\ channel = "closed" /\ Live
    /\ IF Registered THEN channel' = "opening" /\ MarkActive
                     ELSE UNCHANGED <<channel, taskVars>>
    /\ UNCHANGED <<boot, rtc, track, triggers, opener, speechVars, input, callVars,
                   replyVars, closers>>

\* channel.OnOpen, last: the ready handler (markControlReady).
ControlReady ==
    /\ channel = "opening" /\ RtcFree
    /\ channel' = "ready"
    /\ EntryOnDemand
    /\ triggers' = triggers + 1
    /\ UNCHANGED <<taskVars, boot, track, opener, speechVars, input, callVars,
                   replyVars, closers>>

\* A late candidate, when the entry is gone already.
LateCandidate ==
    /\ "candidate" \in Events /\ rtc.entry = "gone" /\ RtcFree
    /\ EntryOnDemand
    /\ UNCHANGED <<taskVars, boot, channel, track, triggers, opener, speechVars, input,
                   callVars, replyVars, closers>>

\* pc.OnTrack: the ASR, reply and downlink runtimes exist from here on.
TrackStart ==
    /\ boot = "done" /\ Live /\ track = "none" /\ RtcFree
    /\ track' = "live"
    /\ triggers' = triggers + 1
    /\ UNCHANGED <<taskVars, boot, channel, rtc, opener, speechVars, input, callVars,
                   replyVars, closers>>

\* pc.OnTrack, its deferred calls once ReadRTP fails: the downlink closes first,
\* which releases a reply that is not cancelled yet; then the reply and the ASR.
TrackEnds ==
    /\ \/ /\ track = "live" /\ ("track" \in Events \/ ~Live)
          /\ track' = "closing"
          /\ Silence
          /\ UNCHANGED <<input, cancelled, handle, handleTurn>>
       \/ /\ track = "closing"
          /\ track' = "ended"
          /\ CancelHandle
          /\ input' = NoRun
          /\ UNCHANGED <<audio, run>>
    /\ UNCHANGED <<taskVars, boot, channel, rtc, triggers, opener, speechVars, callVars,
                   turnOf, spoke, endCall, closers>>

\* Mutant: does not look whether the greeting was started already.
MaybeStartOpeningTurnAgain ==
    /\ triggers > 0 /\ RtcFree
    /\ triggers' = triggers - 1
    /\ IF Live /\ channel = "ready" /\ track # "none" /\ rtc.ending = NoRun
       THEN rtc' = [rtc EXCEPT !.opening = TRUE] /\ opener' = "start"
       ELSE UNCHANGED <<rtc, opener>>
    /\ UNCHANGED <<taskVars, boot, channel, track, speechVars, input, callVars,
                   replyVars, closers>>

MaybeStartOpeningTurn ==
    /\ triggers > 0 /\ RtcFree
    /\ triggers' = triggers - 1
    /\ IF Live /\ channel = "ready" /\ track # "none" /\ ~rtc.opening
          /\ rtc.ending = NoRun
       THEN rtc' = [rtc EXCEPT !.opening = TRUE] /\ opener' = "start"
       ELSE UNCHANGED <<rtc, opener>>
    /\ UNCHANGED <<taskVars, boot, channel, track, speechVars, input, callVars,
                   replyVars, closers>>

\* StartAssistantTurn up to the installation of its handle.
OpeningTurn ==
    /\ opener = "start"
    /\ \/ /\ Task!StartTurn
          /\ opener' = "install"
          /\ turnOf' = [turnOf EXCEPT ![Opening] = turn + 1]
          /\ UNCHANGED rtc
       \/ /\ state \notin {"active", "closed"}
          /\ RtcFree
          /\ opener' = "idle"
          /\ rtc' = [rtc EXCEPT !.opening = FALSE]
          /\ UNCHANGED <<taskVars, turnOf>>
       \/ /\ ~Registered
          /\ opener' = "idle"
          /\ UNCHANGED <<taskVars, turnOf, rtc>>
    /\ UNCHANGED <<boot, channel, track, triggers, speechVars, input, callVars, run,
                   cancelled, spoke, endCall, handle, handleTurn, audio, closers>>

\* The handle of a reply that another goroutine installed in between is lost.
OpeningInstall ==
    /\ opener = "install"
    /\ opener' = "idle"
    /\ handle' = Opening
    /\ handleTurn' = turnOf[Opening]
    /\ run' = [run EXCEPT ![Opening] = "start"]
    /\ UNCHANGED <<taskVars, boot, channel, rtc, track, triggers, speechVars, input,
                   callVars, turnOf, cancelled, spoke, endCall, audio, closers>>
------------------------------------------------------------------------------
(* A stretch of speech u: endpointing's onSpeechStart, in its own goroutine. *)

Goto(u, step) == speech' = [speech EXCEPT ![u] = step]

\* The goroutine returns, and its locals go.
Leave(u) == /\ Goto(u, "done")
            /\ heard' = [heard EXCEPT ![u] = 0]
            /\ cutOff' = [cutOff EXCEPT ![u] = 0]

\* isEnding, which is false of an entry that is gone.
SpeechStart(u) ==
    /\ speech[u] = "idle" /\ track \in {"live", "closing"} /\ RtcFree
    /\ Goto(u, IF rtc.ending = NoRun THEN "vad" ELSE "done")
    /\ UNCHANGED <<taskVars, setupVars, heard, cutOff, input, callVars, replyVars,
                   closers>>

\* handleVADStart reads a snapshot and decides by it in later steps.
VADSnapshot(u) ==
    /\ speech[u] = "vad"
    /\ Goto(u, CASE ~Registered -> "done"
                 [] state = "responding" -> "interrupt"
                 [] OTHER -> "ensure")
    /\ heard' = [heard EXCEPT ![u] = IF state = "responding" THEN turn ELSE 0]
    /\ UNCHANGED <<taskVars, setupVars, cutOff, input, callVars, replyVars, closers>>

\* On an error handleVADStart returns, and HandleSpeechStart follows.
VADInterrupt(u) ==
    /\ speech[u] = "interrupt"
    /\ \/ /\ Task!Interrupt
          /\ cutOff' = [cutOff EXCEPT ![u] = turn]
          /\ Goto(u, "cancel")
       \/ /\ ~Task!InTurn
          /\ Goto(u, "attach")
          /\ UNCHANGED <<taskVars, cutOff>>
    /\ UNCHANGED <<setupVars, heard, input, callVars, replyVars, closers>>

\* onInterrupt: rtcManager.interruptResponse.
VADCancel(u) ==
    /\ speech[u] = "cancel" /\ RtcFree
    /\ IF Live THEN CancelHandle /\ Goto(u, "flush")
                   ELSE UNCHANGED <<cancelled, handle, handleTurn>> /\ Goto(u, "ensure")
    /\ UNCHANGED <<taskVars, setupVars, heard, cutOff, input, callVars, run, turnOf,
                   spoke, endCall, audio, closers>>

\* Mutant: takes it that Interrupt moved the task to NextTurnID.
VADFlushTrustsInterrupt(u) ==
    /\ speech[u] = "flush"
    /\ Flush
    /\ Goto(u, "attach")
    /\ UNCHANGED <<taskVars, setupVars, heard, cutOff, input, callVars, closers>>

VADFlush(u) ==
    /\ speech[u] = "flush"
    /\ Flush
    /\ Goto(u, "ensure")
    /\ UNCHANGED <<taskVars, setupVars, heard, cutOff, input, callVars, closers>>

VADEnsureTurn(u) ==
    /\ speech[u] = "ensure"
    /\ \/ Task!EnsureTurn
       \/ state \notin {"active", "processing", "responding"} /\ UNCHANGED taskVars
    /\ Goto(u, "attach")
    /\ UNCHANGED <<setupVars, heard, cutOff, input, callVars, replyVars, closers>>

\* HandleSpeechStart reads the turn before it takes the ASR runtime's mutex.
ASRSnapshot(u) ==
    /\ speech[u] = "attach" /\ RtcFree
    /\ IF Live /\ Registered /\ turn # 0
       THEN /\ Goto(u, "start")
            /\ turnOf' = [turnOf EXCEPT ![u] = turn]
            /\ UNCHANGED <<heard, cutOff>>
       ELSE Leave(u) /\ UNCHANGED turnOf
    /\ UNCHANGED <<taskVars, setupVars, input, callVars, run,
                   cancelled, spoke, endCall, handle, handleTurn, audio, closers>>

\* An open input keeps the speech; a provider may also fail to start.
ASRStart(u) ==
    /\ speech[u] = "start"
    /\ \/ /\ input = NoRun
          /\ input' = u
          /\ Goto(u, "listen")
          /\ UNCHANGED <<heard, cutOff>>
       \/ Leave(u) /\ UNCHANGED input
    /\ UNCHANGED <<taskVars, setupVars, callVars, replyVars, closers>>

\* Endpointing's silence timeout: asrRuntime.HandleEndOfUtterance; and the end of
\* the PCM stream, which closes the input too (Attach).
EndOfUtterance ==
    /\ input # NoRun
    /\ (Live /\ RtcFree) \/ ~Live \/ track \in {"closing", "ended"}
    /\ input' = NoRun
    /\ UNCHANGED <<taskVars, setupVars, speechVars, callVars, replyVars, closers>>
------------------------------------------------------------------------------
(* The ASR stream of u: forwardEvents and HandleASREvent. *)

\* A final transcript, sent by the provider or promoted from a partial.
ASRFinal(u) ==
    /\ speech[u] = "listen"
    /\ CancelHandle
    /\ Goto(u, "final")
    /\ UNCHANGED <<taskVars, setupVars, heard, cutOff, input, callVars, run, turnOf,
                   spoke, endCall, audio, closers>>

ASREmptyFinal(u) ==
    /\ speech[u] = "listen"
    /\ TryComplete(turnOf[u])
    /\ Goto(u, "finalized")
    /\ UNCHANGED <<setupVars, heard, cutOff, input, callVars, replyVars, closers>>

\* The stream ends without any text: nobody is told.
ASRStreamEnds(u) ==
    /\ speech[u] = "listen"
    /\ Goto(u, "drained")
    /\ UNCHANGED <<taskVars, setupVars, heard, cutOff, input, callVars, replyVars,
                   closers>>

FinalFlush(u) ==
    /\ speech[u] = "final"
    /\ Flush
    /\ Goto(u, "install")
    /\ UNCHANGED <<taskVars, setupVars, heard, cutOff, input, callVars, closers>>

\* HandleASREvent, last: the new reply's handle, and go run.
InstallRun(u) ==
    /\ speech[u] = "install"
    /\ handle' = u
    /\ handleTurn' = turnOf[u]
    /\ run' = [run EXCEPT ![u] = "start"]
    /\ Goto(u, "finalized") \/ Goto(u, "drained")
    /\ UNCHANGED <<taskVars, setupVars, heard, cutOff, input, callVars, turnOf,
                   cancelled, spoke, endCall, audio, closers>>

\* Mutant: a stream that merely ends leaves its input in place.
ASRReleaseFinalOnly(u) ==
    /\ \/ speech[u] = "finalized" /\ input' = NoRun
       \/ speech[u] = "drained" /\ UNCHANGED input
    /\ Leave(u)
    /\ UNCHANGED <<taskVars, setupVars, callVars, replyVars, closers>>

\* After a final event the input is closed, whichever stream it belongs to;
\* when the stream merely ends, only its own.
ASRRelease(u) ==
    /\ \/ speech[u] = "finalized" /\ input' = NoRun
       \/ speech[u] = "drained" /\ input' = IF input = u THEN NoRun ELSE input
    /\ Leave(u)
    /\ UNCHANGED <<taskVars, setupVars, callVars, replyVars, closers>>
------------------------------------------------------------------------------
(* A reply r: run, and runAssistantTurn for the greeting. *)

Proceed(r, step) == run' = [run EXCEPT ![r] = step]

\* One of the three checks of ctx.Err().
UnlessCancelled(r, step) == Proceed(r, IF r \in cancelled THEN "clear" ELSE step)

\* Mutant: logs the error of StartResponse and answers all the same.
RunStartRegardless(r) ==
    /\ run[r] = "start"
    /\ Proceed(r, IF r = Opening THEN "stream" ELSE "ask")
    /\ Task!StartResponse(turnOf[r]) \/ (state # "processing" /\ UNCHANGED taskVars)
    /\ UNCHANGED <<setupVars, speechVars, input, callVars, turnOf, cancelled, spoke,
                   endCall, handle, handleTurn, audio, closers>>

\* The error of StartResponse ends the reply, and nothing completes the turn.
RunStart(r) ==
    /\ run[r] = "start"
    /\ \/ /\ Task!StartResponse(turnOf[r])
          /\ Proceed(r, IF r = Opening THEN "stream" ELSE "ask")
       \/ /\ ~(state = "processing" /\ turnOf[r] = turn)
          /\ Proceed(r, "clear")
          /\ UNCHANGED taskVars
    /\ UNCHANGED <<setupVars, speechVars, input, callVars, turnOf, cancelled, spoke,
                   endCall, handle, handleTurn, audio, closers>>

\* llm.Complete: on an error the turn is completed at once.
RunAsk(r) ==
    /\ run[r] = "ask"
    /\ \/ Proceed(r, "stream") /\ UNCHANGED taskVars
       \/ TryComplete(turnOf[r]) /\ Proceed(r, "clear")
    /\ UNCHANGED <<setupVars, speechVars, input, callVars, turnOf, cancelled, spoke,
                   endCall, handle, handleTurn, audio, closers>>

\* synthesizeSegment writes what the TTS stream still delivers, cancelled or not,
\* unless synthesis fails or the downlink is closed.
RunSpeak(r) ==
    /\ run[r] \in {"stream", "tail"}
    /\ spoke' = spoke \cup {r}
    /\ \/ Live /\ track = "live" /\ audio' = audio \cup {r}
       \/ UNCHANGED audio
    /\ UNCHANGED <<taskVars, setupVars, speechVars, input, callVars, run, turnOf,
                   cancelled, endCall, handle, handleTurn, closers>>

\* The LLM calls the end_call tool.
RunEndCall(r) ==
    /\ "end_call" \in Events /\ run[r] = "stream" /\ r # Opening
    /\ endCall' = endCall \cup {r}
    /\ UNCHANGED <<taskVars, setupVars, speechVars, input, callVars, run, turnOf,
                   cancelled, spoke, handle, handleTurn, audio, closers>>

\* The LLM stream and the segments in it are over, then the trailing segment.
RunStreamed(r) ==
    /\ \/ run[r] = "stream" /\ UnlessCancelled(r, IF r = Opening THEN "wait" ELSE "tail")
       \/ run[r] = "tail" /\ UnlessCancelled(r, "wait")
    /\ UNCHANGED <<taskVars, setupVars, speechVars, input, callVars, turnOf,
                   cancelled, spoke, endCall, handle, handleTurn, audio, closers>>

\* downlinkAudioWriter.WaitIdle, then the last check.
RunWait(r) ==
    /\ \/ /\ run[r] = "wait"
          /\ Proceed(r, IF audio # {} /\ r \in spoke \cup {Opening}
                        THEN "drain" ELSE "drained")
       \/ run[r] = "drained" /\ UnlessCancelled(r, "complete")
    /\ UNCHANGED <<taskVars, setupVars, speechVars, input, callVars, turnOf,
                   cancelled, spoke, endCall, handle, handleTurn, audio, closers>>

\* The error of CompleteTurn does not keep the reply from ending the call.
RunComplete(r) ==
    /\ run[r] = "complete"
    /\ TryComplete(turnOf[r])
    /\ Proceed(r, IF r \in endCall THEN "schedule" ELSE "clear")
    /\ UNCHANGED <<setupVars, speechVars, input, callVars, turnOf, cancelled, spoke,
                   endCall, handle, handleTurn, audio, closers>>

\* ScheduleEnd, unless the text does not look like a farewell.
RunScheduleEnd(r) ==
    /\ run[r] = "schedule" /\ RtcFree
    /\ \/ /\ rtc.entry # "gone" /\ rtc.ending = NoRun
          /\ rtc' = [rtc EXCEPT !.ending = r]
          /\ closers' = closers \cup {"grace"}
       \/ UNCHANGED <<rtc, closers>>
    /\ Proceed(r, "clear")
    /\ UNCHANGED <<taskVars, boot, channel, track, triggers, opener, speechVars, input,
                   callVars, turnOf, cancelled, spoke, endCall, handle, handleTurn,
                   audio>>

\* defer r.clear(turnID): the handle is dropped if it is of the same turn.  The
\* reply's context, directives and locals go with it.
RunClear(r) ==
    /\ run[r] = "clear"
    /\ Proceed(r, "done")
    /\ IF handleTurn = turnOf[r] THEN handleTurn' = 0 /\ handle' = NoRun
                                 ELSE UNCHANGED <<handle, handleTurn>>
    /\ cancelled' = cancelled \ {r}
    /\ spoke' = spoke \ {r}
    /\ endCall' = endCall \ {r}
    /\ UNCHANGED <<taskVars, setupVars, speechVars, input, callVars, turnOf, audio,
                   closers>>

\* The downlink has played everything it was given.
Played ==
    /\ audio # {}
    /\ Silence
    /\ UNCHANGED <<taskVars, setupVars, speechVars, input, callVars, turnOf,
                   cancelled, spoke, endCall, handle, handleTurn, closers>>
------------------------------------------------------------------------------
(* The client's interrupt hint, and the HTTP handlers. *)

Call(kind) == kind \in Events /\ calls < MaxCalls /\ calls' = calls + 1

HintEnsureTurn ==
    /\ channel # "closed" /\ hint = "idle" /\ Call("hint")
    /\ \/ Task!StartTurn /\ hint' = "placeholder" /\ hintTurn' = turn + 1
       \/ Task!ReuseTurn /\ hint' = "interrupt" /\ UNCHANGED hintTurn
    /\ UNCHANGED <<setupVars, speechVars, input, http, httpTurn, replyVars, closers>>

\* A turn begun by the hint is made to look answered, so as to interrupt it.
HintStartResponse ==
    /\ hint = "placeholder"
    /\ \/ Task!StartResponse(hintTurn) /\ hint' = "interrupt"
       \/ /\ ~(state = "processing" /\ hintTurn = turn)
          /\ hint' = "idle"
          /\ UNCHANGED taskVars
    /\ hintTurn' = 0
    /\ UNCHANGED <<setupVars, speechVars, input, http, httpTurn, calls, replyVars,
                   closers>>

HintInterrupt ==
    /\ hint = "interrupt"
    /\ \/ Task!Interrupt /\ hint' = "cancel"
       \/ ~Task!InTurn /\ hint' = "idle" /\ UNCHANGED taskVars
    /\ UNCHANGED <<setupVars, speechVars, input, hintTurn, http, httpTurn, calls,
                   replyVars, closers>>

HintCancel ==
    /\ \/ /\ hint = "cancel" /\ RtcFree
          /\ IF Live /\ track # "none"
             THEN CancelHandle /\ hint' = "flush"
             ELSE UNCHANGED <<cancelled, handle, handleTurn>> /\ hint' = "idle"
          /\ UNCHANGED <<run, turnOf, spoke, endCall, audio>>
       \/ /\ hint = "flush"
          /\ Flush
          /\ hint' = "idle"
    /\ UNCHANGED <<taskVars, setupVars, speechVars, input, hintTurn, http, httpTurn,
                   calls, closers>>

\* POST .../turns: a turn without a reply.
HTTPStartTurn ==
    /\ http = "idle" /\ Call("http")
    /\ Task!StartTurn
    /\ http' = "respond" /\ httpTurn' = turn + 1
    /\ UNCHANGED <<setupVars, speechVars, input, hint, hintTurn, replyVars, closers>>

HTTPStartResponse ==
    /\ http = "respond"
    /\ \/ Task!StartResponse(httpTurn)
       \/ ~(state = "processing" /\ httpTurn = turn) /\ UNCHANGED taskVars
    /\ http' = "idle" /\ httpTurn' = 0
    /\ UNCHANGED <<setupVars, speechVars, input, hint, hintTurn, calls, replyVars,
                   closers>>

\* POST .../interrupt tells the task, and neither the reply nor the downlink.
HTTPInterrupt ==
    /\ Call("http")
    /\ Task!Interrupt
    /\ UNCHANGED <<setupVars, speechVars, input, hint, hintTurn, http, httpTurn,
                   replyVars, closers>>
------------------------------------------------------------------------------
(* The ways a session ends. *)

\* DELETE of the session: manager.End, then rtc.Close.
HTTPEnd ==
    /\ Call("http")
    /\ Task!End
    /\ closers' = closers \cup {"rtc"}
    /\ UNCHANGED <<setupVars, speechVars, input, hint, hintTurn, http, httpTurn,
                   replyVars>>

\* Mutant: returns when the rtcManager has no entry left, as Close does.
CloseThenEndIfOpen ==
    /\ \/ /\ "close" \in Events /\ Registered /\ boot = "done"
          /\ closers' = closers \cup {"task"}
       \/ /\ "grace" \in closers
          /\ closers' = (closers \ {"grace"}) \cup (IF Live THEN {"task"} ELSE {})
    /\ RtcClose
    /\ UNCHANGED <<taskVars, speechVars, callVars>>

\* session.close from signaling, and ScheduleEnd after its grace period:
\* rtc.Close, then manager.End.
CloseThenEnd ==
    /\ \/ /\ "close" \in Events /\ Registered /\ boot = "done"
          /\ closers' = closers \cup {"task"}
       \/ "grace" \in closers /\ closers' = (closers \ {"grace"}) \cup {"task"}
    /\ RtcClose
    /\ UNCHANGED <<taskVars, speechVars, callVars>>

FinishEnd ==
    /\ "task" \in closers
    /\ closers' = closers \ {"task"}
    /\ \/ Task!End
       \/ ~Registered /\ UNCHANGED taskVars
    /\ UNCHANGED <<setupVars, speechVars, input, callVars, replyVars>>

FinishClose ==
    /\ "rtc" \in closers
    /\ closers' = closers \ {"rtc"}
    /\ RtcClose
    /\ UNCHANGED <<taskVars, speechVars, callVars>>

\* OnConnectionStateChange, failed or closed: the task is not ended.
ConnectionLost ==
    /\ "lost" \in Events /\ Live /\ boot = "done"
    /\ RtcClose
    /\ UNCHANGED <<taskVars, speechVars, callVars, closers>>
------------------------------------------------------------------------------
Vad(u) == \/ VADSnapshot(u) \/ VADInterrupt(u) \/ VADCancel(u) \/ VADFlush(u)
          \/ VADEnsureTurn(u) \/ ASRSnapshot(u) \/ ASRStart(u)
Transcript(u) == FinalFlush(u) \/ InstallRun(u) \/ ASRRelease(u)
Reply(r) == \/ RunStart(r) \/ RunAsk(r) \/ RunStreamed(r) \/ RunWait(r)
            \/ RunComplete(r) \/ RunScheduleEnd(r) \/ RunClear(r)

Setup  == \/ CreateSession \/ ChannelOpen \/ ControlReady \/ LateCandidate
          \/ TrackStart \/ TrackEnds
          \/ MaybeStartOpeningTurn \/ OpeningTurn \/ OpeningInstall
Calls  == \/ HintEnsureTurn \/ HintStartResponse \/ HintInterrupt \/ HintCancel
          \/ HTTPStartTurn \/ HTTPStartResponse \/ HTTPInterrupt
Ending == HTTPEnd \/ CloseThenEnd \/ FinishEnd \/ FinishClose \/ ConnectionLost

Next == \/ Setup
        \/ \E u \in Speech : \/ SpeechStart(u) \/ Vad(u)
                             \/ ASRFinal(u) \/ ASREmptyFinal(u) \/ ASRStreamEnds(u)
                             \/ Transcript(u)
        \/ EndOfUtterance
        \/ \E r \in Runs : Reply(r) \/ RunSpeak(r) \/ RunEndCall(r)
        \/ Played
        \/ Calls
        \/ Ending

Spec == Init /\ [][Next]_vars

\* The scheduler runs every goroutine that can run; a provider ends the streams
\* it opened; the downlink plays.  Users, clients and networks owe nothing.
Fairness ==
    /\ \A u \in Speech : WF_vars(Vad(u)) /\ WF_vars(Transcript(u))
    /\ \A r \in Runs : WF_vars(Reply(r))
    /\ WF_vars(Played)
    /\ WF_vars(OpeningInstall)
    /\ WF_vars(HintStartResponse \/ HintInterrupt \/ HintCancel)
    /\ WF_vars("grace" \in closers /\ CloseThenEnd)
    /\ WF_vars(FinishEnd) /\ WF_vars(FinishClose)

FairSpec == Spec /\ Fairness
------------------------------------------------------------------------------
(* Properties. *)

\* From StartResponse to the last thing the reply does for its turn.
Answering(r) == run[r] \in {"ask", "stream", "tail", "wait", "drain", "drained",
                            "complete", "schedule"}

\* EnsureTurn puts several stretches of speech on one turn, so several finals
\* can start replies to it, and a cancelled reply goes on for a while: of all
\* these, at most one gets past StartResponse for that turn.
OneReplyPerTurn ==
    \A r, s \in Runs : Answering(r) /\ Answering(s) /\ turnOf[r] = turnOf[s] => r = s

\* Speech that interrupted a turn is transcribed for a later one, whatever
\* completes, resets or ends turns between Interrupt, EnsureTurn and the
\* snapshot that HandleSpeechStart takes.
BargeInGetsLaterTurn ==
    \A u \in Speech :
        cutOff[u] # 0 /\ speech[u] \in {"start", "listen", "final", "install"}
            => turnOf[u] > cutOff[u]

\* The cancel handle always cancels something: it belongs to a reply of the
\* turn it is filed under that has not returned and is not cancelled yet,
\* although cancelCurrent, a new reply and clear of an old one race for it.
HandleIsLive ==
    handle # NoRun => /\ handleTurn = turnOf[handle]
                      /\ handle \notin cancelled
                      /\ run[handle] \notin {"none", "done"}

\* The audio of the user never goes to a stream whose forwarder has returned:
\* the input that consumeFrame writes to belongs to a stream that is still read.
InputIsLive ==
    input # NoRun => speech[input] \in {"listen", "final", "install", "finalized",
                                        "drained"}

\* Whatever goroutine calls the task's methods, and with whatever turn it still
\* holds, the session's turns begin in order and one at a time, respond at most
\* once and keep their outcome.
TurnLifecycleSpec == Task!TurnLifecycleSpec

\* The DataChannel and the track, each calling maybeStartOpeningTurn, and its
\* second try after a failure never greet twice.
GreetingOnce == [][opener' = "install" /\ opener # "install" => run[Opening] = "none"]_vars

\* Every reply returns: none waits for ever for a downlink that was flushed,
\* closed or left without its audio by someone else.
RepliesReturn == \A r \in Runs : run[r] = "start" ~> run[r] = "done"

\* A call that the bot decided to end does end, also when the client closes
\* the session or its connection is lost in the grace period.
EndingClosesSession == rtc.ending # NoRun ~> state = "closed"

\* Docs (vad-endpointing): speech that begins while the bot answers a turn must
\* not be put on that turn.
BargeInLeavesTurn ==
    \A u \in Speech : speech[u] = "listen" /\ heard[u] # 0 => turnOf[u] # heard[u]

\* Docs (session-state-machine): if the user interrupts the turn in which the bot
\* called end_call, the wish to end the call dies with the turn.
EndingOnlyAfterCompletedTurn == rtc.ending # NoRun => outcome[turnOf[rtc.ending]] = "completed"
==============================================================================

----------------------------- MODULE SpeechInput -----------------------------
(***************************************************************************)
(* From the user's track to transcripts: the PCM frame stream with its two *)
(* subscribers, the endpointer that tells speech from silence              *)
(* (packetEndpointer), and asrRuntime, which opens an ASR stream for a     *)
(* stretch of speech, feeds it, and forwards what the provider makes of it.*)
(*                                                                         *)
(* The goroutines are the endpointing and the ASR consumer of the frames,  *)
(* one for every detected start of speech (onSpeechStart), one for every   *)
(* silence timer that fires (handleSilenceTimeout), one that forwards each *)
(* stream's events (forwardEvents), and the two that close the session's   *)
(* audio: OnTrack's deferred calls and rtcManager.Close.                   *)
(*                                                                         *)
(* A step is one mutex section or one channel operation.  HandleSpeechStart*)
(* dials with the mutex held, so it is one step.  Which turn a stream is   *)
(* for, and what a transcript starts, is in TurnRuntime; what the provider *)
(* does with a stream is in AsrSession: here it sends any events and ends  *)
(* when it likes.                                                          *)
(***************************************************************************)
EXTENDS Naturals, Sequences

CONSTANTS Capacity,       \* of a subscription (32 and 64 in the code)
          StableRepeats,  \* stablePartialRepeatThreshold
          MaxFrames,      \* bound on the frames published
          MaxStreams      \* bound on the ASR streams opened

ASSUME CapacityAssumption == Capacity \in Nat \ {0}
ASSUME StableAssumption == StableRepeats \in Nat /\ StableRepeats > 1
ASSUME BoundsAssumption == MaxFrames \in Nat /\ MaxStreams \in Nat

VARIABLES
    entry,       \* the rtcManager has an entry for the session
    closing,     \* the deferred Close calls that OnTrack has left
    frames,      \* frames published so far
    pcmClosed,   \* PCMFrameStream.closed
    toEndpointer,  \* the endpointing consumer's subscription
    toASR,         \* the ASR consumer's, of which only the length matters
    attached,    \* the ASR consumer has not seen the end of its subscription
    active, epClosed,      \* packetEndpointer.active, closed
    timer,       \* silenceTimer: nil, running, or fired and still set
    timeouts,    \* handleSilenceTimeout calls that wait for the mutex
    enders,      \* those that passed it and have onEndOfUtterance left
    starters,    \* onSpeechStart goroutines before they look the runtime up
    starting,    \* those that have it and are about to call HandleSpeechStart
    input,       \* the stream that asrRuntime.input feeds, 0 for nil
    sequence,    \* asrRuntime.sequence
    taken,       \* streams taken from input whose channel is to be closed
    closedInputs,  \* streams whose input channel is closed
    opened,      \* streams opened so far
    fed,         \* fed[s]: the sequence numbers of the chunks s was given
    forwarder,   \* forwarder[s]: where forwardEvents is
    holds,       \* holds[s]: the stream whose input it is closing
    repeats,     \* repeats[s]: repeatCount, up to the last value below the threshold,
                 \* and 0 as long as there is no partial text
    finals,      \* finals[s]: final transcripts handed to the reply runtime
    late,        \* history: streams opened when nothing would end them
    excused      \* history: the current stretch of speech may have no stream

audioVars     == <<frames, pcmClosed, toEndpointer, toASR>>
endpointVars  == <<active, epClosed, timer, timeouts>>
callbackVars  == <<enders, starters, starting>>
inputVars     == <<input, sequence, taken, closedInputs>>
streamVars    == <<opened, fed, late>>
forwarderVars == <<forwarder, holds, repeats, finals>>
vars == <<entry, closing, audioVars, attached, endpointVars, callbackVars, inputVars,
          streamVars, forwarderVars, excused>>

Streams == 1 .. MaxStreams

TypeOK ==
    /\ entry \in BOOLEAN /\ pcmClosed \in BOOLEAN /\ attached \in BOOLEAN
    /\ closing \in {<<>>, <<"pcm">>, <<"endpointer", "pcm">>, <<"asr", "endpointer", "pcm">>}
    /\ frames \in 0 .. MaxFrames
    /\ toEndpointer \in Seq({"speech", "silence"}) /\ Len(toEndpointer) <= Capacity
    /\ toASR \in 0 .. Capacity
    /\ active \in BOOLEAN /\ epClosed \in BOOLEAN
    /\ timer \in {"nil", "running", "fired"}
    /\ timeouts \in Nat /\ enders \in Nat /\ starters \in Nat /\ starting \in Nat
    /\ input \in 0 .. MaxStreams /\ sequence \in Nat
    /\ taken \subseteq Streams /\ closedInputs \subseteq Streams
    /\ opened \in 0 .. MaxStreams
    /\ fed \in [Streams -> Seq(Nat)]
    /\ forwarder \in [Streams -> {"none", "range", "take", "close", "drain",
                                  "release", "done"}]
    /\ holds \in [Streams -> 0 .. MaxStreams]
    /\ repeats \in [Streams -> 0 .. StableRepeats - 1]
    /\ finals \in [Streams -> Nat]
    /\ late \subseteq Streams
    /\ excused \in BOOLEAN

\* OnTrack, once the consumers are attached.
Init ==
    /\ entry = TRUE
    /\ closing = <<>>
    /\ frames = 0 /\ pcmClosed = FALSE /\ toEndpointer = <<>> /\ toASR = 0
    /\ attached = TRUE
    /\ active = FALSE /\ epClosed = FALSE /\ timer = "nil"
    /\ timeouts = 0 /\ enders = 0 /\ starters = 0 /\ starting = 0
    /\ input = 0 /\ sequence = 0 /\ taken = {} /\ closedInputs = {}
    /\ opened = 0 /\ fed = [s \in Streams |-> <<>>] /\ late = {}
    /\ forwarder = [s \in Streams |-> "none"]
    /\ holds = [s \in Streams |-> 0]
    /\ repeats = [s \in Streams |-> 0] /\ finals = [s \in Streams |-> 0]
    /\ excused = FALSE
------------------------------------------------------------------------------
(* Frames. *)

\* A subscriber whose buffer is full does not get the frame.
Offer(queue, frame) == IF Len(queue) < Capacity THEN Append(queue, frame) ELSE queue

\* PCMFrameStream.Publish, for a packet that was decoded.
Publish(kind) ==
    /\ ~pcmClosed /\ frames < MaxFrames
    /\ frames' = frames + 1
    /\ toEndpointer' = Offer(toEndpointer, kind)
    /\ toASR' = IF toASR < Capacity THEN toASR + 1 ELSE toASR
    /\ UNCHANGED <<entry, closing, pcmClosed, attached, endpointVars, callbackVars,
                   inputVars, streamVars, forwarderVars, excused>>

\* Mutant: forgets the timer only when Stop was in time.
StopTimerIfRunning == timer' = IF timer = "running" THEN "nil" ELSE timer

\* A timer that has fired cannot be stopped: its goroutine goes on.
StopTimer == timer' = "nil"

\* ObserveFrame, in speech: the start is told in a goroutine of its own.
ObserveSpeech ==
    /\ StopTimer
    /\ active' = TRUE
    /\ starters' = IF active THEN starters ELSE starters + 1
    /\ excused' = (active /\ excused)

\* ObserveFrame, in silence.
ObserveSilence ==
    /\ timer' = IF active /\ timer = "nil" THEN "running" ELSE timer
    /\ UNCHANGED <<active, starters, excused>>

\* The endpointing consumer.
ObserveFrame ==
    /\ toEndpointer # <<>>
    /\ toEndpointer' = Tail(toEndpointer)
    /\ \/ epClosed /\ UNCHANGED <<timer, active, starters, excused>>
       \/ ~epClosed /\ Head(toEndpointer) = "speech" /\ ObserveSpeech
       \/ ~epClosed /\ Head(toEndpointer) = "silence" /\ ObserveSilence
    /\ UNCHANGED <<entry, closing, frames, pcmClosed, toASR, attached, epClosed, timeouts,
                   enders, starting, inputVars, streamVars, forwarderVars>>

\* Mutant: numbers the chunks by the frames, dropped ones too.
QueueChunkCounting(queued) ==
    /\ sequence' = sequence + 1
    /\ fed' = [fed EXCEPT ![input] = IF queued THEN Append(@, sequence) ELSE @]

\* The provider takes the chunk within 10 ms, or it is dropped.
QueueChunk(queued) ==
    /\ sequence' = IF queued THEN sequence + 1 ELSE sequence
    /\ fed' = [fed EXCEPT ![input] = IF queued THEN Append(@, sequence) ELSE @]

\* consumeFrame, called by the ASR consumer; the mutex is held while it waits.
ConsumeFrame ==
    /\ toASR > 0
    /\ toASR' = toASR - 1
    /\ IF input = 0 THEN UNCHANGED <<sequence, fed>>
                    ELSE \E queued \in BOOLEAN : QueueChunk(queued)
    /\ UNCHANGED <<entry, closing, frames, pcmClosed, toEndpointer, attached, endpointVars,
                   callbackVars, input, taken, closedInputs, opened, late, forwarderVars,
                   excused>>
------------------------------------------------------------------------------
(* The silence timer. *)

TimerFires ==
    /\ timer = "running"
    /\ timer' = "fired"
    /\ timeouts' = timeouts + 1
    /\ UNCHANGED <<entry, closing, audioVars, attached, active, epClosed, callbackVars,
                   inputVars, streamVars, forwarderVars, excused>>

\* handleSilenceTimeout, its mutex section; the callbacks follow without it.
SilenceTimeout ==
    /\ timeouts > 0
    /\ timeouts' = timeouts - 1
    /\ IF epClosed \/ ~active
       THEN UNCHANGED <<active, enders>>
       ELSE active' = FALSE /\ enders' = enders + 1
    /\ UNCHANGED <<entry, closing, audioVars, attached, epClosed, timer, starters,
                   starting, inputVars, streamVars, forwarderVars, excused>>
------------------------------------------------------------------------------
(* asrRuntime's input. *)

\* The mutex section of HandleEndOfUtterance and Close; the channel that was
\* taken is closed, and Close's stream cancelled, after it.
TakeInput ==
    /\ taken' = IF input = 0 THEN taken ELSE taken \cup {input}
    /\ input' = 0
    /\ sequence' = 0

\* onEndOfUtterance: no runtime is found once the entry is gone.
EndOfUtterance ==
    /\ enders > 0
    /\ enders' = enders - 1
    /\ IF entry THEN TakeInput ELSE UNCHANGED <<taken, input, sequence>>
    /\ excused' = (excused \/ (entry /\ active /\ input # 0))
    /\ UNCHANGED <<entry, closing, audioVars, attached, endpointVars, starters, starting,
                   closedInputs, streamVars, forwarderVars>>

\* close(input), by whoever took it; forwardEvents goes on when it did.
CloseInput(s) ==
    /\ s \in taken
    /\ taken' = taken \ {s}
    /\ closedInputs' = closedInputs \cup {s}
    /\ forwarder' = [f \in Streams |-> IF forwarder[f] = "close" /\ holds[f] = s
                                       THEN "drain" ELSE forwarder[f]]
    /\ holds' = [f \in Streams |-> IF forwarder[f] = "close" /\ holds[f] = s
                                   THEN 0 ELSE holds[f]]
    /\ UNCHANGED <<entry, closing, audioVars, attached, endpointVars, callbackVars, input,
                   sequence, streamVars, repeats, finals, excused>>

\* onSpeechStart up to the lookup of the runtime: none if the bot is ending the
\* session or its entry is gone.  handleVADStart is between the two.
LookUpRuntime ==
    /\ starters > 0
    /\ starters' = starters - 1
    /\ \/ entry /\ starting' = starting + 1 /\ UNCHANGED excused
       \/ excused' = TRUE /\ UNCHANGED starting
    /\ UNCHANGED <<entry, closing, audioVars, attached, endpointVars, enders, inputVars,
                   streamVars, forwarderVars>>

Speaking == active /\ ~epClosed

\* What is going to take the input: an utterance that has ended, the silence
\* after this one, or the end of the audio.
EndIsComing(silence) ==
    \/ entry /\ (enders > 0 \/ silence)
    \/ (pcmClosed \/ epClosed) /\ attached
    \/ Len(closing) = 3

\* HandleSpeechStart when it opens a stream.
OpenStream ==
    /\ input = 0 /\ opened < MaxStreams
    /\ opened' = opened + 1
    /\ input' = opened + 1
    /\ sequence' = 0
    /\ forwarder' = [forwarder EXCEPT ![opened + 1] = "range"]
    /\ late' = IF EndIsComing(Speaking) THEN late ELSE late \cup {opened + 1}
    /\ UNCHANGED excused

\* HandleSpeechStart when it does not: there is no turn or the provider fails,
\* or the input of an earlier stretch is still open.
OpenNothing ==
    /\ excused' = TRUE
    /\ UNCHANGED <<opened, input, sequence, forwarder, late>>

SpeechStart ==
    /\ starting > 0
    /\ starting' = starting - 1
    /\ OpenStream \/ OpenNothing
    /\ UNCHANGED <<entry, closing, audioVars, attached, endpointVars, enders, starters,
                   taken, closedInputs, fed, holds, repeats, finals>>
------------------------------------------------------------------------------
(* forwardEvents. *)

\* emitASREvent and HandleASREvent with a final transcript.
HandFinal(s) == finals' = [finals EXCEPT ![s] = @ + 1]

\* A partial transcript with a new text.
NewPartial(s) ==
    /\ forwarder[s] = "range"
    /\ repeats' = [repeats EXCEPT ![s] = 1]
    /\ UNCHANGED <<forwarder, finals>>

\* A partial with the text of the one before.  From the threshold on it becomes
\* the final transcript if it ends a sentence and has stood long enough.
SamePartial(s) ==
    /\ forwarder[s] = "range" /\ repeats[s] > 0
    /\ repeats' = [repeats EXCEPT ![s] = IF @ + 1 < StableRepeats THEN @ + 1 ELSE @]
    /\ \/ UNCHANGED <<forwarder, finals>>
       \/ /\ repeats[s] + 1 >= StableRepeats
          /\ HandFinal(s)
          /\ forwarder' = [forwarder EXCEPT ![s] = "take"]

\* The provider's final transcript, which may be empty.
FinalEvent(s) ==
    /\ forwarder[s] = "range"
    /\ HandFinal(s)
    /\ forwarder' = [forwarder EXCEPT ![s] = "take"]
    /\ UNCHANGED repeats

ForwardEvent(s) ==
    /\ NewPartial(s) \/ SamePartial(s) \/ FinalEvent(s)
    /\ UNCHANGED <<entry, closing, audioVars, attached, endpointVars, callbackVars,
                   inputVars, streamVars, holds, excused>>

\* HandleEndOfUtterance, called by forwardEvents: it takes whatever input is
\* open, be it the stream's own or a later one's.
EndInput(s) ==
    /\ forwarder[s] = "take"
    /\ TakeInput
    /\ forwarder' = [forwarder EXCEPT ![s] = IF input = 0 THEN "drain" ELSE "close"]
    /\ holds' = [holds EXCEPT ![s] = input]
    /\ excused' = (excused \/ input # 0)
    /\ UNCHANGED <<entry, closing, audioVars, attached, endpointVars, callbackVars,
                   closedInputs, streamVars, repeats, finals>>

\* Mutant: takes the last text for a final even if there was one.
PromoteTrailingAlways(s) ==
    finals' = IF repeats[s] > 0 THEN [finals EXCEPT ![s] = @ + 1] ELSE finals

\* Without a final or a stable partial the last text becomes the final.
PromoteTrailing(s) ==
    finals' = IF forwarder[s] = "range" /\ repeats[s] > 0
              THEN [finals EXCEPT ![s] = @ + 1] ELSE finals

\* The provider's channel is closed; what it sends after a final is ignored.
EventsEnd(s) ==
    /\ forwarder[s] \in {"range", "drain"}
    /\ PromoteTrailing(s)
    /\ forwarder' = [forwarder EXCEPT ![s] = "release"]
    /\ UNCHANGED <<entry, closing, audioVars, attached, endpointVars, callbackVars,
                   inputVars, streamVars, holds, repeats, excused>>

\* Mutant: clears the runtime whichever stream it feeds.
ClearInput(s) == input' = 0 /\ sequence' = 0

\* The end of forwardEvents: the input is not closed, but the context that the
\* provider's send loop has is cancelled.
ClearOwnInput(s) ==
    IF input = s THEN input' = 0 /\ sequence' = 0 ELSE UNCHANGED <<input, sequence>>

Release(s) ==
    /\ forwarder[s] = "release"
    /\ ClearOwnInput(s)
    /\ forwarder' = [forwarder EXCEPT ![s] = "done"]
    /\ repeats' = [repeats EXCEPT ![s] = 0]
    /\ excused' = (excused \/ input = s)
    /\ UNCHANGED <<entry, closing, audioVars, attached, endpointVars, callbackVars, taken,
                   closedInputs, streamVars, holds, finals>>
------------------------------------------------------------------------------
(* The end of the audio. *)

\* ReadRTP fails: OnTrack's deferred calls follow.
TrackEnds ==
    /\ closing = <<>> /\ ~epClosed
    /\ closing' = <<"asr", "endpointer", "pcm">>
    /\ UNCHANGED <<entry, audioVars, attached, endpointVars, callbackVars, inputVars,
                   streamVars, forwarderVars, excused>>

\* rtcManager.Close: it closes the frame stream, then the runtime; OnTrack's
\* calls follow, because the track ends.
RtcClose ==
    /\ entry
    /\ entry' = FALSE
    /\ pcmClosed' = TRUE
    /\ TakeInput
    /\ UNCHANGED <<closing, frames, toEndpointer, toASR, attached, endpointVars,
                   callbackVars, closedInputs, streamVars, forwarderVars, excused>>

\* packetEndpointer.Close
CloseEndpointer ==
    /\ epClosed' = TRUE
    /\ timer' = "nil"
    /\ UNCHANGED <<pcmClosed, taken, input, sequence>>

\* PCMFrameStream.Close: the consumers still get what is in their buffers.
ClosePCM ==
    /\ pcmClosed' = TRUE
    /\ UNCHANGED <<epClosed, timer, taken, input, sequence>>

CloseASR == TakeInput /\ UNCHANGED <<pcmClosed, epClosed, timer>>

CloseNext ==
    /\ closing # <<>>
    /\ closing' = Tail(closing)
    /\ \/ Head(closing) = "endpointer" /\ CloseEndpointer
       \/ Head(closing) = "pcm" /\ ClosePCM
       \/ Head(closing) = "asr" /\ CloseASR
    /\ UNCHANGED <<entry, frames, toEndpointer, toASR, attached, active, timeouts,
                   callbackVars, closedInputs, streamVars, forwarderVars, excused>>

\* The ASR consumer sees the end of its subscription and calls Close.
Detach ==
    /\ attached /\ pcmClosed /\ toASR = 0
    /\ attached' = FALSE
    /\ TakeInput
    /\ UNCHANGED <<entry, closing, audioVars, endpointVars, callbackVars, closedInputs,
                   streamVars, forwarderVars, excused>>
------------------------------------------------------------------------------
Next ==
    \/ \E kind \in {"speech", "silence"} : Publish(kind)
    \/ ObserveFrame \/ ConsumeFrame
    \/ TimerFires \/ SilenceTimeout
    \/ EndOfUtterance \/ LookUpRuntime \/ SpeechStart
    \/ \E s \in Streams : \/ CloseInput(s) \/ ForwardEvent(s) \/ EndInput(s)
                          \/ EventsEnd(s) \/ Release(s)
    \/ TrackEnds \/ CloseNext \/ RtcClose \/ Detach

Spec == Init /\ [][Next]_vars
------------------------------------------------------------------------------
(* Properties. *)

\* A stream hands at most one final transcript on, of the provider's, a stable
\* partial and a trailing one: a second final would start a second reply.
OneFinalPerStream == \A s \in Streams : finals[s] <= 1

\* The chunks of a stream are numbered from 0 without gaps, whatever was dropped
\* and whichever other stream ended meanwhile.
ChunksNumbered == \A s \in Streams : fed[s] = [i \in 1 .. Len(fed[s]) |-> i - 1]

\* An input that is open will be closed, once the user is silent or the audio
\* ends: stale timers, resumed speech and the races of the callbacks leave an
\* active endpointer with a timer that works, or an end of utterance on its
\* way.  What is left open was opened too late: its start of speech was told
\* after the end of its utterance, or of the audio.
OpenInputWillEnd ==
    input # 0 /\ input \notin late
        => EndIsComing(Speaking /\ (timer = "fired" => timeouts > 0))

\* When every callback has returned, speech goes to a stream, unless the start
\* was refused, a final or the provider ended the stream, or the utterance
\* before it ended too late and left its input in the way or took this one.
SpeechIsHeard ==
    (/\ Speaking /\ entry /\ closing = <<>>
     /\ timeouts = 0 /\ enders = 0 /\ starters = 0 /\ starting = 0)
        => input # 0 \/ excused

\* Nobody sends on a closed input, and none is closed twice.
InputClosedOnce ==
    /\ taken \cap closedInputs = {}
    /\ input \notin taken \cup closedInputs
==============================================================================

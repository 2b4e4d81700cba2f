-------------------------- MODULE SpeechInputProofs --------------------------
(***************************************************************************)
(* Proofs about SpeechInput, for any buffers, any number of frames and of  *)
(* streams, and any number of callbacks under way.                         *)
(*                                                                         *)
(* Four invariants carry them, each about one thing that the goroutines    *)
(* share: the input channel (Inputs), the streams' finals (Finals), the    *)
(* numbering of their chunks (Numbering), and the endpointer with what     *)
(* closes the audio (Endpointing).                                         *)
(***************************************************************************)
EXTENDS SpeechInput, SequenceTheorems, TLAPS

USE CapacityAssumption, StableAssumption, BoundsAssumption

-----------------------------------------------------------------------------
(* Types. *)

\* Next, by the goroutines that step.
StreamStep(s) ==
    CloseInput(s) \/ ForwardEvent(s) \/ EndInput(s) \/ EventsEnd(s) \/ Release(s)

LEMMA InitTypes == Init => TypeOK
  <1> SUFFICES ASSUME Init PROVE TypeOK
    OBVIOUS
  <1>1. <<>> \in Seq({"speech", "silence"}) /\ Len(<<>>) = 0 /\ <<>> \in Seq(Nat)
    BY EmptySeq
  <1>2. toEndpointer \in Seq({"speech", "silence"}) /\ Len(toEndpointer) <= Capacity
    BY <1>1 DEF Init
  <1>3. fed \in [Streams -> Seq(Nat)]
    BY <1>1 DEF Init
  <1>4. /\ holds \in [Streams -> 0 .. MaxStreams] /\ finals \in [Streams -> Nat]
        /\ repeats \in [Streams -> 0 .. StableRepeats - 1]
    BY DEF Init
  <1>5. forwarder \in [Streams -> {"none", "range", "take", "close", "drain", "release",
                                   "done"}]
    BY DEF Init
  <1>6. /\ 0 \in 0 .. Capacity /\ 0 \in 0 .. MaxFrames /\ 0 \in 0 .. MaxStreams
    OBVIOUS
  <1>7. /\ closing = <<>> /\ frames = 0 /\ toASR = 0 /\ timer = "nil" /\ timeouts = 0
        /\ enders = 0 /\ starters = 0 /\ starting = 0 /\ input = 0 /\ sequence = 0
        /\ taken = {} /\ closedInputs = {} /\ opened = 0 /\ late = {}
    BY DEF Init
  <1>8. entry \in BOOLEAN /\ pcmClosed \in BOOLEAN /\ attached \in BOOLEAN
        /\ active \in BOOLEAN /\ epClosed \in BOOLEAN /\ excused \in BOOLEAN
    BY DEF Init
  <1> QED
    BY <1>2, <1>3, <1>4, <1>5, <1>6, <1>7, <1>8 DEF TypeOK

\* OnTrack's deferred calls go one by one.
LEMMA ClosingTail ==
    ASSUME closing \in {<<"pcm">>, <<"endpointer", "pcm">>, <<"asr", "endpointer", "pcm">>}
    PROVE  /\ closing = <<"pcm">> => Head(closing) = "pcm" /\ Tail(closing) = <<>>
           /\ closing = <<"endpointer", "pcm">>
                 => Head(closing) = "endpointer" /\ Tail(closing) = <<"pcm">>
           /\ closing = <<"asr", "endpointer", "pcm">>
                 => Head(closing) = "asr" /\ Tail(closing) = <<"endpointer", "pcm">>
           /\ Len(closing) = 3 <=> closing = <<"asr", "endpointer", "pcm">>
  <1>1. Head(<<"pcm">>) = "pcm" /\ Tail(<<"pcm">>) = <<>> /\ Len(<<"pcm">>) = 1
    OBVIOUS
  <1>2. /\ Head(<<"endpointer", "pcm">>) = "endpointer"
        /\ Tail(<<"endpointer", "pcm">>) = <<"pcm">> /\ Len(<<"endpointer", "pcm">>) = 2
    OBVIOUS
  <1>3. /\ Head(<<"asr", "endpointer", "pcm">>) = "asr"
        /\ Tail(<<"asr", "endpointer", "pcm">>) = <<"endpointer", "pcm">>
        /\ Len(<<"asr", "endpointer", "pcm">>) = 3
    OBVIOUS
  <1>4. CASE closing = <<"pcm">>
    BY <1>1, <1>2, <1>3, <1>4
  <1>5. CASE closing = <<"endpointer", "pcm">>
    BY <1>1, <1>2, <1>3, <1>5
  <1>6. CASE closing = <<"asr", "endpointer", "pcm">>
    BY <1>1, <1>2, <1>3, <1>6
  <1> QED
    BY <1>4, <1>5, <1>6

\* Whoever takes the input leaves none.
LEMMA TakeTypes ==
    TypeOK /\ TakeInput
        => /\ input' = 0 /\ sequence' = 0 /\ input' \in 0 .. MaxStreams
           /\ sequence' \in Nat /\ taken' \subseteq Streams
  BY DEF TypeOK, TakeInput, Streams

LEMMA PublishTypes ==
    ASSUME TypeOK, NEW kind \in {"speech", "silence"}, Publish(kind)
    PROVE  TypeOK'
  <1>1. /\ toEndpointer \in Seq({"speech", "silence"}) /\ Len(toEndpointer) \in Nat
        /\ Len(toEndpointer) <= Capacity
    BY LenProperties DEF TypeOK
  <1>2. toEndpointer' \in Seq({"speech", "silence"}) /\ Len(toEndpointer') <= Capacity
    <2>1. CASE Len(toEndpointer) < Capacity
      BY <1>1, <2>1, AppendProperties DEF Publish, Offer
    <2>2. CASE ~(Len(toEndpointer) < Capacity)
      BY <1>1, <2>2 DEF Publish, Offer
    <2> QED
      BY <2>1, <2>2
  <1>3. frames' \in 0 .. MaxFrames /\ toASR' \in 0 .. Capacity
    BY DEF Publish, TypeOK
  <1> QED
    BY <1>2, <1>3 DEF Publish, TypeOK, endpointVars, callbackVars, inputVars, streamVars,
                      forwarderVars

LEMMA ObserveTypes == TypeOK /\ ObserveFrame => TypeOK'
  <1> SUFFICES ASSUME TypeOK, ObserveFrame PROVE TypeOK'
    OBVIOUS
  <1>1. /\ toEndpointer' \in Seq({"speech", "silence"}) /\ Len(toEndpointer') <= Capacity
    <2>1. toEndpointer \in Seq({"speech", "silence"}) /\ toEndpointer # <<>>
          /\ Len(toEndpointer) \in Nat /\ Len(toEndpointer) <= Capacity
          /\ toEndpointer' = Tail(toEndpointer)
      BY LenProperties DEF TypeOK, ObserveFrame
    <2> QED
      BY <2>1, HeadTailProperties
  <1>2. /\ timer' \in {"nil", "running", "fired"} /\ active' \in BOOLEAN
        /\ starters' \in Nat /\ excused' \in BOOLEAN
    <2>1. CASE UNCHANGED <<timer, active, starters, excused>>
      BY <2>1 DEF TypeOK
    <2>2. CASE ObserveSpeech
      BY <2>2 DEF TypeOK, ObserveSpeech, StopTimer
    <2>3. CASE ObserveSilence
      BY <2>3 DEF TypeOK, ObserveSilence
    <2> QED
      BY <2>1, <2>2, <2>3 DEF ObserveFrame
  <1> QED
    BY <1>1, <1>2 DEF ObserveFrame, TypeOK, inputVars, streamVars, forwarderVars

LEMMA ConsumeTypes == TypeOK /\ ConsumeFrame => TypeOK'
  <1> SUFFICES ASSUME TypeOK, ConsumeFrame PROVE TypeOK'
    OBVIOUS
  <1>1. sequence' \in Nat /\ fed' \in [Streams -> Seq(Nat)]
    <2>1. CASE input = 0
      BY <2>1 DEF ConsumeFrame, TypeOK
    <2>2. ASSUME NEW queued \in BOOLEAN, input # 0, QueueChunk(queued)
          PROVE  sequence' \in Nat /\ fed' \in [Streams -> Seq(Nat)]
      <3>1. input \in Streams /\ sequence \in Nat /\ fed[input] \in Seq(Nat)
        BY <2>2 DEF TypeOK, Streams
      <3>2. Append(fed[input], sequence) \in Seq(Nat)
        BY <3>1, AppendProperties
      <3> QED
        BY <2>2, <3>1, <3>2 DEF QueueChunk, TypeOK
    <2> QED
      BY <2>1, <2>2 DEF ConsumeFrame
  <1>2. toASR' \in 0 .. Capacity
    BY DEF ConsumeFrame, TypeOK
  <1> QED
    BY <1>1, <1>2 DEF ConsumeFrame, TypeOK, endpointVars, callbackVars, forwarderVars

\* What the endpointer's goroutines change.
LEMMA CallbackTypes ==
    TypeOK /\ (TimerFires \/ SilenceTimeout \/ EndOfUtterance \/ LookUpRuntime) => TypeOK'
  <1> SUFFICES ASSUME TypeOK,
                      TimerFires \/ SilenceTimeout \/ EndOfUtterance \/ LookUpRuntime
               PROVE  TypeOK'
    OBVIOUS
  <1> USE DEF audioVars, endpointVars, callbackVars, inputVars, streamVars, forwarderVars
  <1>1. CASE TimerFires
    BY <1>1 DEF TimerFires, TypeOK
  <1>2. CASE SilenceTimeout
    <2>1. timeouts' \in Nat /\ enders' \in Nat /\ active' \in BOOLEAN
      <3>1. timeouts \in Nat /\ enders \in Nat /\ active \in BOOLEAN
        BY DEF TypeOK
      <3>2. timeouts > 0 /\ timeouts' = timeouts - 1
        BY <1>2 DEF SilenceTimeout
      <3>3. enders' = enders \/ enders' = enders + 1
        BY <1>2 DEF SilenceTimeout
      <3>4. timeouts' \in Nat /\ enders' \in Nat
        BY <3>1, <3>2, <3>3
      <3>5. active' \in BOOLEAN
        BY <1>2, <3>1 DEF SilenceTimeout
      <3> QED
        BY <3>4, <3>5
    <2> QED
      BY <1>2, <2>1 DEF SilenceTimeout, TypeOK
  <1>3. CASE EndOfUtterance
    <2>1. /\ input' \in 0 .. MaxStreams /\ sequence' \in Nat /\ taken' \subseteq Streams
          /\ enders' \in Nat /\ excused' \in BOOLEAN
      <3>1. enders' \in Nat /\ excused' \in BOOLEAN
        BY <1>3 DEF EndOfUtterance, TypeOK
      <3>2. /\ input' \in 0 .. MaxStreams /\ sequence' \in Nat /\ taken' \subseteq Streams
        <4>1. CASE entry
          BY <1>3, <4>1, TakeTypes DEF EndOfUtterance
        <4>2. CASE ~entry
          BY <1>3, <4>2 DEF EndOfUtterance, TypeOK
        <4> QED
          BY <4>1, <4>2
      <3> QED
        BY <3>1, <3>2
    <2> QED
      BY <1>3, <2>1 DEF EndOfUtterance, TypeOK
  <1>4. CASE LookUpRuntime
    <2>1. starters' \in Nat /\ starting' \in Nat /\ excused' \in BOOLEAN
      <3>1. starters \in Nat /\ starting \in Nat /\ excused \in BOOLEAN
        BY DEF TypeOK
      <3>2. starters > 0 /\ starters' = starters - 1
        BY <1>4 DEF LookUpRuntime
      <3>3. starting' = starting + 1 \/ starting' = starting
        BY <1>4 DEF LookUpRuntime
      <3>4. starters' \in Nat /\ starting' \in Nat
        BY <3>1, <3>2, <3>3
      <3>5. excused' \in BOOLEAN
        BY <1>4, <3>1 DEF LookUpRuntime
      <3> QED
        BY <3>4, <3>5
    <2> QED
      BY <1>4, <2>1 DEF LookUpRuntime, TypeOK
  <1> QED
    BY <1>1, <1>2, <1>3, <1>4

LEMMA SpeechStartTypes == TypeOK /\ SpeechStart => TypeOK'
  <1> SUFFICES ASSUME TypeOK, SpeechStart PROVE TypeOK'
    OBVIOUS
  <1>1. /\ opened' \in 0 .. MaxStreams /\ input' \in 0 .. MaxStreams /\ sequence' \in Nat
        /\ forwarder' \in [Streams -> {"none", "range", "take", "close", "drain",
                                       "release", "done"}]
        /\ late' \subseteq Streams /\ excused' \in BOOLEAN
    <2>1. CASE OpenStream
      BY <2>1 DEF OpenStream, TypeOK, Streams
    <2>2. CASE OpenNothing
      BY <2>2 DEF OpenNothing, TypeOK
    <2> QED
      BY <2>1, <2>2 DEF SpeechStart
  <1> QED
    BY <1>1 DEF SpeechStart, TypeOK, audioVars, endpointVars

LEMMA StreamTypes ==
    ASSUME TypeOK, NEW s \in Streams, StreamStep(s)
    PROVE  TypeOK'
  <1> USE DEF audioVars, endpointVars, callbackVars, inputVars, streamVars, forwarderVars
  <1> DEFINE Moved == /\ taken' \subseteq Streams /\ closedInputs' \subseteq Streams
                      /\ input' \in 0 .. MaxStreams /\ sequence' \in Nat
                      /\ forwarder' \in [Streams -> {"none", "range", "take", "close",
                                                     "drain", "release", "done"}]
                      /\ holds' \in [Streams -> 0 .. MaxStreams]
                      /\ repeats' \in [Streams -> 0 .. StableRepeats - 1]
                      /\ finals' \in [Streams -> Nat] /\ excused' \in BOOLEAN
  <1>0. UNCHANGED <<entry, closing, audioVars, attached, endpointVars, callbackVars,
                    streamVars>>
    BY DEF StreamStep, CloseInput, ForwardEvent, EndInput, EventsEnd, Release
  <1>1. ASSUME CloseInput(s) PROVE Moved
    BY <1>1 DEF CloseInput, TypeOK
  <1>2. ASSUME ForwardEvent(s) PROVE Moved
    <2>1. /\ forwarder' \in [Streams -> {"none", "range", "take", "close", "drain",
                                         "release", "done"}]
          /\ finals' \in [Streams -> Nat]
      <3>1. CASE NewPartial(s)
        BY <3>1 DEF NewPartial, TypeOK
      <3>2. CASE SamePartial(s)
        <4>1. /\ forwarder' = forwarder \/ forwarder' = [forwarder EXCEPT ![s] = "take"]
              /\ finals' = finals \/ finals' = [finals EXCEPT ![s] = @ + 1]
          BY <3>2 DEF SamePartial, HandFinal
        <4>2. finals \in [Streams -> Nat] /\ finals[s] + 1 \in Nat
          BY DEF TypeOK
        <4>3. finals' \in [Streams -> Nat]
          BY <4>1, <4>2
        <4> QED
          BY <4>1, <4>3 DEF TypeOK
      <3>3. CASE FinalEvent(s)
        BY <3>3 DEF FinalEvent, HandFinal, TypeOK
      <3> QED
        BY <1>2, <3>1, <3>2, <3>3 DEF ForwardEvent
    <2>2. repeats' \in [Streams -> 0 .. StableRepeats - 1]
      <3>1. CASE NewPartial(s)
        BY <3>1 DEF NewPartial, TypeOK
      <3>2. CASE SamePartial(s)
        BY <3>2 DEF SamePartial, TypeOK
      <3>3. CASE FinalEvent(s)
        BY <3>3 DEF FinalEvent, TypeOK
      <3> QED
        BY <1>2, <3>1, <3>2, <3>3 DEF ForwardEvent
    <2> QED
      BY <1>2, <2>1, <2>2 DEF ForwardEvent, TypeOK
  <1>3. ASSUME EndInput(s) PROVE Moved
    <2>1. /\ input' \in 0 .. MaxStreams /\ sequence' \in Nat /\ taken' \subseteq Streams
      BY <1>3, TakeTypes DEF EndInput
    <2>2. /\ forwarder' \in [Streams -> {"none", "range", "take", "close", "drain",
                                         "release", "done"}]
          /\ holds' \in [Streams -> 0 .. MaxStreams] /\ excused' \in BOOLEAN
      BY <1>3 DEF EndInput, TypeOK
    <2> QED
      BY <1>3, <2>1, <2>2 DEF EndInput, TypeOK
  <1>4. ASSUME EventsEnd(s) PROVE Moved
    BY <1>4 DEF EventsEnd, PromoteTrailing, TypeOK
  <1>5. ASSUME Release(s) PROVE Moved
    BY <1>5 DEF Release, ClearOwnInput, TypeOK
  <1>6. Moved
    BY <1>1, <1>2, <1>3, <1>4, <1>5 DEF StreamStep
  <1> HIDE DEF Moved
  <1> QED
    BY <1>0, <1>6 DEF Moved, TypeOK

LEMMA EndTypes ==
    TypeOK /\ (TrackEnds \/ CloseNext \/ RtcClose \/ Detach) => TypeOK'
  <1> SUFFICES ASSUME TypeOK, TrackEnds \/ CloseNext \/ RtcClose \/ Detach PROVE TypeOK'
    OBVIOUS
  <1> USE DEF audioVars, endpointVars, callbackVars, inputVars, streamVars, forwarderVars
  <1>1. CASE TrackEnds
    BY <1>1 DEF TrackEnds, TypeOK
  <1>2. CASE CloseNext
    <2>1. closing' \in {<<>>, <<"pcm">>, <<"endpointer", "pcm">>,
                        <<"asr", "endpointer", "pcm">>}
      BY <1>2, ClosingTail DEF CloseNext, TypeOK
    <2>2. /\ epClosed' \in BOOLEAN /\ timer' \in {"nil", "running", "fired"}
          /\ pcmClosed' \in BOOLEAN /\ taken' \subseteq Streams
          /\ input' \in 0 .. MaxStreams /\ sequence' \in Nat
      <3>1. CASE CloseEndpointer
        BY <1>2, <3>1 DEF CloseNext, CloseEndpointer, TypeOK
      <3>2. CASE ClosePCM
        BY <1>2, <3>2 DEF CloseNext, ClosePCM, TypeOK
      <3>3. CASE CloseASR
        BY <1>2, <3>3, TakeTypes DEF CloseNext, CloseASR, TypeOK
      <3> QED
        BY <1>2, <3>1, <3>2, <3>3 DEF CloseNext
    <2> QED
      BY <1>2, <2>1, <2>2 DEF CloseNext, TypeOK
  <1>3. CASE RtcClose
    <2>1. /\ input' \in 0 .. MaxStreams /\ sequence' \in Nat /\ taken' \subseteq Streams
      BY <1>3, TakeTypes DEF RtcClose
    <2> QED
      BY <1>3, <2>1 DEF RtcClose, TypeOK
  <1>4. CASE Detach
    <2>1. /\ input' \in 0 .. MaxStreams /\ sequence' \in Nat /\ taken' \subseteq Streams
      BY <1>4, TakeTypes DEF Detach
    <2> QED
      BY <1>4, <2>1 DEF Detach, TypeOK
  <1> QED
    BY <1>1, <1>2, <1>3, <1>4

LEMMA TypeStep == TypeOK /\ [Next]_vars => TypeOK'
  <1> SUFFICES ASSUME TypeOK, [Next]_vars PROVE TypeOK'
    OBVIOUS
  <1>1. CASE UNCHANGED vars
    BY <1>1 DEF TypeOK, vars, audioVars, endpointVars, callbackVars, inputVars, streamVars,
                forwarderVars
  <1> QED
    BY <1>1, PublishTypes, ObserveTypes, ConsumeTypes, CallbackTypes, SpeechStartTypes,
       StreamTypes, EndTypes DEF Next, StreamStep

\* TypeOK: what the goroutines share keeps its shape, and no subscription grows
\* beyond its buffer.
THEOREM SpeechInputTypeOK == Spec => []TypeOK
  BY InitTypes, TypeStep, PTL DEF Spec
-----------------------------------------------------------------------------
(* The input channel. *)

\* A stream is numbered after those before it, and asrRuntime feeds none that
\* somebody took.
Inputs ==
    /\ input <= opened
    /\ \A s \in taken \cup closedInputs : s <= opened
    /\ InputClosedOnce

\* Taking the input moves it to the channels that are to be closed.
LEMMA TakeKeepsInputs ==
    TypeOK /\ Inputs /\ TakeInput /\ UNCHANGED <<opened, closedInputs>> => Inputs'
  BY DEF TypeOK, Inputs, InputClosedOnce, TakeInput, Streams

LEMMA InputsStep == TypeOK /\ Inputs /\ [Next]_vars => Inputs'
  <1> SUFFICES ASSUME TypeOK, Inputs, [Next]_vars PROVE Inputs'
    OBVIOUS
  <1> USE DEF audioVars, endpointVars, callbackVars, inputVars, streamVars, forwarderVars
  <1>1. CASE UNCHANGED <<input, opened, taken, closedInputs>>
    BY <1>1 DEF Inputs, InputClosedOnce
  <1>2. CASE EndOfUtterance
    BY <1>1, <1>2, TakeKeepsInputs DEF EndOfUtterance
  <1>3. CASE SpeechStart
    <2>1. CASE OpenStream
      BY <1>3, <2>1 DEF SpeechStart, OpenStream, TypeOK, Inputs, InputClosedOnce, Streams
    <2>2. CASE OpenNothing
      BY <1>1, <1>3, <2>2 DEF SpeechStart, OpenNothing
    <2> QED
      BY <1>3, <2>1, <2>2 DEF SpeechStart
  <1>4. ASSUME NEW s \in Streams, CloseInput(s) PROVE Inputs'
    BY <1>4 DEF CloseInput, TypeOK, Inputs, InputClosedOnce, Streams
  <1>5. ASSUME NEW s \in Streams, EndInput(s) PROVE Inputs'
    BY <1>5, TakeKeepsInputs DEF EndInput
  <1>6. ASSUME NEW s \in Streams, Release(s) PROVE Inputs'
    <2>1. /\ input' = input \/ input' = 0
          /\ UNCHANGED <<opened, taken, closedInputs>>
      BY <1>6 DEF Release, ClearOwnInput
    <2> QED
      BY <2>1 DEF TypeOK, Inputs, InputClosedOnce, Streams
  <1>7. ASSUME NEW s \in Streams, ForwardEvent(s) \/ EventsEnd(s) PROVE Inputs'
    BY <1>1, <1>7 DEF ForwardEvent, EventsEnd
  <1>8. CASE CloseNext
    <2>1. CASE CloseASR
      BY <1>8, <2>1, TakeKeepsInputs DEF CloseNext, CloseASR
    <2>2. CASE CloseEndpointer \/ ClosePCM
      BY <1>1, <1>8, <2>2 DEF CloseNext, CloseEndpointer, ClosePCM
    <2> QED
      BY <1>8, <2>1, <2>2 DEF CloseNext
  <1>9. CASE RtcClose \/ Detach
    BY <1>9, TakeKeepsInputs DEF RtcClose, Detach
  <1>10. CASE \/ \E kind \in {"speech", "silence"} : Publish(kind)
              \/ ObserveFrame \/ ConsumeFrame \/ TimerFires \/ SilenceTimeout
              \/ LookUpRuntime \/ TrackEnds \/ UNCHANGED vars
    <2>1. UNCHANGED <<input, opened, taken, closedInputs>>
      BY <1>10 DEF Publish, ObserveFrame, ConsumeFrame, TimerFires, SilenceTimeout,
                   LookUpRuntime, TrackEnds, vars
    <2> QED
      BY <1>1, <2>1
  <1> QED
    BY <1>2, <1>3, <1>4, <1>5, <1>6, <1>7, <1>8, <1>9, <1>10 DEF Next

LEMMA InitInputs == Init => Inputs
  BY DEF Init, Inputs, InputClosedOnce

\* Of all that may take a stream's input - the end of the utterance, a final of
\* this or of another stream, three ways to close - one does, so that the
\* channel is closed once and never sent on after that.
THEOREM SpeechInputClosedOnce == Spec => []InputClosedOnce
  <1>1. Inputs => InputClosedOnce
    BY DEF Inputs
  <1> QED
    BY <1>1, InitTypes, TypeStep, InitInputs, InputsStep, PTL DEF Spec
-----------------------------------------------------------------------------
(* The finals. *)

\* A stream that is read has not handed its final on.
Finals ==
    \A s \in Streams :
        /\ s > opened => forwarder[s] = "none"
        /\ forwarder[s] \in {"none", "range"} => finals[s] = 0
        /\ finals[s] <= 1

LEMMA FinalsStep == TypeOK /\ Finals /\ [Next]_vars => Finals'
  <1> SUFFICES ASSUME TypeOK, Finals, [Next]_vars PROVE Finals'
    OBVIOUS
  <1> USE DEF audioVars, endpointVars, callbackVars, inputVars, streamVars, forwarderVars
  <1>1. CASE UNCHANGED <<opened, forwarder, finals>>
    BY <1>1 DEF Finals
  <1>2. CASE SpeechStart
    <2>1. CASE OpenStream
      <3> SUFFICES ASSUME NEW t \in Streams
                   PROVE  /\ t > opened' => forwarder'[t] = "none"
                          /\ forwarder'[t] \in {"none", "range"} => finals'[t] = 0
                          /\ finals'[t] <= 1
        BY DEF Finals
      <3>1. opened' = opened + 1 /\ opened + 1 \in Streams /\ finals' = finals
            /\ opened \in Nat
        BY <1>2, <2>1 DEF SpeechStart, OpenStream, TypeOK, Streams
      <3>2. forwarder'[t] = IF t = opened + 1 THEN "range" ELSE forwarder[t]
        BY <2>1, <3>1 DEF OpenStream, TypeOK
      <3> QED
        BY <3>1, <3>2 DEF Finals, Streams
    <2>2. CASE OpenNothing
      BY <1>1, <1>2, <2>2 DEF SpeechStart, OpenNothing
    <2> QED
      BY <1>2, <2>1, <2>2 DEF SpeechStart
  <1>3. ASSUME NEW s \in Streams, StreamStep(s) PROVE Finals'
    <2> SUFFICES ASSUME NEW t \in Streams
                 PROVE  /\ t > opened' => forwarder'[t] = "none"
                        /\ forwarder'[t] \in {"none", "range"} => finals'[t] = 0
                        /\ finals'[t] <= 1
      BY DEF Finals
    <2>1. opened' = opened
      BY <1>3 DEF StreamStep, CloseInput, ForwardEvent, EndInput, EventsEnd, Release
    <2>2. CASE CloseInput(s)
      <3>1. /\ finals' = finals
            /\ \/ forwarder'[t] = forwarder[t]
               \/ forwarder[t] = "close" /\ forwarder'[t] = "drain"
        BY <2>2 DEF CloseInput
      <3> QED
        BY <2>1, <3>1 DEF Finals
    <2>3. ASSUME NEW where \in {"take", "close", "drain", "release", "done"},
                 NEW more \in {0, 1},
                 forwarder[s] # "none", more = 1 => forwarder[s] = "range",
                 forwarder' = [forwarder EXCEPT ![s] = where],
                 finals'[t] = IF t = s THEN finals[t] + more ELSE finals[t]
          PROVE  /\ t > opened' => forwarder'[t] = "none"
                 /\ forwarder'[t] \in {"none", "range"} => finals'[t] = 0
                 /\ finals'[t] <= 1
      <3>1. forwarder'[t] = IF t = s THEN where ELSE forwarder[t]
        BY <2>3 DEF TypeOK
      <3>2. CASE t # s
        BY <2>1, <2>3, <3>1, <3>2 DEF Finals
      <3>3. CASE t = s
        <4>1. t <= opened /\ forwarder'[t] = where
          BY <2>3, <3>1, <3>3 DEF Finals, TypeOK, Streams
        <4>2. finals[t] \in Nat /\ finals[t] <= 1 /\ (more = 1 => finals[t] = 0)
          BY <2>3, <3>3 DEF Finals, TypeOK
        <4>3. finals'[t] <= 1
          BY <2>3, <3>3, <4>2
        <4>4. ~(forwarder'[t] \in {"none", "range"})
          BY <2>3, <4>1
        <4> QED
          BY <2>1, <4>1, <4>3, <4>4 DEF TypeOK, Streams
      <3> QED
        BY <3>2, <3>3
    <2>4. finals[t] \in Nat
      BY DEF TypeOK
    <2>5. CASE ForwardEvent(s)
      <3>1. CASE UNCHANGED <<forwarder, finals>>
        BY <2>1, <3>1 DEF Finals
      <3>2. CASE HandFinal(s) /\ forwarder[s] = "range"
                 /\ forwarder' = [forwarder EXCEPT ![s] = "take"]
        <4>1. finals'[t] = IF t = s THEN finals[t] + 1 ELSE finals[t]
          BY <3>2 DEF HandFinal, TypeOK
        <4> QED
          BY <2>3, <3>2, <4>1
      <3> QED
        BY <2>5, <3>1, <3>2 DEF ForwardEvent, NewPartial, SamePartial, FinalEvent
    <2>6. CASE EndInput(s)
      <3>1. \/ forwarder' = [forwarder EXCEPT ![s] = "drain"]
            \/ forwarder' = [forwarder EXCEPT ![s] = "close"]
        BY <2>6 DEF EndInput
      <3>2. forwarder[s] # "none" /\ finals'[t] = IF t = s THEN finals[t] + 0 ELSE finals[t]
        BY <2>4, <2>6 DEF EndInput
      <3>3. CASE forwarder' = [forwarder EXCEPT ![s] = "drain"]
        BY <2>3, <3>2, <3>3
      <3>4. CASE forwarder' = [forwarder EXCEPT ![s] = "close"]
        BY <2>3, <3>2, <3>4
      <3> QED
        BY <3>1, <3>3, <3>4
    <2>7. CASE EventsEnd(s)
      <3>1. forwarder[s] # "none" /\ forwarder' = [forwarder EXCEPT ![s] = "release"]
        BY <2>7 DEF EventsEnd
      <3>2. CASE forwarder[s] = "range" /\ repeats[s] > 0
        <4>1. finals'[t] = IF t = s THEN finals[t] + 1 ELSE finals[t]
          BY <2>7, <3>2 DEF EventsEnd, PromoteTrailing, TypeOK
        <4> QED
          BY <2>3, <3>1, <3>2, <4>1
      <3>3. CASE ~(forwarder[s] = "range" /\ repeats[s] > 0)
        <4>1. finals'[t] = IF t = s THEN finals[t] + 0 ELSE finals[t]
          BY <2>4, <2>7, <3>3 DEF EventsEnd, PromoteTrailing
        <4> QED
          BY <2>3, <3>1, <4>1
      <3> QED
        BY <3>2, <3>3
    <2>8. CASE Release(s)
      <3>1. forwarder[s] # "none" /\ forwarder' = [forwarder EXCEPT ![s] = "done"]
            /\ finals'[t] = IF t = s THEN finals[t] + 0 ELSE finals[t]
        BY <2>4, <2>8 DEF Release
      <3> QED
        BY <2>3, <3>1
    <2> QED
      BY <1>3, <2>2, <2>5, <2>6, <2>7, <2>8 DEF StreamStep
  <1>4. CASE \/ \E kind \in {"speech", "silence"} : Publish(kind)
             \/ ObserveFrame \/ ConsumeFrame \/ TimerFires \/ SilenceTimeout
             \/ EndOfUtterance \/ LookUpRuntime
             \/ TrackEnds \/ CloseNext \/ RtcClose \/ Detach \/ UNCHANGED vars
    <2>1. UNCHANGED <<opened, forwarder, finals>>
      BY <1>4 DEF Publish, ObserveFrame, ConsumeFrame, TimerFires, SilenceTimeout,
                  EndOfUtterance, LookUpRuntime, TrackEnds, CloseNext, RtcClose, Detach, vars
    <2> QED
      BY <1>1, <2>1
  <1> QED
    BY <1>2, <1>3, <1>4 DEF Next, StreamStep

LEMMA InitFinals == Init => Finals
  BY DEF Init, Finals

\* OneFinalPerStream: whatever order the partials, the final, a stable partial
\* and the end of the events come in, a stream starts at most one reply.
THEOREM SpeechInputOneFinal == Spec => []OneFinalPerStream
  <1>1. Finals => OneFinalPerStream
    BY DEF Finals, OneFinalPerStream
  <1> QED
    BY <1>1, InitTypes, TypeStep, InitFinals, FinalsStep, PTL DEF Spec
-----------------------------------------------------------------------------
(* The chunks. *)

\* asrRuntime.sequence is the number of chunks that its stream was given.
Numbering ==
    /\ input <= opened
    /\ input # 0 => sequence = Len(fed[input])
    /\ \A s \in Streams : s > opened => fed[s] = <<>>
    /\ ChunksNumbered

\* The next chunk continues a numbering.
LEMMA NumberedAppend ==
    ASSUME NEW chunks \in Seq(Nat), chunks = [i \in 1 .. Len(chunks) |-> i - 1]
    PROVE  /\ Len(Append(chunks, Len(chunks))) = Len(chunks) + 1
           /\ Append(chunks, Len(chunks))
                = [i \in 1 .. Len(Append(chunks, Len(chunks))) |-> i - 1]
  <1> DEFINE n == Len(chunks)
             longer == Append(chunks, n)
  <1>1. n \in Nat /\ \A i \in 1 .. n : chunks[i] = i - 1
    BY LenProperties
  <1>2. /\ longer \in Seq(Nat) /\ Len(longer) = n + 1 /\ longer[n + 1] = n
        /\ \A i \in 1 .. n : longer[i] = chunks[i]
    BY <1>1, AppendProperties
  <1>3. longer = [i \in 1 .. Len(longer) |-> longer[i]]
    BY <1>2, LenProperties
  <1> HIDE DEF longer, n
  <1>4. \A i \in 1 .. Len(longer) : longer[i] = i - 1
    BY <1>1, <1>2
  <1>5. longer = [i \in 1 .. Len(longer) |-> i - 1]
    BY <1>3, <1>4
  <1> QED
    BY <1>2, <1>5 DEF longer, n

LEMMA NumberingStep == TypeOK /\ Numbering /\ [Next]_vars => Numbering'
  <1> SUFFICES ASSUME TypeOK, Numbering, [Next]_vars PROVE Numbering'
    OBVIOUS
  <1> USE DEF audioVars, endpointVars, callbackVars, inputVars, streamVars, forwarderVars
  <1>1. CASE UNCHANGED <<input, sequence, opened, fed>>
    BY <1>1 DEF Numbering, ChunksNumbered
  <1>2. CASE input' = 0 /\ UNCHANGED <<opened, fed>>
    BY <1>2 DEF Numbering, ChunksNumbered, TypeOK
  <1>3. CASE ConsumeFrame
    <2>1. CASE input = 0
      BY <1>1, <1>3, <2>1 DEF ConsumeFrame
    <2>2. ASSUME NEW queued \in BOOLEAN, input # 0, QueueChunk(queued) PROVE Numbering'
      <3>1. input' = input /\ opened' = opened /\ input \in Streams /\ fed[input] \in Seq(Nat)
            /\ input <= opened /\ opened \in Nat
        BY <1>3, <2>2 DEF ConsumeFrame, TypeOK, Streams, Numbering
      <3>2. CASE ~queued
        <4>1. sequence' = sequence /\ fed' = fed
          BY <2>2, <3>2 DEF QueueChunk, TypeOK
        <4> QED
          BY <1>1, <3>1, <4>1
      <3>3. CASE queued
        <4>1. sequence' = sequence + 1 /\ fed' = [fed EXCEPT ![input] = Append(@, sequence)]
          BY <2>2, <3>3 DEF QueueChunk
        <4>2. sequence = Len(fed[input])
              /\ fed[input] = [i \in 1 .. Len(fed[input]) |-> i - 1]
          BY <2>2, <3>1 DEF Numbering, ChunksNumbered
        <4>3. /\ Len(Append(fed[input], sequence)) = sequence + 1
              /\ Append(fed[input], sequence)
                   = [i \in 1 .. Len(Append(fed[input], sequence)) |-> i - 1]
          BY <3>1, <4>2, NumberedAppend
        <4>4. fed'[input] = Append(fed[input], sequence)
              /\ \A s \in Streams : s # input => fed'[s] = fed[s]
          BY <3>1, <4>1 DEF TypeOK
        <4>5. input' # 0 => sequence' = Len(fed'[input'])
          BY <3>1, <4>1, <4>3, <4>4
        <4>6. ASSUME NEW s \in Streams, s > opened' PROVE fed'[s] = <<>>
          BY <3>1, <4>4, <4>6 DEF Numbering, Streams
        <4>7. ASSUME NEW s \in Streams PROVE fed'[s] = [i \in 1 .. Len(fed'[s]) |-> i - 1]
          <5>1. CASE s = input
            BY <4>3, <4>4, <5>1
          <5>2. CASE s # input
            BY <4>4, <5>2 DEF Numbering, ChunksNumbered
          <5> QED
            BY <5>1, <5>2
        <4> QED
          BY <3>1, <4>5, <4>6, <4>7 DEF Numbering, ChunksNumbered
      <3> QED
        BY <3>2, <3>3
    <2> QED
      BY <1>3, <2>1, <2>2 DEF ConsumeFrame
  <1>4. CASE SpeechStart
    <2>1. CASE OpenStream
      <3>1. opened' = opened + 1 /\ input' = opened + 1 /\ sequence' = 0 /\ fed' = fed
            /\ opened \in Nat /\ opened + 1 \in Streams
        BY <1>4, <2>1 DEF SpeechStart, OpenStream, TypeOK, Streams
      <3>2. fed[opened + 1] = <<>> /\ Len(<<>>) = 0
        BY <3>1, EmptySeq DEF Numbering, Streams
      <3>3. \A s \in Streams : s > opened' => fed'[s] = <<>>
        BY <3>1 DEF Numbering, Streams
      <3>4. ChunksNumbered'
        BY <3>1 DEF Numbering, ChunksNumbered
      <3> QED
        BY <3>1, <3>2, <3>3, <3>4 DEF Numbering
    <2>2. CASE OpenNothing
      BY <1>1, <1>4, <2>2 DEF SpeechStart, OpenNothing
    <2> QED
      BY <1>4, <2>1, <2>2 DEF SpeechStart
  <1>5. ASSUME NEW s \in Streams, StreamStep(s) PROVE Numbering'
    <2>1. CASE EndInput(s)
      BY <1>2, <2>1 DEF EndInput, TakeInput
    <2>2. CASE Release(s)
      BY <1>1, <1>2, <2>2 DEF Release, ClearOwnInput
    <2>3. CASE CloseInput(s) \/ ForwardEvent(s) \/ EventsEnd(s)
      BY <1>1, <2>3 DEF CloseInput, ForwardEvent, EventsEnd
    <2> QED
      BY <1>5, <2>1, <2>2, <2>3 DEF StreamStep
  <1>6. CASE EndOfUtterance
    BY <1>1, <1>2, <1>6 DEF EndOfUtterance, TakeInput
  <1>7. CASE CloseNext
    <2>1. CASE CloseASR
      BY <1>2, <1>7, <2>1 DEF CloseNext, CloseASR, TakeInput
    <2>2. CASE CloseEndpointer \/ ClosePCM
      BY <1>1, <1>7, <2>2 DEF CloseNext, CloseEndpointer, ClosePCM
    <2> QED
      BY <1>7, <2>1, <2>2 DEF CloseNext
  <1>8. CASE RtcClose \/ Detach
    BY <1>2, <1>8 DEF RtcClose, Detach, TakeInput
  <1>9. CASE \/ \E kind \in {"speech", "silence"} : Publish(kind)
             \/ ObserveFrame \/ TimerFires \/ SilenceTimeout \/ LookUpRuntime
             \/ TrackEnds \/ UNCHANGED vars
    <2>1. UNCHANGED <<input, sequence, opened, fed>>
      BY <1>9 DEF Publish, ObserveFrame, TimerFires, SilenceTimeout, LookUpRuntime,
                  TrackEnds, vars
    <2> QED
      BY <1>1, <2>1
  <1> QED
    BY <1>3, <1>4, <1>5, <1>6, <1>7, <1>8, <1>9 DEF Next, StreamStep

LEMMA InitNumbering == Init => Numbering
  <1> SUFFICES ASSUME Init PROVE Numbering
    OBVIOUS
  <1>1. \A s \in Streams : fed[s] = <<>>
    BY DEF Init
  <1>2. Len(<<>>) = 0 /\ <<>> = [i \in 1 .. 0 |-> i - 1]
    BY EmptySeq
  <1> QED
    BY <1>1, <1>2 DEF Init, Numbering, ChunksNumbered

\* ChunksNumbered: the provider sees the chunks of every stream numbered from 0
\* without gaps, over drops, late ends of earlier streams and reopened inputs.
THEOREM SpeechInputChunksNumbered == Spec => []ChunksNumbered
  <1>1. Numbering => ChunksNumbered
    BY DEF Numbering
  <1> QED
    BY <1>1, InitTypes, TypeStep, InitNumbering, NumberingStep, PTL DEF Spec
-----------------------------------------------------------------------------
(* The endpointer, and what closes the audio. *)

\* An endpointer in speech whose timer is still set after it fired has its
\* handler before it; the deferred calls come in their order, and after the
\* manager's Close there is no entry.
Endpointing ==
    /\ Speaking /\ timer = "fired" => timeouts > 0
    /\ pcmClosed /\ entry => epClosed
    /\ ~attached => pcmClosed
    /\ closing = <<"pcm">> => epClosed

LEMMA EndpointingStep == TypeOK /\ Endpointing /\ [Next]_vars => Endpointing'
  <1> SUFFICES ASSUME TypeOK, Endpointing, [Next]_vars PROVE Endpointing'
    OBVIOUS
  <1> USE DEF audioVars, endpointVars, callbackVars, inputVars, streamVars, forwarderVars
  <1>1. CASE UNCHANGED <<entry, closing, pcmClosed, attached, active, epClosed, timer,
                         timeouts>>
    BY <1>1 DEF Endpointing, Speaking
  <1>2. CASE ObserveFrame
    <2>1. CASE UNCHANGED <<timer, active, starters, excused>>
      BY <1>1, <1>2, <2>1 DEF ObserveFrame
    <2>2. CASE ObserveSpeech
      BY <1>2, <2>2 DEF ObserveFrame, ObserveSpeech, StopTimer, Endpointing, Speaking
    <2>3. CASE ObserveSilence
      BY <1>2, <2>3 DEF ObserveFrame, ObserveSilence, Endpointing, Speaking
    <2> QED
      BY <1>2, <2>1, <2>2, <2>3 DEF ObserveFrame
  <1>3. CASE TimerFires
    <2>1. timeouts' > 0
      BY <1>3 DEF TimerFires, TypeOK
    <2> QED
      BY <1>3, <2>1 DEF TimerFires, Endpointing, Speaking
  <1>4. CASE SilenceTimeout
    <2>1. ~Speaking'
      BY <1>4 DEF SilenceTimeout, Speaking
    <2> QED
      BY <1>4, <2>1 DEF SilenceTimeout, Endpointing
  <1>5. CASE TrackEnds
    BY <1>5 DEF TrackEnds, Endpointing, Speaking
  <1>6. CASE CloseNext
    <2>1. closing \in {<<"pcm">>, <<"endpointer", "pcm">>, <<"asr", "endpointer", "pcm">>}
      BY <1>6 DEF CloseNext, TypeOK
    <2>2. UNCHANGED <<entry, attached, active, timeouts>>
      BY <1>6 DEF CloseNext
    <2>3. CASE closing = <<"pcm">>
      <3>1. closing' = <<>> /\ closing' # <<"pcm">> /\ ClosePCM
        BY <1>6, <2>1, <2>3, ClosingTail DEF CloseNext
      <3> QED
        BY <2>2, <2>3, <3>1 DEF ClosePCM, Endpointing, Speaking
    <2>4. CASE closing = <<"endpointer", "pcm">>
      <3>1. CloseEndpointer
        BY <1>6, <2>1, <2>4, ClosingTail DEF CloseNext
      <3> QED
        BY <2>2, <3>1 DEF CloseEndpointer, Endpointing, Speaking
    <2>5. CASE closing = <<"asr", "endpointer", "pcm">>
      <3>1. closing' = <<"endpointer", "pcm">> /\ closing' # <<"pcm">> /\ CloseASR
        BY <1>6, <2>1, <2>5, ClosingTail DEF CloseNext
      <3> QED
        BY <2>2, <3>1 DEF CloseASR, Endpointing, Speaking
    <2> QED
      BY <2>1, <2>3, <2>4, <2>5
  <1>7. CASE RtcClose
    BY <1>7 DEF RtcClose, Endpointing, Speaking
  <1>8. CASE Detach
    BY <1>8 DEF Detach, Endpointing, Speaking
  <1>9. ASSUME NEW s \in Streams, StreamStep(s) PROVE Endpointing'
    BY <1>1, <1>9 DEF StreamStep, CloseInput, ForwardEvent, EndInput, EventsEnd, Release
  <1>10. CASE \/ \E kind \in {"speech", "silence"} : Publish(kind)
              \/ ConsumeFrame \/ EndOfUtterance \/ LookUpRuntime \/ SpeechStart
              \/ UNCHANGED vars
    <2>1. UNCHANGED <<entry, closing, pcmClosed, attached, active, epClosed, timer, timeouts>>
      BY <1>10 DEF Publish, ConsumeFrame, EndOfUtterance, LookUpRuntime, SpeechStart, vars
    <2> QED
      BY <1>1, <2>1
  <1> QED
    BY <1>2, <1>3, <1>4, <1>5, <1>6, <1>7, <1>8, <1>9, <1>10 DEF Next, StreamStep

LEMMA InitEndpointing == Init => Endpointing
  <1>1. <<>> # <<"pcm">>
    OBVIOUS
  <1> QED
    BY <1>1 DEF Init, Endpointing, Speaking

\* An end that was coming is still coming when nothing that it depends on went
\* away; the parts of OpenInputWillEnd that a step can take away are named.
SilenceComes == Speaking /\ (timer = "fired" => timeouts > 0)

LEMMA EndpointingSimplifies == Endpointing => (SilenceComes <=> Speaking)
  BY DEF Endpointing, SilenceComes

LEMMA WillEndStep ==
    TypeOK /\ Endpointing /\ Endpointing' /\ OpenInputWillEnd /\ [Next]_vars
        => OpenInputWillEnd'
  <1> SUFFICES ASSUME TypeOK, Endpointing, Endpointing', OpenInputWillEnd, [Next]_vars,
                      input' # 0, input' \notin late'
               PROVE  EndIsComing(SilenceComes)'
    BY DEF OpenInputWillEnd, SilenceComes
  <1> USE DEF audioVars, endpointVars, callbackVars, inputVars, streamVars, forwarderVars
  <1>0. /\ SilenceComes <=> Speaking
        /\ SilenceComes' <=> Speaking'
    BY EndpointingSimplifies DEF Endpointing, SilenceComes, Speaking
  <1>1. ASSUME input' = input, late' = late
        PROVE  EndIsComing(Speaking)
    BY <1>0, <1>1 DEF OpenInputWillEnd, SilenceComes, EndIsComing
  <1>2. CASE /\ UNCHANGED <<late, entry, closing, pcmClosed, attached, active, epClosed>>
             /\ input' = input \/ input' = 0
             /\ enders' = enders
    BY <1>0, <1>1, <1>2 DEF EndIsComing, Speaking
  <1>3. CASE ObserveFrame
    <2>1. Speaking => Speaking'
      BY <1>3 DEF ObserveFrame, ObserveSpeech, ObserveSilence, StopTimer, Speaking
    <2> QED
      BY <1>0, <1>1, <1>3, <2>1 DEF ObserveFrame, EndIsComing
  <1>4. CASE SilenceTimeout
    <2>1. enders \in Nat
      BY DEF TypeOK
    <2>2. enders > 0 \/ Speaking => enders' > 0 \/ Speaking'
      BY <1>4, <2>1 DEF SilenceTimeout, Speaking
    <2> QED
      BY <1>0, <1>1, <1>4, <2>2 DEF SilenceTimeout, EndIsComing
  <1>5. CASE EndOfUtterance
    <2>1. ~entry /\ input' = input /\ UNCHANGED <<late, entry, closing, pcmClosed, attached,
                                                 epClosed>>
      BY <1>5 DEF EndOfUtterance, TakeInput
    <2> QED
      BY <1>1, <2>1 DEF EndIsComing
  <1>6. CASE SpeechStart
    <2>1. CASE OpenStream
      <3>1. EndIsComing(Speaking)
        BY <2>1 DEF OpenStream
      <3> QED
        BY <1>0, <1>6, <3>1 DEF SpeechStart, EndIsComing, Speaking
    <2>2. CASE OpenNothing
      BY <1>2, <1>6, <2>2 DEF SpeechStart, OpenNothing
    <2> QED
      BY <1>6, <2>1, <2>2 DEF SpeechStart
  <1>7. CASE TrackEnds
    BY <1>7 DEF TrackEnds, EndIsComing
  <1>8. CASE CloseNext
    <2>1. closing \in {<<"pcm">>, <<"endpointer", "pcm">>, <<"asr", "endpointer", "pcm">>}
      BY <1>8 DEF CloseNext, TypeOK
    <2>2. ~CloseASR
      BY DEF CloseASR, TakeInput
    <2>3. closing # <<"asr", "endpointer", "pcm">>
      BY <1>8, <2>1, <2>2, ClosingTail DEF CloseNext
    <2>4. Len(closing) # 3
      BY <2>1, <2>3, ClosingTail
    <2>5. UNCHANGED <<entry, attached, active, enders, late>>
      BY <1>8 DEF CloseNext
    <2>6. CASE CloseEndpointer
      <3>1. epClosed' = TRUE /\ pcmClosed' = pcmClosed /\ input' = input
        BY <2>6 DEF CloseEndpointer
      <3> QED
        BY <1>1, <2>4, <2>5, <3>1 DEF EndIsComing, Endpointing, Speaking
    <2>7. CASE ClosePCM
      <3>1. pcmClosed' = TRUE /\ epClosed' = epClosed /\ input' = input
        BY <2>7 DEF ClosePCM
      <3>2. Speaking' <=> Speaking
        BY <2>5, <3>1 DEF Speaking
      <3> QED
        BY <1>0, <1>1, <2>4, <2>5, <3>1, <3>2 DEF EndIsComing
    <2> QED
      BY <1>8, <2>2, <2>6, <2>7 DEF CloseNext
  <1>9. CASE RtcClose \/ Detach
    BY <1>9 DEF RtcClose, Detach, TakeInput
  <1>10. ASSUME NEW s \in Streams, StreamStep(s) PROVE EndIsComing(SilenceComes)'
    <2>1. /\ UNCHANGED <<late, entry, closing, pcmClosed, attached, active, epClosed>>
          /\ input' = input \/ input' = 0
          /\ enders' = enders
      BY <1>10 DEF StreamStep, CloseInput, ForwardEvent, EndInput, EventsEnd, Release,
                   TakeInput, ClearOwnInput
    <2> QED
      BY <1>2, <2>1
  <1>11. CASE \/ \E kind \in {"speech", "silence"} : Publish(kind)
              \/ ConsumeFrame \/ TimerFires \/ LookUpRuntime \/ UNCHANGED vars
    <2>1. /\ UNCHANGED <<late, entry, closing, pcmClosed, attached, active, epClosed>>
          /\ input' = input
          /\ enders' = enders
      BY <1>11 DEF Publish, ConsumeFrame, TimerFires, LookUpRuntime, vars
    <2> QED
      BY <1>2, <2>1
  <1> QED
    BY <1>3, <1>4, <1>5, <1>6, <1>7, <1>8, <1>9, <1>10, <1>11 DEF Next, StreamStep

\* OpenInputWillEnd: with any number of timers that fired and of callbacks under
\* way, an input that was opened in time is not left open for good.
THEOREM SpeechInputWillEnd == Spec => []OpenInputWillEnd
  <1>1. Init => OpenInputWillEnd
    BY DEF Init, OpenInputWillEnd
  <1> QED
    BY <1>1, InitTypes, TypeStep, InitEndpointing, EndpointingStep, WillEndStep, PTL DEF Spec
-----------------------------------------------------------------------------
(* Speech and streams. *)

\* Speech has a stream, an excuse, or a start on its way.
Heard ==
    Speaking /\ entry /\ closing = <<>>
        => input # 0 \/ excused \/ starters > 0 \/ starting > 0

LEMMA HeardStep == TypeOK /\ Endpointing /\ Heard /\ [Next]_vars => Heard'
  <1> SUFFICES ASSUME TypeOK, Endpointing, Heard, [Next]_vars,
                      Speaking', entry', closing' = <<>>
               PROVE  (input # 0 \/ excused \/ starters > 0 \/ starting > 0)'
    BY DEF Heard
  <1> USE DEF audioVars, endpointVars, callbackVars, inputVars, streamVars, forwarderVars
  <1>0. starters \in Nat /\ starting \in Nat
    BY DEF TypeOK
  <1>1. CASE UNCHANGED <<entry, closing, active, epClosed, input, excused, starters, starting>>
    BY <1>1 DEF Heard, Speaking
  <1>2. CASE ObserveFrame
    <2>1. UNCHANGED <<entry, closing, epClosed, input, starting>>
      BY <1>2 DEF ObserveFrame
    <2>2. CASE UNCHANGED <<timer, active, starters, excused>> \/ ObserveSilence
      BY <1>1, <2>1, <2>2 DEF ObserveSilence
    <2>3. CASE ObserveSpeech /\ active
      <3>1. Speaking
        BY <2>1, <2>3 DEF Speaking
      <3>2. starters' = starters
        BY <2>3 DEF ObserveSpeech
      <3>3. excused => excused'
        BY <2>3, Zenon DEF ObserveSpeech
      <3> QED
        BY <2>1, <3>1, <3>2, <3>3 DEF Heard
    <2>4. CASE ObserveSpeech /\ ~active
      BY <1>0, <2>4 DEF ObserveSpeech
    <2> QED
      BY <1>2, <2>2, <2>3, <2>4 DEF ObserveFrame
  <1>3. CASE SilenceTimeout
    BY <1>1, <1>3 DEF SilenceTimeout, Speaking
  <1>4. CASE EndOfUtterance
    <2>1. CASE input = 0
      <3>1. UNCHANGED <<entry, closing, active, epClosed, starters, starting>> /\ input' = 0
            /\ (excused => excused')
        BY <1>4, <2>1 DEF EndOfUtterance, TakeInput
      <3> QED
        BY <2>1, <3>1 DEF Heard, Speaking
    <2>2. CASE input # 0
      BY <1>4, <2>2 DEF EndOfUtterance, Speaking
    <2> QED
      BY <2>1, <2>2
  <1>5. CASE LookUpRuntime
    <2>1. excused' \/ starting' = starting + 1
      BY <1>5 DEF LookUpRuntime
    <2> QED
      BY <1>0, <2>1
  <1>6. CASE SpeechStart
    <2>1. excused' \/ input' = opened + 1
      BY <1>6 DEF SpeechStart, OpenStream, OpenNothing
    <2>2. opened \in Nat
      BY DEF TypeOK
    <2> QED
      BY <2>1, <2>2
  <1>7. CASE CloseNext
    <2>1. closing \in {<<"pcm">>, <<"endpointer", "pcm">>, <<"asr", "endpointer", "pcm">>}
      BY <1>7 DEF CloseNext, TypeOK
    <2>2. closing' = Tail(closing)
      BY <1>7 DEF CloseNext
    <2>3. closing = <<"pcm">>
      BY <2>1, <2>2, ClosingTail
    <2>4. epClosed /\ ClosePCM
      BY <1>7, <2>1, <2>3, ClosingTail DEF CloseNext, Endpointing
    <2> QED
      BY <2>4 DEF ClosePCM, Speaking
  <1>8. CASE Detach
    <2>1. pcmClosed /\ entry /\ ~epClosed
      BY <1>8 DEF Detach, Speaking
    <2> QED
      BY <2>1 DEF Endpointing
  <1>9. CASE RtcClose \/ TrackEnds
    <2>1. CASE TrackEnds
      <3>1. <<"asr", "endpointer", "pcm">> # <<>>
        OBVIOUS
      <3> QED
        BY <2>1, <3>1 DEF TrackEnds
    <2> QED
      BY <1>9, <2>1 DEF RtcClose
  <1>10. ASSUME NEW s \in Streams, StreamStep(s)
         PROVE  (input # 0 \/ excused \/ starters > 0 \/ starting > 0)'
    <2>1. UNCHANGED <<entry, closing, active, epClosed, starters, starting>>
      BY <1>10 DEF StreamStep, CloseInput, ForwardEvent, EndInput, EventsEnd, Release
    <2>2. (input' = input \/ (input # 0 => excused')) /\ (excused => excused')
      <3>1. CASE EndInput(s)
        BY <3>1 DEF EndInput, TakeInput
      <3>2. CASE Release(s)
        BY <3>2 DEF Release, ClearOwnInput
      <3>3. CASE CloseInput(s) \/ ForwardEvent(s) \/ EventsEnd(s)
        <4>1. UNCHANGED <<input, excused>>
          BY <3>3 DEF CloseInput, ForwardEvent, EventsEnd
        <4> QED
          BY <4>1
      <3> QED
        BY <1>10, <3>1, <3>2, <3>3 DEF StreamStep
    <2> QED
      BY <2>1, <2>2 DEF Heard, Speaking
  <1>11. CASE \/ \E kind \in {"speech", "silence"} : Publish(kind)
              \/ ConsumeFrame \/ TimerFires \/ UNCHANGED vars
    <2>1. UNCHANGED <<entry, closing, active, epClosed, input, excused, starters, starting>>
      BY <1>11 DEF Publish, ConsumeFrame, TimerFires, vars
    <2> QED
      BY <1>1, <2>1
  <1> QED
    BY <1>2, <1>3, <1>4, <1>5, <1>6, <1>7, <1>8, <1>9, <1>10, <1>11 DEF Next, StreamStep

\* SpeechIsHeard: the reasons that excused collects are all that can keep speech
\* from an ASR stream, however starts, timers and ends overtake each other.
THEOREM SpeechInputIsHeard == Spec => []SpeechIsHeard
  <1>1. Init => Heard
    BY DEF Init, Heard, Speaking
  <1>2. TypeOK /\ Heard => SpeechIsHeard
    BY DEF TypeOK, Heard, SpeechIsHeard
  <1> QED
    BY <1>1, <1>2, InitTypes, TypeStep, InitEndpointing, EndpointingStep, HeardStep, PTL
       DEF Spec
=============================================================================

------------------------- MODULE DownlinkAudioProofs -------------------------
(***************************************************************************)
(* What holds of the downlink writer for every number of writers, waiters  *)
(* and flushers, every capacity and every number of frames: the pending    *)
(* count is exact, nobody waits on an idle channel that was replaced, what *)
(* a flush found is silent when it returns, and what a blocked call waits  *)
(* for is before the runner or a writer.                                   *)
(***************************************************************************)
EXTENDS DownlinkAudio, FiniteSetTheorems, TLAPS

\* Where run can be while it holds a frame or a count of its own, and what a
\* writer holds between announcing a frame and queueing it.
Stages == /\ playing # 0 => runner \in {"pacing", "stopped"}
          /\ runner = "pacing" => playing # 0
          /\ drained # 0 => runner \in {"flushing", "flushed"}
          /\ \A w \in Writers : writer[w] = "announced" => inHand[w] \in Frames

\* The current idle channel is closed exactly when nothing is pending; every
\* older one is closed, and there is no newer one.
IdleChannel == /\ idleCh \in closed <=> pending = 0
               /\ \A g \in Nat : g < idleCh => g \in closed
               /\ \A g \in closed : g <= idleCh
               /\ \A w \in Waiters : waitsOn[w] <= idleCh

IInv == TypeOK /\ Stages /\ PendingCountsFrames /\ IdleChannel

Busy(s) == {w \in Writers : s[w] # "idle"}

\* Appending a frame to a sequence of frames.
LEMMA AppendFrame ==
  ASSUME NEW q \in Seq(Frames), NEW x \in Frames
  PROVE  Append(q, x) \in Seq(Frames) /\ Len(Append(q, x)) = Len(q) + 1
  OBVIOUS

\* Taking the first frame off a sequence of frames.
LEMMA TailFrame ==
  ASSUME NEW q \in Seq(Frames), q # <<>>
  PROVE  /\ Head(q) \in Frames /\ Tail(q) \in Seq(Frames)
         /\ Len(Tail(q)) = Len(q) - 1 /\ Len(q) > 0
  OBVIOUS

\* markQueued keeps the types of the count and of the idle channels.
LEMMA MarkQueuedType ==
  ASSUME pending \in Nat, idleCh \in Nat, closed \subseteq Nat, MarkQueued
  PROVE  pending' \in Nat /\ idleCh' \in Nat /\ closed' \subseteq Nat
  BY DEF MarkQueued

\* markDone keeps them too.
LEMMA MarkDoneType ==
  ASSUME NEW n \in Nat, pending \in Nat, idleCh \in Nat, closed \subseteq Nat,
         MarkDone(n)
  PROVE  pending' \in Nat /\ idleCh' \in Nat /\ closed' \subseteq Nat
<1>1. CASE n = 0 \/ pending = 0
      BY <1>1 DEF MarkDone
<1>2. CASE ~(n = 0 \/ pending = 0)
  <2>1. pending' \in Nat
        BY <1>2 DEF MarkDone
  <2>2. idleCh' \in Nat
        BY DEF MarkDone
  <2>3. closed' = closed \/ closed' = closed \cup {idleCh}
        BY <1>2 DEF MarkDone
  <2> QED
      BY <2>1, <2>2, <2>3
<1> QED
    BY <1>1, <1>2

\* A new writer has the types of its fields, nothing pending, and a closed
\* idle channel.
LEMMA InitInv == Init => IInv
<1> SUFFICES ASSUME Init PROVE IInv
    OBVIOUS
<1>1. TypeOK
      BY SizesAssumption DEF Init, TypeOK, Frames
<1>2. Stages /\ IdleChannel
      BY DEF Init, Stages, IdleChannel
<1>3. {w \in Writers : writer[w] # "idle"} = {}
      BY DEF Init
<1>4. Cardinality({w \in Writers : writer[w] # "idle"}) = 0
      BY <1>3, FS_EmptySet
<1>5. PendingCountsFrames
      BY <1>4 DEF Init, PendingCountsFrames
<1> QED
    BY <1>1, <1>2, <1>5 DEF IInv

\* Every step keeps the types.
LEMMA TypeStep == TypeOK /\ Stages /\ [Next]_vars => TypeOK'
<1> SUFFICES ASSUME TypeOK, Stages, [Next]_vars PROVE TypeOK'
    OBVIOUS
<1> USE SizesAssumption DEF TypeOK, writerVars, runnerVars, callerVars, countVars
<1>1. ASSUME NEW w \in Writers, Announce(w) PROVE TypeOK'
      BY <1>1, MarkQueuedType DEF Announce, Frames
<1>2. ASSUME NEW w \in Writers, Enqueue(w) PROVE TypeOK'
  <2>1. UNCHANGED <<countVars, announced, runnerVars, callerVars, close>>
        BY <1>2 DEF Enqueue
  <2>2. inHand' \in [Writers -> 0 .. MaxFrames]
        BY <1>2 DEF Enqueue
  <2>3. CASE writer' = [writer EXCEPT ![w] = "idle"] /\ Len(queue) < Capacity
             /\ queue' = Append(queue, inHand[w])
    <3>1. inHand[w] \in Frames
          BY <1>2 DEF Enqueue, Stages
    <3>2. queue' \in Seq(Frames) /\ Len(queue') = Len(queue) + 1
          BY <2>3, <3>1, AppendFrame
    <3>3. Len(queue) \in Nat
          OBVIOUS
    <3>4. writer' \in [Writers -> {"idle", "announced", "refused"}]
          BY <2>3
    <3> QED
        BY <2>1, <2>2, <2>3, <3>2, <3>3, <3>4
  <2>4. CASE writer' = [writer EXCEPT ![w] = "refused"] /\ UNCHANGED queue
    <3>1. writer' \in [Writers -> {"idle", "announced", "refused"}]
          BY <2>4
    <3> QED
        BY <2>1, <2>2, <2>4, <3>1
  <2> QED
      BY <1>2, <2>3, <2>4 DEF Enqueue
<1>3. ASSUME NEW w \in Writers, Refused(w) PROVE TypeOK'
  <2>1. pending' \in Nat /\ idleCh' \in Nat /\ closed' \subseteq Nat
        BY <1>3, MarkDoneType DEF Refused
  <2>2. /\ writer' \in [Writers -> {"idle", "announced", "refused"}]
        /\ inHand' \in [Writers -> 0 .. MaxFrames]
        BY <1>3 DEF Refused
  <2>3. UNCHANGED <<queue, announced, runnerVars, callerVars, close>>
        BY <1>3 DEF Refused
  <2> QED
      BY <2>1, <2>2, <2>3
<1>4. CASE TakeFrame
      BY <1>4, TailFrame DEF TakeFrame, Frames
<1>5. CASE Paced
  <2>1. pending' \in Nat /\ idleCh' \in Nat /\ closed' \subseteq Nat
        BY <1>5, MarkDoneType DEF Paced
  <2> QED
      BY <1>5, <2>1 DEF Paced
<1>6. ASSUME NEW f \in Flushers, AcceptFlush(f) PROVE TypeOK'
  <2>1. CASE runner = "pacing"
    <3>1. pending' \in Nat /\ idleCh' \in Nat /\ closed' \subseteq Nat
          BY <1>6, <2>1, MarkDoneType DEF AcceptFlush
    <3>2. /\ flusher' \in [Flushers -> {"idle", "sending", "waiting", "done"}]
          /\ runner' = "flushing" /\ playing' = 0 /\ drained' = 0 /\ serving' = f
          BY <1>6 DEF AcceptFlush
    <3>3. UNCHANGED <<queue, writerVars, waiter, waitsOn, before, close>>
          BY <1>6 DEF AcceptFlush
    <3> QED
        BY <3>1, <3>2, <3>3
  <2>2. CASE runner # "pacing"
    <3>1. /\ flusher' \in [Flushers -> {"idle", "sending", "waiting", "done"}]
          /\ runner' = "flushing" /\ playing' = 0 /\ drained' = 0 /\ serving' = f
          BY <1>6 DEF AcceptFlush
    <3>2. UNCHANGED <<queue, countVars, writerVars, waiter, waitsOn, before, close>>
          BY <1>6, <2>2 DEF AcceptFlush
    <3> QED
        BY <3>1, <3>2
  <2> QED
      BY <2>1, <2>2
<1>7. CASE DrainFrame
  <2>1. queue' \in Seq(Frames) /\ Len(queue') <= Capacity
        BY <1>7, TailFrame DEF DrainFrame
  <2>2. drained' \in Nat
        BY <1>7 DEF DrainFrame
  <2>3. UNCHANGED <<countVars, writerVars, runner, playing, serving, callerVars, close>>
        BY <1>7 DEF DrainFrame
  <2> QED
      BY <2>1, <2>2, <2>3
<1>8. CASE Drained \/ Stop
      BY <1>8 DEF Drained, Stop
<1>9. CASE AckFlush
  <2>1. pending' \in Nat /\ idleCh' \in Nat /\ closed' \subseteq Nat
        BY <1>9, MarkDoneType DEF AckFlush
  <2>2. /\ flusher' \in [Flushers -> {"idle", "sending", "waiting", "done"}]
        /\ runner' = "select" /\ drained' = 0 /\ serving' = NoFlush
        BY <1>9 DEF AckFlush
  <2>3. UNCHANGED <<queue, writerVars, playing, waiter, waitsOn, before, close>>
        BY <1>9 DEF AckFlush
  <2> QED
      BY <2>1, <2>2, <2>3
<1>10. ASSUME NEW w \in Waiters, WaitIdle(w) \/ Release(w) PROVE TypeOK'
  <2>1. CASE WaitIdle(w)
        BY <2>1 DEF WaitIdle
  <2>2. CASE Release(w)
        BY <2>2 DEF Release
  <2> QED
      BY <1>10, <2>1, <2>2
<1>11. ASSUME NEW f \in Flushers, Flush(f) PROVE TypeOK'
  <2>1. Sounding \in SUBSET Frames
        BY DEF Sounding, Frames
  <2> QED
      BY <1>11, <2>1 DEF Flush
<1>12. ASSUME NEW f \in Flushers, FlushStopped(f) PROVE TypeOK'
      BY <1>12 DEF FlushStopped
<1>13. CASE Close \/ UNCHANGED vars
      BY <1>13 DEF Close, vars
<1> QED
    BY <1>1, <1>2, <1>3, <1>4, <1>5, <1>6, <1>7, <1>8, <1>9, <1>10, <1>11, <1>12,
       <1>13
    DEF Next, Write, Run

\* Every step keeps the stages.
LEMMA StagesStep == TypeOK /\ Stages /\ [Next]_vars => Stages'
<1> SUFFICES ASSUME TypeOK, Stages, [Next]_vars PROVE Stages'
    OBVIOUS
<1> USE SizesAssumption DEF Stages, writerVars, runnerVars, callerVars
<1>1. ASSUME NEW w \in Writers, Announce(w) PROVE Stages'
      BY <1>1 DEF Announce, Frames, TypeOK
<1>2. ASSUME NEW w \in Writers, Enqueue(w) \/ Refused(w) PROVE Stages'
      BY <1>2 DEF Enqueue, Refused, TypeOK
<1>3. CASE TakeFrame
  <2>1. playing' # 0
        BY <1>3, TailFrame DEF TakeFrame, TypeOK, Frames
  <2> QED
      BY <1>3, <2>1 DEF TakeFrame
<1>4. CASE Paced \/ DrainFrame \/ Drained \/ AckFlush \/ Stop
      BY <1>4 DEF Paced, DrainFrame, Drained, AckFlush, Stop, TypeOK
<1>5. ASSUME NEW f \in Flushers, AcceptFlush(f) PROVE Stages'
      BY <1>5 DEF AcceptFlush
<1>6. ASSUME NEW w \in Waiters, WaitIdle(w) \/ Release(w) PROVE Stages'
      BY <1>6 DEF WaitIdle, Release
<1>7. ASSUME NEW f \in Flushers, Flush(f) \/ FlushStopped(f) PROVE Stages'
      BY <1>7 DEF Flush, FlushStopped
<1>8. CASE Close \/ UNCHANGED vars
      BY <1>8 DEF Close, vars
<1> QED
    BY <1>1, <1>2, <1>3, <1>4, <1>5, <1>6, <1>7, <1>8 DEF Next, Write, Run

\* The writers that hold a frame they have announced: one more of them, one
\* fewer, or as many.
LEMMA BusyCount ==
  ASSUME TypeOK, NEW w \in Writers, NEW step \in {"idle", "announced", "refused"},
         writer' = [writer EXCEPT ![w] = step]
  PROVE  /\ Cardinality(Busy(writer)) \in Nat
         /\ writer[w] = "idle" /\ step # "idle" =>
                Cardinality(Busy(writer')) = Cardinality(Busy(writer)) + 1
         /\ writer[w] # "idle" /\ step = "idle" =>
                Cardinality(Busy(writer')) = Cardinality(Busy(writer)) - 1
         /\ writer[w] # "idle" /\ step # "idle" =>
                Cardinality(Busy(writer')) = Cardinality(Busy(writer))
<1>1. IsFiniteSet(Busy(writer)) /\ Cardinality(Busy(writer)) \in Nat
      BY CallersAssumption, FS_Subset, FS_CardinalityType DEF Busy
<1>2. ASSUME writer[w] = "idle", step # "idle"
      PROVE  Cardinality(Busy(writer')) = Cardinality(Busy(writer)) + 1
  <2>1. Busy(writer') = Busy(writer) \cup {w} /\ w \notin Busy(writer)
        BY <1>2 DEF Busy, TypeOK
  <2> QED
      BY <1>1, <2>1, FS_AddElement
<1>3. ASSUME writer[w] # "idle", step = "idle"
      PROVE  Cardinality(Busy(writer')) = Cardinality(Busy(writer)) - 1
  <2>1. Busy(writer') = Busy(writer) \ {w} /\ w \in Busy(writer)
        BY <1>3 DEF Busy, TypeOK
  <2> QED
      BY <1>1, <2>1, FS_RemoveElement
<1>4. ASSUME writer[w] # "idle", step # "idle" PROVE Busy(writer') = Busy(writer)
      BY <1>4 DEF Busy, TypeOK
<1> QED
    BY <1>1, <1>2, <1>3, <1>4

\* markDone takes what it is told off the count, if that many are pending.
LEMMA MarkDoneExact ==
  ASSUME NEW n \in Nat, pending \in Nat, n <= pending, MarkDone(n)
  PROVE  pending' = pending - n
  BY DEF MarkDone

\* Every step keeps the count exact: a frame enters it with markQueued, moves
\* between the four places, and leaves it with markDone.
LEMMA CountStep ==
  TypeOK /\ Stages /\ PendingCountsFrames /\ [Next]_vars => PendingCountsFrames'
<1> SUFFICES ASSUME TypeOK, Stages, PendingCountsFrames, [Next]_vars
             PROVE  PendingCountsFrames'
    OBVIOUS
<1> DEFINE Count  == Cardinality(Busy(writer))
           InAir  == IF playing = 0 THEN 0 ELSE 1
<1>a. pending = Count + Len(queue) + InAir + drained
      BY DEF PendingCountsFrames, Busy
<1>b. Count \in Nat /\ Len(queue) \in Nat /\ InAir \in Nat /\ drained \in Nat
      /\ pending \in Nat
  <2>1. IsFiniteSet(Busy(writer))
        BY CallersAssumption, FS_Subset DEF Busy
  <2> QED
      BY <2>1, FS_CardinalityType DEF TypeOK
<1>c. SUFFICES pending' = Count' + Len(queue') + InAir' + drained'
      BY DEF PendingCountsFrames, Busy
<1> HIDE DEF Count
<1>1. ASSUME NEW w \in Writers, Announce(w)
      PROVE  pending' = Count' + Len(queue') + InAir' + drained'
  <2>1. Count' = Count + 1
        BY <1>1, BusyCount DEF Announce, Count
  <2>2. pending' = pending + 1 /\ UNCHANGED <<queue, playing, drained>>
        BY <1>1 DEF Announce, MarkQueued, runnerVars
  <2> QED
      BY <1>a, <1>b, <2>1, <2>2
<1>2. ASSUME NEW w \in Writers, Enqueue(w)
      PROVE  pending' = Count' + Len(queue') + InAir' + drained'
  <2>1. UNCHANGED <<pending, playing, drained>>
        BY <1>2 DEF Enqueue, countVars, runnerVars
  <2>2. CASE writer' = [writer EXCEPT ![w] = "idle"] /\ queue' = Append(queue, inHand[w])
    <3>1. Count' = Count - 1
          BY <1>2, <2>2, BusyCount DEF Enqueue, Count
    <3>2. inHand[w] \in Frames
          BY <1>2 DEF Enqueue, Stages
    <3>3. Len(queue') = Len(queue) + 1
          BY <2>2, <3>2, AppendFrame DEF TypeOK
    <3> QED
        BY <1>a, <1>b, <2>1, <3>1, <3>3
  <2>3. CASE writer' = [writer EXCEPT ![w] = "refused"] /\ UNCHANGED queue
    <3>1. Count' = Count
          BY <1>2, <2>3, BusyCount DEF Enqueue, Count
    <3> QED
        BY <1>a, <1>b, <2>1, <2>3, <3>1
  <2> QED
      BY <1>2, <2>2, <2>3 DEF Enqueue
<1>3. ASSUME NEW w \in Writers, Refused(w)
      PROVE  pending' = Count' + Len(queue') + InAir' + drained'
  <2>1. Count' = Count - 1 /\ Count' \in Nat
    <3>1. Count' = Count - 1
          BY <1>3, BusyCount DEF Refused, Count
    <3>2. w \in Busy(writer)
          BY <1>3 DEF Refused, Busy
    <3>3. Count # 0
          BY <3>2, FS_EmptySet, FS_Subset, CallersAssumption DEF Busy, Count
    <3> QED
        BY <1>b, <3>1, <3>3
  <2>2. pending' = pending - 1
        BY <1>3, <1>a, <1>b, <2>1, MarkDoneExact DEF Refused
  <2>3. UNCHANGED <<queue, playing, drained>>
        BY <1>3 DEF Refused, runnerVars
  <2> QED
      BY <1>a, <1>b, <2>1, <2>2, <2>3
<1>4. CASE TakeFrame
  <2>1. UNCHANGED <<pending, writer, drained>>
        BY <1>4 DEF TakeFrame, countVars, writerVars
  <2>2. playing = 0 /\ playing' # 0 /\ Len(queue') = Len(queue) - 1
        BY <1>4, TailFrame DEF TakeFrame, Stages, TypeOK, Frames
  <2> QED
      BY <1>a, <1>b, <2>1, <2>2 DEF Count
<1>5. CASE Paced
  <2>1. UNCHANGED <<queue, writer, drained>> /\ playing # 0 /\ playing' = 0
        BY <1>5 DEF Paced, writerVars, Stages
  <2>2. pending' = pending - 1
        BY <1>5, <1>a, <1>b, <2>1, MarkDoneExact DEF Paced
  <2> QED
      BY <1>a, <1>b, <2>1, <2>2 DEF Count
<1>6. ASSUME NEW f \in Flushers, AcceptFlush(f)
      PROVE  pending' = Count' + Len(queue') + InAir' + drained'
  <2>1. UNCHANGED <<queue, writer>> /\ drained = 0 /\ drained' = 0 /\ playing' = 0
        BY <1>6 DEF AcceptFlush, writerVars, Stages
  <2>2. CASE runner = "pacing"
    <3>1. playing # 0
          BY <2>2 DEF Stages
    <3>2. pending' = pending - 1
          BY <1>6, <2>2, <1>a, <1>b, <3>1, MarkDoneExact DEF AcceptFlush
    <3> QED
        BY <1>a, <1>b, <2>1, <3>1, <3>2 DEF Count
  <2>3. CASE runner # "pacing"
    <3>1. playing = 0 /\ UNCHANGED pending
          BY <1>6, <2>3 DEF AcceptFlush, Stages, countVars
    <3> QED
        BY <1>a, <1>b, <2>1, <3>1 DEF Count
  <2> QED
      BY <2>2, <2>3
<1>7. CASE DrainFrame
  <2>1. UNCHANGED <<pending, writer, playing>> /\ drained' = drained + 1
        BY <1>7 DEF DrainFrame, countVars, writerVars
  <2>2. Len(queue') = Len(queue) - 1
        BY <1>7, TailFrame DEF DrainFrame, TypeOK
  <2> QED
      BY <1>a, <1>b, <2>1, <2>2 DEF Count
<1>8. CASE AckFlush
  <2>1. UNCHANGED <<queue, writer, playing>> /\ drained' = 0
        BY <1>8 DEF AckFlush, writerVars
  <2>2. pending' = pending - drained
        BY <1>8, <1>a, <1>b, MarkDoneExact DEF AckFlush
  <2> QED
      BY <1>a, <1>b, <2>1, <2>2 DEF Count
<1>9. ASSUME UNCHANGED <<pending, writer, queue, playing, drained>>
      PROVE  pending' = Count' + Len(queue') + InAir' + drained'
      BY <1>9, <1>a DEF Count
<1>10. CASE \/ Drained \/ Stop \/ Close \/ UNCHANGED vars
            \/ \E w \in Waiters : WaitIdle(w) \/ Release(w)
            \/ \E f \in Flushers : Flush(f) \/ FlushStopped(f)
       BY <1>9, <1>10
       DEF Drained, Stop, Close, vars, WaitIdle, Release, Flush, FlushStopped,
           countVars, writerVars, runnerVars
<1> QED
    BY <1>1, <1>2, <1>3, <1>4, <1>5, <1>6, <1>7, <1>8, <1>10 DEF Next, Write, Run

\* What IdleChannel says of the channels alone.
Channels == /\ idleCh \in closed <=> pending = 0
            /\ \A g \in Nat : g < idleCh => g \in closed
            /\ \A g \in closed : g <= idleCh

\* markQueued opens a new channel exactly when the old one is closed.
LEMMA MarkQueuedChannels ==
  ASSUME TypeOK, Channels, MarkQueued
  PROVE  Channels' /\ idleCh <= idleCh'
<1>1. CASE pending = 0
      BY <1>1 DEF Channels, MarkQueued, TypeOK
<1>2. CASE pending # 0
      BY <1>2 DEF Channels, MarkQueued, TypeOK
<1> QED
    BY <1>1, <1>2

\* markDone closes the channel exactly when the count falls to zero.
LEMMA MarkDoneChannels ==
  ASSUME TypeOK, Channels, NEW n \in Nat, MarkDone(n)
  PROVE  Channels' /\ idleCh <= idleCh'
<1>1. CASE n = 0 \/ pending = 0
  <2>1. UNCHANGED <<pending, closed, idleCh>>
        BY <1>1 DEF MarkDone
  <2> QED
      BY <2>1 DEF Channels, TypeOK
<1>2. CASE n # 0 /\ pending # 0 /\ n >= pending
  <2>1. pending' = 0 /\ closed' = closed \cup {idleCh} /\ idleCh' = idleCh
        BY <1>2 DEF MarkDone, TypeOK
  <2> QED
      BY <2>1 DEF Channels, TypeOK
<1>3. CASE n # 0 /\ pending # 0 /\ n < pending
  <2>1. pending' # 0 /\ closed' = closed /\ idleCh' = idleCh
        BY <1>3 DEF MarkDone, TypeOK
  <2> QED
      BY <1>3, <2>1 DEF Channels, TypeOK
<1> QED
    BY <1>1, <1>2, <1>3 DEF TypeOK

\* Every step keeps the idle channels in order.
LEMMA IdleStep ==
  TypeOK /\ Stages /\ IdleChannel /\ [Next]_vars => IdleChannel'
<1> SUFFICES ASSUME TypeOK, Stages, IdleChannel, [Next]_vars PROVE IdleChannel'
    OBVIOUS
<1>1. Channels
      BY DEF IdleChannel, Channels
<1>2. Channels' /\ idleCh <= idleCh'
  <2>1. ASSUME UNCHANGED countVars PROVE Channels' /\ idleCh <= idleCh'
        BY <1>1, <2>1 DEF Channels, countVars, TypeOK
  <2>2. ASSUME NEW w \in Writers, Write(w) PROVE Channels' /\ idleCh <= idleCh'
        BY <1>1, <2>1, <2>2, MarkQueuedChannels, MarkDoneChannels
        DEF Write, Announce, Enqueue, Refused
  <2>3. CASE Paced \/ AckFlush
    <3>1. drained \in Nat
          BY DEF TypeOK
    <3>2. MarkDone(1) \/ MarkDone(drained)
          BY <2>3 DEF Paced, AckFlush
    <3> QED
        BY <1>1, <3>1, <3>2, MarkDoneChannels
  <2>4. ASSUME NEW f \in Flushers, AcceptFlush(f) PROVE Channels' /\ idleCh <= idleCh'
    <3>1. MarkDone(1) \/ UNCHANGED countVars
          BY <2>4 DEF AcceptFlush
    <3> QED
        BY <1>1, <2>1, <3>1, MarkDoneChannels
  <2>5. CASE \/ TakeFrame \/ DrainFrame \/ Drained \/ Stop \/ Close \/ UNCHANGED vars
             \/ \E w \in Waiters : WaitIdle(w) \/ Release(w)
             \/ \E f \in Flushers : Flush(f) \/ FlushStopped(f)
        BY <2>1, <2>5
        DEF TakeFrame, DrainFrame, Drained, Stop, Close, vars, WaitIdle, Release,
            Flush, FlushStopped
  <2> QED
      BY <2>2, <2>3, <2>4, <2>5 DEF Next, Run
<1>3. ASSUME NEW w \in Waiters PROVE waitsOn'[w] \in {waitsOn[w], idleCh, 0}
  <2>1. UNCHANGED waitsOn => waitsOn'[w] \in {waitsOn[w], idleCh, 0}
        OBVIOUS
  <2>2. ASSUME NEW v \in Waiters, WaitIdle(v) PROVE waitsOn'[w] \in {waitsOn[w], idleCh}
        BY <2>2 DEF WaitIdle, TypeOK
  <2>3. ASSUME NEW v \in Waiters, Release(v) PROVE waitsOn'[w] \in {waitsOn[w], 0}
        BY <2>3 DEF Release, TypeOK
  <2>4. CASE Run \/ Close \/ UNCHANGED vars
        BY <2>1, <2>4
        DEF Run, TakeFrame, Paced, DrainFrame, Drained, AckFlush, Stop, AcceptFlush,
            Close, vars, callerVars
  <2>5. ASSUME NEW v \in Writers, Write(v) PROVE UNCHANGED waitsOn
        BY <2>5 DEF Write, Announce, Enqueue, Refused, callerVars
  <2>6. ASSUME NEW f \in Flushers, Flush(f) \/ FlushStopped(f) PROVE UNCHANGED waitsOn
        BY <2>6 DEF Flush, FlushStopped
  <2> QED
      BY <2>1, <2>2, <2>3, <2>4, <2>5, <2>6 DEF Next
<1>4. ASSUME NEW w \in Waiters PROVE waitsOn'[w] <= idleCh'
  <2>1. idleCh \in Nat /\ waitsOn[w] \in Nat /\ waitsOn[w] <= idleCh
        BY DEF TypeOK, IdleChannel
  <2>2. idleCh' \in Nat
        BY TypeStep DEF TypeOK
  <2> QED
      BY <1>2, <1>3, <2>1, <2>2
<1> QED
    BY <1>2, <1>4 DEF IdleChannel, Channels

\* In every reachable state the inductive invariant holds.
THEOREM DownlinkInvariant == Spec => []IInv
<1>1. IInv /\ [Next]_vars => IInv'
      BY TypeStep, StagesStep, CountStep, IdleStep DEF IInv
<1> QED
    BY InitInv, <1>1, PTL DEF Spec

\* In every reachable state the fields of the writer have their types.
THEOREM DownlinkTypeOK == Spec => []TypeOK
<1>1. IInv => TypeOK
      BY DEF IInv
<1> QED
    BY DownlinkInvariant, <1>1, PTL

\* However many replies write, flush and close at once, pending is exactly the
\* number of frames announced and not yet done: markDone never loses a frame,
\* never counts one twice, and its clamp at zero is never needed.
THEOREM DownlinkPending == Spec => []PendingCountsFrames
<1>1. IInv => PendingCountsFrames
      BY DEF IInv
<1> QED
    BY DownlinkInvariant, <1>1, PTL

\* Whatever the order of markQueued, markDone and WaitIdle, a waiter whose
\* channel is not closed waits on the current one, and some frame is pending
\* that will close it.
THEOREM DownlinkNoWaiterStranded == Spec => []NoWaiterStranded
<1>1. ASSUME IInv PROVE NoWaiterStranded
  <2> SUFFICES ASSUME NEW w \in Waiters, waitsOn[w] \notin closed
               PROVE  waitsOn[w] = idleCh /\ pending > 0
      BY DEF NoWaiterStranded
  <2>1. waitsOn[w] \in Nat /\ idleCh \in Nat /\ pending \in Nat
        BY <1>1 DEF IInv, TypeOK
  <2>2. waitsOn[w] = idleCh
        BY <1>1, <2>1 DEF IInv, IdleChannel
  <2> QED
      BY <1>1, <2>1, <2>2 DEF IInv, IdleChannel
<1> QED
    BY DownlinkInvariant, <1>1, PTL
------------------------------------------------------------------------------
(* Flush. *)

\* A frame is in one writer's hands or sounding, never both, and what a writer
\* holds is newer than every flush under way.
Handover ==
    /\ Sounding \subseteq 1 .. announced
    /\ \A f \in Flushers : before[f] \subseteq 1 .. announced
    /\ \A w \in Writers : writer[w] = "announced" =>
          /\ inHand[w] \in 1 .. announced
          /\ inHand[w] \notin Sounding
          /\ \A f \in Flushers : inHand[w] \notin before[f]
          /\ \A v \in Writers : writer[v] = "announced" /\ v # w => inHand[v] # inHand[w]

\* Where the flush that run serves is, and what it has silenced.
Served ==
    /\ \A f \in Flushers : flusher[f] = "waiting" <=> serving = f
    /\ \A f \in Flushers : flusher[f] = "waiting" => runner \in {"flushing", "flushed"}
    /\ \A f \in Flushers :
          flusher[f] = "waiting" /\ runner = "flushed" => before[f] \cap Sounding = {}
    /\ \A f \in Flushers :
          flusher[f] = "done" /\ runner # "stopped" => before[f] \cap Sounding = {}

\* The only step that makes a frame sound is enqueue, and it is the writer's own.
LEMMA SoundingStep ==
  ASSUME TypeOK, Stages, [Next]_vars
  PROVE  \/ Sounding' \subseteq Sounding
         \/ \E w \in Writers : /\ Enqueue(w) /\ writer'[w] # "announced"
                               /\ Sounding' \subseteq Sounding \cup {inHand[w]}
<1>1. ASSUME UNCHANGED queue, playing' \in {playing, 0}
      PROVE  Sounding' \subseteq Sounding
      BY <1>1 DEF Sounding
<1>2. ASSUME NEW w \in Writers, Enqueue(w)
      PROVE  /\ writer'[w] # "announced"
             /\ Sounding' \subseteq Sounding \cup {inHand[w]}
  <2>1. writer'[w] # "announced" /\ UNCHANGED playing
        BY <1>2 DEF Enqueue, TypeOK, runnerVars
  <2>2. inHand[w] \in Frames
        BY <1>2 DEF Enqueue, Stages
  <2>3. queue' = queue \/ queue' = Append(queue, inHand[w])
        BY <1>2 DEF Enqueue
  <2>4. {queue'[i] : i \in DOMAIN queue'} \subseteq
          {queue[i] : i \in DOMAIN queue} \cup {inHand[w]}
    <3>1. CASE queue' = queue
          BY <3>1
    <3>2. CASE queue' = Append(queue, inHand[w])
      <4>1. queue \in Seq(Frames) /\ DOMAIN queue = 1 .. Len(queue) /\ Len(queue) \in Nat
            BY DEF TypeOK
      <4>2. DOMAIN queue' = 1 .. Len(queue) + 1
            BY <2>2, <3>2, <4>1
      <4>3. ASSUME NEW i \in DOMAIN queue'
            PROVE  queue'[i] = IF i = Len(queue) + 1 THEN inHand[w] ELSE queue[i]
            BY <2>2, <3>2, <4>1, <4>2
      <4>4. ASSUME NEW i \in DOMAIN queue'
            PROVE  i = Len(queue) + 1 \/ i \in DOMAIN queue
            BY <4>1, <4>2
      <4> QED
          BY <4>3, <4>4
    <3> QED
        BY <2>3, <3>1, <3>2
  <2> QED
      BY <2>1, <2>4 DEF Sounding
<1>3. ASSUME queue # <<>>, queue' = Tail(queue), playing' \in {playing, Head(queue)}
      PROVE  Sounding' \subseteq Sounding
  <2>1. {queue'[i] : i \in DOMAIN queue'} \subseteq {queue[i] : i \in DOMAIN queue}
        BY <1>3 DEF TypeOK
  <2>2. Head(queue) \in {queue[i] : i \in DOMAIN queue}
        BY <1>3 DEF TypeOK
  <2> QED
      BY <1>3, <2>1, <2>2 DEF Sounding
<1>4. CASE TakeFrame \/ DrainFrame
      BY <1>3, <1>4 DEF TakeFrame, DrainFrame
<1>5. CASE \/ Paced \/ Drained \/ AckFlush \/ Stop \/ Close \/ UNCHANGED vars
           \/ \E w \in Writers : Announce(w) \/ Refused(w)
           \/ \E w \in Waiters : WaitIdle(w) \/ Release(w)
           \/ \E f \in Flushers : Flush(f) \/ FlushStopped(f) \/ AcceptFlush(f)
      BY <1>1, <1>5
      DEF Paced, Drained, AckFlush, Stop, Close, vars, Announce, Refused, WaitIdle,
          Release, Flush, FlushStopped, AcceptFlush, runnerVars
<1> QED
    BY <1>2, <1>4, <1>5 DEF Next, Write, Run

\* Every step keeps the frames in hand apart from those that sound.
LEMMA HandoverStep ==
  TypeOK /\ Stages /\ Handover /\ [Next]_vars => Handover'
<1> SUFFICES ASSUME TypeOK, Stages, Handover, [Next]_vars PROVE Handover'
    OBVIOUS
<1>1. ASSUME NEW w \in Writers, Announce(w) PROVE Handover'
  <2>1. /\ announced \in Nat /\ announced' = announced + 1
        /\ UNCHANGED <<queue, playing, before>>
        BY <1>1 DEF Announce, TypeOK, runnerVars, callerVars
  <2>2. Sounding' = Sounding
        BY <2>1 DEF Sounding
  <2>3. ASSUME NEW v \in Writers, writer'[v] = "announced"
        PROVE  \/ v = w /\ inHand'[v] = announced + 1
               \/ v # w /\ writer[v] = "announced" /\ inHand'[v] = inHand[v]
        BY <1>1, <2>3 DEF Announce, TypeOK
  <2> QED
      BY <2>1, <2>2, <2>3 DEF Handover
<1>2. ASSUME NEW f \in Flushers, Flush(f) PROVE Handover'
  <2>1. UNCHANGED <<queue, playing, announced, writer, inHand>>
        BY <1>2 DEF Flush, writerVars, runnerVars
  <2>2. Sounding' = Sounding
        BY <2>1 DEF Sounding
  <2>3. ASSUME NEW g \in Flushers PROVE before'[g] \in {before[g], Sounding}
        BY <1>2 DEF Flush, TypeOK
  <2> QED
      BY <2>1, <2>2, <2>3 DEF Handover
<1>3. ASSUME UNCHANGED <<announced, before>>,
             \A v \in Writers : writer'[v] = "announced" =>
                 writer[v] = "announced" /\ inHand'[v] = inHand[v]
      PROVE  Handover'
  <2>1. CASE Sounding' \subseteq Sounding
        BY <1>3, <2>1 DEF Handover
  <2>2. ASSUME NEW w \in Writers, Enqueue(w), writer'[w] # "announced",
               Sounding' \subseteq Sounding \cup {inHand[w]}
        PROVE  Handover'
    <3>1. writer[w] = "announced"
          BY <2>2 DEF Enqueue
    <3> QED
        BY <1>3, <2>2, <3>1 DEF Handover
  <2> QED
      BY <2>1, <2>2, SoundingStep
<1>4. ASSUME NEW w \in Writers, Enqueue(w) \/ Refused(w) PROVE Handover'
  <2>1. UNCHANGED <<announced, before>>
        BY <1>4 DEF Enqueue, Refused, callerVars
  <2>2. \E step \in {"idle", "refused"} : writer' = [writer EXCEPT ![w] = step]
        BY <1>4 DEF Enqueue, Refused
  <2>3. inHand' = [inHand EXCEPT ![w] = 0] \/ UNCHANGED inHand
        BY <1>4 DEF Enqueue, Refused
  <2>4. \A v \in Writers : writer'[v] = "announced" =>
            writer[v] = "announced" /\ inHand'[v] = inHand[v]
        BY <2>2, <2>3 DEF TypeOK
  <2> QED
      BY <1>3, <2>1, <2>4
<1>5. ASSUME UNCHANGED <<announced, writer, inHand, before>> PROVE Handover'
      BY <1>3, <1>5
<1>6. CASE Run \/ Close \/ UNCHANGED vars
      BY <1>5, <1>6
      DEF Run, TakeFrame, Paced, DrainFrame, Drained, AckFlush, Stop, AcceptFlush,
          Close, vars, writerVars, callerVars
<1>7. ASSUME NEW w \in Waiters, WaitIdle(w) \/ Release(w) PROVE Handover'
      BY <1>5, <1>7 DEF WaitIdle, Release, writerVars
<1>8. ASSUME NEW f \in Flushers, FlushStopped(f) PROVE Handover'
      BY <1>5, <1>8 DEF FlushStopped, writerVars
<1> QED
    BY <1>1, <1>2, <1>4, <1>6, <1>7, <1>8 DEF Next, Write

\* Every step keeps silenced what a flush has silenced.
LEMMA ServedStep ==
  TypeOK /\ Stages /\ Handover /\ Served /\ [Next]_vars => Served'
<1> SUFFICES ASSUME TypeOK, Stages, Handover, Served, [Next]_vars PROVE Served'
    OBVIOUS
<1>1. ASSUME NEW f \in Flushers, UNCHANGED before, before[f] \cap Sounding = {}
      PROVE  before'[f] \cap Sounding' = {}
  <2>1. CASE Sounding' \subseteq Sounding
        BY <1>1, <2>1
  <2>2. ASSUME NEW w \in Writers, Enqueue(w), Sounding' \subseteq Sounding \cup {inHand[w]}
        PROVE  before'[f] \cap Sounding' = {}
    <3>1. inHand[w] \notin before[f]
          BY <2>2 DEF Enqueue, Handover
    <3> QED
        BY <1>1, <2>2, <3>1
  <2> QED
      BY <2>1, <2>2, SoundingStep
<1>2. ASSUME UNCHANGED <<runner, serving, flusher, before>> PROVE Served'
      BY <1>1, <1>2 DEF Served
<1>3. ASSUME NEW w \in Writers, Write(w) PROVE Served'
      BY <1>2, <1>3 DEF Write, Announce, Enqueue, Refused, runnerVars, callerVars
<1>4. ASSUME NEW w \in Waiters, WaitIdle(w) \/ Release(w) PROVE Served'
      BY <1>2, <1>4 DEF WaitIdle, Release, runnerVars
<1>5. CASE DrainFrame \/ Close \/ UNCHANGED vars
      BY <1>2, <1>5 DEF DrainFrame, Close, vars, runnerVars, callerVars
<1>6. CASE TakeFrame \/ Paced \/ Stop
  <2>1. UNCHANGED <<serving, flusher, before>> /\ runner \in {"select", "pacing"}
        BY <1>6 DEF TakeFrame, Paced, Stop, callerVars
  <2>2. runner' \in {"select", "pacing", "stopped"}
        BY <1>6 DEF TakeFrame, Paced, Stop
  <2> QED
      BY <1>1, <2>1, <2>2 DEF Served
<1>7. CASE Drained
  <2>1. UNCHANGED <<serving, flusher, before, queue, playing>>
        BY <1>7 DEF Drained, callerVars
  <2>2. queue = <<>> /\ playing = 0 /\ runner = "flushing" /\ runner' = "flushed"
        BY <1>7 DEF Drained, Stages
  <2>3. Sounding' = {}
        BY <2>1, <2>2 DEF Sounding
  <2> QED
      BY <2>1, <2>2, <2>3 DEF Served
<1>8. CASE AckFlush
  <2>1. UNCHANGED before /\ runner = "flushed" /\ runner' = "select"
        BY <1>8 DEF AckFlush
  <2>2. ASSUME NEW f \in Flushers PROVE flusher'[f] = IF f = serving THEN "done" ELSE flusher[f]
        BY <1>8 DEF AckFlush, TypeOK
  <2>3. ASSUME NEW f \in Flushers PROVE flusher'[f] # "waiting" /\ serving' # f
        BY <1>8, <2>2, CallersAssumption DEF Served, AckFlush
  <2>4. ASSUME NEW f \in Flushers, flusher'[f] = "done"
        PROVE  before'[f] \cap Sounding' = {}
    <3>1. before[f] \cap Sounding = {}
      <4>1. CASE f = serving
            BY <2>1, <4>1 DEF Served
      <4>2. CASE f # serving
            BY <2>1, <2>2, <2>4, <4>2 DEF Served
      <4> QED
          BY <4>1, <4>2
    <3> QED
        BY <1>1, <2>1, <3>1
  <2> QED
      BY <2>1, <2>3, <2>4 DEF Served
<1>9. ASSUME NEW f \in Flushers, AcceptFlush(f) PROVE Served'
  <2>1. /\ UNCHANGED before /\ runner \in {"select", "pacing"}
        /\ runner' = "flushing" /\ serving' = f
        BY <1>9 DEF AcceptFlush
  <2>2. ASSUME NEW g \in Flushers
        PROVE  flusher'[g] = IF g = f THEN "waiting" ELSE flusher[g]
        BY <1>9 DEF AcceptFlush, TypeOK
  <2>3. ASSUME NEW g \in Flushers, flusher'[g] = "done"
        PROVE  before'[g] \cap Sounding' = {}
    <3>1. before[g] \cap Sounding = {}
          BY <2>1, <2>2, <2>3 DEF Served
    <3> QED
        BY <1>1, <2>1, <3>1
  <2>4. ASSUME NEW g \in Flushers PROVE flusher'[g] = "waiting" <=> g = f
        BY <2>1, <2>2 DEF Served
  <2> QED
      BY <2>1, <2>3, <2>4 DEF Served
<1>10. ASSUME NEW f \in Flushers, Flush(f) PROVE Served'
  <2>1. UNCHANGED <<runner, serving, queue, playing>> /\ flusher[f] = "idle"
        BY <1>10 DEF Flush, runnerVars
  <2>2. Sounding' = Sounding
        BY <2>1 DEF Sounding
  <2>3. ASSUME NEW g \in Flushers
        PROVE  /\ flusher'[g] = IF g = f THEN "sending" ELSE flusher[g]
               /\ g # f => before'[g] = before[g]
        BY <1>10 DEF Flush, TypeOK
  <2> QED
      BY <2>1, <2>2, <2>3 DEF Served
<1>11. ASSUME NEW f \in Flushers, FlushStopped(f) PROVE Served'
  <2>1. UNCHANGED <<runner, serving>> /\ runner = "stopped"
        BY <1>11 DEF FlushStopped, runnerVars
  <2>2. ASSUME NEW g \in Flushers PROVE flusher'[g] \in {"done", flusher[g]}
        BY <1>11 DEF FlushStopped, TypeOK
  <2>3. ASSUME NEW g \in Flushers PROVE flusher[g] # "waiting"
        BY <2>1 DEF Served
  <2> QED
      BY <2>1, <2>2, <2>3 DEF Served
<1> QED
    BY <1>3, <1>4, <1>5, <1>6, <1>7, <1>8, <1>9, <1>10, <1>11 DEF Next, Run

\* The two parts of what is known of flushes hold in every reachable state.
THEOREM DownlinkServed == Spec => [](Handover /\ Served)
<1> DEFINE FInv == Handover /\ Served
<1>1. Init => FInv
  <2> SUFFICES ASSUME Init PROVE FInv
      OBVIOUS
  <2>1. Sounding = {}
        BY DEF Init, Sounding
  <2> QED
      BY <2>1, CallersAssumption DEF Init, Handover, Served
<1>2. IInv /\ FInv /\ [Next]_vars => FInv'
      BY HandoverStep, ServedStep DEF IInv
<1> QED
    BY DownlinkInvariant, <1>1, <1>2, PTL DEF Spec

\* Nothing sounds after Flush of what was queued when it was called, for every
\* number of overlapping flushes and writers: what is still in a writer's hands
\* was not queued yet, and a flush is acknowledged only on an empty queue.
THEOREM DownlinkFlushSilences == Spec => []FlushSilences
<1>1. Handover /\ Served => FlushSilences
      BY DEF Served, FlushSilences
<1> QED
    BY DownlinkServed, <1>1, PTL
------------------------------------------------------------------------------
(* What a blocked call waits for. *)

\* A call that blocks waits for a step that somebody has still to take: a writer before a
\* full queue, or a flush not accepted, for a runner that has not stopped unless Close came;
\* an accepted flush for the runner that drains the queue for it; WaitIdle, on a channel
\* still open, for a frame that a writer, the queue or the runner holds.
NobodyWaitsInVain ==
    /\ runner = "stopped" => close # "open"
    /\ \A f \in Flushers :
          flusher[f] = "waiting" => serving = f /\ runner \in {"flushing", "flushed"}
    /\ \A w \in Waiters :
          waiter[w] = "waiting" /\ waitsOn[w] \notin closed
              => \/ queue # <<>> \/ \E v \in Writers : writer[v] # "idle"
                 \/ runner \in {"pacing", "flushing", "flushed", "stopped"}

\* The runner stops for closeCh only, and Close is not taken back.
LEMMA StoppedStep ==
  (runner = "stopped" => close # "open") /\ [Next]_vars
      => (runner = "stopped" => close # "open")'
<1> SUFFICES ASSUME runner = "stopped" => close # "open", [Next]_vars
             PROVE  (runner = "stopped" => close # "open")'
    OBVIOUS
<1> USE DEF runnerVars
<1>1. ASSUME NEW w \in Writers, Write(w) PROVE UNCHANGED <<runner, close>>
      BY <1>1 DEF Write, Announce, Enqueue, Refused
<1>2. ASSUME NEW w \in Waiters, WaitIdle(w) \/ Release(w) PROVE UNCHANGED <<runner, close>>
      BY <1>2 DEF WaitIdle, Release
<1>3. ASSUME NEW f \in Flushers, Flush(f) \/ FlushStopped(f) PROVE UNCHANGED <<runner, close>>
      BY <1>3 DEF Flush, FlushStopped
<1>4. CASE Run
      BY <1>4 DEF Run, TakeFrame, Paced, DrainFrame, Drained, AckFlush, Stop, AcceptFlush
<1>5. CASE Close \/ UNCHANGED vars
      BY <1>5 DEF Close, vars
<1> QED
    BY <1>1, <1>2, <1>3, <1>4, <1>5 DEF Next

\* No writer that waits for room, no WaitIdle and no Flush is forgotten, for every number
\* of them: what each waits for is before the runner or a writer.
THEOREM DownlinkNobodyWaitsInVain == Spec => []NobodyWaitsInVain
<1> DEFINE Stopping == runner = "stopped" => close # "open"
<1>1. Init => Stopping
      BY DEF Init
<1>2. Stopping /\ [Next]_vars => Stopping'
      BY StoppedStep
<1>3. ASSUME IInv, Served, Stopping PROVE NobodyWaitsInVain
  <2>1. ASSUME NEW w \in Waiters, waitsOn[w] \notin closed, queue = <<>>,
               \A v \in Writers : writer[v] = "idle"
        PROVE  runner \in {"pacing", "flushing", "flushed", "stopped"}
    <3>1. pending \in Nat /\ pending # 0
      <4>1. waitsOn[w] \in Nat /\ idleCh \in Nat /\ pending \in Nat
            BY <1>3 DEF IInv, TypeOK
      <4>2. waitsOn[w] = idleCh
            BY <1>3, <2>1, <4>1 DEF IInv, IdleChannel
      <4> QED
          BY <1>3, <2>1, <4>1, <4>2 DEF IInv, IdleChannel
    <3>2. Cardinality({v \in Writers : writer[v] # "idle"}) = 0
      <4>1. {v \in Writers : writer[v] # "idle"} = {}
            BY <2>1
      <4> QED
          BY <4>1, FS_EmptySet
    <3>3. Len(queue) = 0 /\ drained \in Nat
          BY <1>3, <2>1 DEF IInv, TypeOK
    <3>4. playing # 0 \/ drained # 0
          BY <1>3, <3>1, <3>2, <3>3 DEF IInv, PendingCountsFrames
    <3> QED
        BY <1>3, <3>4 DEF IInv, Stages
  <2>2. \A f \in Flushers :
            flusher[f] = "waiting" => serving = f /\ runner \in {"flushing", "flushed"}
        BY <1>3 DEF Served
  <2> QED
      BY <1>3, <2>1, <2>2 DEF NobodyWaitsInVain
<1> HIDE DEF Stopping
<1> QED
    BY DownlinkInvariant, DownlinkServed, <1>1, <1>2, <1>3, PTL DEF Spec
==============================================================================

---------------------------- MODULE DownlinkAudio ----------------------------
(***************************************************************************)
(* downlinkAudioWriter: the queue of audio frames between the replies that *)
(* write them (WritePCM16K) and the goroutine that paces them onto the     *)
(* track (run, writeAndPace), with the calls that look across it:          *)
(* WaitIdle, Flush and Close.                                              *)
(*                                                                         *)
(* pending counts frames that were announced and not played or drained;    *)
(* idleCh is a channel that is closed when pending falls to zero, and      *)
(* replaced when it rises again.  A channel is the number of its           *)
(* generation here.  A frame is the number of its markQueued.              *)
(*                                                                         *)
(* A step is one mutex section, or one channel operation.                  *)
(***************************************************************************)
EXTENDS Integers, Sequences, FiniteSets

CONSTANTS Writers,      \* goroutines that call WritePCM16K
          Waiters,      \* calls of WaitIdle
          Flushers,     \* calls of Flush
          NoFlush,
          Capacity,     \* downlinkQueueCapacity
          MaxFrames     \* bound on the frames written

ASSUME CallersAssumption == /\ IsFiniteSet(Writers)
                            /\ NoFlush \notin Flushers
ASSUME SizesAssumption == Capacity \in Nat \ {0} /\ MaxFrames \in Nat

VARIABLES queue,        \* the channel of frames
          announced,    \* frames announced with markQueued so far
          writer,       \* writer[w]: where w is in WritePCM16K
          inHand,       \* inHand[w]: the frame w is about to queue
          runner,       \* where run is
          playing,      \* the frame that writeAndPace holds, 0 if none
          serving,      \* the flush that run has accepted
          drained,      \* frames that flushQueue took so far
          pending,
          idleCh,       \* the current idle channel
          closed,       \* the idle channels that are closed
          waiter,       \* waiter[w]: where w is in WaitIdle
          waitsOn,      \* waitsOn[w]: the channel that w took
          flusher,      \* flusher[f]: where f is in Flush
          before,       \* before[f]: the frames queued when f was called
          close         \* where Close is; closeCh is closed unless "open"

countVars  == <<pending, idleCh, closed>>
writerVars == <<announced, writer, inHand>>
runnerVars == <<runner, playing, serving, drained>>
callerVars == <<waiter, waitsOn, flusher, before>>
vars == <<queue, countVars, writerVars, runnerVars, callerVars, close>>

Frames == 1 .. MaxFrames

TypeOK ==
    /\ queue \in Seq(Frames) /\ Len(queue) <= Capacity
    /\ announced \in 0 .. MaxFrames
    /\ writer \in [Writers -> {"idle", "announced", "refused"}]
    /\ inHand \in [Writers -> 0 .. MaxFrames]
    /\ runner \in {"select", "pacing", "flushing", "flushed", "stopped"}
    /\ playing \in 0 .. MaxFrames
    /\ serving \in Flushers \cup {NoFlush}
    /\ drained \in Nat /\ pending \in Nat /\ idleCh \in Nat
    /\ closed \subseteq Nat
    /\ waiter \in [Waiters -> {"idle", "waiting", "done"}]
    /\ waitsOn \in [Waiters -> Nat]
    /\ flusher \in [Flushers -> {"idle", "sending", "waiting", "done"}]
    /\ before \in [Flushers -> SUBSET Frames]
    /\ close \in {"open", "closing", "done"}

\* newDownlinkAudioWriter: the first idle channel is closed (closedSignal).
Init ==
    /\ queue = <<>>
    /\ announced = 0
    /\ writer = [w \in Writers |-> "idle"]
    /\ inHand = [w \in Writers |-> 0]
    /\ runner = "select" /\ playing = 0 /\ serving = NoFlush /\ drained = 0
    /\ pending = 0 /\ idleCh = 0 /\ closed = {0}
    /\ waiter = [w \in Waiters |-> "idle"]
    /\ waitsOn = [w \in Waiters |-> 0]
    /\ flusher = [f \in Flushers |-> "idle"]
    /\ before = [f \in Flushers |-> {}]
    /\ close = "open"
------------------------------------------------------------------------------
(* The pending count. *)

\* Mutant: makes a new idle channel for every frame.
MarkQueuedAnew ==
    /\ idleCh' = idleCh + 1
    /\ pending' = pending + 1
    /\ UNCHANGED closed

MarkQueued ==
    /\ idleCh' = IF pending = 0 THEN idleCh + 1 ELSE idleCh
    /\ pending' = pending + 1
    /\ UNCHANGED closed

MarkDone(count) ==
    /\ IF count = 0 \/ pending = 0
       THEN UNCHANGED <<pending, closed>>
       ELSE /\ pending' = IF count > pending THEN 0 ELSE pending - count
            /\ closed' = IF count >= pending THEN closed \cup {idleCh} ELSE closed
    /\ UNCHANGED idleCh
------------------------------------------------------------------------------
(* WritePCM16K: every frame of a chunk is announced, then queued. *)

Announce(w) ==
    /\ writer[w] = "idle" /\ announced < MaxFrames
    /\ announced' = announced + 1
    /\ writer' = [writer EXCEPT ![w] = "announced"]
    /\ inHand' = [inHand EXCEPT ![w] = announced + 1]
    /\ MarkQueued
    /\ UNCHANGED <<queue, runnerVars, callerVars, close>>

\* enqueue: Go chooses among the cases of a select that are ready.
Enqueue(w) ==
    /\ writer[w] = "announced"
    /\ \/ /\ Len(queue) < Capacity
          /\ queue' = Append(queue, inHand[w])
          /\ writer' = [writer EXCEPT ![w] = "idle"]
       \/ /\ close # "open"
          /\ writer' = [writer EXCEPT ![w] = "refused"]
          /\ UNCHANGED queue
    /\ inHand' = [inHand EXCEPT ![w] = 0]
    /\ UNCHANGED <<countVars, announced, runnerVars, callerVars, close>>

Refused(w) ==
    /\ writer[w] = "refused"
    /\ writer' = [writer EXCEPT ![w] = "idle"]
    /\ MarkDone(1)
    /\ UNCHANGED <<queue, announced, inHand, runnerVars, callerVars, close>>
------------------------------------------------------------------------------
(* run: its select, writeAndPace and flushQueue. *)

\* The frame goes out on the track.
TakeFrame ==
    /\ runner = "select" /\ queue # <<>>
    /\ runner' = "pacing"
    /\ playing' = Head(queue)
    /\ queue' = Tail(queue)
    /\ UNCHANGED <<countVars, writerVars, serving, drained, callerVars, close>>

\* The timer of writeAndPace; also, at once, a WriteSample that fails.
Paced ==
    /\ runner = "pacing"
    /\ runner' = "select"
    /\ playing' = 0
    /\ MarkDone(1)
    /\ UNCHANGED <<queue, writerVars, serving, drained, callerVars, close>>

\* Mutant: while it paces a frame, forgets to count it.
AcceptFlushUncounted(f) ==
    /\ runner \in {"select", "pacing"} /\ flusher[f] = "sending"
    /\ runner' = "flushing"
    /\ serving' = f
    /\ drained' = 0
    /\ flusher' = [flusher EXCEPT ![f] = "waiting"]
    /\ playing' = 0
    /\ UNCHANGED <<queue, countVars, writerVars, waiter, waitsOn, before, close>>

\* Between two frames, or in the middle of one, which then counts as done.
AcceptFlush(f) ==
    /\ runner \in {"select", "pacing"} /\ flusher[f] = "sending"
    /\ runner' = "flushing"
    /\ serving' = f
    /\ drained' = 0
    /\ flusher' = [flusher EXCEPT ![f] = "waiting"]
    /\ playing' = 0
    /\ IF runner = "pacing" THEN MarkDone(1) ELSE UNCHANGED countVars
    /\ UNCHANGED <<queue, writerVars, waiter, waitsOn, before, close>>

\* flushQueue takes one frame after the other, while writers go on.
DrainFrame ==
    /\ runner = "flushing" /\ queue # <<>>
    /\ queue' = Tail(queue)
    /\ drained' = drained + 1
    /\ UNCHANGED <<countVars, writerVars, runner, playing, serving, callerVars, close>>

\* Mutant: takes one frame and no more.
DrainedOne ==
    /\ runner = "flushing" /\ (queue = <<>> \/ drained = 1)
    /\ runner' = "flushed"
    /\ UNCHANGED <<queue, countVars, writerVars, playing, serving, drained, callerVars,
                   close>>

\* The default case of its select.
Drained ==
    /\ runner = "flushing" /\ queue = <<>>
    /\ runner' = "flushed"
    /\ UNCHANGED <<queue, countVars, writerVars, playing, serving, drained, callerVars,
                   close>>

\* markDone, then close(ack).
AckFlush ==
    /\ runner = "flushed"
    /\ runner' = "select"
    /\ MarkDone(drained)
    /\ drained' = 0
    /\ serving' = NoFlush
    /\ flusher' = [flusher EXCEPT ![serving] = "done"]
    /\ UNCHANGED <<queue, writerVars, playing, waiter, waitsOn, before, close>>

\* closeCh: what is queued or playing stays pending, and doneCh is closed.
Stop ==
    /\ runner \in {"select", "pacing"} /\ close # "open"
    /\ runner' = "stopped"
    /\ UNCHANGED <<queue, countVars, writerVars, playing, serving, drained, callerVars,
                   close>>
------------------------------------------------------------------------------
(* WaitIdle, Flush and Close. *)

WaitIdle(w) ==
    /\ waiter[w] = "idle"
    /\ waiter' = [waiter EXCEPT ![w] = "waiting"]
    /\ waitsOn' = [waitsOn EXCEPT ![w] = idleCh]
    /\ UNCHANGED <<queue, countVars, writerVars, runnerVars, flusher, before, close>>

\* Mutant: waits for the idle channel only.
ReleaseIdleOnly(w) ==
    /\ waiter[w] = "waiting"
    /\ waitsOn[w] \in closed
    /\ waiter' = [waiter EXCEPT ![w] = "done"]
    /\ waitsOn' = [waitsOn EXCEPT ![w] = 0]
    /\ UNCHANGED <<queue, countVars, writerVars, runnerVars, flusher, before, close>>

Release(w) ==
    /\ waiter[w] = "waiting"
    /\ waitsOn[w] \in closed \/ runner = "stopped"
    /\ waiter' = [waiter EXCEPT ![w] = "done"]
    /\ waitsOn' = [waitsOn EXCEPT ![w] = 0]
    /\ UNCHANGED <<queue, countVars, writerVars, runnerVars, flusher, before, close>>

Sounding == {queue[i] : i \in DOMAIN queue} \cup ({playing} \ {0})

Flush(f) ==
    /\ flusher[f] = "idle"
    /\ flusher' = [flusher EXCEPT ![f] = "sending"]
    /\ before' = [before EXCEPT ![f] = Sounding]
    /\ UNCHANGED <<queue, countVars, writerVars, runnerVars, waiter, waitsOn, close>>

\* doneCh is closed: nobody will take or acknowledge the flush.
FlushStopped(f) ==
    /\ flusher[f] \in {"sending", "waiting"} /\ runner = "stopped"
    /\ flusher' = [flusher EXCEPT ![f] = "done"]
    /\ UNCHANGED <<queue, countVars, writerVars, runnerVars, waiter, waitsOn, before,
                   close>>

Close ==
    /\ \/ close = "open" /\ close' = "closing"
       \/ close = "closing" /\ runner = "stopped" /\ close' = "done"
    /\ UNCHANGED <<queue, countVars, writerVars, runnerVars, callerVars>>
------------------------------------------------------------------------------
Write(w) == Announce(w) \/ Enqueue(w) \/ Refused(w)
Run == \/ TakeFrame \/ Paced \/ DrainFrame \/ Drained \/ AckFlush \/ Stop
       \/ \E f \in Flushers : AcceptFlush(f)

Next == \/ \E w \in Writers : Write(w)
        \/ Run
        \/ \E w \in Waiters : WaitIdle(w) \/ Release(w)
        \/ \E f \in Flushers : Flush(f) \/ FlushStopped(f)
        \/ Close

Spec == Init /\ [][Next]_vars

\* The scheduler runs every goroutine that can run, and timers fire.  A select
\* with two cases ready may take either one, so nothing is assumed of which.
FairSpec == /\ Spec
            /\ WF_vars(Run)
            /\ \A w \in Writers : WF_vars(Enqueue(w) \/ Refused(w))
            /\ \A w \in Waiters : WF_vars(Release(w))
            /\ \A f \in Flushers : WF_vars(FlushStopped(f))
            /\ WF_vars(close = "closing" /\ Close)
------------------------------------------------------------------------------
(* Properties. *)

\* pending is exactly the number of frames between markQueued and their end,
\* wherever they are: in a writer's hands, queued, playing, or taken by a flush
\* that has not counted them.  So markDone never runs below zero, and the clamp
\* in it never hides a frame that was counted twice.
PendingCountsFrames ==
    pending = Cardinality({w \in Writers : writer[w] # "idle"}) + Len(queue)
              + (IF playing = 0 THEN 0 ELSE 1) + drained

\* Nobody waits on an idle channel that markQueued has replaced and that no
\* markDone will close any more; and who waits, waits for some frame.
NoWaiterStranded ==
    \A w \in Waiters :
        waiter[w] = "waiting" /\ waitsOn[w] \notin closed
            => waitsOn[w] = idleCh /\ pending > 0

\* When Flush has returned, none of the frames that were queued when it was
\* called is queued or playing, however many calls of Flush overlap and whatever
\* was written meanwhile.
FlushSilences ==
    \A f \in Flushers :
        flusher[f] = "done" /\ runner # "stopped" => before[f] \cap Sounding = {}

\* No call blocks for ever: not a writer before a full queue when the writer
\* is closed, not WaitIdle when the frame it waits for is never played, not
\* Flush and Close when they overlap.
CallsReturn ==
    /\ \A w \in Writers : writer[w] # "idle" ~> writer[w] = "idle"
    /\ \A w \in Waiters : waiter[w] = "waiting" ~> waiter[w] = "done"
    /\ \A f \in Flushers : flusher[f] = "sending" ~> flusher[f] = "done"
    /\ close = "closing" ~> close = "done"
==============================================================================

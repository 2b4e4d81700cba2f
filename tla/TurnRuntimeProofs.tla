-------------------------- MODULE TurnRuntimeProofs --------------------------
(***************************************************************************)
(* What holds of a bot session for any number of stretches of speech and   *)
(* of calls: its goroutines use the task so that it implements the turn    *)
(* lifecycle, at most one reply answers a turn, and speech that interrupts *)
(* a turn is transcribed for a later one.                                  *)
(***************************************************************************)
EXTENDS TurnRuntime, FiniteSetTheorems, TLAPS

\* The bound on turns is a number, as the task requires of its bound.
LEMMA MaxTurnNat == MaxTurn \in Nat
  BY MaxTurnAssumption
------------------------------------------------------------------------------
(* The task on its own. *)

\* The inductive invariant: before it begins a first turn a task has none.
TaskInv == /\ Task!TypeOK
           /\ Task!SettledUnlessCurrent
           /\ Task!InTurn => turn \in Task!Turns
           /\ state \in {"created", "negotiating"} => turn = 0

\* A new task satisfies the invariant.
LEMMA TaskInit == Task!NewTask => TaskInv
  BY MaxTurnAssumption
  DEF Task!NewTask, TaskInv, Task!TypeOK, Task!SettledUnlessCurrent, Task!InTurn,
      Task!Turns, Task!States, Task!Outcomes

\* Every method of the task keeps the invariant.
LEMMA TaskKeeps == TaskInv /\ [Task!Next]_(Task!taskVars) => TaskInv'
<1> SUFFICES ASSUME TaskInv, [Task!Next]_(Task!taskVars) PROVE TaskInv'
    OBVIOUS
<1> USE MaxTurnAssumption
    DEF TaskInv, Task!TypeOK, Task!SettledUnlessCurrent, Task!InTurn, Task!Turns,
        Task!States, Task!Outcomes, Task!Settle
<1>1. CASE Task!BeginNegotiation
      BY <1>1 DEF Task!BeginNegotiation
<1>2. CASE Task!MarkActive
      BY <1>2 DEF Task!MarkActive
<1>3. CASE Task!StartTurn
      BY <1>3 DEF Task!StartTurn
<1>4. CASE Task!ReuseTurn
      BY <1>4 DEF Task!ReuseTurn, Task!taskVars
<1>5. CASE \E t \in Task!Turns : Task!StartResponse(t)
      BY <1>5 DEF Task!StartResponse
<1>6. CASE \E t \in Task!Turns : Task!CompleteTurn(t)
      BY <1>6 DEF Task!CompleteTurn
<1>7. CASE Task!Interrupt
      BY <1>7 DEF Task!Interrupt
<1>8. CASE Task!End
      BY <1>8 DEF Task!End
<1>9. CASE UNCHANGED Task!taskVars
      BY <1>9 DEF Task!taskVars
<1> QED
    BY <1>1, <1>2, <1>3, <1>4, <1>5, <1>6, <1>7, <1>8, <1>9 DEF Task!Next, Task!EnsureTurn

\* In every reachable state of a task the inductive invariant holds.
THEOREM TaskInvariant == Task!Spec => []TaskInv
  BY TaskInit, TaskKeeps, PTL DEF Task!Spec

\* In every reachable state the fields of a task have their types.
THEOREM TaskTypeOK == Task!Spec => []Task!TypeOK
<1>1. TaskInv => Task!TypeOK
      BY DEF TaskInv
<1> QED
    BY TaskInvariant, <1>1, PTL

\* However many turns a session begins, and in whatever order its goroutines
\* call the task's methods, exactly the turn in progress is unsettled.
THEOREM TaskSettled == Task!Spec => []Task!SettledUnlessCurrent
<1>1. TaskInv => Task!SettledUnlessCurrent
      BY DEF TaskInv
<1> QED
    BY TaskInvariant, <1>1, PTL

\* The abstract session that a task stands for.
TaskStatus == [t \in Task!Turns |-> Task!StatusOf(t)]
TaskClosed == state = "closed"

\* A new task stands for a session with no turn begun.
LEMMA RefinesInit == Task!NewTask => Task!Lifecycle!Init
  BY MaxTurnAssumption
  DEF Task!NewTask, Task!Lifecycle!Init, Task!Lifecycle!Turns, Task!Turns, Task!StatusOf,
      Task!InTurn

\* A step that settles the turn in progress settles that turn, and no other.
LEMMA SettleStep ==
    ASSUME TaskInv, Task!InTurn, state' = "active", UNCHANGED turn,
           NEW how \in {"completed", "interrupted", "reset"}, Task!Settle(how)
    PROVE  \E t \in Task!Turns : Task!Lifecycle!Settle(t)
<1>1. turn \in Task!Turns /\ ~Task!InTurn' /\ outcome' = [outcome EXCEPT ![turn] = how]
      BY DEF TaskInv, Task!InTurn, Task!Settle
<1>2. \A t \in Task!Turns : Task!StatusOf(t)' = IF t = turn THEN how ELSE Task!StatusOf(t)
      BY <1>1 DEF Task!StatusOf, TaskInv, Task!TypeOK, Task!Turns
<1>3. TaskStatus' = [TaskStatus EXCEPT ![turn] = how]
      BY <1>1, <1>2 DEF TaskStatus
<1>4. TaskStatus[turn] \in Task!Lifecycle!Open
      BY <1>1 DEF TaskStatus, Task!StatusOf, Task!InTurn, TaskInv, Task!TypeOK,
                  Task!Lifecycle!Open, Task!Turns
<1>5. how \in Task!Lifecycle!Settled \ {"ended"}
      BY DEF Task!Lifecycle!Settled
<1>6. Task!Lifecycle!Settle(turn)
      BY <1>3, <1>4, <1>5 DEF Task!Lifecycle!Settle, TaskStatus, Task!InTurn
<1> QED
    BY <1>1, <1>6

\* Every method of the task is a step of the abstract session, or changes
\* nothing of it.
LEMMA RefinesNext ==
    TaskInv /\ TaskInv' /\ [Task!Next]_(Task!taskVars)
        => [Task!Lifecycle!Next]_(Task!Lifecycle!lifecycleVars)
<1> SUFFICES ASSUME TaskInv, TaskInv', [Task!Next]_(Task!taskVars)
             PROVE  [Task!Lifecycle!Next]_(Task!Lifecycle!lifecycleVars)
    OBVIOUS
<1> USE MaxTurnAssumption
<1>0. turn \in 0 .. MaxTurn /\ Task!Lifecycle!Turns = Task!Turns
      BY DEF TaskInv, Task!TypeOK, Task!Lifecycle!Turns, Task!Turns
<1>1. CASE Task!BeginNegotiation
      <2>1. TaskStatus' = TaskStatus /\ TaskClosed' = TaskClosed
            BY <1>1 DEF Task!BeginNegotiation, TaskStatus, TaskClosed, Task!StatusOf,
                        Task!InTurn
      <2> QED
          BY <2>1 DEF Task!Lifecycle!lifecycleVars, TaskStatus, TaskClosed
<1>2. CASE Task!MarkActive
      <2>1. CASE Task!InTurn
            <3>1. \E t \in Task!Turns : Task!Lifecycle!Settle(t)
                  BY <1>2, <2>1, SettleStep DEF Task!MarkActive
            <3> QED
                BY <1>0, <3>1 DEF Task!Lifecycle!Next
      <2>2. CASE ~Task!InTurn
            <3>1. TaskStatus' = TaskStatus /\ TaskClosed' = TaskClosed
                  BY <1>2, <2>2 DEF Task!MarkActive, Task!Settle, TaskStatus, TaskClosed,
                                    Task!StatusOf, Task!InTurn
            <3> QED
                BY <3>1 DEF Task!Lifecycle!lifecycleVars, TaskStatus, TaskClosed
      <2> QED
          BY <2>1, <2>2
<1>3. CASE Task!StartTurn
      <2>1. turn + 1 \in Task!Turns /\ turn' = turn + 1 /\ outcome' = outcome
            BY <1>0, <1>3 DEF Task!StartTurn, Task!Turns
      <2>2. TaskStatus[turn + 1] = "unused"
            BY <1>0, <2>1 DEF TaskStatus, Task!StatusOf
      <2>3. \A s \in Task!Turns : s < turn + 1 => TaskStatus[s] \in Task!Lifecycle!Settled
            BY <1>0, <1>3, <2>1 DEF Task!StartTurn, TaskStatus, Task!StatusOf,
                                    Task!InTurn, TaskInv, Task!TypeOK,
                       Task!Lifecycle!Settled, Task!SettledUnlessCurrent, Task!Outcomes,
                           Task!Turns
      <2>4. TaskStatus' = [TaskStatus EXCEPT ![turn + 1] = "processing"]
            <3>1. \A t \in Task!Turns : Task!StatusOf(t)' = IF t = turn + 1 THEN "processing"
                                                                 ELSE Task!StatusOf(t)
                  BY <1>0, <1>3, <2>1 DEF Task!StartTurn, Task!StatusOf, Task!InTurn,
                      Task!Turns
            <3> QED
                BY <2>1, <3>1 DEF TaskStatus
      <2>5. Task!Lifecycle!Begin(turn + 1)
            BY <1>3, <2>1, <2>2, <2>3, <2>4
            DEF Task!StartTurn, Task!Lifecycle!Begin, Task!Lifecycle!Turns, Task!Turns,
                TaskStatus
      <2> QED
          BY <2>1, <2>5 DEF Task!Lifecycle!Next, Task!Lifecycle!Turns, Task!Turns
<1>4. CASE Task!ReuseTurn
      BY <1>4 DEF Task!ReuseTurn, Task!taskVars, Task!Lifecycle!lifecycleVars,
                  Task!StatusOf, Task!InTurn
<1>5. CASE \E t \in Task!Turns : Task!StartResponse(t)
      <2>1. PICK t \in Task!Turns : Task!StartResponse(t)
            BY <1>5
      <2>2. \A s \in Task!Turns :
                Task!StatusOf(s)' = IF s = t THEN "responding" ELSE Task!StatusOf(s)
            BY <1>0, <2>1 DEF Task!StartResponse, Task!StatusOf, Task!InTurn, Task!Turns
      <2>3. /\ TaskStatus[t] = "processing"
            /\ TaskStatus' = [TaskStatus EXCEPT ![t] = "responding"]
            /\ state # "closed" /\ state' # "closed"
            BY <1>0, <2>1, <2>2 DEF Task!StartResponse, TaskStatus, Task!StatusOf,
                                    Task!InTurn, Task!Turns
      <2>4. Task!Lifecycle!Respond(t)
            BY <2>3 DEF Task!Lifecycle!Respond, TaskStatus
      <2> QED
          BY <1>0, <2>4 DEF Task!Lifecycle!Next
<1>6. CASE \E t \in Task!Turns : Task!CompleteTurn(t)
      <2>1. \E t \in Task!Turns : Task!Lifecycle!Settle(t)
            BY <1>6, SettleStep DEF Task!CompleteTurn
      <2> QED
          BY <1>0, <2>1 DEF Task!Lifecycle!Next
<1>7. CASE Task!Interrupt
      <2>1. \E t \in Task!Turns : Task!Lifecycle!Settle(t)
            BY <1>7, SettleStep DEF Task!Interrupt
      <2> QED
          BY <1>0, <2>1 DEF Task!Lifecycle!Next
<1>8. CASE Task!End
      <2>1. TaskStatus' = [t \in Task!Turns |-> IF TaskStatus[t] \in Task!Lifecycle!Open
                                       THEN "ended" ELSE TaskStatus[t]]
            <3>1. \A t \in Task!Turns :
                      Task!StatusOf(t)' = IF Task!StatusOf(t) \in Task!Lifecycle!Open
                                          THEN "ended" ELSE Task!StatusOf(t)
                  BY <1>0, <1>8 DEF Task!End, Task!Settle, Task!StatusOf, Task!InTurn,
                                    TaskInv, Task!TypeOK,
                             Task!Lifecycle!Open, Task!SettledUnlessCurrent,
                                 Task!Outcomes, Task!Turns
            <3> QED
                BY <3>1 DEF TaskStatus
      <2>2. Task!Lifecycle!Close
            BY <1>8, <2>1 DEF Task!End, Task!Lifecycle!Close, TaskStatus,
                              Task!Lifecycle!Turns, Task!Turns
      <2> QED
          BY <2>2 DEF Task!Lifecycle!Next
<1>9. CASE UNCHANGED Task!taskVars
      BY <1>9 DEF Task!taskVars, Task!Lifecycle!lifecycleVars, Task!StatusOf, Task!InTurn
<1> QED
    BY <1>1, <1>2, <1>3, <1>4, <1>5, <1>6, <1>7, <1>8, <1>9 DEF Task!Next, Task!EnsureTurn

\* The task implements the turn lifecycle for every bound on its turns: what
\* StartTurn, StartResponse, CompleteTurn, Interrupt, MarkActive and End do
\* together never completes an interrupted turn, answers a turn twice or
\* begins a turn while another is open.
THEOREM TaskRefinesLifecycle == Task!Spec => Task!TurnLifecycleSpec
  BY RefinesInit, RefinesNext, TaskInvariant, PTL
  DEF Task!Spec, Task!TurnLifecycleSpec, Task!Lifecycle!Spec
------------------------------------------------------------------------------
(* The task in a session. *)

\* A turn id that StartResponse or CompleteTurn accepts is the current one, and
\* so one of the turns that anybody may name.
LEMMA TaskCalls ==
    ASSUME TaskInv, NEW t,
           \/ Task!StartResponse(t) \/ Task!CompleteTurn(t) \/ Task!BeginNegotiation
           \/ Task!MarkActive \/ Task!StartTurn \/ Task!EnsureTurn \/ Task!ReuseTurn
           \/ Task!Interrupt \/ Task!End \/ UNCHANGED taskVars
    PROVE  [Task!Next]_(Task!taskVars)
<1>1. Task!InTurn => turn \in Task!Turns
      BY DEF TaskInv, Task!InTurn, Task!Turns
<1>2. Task!StartResponse(t) \/ Task!CompleteTurn(t) => t \in Task!Turns
      BY <1>1 DEF Task!StartResponse, Task!CompleteTurn, Task!InTurn
<1> QED
    BY <1>2 DEF Task!Next, Task!EnsureTurn, Task!taskVars, taskVars

\* Every step of a session is one call of the task's methods, or none.
LEMMA TaskStep == TaskInv /\ [Next]_vars => [Task!Next]_(Task!taskVars)
<1> SUFFICES ASSUME TaskInv, [Next]_vars PROVE [Task!Next]_(Task!taskVars)
    OBVIOUS
<1>1. CASE UNCHANGED vars
      BY <1>1, TaskCalls DEF vars
<1>2. CASE Setup
      BY <1>2, TaskCalls
      DEF Setup, CreateSession, MarkActive, ChannelOpen, ControlReady, LateCandidate,
          TrackStart, TrackEnds, MaybeStartOpeningTurn, OpeningTurn, OpeningInstall
<1>3. ASSUME NEW u \in Speech, SpeechStart(u) \/ Vad(u)
      PROVE  [Task!Next]_(Task!taskVars)
      BY <1>3, TaskCalls
      DEF SpeechStart, Vad, VADSnapshot, VADInterrupt, VADCancel, VADFlush,
          VADEnsureTurn, ASRSnapshot, ASRStart
<1>4. ASSUME NEW u \in Speech,
             ASRFinal(u) \/ ASREmptyFinal(u) \/ ASRStreamEnds(u) \/ Transcript(u)
      PROVE  [Task!Next]_(Task!taskVars)
      BY <1>4, TaskCalls
      DEF ASRFinal, ASREmptyFinal, TryComplete, ASRStreamEnds, Transcript, FinalFlush,
          InstallRun, ASRRelease
<1>5. CASE EndOfUtterance \/ Played
      BY <1>5, TaskCalls DEF EndOfUtterance, Played
<1>6. ASSUME NEW r \in Runs, Reply(r) \/ RunSpeak(r) \/ RunEndCall(r)
      PROVE  [Task!Next]_(Task!taskVars)
      BY <1>6, TaskCalls
      DEF Reply, RunStart, RunAsk, TryComplete, RunStreamed, RunWait, RunComplete,
          RunScheduleEnd, RunClear, RunSpeak, RunEndCall
<1>7. CASE Calls
      BY <1>7, TaskCalls
      DEF Calls, HintEnsureTurn, HintStartResponse, HintInterrupt, HintCancel,
          HTTPStartTurn, HTTPStartResponse, HTTPInterrupt
<1>8. CASE Ending
      BY <1>8, TaskCalls
      DEF Ending, HTTPEnd, CloseThenEnd, FinishEnd, FinishClose, ConnectionLost
<1> QED
    BY <1>1, <1>2, <1>3, <1>4, <1>5, <1>6, <1>7, <1>8 DEF Next

\* The task's invariant holds in a session.
LEMMA TaskInvInit == Init => TaskInv
  BY TaskInit DEF Init

LEMMA TaskInvStep == TaskInv /\ [Next]_vars => TaskInv'
  BY TaskStep, TaskKeeps

\* In a session, whoever calls the task and whenever, exactly the turn in progress is
\* unsettled.
THEOREM RuntimeTaskSettled == Spec => []Task!SettledUnlessCurrent
<1>1. TaskInv => Task!SettledUnlessCurrent
      BY DEF TaskInv
<1> QED
    BY <1>1, TaskInvInit, TaskInvStep, PTL DEF Spec

\* However the goroutines of a session interleave, what they do to the task is
\* the turn lifecycle: turns in order, one at a time, settled once.
THEOREM RuntimeTurnLifecycle == Spec => TurnLifecycleSpec
<1>1. Init => Task!NewTask
      BY DEF Init
<1>2. Spec => Task!Spec
      BY <1>1, TaskStep, TaskInvInit, TaskInvStep, PTL DEF Spec, Task!Spec
<1> QED
    BY <1>2, TaskRefinesLifecycle, PTL DEF TurnLifecycleSpec

------------------------------------------------------------------------------
(* Types. *)

\* The greeting is triggered at most once by the channel and once by the track.
Triggers == triggers <= (IF channel = "ready" THEN 1 ELSE 0)
                        + (IF track = "none" THEN 0 ELSE 1)

TypeInv == TaskInv /\ TypeOK /\ Triggers

\* The runs are the stretches of speech and the greeting, and NoRun is none.
LEMMA RunsFacts == /\ Speech \subseteq Runs /\ Opening \in Runs /\ NoRun \notin Runs
                   /\ \A u \in Speech : u # Opening
  BY RunsAssumption DEF Runs

\* The current turn is within the bound.
LEMMA TurnInBound == TaskInv => /\ turn \in 0 .. MaxTurn /\ turn \in Nat
                                /\ turn < MaxTurn => turn + 1 \in 0 .. MaxTurn
  BY MaxTurnNat DEF TaskInv, Task!TypeOK

\* The initial state is of its types.
LEMMA TypeInit == Init => TypeInv
<1> SUFFICES ASSUME Init PROVE TypeInv
    OBVIOUS
<1>1. TaskInv /\ Task!TypeOK
      BY TaskInvInit DEF TaskInv
<1>2. SetupTypeOK /\ Triggers
      BY DEF Init, SetupTypeOK, Triggers, Entry
<1>3. SpeechTypeOK /\ CallTypeOK /\ ReplyTypeOK
      BY MaxTurnNat, CallsAssumption, RunsFacts
      DEF Init, SpeechTypeOK, CallTypeOK, ReplyTypeOK, SpeechSteps, RunSteps
<1> QED
    BY <1>1, <1>2, <1>3 DEF TypeInv, TypeOK, Init

\* Closing the rtcManager's entry keeps the types.
LEMMA RtcCloseTypes ==
    ASSUME SetupTypeOK, SpeechTypeOK, ReplyTypeOK, Triggers, RtcClose,
           UNCHANGED speechVars
    PROVE  SetupTypeOK' /\ SpeechTypeOK' /\ ReplyTypeOK' /\ Triggers'
<1>1. SetupTypeOK' /\ Triggers'
      BY DEF RtcClose, SetupTypeOK, Triggers, Entry
<1>2. SpeechTypeOK'
      BY DEF RtcClose, SpeechTypeOK, speechVars
<1>3. ReplyTypeOK'
      BY MaxTurnNat DEF RtcClose, ReplyTypeOK, replyVars, CancelHandle, Silence, RunSteps
<1> QED
    BY <1>1, <1>2, <1>3

\* Setting the session up keeps the types.
LEMMA SetupTypes ==
    ASSUME TypeInv, Setup
    PROVE  SetupTypeOK' /\ Triggers' /\ SpeechTypeOK' /\ CallTypeOK' /\ ReplyTypeOK'
<1> USE DEF TypeInv, TypeOK
<1>1. SetupTypeOK' /\ Triggers'
  <2> USE DEF SetupTypeOK, Triggers
  <2>1. CASE CreateSession \/ ChannelOpen \/ TrackEnds \/ OpeningInstall
        BY <2>1 DEF CreateSession, ChannelOpen, TrackEnds, OpeningInstall
  <2>2. CASE ControlReady
        BY <2>2 DEF ControlReady, EntryOnDemand, Entry
  <2>3. CASE LateCandidate
        BY <2>3 DEF LateCandidate, EntryOnDemand, Entry
  <2>4. CASE TrackStart
        BY <2>4 DEF TrackStart
  <2>5. CASE MaybeStartOpeningTurn
    <3>1. triggers' \in 0 .. 2 /\ triggers' <= triggers /\ UNCHANGED <<boot, channel, track>>
          BY <2>5 DEF MaybeStartOpeningTurn
    <3>2. opener' \in {"idle", "start", "install"}
          BY <2>5 DEF MaybeStartOpeningTurn
    <3>3. rtc' = rtc \/ rtc' = [rtc EXCEPT !.opening = TRUE]
          BY <2>5 DEF MaybeStartOpeningTurn
    <3>4. rtc' \in [entry : {"live", "gone", "empty"}, opening : BOOLEAN,
                    ending : Runs \cup {NoRun}]
          BY <3>3
    <3>5. SetupTypeOK'
          BY <3>1, <3>2, <3>4
    <3> QED
        BY <3>1, <3>5
  <2>6. CASE OpeningTurn
        BY <2>6 DEF OpeningTurn
  <2> QED
      BY <2>1, <2>2, <2>3, <2>4, <2>5, <2>6 DEF Setup
<1>2. SpeechTypeOK' /\ CallTypeOK'
      BY DEF Setup, CreateSession, ChannelOpen, ControlReady, LateCandidate,
             TrackStart, TrackEnds, MaybeStartOpeningTurn, OpeningTurn, OpeningInstall,
             SpeechTypeOK, CallTypeOK, speechVars, callVars
<1>3. ReplyTypeOK'
  <2> USE DEF ReplyTypeOK
  <2>1. CASE \/ CreateSession \/ ChannelOpen \/ ControlReady \/ LateCandidate
             \/ TrackStart \/ MaybeStartOpeningTurn
        BY <2>1
        DEF CreateSession, ChannelOpen, ControlReady, LateCandidate, TrackStart,
            MaybeStartOpeningTurn, replyVars
  <2>2. CASE TrackEnds
        BY <2>2, MaxTurnNat DEF TrackEnds, CancelHandle, Silence, RunSteps
  <2>3. CASE OpeningTurn
        BY <2>3, TurnInBound, RunsFacts DEF OpeningTurn, Task!StartTurn
  <2>4. CASE OpeningInstall
        BY <2>4, RunsFacts DEF OpeningInstall, RunSteps
  <2> QED
      BY <2>1, <2>2, <2>3, <2>4 DEF Setup
<1> QED
    BY <1>1, <1>2, <1>3

\* A stretch of speech keeps the types.
LEMMA SpeechTypes ==
    ASSUME TypeInv, NEW u \in Speech,
           \/ SpeechStart(u) \/ Vad(u) \/ Transcript(u)
           \/ ASRFinal(u) \/ ASREmptyFinal(u) \/ ASRStreamEnds(u)
    PROVE  SetupTypeOK' /\ Triggers' /\ SpeechTypeOK' /\ CallTypeOK' /\ ReplyTypeOK'
<1> USE DEF TypeInv, TypeOK
<1>1. SetupTypeOK' /\ Triggers' /\ CallTypeOK'
      BY DEF SpeechStart, Vad, VADSnapshot, VADInterrupt, VADCancel, VADFlush,
             VADEnsureTurn, ASRSnapshot, ASRStart, ASRFinal, ASREmptyFinal,
             ASRStreamEnds, Transcript, FinalFlush, InstallRun, ASRRelease,
             SetupTypeOK, Triggers, setupVars, CallTypeOK, callVars
<1>2. SpeechTypeOK'
  <2> USE DEF SpeechTypeOK
  <2>1. speech' \in [Speech -> SpeechSteps]
    <3>1. \E step \in SpeechSteps : Goto(u, step)
          BY DEF SpeechStart, Vad, VADSnapshot, VADInterrupt, VADCancel, VADFlush,
                 VADEnsureTurn, ASRSnapshot, ASRStart, ASRFinal, ASREmptyFinal,
                 ASRStreamEnds, Transcript, FinalFlush, InstallRun, ASRRelease, Leave,
                 SpeechSteps
    <3> QED
        BY <3>1 DEF Goto
  <2>2. heard' \in [Speech -> 0 .. MaxTurn] /\ cutOff' \in [Speech -> 0 .. MaxTurn]
    <3>1. \/ UNCHANGED <<heard, cutOff>>
          \/ VADSnapshot(u)
          \/ VADInterrupt(u)
          \/ Leave(u)
          BY DEF SpeechStart, Vad, VADCancel, VADFlush, VADEnsureTurn, ASRSnapshot,
                 ASRStart, ASRFinal, ASREmptyFinal, ASRStreamEnds, Transcript,
                 FinalFlush, InstallRun, ASRRelease
    <3>2. turn \in 0 .. MaxTurn /\ 0 \in 0 .. MaxTurn
          BY TurnInBound, MaxTurnNat
    <3> QED
        BY <3>1, <3>2 DEF VADSnapshot, VADInterrupt, Leave
  <2>3. input' \in Speech \cup {NoRun}
        BY DEF SpeechStart, Vad, VADSnapshot, VADInterrupt, VADCancel, VADFlush,
               VADEnsureTurn, ASRSnapshot, ASRStart, ASRFinal, ASREmptyFinal,
               ASRStreamEnds, Transcript, FinalFlush, InstallRun, ASRRelease
  <2> QED
      BY <2>1, <2>2, <2>3
<1>3. ReplyTypeOK'
  <2> USE DEF ReplyTypeOK
  <2>1. CASE \/ SpeechStart(u) \/ VADSnapshot(u) \/ VADInterrupt(u)
             \/ VADEnsureTurn(u) \/ ASRStart(u) \/ ASREmptyFinal(u)
             \/ ASRStreamEnds(u) \/ ASRRelease(u)
        BY <2>1
        DEF SpeechStart, VADSnapshot, VADInterrupt, VADEnsureTurn, ASRStart,
            ASREmptyFinal, ASRStreamEnds, ASRRelease, replyVars
  <2>2. CASE VADCancel(u) \/ ASRFinal(u)
        BY <2>2, MaxTurnNat DEF VADCancel, ASRFinal, CancelHandle
  <2>3. CASE VADFlush(u) \/ FinalFlush(u)
        BY <2>3 DEF VADFlush, FinalFlush, Flush, Silence, RunSteps
  <2>4. CASE ASRSnapshot(u)
        BY <2>4, TurnInBound, RunsFacts DEF ASRSnapshot
  <2>5. CASE InstallRun(u)
        BY <2>5, RunsFacts DEF InstallRun, RunSteps
  <2> QED
      BY <2>1, <2>2, <2>3, <2>4, <2>5 DEF Vad, Transcript
<1> QED
    BY <1>1, <1>2, <1>3

\* A reply keeps the types.
LEMMA ReplyTypes ==
    ASSUME TypeInv, NEW r \in Runs, Reply(r) \/ RunSpeak(r) \/ RunEndCall(r)
    PROVE  SetupTypeOK' /\ Triggers' /\ SpeechTypeOK' /\ CallTypeOK' /\ ReplyTypeOK'
<1> USE DEF TypeInv, TypeOK
<1>1. SetupTypeOK' /\ Triggers'
  <2>1. CASE RunScheduleEnd(r)
    <3>1. rtc' = rtc \/ rtc' = [rtc EXCEPT !.ending = r]
          BY <2>1 DEF RunScheduleEnd
    <3>2. rtc' \in [entry : {"live", "gone", "empty"}, opening : BOOLEAN,
                    ending : Runs \cup {NoRun}]
          BY <3>1 DEF SetupTypeOK
    <3> QED
        BY <2>1, <3>2 DEF RunScheduleEnd, SetupTypeOK, Triggers
  <2>2. CASE UNCHANGED setupVars
        BY <2>2 DEF setupVars, SetupTypeOK, Triggers
  <2> QED
      BY <2>1, <2>2
      DEF Reply, RunStart, RunAsk, RunStreamed, RunWait, RunComplete, RunClear,
          RunSpeak, RunEndCall
<1>2. SpeechTypeOK' /\ CallTypeOK'
      BY DEF Reply, RunStart, RunAsk, RunStreamed, RunWait, RunComplete,
             RunScheduleEnd, RunClear, RunSpeak, RunEndCall, SpeechTypeOK, speechVars,
             CallTypeOK, callVars
<1>3. ReplyTypeOK'
  <2> USE DEF ReplyTypeOK
  <2>1. run' \in [Runs -> RunSteps]
    <3>1. UNCHANGED run \/ \E step \in RunSteps : Proceed(r, step)
          BY DEF Reply, RunStart, RunAsk, RunStreamed, RunWait, RunComplete,
                 RunScheduleEnd, RunClear, RunSpeak, RunEndCall, UnlessCancelled,
                 RunSteps
    <3> QED
        BY <3>1 DEF Proceed
  <2>2. /\ cancelled' \subseteq Runs /\ spoke' \subseteq Runs /\ endCall' \subseteq Runs
        /\ audio' \subseteq Runs
        BY DEF Reply, RunStart, RunAsk, RunStreamed, RunWait, RunComplete,
               RunScheduleEnd, RunClear, RunSpeak, RunEndCall
  <2>3. turnOf' = turnOf /\ handle' \in Runs \cup {NoRun} /\ handleTurn' \in 0 .. MaxTurn
        BY MaxTurnNat
        DEF Reply, RunStart, RunAsk, RunStreamed, RunWait, RunComplete,
            RunScheduleEnd, RunClear, RunSpeak, RunEndCall
  <2> QED
      BY <2>1, <2>2, <2>3
<1> QED
    BY <1>1, <1>2, <1>3

\* Hints, HTTP calls and the ends of a session keep the types.
LEMMA CallTypes ==
    ASSUME TypeInv, Calls \/ Ending
    PROVE  SetupTypeOK' /\ Triggers' /\ SpeechTypeOK' /\ CallTypeOK' /\ ReplyTypeOK'
<1> USE DEF TypeInv, TypeOK
<1>1. CallTypeOK'
  <2>1. \A kind : Call(kind) => calls' \in 0 .. MaxCalls
        BY CallsAssumption DEF Call, CallTypeOK
  <2>2. hintTurn' \in 0 .. MaxTurn /\ httpTurn' \in 0 .. MaxTurn
        BY TurnInBound, MaxTurnNat
        DEF Calls, HintEnsureTurn, HintStartResponse, HintInterrupt, HintCancel,
            HTTPStartTurn, HTTPStartResponse, HTTPInterrupt, Ending, HTTPEnd,
            CloseThenEnd, FinishEnd, FinishClose, ConnectionLost, CallTypeOK, callVars,
            Task!StartTurn
  <2> QED
      BY <2>1, <2>2
      DEF Calls, HintEnsureTurn, HintStartResponse, HintInterrupt, HintCancel,
          HTTPStartTurn, HTTPStartResponse, HTTPInterrupt, Ending, HTTPEnd,
          CloseThenEnd, FinishEnd, FinishClose, ConnectionLost, CallTypeOK, callVars
<1>2. SetupTypeOK' /\ Triggers' /\ SpeechTypeOK' /\ ReplyTypeOK'
  <2>1. CASE RtcClose
        BY <2>1, RtcCloseTypes
        DEF Calls, HintEnsureTurn, HintStartResponse, HintInterrupt, HintCancel,
            HTTPStartTurn, HTTPStartResponse, HTTPInterrupt, Ending, HTTPEnd,
            CloseThenEnd, FinishEnd, FinishClose, ConnectionLost
  <2>2. CASE HintCancel
    <3>1. UNCHANGED <<setupVars, speechVars, input>>
          BY <2>2 DEF HintCancel
    <3>2. SetupTypeOK' /\ Triggers' /\ SpeechTypeOK'
          BY <3>1 DEF setupVars, speechVars, SetupTypeOK, Triggers, SpeechTypeOK
    <3>3. ReplyTypeOK'
          BY <2>2, MaxTurnNat
          DEF HintCancel, ReplyTypeOK, CancelHandle, Flush, Silence, RunSteps
    <3> QED
        BY <3>2, <3>3
  <2>3. CASE UNCHANGED <<setupVars, speechVars, input, replyVars>>
        BY <2>3
        DEF setupVars, speechVars, replyVars, SetupTypeOK, Triggers, SpeechTypeOK,
            ReplyTypeOK
  <2> QED
      BY <2>1, <2>2, <2>3
      DEF Calls, HintEnsureTurn, HintStartResponse, HintInterrupt, HTTPStartTurn,
          HTTPStartResponse, HTTPInterrupt, Ending, HTTPEnd, CloseThenEnd, FinishEnd,
          FinishClose, ConnectionLost
<1> QED
    BY <1>1, <1>2

\* What is left of a session's end is one of its three last steps.
LEMMA ClosersType ==
    ASSUME TypeInv, [Next]_vars
    PROVE  closers' \subseteq {"grace", "rtc", "task"}
<1> USE DEF TypeInv, TypeOK
<1>1. CASE Ending
      BY <1>1
      DEF Ending, HTTPEnd, CloseThenEnd, FinishEnd, FinishClose, ConnectionLost
<1>2. ASSUME NEW r \in Runs, RunScheduleEnd(r) PROVE closers' \subseteq {"grace", "rtc", "task"}
      BY <1>2 DEF RunScheduleEnd
<1>3. CASE UNCHANGED closers
      BY <1>3
<1>4. CASE Setup \/ Calls \/ EndOfUtterance \/ Played \/ UNCHANGED vars
      BY <1>3, <1>4
      DEF Setup, CreateSession, ChannelOpen, ControlReady, LateCandidate, TrackStart,
          TrackEnds, MaybeStartOpeningTurn, OpeningTurn, OpeningInstall, Calls,
          HintEnsureTurn, HintStartResponse, HintInterrupt, HintCancel, HTTPStartTurn,
          HTTPStartResponse, HTTPInterrupt, EndOfUtterance, Played, vars
<1>5. ASSUME NEW u \in Speech,
             \/ SpeechStart(u) \/ Vad(u) \/ Transcript(u)
             \/ ASRFinal(u) \/ ASREmptyFinal(u) \/ ASRStreamEnds(u)
      PROVE  UNCHANGED closers
      BY <1>5
      DEF SpeechStart, Vad, VADSnapshot, VADInterrupt, VADCancel, VADFlush,
          VADEnsureTurn, ASRSnapshot, ASRStart, ASRFinal, ASREmptyFinal,
          ASRStreamEnds, Transcript, FinalFlush, InstallRun, ASRRelease
<1>6. ASSUME NEW r \in Runs, Reply(r) \/ RunSpeak(r) \/ RunEndCall(r)
      PROVE  RunScheduleEnd(r) \/ UNCHANGED closers
      BY <1>6
      DEF Reply, RunStart, RunAsk, RunStreamed, RunWait, RunComplete, RunClear,
          RunSpeak, RunEndCall
<1> QED
    BY <1>1, <1>2, <1>3, <1>4, <1>5, <1>6 DEF Next

\* Every step keeps the types.
LEMMA TypeStep == TypeInv /\ [Next]_vars => TypeInv'
<1> SUFFICES ASSUME TypeInv, [Next]_vars PROVE TypeInv'
    OBVIOUS
<1> DEFINE Groups == SetupTypeOK /\ Triggers /\ SpeechTypeOK /\ CallTypeOK /\ ReplyTypeOK
<1>1. TaskInv' /\ Task!TypeOK'
  <2>1. TaskInv'
        BY TaskInvStep DEF TypeInv
  <2> QED
      BY <2>1
      DEF TaskInv
<1>2. ASSUME EndOfUtterance \/ UNCHANGED vars PROVE Groups'
  <2>1. UNCHANGED <<setupVars, speechVars, callVars, replyVars>>
        BY <1>2 DEF EndOfUtterance, vars
  <2>2. input' = input \/ input' = NoRun
        BY <1>2 DEF EndOfUtterance, vars
  <2> QED
      BY <2>1, <2>2
      DEF setupVars, speechVars, callVars, replyVars, TypeInv,
          TypeOK, SetupTypeOK, Triggers, SpeechTypeOK, CallTypeOK, ReplyTypeOK
<1>3. ASSUME Played PROVE Groups'
  <2>1. UNCHANGED <<setupVars, speechVars, input, callVars>>
        BY <1>3 DEF Played
  <2>2. SetupTypeOK' /\ Triggers' /\ SpeechTypeOK' /\ CallTypeOK'
        BY <2>1
        DEF setupVars, speechVars, callVars, TypeInv, TypeOK, SetupTypeOK, Triggers,
            SpeechTypeOK, CallTypeOK
  <2>3. ReplyTypeOK'
        BY <1>3 DEF Played, Silence, TypeInv, TypeOK, ReplyTypeOK, RunSteps
  <2> QED
      BY <2>2, <2>3
<1>4. Groups'
  <2> HIDE DEF Groups
  <2>1. ASSUME NEW u \in Speech,
               \/ SpeechStart(u) \/ Vad(u) \/ Transcript(u)
               \/ ASRFinal(u) \/ ASREmptyFinal(u) \/ ASRStreamEnds(u)
        PROVE  Groups'
        BY <2>1, SpeechTypes DEF Groups
  <2>2. ASSUME NEW r \in Runs, Reply(r) \/ RunSpeak(r) \/ RunEndCall(r)
        PROVE  Groups'
        BY <2>2, ReplyTypes DEF Groups
  <2>3. Setup \/ Calls \/ Ending => Groups'
        BY SetupTypes, CallTypes DEF Groups
  <2>4. EndOfUtterance \/ Played \/ UNCHANGED vars => Groups'
        BY <1>2, <1>3 DEF Groups
  <2> QED
      BY <2>1, <2>2, <2>3, <2>4 DEF Next
<1> QED
    BY <1>1, <1>4, ClosersType DEF TypeInv, TypeOK

\* In every reachable state of a session the variables have their types.
THEOREM RuntimeTypeOK == Spec => []TypeOK
<1>1. Spec => []TypeInv
      BY TypeInit, TypeStep, PTL DEF Spec
<1>2. TypeInv => TypeOK
      BY DEF TypeInv
<1> QED
    BY <1>1, <1>2, PTL
------------------------------------------------------------------------------
(* Who changes what: the frames of replies and of speech. *)

Speaking(u) == \/ SpeechStart(u) \/ Vad(u) \/ Transcript(u)
               \/ ASRFinal(u) \/ ASREmptyFinal(u) \/ ASRStreamEnds(u)

\* Where a reply is, only itself changes, who starts it, and who empties the
\* downlink that it waits for.
LEMMA RunFrame ==
    ASSUME TypeInv, [Next]_vars, NEW r \in Runs
    PROVE  \/ run'[r] = run[r]
           \/ run[r] = "drain" /\ run'[r] = "drained"
           \/ Reply(r)
           \/ r = Opening /\ OpeningInstall
           \/ r \in Speech /\ InstallRun(r)
<1> DEFINE Frame == \/ run'[r] = run[r]
                    \/ run[r] = "drain" /\ run'[r] = "drained"
                    \/ Reply(r)
                    \/ r = Opening /\ OpeningInstall
                    \/ r \in Speech /\ InstallRun(r)
<1>1. run \in [Runs -> RunSteps]
      BY DEF TypeInv, TypeOK, ReplyTypeOK
<1>2. Silence => Frame
      BY <1>1 DEF Silence
<1>3. UNCHANGED run => Frame
      OBVIOUS
<1>4. Setup => Frame
  <2>1. CASE OpeningInstall
        BY <1>1, <2>1 DEF OpeningInstall
  <2> QED
      BY <1>2, <1>3, <2>1
      DEF Setup, CreateSession, ChannelOpen, ControlReady, LateCandidate, TrackStart,
          TrackEnds, MaybeStartOpeningTurn, OpeningTurn, replyVars
<1>5. ASSUME NEW u \in Speech, Speaking(u) PROVE Frame
  <2>1. CASE InstallRun(u)
        BY <1>1, <2>1 DEF InstallRun
  <2> QED
      BY <1>2, <1>3, <1>5, <2>1
      DEF Speaking, SpeechStart, Vad, VADSnapshot, VADInterrupt, VADCancel, VADFlush,
          VADEnsureTurn, ASRSnapshot, ASRStart, ASRFinal, ASREmptyFinal,
          ASRStreamEnds, Transcript, FinalFlush, ASRRelease, Flush, replyVars
<1>6. ASSUME NEW s \in Runs, Reply(s) \/ RunSpeak(s) \/ RunEndCall(s) PROVE Frame
  <2>1. UNCHANGED run \/ (Reply(s) /\ \E step \in RunSteps : Proceed(s, step))
        BY <1>6
        DEF Reply, RunStart, RunAsk, RunStreamed, RunWait, RunComplete,
            RunScheduleEnd, RunClear, RunSpeak, RunEndCall, UnlessCancelled, RunSteps
  <2>2. s # r /\ (\E step \in RunSteps : Proceed(s, step)) => run'[r] = run[r]
        BY <1>1 DEF Proceed
  <2> QED
      BY <2>1, <2>2
<1>7. Calls \/ Ending => Frame
      BY <1>2, <1>3
      DEF Calls, HintEnsureTurn, HintStartResponse, HintInterrupt, HintCancel,
          HTTPStartTurn, HTTPStartResponse, HTTPInterrupt, Ending, HTTPEnd,
          CloseThenEnd, FinishEnd, FinishClose, ConnectionLost, RtcClose, Flush,
          replyVars
<1>8. EndOfUtterance \/ Played \/ UNCHANGED vars => Frame
      BY <1>2, <1>3 DEF EndOfUtterance, Played, vars, replyVars
<1> HIDE DEF Frame
<1>9. Frame
      BY <1>4, <1>5, <1>6, <1>7, <1>8 DEF Next, Speaking
<1> QED
    BY <1>9 DEF Frame

\* The turn of a reply is fixed before the reply begins.
LEMMA TurnOfFrame ==
    ASSUME TypeInv, [Next]_vars, NEW r \in Runs
    PROVE  \/ turnOf'[r] = turnOf[r]
           \/ r = Opening /\ OpeningTurn
           \/ r \in Speech /\ ASRSnapshot(r)
<1> DEFINE Frame == \/ turnOf'[r] = turnOf[r]
                    \/ r = Opening /\ OpeningTurn
                    \/ r \in Speech /\ ASRSnapshot(r)
<1>1. turnOf \in [Runs -> 0 .. MaxTurn]
      BY DEF TypeInv, TypeOK, ReplyTypeOK
<1>2. UNCHANGED turnOf => Frame
      OBVIOUS
<1>3. Setup => Frame
  <2>1. CASE OpeningTurn
        BY <1>1, <2>1 DEF OpeningTurn
  <2> QED
      BY <1>2, <2>1
      DEF Setup, CreateSession, ChannelOpen, ControlReady, LateCandidate, TrackStart,
          TrackEnds, MaybeStartOpeningTurn, OpeningInstall, replyVars
<1>4. ASSUME NEW u \in Speech, Speaking(u) PROVE Frame
  <2>1. CASE ASRSnapshot(u)
        BY <1>1, <2>1 DEF ASRSnapshot
  <2> QED
      BY <1>2, <1>4, <2>1
      DEF Speaking, SpeechStart, Vad, VADSnapshot, VADInterrupt, VADCancel, VADFlush,
          VADEnsureTurn, ASRStart, ASRFinal, ASREmptyFinal, ASRStreamEnds, Transcript,
          FinalFlush, InstallRun, ASRRelease, Flush, replyVars
<1>5. ASSUME NEW s \in Runs, Reply(s) \/ RunSpeak(s) \/ RunEndCall(s) PROVE Frame
      BY <1>2, <1>5
      DEF Reply, RunStart, RunAsk, RunStreamed, RunWait, RunComplete, RunScheduleEnd,
          RunClear, RunSpeak, RunEndCall
<1>6. Calls \/ Ending => Frame
      BY <1>2
      DEF Calls, HintEnsureTurn, HintStartResponse, HintInterrupt, HintCancel,
          HTTPStartTurn, HTTPStartResponse, HTTPInterrupt, Ending, HTTPEnd,
          CloseThenEnd, FinishEnd, FinishClose, ConnectionLost, RtcClose, Flush,
          replyVars
<1>7. EndOfUtterance \/ Played \/ UNCHANGED vars => Frame
      BY <1>2 DEF EndOfUtterance, Played, vars, replyVars
<1> HIDE DEF Frame
<1>8. Frame
      BY <1>3, <1>4, <1>5, <1>6, <1>7 DEF Next, Speaking
<1> QED
    BY <1>8 DEF Frame

\* A stretch of speech is where its own goroutine puts it.
LEMMA SpeechFrame ==
    ASSUME TypeInv, [Next]_vars, NEW u \in Speech
    PROVE  \/ speech'[u] = speech[u] /\ cutOff'[u] = cutOff[u]
           \/ Speaking(u)
<1> DEFINE Frame == \/ speech'[u] = speech[u] /\ cutOff'[u] = cutOff[u]
                    \/ Speaking(u)
<1>1. speech \in [Speech -> SpeechSteps] /\ cutOff \in [Speech -> 0 .. MaxTurn]
      BY DEF TypeInv, TypeOK, SpeechTypeOK
<1>2. UNCHANGED speechVars => Frame
      BY DEF speechVars
<1>3. ASSUME NEW v \in Speech, Speaking(v) PROVE Frame
  <2>1. \E step \in SpeechSteps : Goto(v, step)
        BY <1>3
        DEF Speaking, SpeechStart, Vad, VADSnapshot, VADInterrupt, VADCancel, VADFlush,
            VADEnsureTurn, ASRSnapshot, ASRStart, ASRFinal, ASREmptyFinal,
            ASRStreamEnds, Transcript, FinalFlush, InstallRun, ASRRelease, Leave,
            SpeechSteps
  <2>2. UNCHANGED cutOff \/ VADInterrupt(v) \/ Leave(v)
        BY <1>3
        DEF Speaking, SpeechStart, Vad, VADSnapshot, VADCancel, VADFlush,
            VADEnsureTurn, ASRSnapshot, ASRStart, ASRFinal, ASREmptyFinal,
            ASRStreamEnds, Transcript, FinalFlush, InstallRun, ASRRelease
  <2>3. v # u => speech'[u] = speech[u]
        BY <1>1, <2>1 DEF Goto
  <2>4. v # u => cutOff'[u] = cutOff[u]
        BY <1>1, <2>2 DEF VADInterrupt, Leave
  <2> QED
      BY <1>3, <2>3, <2>4
<1>4. Setup => Frame
      BY <1>2
      DEF Setup, CreateSession, ChannelOpen, ControlReady, LateCandidate, TrackStart,
          TrackEnds, MaybeStartOpeningTurn, OpeningTurn, OpeningInstall
<1>5. ASSUME NEW s \in Runs, Reply(s) \/ RunSpeak(s) \/ RunEndCall(s) PROVE Frame
      BY <1>2, <1>5
      DEF Reply, RunStart, RunAsk, RunStreamed, RunWait, RunComplete, RunScheduleEnd,
          RunClear, RunSpeak, RunEndCall
<1>6. Calls \/ Ending => Frame
      BY <1>2
      DEF Calls, HintEnsureTurn, HintStartResponse, HintInterrupt, HintCancel,
          HTTPStartTurn, HTTPStartResponse, HTTPInterrupt, Ending, HTTPEnd,
          CloseThenEnd, FinishEnd, FinishClose, ConnectionLost
<1>7. EndOfUtterance \/ Played \/ UNCHANGED vars => Frame
      BY <1>2 DEF EndOfUtterance, Played, vars
<1> HIDE DEF Frame
<1>8. Frame
      BY <1>3, <1>4, <1>5, <1>6, <1>7 DEF Next, Speaking
<1> QED
    BY <1>8 DEF Frame
------------------------------------------------------------------------------
(* Replies. *)

\* A stretch of speech before its reply, which it installs last.
BeforeReply == {"idle", "vad", "interrupt", "cancel", "flush", "ensure", "attach",
                "start", "listen", "final", "install"}

\* A reply has not begun before its speech installs it, nor the greeting before
\* the opener does; and an entry that may still greet has not.
BeginInv ==
    /\ \A u \in Speech : speech[u] \in BeforeReply => run[u] = "none"
    /\ opener # "idle" => run[Opening] = "none"
    /\ Live /\ ~rtc.opening => opener = "idle" /\ run[Opening] = "none"

\* A turn that is being answered is not waiting for an answer.
ReplyInv ==
    /\ \A r \in Runs : turnOf[r] <= turn
    /\ \A r \in Runs : Answering(r) /\ turnOf[r] = turn => state # "processing"
    /\ OneReplyPerTurn

\* What every call of the task's methods respects.
LEMMA TaskFacts ==
    ASSUME TypeInv, [Next]_vars
    PROVE  /\ turn \in Nat /\ turn' \in Nat /\ turn <= turn'
           /\ turn' = turn /\ state' = "processing" => state = "processing"
           /\ turn' = turn /\ Task!InTurn' => Task!InTurn
           /\ state = "closed" => state' = "closed"
<1>1. [Task!Next]_(Task!taskVars)
      BY TaskStep DEF TypeInv
<1>2. turn \in Nat
      BY TurnInBound DEF TypeInv
<1>3. CASE \/ Task!BeginNegotiation \/ Task!MarkActive \/ Task!Interrupt \/ Task!End
           \/ \E t \in Task!Turns : Task!StartResponse(t) \/ Task!CompleteTurn(t)
      BY <1>2, <1>3
      DEF Task!BeginNegotiation, Task!MarkActive, Task!Interrupt, Task!End,
          Task!StartResponse, Task!CompleteTurn, Task!InTurn
<1>4. CASE Task!EnsureTurn \/ UNCHANGED Task!taskVars
      BY <1>2, <1>4
      DEF Task!EnsureTurn, Task!StartTurn, Task!ReuseTurn, Task!taskVars, Task!InTurn
<1> QED
    BY <1>1, <1>3, <1>4 DEF Task!Next

\* What the greeting's flag and its opener do together.
LEMMA GreetingFrame ==
    ASSUME TypeInv, [Next]_vars
    PROVE  \/ /\ opener' = opener
              /\ \/ rtc'.entry # "live"
                 \/ rtc'.entry = rtc.entry /\ rtc'.opening = rtc.opening
           \/ MaybeStartOpeningTurn \/ OpeningTurn \/ OpeningInstall
<1> DEFINE Quiet == /\ opener' = opener
                    /\ \/ rtc'.entry # "live"
                       \/ rtc'.entry = rtc.entry /\ rtc'.opening = rtc.opening
<1>1. rtc \in [entry : {"live", "gone", "empty"}, opening : BOOLEAN,
               ending : Runs \cup {NoRun}]
      BY DEF TypeInv, TypeOK, SetupTypeOK
<1>2. UNCHANGED setupVars => Quiet
      BY DEF setupVars
<1>3. RtcClose => Quiet
      BY DEF RtcClose, Entry
<1>4. EntryOnDemand /\ UNCHANGED opener => Quiet
  <2> SUFFICES ASSUME EntryOnDemand, UNCHANGED opener PROVE Quiet
      OBVIOUS
  <2>1. CASE rtc.entry = "gone"
    <3>1. rtc' = [entry |-> "empty", opening |-> FALSE, ending |-> NoRun]
          BY <2>1 DEF EntryOnDemand, Entry
    <3>2. rtc'.entry = "empty"
          BY <3>1
    <3> QED
        BY <3>2
  <2>2. CASE rtc.entry # "gone"
        BY <2>2 DEF EntryOnDemand
  <2> QED
      BY <2>1, <2>2
<1>5. Setup => Quiet \/ MaybeStartOpeningTurn \/ OpeningTurn \/ OpeningInstall
      BY <1>4
      DEF Setup, CreateSession, ChannelOpen, ControlReady, LateCandidate, TrackStart,
          TrackEnds
<1>6. ASSUME NEW u \in Speech, Speaking(u) PROVE Quiet
      BY <1>2, <1>6
      DEF Speaking, SpeechStart, Vad, VADSnapshot, VADInterrupt, VADCancel, VADFlush,
          VADEnsureTurn, ASRSnapshot, ASRStart, ASRFinal, ASREmptyFinal,
          ASRStreamEnds, Transcript, FinalFlush, InstallRun, ASRRelease
<1>7. ASSUME NEW r \in Runs, Reply(r) \/ RunSpeak(r) \/ RunEndCall(r) PROVE Quiet
  <2>1. RunScheduleEnd(r) => Quiet
    <3> SUFFICES ASSUME RunScheduleEnd(r) PROVE Quiet
        OBVIOUS
    <3>1. rtc' = rtc \/ rtc' = [rtc EXCEPT !.ending = r]
          BY DEF RunScheduleEnd
    <3>2. rtc'.entry = rtc.entry /\ rtc'.opening = rtc.opening
          BY <1>1, <3>1
    <3> QED
        BY <3>2 DEF RunScheduleEnd
  <2> QED
      BY <1>2, <1>7, <2>1
      DEF Reply, RunStart, RunAsk, RunStreamed, RunWait, RunComplete, RunClear,
          RunSpeak, RunEndCall
<1>8. Calls \/ Ending => Quiet
      BY <1>2, <1>3
      DEF Calls, HintEnsureTurn, HintStartResponse, HintInterrupt, HintCancel,
          HTTPStartTurn, HTTPStartResponse, HTTPInterrupt, Ending, HTTPEnd,
          CloseThenEnd, FinishEnd, FinishClose, ConnectionLost
<1>9. EndOfUtterance \/ Played \/ UNCHANGED vars => Quiet
      BY <1>2 DEF EndOfUtterance, Played, vars
<1> HIDE DEF Quiet
<1>10. Quiet \/ MaybeStartOpeningTurn \/ OpeningTurn \/ OpeningInstall
      BY <1>5, <1>6, <1>7, <1>8, <1>9 DEF Next, Speaking
<1> QED
    BY <1>10 DEF Quiet

\* A reply that has not begun begins only when it is installed.
LEMMA NotBegun ==
    ASSUME TypeInv, [Next]_vars, NEW r \in Runs, run[r] = "none"
    PROVE  \/ run'[r] = "none"
           \/ r = Opening /\ OpeningInstall
           \/ r \in Speech /\ InstallRun(r)
<1>1. ~Reply(r)
      BY DEF Reply, RunStart, RunAsk, RunStreamed, RunWait, RunComplete,
             RunScheduleEnd, RunClear
<1> QED
    BY <1>1, RunFrame

\* Every step keeps replies from beginning early or twice.
LEMMA BeginStep == TypeInv /\ BeginInv /\ [Next]_vars => BeginInv'
<1> SUFFICES ASSUME TypeInv, BeginInv, [Next]_vars PROVE BeginInv'
    OBVIOUS
<1>1. ASSUME NEW u \in Speech, speech'[u] \in BeforeReply PROVE run'[u] = "none"
  <2>1. speech \in [Speech -> SpeechSteps]
        BY DEF TypeInv, TypeOK, SpeechTypeOK
  <2>2. speech[u] \in BeforeReply /\ ~InstallRun(u)
    <3>1. Speaking(u) => speech[u] \in BeforeReply /\ ~InstallRun(u)
          BY <1>1, <2>1
          DEF Speaking, SpeechStart, Vad, VADSnapshot, VADInterrupt, VADCancel,
              VADFlush, VADEnsureTurn, ASRSnapshot, ASRStart, ASRFinal, ASREmptyFinal,
              ASRStreamEnds, Transcript, FinalFlush, InstallRun, ASRRelease, Leave,
              Goto, BeforeReply
    <3>2. InstallRun(u) => Speaking(u)
          BY DEF Speaking, Transcript
    <3> QED
        BY <1>1, <3>1, <3>2, SpeechFrame
  <2> QED
      BY <2>2, NotBegun, RunsFacts DEF BeginInv
<1>2. ASSUME opener' # "idle" PROVE run'[Opening] = "none"
  <2>1. ~OpeningInstall
        BY <1>2 DEF OpeningInstall
  <2>2. run[Opening] = "none"
        BY <1>2, <2>1, GreetingFrame
        DEF BeginInv, MaybeStartOpeningTurn, OpeningTurn
  <2> QED
      BY <2>1, <2>2, NotBegun, RunsFacts
<1>3. ASSUME Live', ~rtc'.opening PROVE opener' = "idle" /\ run'[Opening] = "none"
  <2>1. rtc \in [entry : {"live", "gone", "empty"}, opening : BOOLEAN,
                 ending : Runs \cup {NoRun}]
        BY DEF TypeInv, TypeOK, SetupTypeOK
  <2>2. CASE OpeningTurn
    <3>1. run[Opening] = "none" /\ run' = run
          BY <2>2 DEF OpeningTurn, BeginInv
    <3>2. opener' = "idle"
          BY <1>3, <2>1, <2>2 DEF OpeningTurn, BeginInv, Live
    <3> QED
        BY <3>1, <3>2
  <2>3. CASE OpeningInstall
        BY <1>3, <2>3 DEF OpeningInstall, BeginInv, Live
  <2>4. CASE MaybeStartOpeningTurn
    <3>1. rtc' = rtc \/ rtc' = [rtc EXCEPT !.opening = TRUE]
          BY <2>4 DEF MaybeStartOpeningTurn
    <3>2. rtc' = rtc
          BY <1>3, <2>1, <3>1
    <3>3. opener' = "start" => rtc' = [rtc EXCEPT !.opening = TRUE] \/ opener' = opener
          BY <2>4 DEF MaybeStartOpeningTurn
    <3>4. opener = "idle" /\ run[Opening] = "none"
          BY <1>3, <3>2 DEF BeginInv, Live
    <3>5. opener' = opener
          BY <1>3, <2>1, <2>4, <3>3, <3>4 DEF MaybeStartOpeningTurn
    <3> QED
        BY <2>4, <3>4, <3>5, NotBegun, RunsFacts DEF OpeningInstall
  <2>5. CASE /\ opener' = opener
             /\ rtc'.entry = rtc.entry /\ rtc'.opening = rtc.opening
    <3>1. opener = "idle" /\ run[Opening] = "none"
          BY <1>3, <2>5 DEF BeginInv, Live
    <3> QED
        BY <2>5, <3>1, NotBegun, RunsFacts DEF OpeningInstall
  <2> QED
      BY <1>3, <2>2, <2>3, <2>4, <2>5, GreetingFrame DEF Live
<1> QED
    BY <1>1, <1>2, <1>3 DEF BeginInv

\* A reply that answers did so before, or StartResponse has just admitted it;
\* and its turn is the one it began with.
LEMMA AnsweringStep ==
    ASSUME TypeInv, BeginInv, [Next]_vars, NEW r \in Runs, Answering(r)'
    PROVE  /\ turnOf'[r] = turnOf[r]
           /\ \/ Answering(r)
              \/ /\ Task!StartResponse(turnOf[r])
                 /\ \A s \in Runs \ {r} : run'[s] = run[s]
<1>1. run \in [Runs -> RunSteps]
      BY DEF TypeInv, TypeOK, ReplyTypeOK
<1>2. run[r] # "none"
      BY NotBegun DEF Answering, OpeningInstall, InstallRun, TypeInv, TypeOK, ReplyTypeOK
<1>3. turnOf'[r] = turnOf[r]
      BY <1>2, TurnOfFrame DEF OpeningTurn, ASRSnapshot, BeginInv, BeforeReply
<1>4. CASE run'[r] = run[r] \/ (run[r] = "drain" /\ run'[r] = "drained")
      BY <1>3, <1>4 DEF Answering
<1>5. CASE Reply(r)
  <2>1. CASE RunStart(r)
        BY <1>1, <2>1 DEF RunStart, Proceed, Answering
  <2>2. run[r] = "start" => RunStart(r)
        BY <1>5 DEF Reply, RunAsk, RunStreamed, RunWait, RunComplete,
                    RunScheduleEnd, RunClear
  <2>3. run[r] # "done"
        BY <1>5 DEF Reply, RunStart, RunAsk, RunStreamed, RunWait, RunComplete,
                    RunScheduleEnd, RunClear
  <2>4. CASE run[r] = "clear"
    <3>1. RunClear(r)
          BY <1>5, <2>4 DEF Reply, RunStart, RunAsk, RunStreamed, RunWait, RunComplete,
                            RunScheduleEnd
    <3> QED
        BY <1>1, <3>1 DEF RunClear, Proceed, Answering
  <2>5. CASE run[r] \notin {"start", "clear"}
        BY <1>1, <1>2, <1>3, <2>3, <2>5 DEF Answering, RunSteps
  <2> QED
      BY <1>3, <2>1, <2>2, <2>4, <2>5
<1>6. ~(r = Opening /\ OpeningInstall) /\ ~(r \in Speech /\ InstallRun(r))
      BY <1>1 DEF OpeningInstall, InstallRun, Answering
<1>7. run'[r] = run[r] \/ (run[r] = "drain" /\ run'[r] = "drained") \/ Reply(r)
      BY <1>6, RunFrame
<1> QED
    BY <1>4, <1>5, <1>7

\* Every step keeps to one reply for a turn.
LEMMA ReplyStep == TypeInv /\ BeginInv /\ ReplyInv /\ [Next]_vars => ReplyInv'
<1> SUFFICES ASSUME TypeInv, BeginInv, ReplyInv, [Next]_vars PROVE ReplyInv'
    OBVIOUS
<1>1. turnOf \in [Runs -> 0 .. MaxTurn] /\ turnOf' \in [Runs -> 0 .. MaxTurn]
      BY TypeStep DEF TypeInv, TypeOK, ReplyTypeOK
<1>2. ASSUME NEW r \in Runs PROVE turnOf'[r] <= turn'
  <2>1. turnOf[r] \in Nat /\ turnOf[r] <= turn /\ turn \in Nat /\ turn' \in Nat /\ turn <= turn'
        BY <1>1, MaxTurnNat, TaskFacts DEF ReplyInv
  <2>2. CASE r = Opening /\ OpeningTurn
        BY <1>1, <2>1, <2>2 DEF OpeningTurn, Task!StartTurn
  <2>3. CASE r \in Speech /\ ASRSnapshot(r)
        BY <1>1, <2>1, <2>3 DEF ASRSnapshot
  <2>4. CASE turnOf'[r] = turnOf[r]
        BY <2>1, <2>4
  <2> QED
      BY <2>2, <2>3, <2>4, TurnOfFrame
<1>3. ASSUME NEW r \in Runs, Answering(r)', turnOf'[r] = turn'
      PROVE  state' # "processing"
  <2>1. CASE Task!StartResponse(turnOf[r])
        BY <2>1 DEF Task!StartResponse
  <2>2. CASE Answering(r)
    <3>1. turnOf[r] <= turn /\ turnOf[r] = turn' /\ turn <= turn' /\ turn \in Nat /\ turn' \in Nat
          BY <1>3, AnsweringStep, TaskFacts DEF ReplyInv
    <3>2. turn' = turn
          BY <3>1
    <3> QED
        BY <2>2, <3>1, <3>2, TaskFacts DEF ReplyInv
  <2> QED
      BY <1>3, <2>1, <2>2, AnsweringStep
<1>4. ASSUME NEW r \in Runs, NEW s \in Runs, Answering(r)', Answering(s)',
             turnOf'[r] = turnOf'[s], r # s
      PROVE  FALSE
  <2>1. turnOf[r] = turnOf[s]
        BY <1>4, AnsweringStep
  <2>2. ASSUME NEW q \in Runs, NEW p \in Runs, p # q, Task!StartResponse(turnOf[q]),
               \A o \in Runs \ {q} : run'[o] = run[o],
               Answering(p)', turnOf[p] = turnOf[q]
        PROVE  FALSE
    <3>1. Answering(p)
          BY <2>2 DEF Answering
    <3> QED
        BY <2>2, <3>1 DEF ReplyInv, Task!StartResponse
  <2>3. Answering(r) /\ Answering(s)
        BY <1>4, <2>1, <2>2, AnsweringStep
  <2> QED
      BY <1>4, <2>1, <2>3 DEF ReplyInv, OneReplyPerTurn
<1> QED
    BY <1>2, <1>3, <1>4 DEF ReplyInv, OneReplyPerTurn, Answering

\* Nothing is answered, and nothing has begun, in a new session.
LEMMA ReplyInit == Init => BeginInv /\ ReplyInv
  BY RunsFacts
  DEF Init, Task!NewTask, Entry, Live, BeginInv, ReplyInv, OneReplyPerTurn, Answering

\* However many stretches of speech share a turn, and whatever cancels and
\* restarts replies, at most one reply answers a turn.
THEOREM RuntimeOneReplyPerTurn == Spec => []OneReplyPerTurn
<1>1. Spec => [](TypeInv /\ BeginInv /\ ReplyInv)
      BY TypeInit, TypeStep, ReplyInit, BeginStep, ReplyStep, PTL DEF Spec
<1>2. ReplyInv => OneReplyPerTurn
      BY DEF ReplyInv
<1> QED
    BY <1>1, <1>2, PTL

\* The greeting's turn is begun at most once, although the channel and the track
\* both trigger it and a failed start clears its flag.
THEOREM RuntimeGreetingOnce == Spec => GreetingOnce
<1>1. Spec => [](TypeInv /\ BeginInv)
      BY TypeInit, TypeStep, ReplyInit, BeginStep, PTL DEF Spec
<1>2. ASSUME TypeInv, BeginInv, [Next]_vars, opener' = "install", opener # "install"
      PROVE  run[Opening] = "none"
      BY <1>2, GreetingFrame
      DEF MaybeStartOpeningTurn, OpeningTurn, OpeningInstall, BeginInv
<1>3. TypeInv /\ BeginInv /\ [Next]_vars
          => [opener' = "install" /\ opener # "install" => run[Opening] = "none"]_vars
      BY <1>2
<1> QED
    BY <1>1, <1>3, PTL DEF Spec, GreetingOnce
------------------------------------------------------------------------------
(* Barging in. *)

\* What becomes of the turn that u interrupted: it is never in progress again,
\* so the turn that u ensures afterwards is a later one.
BargeInvOf(u) ==
    /\ cutOff[u] <= turn
    /\ cutOff[u] # 0 /\ cutOff[u] = turn => ~Task!InTurn
    /\ speech[u] \in {"idle", "vad", "interrupt"} => cutOff[u] = 0
    /\ speech[u] = "attach" /\ cutOff[u] # 0 => turn > cutOff[u] \/ state = "closed"
    /\ speech[u] \in {"start", "listen", "final", "install"} /\ cutOff[u] # 0
          => turnOf[u] > cutOff[u]

BargeInv == \A u \in Speech : BargeInvOf(u)

\* A task that is in none of its working states, and has had a turn, is closed.
LEMMA IdleIsClosed ==
    ASSUME TaskInv, turn # 0, state \notin {"active", "processing", "responding"}
    PROVE  state = "closed"
  BY DEF TaskInv, Task!TypeOK, Task!States

\* The steps of the stretch of speech itself.
LEMMA OwnBargeStep ==
    ASSUME TypeInv, BargeInv, [Next]_vars, NEW u \in Speech, Speaking(u)
    PROVE  BargeInvOf(u)'
<1>1. /\ speech \in [Speech -> SpeechSteps]
      /\ cutOff \in [Speech -> 0 .. MaxTurn]
      /\ turnOf \in [Runs -> 0 .. MaxTurn]
      BY DEF TypeInv, TypeOK, SpeechTypeOK, ReplyTypeOK
<1>2. BargeInvOf(u) /\ u \in Runs /\ cutOff[u] \in Nat /\ turnOf[u] \in Nat
      BY <1>1, MaxTurnNat, RunsFacts DEF BargeInv
<1>3. /\ turn \in Nat /\ turn' \in Nat /\ turn <= turn'
      /\ turn' = turn /\ Task!InTurn' => Task!InTurn
      BY TaskFacts
<1>4. /\ cutOff'[u] = cutOff[u] => cutOff'[u] <= turn'
      /\ cutOff'[u] = cutOff[u] /\ cutOff'[u] # 0 /\ cutOff'[u] = turn' => ~Task!InTurn'
      BY <1>2, <1>3 DEF BargeInvOf
<1>5. CASE SpeechStart(u) \/ VADSnapshot(u) \/ VADCancel(u) \/ VADFlush(u)
  <2>1. cutOff'[u] = cutOff[u]
        BY <1>5 DEF SpeechStart, VADSnapshot, VADCancel, VADFlush
  <2>2. /\ speech'[u] \in {"vad", "done", "interrupt", "ensure", "flush"}
        /\ speech'[u] \in {"vad", "interrupt"} => speech[u] \in {"idle", "vad"}
        BY <1>1, <1>5 DEF SpeechStart, VADSnapshot, VADCancel, VADFlush, Goto
  <2> QED
      BY <1>2, <1>4, <2>1, <2>2 DEF BargeInvOf
<1>6. CASE VADInterrupt(u)
  <2>1. CASE Task!Interrupt /\ cutOff' = [cutOff EXCEPT ![u] = turn] /\ Goto(u, "cancel")
    <3>1. cutOff'[u] = turn /\ turn' = turn /\ ~Task!InTurn'
          BY <1>1, <2>1 DEF Task!Interrupt, Task!InTurn
    <3>2. speech'[u] = "cancel"
          BY <1>1, <2>1 DEF Goto
    <3> QED
        BY <1>3, <3>1, <3>2 DEF BargeInvOf
  <2>2. CASE Goto(u, "attach") /\ UNCHANGED <<taskVars, cutOff>>
    <3>1. cutOff[u] = 0 /\ cutOff'[u] = 0
          BY <1>2, <1>6, <2>2 DEF VADInterrupt, BargeInvOf
    <3>2. speech'[u] = "attach"
          BY <1>1, <2>2 DEF Goto
    <3> QED
        BY <1>4, <3>1, <3>2 DEF BargeInvOf
  <2> QED
      BY <1>6, <2>1, <2>2 DEF VADInterrupt
<1>7. CASE VADEnsureTurn(u)
  <2>1. cutOff'[u] = cutOff[u] /\ speech'[u] = "attach"
        BY <1>1, <1>7 DEF VADEnsureTurn, Goto
  <2>2. CASE Task!StartTurn
        BY <1>2, <1>3, <1>4, <2>1, <2>2 DEF Task!StartTurn, BargeInvOf
  <2>3. CASE Task!ReuseTurn
        BY <1>2, <1>3, <1>4, <2>1, <2>3 DEF Task!ReuseTurn, Task!taskVars, BargeInvOf
  <2>4. CASE state \notin {"active", "processing", "responding"} /\ UNCHANGED taskVars
    <3>1. cutOff[u] # 0 => state' = "closed"
          BY <1>2, <1>3, <2>4, IdleIsClosed DEF BargeInvOf, TypeInv, taskVars
    <3> QED
        BY <1>4, <2>1, <3>1 DEF BargeInvOf
  <2> QED
      BY <1>7, <2>2, <2>3, <2>4 DEF VADEnsureTurn, Task!EnsureTurn
<1>8. CASE ASRSnapshot(u)
  <2>1. CASE Leave(u)
    <3>1. cutOff'[u] = 0 /\ speech'[u] = "done"
          BY <1>1, <2>1 DEF Leave, Goto
    <3> QED
        BY <1>3, <3>1 DEF BargeInvOf
  <2>2. CASE /\ Registered /\ Goto(u, "start") /\ UNCHANGED cutOff
             /\ turnOf' = [turnOf EXCEPT ![u] = turn]
    <3>1. speech'[u] = "start" /\ turnOf'[u] = turn /\ cutOff'[u] = cutOff[u]
          BY <1>1, <1>2, <2>2 DEF Goto
    <3>2. cutOff[u] # 0 => turn > cutOff[u]
          BY <1>2, <1>8, <2>2 DEF ASRSnapshot, Registered, BargeInvOf
    <3> QED
        BY <1>4, <3>1, <3>2 DEF BargeInvOf
  <2> QED
      BY <1>8, <2>1, <2>2 DEF ASRSnapshot
<1>9. CASE ASRStart(u) \/ ASRFinal(u) \/ ASREmptyFinal(u) \/ ASRStreamEnds(u) \/ Transcript(u)
  <2>1. turnOf' = turnOf
        BY <1>9
        DEF ASRStart, ASRFinal, ASREmptyFinal, ASRStreamEnds, Transcript, FinalFlush,
            InstallRun, ASRRelease, Flush, replyVars
  <2>2. CASE Leave(u)
    <3>1. cutOff'[u] = 0 /\ speech'[u] = "done"
          BY <1>1, <2>2 DEF Leave, Goto
    <3> QED
        BY <1>3, <3>1 DEF BargeInvOf
  <2>3. CASE /\ UNCHANGED cutOff
             /\ \/ speech[u] = "start" /\ Goto(u, "listen")
                \/ speech[u] = "listen" /\ Goto(u, "final")
                \/ speech[u] = "final" /\ Goto(u, "install")
                \/ Goto(u, "finalized") \/ Goto(u, "drained")
    <3>1. cutOff'[u] = cutOff[u]
          BY <2>3
    <3>2. \/ speech'[u] \in {"finalized", "drained"}
          \/ /\ speech'[u] \in {"listen", "final", "install"}
             /\ speech[u] \in {"start", "listen", "final"}
          BY <1>1, <2>3 DEF Goto
    <3> QED
        BY <1>2, <1>4, <2>1, <3>1, <3>2 DEF BargeInvOf
  <2> QED
      BY <1>9, <2>2, <2>3
      DEF ASRStart, ASRFinal, ASREmptyFinal, ASRStreamEnds, Transcript, FinalFlush,
          InstallRun, ASRRelease
<1> QED
    BY <1>5, <1>6, <1>7, <1>8, <1>9 DEF Speaking, Vad

\* Every step keeps the invariant of every stretch of speech.
LEMMA BargeStep == TypeInv /\ BargeInv /\ [Next]_vars => BargeInv'
<1> SUFFICES ASSUME TypeInv, BargeInv, [Next]_vars, NEW u \in Speech
             PROVE  BargeInvOf(u)'
    BY DEF BargeInv
<1>1. CASE Speaking(u)
      BY <1>1, OwnBargeStep
<1>2. CASE ~Speaking(u)
  <2>1. speech'[u] = speech[u] /\ cutOff'[u] = cutOff[u]
        BY <1>2, SpeechFrame
  <2>2. turnOf'[u] = turnOf[u]
        BY <1>2, TurnOfFrame, RunsFacts DEF Speaking, Vad
  <2>3. cutOff[u] \in Nat /\ BargeInvOf(u)
        BY MaxTurnNat DEF TypeInv, TypeOK, SpeechTypeOK, BargeInv
  <2> QED
      BY <2>1, <2>2, <2>3, TaskFacts DEF BargeInvOf
<1> QED
    BY <1>1, <1>2

\* Speech that interrupted a turn is transcribed for a later one, for any number
\* of other stretches of speech, calls and hints in between.
THEOREM RuntimeBargeInGetsLaterTurn == Spec => []BargeInGetsLaterTurn
<1>1. Init => BargeInv
      BY RunsFacts DEF Init, Task!NewTask, BargeInv, BargeInvOf
<1>2. Spec => [](TypeInv /\ BargeInv)
      BY <1>1, TypeInit, TypeStep, BargeStep, PTL DEF Spec
<1>3. BargeInv => BargeInGetsLaterTurn
      BY DEF BargeInv, BargeInvOf, BargeInGetsLaterTurn
<1> QED
    BY <1>2, <1>3, PTL
------------------------------------------------------------------------------
(* The cancel handle, and the ASR input. *)

\* Whoever is cancelled has begun and has not returned.
CancelInv == HandleIsLive /\ \A r \in cancelled : run[r] \notin {"none", "done"}

\* Who touches the handle: cancelCurrent, a new reply, and clear.
LEMMA HandleFrame ==
    ASSUME [Next]_vars
    PROVE  \/ UNCHANGED <<cancelled, handle, handleTurn>>
           \/ CancelHandle
           \/ OpeningInstall
           \/ \E u \in Speech : InstallRun(u)
           \/ \E r \in Runs : RunClear(r)
<1> DEFINE Frame == \/ UNCHANGED <<cancelled, handle, handleTurn>>
                    \/ CancelHandle
                    \/ OpeningInstall
                    \/ \E u \in Speech : InstallRun(u)
                    \/ \E r \in Runs : RunClear(r)
<1>1. UNCHANGED <<cancelled, handle, handleTurn>> \/ CancelHandle => Frame
      OBVIOUS
<1>2. Setup => Frame
      BY DEF Setup, CreateSession, ChannelOpen, ControlReady, LateCandidate, TrackStart,
             TrackEnds, MaybeStartOpeningTurn, OpeningTurn, replyVars
<1>3. ASSUME NEW u \in Speech, Speaking(u) PROVE Frame
      BY <1>3
      DEF Speaking, SpeechStart, Vad, VADSnapshot, VADInterrupt, VADCancel, VADFlush,
          VADEnsureTurn, ASRSnapshot, ASRStart, ASRFinal, ASREmptyFinal,
          ASRStreamEnds, Transcript, FinalFlush, ASRRelease, Flush, replyVars
<1>4. ASSUME NEW r \in Runs, Reply(r) \/ RunSpeak(r) \/ RunEndCall(r) PROVE Frame
      BY <1>4
      DEF Reply, RunStart, RunAsk, RunStreamed, RunWait, RunComplete, RunScheduleEnd,
          RunSpeak, RunEndCall
<1> HIDE DEF Frame
<1>5. Calls \/ Ending => Frame
      BY <1>1
      DEF Calls, HintEnsureTurn, HintStartResponse, HintInterrupt, HintCancel,
          HTTPStartTurn, HTTPStartResponse, HTTPInterrupt, Ending, HTTPEnd,
          CloseThenEnd, FinishEnd, FinishClose, ConnectionLost, RtcClose, Flush,
          replyVars
<1>6. EndOfUtterance \/ Played \/ UNCHANGED vars => Frame
      BY <1>1 DEF EndOfUtterance, Played, vars, replyVars
<1>7. Frame
      BY <1>2, <1>3, <1>4, <1>5, <1>6 DEF Next, Speaking
<1> QED
    BY <1>7 DEF Frame

\* A reply under way stays so, on its turn, until it clears itself.
LEMMA UnderWayStep ==
    ASSUME TypeInv, BeginInv, [Next]_vars, NEW r \in Runs,
           run[r] \notin {"none", "done"}, ~RunClear(r)
    PROVE  run'[r] \notin {"none", "done"} /\ turnOf'[r] = turnOf[r]
<1>1. run \in [Runs -> RunSteps]
      BY DEF TypeInv, TypeOK, ReplyTypeOK
<1>2. turnOf'[r] = turnOf[r]
      BY TurnOfFrame DEF OpeningTurn, ASRSnapshot, BeginInv, BeforeReply
<1>3. Reply(r) => run'[r] \notin {"none", "done"}
      BY <1>1
      DEF Reply, RunStart, RunAsk, RunStreamed, RunWait, RunComplete, RunScheduleEnd,
          UnlessCancelled, Proceed
<1>4. OpeningInstall \/ InstallRun(r) => run'[r] \notin {"none", "done"}
      BY <1>1 DEF OpeningInstall, InstallRun
<1> QED
    BY <1>2, <1>3, <1>4, RunFrame

\* Every step keeps the handle live.
LEMMA CancelStep == TypeInv /\ BeginInv /\ CancelInv /\ [Next]_vars => CancelInv'
<1> SUFFICES ASSUME TypeInv, BeginInv, CancelInv, [Next]_vars PROVE CancelInv'
    OBVIOUS
<1>1. /\ run \in [Runs -> RunSteps] /\ cancelled \subseteq Runs
      /\ handle \in Runs \cup {NoRun}
      BY DEF TypeInv, TypeOK, ReplyTypeOK
<1>2. CASE \E r \in Runs : RunClear(r)
  <2> PICK r \in Runs : RunClear(r)
      BY <1>2
  <2>1. /\ run' = [run EXCEPT ![r] = "done"]
        /\ turnOf' = turnOf
        /\ cancelled' = cancelled \ {r}
        BY DEF RunClear, Proceed
  <2>2. handle' # NoRun => handle' = handle /\ handleTurn' = handleTurn /\ handle # r
        BY RunsFacts DEF RunClear, CancelInv, HandleIsLive
  <2> QED
      BY <1>1, <2>1, <2>2 DEF CancelInv, HandleIsLive
<1>3. ASSUME \A r \in Runs : ~RunClear(r) PROVE CancelInv'
  <2>1. \A r \in Runs : run[r] \notin {"none", "done"} =>
            run'[r] \notin {"none", "done"} /\ turnOf'[r] = turnOf[r]
        BY <1>3, UnderWayStep
  <2>2. CASE UNCHANGED <<cancelled, handle, handleTurn>>
        BY <1>1, <2>1, <2>2 DEF CancelInv, HandleIsLive
  <2>3. CASE CancelHandle
        BY <1>1, <2>1, <2>3 DEF CancelHandle, CancelInv, HandleIsLive
  <2>4. ASSUME NEW r \in Runs, run[r] = "none", run'[r] = "start", handle' = r,
               handleTurn' = turnOf[r], UNCHANGED <<turnOf, cancelled>>
        PROVE  CancelInv'
    <3>1. r \notin cancelled'
          BY <2>4 DEF CancelInv
    <3>2. \A s \in cancelled' : run'[s] \notin {"none", "done"}
          BY <1>1, <2>1, <2>4 DEF CancelInv
    <3> QED
        BY <2>4, <3>1, <3>2 DEF CancelInv, HandleIsLive
  <2>5. CASE OpeningInstall
        BY <1>1, <2>4, <2>5, RunsFacts DEF OpeningInstall, BeginInv
  <2>6. ASSUME NEW u \in Speech, InstallRun(u) PROVE CancelInv'
        BY <1>1, <2>4, <2>6, RunsFacts DEF InstallRun, BeginInv, BeforeReply
  <2> QED
      BY <1>3, <2>2, <2>3, <2>5, <2>6, HandleFrame
<1> QED
    BY <1>2, <1>3

\* The cancel handle belongs to a reply that has not returned and is not yet
\* cancelled, filed under that reply's turn, for any number of replies.
THEOREM RuntimeHandleIsLive == Spec => []HandleIsLive
<1>1. Init => CancelInv
      BY DEF Init, CancelInv, HandleIsLive
<1>2. Spec => [](TypeInv /\ BeginInv /\ CancelInv)
      BY <1>1, TypeInit, TypeStep, ReplyInit, BeginStep, CancelStep, PTL DEF Spec
<1>3. CancelInv => HandleIsLive
      BY DEF CancelInv
<1> QED
    BY <1>2, <1>3, PTL

\* The input gets a stream only when the stream's forwarder begins.
LEMMA InputFrame ==
    ASSUME [Next]_vars
    PROVE  input' \in {input, NoRun} \/ \E u \in Speech : ASRStart(u)
<1> DEFINE Frame == input' \in {input, NoRun} \/ \E u \in Speech : ASRStart(u)
<1>1. Setup => Frame
      BY DEF Setup, CreateSession, ChannelOpen, ControlReady, LateCandidate, TrackStart,
             TrackEnds, MaybeStartOpeningTurn, OpeningTurn, OpeningInstall
<1>2. ASSUME NEW u \in Speech, Speaking(u) PROVE Frame
      BY <1>2
      DEF Speaking, SpeechStart, Vad, VADSnapshot, VADInterrupt, VADCancel, VADFlush,
          VADEnsureTurn, ASRSnapshot, ASRFinal, ASREmptyFinal, ASRStreamEnds,
          Transcript, FinalFlush, InstallRun, ASRRelease
<1>3. ASSUME NEW r \in Runs, Reply(r) \/ RunSpeak(r) \/ RunEndCall(r) PROVE Frame
      BY <1>3
      DEF Reply, RunStart, RunAsk, RunStreamed, RunWait, RunComplete, RunScheduleEnd,
          RunClear, RunSpeak, RunEndCall
<1>4. Calls \/ Ending => Frame
      BY DEF Calls, HintEnsureTurn, HintStartResponse, HintInterrupt, HintCancel,
             HTTPStartTurn, HTTPStartResponse, HTTPInterrupt, Ending, HTTPEnd,
             CloseThenEnd, FinishEnd, FinishClose, ConnectionLost, RtcClose
<1>5. EndOfUtterance \/ Played \/ UNCHANGED vars => Frame
      BY DEF EndOfUtterance, Played, vars
<1> HIDE DEF Frame
<1>6. Frame
      BY <1>1, <1>2, <1>3, <1>4, <1>5 DEF Next, Speaking
<1> QED
    BY <1>6 DEF Frame

\* Every step keeps the input on a stream that is still read.
LEMMA InputStep == TypeInv /\ InputIsLive /\ [Next]_vars => InputIsLive'
<1> SUFFICES ASSUME TypeInv, InputIsLive, [Next]_vars, input' # NoRun
             PROVE  speech'[input'] \in {"listen", "final", "install", "finalized",
                                        "drained"}
    BY DEF InputIsLive
<1>1. speech \in [Speech -> SpeechSteps] /\ input \in Speech \cup {NoRun}
      BY DEF TypeInv, TypeOK, SpeechTypeOK
<1>2. ASSUME NEW u \in Speech, ASRStart(u), input' # input
      PROVE  speech'[input'] = "listen"
      BY <1>1, <1>2 DEF ASRStart, Goto
<1>3. CASE input' = input
  <2>1. /\ input \in Speech
        /\ speech[input] \in {"listen", "final", "install", "finalized", "drained"}
        BY <1>1, <1>3 DEF InputIsLive
  <2>2. CASE Speaking(input)
        BY <1>1, <1>3, <2>1, <2>2
        DEF Speaking, SpeechStart, Vad, VADSnapshot, VADInterrupt, VADCancel, VADFlush,
            VADEnsureTurn, ASRSnapshot, ASRStart, ASRFinal, ASREmptyFinal,
            ASRStreamEnds, Transcript, FinalFlush, InstallRun, ASRRelease, Goto
  <2> QED
      BY <1>3, <2>1, <2>2, SpeechFrame
<1> QED
    BY <1>2, <1>3, InputFrame

\* The user's audio never goes to a stream whose forwarder has returned.
THEOREM RuntimeInputIsLive == Spec => []InputIsLive
<1>1. Init => InputIsLive
      BY DEF Init, InputIsLive
<1> QED
    BY <1>1, TypeInit, TypeStep, InputStep, PTL DEF Spec
==============================================================================

----------------------------- MODULE ControlChannel -----------------------------
(***************************************************************************)
(* How controlRuntime gets the events of one session to its client: the    *)
(* registered DataChannel, the events that wait for one, and the callbacks *)
(* OnOpen, OnClose and OnMessage of every channel with the label control   *)
(* that the client opens.                                                  *)
(*                                                                         *)
(* A step is one section of the runtime's mutex or one SendText.  Whoever  *)
(* calls emit (replies, forwarders of transcripts, callbacks of the        *)
(* endpointer, ScheduleEnd) is an emitter; an event is its sender and      *)
(* number.  The answers to a hint, and to a message that is invalid, go    *)
(* straight to the channel that the message came on: their sender is that  *)
(* channel.  The library opens and closes channels and runs each callback  *)
(* in a goroutine of its own, so that OnClose may overtake OnOpen.         *)
(***************************************************************************)
EXTENDS Naturals, Sequences, FiniteSets, SequencesExt

CONSTANTS Channels, NoChannel,
          Emitters,
          Greeter,     \* the emitter that greets
          Capacity,    \* maxPendingControlEvents
          MaxEvents,   \* bounds on what an emitter emits,
          MaxGreeting, \* the greeter emits,
          MaxAnswers   \* and a channel answers

ASSUME ChannelsAssumption == NoChannel \notin Channels /\ Channels \cap Emitters = {}
                             /\ Greeter \in Emitters /\ "session.ready" \notin Channels \cup Emitters
ASSUME SizesAssumption == Capacity \in Nat \ {0}
                          /\ MaxEvents \in Nat /\ MaxGreeting \in Nat /\ MaxAnswers \in Nat

VARIABLES
    registered,    \* channels[sessionID], or NoChannel
    pending,       \* pending[sessionID]
    state,         \* state[c]: of the DataChannel
    opener,        \* opener[c]: where its OnOpen is
    batch,         \* batch[c]: the pending events that OnOpen has still to send
    closer,        \* closer[c]: where its OnClose is
    emitting,      \* emitting[g]: the channel that g's emit is about to send on
    emitted,       \* emitted[s]: how many events sender s has made
    ended,         \* whether the manager has forgotten the session
    controlReady,  \* whether the ready handler has been called
    wire,          \* wire[c]: what SendText took
    lost,          \* events that SendText refused
    evicted,       \* events that made room in pending
    taken,         \* history: taken[c], the pending events that OnOpen took
    last,          \* history: the channel published last
    closedFirst    \* history: channels whose OnClose ran before OnOpen published them

callbackVars == <<opener, batch, closer>>
emitVars     == <<emitting, emitted, evicted>>
wireVars     == <<wire, lost>>
historyVars  == <<taken, last, closedFirst>>
vars == <<registered, pending, state, callbackVars, emitVars, ended, controlReady, wireVars,
          historyVars>>

Ready   == <<"session.ready", 0>>
Senders == Emitters \cup Channels
Bound(s) == IF s \in Channels THEN MaxAnswers ELSE IF s = Greeter THEN MaxGreeting ELSE MaxEvents
Events  == UNION {{s} \X (1 .. Bound(s)) : s \in Senders}

TypeOK ==
    /\ registered \in Channels \cup {NoChannel} /\ last \in Channels \cup {NoChannel}
    /\ pending \in Seq(Events) /\ Len(pending) <= Capacity
    /\ state \in [Channels -> {"connecting", "open", "closed"}]
    /\ opener \in [Channels -> {"none", "started", "ready", "flush", "done", "refused"}]
    /\ batch \in [Channels -> Seq(Events)]
    /\ closer \in [Channels -> {"none", "started", "done"}]
    /\ emitting \in [Emitters -> Channels \cup {NoChannel}]
    /\ emitted \in [Senders -> Nat]
    /\ ended \in BOOLEAN /\ controlReady \in BOOLEAN
    /\ wire \in [Channels -> Seq(Events \cup {Ready})]
    /\ lost \subseteq Events /\ evicted \subseteq Events
    /\ taken \in [Channels -> SUBSET Events]
    /\ closedFirst \subseteq Channels

\* newControlRuntime, in a session that the manager knows.
Init ==
    /\ registered = NoChannel /\ pending = <<>>
    /\ state = [c \in Channels |-> "connecting"]
    /\ opener = [c \in Channels |-> "none"] /\ closer = [c \in Channels |-> "none"]
    /\ batch = [c \in Channels |-> <<>>]
    /\ emitting = [g \in Emitters |-> NoChannel]
    /\ emitted = [s \in Senders |-> 0]
    /\ ended = FALSE /\ controlReady = FALSE
    /\ wire = [c \in Channels |-> <<>>]
    /\ lost = {} /\ evicted = {}
    /\ taken = [c \in Channels |-> {}] /\ last = NoChannel /\ closedFirst = {}
-----------------------------------------------------------------------------
(* send: SendText takes the event while the channel is open. *)

Send(c, event) ==
    IF state[c] = "open"
    THEN wire' = [wire EXCEPT ![c] = Append(@, event)] /\ UNCHANGED lost
    ELSE lost' = lost \cup ({event} \ {Ready}) /\ UNCHANGED wire
-----------------------------------------------------------------------------
(* The library and the session. *)

Opens(c) ==
    /\ state[c] = "connecting"
    /\ state' = [state EXCEPT ![c] = "open"]
    /\ opener' = [opener EXCEPT ![c] = "started"]
    /\ UNCHANGED <<registered, pending, batch, closer, emitVars, ended, controlReady, wireVars,
                   historyVars>>

Closes(c) ==
    /\ state[c] = "open"
    /\ state' = [state EXCEPT ![c] = "closed"]
    /\ closer' = [closer EXCEPT ![c] = "started"]
    /\ UNCHANGED <<registered, pending, opener, batch, emitVars, ended, controlReady, wireVars,
                   historyVars>>

EndSession ==
    /\ ~ended
    /\ ended' = TRUE
    /\ UNCHANGED <<registered, pending, state, callbackVars, emitVars, controlReady, wireVars,
                   historyVars>>
-----------------------------------------------------------------------------
(* OnOpen *)

\* The session is gone: the channel is told so and not registered.
Refuse(c) ==
    /\ opener[c] = "started" /\ ended
    /\ opener' = [opener EXCEPT ![c] = "refused"]
    /\ UNCHANGED <<registered, pending, state, batch, closer, emitVars, ended, controlReady,
                   wireVars, historyVars>>

\* What every way to publish a channel does.
Register(c) ==
    /\ opener[c] = "started" /\ ~ended
    /\ registered' = c
    /\ batch' = [batch EXCEPT ![c] = pending]
    /\ taken' = [taken EXCEPT ![c] = ToSet(pending)]
    /\ last' = c
    /\ closedFirst' = IF closer[c] = "done" THEN closedFirst \cup {c} ELSE closedFirst
    /\ UNCHANGED <<state, closer, emitVars, ended, wireVars>>

\* Mutants stand before the definition they replace.  This one leaves the pending
\* events in place.
PublishKeepsPending(c) ==
    /\ Register(c)
    /\ opener' = [opener EXCEPT ![c] = "ready"]
    /\ UNCHANGED <<pending, controlReady>>

\* Mutant: calls the ready handler before it sends session.ready.
PublishAndGreet(c) ==
    /\ Register(c)
    /\ pending' = <<>>
    /\ opener' = [opener EXCEPT ![c] = "ready"]
    /\ controlReady' = TRUE

\* MarkActive and the section that publishes the channel.
Publish(c) ==
    /\ Register(c)
    /\ pending' = <<>>
    /\ opener' = [opener EXCEPT ![c] = "ready"]
    /\ UNCHANGED controlReady

SendReady(c) ==
    /\ opener[c] = "ready"
    /\ Send(c, Ready)
    /\ opener' = [opener EXCEPT ![c] = "flush"]
    /\ UNCHANGED <<registered, pending, state, batch, closer, emitVars, ended, controlReady,
                   historyVars>>

\* Mutant: sends the newest of the pending events first.
FlushNewest(c) ==
    /\ opener[c] = "flush" /\ batch[c] # <<>>
    /\ Send(c, Last(batch[c]))
    /\ batch' = [batch EXCEPT ![c] = Front(@)]
    /\ UNCHANGED <<registered, pending, state, opener, closer, emitVars, ended, controlReady,
                   historyVars>>

Flush(c) ==
    /\ opener[c] = "flush" /\ batch[c] # <<>>
    /\ Send(c, Head(batch[c]))
    /\ batch' = [batch EXCEPT ![c] = Tail(@)]
    /\ UNCHANGED <<registered, pending, state, opener, closer, emitVars, ended, controlReady,
                   historyVars>>

CallReadyHandler(c) ==
    /\ opener[c] = "flush" /\ batch[c] = <<>>
    /\ controlReady' = TRUE
    /\ opener' = [opener EXCEPT ![c] = "done"]
    /\ UNCHANGED <<registered, pending, state, batch, closer, emitVars, ended, wireVars,
                   historyVars>>

OnOpen(c) == Refuse(c) \/ Publish(c) \/ SendReady(c) \/ Flush(c) \/ CallReadyHandler(c)
-----------------------------------------------------------------------------
(* OnClose *)

\* Mutant: drops whatever channel is registered.
OnCloseDropsAny(c) ==
    /\ closer[c] = "started"
    /\ closer' = [closer EXCEPT ![c] = "done"]
    /\ registered' = NoChannel
    /\ UNCHANGED <<pending, state, opener, batch, emitVars, ended, controlReady, wireVars,
                   historyVars>>

OnClose(c) ==
    /\ closer[c] = "started"
    /\ closer' = [closer EXCEPT ![c] = "done"]
    /\ registered' = IF registered = c THEN NoChannel ELSE registered
    /\ UNCHANGED <<pending, state, opener, batch, emitVars, ended, controlReady, wireVars,
                   historyVars>>
-----------------------------------------------------------------------------
(* emit *)

\* Mutant: lets pending grow by one too many.
AppendPendingLate(event) ==
    LET events == Append(pending, event)
    IN IF Len(pending) <= Capacity
       THEN pending' = events /\ UNCHANGED evicted
       ELSE pending' = Tail(events) /\ evicted' = evicted \cup {Head(events)}

\* appendPendingEnvelope keeps the newest events.
AppendPending(event) ==
    LET events == Append(pending, event)
    IN IF Len(events) <= Capacity
       THEN pending' = events /\ UNCHANGED evicted
       ELSE pending' = Tail(events) /\ evicted' = evicted \cup {Head(events)}

\* The greeting is spoken when the ready handler has been called.
MayEmit(g) ==
    /\ emitting[g] = NoChannel /\ emitted[g] < Bound(g)
    /\ g = Greeter => controlReady

\* Under the mutex, emit stores the event or takes the channel.
Emit(g) ==
    /\ MayEmit(g)
    /\ emitted' = [emitted EXCEPT ![g] = @ + 1]
    /\ \/ /\ registered = NoChannel
          /\ AppendPending(<<g, emitted[g] + 1>>)
          /\ UNCHANGED emitting
       \/ /\ registered # NoChannel
          /\ emitting' = [emitting EXCEPT ![g] = registered]
          /\ UNCHANGED <<pending, evicted>>
    /\ UNCHANGED <<registered, state, callbackVars, ended, controlReady, wireVars, historyVars>>

EmitSend(g) ==
    /\ emitting[g] # NoChannel
    /\ Send(emitting[g], <<g, emitted[g]>>)
    /\ emitting' = [emitting EXCEPT ![g] = NoChannel]
    /\ UNCHANGED <<registered, pending, state, callbackVars, emitted, evicted, ended, controlReady,
                   historyVars>>

\* OnMessage: what handleInterruptHint sends, and sendError.
Answer(c) ==
    /\ state[c] # "connecting" /\ emitted[c] < Bound(c)
    /\ emitted' = [emitted EXCEPT ![c] = @ + 1]
    /\ Send(c, <<c, emitted[c] + 1>>)
    /\ UNCHANGED <<registered, pending, state, callbackVars, emitting, evicted, ended, controlReady,
                   historyVars>>
-----------------------------------------------------------------------------
Next ==
    \/ EndSession
    \/ \E c \in Channels : Opens(c) \/ Closes(c) \/ OnOpen(c) \/ OnClose(c) \/ Answer(c)
    \/ \E g \in Emitters : Emit(g) \/ EmitSend(g)

Spec == Init /\ [][Next]_vars
-----------------------------------------------------------------------------
(* Properties *)

Places(event) ==
    {<<"pending", i>> : i \in {j \in DOMAIN pending : pending[j] = event}}
    \cup {<<"emit", g>> : g \in {h \in Emitters : emitting[h] # NoChannel /\ event = <<h, emitted[h]>>}}
    \cup {<<"lost", e>> : e \in lost \cap {event}} \cup {<<"evicted", e>> : e \in evicted \cap {event}}
    \cup UNION {  {<<"batch", c, i>> : i \in {j \in DOMAIN batch[c] : batch[c][j] = event}}
                  \cup {<<"wire", c, i>> : i \in {j \in DOMAIN wire[c] : wire[c][j] = event}}
                : c \in Channels}

\* Every event is in one place: it waits, is about to be sent, was sent on one
\* channel, was refused by a closed one, or was evicted.  Neither the section that
\* publishes a channel nor a second channel duplicates it or leaves it out.
EventOnce ==
    \A s \in Senders : \A n \in 1 .. emitted[s] : Cardinality(Places(<<s, n>>)) = 1

\* A sender's events come in order on a channel, but for one case: those that OnOpen
\* took from pending are overtaken by those emitted since it published the channel.
OnlyFlushIsOvertaken ==
    \A c \in Channels : \A i, j \in DOMAIN wire[c] :
        LET early == wire[c][i]
            late  == wire[c][j]
        IN i < j /\ early[1] = late[1] /\ early[2] > late[2]
               => late \in taken[c] /\ early \notin taken[c]

\* While the channel that was published last is open, events go to it, whichever
\* OnClose runs; a channel stays registered after its OnClose only if that ran
\* before OnOpen published it; and no event waits while a channel is registered,
\* for nothing would ever send it.
OpenChannelIsUsed ==
    /\ last # NoChannel /\ state[last] = "open" => registered = last
    /\ registered # NoChannel /\ closer[registered] = "done" => registered \in closedFirst
    /\ registered # NoChannel => pending = <<>>

\* The greeting is not heard of before a session.ready was sent: on a channel its
\* events come after it, unless another channel had made the session ready.
GreetingFollowsReady ==
    \A c \in Channels : \A i \in DOMAIN wire[c] :
        wire[c][i][1] = Greeter
            => \/ \E j \in 1 .. i - 1 : wire[c][j] = Ready
               \/ \E d \in Channels \ {c} : opener[d] = "done"
=============================================================================

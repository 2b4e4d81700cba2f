------------------------- MODULE ControlChannelProofs -------------------------
(***************************************************************************)
(* Proofs about ControlChannel, for any number of channels, emitters and   *)
(* events and any capacity of the pending queue.                           *)
(*                                                                         *)
(* An event is followed through the places it can be in: with its emitter, *)
(* in the pending queue, in the batch of an OnOpen, on a wire, lost or     *)
(* evicted (Delivery).  The order of a sender's events rests on this: one  *)
(* that is emitted is newer than all of its sender, so only what OnOpen    *)
(* took from the pending queue and has still to send can be overtaken      *)
(* (Order).                                                                *)
(***************************************************************************)
EXTENDS ControlChannel, SequenceTheorems, FiniteSetTheorems, TLAPS

\* What the program counters say of a channel: OnOpen runs once it has opened, OnClose
\* once it has closed, and OnOpen has events to send only while it sends.
Callbacks ==
    \A c \in Channels :
        /\ state[c] = "connecting" <=> opener[c] = "none"
        /\ state[c] = "closed" <=> closer[c] # "none"
        /\ opener[c] \in {"none", "started", "refused"} => taken[c] = {}
        /\ opener[c] \notin {"ready", "flush"} => batch[c] = <<>>

\* Nobody emits more than its bound, and an event that is about to be sent was made.
Counts ==
    /\ \A s \in Senders : emitted[s] <= Bound(s)
    /\ \A g \in Emitters : emitting[g] # NoChannel => emitted[g] > 0

TypeInv == TypeOK /\ Callbacks /\ Counts

LEMMA BoundTyped == ASSUME NEW s PROVE Bound(s) \in Nat
  BY SizesAssumption DEF Bound

\* An event is a sender and one of its numbers; session.ready is none.
LEMMA EventFacts ==
    /\ \A s \in Senders : \A n \in 1 .. Bound(s) : <<s, n>> \in Events
    /\ \A e \in Events : /\ e[1] \in Senders /\ e[2] \in 1 .. Bound(e[1])
                         /\ e = <<e[1], e[2]>>
    /\ Ready \notin Events
  <1>1. \A s \in Senders : \A n \in 1 .. Bound(s) : <<s, n>> \in Events
    BY DEF Events
  <1>2. ASSUME NEW e \in Events
        PROVE  e[1] \in Senders /\ e[2] \in 1 .. Bound(e[1]) /\ e = <<e[1], e[2]>>
    BY <1>2 DEF Events
  <1>3. Ready[2] = 0
    BY DEF Ready
  <1> QED
    BY <1>1, <1>2, <1>3, BoundTyped

LEMMA SenderFacts == Emitters \subseteq Senders /\ Channels \subseteq Senders
  BY DEF Senders

\* OnOpen only moves on, and a closed channel stays closed; only SendReady lets
\* OnOpen begin to send events.
LEMMA CallbackSteps ==
    ASSUME TypeInv, [Next]_vars, NEW d \in Channels
    PROVE  /\ opener[d] = "done" => opener'[d] = "done"
           /\ opener[d] \in {"ready", "flush", "done"} => opener'[d] \in {"ready", "flush", "done"}
           /\ opener'[d] \in {"flush", "done"} => opener[d] \in {"flush", "done"} \/ SendReady(d)
           /\ state[d] = "closed" => state'[d] = "closed"
  <1> USE DEF callbackVars
  <1>0. opener \in [Channels -> {"none", "started", "ready", "flush", "done", "refused"}]
        /\ state \in [Channels -> {"connecting", "open", "closed"}]
        /\ (state[d] = "connecting" <=> opener[d] = "none")
    BY DEF TypeInv, TypeOK, Callbacks
  <1>1. CASE UNCHANGED <<opener, state>>
    BY <1>1
  <1>2. ASSUME NEW c \in Channels, Opens(c)
        PROVE  state' = [state EXCEPT ![c] = "open"] /\ opener' = [opener EXCEPT ![c] = "started"]
               /\ opener[c] = "none" /\ state[c] = "connecting"
    BY <1>2 DEF Opens, TypeInv, Callbacks
  <1>3. ASSUME NEW c \in Channels, Closes(c)
        PROVE  state' = [state EXCEPT ![c] = "closed"] /\ opener' = opener
    BY <1>3 DEF Closes
  <1>4. ASSUME NEW c \in Channels, Refuse(c)
        PROVE  opener[c] = "started" /\ opener' = [opener EXCEPT ![c] = "refused"] /\ state' = state
    BY <1>4 DEF Refuse
  <1>5. ASSUME NEW c \in Channels, Publish(c)
        PROVE  opener[c] = "started" /\ opener' = [opener EXCEPT ![c] = "ready"] /\ state' = state
    BY <1>5 DEF Publish, Register
  <1>6. ASSUME NEW c \in Channels, SendReady(c)
        PROVE  opener[c] = "ready" /\ opener' = [opener EXCEPT ![c] = "flush"] /\ state' = state
    BY <1>6 DEF SendReady
  <1>7. ASSUME NEW c \in Channels, CallReadyHandler(c)
        PROVE  opener[c] = "flush" /\ opener' = [opener EXCEPT ![c] = "done"] /\ state' = state
    BY <1>7 DEF CallReadyHandler
  <1>8. ASSUME UNCHANGED vars \/ EndSession \/ \E c \in Channels : Flush(c) \/ OnClose(c) \/ Answer(c)
        PROVE  UNCHANGED <<opener, state>>
    BY <1>8 DEF vars, EndSession, Flush, OnClose, Answer
  <1>9. ASSUME \E g \in Emitters : Emit(g) \/ EmitSend(g)
        PROVE  UNCHANGED <<opener, state>>
    BY <1>9 DEF Emit, EmitSend
  <1>10. ASSUME NEW c \in Channels,
                Opens(c) \/ Closes(c) \/ Refuse(c) \/ Publish(c) \/ SendReady(c) \/ CallReadyHandler(c)
         PROVE  /\ opener[d] = "done" => opener'[d] = "done"
                /\ opener[d] \in {"ready", "flush", "done"} => opener'[d] \in {"ready", "flush", "done"}
                /\ opener'[d] \in {"flush", "done"} => opener[d] \in {"flush", "done"} \/ SendReady(d)
                /\ state[d] = "closed" => state'[d] = "closed"
    BY <1>0, <1>2, <1>3, <1>4, <1>5, <1>6, <1>7, <1>10
  <1> QED
    BY <1>1, <1>8, <1>9, <1>10 DEF Next, OnOpen
-----------------------------------------------------------------------------
(* Types. *)

LEMMA TypesInit == Init => TypeInv
  <1> SUFFICES ASSUME Init PROVE TypeInv
    OBVIOUS
  <1>1. TypeOK
    <2>1. <<>> \in Seq(Events) /\ Len(<<>>) = 0 /\ <<>> \in Seq(Events \cup {Ready})
      BY EmptySeq
    <2>2. pending \in Seq(Events) /\ Len(pending) <= Capacity
      BY <2>1, SizesAssumption DEF Init
    <2>3. /\ batch \in [Channels -> Seq(Events)]
          /\ wire \in [Channels -> Seq(Events \cup {Ready})]
      BY <2>1 DEF Init
    <2> QED
      BY <2>2, <2>3 DEF Init, TypeOK
  <1>2. Callbacks
    BY DEF Init, Callbacks
  <1>3. Counts
    BY BoundTyped DEF Init, Counts
  <1> QED
    BY <1>1, <1>2, <1>3 DEF TypeInv

\* What send does to what SendText took and refused.
LEMMA SendTypes ==
    ASSUME TypeOK, NEW c \in Channels, NEW e \in Events \cup {Ready}, Send(c, e)
    PROVE  /\ wire' \in [Channels -> Seq(Events \cup {Ready})]
           /\ lost' \subseteq Events
  <1>1. Append(wire[c], e) \in Seq(Events \cup {Ready})
    BY AppendProperties DEF TypeOK
  <1> QED
    BY <1>1 DEF Send, TypeOK

\* The event that an emitter or a channel makes next, and the one about to be sent.
LEMMA NextEvent ==
    ASSUME TypeInv
    PROVE  /\ \A s \in Senders : emitted[s] < Bound(s) => <<s, emitted[s] + 1>> \in Events
           /\ \A g \in Emitters : emitting[g] # NoChannel => <<g, emitted[g]>> \in Events
  <1>1. \A s \in Senders : emitted[s] \in Nat /\ Bound(s) \in Nat
    BY BoundTyped DEF TypeInv, TypeOK
  <1>2. \A s \in Senders : emitted[s] < Bound(s) => emitted[s] + 1 \in 1 .. Bound(s)
    BY <1>1
  <1>3. \A g \in Emitters : emitting[g] # NoChannel => emitted[g] \in 1 .. Bound(g)
    BY <1>1, SenderFacts DEF TypeInv, Counts
  <1> QED
    BY <1>2, <1>3, EventFacts, SenderFacts

\* appendPendingEnvelope keeps the queue within its bound.
LEMMA PendingTypes ==
    ASSUME TypeOK, NEW e \in Events, AppendPending(e)
    PROVE  /\ pending' \in Seq(Events) /\ Len(pending') <= Capacity
           /\ evicted' \subseteq Events
  <1> DEFINE events == Append(pending, e)
  <1>1. events \in Seq(Events) /\ Len(events) = Len(pending) + 1 /\ events # <<>>
    BY AppendProperties DEF TypeOK
  <1>2. Head(events) \in Events /\ Tail(events) \in Seq(Events) /\ Len(Tail(events)) = Len(pending)
    BY <1>1, HeadTailProperties, LenProperties DEF TypeOK
  <1> HIDE DEF events
  <1> QED
    BY <1>1, <1>2 DEF AppendPending, TypeOK, events

LEMMA TypesStep == TypeInv /\ [Next]_vars => TypeInv'
  <1> SUFFICES ASSUME TypeInv, [Next]_vars PROVE TypeInv'
    OBVIOUS
  <1> USE DEF TypeInv, callbackVars, emitVars, wireVars, historyVars
  <1>1. CASE UNCHANGED vars
    BY <1>1 DEF TypeOK, Callbacks, Counts, vars
  <1>2. CASE EndSession
    BY <1>2 DEF EndSession, TypeOK, Callbacks, Counts
  <1>3. ASSUME NEW c \in Channels, Opens(c) \/ Closes(c) \/ Refuse(c) \/ OnClose(c)
        PROVE  TypeInv'
    <2>1. TypeOK'
      BY <1>3 DEF Opens, Closes, Refuse, OnClose, TypeOK
    <2>2. Callbacks'
      BY <1>3 DEF Opens, Closes, Refuse, OnClose, TypeOK, Callbacks
    <2>3. Counts'
      BY <1>3 DEF Opens, Closes, Refuse, OnClose, Counts
    <2> QED
      BY <2>1, <2>2, <2>3
  <1>4. ASSUME NEW c \in Channels, Publish(c) PROVE TypeInv'
    <2>1. ToSet(pending) \subseteq Events
      BY ElementOfSeq, LenProperties DEF TypeOK, ToSet
    <2>2. <<>> \in Seq(Events) /\ Len(<<>>) = 0
      BY EmptySeq
    <2>3. TypeOK'
      BY <1>4, <2>1, <2>2, SizesAssumption DEF Publish, Register, TypeOK
    <2>4. Callbacks'
      BY <1>4 DEF Publish, Register, TypeOK, Callbacks
    <2>5. Counts'
      BY <1>4 DEF Publish, Register, Counts
    <2> QED BY <2>3, <2>4, <2>5
  <1>5. ASSUME NEW c \in Channels, SendReady(c) PROVE TypeInv'
    <2>1. wire' \in [Channels -> Seq(Events \cup {Ready})] /\ lost' \subseteq Events
      BY <1>5, SendTypes DEF SendReady
    <2> QED
      BY <1>5, <2>1 DEF SendReady, TypeOK, Callbacks, Counts
  <1>6. ASSUME NEW c \in Channels, Flush(c) PROVE TypeInv'
    <2>1. Head(batch[c]) \in Events /\ Tail(batch[c]) \in Seq(Events)
      BY <1>6, HeadTailProperties DEF Flush, TypeOK
    <2>2. wire' \in [Channels -> Seq(Events \cup {Ready})] /\ lost' \subseteq Events
      BY <1>6, <2>1, SendTypes DEF Flush
    <2> QED
      BY <1>6, <2>1, <2>2 DEF Flush, TypeOK, Callbacks, Counts
  <1>7. ASSUME NEW c \in Channels, CallReadyHandler(c) PROVE TypeInv'
    BY <1>7 DEF CallReadyHandler, TypeOK, Callbacks, Counts
  <1>8. ASSUME NEW c \in Channels, Answer(c) PROVE TypeInv'
    <2>1. <<c, emitted[c] + 1>> \in Events
      BY <1>8, NextEvent, SenderFacts DEF Answer
    <2>2. wire' \in [Channels -> Seq(Events \cup {Ready})] /\ lost' \subseteq Events
      BY <1>8, <2>1, SendTypes DEF Answer
    <2>3. \A s \in Senders : /\ emitted'[s] \in Nat /\ emitted'[s] <= Bound(s)
                             /\ emitted[s] <= emitted'[s]
      BY <1>8, BoundTyped DEF Answer, TypeOK, Counts
    <2>4. TypeOK'
      BY <1>8, <2>2, <2>3 DEF Answer, TypeOK
    <2>5. Counts'
      BY <1>8, <2>3, SenderFacts DEF Answer, Counts, TypeOK
    <2>6. Callbacks'
      BY <1>8 DEF Answer, Callbacks
    <2> QED BY <2>4, <2>5, <2>6
  <1>9. ASSUME NEW g \in Emitters, Emit(g) PROVE TypeInv'
    <2>1. <<g, emitted[g] + 1>> \in Events
      BY <1>9, NextEvent, SenderFacts DEF Emit, MayEmit
    <2>2. /\ pending' \in Seq(Events) /\ Len(pending') <= Capacity
          /\ evicted' \subseteq Events
      BY <1>9, <2>1, PendingTypes DEF Emit, TypeOK
    <2>3. \A s \in Senders : /\ emitted'[s] \in Nat /\ emitted'[s] <= Bound(s)
                             /\ emitted[s] <= emitted'[s] /\ (s = g => emitted'[s] > 0)
      BY <1>9, BoundTyped DEF Emit, MayEmit, TypeOK, Counts
    <2>4. emitting' \in [Emitters -> Channels \cup {NoChannel}]
          /\ \A h \in Emitters \ {g} : emitting'[h] = emitting[h]
      BY <1>9 DEF Emit, TypeOK
    <2>5. TypeOK'
      BY <1>9, <2>2, <2>3, <2>4 DEF Emit, TypeOK
    <2>6. Counts'
      BY <2>3, <2>4, SenderFacts DEF Counts, TypeOK
    <2>7. Callbacks'
      BY <1>9 DEF Emit, Callbacks
    <2> QED BY <2>5, <2>6, <2>7
  <1>10. ASSUME NEW g \in Emitters, EmitSend(g) PROVE TypeInv'
    <2>1. <<g, emitted[g]>> \in Events /\ emitting[g] \in Channels
      BY <1>10, NextEvent DEF EmitSend, TypeOK
    <2>2. wire' \in [Channels -> Seq(Events \cup {Ready})] /\ lost' \subseteq Events
      BY <1>10, <2>1, SendTypes DEF EmitSend
    <2> QED
      BY <1>10, <2>2 DEF EmitSend, TypeOK, Callbacks, Counts
  <1> QED
    BY <1>1, <1>2, <1>3, <1>4, <1>5, <1>6, <1>7, <1>8, <1>9, <1>10 DEF Next, OnOpen

LEMMA ChannelTypes == Spec => []TypeInv
  BY TypesInit, TypesStep, PTL DEF Spec

\* appendPendingEnvelope never lets the pending queue grow beyond its bound, and
\* everything else keeps its type.
THEOREM ControlTypeOK == Spec => []TypeOK
  BY ChannelTypes, PTL DEF TypeInv
-----------------------------------------------------------------------------
(* Which channel is registered. *)

\* The channel published last has been published.
Published == last # NoChannel => opener[last] \in {"ready", "flush", "done"}

LEMMA ChannelStep ==
    TypeInv /\ TypeInv' /\ Published /\ OpenChannelIsUsed /\ [Next]_vars
        => Published' /\ OpenChannelIsUsed'
  <1> SUFFICES ASSUME TypeInv, TypeInv', Published, OpenChannelIsUsed, [Next]_vars
               PROVE  Published' /\ OpenChannelIsUsed'
    OBVIOUS
  <1> USE ChannelsAssumption
      DEF TypeInv, TypeOK, Callbacks, Published, OpenChannelIsUsed, callbackVars, emitVars,
          wireVars, historyVars
  <1>1. CASE UNCHANGED vars
    BY <1>1 DEF vars
  <1>2. CASE EndSession
    BY <1>2 DEF EndSession
  <1>3. ASSUME NEW c \in Channels, Opens(c) \/ Closes(c)
        PROVE  Published' /\ OpenChannelIsUsed'
    BY <1>3 DEF Opens, Closes
  <1>4. ASSUME NEW c \in Channels, Refuse(c) \/ SendReady(c) \/ Flush(c) \/ CallReadyHandler(c)
        PROVE  Published' /\ OpenChannelIsUsed'
    <2>1. UNCHANGED <<registered, pending, state, closer, last, closedFirst>>
      BY <1>4 DEF Refuse, SendReady, Flush, CallReadyHandler
    <2>2. \A d \in Channels : opener[d] \in {"ready", "flush", "done"}
                             => opener'[d] \in {"ready", "flush", "done"}
      BY CallbackSteps
    <2> QED
      BY <2>1, <2>2
  <1>5. ASSUME NEW c \in Channels, Publish(c) PROVE Published' /\ OpenChannelIsUsed'
    BY <1>5 DEF Publish, Register
  <1>6. ASSUME NEW c \in Channels, OnClose(c) PROVE Published' /\ OpenChannelIsUsed'
    BY <1>6 DEF OnClose
  <1>7. ASSUME NEW c \in Channels, Answer(c) PROVE Published' /\ OpenChannelIsUsed'
    BY <1>7 DEF Answer
  <1>8. ASSUME NEW g \in Emitters, Emit(g) \/ EmitSend(g)
        PROVE  Published' /\ OpenChannelIsUsed'
    BY <1>8 DEF Emit, EmitSend
  <1> QED
    BY <1>1, <1>2, <1>3, <1>4, <1>5, <1>6, <1>7, <1>8 DEF Next, OnOpen

\* Events go to the channel published last while it is open, whichever OnClose runs
\* beside which OnOpen, and none waits beside a registered channel.
THEOREM ControlOpenChannelIsUsed == Spec => []OpenChannelIsUsed
  <1>1. Init => Published /\ OpenChannelIsUsed
    BY DEF Init, Published, OpenChannelIsUsed
  <1> QED
    BY <1>1, ChannelStep, ChannelTypes, PTL DEF Spec
-----------------------------------------------------------------------------
(* The greeting. *)

OnWire(c, e) == \E i \in DOMAIN wire[c] : wire[c][i] = e

\* A channel made the session ready when its session.ready was sent or could not be;
\* the greeter waits for that.
Greeting ==
    /\ controlReady => \E c \in Channels : opener[c] = "done"
    /\ emitted[Greeter] > 0 => controlReady
    /\ \A c \in Channels : opener[c] \in {"flush", "done"} => state[c] = "closed" \/ OnWire(c, Ready)

\* What SendText took is what it had taken, and perhaps one more.
Extends(c, e) ==
    /\ DOMAIN wire[c] = 1 .. Len(wire[c]) /\ DOMAIN wire'[c] = 1 .. Len(wire'[c])
    /\ Len(wire[c]) \in Nat
    /\ Len(wire'[c]) = Len(wire[c]) + 1 /\ wire'[c][Len(wire[c]) + 1] = e
    /\ \A i \in 1 .. Len(wire[c]) : wire'[c][i] = wire[c][i]

LEMMA SendExtends ==
    ASSUME TypeOK, NEW c \in Channels, NEW e \in Events \cup {Ready}, Send(c, e)
    PROVE  /\ \A d \in Channels \ {c} : wire'[d] = wire[d]
           /\ \/ state[c] = "open" /\ Extends(c, e) /\ lost' = lost
              \/ state[c] # "open" /\ wire'[c] = wire[c] /\ lost' = lost \cup ({e} \ {Ready})
  <1>1. CASE state[c] = "open"
    <2>1. wire' = [wire EXCEPT ![c] = Append(@, e)] /\ lost' = lost
      BY <1>1 DEF Send
    <2>2. wire'[c] = Append(wire[c], e) /\ \A d \in Channels \ {c} : wire'[d] = wire[d]
      BY <2>1 DEF TypeOK
    <2>3. wire[c] \in Seq(Events \cup {Ready})
      BY DEF TypeOK
    <2>4. Extends(c, e)
      BY <2>2, <2>3, AppendProperties, LenProperties DEF Extends
    <2> QED
      BY <1>1, <2>1, <2>2, <2>4
  <1>2. CASE state[c] # "open"
    BY <1>2 DEF Send
  <1> QED
    BY <1>1, <1>2

\* Sending an event keeps the order of session.ready and the greeting on a channel,
\* if the event is none of the greeter's or the session has been made ready.
LEMMA GreetingSent ==
    ASSUME TypeInv, Greeting, GreetingFollowsReady,
           NEW c \in Channels, NEW e \in Events \cup {Ready}, Send(c, e),
           e[1] = Greeter => OnWire(c, Ready) \/ state[c] # "open" \/ \E d \in Channels \ {c} : opener[d] = "done",
           \A d \in Channels : opener[d] = "done" => opener'[d] = "done"
    PROVE  /\ GreetingFollowsReady'
           /\ \A d \in Channels : OnWire(d, Ready) => OnWire(d, Ready)'
           /\ e = Ready /\ state[c] = "open" => OnWire(c, Ready)'
  <1>1. \A d \in Channels \ {c} : wire'[d] = wire[d]
    BY SendExtends DEF TypeInv
  <1>2. CASE wire'[c] = wire[c] /\ state[c] # "open"
    <2>1. \A d \in Channels : wire'[d] = wire[d]
      BY <1>1, <1>2
    <2> QED
      BY <1>2, <2>1 DEF GreetingFollowsReady, OnWire
  <1>3. CASE Extends(c, e) /\ state[c] = "open"
    <2>1. \A d \in Channels : OnWire(d, Ready) => OnWire(d, Ready)'
      BY <1>1, <1>3 DEF OnWire, Extends
    <2>2. e = Ready => OnWire(c, Ready)'
      BY <1>3 DEF OnWire, Extends
    <2>3. ASSUME NEW d \in Channels, NEW i \in DOMAIN wire'[d], wire'[d][i][1] = Greeter
          PROVE  \/ \E j \in 1 .. i - 1 : wire'[d][j] = Ready
                 \/ \E b \in Channels \ {d} : opener'[b] = "done"
      <3>1. CASE d # c
        BY <1>1, <2>3, <3>1 DEF GreetingFollowsReady
      <3>2. CASE d = c /\ i <= Len(wire[c])
        <4>1. i \in DOMAIN wire[c] /\ wire[c][i][1] = Greeter
          BY <1>3, <2>3, <3>2 DEF Extends
        <4>2. \/ \E j \in 1 .. i - 1 : wire[c][j] = Ready
              \/ \E b \in Channels \ {c} : opener[b] = "done"
          BY <4>1 DEF GreetingFollowsReady
        <4>3. \A j \in 1 .. i - 1 : wire'[c][j] = wire[c][j]
          BY <1>3, <3>2, <4>1 DEF Extends
        <4> QED
          BY <3>2, <4>2, <4>3
      <3>3. CASE d = c /\ i = Len(wire[c]) + 1
        <4>1. e[1] = Greeter
          BY <1>3, <2>3, <3>3 DEF Extends
        <4>2. ASSUME OnWire(c, Ready) PROVE \E j \in 1 .. i - 1 : wire'[c][j] = Ready
          BY <1>3, <3>3, <4>2 DEF OnWire, Extends
        <4> QED
          BY <1>3, <3>3, <4>1, <4>2
      <3> QED
        BY <1>3, <2>3, <3>1, <3>2, <3>3 DEF Extends
    <2> QED
      BY <2>1, <2>2, <2>3 DEF GreetingFollowsReady
  <1> QED
    BY <1>2, <1>3, SendExtends DEF TypeInv

\* What sends nothing keeps the order.
LEMMA GreetingUnsent ==
    ASSUME Greeting, GreetingFollowsReady, UNCHANGED wire,
           \A d \in Channels : opener[d] = "done" => opener'[d] = "done"
    PROVE  GreetingFollowsReady' /\ \A d \in Channels : OnWire(d, Ready) <=> OnWire(d, Ready)'
  BY DEF GreetingFollowsReady, OnWire

LEMMA GreetingStep ==
    TypeInv /\ TypeInv' /\ Greeting /\ GreetingFollowsReady /\ [Next]_vars
        => Greeting' /\ GreetingFollowsReady'
  <1> SUFFICES ASSUME TypeInv, TypeInv', Greeting, GreetingFollowsReady, [Next]_vars
               PROVE  Greeting' /\ GreetingFollowsReady'
    OBVIOUS
  <1> USE DEF callbackVars, emitVars, wireVars, historyVars
  <1>0. Greeter \in Emitters /\ Greeter \in Senders /\ \A c \in Channels : c # Greeter
    BY ChannelsAssumption, SenderFacts
  <1>1. CASE UNCHANGED vars
    <2>1. GreetingFollowsReady' /\ \A d \in Channels : OnWire(d, Ready) <=> OnWire(d, Ready)'
      BY <1>1, GreetingUnsent DEF vars
    <2> QED
      BY <1>1, <2>1 DEF vars, Greeting
  <1>2. ASSUME EndSession \/ \E c \in Channels : Opens(c) \/ Closes(c) \/ Refuse(c) \/ OnClose(c)
                                                \/ CallReadyHandler(c) \/ Publish(c)
        PROVE  Greeting' /\ GreetingFollowsReady'
    <2>1. UNCHANGED <<wire, emitted>>
      BY <1>2 DEF EndSession, Opens, Closes, Refuse, OnClose, CallReadyHandler, Publish, Register
    <2>2. \A d \in Channels : /\ opener[d] = "done" => opener'[d] = "done"
                              /\ state[d] = "closed" => state'[d] = "closed"
      BY CallbackSteps
    <2>3. \A d \in Channels : opener'[d] \in {"flush", "done"} => opener[d] \in {"flush", "done"}
      <3>1. ASSUME NEW d \in Channels PROVE ~ (opener[d] = "ready" /\ opener'[d] = "flush")
        <4>1. \/ UNCHANGED opener
              \/ \E c \in Channels, place \in {"started", "refused", "ready", "done"} :
                     opener' = [opener EXCEPT ![c] = place]
          BY <1>2
          DEF EndSession, Opens, Closes, Refuse, OnClose, CallReadyHandler, Publish, Register
        <4> QED
          BY <4>1 DEF TypeInv, TypeOK
      <3>2. ASSUME NEW d \in Channels, SendReady(d) PROVE opener[d] = "ready" /\ opener'[d] = "flush"
        BY <3>2 DEF SendReady, TypeInv, TypeOK
      <3> QED
        BY <3>1, <3>2, CallbackSteps
    <2>4. controlReady => controlReady'
      BY <1>2 DEF EndSession, Opens, Closes, Refuse, OnClose, CallReadyHandler, Publish, Register
    <2>5. controlReady' => controlReady \/ \E c \in Channels : opener'[c] = "done"
      BY <1>2
      DEF EndSession, Opens, Closes, Refuse, OnClose, CallReadyHandler, Publish, Register, TypeInv,
          TypeOK
    <2>6. GreetingFollowsReady' /\ \A d \in Channels : OnWire(d, Ready) <=> OnWire(d, Ready)'
      BY <2>1, <2>2, GreetingUnsent
    <2>7. \A c \in Channels : opener'[c] \in {"flush", "done"} => state'[c] = "closed" \/ OnWire(c, Ready)'
      BY <2>2, <2>3, <2>6 DEF Greeting
    <2>8. controlReady' => \E c \in Channels : opener'[c] = "done"
      BY <2>2, <2>5 DEF Greeting
    <2> QED
      BY <2>1, <2>4, <2>6, <2>7, <2>8 DEF Greeting
  <1>3. ASSUME NEW c \in Channels, SendReady(c) PROVE Greeting' /\ GreetingFollowsReady'
    <2>1. /\ Send(c, Ready) /\ opener[c] = "ready"
          /\ opener' = [opener EXCEPT ![c] = "flush"]
          /\ UNCHANGED <<state, emitted, controlReady>>
      BY <1>3 DEF SendReady
    <2>2. \A d \in Channels : opener[d] = "done" => opener'[d] = "done"
      BY <2>1 DEF TypeInv, TypeOK
    <2>3. Ready[1] # Greeter
      BY ChannelsAssumption DEF Ready
    <2>4. /\ GreetingFollowsReady'
          /\ \A d \in Channels : OnWire(d, Ready) => OnWire(d, Ready)'
          /\ state[c] = "open" => OnWire(c, Ready)'
      BY <2>1, <2>2, <2>3, GreetingSent
    <2>5. state[c] \in {"open", "closed"}
      BY <2>1 DEF TypeInv, TypeOK, Callbacks
    <2>6. \A d \in Channels : opener'[d] \in {"flush", "done"} => d = c \/ opener[d] \in {"flush", "done"}
      BY <2>1 DEF TypeInv, TypeOK
    <2> QED
      BY <2>1, <2>2, <2>4, <2>5, <2>6 DEF Greeting
  <1>4. ASSUME NEW c \in Channels, NEW e \in Events, Send(c, e),
               UNCHANGED <<state, opener, controlReady>>,
               emitted'[Greeter] > 0 => controlReady,
               e[1] = Greeter => OnWire(c, Ready) \/ state[c] # "open"
                                     \/ \E d \in Channels \ {c} : opener[d] = "done"
        PROVE  Greeting' /\ GreetingFollowsReady'
    <2>1. GreetingFollowsReady' /\ \A d \in Channels : OnWire(d, Ready) => OnWire(d, Ready)'
      BY <1>4, GreetingSent
    <2> QED
      BY <1>4, <2>1 DEF Greeting
  <1>5. ASSUME NEW c \in Channels, Flush(c) PROVE Greeting' /\ GreetingFollowsReady'
    <2>1. Head(batch[c]) \in Events
      BY <1>5, HeadTailProperties DEF Flush, TypeInv, TypeOK
    <2>2. OnWire(c, Ready) \/ state[c] # "open"
      BY <1>5 DEF Flush, Greeting
    <2> QED
      BY <1>4, <1>5, <2>1, <2>2 DEF Flush, Greeting
  <1>6. ASSUME NEW c \in Channels, Answer(c) PROVE Greeting' /\ GreetingFollowsReady'
    <2>1. <<c, emitted[c] + 1>> \in Events /\ <<c, emitted[c] + 1>>[1] # Greeter
      BY <1>0, <1>6, NextEvent, SenderFacts DEF Answer
    <2>2. emitted'[Greeter] = emitted[Greeter]
      BY <1>0, <1>6 DEF Answer, TypeInv, TypeOK
    <2> QED
      BY <1>4, <1>6, <2>1, <2>2 DEF Answer, Greeting
  <1>7. ASSUME NEW g \in Emitters, Emit(g) PROVE Greeting' /\ GreetingFollowsReady'
    <2>1. UNCHANGED <<wire, state, opener, controlReady>>
      BY <1>7 DEF Emit
    <2>2. emitted'[Greeter] > 0 => controlReady
      BY <1>0, <1>7, SenderFacts DEF Emit, MayEmit, Greeting, TypeInv, TypeOK
    <2>3. GreetingFollowsReady' /\ \A d \in Channels : OnWire(d, Ready) <=> OnWire(d, Ready)'
      BY <2>1, GreetingUnsent
    <2> QED
      BY <2>1, <2>2, <2>3 DEF Greeting
  <1>8. ASSUME NEW g \in Emitters, EmitSend(g) PROVE Greeting' /\ GreetingFollowsReady'
    <2> DEFINE c == emitting[g]
               e == <<g, emitted[g]>>
    <2>1. c \in Channels /\ e \in Events /\ emitted[g] > 0 /\ e[1] = g
      BY <1>8, NextEvent DEF EmitSend, TypeInv, TypeOK, Counts
    <2>2. Send(c, e) /\ UNCHANGED <<state, opener, controlReady, emitted>>
      BY <1>8 DEF EmitSend
    <2> HIDE DEF c, e
    <2>3. e[1] = Greeter => \E d \in Channels : opener[d] = "done"
      BY <2>1 DEF Greeting
    <2>4. e[1] = Greeter => OnWire(c, Ready) \/ state[c] # "open"
                                \/ \E d \in Channels \ {c} : opener[d] = "done"
      BY <2>1, <2>3 DEF Greeting
    <2> QED
      BY <1>4, <2>1, <2>2, <2>4 DEF Greeting
  <1> QED
    BY <1>1, <1>2, <1>3, <1>5, <1>6, <1>7, <1>8 DEF Next, OnOpen

\* The greeting is heard after session.ready, on its channel or on one before it.
THEOREM ControlGreetingFollowsReady == Spec => []GreetingFollowsReady
  <1>1. Init => Greeting /\ GreetingFollowsReady
    <2> SUFFICES ASSUME Init PROVE Greeting /\ GreetingFollowsReady
      OBVIOUS
    <2>1. Greeter \in Senders
      BY ChannelsAssumption, SenderFacts
    <2> QED
      BY <2>1 DEF Init, Greeting, GreetingFollowsReady
  <1> QED
    BY <1>1, GreetingStep, ChannelTypes, PTL DEF Spec
-----------------------------------------------------------------------------
(* Where an event is. *)

Holds(s, e)  == \E i \in DOMAIN s : s[i] = e
Single(s, e) == \A i, j \in DOMAIN s : s[i] = e /\ s[j] = e => i = j

LEMMA EmptyHolds == ASSUME NEW e PROVE ~Holds(<<>>, e) /\ Single(<<>>, e)
  BY DEF Holds, Single

\* What is put at the end of a queue.
LEMMA AppendHolds ==
    ASSUME NEW S, NEW s \in Seq(S), NEW y \in S, NEW e
    PROVE  /\ Holds(Append(s, y), e) <=> (Holds(s, e) \/ y = e)
           /\ Single(s, e) /\ (y = e => ~Holds(s, e)) => Single(Append(s, y), e)
  <1>1. /\ Len(s) \in Nat /\ DOMAIN s = 1 .. Len(s)
        /\ DOMAIN Append(s, y) = 1 .. Len(s) + 1
        /\ Append(s, y)[Len(s) + 1] = y
        /\ \A i \in 1 .. Len(s) : Append(s, y)[i] = s[i]
    BY AppendProperties, LenProperties
  <1>2. Holds(Append(s, y), e) <=> (Holds(s, e) \/ y = e)
    BY <1>1 DEF Holds
  <1>3. ASSUME Single(s, e), y = e => ~Holds(s, e) PROVE Single(Append(s, y), e)
    BY <1>1, <1>3 DEF Holds, Single
  <1> QED
    BY <1>2, <1>3

\* What is left when the head of a queue is taken.
LEMMA TailHolds ==
    ASSUME NEW S, NEW s \in Seq(S), s # <<>>, NEW e, Single(s, e)
    PROVE  /\ Single(Tail(s), e)
           /\ Holds(Tail(s), e) <=> (Holds(s, e) /\ Head(s) # e)
           /\ Head(s) = e => Holds(s, e)
  <1>1. /\ Len(s) \in Nat /\ DOMAIN s = 1 .. Len(s) /\ Len(s) > 0 /\ Head(s) = s[1]
        /\ DOMAIN Tail(s) = 1 .. Len(s) - 1
        /\ \A i \in 1 .. Len(s) - 1 : Tail(s)[i] = s[i + 1]
    BY HeadTailProperties, LenProperties, EmptySeq
  <1>2. Single(Tail(s), e)
    BY <1>1 DEF Single
  <1>3. ASSUME NEW i \in DOMAIN Tail(s), Tail(s)[i] = e PROVE s[i + 1] = e /\ s[1] # e
    BY <1>1, <1>3 DEF Single
  <1>4. Holds(Tail(s), e) => Holds(s, e) /\ Head(s) # e
    BY <1>1, <1>3 DEF Holds
  <1>5. ASSUME NEW i \in DOMAIN s, s[i] = e, Head(s) # e PROVE Holds(Tail(s), e)
    <2>1. i - 1 \in DOMAIN Tail(s) /\ Tail(s)[i - 1] = e
      BY <1>1, <1>5
    <2> QED BY <2>1 DEF Holds
  <1>6. Head(s) = e => Holds(s, e)
    BY <1>1 DEF Holds
  <1> QED
    BY <1>2, <1>4, <1>5, <1>6 DEF Holds

\* The places an event can be in; the last two are where it ends without being sent.
PendingKey == <<"pending", NoChannel>>
LostKey    == <<"lost", NoChannel>>
EvictedKey == <<"evicted", NoChannel>>
WireKeys   == {"wire"} \X Channels
Keys == {PendingKey, LostKey, EvictedKey} \cup ({"batch"} \X Channels) \cup WireKeys
        \cup ({"emit"} \X Emitters)

At(k, e) == CASE k[1] = "pending" -> Holds(pending, e)
              [] k[1] = "batch"   -> Holds(batch[k[2]], e)
              [] k[1] = "wire"    -> Holds(wire[k[2]], e)
              [] k[1] = "emit"    -> emitting[k[2]] # NoChannel /\ e = <<k[2], emitted[k[2]]>>
              [] k[1] = "lost"    -> e \in lost
              [] k[1] = "evicted" -> e \in evicted

\* No queue has the event twice.
Singles(e) == Single(pending, e) /\ \A c \in Channels : Single(batch[c], e) /\ Single(wire[c], e)

\* The event has been made.
Live(e) == e[2] <= emitted[e[1]]

OnePlace(e) ==
    /\ Singles(e)
    /\ \A k, l \in Keys : At(k, e) /\ At(l, e) => k = l
    /\ (\E k \in Keys : At(k, e)) <=> Live(e)

Delivery == \A e \in Events : OnePlace(e)

LEMMA KeyFacts ==
    /\ \A k \in Keys : \/ k \in {PendingKey, LostKey, EvictedKey}
                       \/ \E c \in Channels : k = <<"batch", c>> \/ k = <<"wire", c>>
                       \/ \E g \in Emitters : k = <<"emit", g>>
    /\ {PendingKey, LostKey, EvictedKey} \subseteq Keys
    /\ \A c \in Channels : <<"batch", c>> \in Keys /\ <<"wire", c>> \in Keys
    /\ \A g \in Emitters : <<"emit", g>> \in Keys
  BY DEF Keys, WireKeys

LEMMA AtFacts ==
    ASSUME NEW e
    PROVE  /\ At(PendingKey, e) <=> Holds(pending, e)
           /\ At(LostKey, e) <=> e \in lost
           /\ At(EvictedKey, e) <=> e \in evicted
           /\ \A c \in Channels : /\ At(<<"batch", c>>, e) <=> Holds(batch[c], e)
                                  /\ At(<<"wire", c>>, e) <=> Holds(wire[c], e)
           /\ \A g \in Emitters : At(<<"emit", g>>, e)
                                    <=> emitting[g] # NoChannel /\ e = <<g, emitted[g]>>
  BY DEF At, PendingKey, LostKey, EvictedKey

LEMMA AtFactsNext ==
    ASSUME NEW e
    PROVE  /\ At(PendingKey, e)' <=> Holds(pending', e)
           /\ At(LostKey, e)' <=> e \in lost'
           /\ At(EvictedKey, e)' <=> e \in evicted'
           /\ \A c \in Channels : /\ At(<<"batch", c>>, e)' <=> Holds(batch'[c], e)
                                  /\ At(<<"wire", c>>, e)' <=> Holds(wire'[c], e)
           /\ \A g \in Emitters : At(<<"emit", g>>, e)'
                                    <=> emitting'[g] # NoChannel /\ e = <<g, emitted'[g]>>
  BY DEF At, PendingKey, LostKey, EvictedKey

\* A place keeps what it has while its variables stay as they are.
LEMMA AtKept ==
    ASSUME NEW e, NEW k \in Keys,
           k = PendingKey => pending' = pending,
           k = LostKey => lost' = lost,
           k = EvictedKey => evicted' = evicted,
           \A c \in Channels : k = <<"batch", c>> => batch'[c] = batch[c],
           \A c \in Channels : k = <<"wire", c>> => wire'[c] = wire[c],
           \A g \in Emitters : k = <<"emit", g>>
                                 => emitting'[g] = emitting[g] /\ emitted'[g] = emitted[g]
    PROVE  At(k, e)' <=> At(k, e)
  <1>1. CASE k \in {PendingKey, LostKey, EvictedKey}
    BY <1>1, AtFacts, AtFactsNext
  <1>2. ASSUME NEW c \in Channels, k = <<"batch", c>> PROVE At(k, e)' <=> At(k, e)
    <2>1. At(<<"batch", c>>, e)' <=> At(<<"batch", c>>, e)
      BY <1>2, AtFacts, AtFactsNext
    <2> QED BY <1>2, <2>1
  <1>3. ASSUME NEW c \in Channels, k = <<"wire", c>> PROVE At(k, e)' <=> At(k, e)
    <2>1. At(<<"wire", c>>, e)' <=> At(<<"wire", c>>, e)
      BY <1>3, AtFacts, AtFactsNext
    <2> QED BY <1>3, <2>1
  <1>4. ASSUME NEW g \in Emitters, k = <<"emit", g>> PROVE At(k, e)' <=> At(k, e)
    <2>1. emitting'[g] = emitting[g] /\ emitted'[g] = emitted[g]
      BY <1>4
    <2>2. At(<<"emit", g>>, e) <=> emitting[g] # NoChannel /\ e = <<g, emitted[g]>>
      BY AtFacts
    <2>3. At(<<"emit", g>>, e)' <=> emitting'[g] # NoChannel /\ e = <<g, emitted'[g]>>
      BY AtFactsNext
    <2> QED BY <1>4, <2>1, <2>2, <2>3
  <1> QED
    BY <1>1, <1>2, <1>3, <1>4, KeyFacts

\* Which places are the same.
LEMMA KeysDiffer ==
    /\ \A c \in Channels : <<"wire", c>> \in WireKeys
    /\ \A c \in Channels : <<"batch", c>> \notin WireKeys \cup {PendingKey, LostKey, EvictedKey}
    /\ \A g \in Emitters : <<"emit", g>> \notin WireKeys \cup {PendingKey, LostKey, EvictedKey}
    /\ \A c, d \in Channels : <<"batch", c>> = <<"batch", d>> => c = d
    /\ \A g, h \in Emitters : <<"emit", g>> = <<"emit", h>> => g = h
    /\ \A c \in Channels, g \in Emitters : <<"batch", c>> # <<"emit", g>>
    /\ PendingKey # LostKey /\ PendingKey # EvictedKey /\ LostKey # EvictedKey
    /\ {PendingKey, LostKey, EvictedKey} \cap WireKeys = {}
  BY DEF PendingKey, LostKey, EvictedKey, WireKeys
-----------------------------------------------------------------------------
(* What a step can do with an event. *)

LEMMA PlaceStays ==
    ASSUME NEW e \in Events, OnePlace(e), Singles(e)',
           \A k \in Keys : At(k, e)' <=> At(k, e),
           Live(e)' <=> Live(e)
    PROVE  OnePlace(e)'
  BY DEF OnePlace

\* The event is made, or leaves where it was, and is in a new place.
LEMMA PlaceFound ==
    ASSUME NEW e \in Events, Singles(e)', NEW to \in Keys, At(to, e)',
           \A k \in Keys \ {to} : ~At(k, e)',
           Live(e)'
    PROVE  OnePlace(e)'
  BY DEF OnePlace

\* Only wire and lost know what is sent; whatever sends the event takes it from where
\* it was, or makes it.
LEMMA SentPlace ==
    ASSUME TypeOK, NEW e \in Events, OnePlace(e),
           NEW c \in Channels, NEW x \in Events \cup {Ready}, Send(c, x),
           Single(pending', e), \A d \in Channels : Single(batch'[d], e),
           \A k \in Keys \ ({LostKey} \cup WireKeys) : At(k, e)' <=> At(k, e) /\ e # x,
           e = x => \A k \in {LostKey} \cup WireKeys : ~At(k, e),
           Live(e)' <=> Live(e) \/ e = x
    PROVE  OnePlace(e)'
  <1>0. /\ LostKey \in Keys /\ <<"wire", c>> \in WireKeys /\ WireKeys \subseteq Keys
        /\ \A k \in WireKeys : \E d \in Channels : k = <<"wire", d>>
        /\ \A d \in Channels : <<"wire", d>> \in WireKeys
        /\ \A d, b \in Channels : <<"wire", d>> = <<"wire", b>> => d = b
        /\ \A d \in Channels : <<"wire", d>> # LostKey
    BY DEF Keys, WireKeys, LostKey
  <1>1. CASE state[c] = "open"
    <2>1. wire' = [wire EXCEPT ![c] = Append(wire[c], x)] /\ lost' = lost
      BY <1>1 DEF Send
    <2>2. wire'[c] = Append(wire[c], x) /\ \A d \in Channels \ {c} : wire'[d] = wire[d]
      BY <2>1 DEF TypeOK
    <2>3. /\ Holds(wire'[c], e) <=> Holds(wire[c], e) \/ x = e
          /\ Single(wire[c], e) /\ (x = e => ~Holds(wire[c], e)) => Single(wire'[c], e)
      <3>1. wire[c] \in Seq(Events \cup {Ready})
        BY DEF TypeOK
      <3> QED
        BY <2>2, <3>1, AppendHolds
    <2>4. e = x => ~Holds(wire[c], e)
      BY <1>0, AtFacts
    <2>5. Singles(e)'
      BY <2>2, <2>3, <2>4 DEF OnePlace, Singles
    <2>6. \A k \in {LostKey} \cup WireKeys :
              At(k, e)' <=> At(k, e) \/ (k = <<"wire", c>> /\ e = x)
      <3>1. At(LostKey, e)' <=> At(LostKey, e)
        BY <2>1, AtFacts, AtFactsNext
      <3>2. \A d \in Channels :
                At(<<"wire", d>>, e)' <=> At(<<"wire", d>>, e) \/ (d = c /\ e = x)
        BY <2>2, <2>3, AtFacts, AtFactsNext
      <3> QED
        BY <1>0, <3>1, <3>2
    <2>7. CASE e = x
      BY <1>0, <2>5, <2>6, <2>7, PlaceFound
    <2>8. CASE e # x
      BY <2>5, <2>6, <2>8, PlaceStays
    <2> QED
      BY <2>7, <2>8
  <1>2. CASE state[c] # "open"
    <2>1. wire' = wire /\ lost' = lost \cup ({x} \ {Ready})
      BY <1>2 DEF Send
    <2>2. Singles(e)'
      BY <2>1 DEF OnePlace, Singles
    <2>3. \A k \in {LostKey} \cup WireKeys : At(k, e)' <=> At(k, e) \/ (k = LostKey /\ e = x)
      <3>1. e \in lost' <=> e \in lost \/ e = x
        BY <2>1, EventFacts
      <3>2. At(LostKey, e)' <=> At(LostKey, e) \/ e = x
        BY <3>1, AtFacts, AtFactsNext
      <3>3. \A d \in Channels : At(<<"wire", d>>, e)' <=> At(<<"wire", d>>, e)
        BY <2>1, AtFacts, AtFactsNext
      <3> QED
        BY <1>0, <3>2, <3>3
    <2>4. CASE e = x
      BY <1>0, <2>2, <2>3, <2>4, PlaceFound
    <2>5. CASE e # x
      BY <2>2, <2>3, <2>5, PlaceStays
    <2> QED
      BY <2>4, <2>5
  <1> QED
    BY <1>1, <1>2

\* What neither sends nor makes an event nor moves one.
LEMMA QueuesKept ==
    ASSUME NEW e \in Events, OnePlace(e),
           UNCHANGED <<pending, batch, wire, emitting, emitted, lost, evicted>>
    PROVE  OnePlace(e)'
  <1>1. \A k \in Keys : At(k, e)' <=> At(k, e)
    BY DEF At
  <1>2. Singles(e)' /\ (Live(e)' <=> Live(e))
    BY DEF OnePlace, Singles, Live
  <1> QED
    BY <1>1, <1>2, PlaceStays
-----------------------------------------------------------------------------
(* The steps. *)

\* Making an event changes what is live by that event only.
LEMMA EventMade ==
    ASSUME TypeOK, NEW s \in Senders, emitted' = [emitted EXCEPT ![s] = @ + 1]
    PROVE  /\ \A e \in Events : Live(e)' <=> Live(e) \/ e = <<s, emitted[s] + 1>>
           /\ ~Live(<<s, emitted[s] + 1>>)
  <1>1. /\ emitted[s] \in Nat /\ emitted'[s] = emitted[s] + 1
        /\ \A r \in Senders \ {s} : emitted'[r] = emitted[r]
    BY DEF TypeOK
  <1>2. ASSUME NEW e \in Events
        PROVE  Live(e)' <=> Live(e) \/ e = <<s, emitted[s] + 1>>
    <2>1. e[1] \in Senders /\ e[2] \in Nat /\ e = <<e[1], e[2]>>
      BY EventFacts, BoundTyped
    <2>2. CASE e[1] # s
      BY <1>1, <2>1, <2>2 DEF Live
    <2>3. CASE e[1] = s
      <3>1. e = <<s, emitted[s] + 1>> <=> e[2] = emitted[s] + 1
        BY <2>1, <2>3
      <3> QED
        BY <1>1, <2>1, <2>3, <3>1 DEF Live
    <2> QED
      BY <2>2, <2>3
  <1>3. ~Live(<<s, emitted[s] + 1>>)
    <2>1. ~(emitted[s] + 1 <= emitted[s])
      BY <1>1
    <2> QED
      BY <2>1 DEF Live
  <1> QED
    BY <1>2, <1>3

\* An event that is in one place is in no other.
LEMMA OnlyThere ==
    ASSUME NEW e \in Events, OnePlace(e), NEW k \in Keys, At(k, e)
    PROVE  Live(e) /\ \A l \in Keys \ {k} : ~At(l, e)
  BY DEF OnePlace

LEMMA PublishPlace ==
    ASSUME TypeInv, NEW e \in Events, OnePlace(e), NEW c \in Channels, Publish(c)
    PROVE  OnePlace(e)'
  <1>1. /\ batch[c] = <<>> /\ pending' = <<>>
        /\ batch'[c] = pending /\ \A d \in Channels \ {c} : batch'[d] = batch[d]
        /\ UNCHANGED <<wire, lost, evicted, emitting, emitted>>
    BY DEF Publish, Register, TypeInv, TypeOK, Callbacks, emitVars, wireVars
  <1>2. Singles(e)'
    BY <1>1, EmptyHolds DEF OnePlace, Singles
  <1>3. Live(e)' <=> Live(e)
    BY <1>1 DEF Live
  <1>4. ~At(PendingKey, e)' /\ (At(<<"batch", c>>, e)' <=> At(PendingKey, e)) /\ ~At(<<"batch", c>>, e)
    <2>1. ~At(PendingKey, e)'
      BY <1>1, AtFactsNext, EmptyHolds
    <2>2. At(<<"batch", c>>, e)' <=> At(PendingKey, e)
      BY <1>1, AtFacts, AtFactsNext
    <2>3. ~At(<<"batch", c>>, e)
      <3>1. ~Holds(batch[c], e)
        BY <1>1, EmptyHolds
      <3> QED
        BY <3>1, AtFacts
    <2> QED
      BY <2>1, <2>2, <2>3
  <1>5. \A k \in Keys \ {PendingKey, <<"batch", c>>} : At(k, e)' <=> At(k, e)
    BY <1>1, AtKept
  <1>6. CASE At(PendingKey, e)
    <2>1. Live(e) /\ \A k \in Keys \ {PendingKey} : ~At(k, e)
      BY <1>6, OnlyThere, KeyFacts
    <2> QED
      BY <1>2, <1>3, <1>4, <1>5, <1>6, <2>1, PlaceFound, KeyFacts
  <1>7. CASE ~At(PendingKey, e)
    BY <1>2, <1>3, <1>4, <1>5, <1>7, PlaceStays
  <1> QED
    BY <1>6, <1>7

\* SendReady sends no event.
LEMMA SendReadyPlace ==
    ASSUME TypeInv, NEW e \in Events, OnePlace(e), NEW c \in Channels, SendReady(c)
    PROVE  OnePlace(e)'
  <1>1. Send(c, Ready) /\ UNCHANGED <<pending, batch, evicted, emitting, emitted>>
    BY DEF SendReady, emitVars
  <1>2. e # Ready
    BY EventFacts
  <1>3. \A k \in Keys \ ({LostKey} \cup WireKeys) : At(k, e)' <=> At(k, e)
    BY <1>1, AtKept, KeysDiffer
  <1>4. Single(pending', e) /\ \A d \in Channels : Single(batch'[d], e)
    BY <1>1 DEF OnePlace, Singles
  <1>5. Live(e)' <=> Live(e)
    BY <1>1 DEF Live
  <1> QED
    BY <1>1, <1>2, <1>3, <1>4, <1>5, SentPlace DEF TypeInv

\* The head of a batch is sent or lost.
LEMMA FlushPlace ==
    ASSUME TypeInv, NEW e \in Events, OnePlace(e), NEW c \in Channels, Flush(c)
    PROVE  OnePlace(e)'
  <1> DEFINE x == Head(batch[c])
  <1>1. /\ batch[c] # <<>> /\ Send(c, x) /\ batch[c] \in Seq(Events)
        /\ batch'[c] = Tail(batch[c]) /\ \A d \in Channels \ {c} : batch'[d] = batch[d]
        /\ UNCHANGED <<pending, evicted, emitting, emitted>>
    BY DEF Flush, emitVars, TypeInv, TypeOK
  <1>2. x \in Events
    BY <1>1, HeadTailProperties
  <1>3. Single(batch[c], e)
    BY DEF OnePlace, Singles
  <1>4. /\ Single(batch'[c], e)
        /\ Holds(batch'[c], e) <=> Holds(batch[c], e) /\ e # x
        /\ e = x => Holds(batch[c], e)
    BY <1>1, <1>3, TailHolds
  <1> HIDE DEF x
  <1>5. e = x => At(<<"batch", c>>, e) /\ \A k \in Keys \ {<<"batch", c>>} : ~At(k, e)
    BY <1>4, AtFacts, KeyFacts, OnlyThere
  <1>6. \A k \in Keys \ ({LostKey} \cup WireKeys) : At(k, e)' <=> At(k, e) /\ e # x
    <2>1. At(<<"batch", c>>, e)' <=> At(<<"batch", c>>, e) /\ e # x
      BY <1>4, AtFacts, AtFactsNext
    <2>2. ASSUME NEW k \in Keys \ ({LostKey} \cup WireKeys), k # <<"batch", c>>
          PROVE  At(k, e)' <=> At(k, e)
      BY <1>1, <2>2, AtKept, KeysDiffer
    <2> QED
      BY <1>5, <2>1, <2>2
  <1>7. e = x => \A k \in {LostKey} \cup WireKeys : ~At(k, e)
    <2>1. \A k \in {LostKey} \cup WireKeys : k \in Keys /\ k # <<"batch", c>>
      BY DEF Keys, WireKeys, LostKey
    <2> QED
      BY <1>5, <2>1
  <1>8. Single(pending', e) /\ \A d \in Channels : Single(batch'[d], e)
    BY <1>1, <1>4 DEF OnePlace, Singles
  <1>9. Live(e)' <=> Live(e) \/ e = x
    BY <1>1, <1>5, KeyFacts DEF Live, OnePlace
  <1> QED
    BY <1>1, <1>2, <1>6, <1>7, <1>8, <1>9, SentPlace DEF TypeInv

\* An answer is made and goes straight to the channel.
LEMMA AnswerPlace ==
    ASSUME TypeInv, NEW e \in Events, OnePlace(e), NEW c \in Channels, Answer(c)
    PROVE  OnePlace(e)'
  <1> DEFINE x == <<c, emitted[c] + 1>>
  <1>1. /\ Send(c, x) /\ emitted[c] < Bound(c)
        /\ emitted' = [emitted EXCEPT ![c] = @ + 1]
        /\ UNCHANGED <<pending, batch, evicted, emitting>>
    BY DEF Answer, callbackVars
  <1>2. c \in Senders /\ c \notin Emitters
    BY SenderFacts, ChannelsAssumption
  <1>3. x \in Events /\ (Live(e)' <=> Live(e) \/ e = x) /\ ~Live(x)
    BY <1>1, <1>2, NextEvent, EventMade DEF TypeInv
  <1>4. \A g \in Emitters : emitted'[g] = emitted[g]
    BY <1>1, <1>2, SenderFacts DEF TypeInv, TypeOK
  <1> HIDE DEF x
  <1>5. e = x => \A k \in Keys : ~At(k, e)
    BY <1>3 DEF OnePlace
  <1>6. \A k \in Keys \ ({LostKey} \cup WireKeys) : At(k, e)' <=> At(k, e) /\ e # x
    <2>1. \A k \in Keys \ ({LostKey} \cup WireKeys) : At(k, e)' <=> At(k, e)
      BY <1>1, <1>4, AtKept, KeysDiffer
    <2> QED
      BY <1>5, <2>1
  <1>7. e = x => \A k \in {LostKey} \cup WireKeys : ~At(k, e)
    BY <1>5 DEF Keys
  <1>8. Single(pending', e) /\ \A d \in Channels : Single(batch'[d], e)
    BY <1>1 DEF OnePlace, Singles
  <1> QED
    BY <1>1, <1>3, <1>6, <1>7, <1>8, SentPlace DEF TypeInv

\* What emit was about to send is sent or lost.
LEMMA EmitSendPlace ==
    ASSUME TypeInv, NEW e \in Events, OnePlace(e), NEW g \in Emitters, EmitSend(g)
    PROVE  OnePlace(e)'
  <1> DEFINE x == <<g, emitted[g]>>
             c == emitting[g]
  <1>1. /\ c \in Channels /\ Send(c, x) /\ x \in Events
        /\ emitting'[g] = NoChannel /\ \A h \in Emitters \ {g} : emitting'[h] = emitting[h]
        /\ UNCHANGED <<pending, batch, evicted, emitted>>
    BY NextEvent DEF EmitSend, callbackVars, TypeInv, TypeOK
  <1>2. /\ At(<<"emit", g>>, e) <=> e = x
        /\ ~At(<<"emit", g>>, e)'
    BY <1>1, AtFacts, AtFactsNext, ChannelsAssumption
  <1> HIDE DEF x, c
  <1>3. e = x => \A k \in Keys \ {<<"emit", g>>} : ~At(k, e)
    BY <1>2, KeyFacts, OnlyThere
  <1>4. \A k \in Keys \ ({LostKey} \cup WireKeys) : At(k, e)' <=> At(k, e) /\ e # x
    <2>1. ASSUME NEW k \in Keys \ ({LostKey} \cup WireKeys), k # <<"emit", g>>
          PROVE  At(k, e)' <=> At(k, e)
      BY <1>1, <2>1, AtKept, KeysDiffer
    <2> QED
      BY <1>2, <1>3, <2>1
  <1>5. e = x => \A k \in {LostKey} \cup WireKeys : ~At(k, e)
    <2>1. \A k \in {LostKey} \cup WireKeys : k \in Keys /\ k # <<"emit", g>>
      BY DEF Keys, WireKeys, LostKey
    <2> QED
      BY <1>3, <2>1
  <1>6. Single(pending', e) /\ \A d \in Channels : Single(batch'[d], e)
    BY <1>1 DEF OnePlace, Singles
  <1>7. Live(e)' <=> Live(e) \/ e = x
    <2>1. e = x => Live(e)
      BY <1>2, KeyFacts DEF OnePlace
    <2> QED
      BY <1>1, <2>1 DEF Live
  <1> QED
    BY <1>1, <1>4, <1>5, <1>6, <1>7, SentPlace DEF TypeInv

\* emit stores the event it makes, and evicts the oldest when pending is full, or is
\* about to send it.
LEMMA EmitPlace ==
    ASSUME TypeInv, NEW e \in Events, OnePlace(e), NEW g \in Emitters, Emit(g)
    PROVE  OnePlace(e)'
  <1> DEFINE x      == <<g, emitted[g] + 1>>
             events == Append(pending, x)
  <1>1. /\ emitting[g] = NoChannel /\ emitted[g] < Bound(g)
        /\ emitted' = [emitted EXCEPT ![g] = @ + 1]
        /\ UNCHANGED <<batch, wire, lost>>
    BY DEF Emit, MayEmit, callbackVars, wireVars
  <1>2. g \in Senders
    BY SenderFacts
  <1>3. x \in Events /\ (Live(e)' <=> Live(e) \/ e = x) /\ ~Live(x)
    BY <1>1, <1>2, NextEvent, EventMade DEF TypeInv
  <1>4. \A h \in Emitters \ {g} : emitted'[h] = emitted[h]
    BY <1>1, SenderFacts DEF TypeInv, TypeOK
  <1>5. emitted'[g] = emitted[g] + 1 /\ registered \in Channels \cup {NoChannel}
    BY <1>1, <1>2 DEF TypeInv, TypeOK
  <1>6. pending \in Seq(Events) /\ Single(pending, e)
    BY DEF TypeInv, TypeOK, OnePlace, Singles
  <1>7. \A d \in Channels : Single(batch'[d], e) /\ Single(wire'[d], e)
    BY <1>1 DEF OnePlace, Singles
  <1>8. e = x => \A k \in Keys : ~At(k, e)
    BY <1>3 DEF OnePlace
  <1>9. e = x => ~Holds(pending, e)
    BY <1>8, KeyFacts, AtFacts
  <1>10. /\ events \in Seq(Events) /\ events # <<>> /\ Single(events, e)
         /\ Holds(events, e) <=> Holds(pending, e) \/ e = x
    BY <1>3, <1>6, <1>9, AppendHolds, AppendProperties
  <1>11. ~At(<<"emit", g>>, e)
    BY <1>1, AtFacts
  <1> HIDE DEF x, events
  <1>12. CASE registered = NoChannel /\ AppendPending(x) /\ UNCHANGED emitting
    <2>1. ~At(<<"emit", g>>, e)'
      BY <1>1, <1>12, AtFactsNext
    <2>2. \A k \in Keys \ {PendingKey, EvictedKey} : At(k, e)' <=> At(k, e)
      <3>1. \A k \in Keys \ {PendingKey, EvictedKey, <<"emit", g>>} : At(k, e)' <=> At(k, e)
        BY <1>1, <1>4, <1>12, AtKept
      <3> QED
        BY <1>11, <2>1, <3>1
    <2>3. CASE pending' = events /\ UNCHANGED evicted
      <3>1. Singles(e)'
        BY <1>7, <1>10, <2>3 DEF Singles
      <3>2. At(PendingKey, e)' <=> At(PendingKey, e) \/ e = x
        BY <1>10, <2>3, AtFacts, AtFactsNext
      <3>3. At(EvictedKey, e)' <=> At(EvictedKey, e)
        BY <2>3, AtFacts, AtFactsNext
      <3>4. CASE e = x
        BY <1>3, <1>8, <2>2, <3>1, <3>2, <3>3, <3>4, PlaceFound, KeyFacts, KeysDiffer
      <3>5. CASE e # x
        BY <1>3, <2>2, <3>1, <3>2, <3>3, <3>5, PlaceStays
      <3> QED
        BY <3>4, <3>5
    <2>4. CASE pending' = Tail(events) /\ evicted' = evicted \cup {Head(events)}
                 /\ Len(events) > Capacity
      <3>1. /\ Single(Tail(events), e)
            /\ Holds(Tail(events), e) <=> Holds(events, e) /\ Head(events) # e
        BY <1>10, TailHolds
      <3>2. Head(events) = Head(pending) /\ pending # <<>>
        <4>1. Len(pending) \in Nat /\ Len(events) = Len(pending) + 1 /\ events[1] = Head(events)
              /\ \A i \in 1 .. Len(pending) : events[i] = pending[i]
          BY <1>3, <1>6, AppendProperties, LenProperties, HeadTailProperties DEF events
        <4>2. Len(pending) >= 1
          BY <2>4, <4>1, SizesAssumption
        <4> QED
          BY <1>6, <4>1, <4>2, HeadTailProperties, EmptySeq
      <3>3. Head(events) = e => At(PendingKey, e)
        <4>1. Head(events) = e => Holds(pending, e)
          BY <1>6, <3>2, TailHolds
        <4> QED
          BY <4>1, AtFacts
      <3>4. Singles(e)'
        BY <1>7, <2>4, <3>1 DEF Singles
      <3>5. At(PendingKey, e)' <=> (At(PendingKey, e) \/ e = x) /\ Head(events) # e
        BY <1>10, <2>4, <3>1, AtFacts, AtFactsNext
      <3>6. At(EvictedKey, e)' <=> At(EvictedKey, e) \/ Head(events) = e
        <4>1. e \in evicted' <=> e \in evicted \/ Head(events) = e
          BY <2>4
        <4> QED
          BY <4>1, AtFacts, AtFactsNext
      <3>7. CASE e = x
        <4>1. Head(events) # e
          BY <1>8, <3>3, <3>7, KeyFacts
        <4> QED
          BY <1>3, <1>8, <2>2, <3>4, <3>5, <3>6, <3>7, <4>1, PlaceFound, KeyFacts, KeysDiffer
      <3>8. CASE e # x /\ Head(events) = e
        <4>1. Live(e) /\ \A k \in Keys \ {PendingKey} : ~At(k, e)
          BY <3>3, <3>8, OnlyThere, KeyFacts
        <4> QED
          BY <1>3, <2>2, <3>4, <3>5, <3>6, <3>8, <4>1, PlaceFound, KeyFacts, KeysDiffer
      <3>9. CASE e # x /\ Head(events) # e
        BY <1>3, <2>2, <3>4, <3>5, <3>6, <3>9, PlaceStays
      <3> QED
        BY <3>7, <3>8, <3>9
    <2>5. Len(events) <= Capacity \/ Len(events) > Capacity
      BY <1>10, LenProperties, SizesAssumption
    <2> QED
      BY <1>12, <2>3, <2>4, <2>5 DEF AppendPending, events
  <1>13. CASE /\ registered # NoChannel
              /\ emitting' = [emitting EXCEPT ![g] = registered]
              /\ UNCHANGED <<pending, evicted>>
    <2>1. emitting'[g] = registered /\ \A h \in Emitters \ {g} : emitting'[h] = emitting[h]
      BY <1>13 DEF TypeInv, TypeOK
    <2>2. Singles(e)'
      BY <1>6, <1>7, <1>13 DEF Singles
    <2>3. At(<<"emit", g>>, e)' <=> e = x
      <3>1. At(<<"emit", g>>, e)' <=> emitting'[g] # NoChannel /\ e = <<g, emitted'[g]>>
        BY AtFactsNext
      <3> QED
        BY <1>5, <1>13, <2>1, <3>1 DEF x
    <2>4. \A k \in Keys \ {<<"emit", g>>} : At(k, e)' <=> At(k, e)
      BY <1>1, <1>4, <1>13, <2>1, AtKept
    <2>5. CASE e = x
      BY <1>3, <1>8, <2>2, <2>3, <2>4, <2>5, PlaceFound, KeyFacts
    <2>6. CASE e # x
      BY <1>3, <1>11, <2>2, <2>3, <2>4, <2>6, PlaceStays
    <2> QED
      BY <2>5, <2>6
  <1> QED
    BY <1>12, <1>13 DEF Emit, x

LEMMA DeliveryInit == Init => Delivery
  <1> SUFFICES ASSUME Init, NEW e \in Events PROVE OnePlace(e)
    BY DEF Delivery
  <1>1. Singles(e)
    BY EmptyHolds DEF Init, Singles
  <1>2. \A k \in Keys : ~At(k, e)
    <2>1. ~At(PendingKey, e) /\ ~At(LostKey, e) /\ ~At(EvictedKey, e)
      BY AtFacts, EmptyHolds DEF Init
    <2>2. ASSUME NEW c \in Channels PROVE ~At(<<"batch", c>>, e) /\ ~At(<<"wire", c>>, e)
      <3>1. ~Holds(batch[c], e) /\ ~Holds(wire[c], e)
        BY EmptyHolds DEF Init
      <3> QED
        BY <3>1, AtFacts
    <2>3. ASSUME NEW g \in Emitters PROVE ~At(<<"emit", g>>, e)
      <3>1. emitting[g] = NoChannel
        BY DEF Init
      <3> QED
        BY <3>1, AtFacts
    <2> QED
      BY <2>1, <2>2, <2>3, KeyFacts
  <1>3. ~Live(e)
    <2>1. e[1] \in Senders /\ e[2] \in Nat /\ e[2] > 0
      BY EventFacts, BoundTyped
    <2>2. emitted[e[1]] = 0
      BY <2>1 DEF Init
    <2> QED
      BY <2>1, <2>2 DEF Live
  <1> QED
    BY <1>1, <1>2, <1>3 DEF OnePlace

LEMMA DeliveryStep == TypeInv /\ Delivery /\ [Next]_vars => Delivery'
  <1> SUFFICES ASSUME TypeInv, Delivery, [Next]_vars, NEW e \in Events
               PROVE  OnePlace(e)'
    BY DEF Delivery
  <1>0. OnePlace(e)
    BY DEF Delivery
  <1>1. CASE UNCHANGED vars
    BY <1>0, <1>1, QueuesKept DEF vars, callbackVars, emitVars, wireVars
  <1>2. CASE EndSession
    BY <1>0, <1>2, QueuesKept DEF EndSession, callbackVars, emitVars, wireVars
  <1>3. ASSUME NEW c \in Channels,
               Opens(c) \/ Closes(c) \/ Refuse(c) \/ CallReadyHandler(c) \/ OnClose(c)
        PROVE  OnePlace(e)'
    <2>1. UNCHANGED <<pending, batch, wire, emitting, emitted, lost, evicted>>
      BY <1>3 DEF Opens, Closes, Refuse, CallReadyHandler, OnClose, emitVars, wireVars
    <2> QED
      BY <1>0, <2>1, QueuesKept
  <1> QED
    BY <1>0, <1>1, <1>2, <1>3, PublishPlace, SendReadyPlace, FlushPlace, AnswerPlace, EmitPlace,
       EmitSendPlace DEF Next, OnOpen

LEMMA EventsDelivered == Spec => []Delivery
  BY ChannelTypes, DeliveryInit, DeliveryStep, PTL DEF Spec

\* The places that EventOnce counts, kind by kind.
Waiting(e)    == {<<"pending", i>> : i \in {j \in DOMAIN pending : pending[j] = e}}
OnChannels(e) == UNION {  {<<"batch", c, i>> : i \in {j \in DOMAIN batch[c] : batch[c][j] = e}}
                          \cup {<<"wire", c, i>> : i \in {j \in DOMAIN wire[c] : wire[c][j] = e}}
                        : c \in Channels}
OnTheWay(e)   == {<<"emit", g>> : g \in {h \in Emitters : emitting[h] # NoChannel
                                                         /\ e = <<h, emitted[h]>>}}
Refused(e)    == {<<"lost", x>> : x \in lost \cap {e}}
Dropped(e)    == {<<"evicted", x>> : x \in evicted \cap {e}}

\* They are those that the event can be in, at a position.
LEMMA PlacesAreKeys ==
    ASSUME NEW e, NEW p
    PROVE  p \in Places(e) <=>
             \/ \E i \in DOMAIN pending : pending[i] = e /\ p = <<"pending", i>>
             \/ \E c \in Channels : \/ \E i \in DOMAIN batch[c] : batch[c][i] = e /\ p = <<"batch", c, i>>
                                    \/ \E i \in DOMAIN wire[c] : wire[c][i] = e /\ p = <<"wire", c, i>>
             \/ \E g \in Emitters : /\ emitting[g] # NoChannel /\ e = <<g, emitted[g]>>
                                    /\ p = <<"emit", g>>
             \/ e \in lost /\ p = <<"lost", e>>
             \/ e \in evicted /\ p = <<"evicted", e>>
  <1>1. p \in Waiting(e) <=> \E i \in DOMAIN pending : pending[i] = e /\ p = <<"pending", i>>
    BY DEF Waiting
  <1>2. p \in OnChannels(e) <=>
            \E c \in Channels : \/ \E i \in DOMAIN batch[c] : batch[c][i] = e /\ p = <<"batch", c, i>>
                                \/ \E i \in DOMAIN wire[c] : wire[c][i] = e /\ p = <<"wire", c, i>>
    BY DEF OnChannels
  <1>3. p \in OnTheWay(e) <=> \E g \in Emitters : /\ emitting[g] # NoChannel /\ e = <<g, emitted[g]>>
                                                /\ p = <<"emit", g>>
    BY DEF OnTheWay
  <1>4. /\ p \in Refused(e) <=> e \in lost /\ p = <<"lost", e>>
        /\ p \in Dropped(e) <=> e \in evicted /\ p = <<"evicted", e>>
    BY DEF Refused, Dropped
  <1>5. Places(e) = Waiting(e) \cup OnTheWay(e) \cup Refused(e) \cup Dropped(e) \cup OnChannels(e)
    BY Zenon DEF Places, Waiting, OnChannels, OnTheWay, Refused, Dropped
  <1> QED
    BY <1>1, <1>2, <1>3, <1>4, <1>5

LEMMA CountedOnce ==
    ASSUME NEW e, OnePlace(e), Live(e)
    PROVE  Cardinality(Places(e)) = 1
  <1>1. PICK k \in Keys : At(k, e) /\ \A l \in Keys \ {k} : ~At(l, e)
    BY DEF OnePlace
  <1>2. /\ k # PendingKey => ~Holds(pending, e)
        /\ k # LostKey => e \notin lost
        /\ k # EvictedKey => e \notin evicted
    BY <1>1, AtFacts, KeyFacts
  <1>3. ASSUME NEW c \in Channels
        PROVE  /\ k # <<"batch", c>> => ~Holds(batch[c], e)
               /\ k # <<"wire", c>> => ~Holds(wire[c], e)
    BY <1>1, AtFacts, KeyFacts
  <1>4. ASSUME NEW g \in Emitters
        PROVE  k # <<"emit", g>> => ~(emitting[g] # NoChannel /\ e = <<g, emitted[g]>>)
    BY <1>1, AtFacts, KeyFacts
  <1>5. ASSUME NEW p, p \in Places(e), \A q \in Places(e) : q = p PROVE Cardinality(Places(e)) = 1
    <2>1. Places(e) = {p}
      BY <1>5
    <2> QED
      BY <2>1, FS_Singleton
  <1>6. CASE k = PendingKey
    <2>1. PICK i \in DOMAIN pending : pending[i] = e
      BY <1>1, <1>6, AtFacts DEF Holds
    <2>2. \A j \in DOMAIN pending : pending[j] = e => j = i
      BY <2>1 DEF OnePlace, Singles, Single
    <2>3. <<"pending", i>> \in Places(e) /\ \A q \in Places(e) : q = <<"pending", i>>
      BY <1>2, <1>3, <1>4, <1>6, <2>1, <2>2, PlacesAreKeys, KeysDiffer DEF Holds, PendingKey
    <2> QED
      BY <1>5, <2>3
  <1>7. CASE k = LostKey
    <2>1. e \in lost
      BY <1>1, <1>7, AtFacts
    <2>2. <<"lost", e>> \in Places(e) /\ \A q \in Places(e) : q = <<"lost", e>>
      BY <1>2, <1>3, <1>4, <1>7, <2>1, PlacesAreKeys, KeysDiffer DEF Holds, LostKey
    <2> QED
      BY <1>5, <2>2
  <1>8. CASE k = EvictedKey
    <2>1. e \in evicted
      BY <1>1, <1>8, AtFacts
    <2>2. <<"evicted", e>> \in Places(e) /\ \A q \in Places(e) : q = <<"evicted", e>>
      BY <1>2, <1>3, <1>4, <1>8, <2>1, PlacesAreKeys, KeysDiffer DEF Holds, EvictedKey
    <2> QED
      BY <1>5, <2>2
  <1>9. ASSUME NEW c \in Channels, k = <<"batch", c>> PROVE Cardinality(Places(e)) = 1
    <2>1. PICK i \in DOMAIN batch[c] : batch[c][i] = e
      BY <1>1, <1>9, AtFacts DEF Holds
    <2>2. \A j \in DOMAIN batch[c] : batch[c][j] = e => j = i
      BY <2>1 DEF OnePlace, Singles, Single
    <2>3. <<"batch", c, i>> \in Places(e) /\ \A q \in Places(e) : q = <<"batch", c, i>>
      BY <1>2, <1>3, <1>4, <1>9, <2>1, <2>2, PlacesAreKeys, KeysDiffer DEF Holds
    <2> QED
      BY <1>5, <2>3
  <1>10. ASSUME NEW c \in Channels, k = <<"wire", c>> PROVE Cardinality(Places(e)) = 1
    <2>1. PICK i \in DOMAIN wire[c] : wire[c][i] = e
      BY <1>1, <1>10, AtFacts DEF Holds
    <2>2. \A j \in DOMAIN wire[c] : wire[c][j] = e => j = i
      BY <2>1 DEF OnePlace, Singles, Single
    <2>3. <<"wire", c, i>> \in Places(e) /\ \A q \in Places(e) : q = <<"wire", c, i>>
      BY <1>2, <1>3, <1>4, <1>10, <2>1, <2>2, PlacesAreKeys, KeysDiffer DEF Holds
    <2> QED
      BY <1>5, <2>3
  <1>11. ASSUME NEW g \in Emitters, k = <<"emit", g>> PROVE Cardinality(Places(e)) = 1
    <2>1. emitting[g] # NoChannel /\ e = <<g, emitted[g]>>
      BY <1>1, <1>11, AtFacts
    <2>2. <<"emit", g>> \in Places(e) /\ \A q \in Places(e) : q = <<"emit", g>>
      BY <1>2, <1>3, <1>4, <1>11, <2>1, PlacesAreKeys, KeysDiffer DEF Holds
    <2> QED
      BY <1>5, <2>2
  <1> QED
    BY <1>6, <1>7, <1>8, <1>9, <1>10, <1>11, KeyFacts

\* Every event is in one place: publishing a channel takes what waits for it, whole and
\* once, and neither a second channel nor an OnClose in between duplicates or drops it.
THEOREM ControlEventOnce == Spec => []EventOnce
  <1>1. TypeInv /\ Delivery => EventOnce
    <2> SUFFICES ASSUME TypeInv, Delivery, NEW s \in Senders, NEW n \in 1 .. emitted[s]
                 PROVE  Cardinality(Places(<<s, n>>)) = 1
      BY DEF EventOnce
    <2>1. <<s, n>> \in Events
      <3>1. emitted[s] \in Nat /\ emitted[s] <= Bound(s) /\ Bound(s) \in Nat
        BY BoundTyped DEF TypeInv, TypeOK, Counts
      <3> QED
        BY <3>1, EventFacts
    <2>2. Live(<<s, n>>)
      BY DEF TypeInv, TypeOK, Live
    <2> QED
      BY <2>1, <2>2, CountedOnce DEF Delivery
  <1> QED
    BY <1>1, ChannelTypes, EventsDelivered, PTL
-----------------------------------------------------------------------------
(* The order of a sender's events. *)

\* A sender's events are in the order they were made.
Increasing(s) ==
    \A i, j \in DOMAIN s : i < j /\ s[i][1] = s[j][1] => s[i][2] < s[j][2]

\* What OnOpen took from pending is in its batch or was sent or lost; what it sent of it
\* came before what it has still to send.
Order ==
    /\ Increasing(pending)
    /\ \A c \in Channels :
        /\ Increasing(batch[c])
        /\ \A e \in Events : Holds(batch[c], e) => e \in taken[c]
        /\ \A e \in taken[c] : Holds(batch[c], e) \/ Holds(wire[c], e) \/ e \in lost
        /\ \A e \in taken[c] : \A f \in Events :
               Holds(wire[c], e) /\ Holds(batch[c], f) /\ e[1] = f[1] => e[2] < f[2]

LEMMA IncreasingAppend ==
    ASSUME NEW s \in Seq(Events), Increasing(s), NEW x \in Events,
           \A f \in Events : Holds(s, f) /\ f[1] = x[1] => f[2] < x[2]
    PROVE  Increasing(Append(s, x))
  <1>1. /\ Len(s) \in Nat /\ DOMAIN s = 1 .. Len(s)
        /\ DOMAIN Append(s, x) = 1 .. Len(s) + 1
        /\ Append(s, x)[Len(s) + 1] = x
        /\ \A i \in 1 .. Len(s) : Append(s, x)[i] = s[i] /\ s[i] \in Events
    BY AppendProperties, LenProperties, ElementOfSeq
  <1>2. \A i \in 1 .. Len(s) : s[i][1] = x[1] => s[i][2] < x[2]
    BY <1>1 DEF Holds
  <1> QED
    BY <1>1, <1>2 DEF Increasing

LEMMA IncreasingTail ==
    ASSUME NEW s \in Seq(Events), Increasing(s), s # <<>>
    PROVE  /\ Increasing(Tail(s))
           /\ \A f \in Events : Holds(Tail(s), f) /\ Head(s)[1] = f[1] => Head(s)[2] < f[2]
  <1>1. /\ Len(s) \in Nat /\ DOMAIN s = 1 .. Len(s) /\ Len(s) > 0 /\ Head(s) = s[1]
        /\ DOMAIN Tail(s) = 1 .. Len(s) - 1
        /\ \A i \in 1 .. Len(s) - 1 : Tail(s)[i] = s[i + 1]
    BY HeadTailProperties, LenProperties, EmptySeq
  <1>2. Increasing(Tail(s))
    BY <1>1 DEF Increasing
  <1>3. ASSUME NEW i \in 1 .. Len(s) - 1, s[1][1] = s[i + 1][1] PROVE s[1][2] < s[i + 1][2]
    <2>1. 1 \in DOMAIN s /\ i + 1 \in DOMAIN s /\ 1 < i + 1
      BY <1>1
    <2> QED
      BY <1>3, <2>1 DEF Increasing
  <1> QED
    BY <1>1, <1>2, <1>3 DEF Holds

\* An event that is somewhere was made.
LEMMA PlacedIsLive ==
    ASSUME Delivery, NEW e \in Events, NEW k \in Keys, At(k, e)
    PROVE  e[2] <= emitted[e[1]] /\ \A l \in Keys : At(l, e) => l = k
  BY DEF Delivery, OnePlace, Live

\* Sending an event keeps OnlyFlushIsOvertaken if it overtakes nothing, or is one that
\* OnOpen took and is overtaken only by others.
LEMMA SendOvertakes ==
    ASSUME TypeOK, OnlyFlushIsOvertaken, NEW c \in Channels, NEW x \in Events \cup {Ready},
           Send(c, x), UNCHANGED taken,
           \A f \in Events : Holds(wire[c], f) /\ f[1] = x[1] /\ f[2] > x[2]
                                => x \in taken[c] /\ f \notin taken[c]
    PROVE  OnlyFlushIsOvertaken'
  <1>1. \A d \in Channels \ {c} : wire'[d] = wire[d]
    BY SendExtends
  <1>2. CASE wire'[c] = wire[c]
    <2>1. \A d \in Channels : wire'[d] = wire[d]
      BY <1>1, <1>2
    <2> QED
      BY <2>1 DEF OnlyFlushIsOvertaken
  <1>3. CASE Extends(c, x)
    <2>1. \A i \in 1 .. Len(wire[c]) : wire[c][i] \in Events \cup {Ready}
      BY ElementOfSeq DEF TypeOK
    <2>2. ASSUME NEW i \in 1 .. Len(wire[c]), wire[c][i][1] = x[1], wire[c][i][2] > x[2]
          PROVE  x \in taken[c] /\ wire[c][i] \notin taken[c]
      <3>1. CASE wire[c][i] \in Events
        <4>1. Holds(wire[c], wire[c][i])
          BY <1>3 DEF Holds, Extends
        <4> QED
          BY <2>2, <3>1, <4>1
      <3>2. CASE wire[c][i] = Ready
        <4>1. x[2] \in Nat
          BY EventFacts, BoundTyped DEF Ready
        <4> QED
          BY <2>2, <3>2, <4>1 DEF Ready
      <3> QED
        BY <2>1, <3>1, <3>2
    <2>3. ASSUME NEW i \in DOMAIN wire'[c], NEW j \in DOMAIN wire'[c], i < j,
                 wire'[c][i][1] = wire'[c][j][1], wire'[c][i][2] > wire'[c][j][2]
          PROVE  wire'[c][j] \in taken[c] /\ wire'[c][i] \notin taken[c]
      <3>1. i \in 1 .. Len(wire[c]) /\ i \in DOMAIN wire[c] /\ wire'[c][i] = wire[c][i]
        BY <1>3, <2>3 DEF Extends
      <3>2. CASE j \in 1 .. Len(wire[c])
        <4>1. j \in DOMAIN wire[c] /\ wire'[c][j] = wire[c][j]
          BY <1>3, <3>2 DEF Extends
        <4> QED
          BY <2>3, <3>1, <4>1 DEF OnlyFlushIsOvertaken
      <3>3. CASE j = Len(wire[c]) + 1
        BY <1>3, <2>2, <2>3, <3>1, <3>3 DEF Extends
      <3> QED
        BY <1>3, <3>2, <3>3 DEF Extends
    <2>4. ASSUME NEW d \in Channels, NEW i \in DOMAIN wire'[d], NEW j \in DOMAIN wire'[d], i < j,
                 wire'[d][i][1] = wire'[d][j][1], wire'[d][i][2] > wire'[d][j][2]
          PROVE  wire'[d][j] \in taken[d] /\ wire'[d][i] \notin taken[d]
      BY <1>1, <2>3, <2>4 DEF OnlyFlushIsOvertaken
    <2> QED
      BY <2>4 DEF OnlyFlushIsOvertaken
  <1> QED
    BY <1>2, <1>3, SendExtends

\* What SendText took and refused after a send.
LEMMA SendHolds ==
    ASSUME TypeOK, NEW c \in Channels, NEW x \in Events \cup {Ready}, Send(c, x)
    PROVE  /\ \A d \in Channels \ {c} : wire'[d] = wire[d]
           /\ \A e \in Events : /\ Holds(wire'[c], e) => Holds(wire[c], e) \/ e = x
                                /\ Holds(wire[c], e) => Holds(wire'[c], e)
                                /\ e \in lost => e \in lost'
                                /\ e = x => Holds(wire'[c], e) \/ e \in lost'
  <1>1. CASE state[c] = "open" /\ Extends(c, x) /\ lost' = lost
    BY <1>1, SendExtends DEF Holds, Extends
  <1>2. CASE wire'[c] = wire[c] /\ lost' = lost \cup ({x} \ {Ready})
    BY <1>2, SendExtends, EventFacts
  <1> QED
    BY <1>1, <1>2, SendExtends

\* An event that OnOpen did not take may be sent at any time.
LEMMA SendKeepsOrder ==
    ASSUME TypeOK, Order, NEW c \in Channels, NEW x \in Events \cup {Ready}, Send(c, x),
           x \notin taken[c], UNCHANGED <<pending, batch, taken>>
    PROVE  Order'
  <1> USE SendHolds
  <1>1. ASSUME NEW d \in Channels, NEW e \in taken[d]
        PROVE  /\ Holds(batch[d], e) \/ Holds(wire'[d], e) \/ e \in lost'
               /\ Holds(wire'[d], e) => Holds(wire[d], e)
    <2>1. e \in Events
      BY DEF TypeOK
    <2>2. Holds(batch[d], e) \/ Holds(wire[d], e) \/ e \in lost
      BY DEF Order
    <2>3. d = c => e # x
      OBVIOUS
    <2> QED
      BY <2>1, <2>2, <2>3
  <1> QED
    BY <1>1 DEF Order

\* Publishing takes pending in its order, and nothing of it was on the channel before.
LEMMA PublishOrder ==
    ASSUME TypeInv, Delivery, Order, OnlyFlushIsOvertaken, NEW c \in Channels, Publish(c)
    PROVE  Order' /\ OnlyFlushIsOvertaken'
  <1>1. /\ taken[c] = {} /\ pending' = <<>> /\ UNCHANGED <<wire, lost>>
        /\ batch'[c] = pending /\ taken'[c] = ToSet(pending)
        /\ \A d \in Channels \ {c} : batch'[d] = batch[d] /\ taken'[d] = taken[d]
    BY DEF Publish, Register, TypeInv, TypeOK, Callbacks, wireVars
  <1>2. \A e : e \in ToSet(pending) <=> Holds(pending, e)
    BY DEF ToSet, Holds
  <1>3. ASSUME NEW e \in Events, Holds(pending, e) PROVE ~Holds(wire[c], e)
    <2>1. At(PendingKey, e) /\ PendingKey \in Keys /\ <<"wire", c>> \in Keys
      BY <1>3, AtFacts, KeyFacts
    <2>2. <<"wire", c>> # PendingKey
      BY KeysDiffer
    <2>3. ~At(<<"wire", c>>, e)
      BY <2>1, <2>2, PlacedIsLive
    <2> QED
      BY <2>3, AtFacts
  <1>4. ToSet(pending) \subseteq Events
    BY <1>1 DEF Publish, Register, ToSet, TypeInv, TypeOK
  <1>5. Increasing(pending')
    <2>1. DOMAIN <<>> = {}
      OBVIOUS
    <2> QED
      BY <1>1, <2>1 DEF Increasing
  <1>6. ASSUME NEW d \in Channels
        PROVE  /\ Increasing(batch'[d])
               /\ \A e \in Events : Holds(batch'[d], e) => e \in taken'[d]
               /\ \A e \in taken'[d] : Holds(batch'[d], e) \/ Holds(wire'[d], e) \/ e \in lost'
               /\ \A e \in taken'[d] : \A f \in Events :
                      Holds(wire'[d], e) /\ Holds(batch'[d], f) /\ e[1] = f[1] => e[2] < f[2]
    <2>1. CASE d = c
      BY <1>1, <1>2, <1>3, <1>4, <2>1 DEF Order
    <2>2. CASE d # c
      BY <1>1, <2>2 DEF Order
    <2> QED
      BY <2>1, <2>2
  <1>7. OnlyFlushIsOvertaken'
    BY <1>1 DEF OnlyFlushIsOvertaken
  <1> QED
    BY <1>5, <1>6, <1>7 DEF Order

\* OnOpen sends what it took in order.
LEMMA FlushOrder ==
    ASSUME TypeInv, Order, OnlyFlushIsOvertaken, NEW c \in Channels, Flush(c)
    PROVE  Order' /\ OnlyFlushIsOvertaken'
  <1> DEFINE x == Head(batch[c])
  <1>1. /\ batch[c] # <<>> /\ Send(c, x) /\ batch[c] \in Seq(Events)
        /\ batch'[c] = Tail(batch[c]) /\ \A d \in Channels \ {c} : batch'[d] = batch[d]
        /\ UNCHANGED <<pending, taken>>
    BY DEF Flush, historyVars, TypeInv, TypeOK
  <1>2. x \in Events /\ Holds(batch[c], x)
    <2>1. x = batch[c][1] /\ 1 \in DOMAIN batch[c] /\ x \in Events
      BY <1>1, HeadTailProperties, LenProperties, EmptySeq
    <2> QED
      BY <2>1 DEF Holds
  <1>3. Increasing(batch'[c]) /\ \A f \in Events : Holds(batch'[c], f) /\ x[1] = f[1] => x[2] < f[2]
    BY <1>1, IncreasingTail DEF Order
  <1>4. \A e : (Holds(batch'[c], e) => Holds(batch[c], e))
               /\ (Holds(batch[c], e) => Holds(batch'[c], e) \/ e = x)
    <2>1. /\ Len(batch[c]) \in Nat /\ DOMAIN batch[c] = 1 .. Len(batch[c]) /\ x = batch[c][1]
          /\ DOMAIN batch'[c] = 1 .. Len(batch[c]) - 1
          /\ \A i \in 1 .. Len(batch[c]) - 1 : batch'[c][i] = batch[c][i + 1]
      BY <1>1, HeadTailProperties, LenProperties
    <2>2. \A i \in 1 .. Len(batch[c]) - 1 : i + 1 \in 1 .. Len(batch[c])
      BY <2>1
    <2>3. ASSUME NEW e, NEW i \in DOMAIN batch[c], batch[c][i] = e, e # x PROVE Holds(batch'[c], e)
      <3>1. i - 1 \in DOMAIN batch'[c] /\ batch'[c][i - 1] = e
        BY <2>1, <2>3
      <3> QED
        BY <3>1 DEF Holds
    <2> QED
      BY <2>1, <2>2, <2>3 DEF Holds
  <1>5. x \in taken[c]
    BY <1>2 DEF Order
  <1>6. OnlyFlushIsOvertaken'
    <2>1. ASSUME NEW f \in Events, Holds(wire[c], f), f[1] = x[1], f[2] > x[2] PROVE f \notin taken[c]
      <3>1. f[2] \in Nat /\ x[2] \in Nat
        BY <1>2, EventFacts, BoundTyped
      <3> QED
        BY <1>2, <2>1, <3>1 DEF Order
    <2> QED
      BY <1>1, <1>2, <1>5, <2>1, SendOvertakes DEF TypeInv
  <1> HIDE DEF x
  <1>7. /\ \A d \in Channels \ {c} : wire'[d] = wire[d]
        /\ \A e \in Events : /\ Holds(wire'[c], e) => Holds(wire[c], e) \/ e = x
                             /\ Holds(wire[c], e) => Holds(wire'[c], e)
                             /\ e \in lost => e \in lost'
                             /\ e = x => Holds(wire'[c], e) \/ e \in lost'
    BY <1>1, <1>2, SendHolds DEF TypeInv
  <1>8. \A d \in Channels : taken[d] \subseteq Events
    BY DEF TypeInv, TypeOK
  <1>9. ASSUME NEW d \in Channels
        PROVE  /\ Increasing(batch'[d])
               /\ \A e \in Events : Holds(batch'[d], e) => e \in taken[d]
               /\ \A e \in taken[d] : Holds(batch'[d], e) \/ Holds(wire'[d], e) \/ e \in lost'
               /\ \A e \in taken[d] : \A f \in Events :
                      Holds(wire'[d], e) /\ Holds(batch'[d], f) /\ e[1] = f[1] => e[2] < f[2]
    <2>1. CASE d = c
      <3>1. \A e \in Events : Holds(batch'[c], e) => e \in taken[c]
        BY <1>4 DEF Order
      <3>2. \A e \in taken[c] : Holds(batch'[c], e) \/ Holds(wire'[c], e) \/ e \in lost'
        BY <1>4, <1>7, <1>8 DEF Order
      <3>3. ASSUME NEW e \in taken[c], NEW f \in Events,
                   Holds(wire'[c], e), Holds(batch'[c], f), e[1] = f[1]
            PROVE  e[2] < f[2]
        <4>1. CASE e = x
          BY <1>3, <3>3, <4>1
        <4>2. CASE e # x
          BY <1>4, <1>7, <1>8, <3>3, <4>2 DEF Order
        <4> QED
          BY <4>1, <4>2
      <3> QED
        BY <1>3, <2>1, <3>1, <3>2, <3>3
    <2>2. CASE d # c
      BY <1>1, <1>7, <1>8, <2>2 DEF Order
    <2> QED
      BY <2>1, <2>2
  <1> QED
    BY <1>1, <1>6, <1>9 DEF Order

\* What OnOpen took is nowhere else, and what a sender makes or is about to send is
\* the last that it made.
LEMMA NotTaken ==
    ASSUME TypeInv, Delivery, Order, NEW c \in Channels, NEW x \in Events,
           \A k \in {LostKey, <<"batch", c>>, <<"wire", c>>} : ~At(k, x)
    PROVE  x \notin taken[c]
  BY AtFacts DEF Order

LEMMA LastMade ==
    ASSUME TypeInv, Delivery, NEW c \in Channels, NEW f \in Events, Holds(wire[c], f)
    PROVE  f[2] <= emitted[f[1]]
  <1>1. At(<<"wire", c>>, f)
    BY AtFacts
  <1> QED
    BY <1>1, KeyFacts, PlacedIsLive

LEMMA AnswerOrder ==
    ASSUME TypeInv, Delivery, Order, OnlyFlushIsOvertaken, NEW c \in Channels, Answer(c)
    PROVE  Order' /\ OnlyFlushIsOvertaken'
  <1> DEFINE x == <<c, emitted[c] + 1>>
  <1>1. Send(c, x) /\ emitted[c] < Bound(c) /\ UNCHANGED <<pending, batch, taken>>
    BY DEF Answer, callbackVars, historyVars
  <1>2. x \in Events /\ x[1] = c /\ x[2] = emitted[c] + 1 /\ emitted[c] \in Nat
    BY <1>1, NextEvent, SenderFacts DEF TypeInv, TypeOK
  <1>3. ~Live(x)
    BY <1>2 DEF Live
  <1> HIDE DEF x
  <1>4. \A k \in Keys : ~At(k, x)
    BY <1>2, <1>3, PlacedIsLive DEF Live
  <1>5. x \notin taken[c]
    BY <1>2, <1>4, NotTaken, KeyFacts
  <1>6. Order'
    BY <1>1, <1>2, <1>5, SendKeepsOrder DEF TypeInv
  <1>7. \A f \in Events : ~(Holds(wire[c], f) /\ f[1] = x[1] /\ f[2] > x[2])
    <2>1. ASSUME NEW f \in Events, Holds(wire[c], f), f[1] = x[1] PROVE ~(f[2] > x[2])
      <3>1. f[2] <= emitted[c] /\ f[2] \in Nat
        BY <1>2, <2>1, LastMade, EventFacts, BoundTyped
      <3> QED
        BY <1>2, <3>1
    <2> QED
      BY <2>1
  <1>8. OnlyFlushIsOvertaken'
    BY <1>1, <1>2, <1>7, SendOvertakes DEF TypeInv
  <1> QED
    BY <1>6, <1>8

LEMMA EmitSendOrder ==
    ASSUME TypeInv, Delivery, Order, OnlyFlushIsOvertaken, NEW g \in Emitters, EmitSend(g)
    PROVE  Order' /\ OnlyFlushIsOvertaken'
  <1> DEFINE x == <<g, emitted[g]>>
             c == emitting[g]
  <1>1. /\ c \in Channels /\ Send(c, x) /\ UNCHANGED <<pending, batch, taken>>
        /\ x \in Events /\ x[1] = g /\ x[2] = emitted[g] /\ emitted[g] \in Nat
    BY NextEvent, SenderFacts DEF EmitSend, callbackVars, historyVars, TypeInv, TypeOK
  <1>2. At(<<"emit", g>>, x)
    BY <1>1, AtFacts, ChannelsAssumption
  <1> HIDE DEF x, c
  <1>3. \A k \in {LostKey, <<"batch", c>>, <<"wire", c>>} : k \in Keys /\ k # <<"emit", g>>
    BY <1>1, KeyFacts, KeysDiffer
  <1>4. \A k \in {LostKey, <<"batch", c>>, <<"wire", c>>} : ~At(k, x)
    BY <1>1, <1>2, <1>3, KeyFacts, PlacedIsLive
  <1>5. x \notin taken[c]
    BY <1>1, <1>4, NotTaken
  <1>6. Order'
    BY <1>1, <1>5, SendKeepsOrder DEF TypeInv
  <1>7. \A f \in Events : ~(Holds(wire[c], f) /\ f[1] = x[1] /\ f[2] > x[2])
    <2>1. ASSUME NEW f \in Events, Holds(wire[c], f), f[1] = x[1] PROVE ~(f[2] > x[2])
      <3>1. f[2] <= emitted[g] /\ f[2] \in Nat
        BY <1>1, <2>1, LastMade, EventFacts, BoundTyped
      <3> QED
        BY <1>1, <3>1
    <2> QED
      BY <2>1
  <1>8. OnlyFlushIsOvertaken'
    BY <1>1, <1>7, SendOvertakes DEF TypeInv
  <1> QED
    BY <1>6, <1>8

\* emit puts the newest event at the end of pending.
LEMMA EmitOrder ==
    ASSUME TypeInv, Delivery, Order, OnlyFlushIsOvertaken, NEW g \in Emitters, Emit(g)
    PROVE  Order' /\ OnlyFlushIsOvertaken'
  <1> DEFINE x == <<g, emitted[g] + 1>>
  <1>1. emitted[g] < Bound(g) /\ UNCHANGED <<batch, wire, lost, taken>>
    BY DEF Emit, MayEmit, callbackVars, wireVars, historyVars
  <1>2. x \in Events /\ x[1] = g /\ x[2] = emitted[g] + 1 /\ emitted[g] \in Nat
    BY <1>1, NextEvent, SenderFacts DEF TypeInv, TypeOK
  <1>3. pending \in Seq(Events) /\ Increasing(pending)
    BY DEF TypeInv, TypeOK, Order
  <1>4. AppendPending(x) \/ pending' = pending
    BY DEF Emit
  <1> HIDE DEF x
  <1>5. ASSUME NEW f \in Events, Holds(pending, f), f[1] = x[1] PROVE f[2] < x[2]
    <2>1. At(PendingKey, f)
      BY <1>5, AtFacts
    <2>2. f[2] <= emitted[g] /\ f[2] \in Nat
      BY <1>2, <1>5, <2>1, KeyFacts, PlacedIsLive, EventFacts, BoundTyped
    <2> QED
      BY <1>2, <2>2
  <1>6. Increasing(Append(pending, x)) /\ Append(pending, x) \in Seq(Events)
        /\ Append(pending, x) # <<>>
    BY <1>2, <1>3, <1>5, IncreasingAppend, AppendProperties
  <1>7. Increasing(Tail(Append(pending, x)))
    BY <1>6, IncreasingTail
  <1>8. Increasing(pending')
    BY <1>3, <1>4, <1>6, <1>7 DEF AppendPending
  <1> QED
    BY <1>1, <1>8 DEF Order, OnlyFlushIsOvertaken

LEMMA OrderInit == Init => Order /\ OnlyFlushIsOvertaken
  <1> SUFFICES ASSUME Init PROVE Order /\ OnlyFlushIsOvertaken
    OBVIOUS
  <1>1. DOMAIN <<>> = {}
    OBVIOUS
  <1>2. Increasing(<<>>)
    BY <1>1 DEF Increasing
  <1> QED
    BY <1>1, <1>2, EmptyHolds DEF Init, Order, OnlyFlushIsOvertaken

LEMMA OrderStep ==
    TypeInv /\ Delivery /\ Order /\ OnlyFlushIsOvertaken /\ [Next]_vars
        => Order' /\ OnlyFlushIsOvertaken'
  <1> SUFFICES ASSUME TypeInv, Delivery, Order, OnlyFlushIsOvertaken, [Next]_vars
               PROVE  Order' /\ OnlyFlushIsOvertaken'
    OBVIOUS
  <1>1. ASSUME UNCHANGED <<pending, batch, wire, lost, taken>>
        PROVE  Order' /\ OnlyFlushIsOvertaken'
    BY <1>1 DEF Order, OnlyFlushIsOvertaken
  <1>2. CASE UNCHANGED vars \/ EndSession
    BY <1>1, <1>2 DEF vars, EndSession, callbackVars, wireVars, historyVars
  <1>3. ASSUME NEW c \in Channels,
               Opens(c) \/ Closes(c) \/ Refuse(c) \/ CallReadyHandler(c) \/ OnClose(c)
        PROVE  Order' /\ OnlyFlushIsOvertaken'
    BY <1>1, <1>3 DEF Opens, Closes, Refuse, CallReadyHandler, OnClose, wireVars, historyVars
  <1>4. ASSUME NEW c \in Channels, SendReady(c) PROVE Order' /\ OnlyFlushIsOvertaken'
    <2>1. Send(c, Ready) /\ UNCHANGED <<pending, batch, taken>>
      BY <1>4 DEF SendReady, historyVars
    <2>2. Ready \notin taken[c] /\ TypeOK
      BY EventFacts DEF TypeInv, TypeOK
    <2>3. \A f \in Events : f[1] # Ready[1]
      BY EventFacts, ChannelsAssumption DEF Senders, Ready
    <2> QED
      BY <2>1, <2>2, <2>3, SendKeepsOrder, SendOvertakes
  <1> QED
    BY <1>2, <1>3, <1>4, PublishOrder, FlushOrder, AnswerOrder, EmitOrder, EmitSendOrder
       DEF Next, OnOpen

\* A sender's events come in order on a channel, except that those OnOpen took from
\* pending may be overtaken by others.
THEOREM ControlOnlyFlushIsOvertaken == Spec => []OnlyFlushIsOvertaken
  BY ChannelTypes, EventsDelivered, OrderInit, OrderStep, PTL DEF Spec
=============================================================================

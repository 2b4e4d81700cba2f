--------------------------- MODULE SignalHubProofs ---------------------------
(***************************************************************************)
(* Proofs about SignalHub, for any number of connections and messages and  *)
(* any capacity: the queues keep their bounds, a role has one peer, nobody *)
(* sends on a closed channel, and no message is duplicated or vanishes.    *)
(*                                                                         *)
(* detach goes by the role, so it is only because a role's entry is the    *)
(* very connection being served that it closes the right channel.  The     *)
(* invariant HubInv says this together with what a closed channel means:   *)
(* its connection has been served and is never served again.               *)
(*                                                                         *)
(* For EachMessageOnce a message is followed through the queues that it    *)
(* can be in: the pending queue of the role it goes to, and the backlog,   *)
(* the channel and the output of that role's connections.  OnePlace says   *)
(* that it is in one of them, once, while it is under way or delivered,    *)
(* and in none otherwise.  Every step leaves a message where it is, moves  *)
(* it from the head of one queue to the end of another, lets it enter, or  *)
(* takes it away and says so in refused or lost.                           *)
(*                                                                         *)
(* For OnlyReplayIsOvertaken a connection gets messages from two sources.  *)
(* What attach took from the pending queue was sent before all that relay  *)
(* puts in its channel afterwards, and each source keeps the order of      *)
(* sending (InOrder).  So a message that is overtaken is one of the replay *)
(* and that which overtakes it is not.                                     *)
(***************************************************************************)
EXTENDS SignalHub, SequenceTheorems, FiniteSetTheorems, TLAPS

HubTypes == /\ peers \in [Roles -> Conns \cup {NoConn}]
            /\ handler \in [Conns -> Serving \cup {"new", "done"}]
            /\ closed \subseteq Conns

PeersServeTheirRole ==
    \A role \in Roles : peers[role] # NoConn => Role(peers[role]) = role

ClosedIsDone == \A c \in closed : handler[c] = "done"

HubInv == HubTypes /\ OnePeerPerRole /\ PeersServeTheirRole /\ ClosedIsDone

USE ConnsAssumption

\* Which connection has which role, and that NoConn is none.
LEMMA ConnRoles == ASSUME NEW c \in Conns
                   PROVE  Role(c) \in Roles /\ c # NoConn
  BY DEF Role, Roles, Conns

\* The invariant holds at first: nobody is attached or served.
LEMMA HubInit == Init => HubInv
  BY ConnRoles DEF Init, HubInv, HubTypes, OnePeerPerRole, PeersServeTheirRole,
                   ClosedIsDone, Serving

\* A connection that is served and stays so does not disturb the invariant,
\* whatever the queues do: announcing, replaying, relaying, replying.
LEMMA StillServed ==
    ASSUME HubInv, NEW c \in Conns, NEW place \in Serving,
           handler[c] \in Serving,
           handler' = [handler EXCEPT ![c] = place],
           UNCHANGED <<peers, closed>>
    PROVE  HubInv'
  <1>1. HubTypes'
    BY DEF HubInv, HubTypes
  <1>2. \A d \in Conns : handler'[d] \in Serving <=> handler[d] \in Serving
    BY DEF HubInv, HubTypes
  <1>3. OnePeerPerRole'
    BY <1>2 DEF HubInv, OnePeerPerRole
  <1>4. ClosedIsDone'
    <2> SUFFICES ASSUME NEW d \in closed PROVE handler'[d] = "done"
      BY DEF ClosedIsDone
    <2>1. d \in Conns /\ handler[d] = "done"
      BY DEF HubInv, HubTypes, ClosedIsDone
    <2>2. d # c
      BY <2>1 DEF Serving
    <2> QED BY <2>1, <2>2 DEF HubInv, HubTypes
  <1> QED BY <1>1, <1>3, <1>4 DEF HubInv, PeersServeTheirRole

\* Steps of the writer, the network and the queues leave the hub as it is.
LEMMA HubUnchanged ==
    ASSUME HubInv, UNCHANGED <<peers, handler, closed>>
    PROVE  HubInv'
  BY DEF HubInv, HubTypes, OnePeerPerRole, PeersServeTheirRole, ClosedIsDone

\* attach under the mutex: the role was free, or the newcomer is turned away.
LEMMA ConnectKeeps ==
    ASSUME HubInv, NEW c \in Conns, Connect(c)
    PROVE  HubInv'
  <1>1. /\ handler[c] = "new" /\ closed' = closed
        /\ c \notin closed
    BY DEF Connect, HubInv, ClosedIsDone
  <1>2. CASE Admit(c) /\ peers[Role(c)] = NoConn
    <2>1. /\ peers' = [peers EXCEPT ![Role(c)] = c]
          /\ handler' = [handler EXCEPT ![c] = "attached"]
      BY <1>2 DEF Admit
    <2>2. HubTypes'
      BY <1>1, <2>1, ConnRoles DEF HubInv, HubTypes, Serving
    <2>3. OnePeerPerRole'
      <3> SUFFICES ASSUME NEW d \in Conns
                   PROVE  handler'[d] \in Serving <=> peers'[Role(d)] = d
        BY DEF OnePeerPerRole
      <3>1. Role(c) \in Roles /\ Role(d) \in Roles /\ d # NoConn
        BY ConnRoles
      <3>2. handler[d] \in Serving <=> peers[Role(d)] = d
        BY DEF HubInv, OnePeerPerRole
      <3>3. CASE d = c
        BY <2>1, <3>1, <3>3 DEF HubInv, HubTypes, Serving
      <3>4. CASE d # c
        BY <1>2, <2>1, <3>1, <3>2, <3>4 DEF HubInv, HubTypes
      <3> QED BY <3>3, <3>4
    <2>4. PeersServeTheirRole'
      BY <2>1, ConnRoles DEF HubInv, HubTypes, PeersServeTheirRole
    <2>5. ClosedIsDone'
      BY <1>1, <2>1 DEF HubInv, HubTypes, ClosedIsDone
    <2> QED BY <2>2, <2>3, <2>4, <2>5 DEF HubInv
  <1>3. CASE handler' = [handler EXCEPT ![c] = "done"] /\ peers' = peers
    <2>1. HubTypes'
      BY <1>1, <1>3 DEF HubInv, HubTypes
    <2>2. \A d \in Conns : handler'[d] \in Serving <=> handler[d] \in Serving
      BY <1>1, <1>3 DEF HubInv, HubTypes, Serving
    <2>3. OnePeerPerRole'
      BY <1>3, <2>2 DEF HubInv, OnePeerPerRole
    <2>4. ClosedIsDone'
      BY <1>1, <1>3 DEF HubInv, HubTypes, ClosedIsDone
    <2> QED BY <1>3, <2>1, <2>3, <2>4 DEF HubInv, PeersServeTheirRole
  <1> QED BY <1>2, <1>3 DEF Connect, queueVars

\* detach by the role takes the connection that leaves, and no other.
LEMMA DetachKeeps ==
    ASSUME HubInv, NEW c \in Conns, Detach(c)
    PROVE  HubInv'
  <1>1. /\ handler[c] = "reading"
        /\ handler' = [handler EXCEPT ![c] = "done"]
        /\ peers' = [peers EXCEPT ![Role(c)] = NoConn]
    BY DEF Detach
  <1>2. peers[Role(c)] = c /\ Role(c) \in Roles /\ c # NoConn
    BY <1>1, ConnRoles DEF HubInv, OnePeerPerRole, Serving
  <1>3. closed' = closed \cup {c}
    BY <1>2 DEF Detach
  <1>4. HubTypes'
    BY <1>1, <1>2, <1>3 DEF HubInv, HubTypes
  <1>5. OnePeerPerRole'
    <2> SUFFICES ASSUME NEW d \in Conns
                 PROVE  handler'[d] \in Serving <=> peers'[Role(d)] = d
      BY DEF OnePeerPerRole
    <2>1. Role(d) \in Roles /\ d # NoConn
      BY ConnRoles
    <2>2. handler[d] \in Serving <=> peers[Role(d)] = d
      BY DEF HubInv, OnePeerPerRole
    <2>3. CASE d = c
      BY <1>1, <1>2, <2>1, <2>3 DEF HubInv, HubTypes, Serving
    <2>4. CASE d # c
      BY <1>1, <1>2, <2>1, <2>2, <2>4 DEF HubInv, HubTypes
    <2> QED BY <2>3, <2>4
  <1>6. PeersServeTheirRole'
    BY <1>1, <1>2 DEF HubInv, HubTypes, PeersServeTheirRole
  <1>7. ClosedIsDone'
    BY <1>1, <1>3 DEF HubInv, HubTypes, ClosedIsDone
  <1> QED BY <1>4, <1>5, <1>6, <1>7 DEF HubInv

\* Every step keeps the invariant.
LEMMA HubStep == HubInv /\ [Next]_vars => HubInv'
  <1> SUFFICES ASSUME HubInv, [Next]_vars PROVE HubInv'
    OBVIOUS
  <1>1. CASE UNCHANGED vars
    BY <1>1, HubUnchanged DEF vars, queueVars, connVars
  <1>2. ASSUME NEW c \in Conns, Connect(c) PROVE HubInv'
    BY <1>2, ConnectKeeps
  <1>3. ASSUME NEW c \in Conns, Read(c) PROVE HubInv'
    <2> DEFINE n == sent[Role(c)] + 1
    <2>1. handler[c] = "reading" /\ UNCHANGED <<peers, closed>>
      BY <1>3 DEF Read
    <2>2. \/ UNCHANGED handler
          \/ handler' = [handler EXCEPT ![c] = "reply"]
      BY <1>3 DEF Read, RelayToPeer, RelayToPending
    <2>3. CASE UNCHANGED handler
      BY <2>1, <2>3, HubUnchanged
    <2>4. CASE handler' = [handler EXCEPT ![c] = "reply"]
      BY <2>1, <2>4, StillServed DEF Serving
    <2> QED BY <2>2, <2>3, <2>4
  <1>4. ASSUME NEW c \in Conns, ReadInvalid(c) PROVE HubInv'
    BY <1>4, StillServed DEF ReadInvalid, queueVars, Serving
  <1>5. ASSUME NEW c \in Conns, Break(c) PROVE HubInv'
    BY <1>5, HubUnchanged DEF Break, queueVars
  <1>6. ASSUME NEW c \in Conns, Announce(c) PROVE HubInv'
    BY <1>6, StillServed DEF Announce, queueVars, Serving
  <1>7. ASSUME NEW c \in Conns, Replay(c) PROVE HubInv'
    BY <1>7, HubUnchanged DEF Replay, queueVars
  <1>8. ASSUME NEW c \in Conns, Replayed(c) PROVE HubInv'
    BY <1>8, StillServed DEF Replayed, queueVars, Serving
  <1>9. ASSUME NEW c \in Conns, ReplyError(c) PROVE HubInv'
    BY <1>9, StillServed DEF ReplyError, queueVars, Serving
  <1>10. ASSUME NEW c \in Conns, Detach(c) PROVE HubInv'
    BY <1>10, DetachKeeps
  <1>11. ASSUME NEW c \in Conns, WriteLoop(c) PROVE HubInv'
    BY <1>11, HubUnchanged DEF WriteLoop, Write, WriteInVain, WriterEnds, queueVars
  <1> QED BY <1>1, <1>2, <1>3, <1>4, <1>5, <1>6, <1>7, <1>8, <1>9, <1>10, <1>11
          DEF Next, Handle

\* The invariant holds throughout.
THEOREM HubInvariant == Spec => []HubInv
  BY HubInit, HubStep, PTL DEF Spec

\* A role's entry in the hub is the one connection served for the role, however
\* many connections try to attach and leave.
THEOREM HubOnePeerPerRole == Spec => []OnePeerPerRole
  <1>1. HubInv => OnePeerPerRole
    BY DEF HubInv
  <1> QED BY <1>1, HubInvariant, PTL

\* Nobody sends on a channel that detach has closed: not relay, which looks the
\* peer up, and not the goroutine that serves the connection.
THEOREM HubNeverSendsOnClosed == Spec => []NeverSendsOnClosed
  <1>1. HubInv => NeverSendsOnClosed
    <2> SUFFICES ASSUME HubInv, NEW c \in closed
                 PROVE  handler[c] \notin Serving /\ c \notin {peers[role] : role \in Roles}
      BY DEF NeverSendsOnClosed
    <2>1. c \in Conns /\ handler[c] = "done"
      BY DEF HubInv, HubTypes, ClosedIsDone
    <2>2. handler[c] \notin Serving
      BY <2>1 DEF Serving
    <2>3. ASSUME NEW role \in Roles, peers[role] = c PROVE FALSE
      <3>1. Role(c) = role
        BY <2>1, <2>3, ConnRoles DEF HubInv, PeersServeTheirRole
      <3> QED BY <2>1, <2>2, <2>3, <3>1 DEF HubInv, OnePeerPerRole
    <2> QED BY <2>2, <2>3
  <1> QED BY <1>1, HubInvariant, PTL
-----------------------------------------------------------------------------
(* Types, and the bounds of the queues. *)

USE BoundsAssumption

\* The role of a connection, and the messages that it may send.
LEMMA RoleFacts ==
    ASSUME NEW c \in Conns
    PROVE  /\ Role(c) \in Roles /\ Other(Role(c)) \in Roles
           /\ MaxSent(Role(c)) \in Nat
           /\ \A n \in 1 .. MaxSent(Role(c)) : n \in Messages /\ Relayed(n) \in Wire
  BY DEF Role, Roles, Other, MaxSent, Messages, Wire, Conns

\* The parts of TypeOK that the steps change, one group each.
QueueTypes == /\ pending \in [Roles -> Seq(Messages)]
              /\ \A role \in Roles : Len(pending[role]) <= Capacity
SendTypes  == /\ send \in [Conns -> Seq(Wire)]
              /\ \A c \in Conns : Len(send[c]) <= Capacity
SentTypes  == sent \in [Roles -> Nat] /\ \A role \in Roles : sent[role] <= MaxSent(role)
PlaceTypes == /\ backlog \in [Conns -> Seq(Messages)]
              /\ delivered \in [Conns -> Seq(Messages)]
              /\ replayed \in [Conns -> SUBSET Messages]
              /\ writer \in [Conns -> {"none", "running", "stopped"}]
              /\ broken \subseteq Conns
LossTypes  == refused \in [Roles -> SUBSET Messages] /\ lost \in [Roles -> SUBSET Messages]

LEMMA TypeParts ==
    TypeOK <=> HubTypes /\ QueueTypes /\ SendTypes /\ SentTypes /\ PlaceTypes /\ LossTypes
  BY DEF TypeOK, HubTypes, QueueTypes, SendTypes, SentTypes, PlaceTypes, LossTypes

\* peer.send <- message keeps the channel within its capacity.
LEMMA PutTypes ==
    ASSUME SendTypes, NEW c \in Conns, NEW message \in Wire, Put(c, message)
    PROVE  SendTypes'
  <1>1. send[c] \in Seq(Wire) /\ Len(send[c]) \in Nat /\ Len(send[c]) < Capacity
    BY LenProperties DEF SendTypes, Put
  <1>2. /\ Append(send[c], message) \in Seq(Wire)
        /\ Len(Append(send[c], message)) <= Capacity
    BY <1>1, AppendProperties
  <1>3. send' = [send EXCEPT ![c] = Append(send[c], message)]
    BY DEF Put
  <1>4. send' \in [Conns -> Seq(Wire)]
    BY <1>2, <1>3 DEF SendTypes
  <1>5. \A d \in Conns : Len(send'[d]) <= Capacity
    BY <1>2, <1>3 DEF SendTypes
  <1> QED
    BY <1>4, <1>5 DEF SendTypes

\* Taking a message from a channel.
LEMMA TakenTypes ==
    ASSUME SendTypes, NEW c \in Conns, send[c] # <<>>, Taken(c)
    PROVE  SendTypes' /\ Head(send[c]) \in Wire
  <1>1. send[c] \in Seq(Wire) /\ Len(send[c]) \in Nat /\ Len(send[c]) <= Capacity
    BY LenProperties DEF SendTypes
  <1>2. Tail(send[c]) \in Seq(Wire) /\ Head(send[c]) \in Wire
        /\ Len(Tail(send[c])) = Len(send[c]) - 1
    BY <1>1, HeadTailProperties
  <1>3. send' = [send EXCEPT ![c] = Tail(send[c])]
    BY DEF Taken
  <1>4. \A d \in Conns : Len(send'[d]) <= Capacity
    BY <1>1, <1>2, <1>3 DEF SendTypes
  <1> QED
    BY <1>2, <1>3, <1>4 DEF SendTypes

\* A message that nobody is attached for: the queue keeps the last ones.
LEMMA PendingTypes ==
    ASSUME QueueTypes, LossTypes, NEW c \in Conns, NEW n \in Messages, RelayToPending(c, n)
    PROVE  QueueTypes' /\ LossTypes'
  <1> DEFINE role  == Other(Role(c))
             queue == Append(pending[role], n)
  <1>1. role \in Roles /\ Role(c) \in Roles
    BY RoleFacts
  <1>2. pending[role] \in Seq(Messages) /\ Len(pending[role]) \in Nat
        /\ Len(pending[role]) <= Capacity
    BY <1>1, LenProperties DEF QueueTypes
  <1>3. queue \in Seq(Messages) /\ Len(queue) = Len(pending[role]) + 1 /\ queue # <<>>
    BY <1>2, AppendProperties
  <1> HIDE DEF queue, role
  <1>4. Tail(queue) \in Seq(Messages) /\ Len(Tail(queue)) = Len(queue) - 1
        /\ Head(queue) \in Messages
    BY <1>3, HeadTailProperties
  <1>5. \/ /\ Len(queue) <= Capacity
           /\ pending' = [pending EXCEPT ![role] = queue] /\ lost' = lost
        \/ /\ pending' = [pending EXCEPT ![role] = Tail(queue)]
           /\ lost' = [lost EXCEPT ![Role(c)] = @ \cup {Head(queue)}]
    BY <1>2, <1>3 DEF RelayToPending, role, queue
  <1>6. refused' = refused
    BY DEF RelayToPending
  <1>7. QueueTypes'
    <2>1. ASSUME NEW q \in Seq(Messages), Len(q) <= Capacity,
                 pending' = [pending EXCEPT ![role] = q]
          PROVE  QueueTypes'
      BY <1>1, <2>1 DEF QueueTypes
    <2>2. Len(Tail(queue)) <= Capacity
      BY <1>2, <1>3, <1>4
    <2> QED
      BY <1>3, <1>4, <1>5, <2>1, <2>2
  <1>8. LossTypes'
    BY <1>1, <1>4, <1>5, <1>6 DEF LossTypes
  <1> QED
    BY <1>7, <1>8

LEMMA HubTypesInit == Init => TypeOK
  <1> SUFFICES ASSUME Init PROVE TypeOK
    OBVIOUS
  <1>1. <<>> \in Seq(Messages) /\ <<>> \in Seq(Wire) /\ Len(<<>>) = 0
    BY EmptySeq
  <1>2. HubTypes
    BY HubInit DEF HubInv
  <1>3. QueueTypes /\ SendTypes
    BY <1>1 DEF Init, QueueTypes, SendTypes
  <1>4. SentTypes /\ LossTypes
    BY DEF Init, SentTypes, LossTypes, MaxSent
  <1>5. PlaceTypes
    BY <1>1 DEF Init, PlaceTypes
  <1> QED
    BY <1>2, <1>3, <1>4, <1>5, TypeParts

\* Reading a message, whichever way it goes.
LEMMA ReadTypes ==
    ASSUME TypeOK, NEW c \in Conns, Read(c) \/ ReadInvalid(c)
    PROVE  QueueTypes' /\ SendTypes' /\ SentTypes' /\ PlaceTypes' /\ LossTypes'
  <1> DEFINE n == sent[Role(c)] + 1
  <1>1. /\ n <= MaxSent(Role(c)) /\ sent' = [sent EXCEPT ![Role(c)] = n]
        /\ UNCHANGED <<writer, broken, replayed, delivered>>
    BY DEF Read, ReadInvalid
  <1>2. Role(c) \in Roles /\ sent[Role(c)] \in Nat /\ MaxSent(Role(c)) \in Nat
    BY RoleFacts DEF TypeOK
  <1>3. n \in 1 .. MaxSent(Role(c)) /\ n \in Nat
    BY <1>1, <1>2
  <1>4. n \in Messages /\ Relayed(n) \in Wire
    BY <1>3, RoleFacts
  <1>5. SentTypes'
    BY <1>1, <1>2, <1>3, TypeParts DEF SentTypes
  <1> HIDE DEF n
  <1>6. CASE UNCHANGED <<pending, send, backlog, lost>>
             /\ (refused' = refused \/ refused' = [refused EXCEPT ![Role(c)] = @ \cup {n}])
    <2>1. LossTypes'
      BY <1>2, <1>4, <1>6, TypeParts DEF LossTypes
    <2>2. QueueTypes' /\ SendTypes' /\ PlaceTypes'
      BY <1>1, <1>6, TypeParts DEF QueueTypes, SendTypes, PlaceTypes
    <2> QED
      BY <1>5, <2>1, <2>2
  <1>7. CASE ReadInvalid(c)
    BY <1>6, <1>7 DEF ReadInvalid, queueVars, n
  <1>8. CASE Read(c) /\ RelayToPeer(c, n)
    <2> DEFINE target == peers[Other(Role(c))]
    <2>1. target \in Conns
      BY <1>8, RoleFacts DEF RelayToPeer, TypeOK
    <2>2. UNCHANGED <<pending, backlog, lost>>
      BY <1>8 DEF RelayToPeer
    <2>3. CASE Put(target, Relayed(n)) /\ UNCHANGED <<handler, refused>>
      <3>1. SendTypes'
        BY <1>4, <2>1, <2>3, PutTypes, TypeParts
      <3>2. QueueTypes' /\ PlaceTypes' /\ LossTypes'
        BY <1>1, <2>2, <2>3, TypeParts DEF QueueTypes, PlaceTypes, LossTypes
      <3> QED
        BY <1>5, <3>1, <3>2
    <2>4. CASE refused' = [refused EXCEPT ![Role(c)] = @ \cup {n}] /\ UNCHANGED send
      BY <1>6, <2>2, <2>4
    <2> QED
      BY <1>8, <2>3, <2>4 DEF RelayToPeer
  <1>9. CASE Read(c) /\ RelayToPending(c, n)
    <2>1. QueueTypes' /\ LossTypes'
      BY <1>4, <1>9, PendingTypes, TypeParts
    <2>2. UNCHANGED <<backlog, send>>
      BY <1>9 DEF RelayToPending
    <2>3. SendTypes' /\ PlaceTypes'
      BY <1>1, <2>2, TypeParts DEF SendTypes, PlaceTypes
    <2> QED
      BY <1>5, <2>1, <2>3
  <1> QED
    BY <1>7, <1>8, <1>9 DEF Read, n

\* attach hands the pending queue over.
LEMMA ConnectTypes ==
    ASSUME TypeOK, NEW c \in Conns, Connect(c)
    PROVE  QueueTypes' /\ SendTypes' /\ SentTypes' /\ PlaceTypes' /\ LossTypes'
  <1>1. UNCHANGED <<send, sent, delivered, refused, lost>>
    BY DEF Connect
  <1>2. SendTypes' /\ SentTypes' /\ LossTypes'
    BY <1>1, TypeParts DEF SendTypes, SentTypes, LossTypes
  <1>3. Role(c) \in Roles /\ pending[Role(c)] \in Seq(Messages)
    BY RoleFacts DEF TypeOK
  <1>4. CASE Admit(c) /\ pending' = [pending EXCEPT ![Role(c)] = <<>>] /\ UNCHANGED broken
    <2>1. <<>> \in Seq(Messages) /\ Len(<<>>) = 0
      BY EmptySeq
    <2>2. QueueTypes'
      BY <1>3, <1>4, <2>1, TypeParts DEF QueueTypes
    <2>3. {pending[Role(c)][i] : i \in DOMAIN pending[Role(c)]} \in SUBSET Messages
      BY <1>3
    <2>4. PlaceTypes'
      BY <1>1, <1>3, <1>4, <2>3, TypeParts DEF Admit, PlaceTypes
    <2> QED
      BY <1>2, <2>2, <2>4
  <1>5. CASE broken' = broken \cup {c} /\ UNCHANGED <<queueVars, backlog, replayed, writer>>
    <2>1. QueueTypes' /\ PlaceTypes'
      BY <1>1, <1>5, TypeParts DEF QueueTypes, PlaceTypes, queueVars
    <2> QED
      BY <1>2, <2>1
  <1> QED
    BY <1>4, <1>5 DEF Connect

\* The writer takes a message from the channel, and writes it or not.
LEMMA WriterTypes ==
    ASSUME TypeOK, NEW c \in Conns, WriteLoop(c)
    PROVE  QueueTypes' /\ SendTypes' /\ SentTypes' /\ PlaceTypes' /\ LossTypes'
  <1>1. UNCHANGED <<pending, backlog, broken, sent, replayed, refused>>
    BY DEF WriteLoop, Write, WriteInVain, WriterEnds, queueVars, historyVars
  <1>2. QueueTypes' /\ SentTypes'
    BY <1>1, TypeParts DEF QueueTypes, SentTypes
  <1>3. CASE WriterEnds(c)
    BY <1>1, <1>2, <1>3, TypeParts DEF WriterEnds, SendTypes, PlaceTypes, LossTypes, historyVars
  <1>4. CASE Write(c) \/ WriteInVain(c)
    <2> DEFINE message == Head(send[c])
    <2>1. send[c] # <<>> /\ Taken(c)
      BY <1>4 DEF Write, WriteInVain
    <2>2. SendTypes' /\ message \in Wire
      BY <2>1, TakenTypes, TypeParts
    <2>3. message.kind = "relayed" => message.n \in Messages
      BY <2>2 DEF Wire, Relayed, Attached, Error
    <2> HIDE DEF message
    <2>4. CASE Write(c)
      <3>1. writer' = writer /\ lost' = lost
            /\ delivered' = IF message.kind = "relayed"
                            THEN [delivered EXCEPT ![c] = Append(@, message.n)] ELSE delivered
        BY <2>4 DEF Write, message
      <3>2. message.kind = "relayed" => Append(delivered[c], message.n) \in Seq(Messages)
        BY <2>3, AppendProperties DEF TypeOK
      <3>3. delivered' \in [Conns -> Seq(Messages)]
        BY <3>1, <3>2 DEF TypeOK
      <3> QED
        BY <1>1, <1>2, <2>2, <3>1, <3>3, TypeParts DEF PlaceTypes, LossTypes
    <2>5. CASE WriteInVain(c)
      <3>1. delivered' = delivered
            /\ (writer' = writer \/ writer' = [writer EXCEPT ![c] = "stopped"])
            /\ lost' = IF message.kind = "relayed"
                       THEN [lost EXCEPT ![Other(Role(c))] = @ \cup {message.n}] ELSE lost
        BY <2>5 DEF WriteInVain, message
      <3>2. lost' \in [Roles -> SUBSET Messages]
        BY <2>3, <3>1, RoleFacts DEF TypeOK
      <3> QED
        BY <1>1, <1>2, <2>2, <3>1, <3>2, TypeParts DEF PlaceTypes, LossTypes
    <2> QED
      BY <1>4, <2>4, <2>5
  <1> QED
    BY <1>3, <1>4 DEF WriteLoop

\* handleWebSocket and the replies put what they have on the connection's own
\* channel; leaving it and a broken socket touch no queue.
LEMMA HandleTypes ==
    ASSUME TypeOK, NEW c \in Conns, Handle(c) \/ Break(c)
    PROVE  QueueTypes' /\ SendTypes' /\ SentTypes' /\ PlaceTypes' /\ LossTypes'
  <1>1. UNCHANGED <<pending, sent, replayed, delivered, refused, lost, writer>>
    BY DEF Handle, Announce, Replay, Replayed, ReplyError, Detach, Break, queueVars,
           historyVars
  <1>2. QueueTypes' /\ SentTypes' /\ LossTypes'
    BY <1>1, TypeParts DEF QueueTypes, SentTypes, LossTypes
  <1>3. CASE Announce(c) \/ ReplyError(c)
    <2>1. SendTypes'
      BY <1>3, PutTypes, TypeParts DEF Announce, ReplyError, Wire
    <2>2. PlaceTypes'
      BY <1>1, <1>3, TypeParts DEF Announce, ReplyError, PlaceTypes
    <2> QED
      BY <1>2, <2>1, <2>2
  <1>4. CASE Replay(c)
    <2>1. backlog[c] \in Seq(Messages) /\ backlog[c] # <<>>
          /\ backlog' = [backlog EXCEPT ![c] = Tail(backlog[c])] /\ broken' = broken
          /\ Put(c, Relayed(Head(backlog[c])))
      BY <1>4 DEF Replay, TypeOK
    <2>2. Tail(backlog[c]) \in Seq(Messages) /\ Head(backlog[c]) \in Messages
      BY <2>1, HeadTailProperties
    <2>3. SendTypes'
      BY <2>1, <2>2, PutTypes, TypeParts DEF Wire
    <2>4. PlaceTypes'
      BY <1>1, <2>1, <2>2, TypeParts DEF PlaceTypes
    <2> QED
      BY <1>2, <2>3, <2>4
  <1>5. CASE Replayed(c) \/ Detach(c) \/ Break(c)
    <2>1. send' = send /\ backlog' = backlog /\ (broken' = broken \/ broken' = broken \cup {c})
      BY <1>5 DEF Replayed, Detach, Break
    <2> QED
      BY <1>1, <1>2, <2>1, TypeParts DEF SendTypes, PlaceTypes
  <1> QED
    BY <1>3, <1>4, <1>5 DEF Handle

LEMMA HubTypesStep == HubInv' /\ TypeOK /\ [Next]_vars => TypeOK'
  <1> SUFFICES ASSUME HubInv', TypeOK, [Next]_vars PROVE TypeOK'
    OBVIOUS
  <1>1. HubTypes'
    BY DEF HubInv
  <1>2. QueueTypes' /\ SendTypes' /\ SentTypes' /\ PlaceTypes' /\ LossTypes'
    <2>1. CASE UNCHANGED vars
      BY <2>1, TypeParts DEF vars, queueVars, connVars, historyVars, QueueTypes, SendTypes,
                             SentTypes, PlaceTypes, LossTypes
    <2> QED
      BY <2>1, ConnectTypes, ReadTypes, HandleTypes, WriterTypes DEF Next
  <1>3. (TypeOK <=> HubTypes /\ QueueTypes /\ SendTypes /\ SentTypes /\ PlaceTypes /\ LossTypes)'
    BY DEF TypeOK, HubTypes, QueueTypes, SendTypes, SentTypes, PlaceTypes, LossTypes
  <1> QED
    BY <1>1, <1>2, <1>3

\* TypeOK: relaying, replaying and replying keep every channel and every pending
\* queue within maxPendingMessages.
THEOREM HubTypeOK == Spec => []TypeOK
  BY HubTypesInit, HubTypesStep, HubInvariant, PTL DEF Spec

\* A connection that is served has its write loop, unless that met a broken socket.
BlockedIsBroken ==
    \A c \in Conns :
        handler[c] \in Serving /\ writer[c] # "running" => c \in broken

LEMMA WriterStep == HubInv /\ TypeOK /\ BlockedIsBroken /\ [Next]_vars => BlockedIsBroken'
  <1> SUFFICES ASSUME HubInv, TypeOK, BlockedIsBroken, [Next]_vars PROVE BlockedIsBroken'
    OBVIOUS
  <1>0. ASSUME broken \subseteq broken', UNCHANGED writer,
               \A d \in Conns : handler'[d] \in Serving => handler[d] \in Serving
        PROVE  BlockedIsBroken'
    BY <1>0 DEF BlockedIsBroken
  <1>1. handler \in [Conns -> Serving \cup {"new", "done"}]
       /\ writer \in [Conns -> {"none", "running", "stopped"}]
    BY DEF TypeOK
  <1>2. CASE UNCHANGED vars
    BY <1>0, <1>2 DEF vars, connVars
  <1>3. ASSUME NEW c \in Conns, Connect(c) PROVE BlockedIsBroken'
    <2>1. CASE Admit(c) /\ UNCHANGED broken
      BY <1>1, <2>1 DEF Admit, BlockedIsBroken
    <2>2. CASE handler' = [handler EXCEPT ![c] = "done"] /\ broken' = broken \cup {c} /\ UNCHANGED writer
      BY <1>0, <1>1, <2>2 DEF Serving
    <2>3. \/ Admit(c) /\ UNCHANGED broken
          \/ handler' = [handler EXCEPT ![c] = "done"] /\ broken' = broken \cup {c} /\ UNCHANGED writer
      BY <1>3 DEF Connect
    <2> QED BY <2>1, <2>2, <2>3
  <1>4. ASSUME NEW c \in Conns, Read(c) \/ ReadInvalid(c) \/ Handle(c) \/ Break(c)
        PROVE  BlockedIsBroken'
    <2>1. broken \subseteq broken' /\ UNCHANGED writer
      BY <1>4 DEF Read, ReadInvalid, Handle, Break, Announce, Replay, Replayed, ReplyError, Detach
    <2>2. \/ UNCHANGED handler
          \/ handler[c] \in Serving /\ \E place : handler' = [handler EXCEPT ![c] = place]
      BY <1>4 DEF Read, RelayToPeer, RelayToPending, ReadInvalid, Handle, Break, Announce, Replay,
                  Replayed, ReplyError, Detach, Serving
    <2>3. \A d \in Conns : handler'[d] \in Serving => handler[d] \in Serving
      BY <1>1, <2>2
    <2> QED BY <1>0, <2>1, <2>3
  <1>5. ASSUME NEW c \in Conns, Write(c) PROVE BlockedIsBroken'
    BY <1>0, <1>5 DEF Write
  <1>6. ASSUME NEW c \in Conns, WriteInVain(c) PROVE BlockedIsBroken'
    <2>1. c \in broken /\ UNCHANGED <<handler, broken>>
          /\ (writer' = [writer EXCEPT ![c] = "stopped"] \/ UNCHANGED writer)
      BY <1>6 DEF WriteInVain
    <2> QED BY <1>1, <2>1 DEF BlockedIsBroken
  <1>7. ASSUME NEW c \in Conns, WriterEnds(c) PROVE BlockedIsBroken'
    <2>1. handler[c] = "done" /\ UNCHANGED <<handler, broken>>
          /\ writer' = [writer EXCEPT ![c] = "stopped"]
      BY <1>7 DEF WriterEnds, HubInv, ClosedIsDone
    <2>2. \A d \in Conns : handler[d] \in Serving => d # c
      BY <2>1 DEF Serving
    <2> QED BY <1>1, <2>1, <2>2 DEF BlockedIsBroken
  <1> QED BY <1>2, <1>3, <1>4, <1>5, <1>6, <1>7 DEF Next, WriteLoop

\* Announcing, replaying and replying wait for room in a channel that the connection's own
\* write loop makes: it is there as long as the connection is served, unless the socket
\* broke.  So on a whole socket the wait is for the other end to read, never for a write
\* loop that is gone; an end that stops reading can make it last.
THEOREM HubBlockedIsBroken == Spec => []BlockedIsBroken
  <1>1. Init => BlockedIsBroken
    BY DEF Init, BlockedIsBroken, Serving
  <1> QED BY <1>1, WriterStep, HubInvariant, HubTypeOK, PTL DEF Spec
-----------------------------------------------------------------------------
(* Messages. *)

Holds(s, x)  == \E i \in DOMAIN s : s[i] = x
Single(s, x) == \A i, j \in DOMAIN s : s[i] = x /\ s[j] = x => i = j

LEMMA EmptyHolds == ASSUME NEW x PROVE ~Holds(<<>>, x) /\ Single(<<>>, x)
  BY DEF Holds, Single

\* What is put at the end of a queue.
LEMMA AppendHolds ==
    ASSUME NEW S, NEW s \in Seq(S), NEW y \in S, NEW x
    PROVE  /\ Holds(Append(s, y), x) <=> (Holds(s, x) \/ y = x)
           /\ Single(s, x) /\ (y = x => ~Holds(s, x)) => Single(Append(s, y), x)
  <1>1. /\ Len(s) \in Nat /\ DOMAIN s = 1 .. Len(s)
        /\ DOMAIN Append(s, y) = 1 .. Len(s) + 1
        /\ Append(s, y)[Len(s) + 1] = y
        /\ \A i \in 1 .. Len(s) : Append(s, y)[i] = s[i]
    BY AppendProperties, LenProperties
  <1>2. Holds(Append(s, y), x) <=> (Holds(s, x) \/ y = x)
    BY <1>1 DEF Holds
  <1>3. ASSUME Single(s, x), y = x => ~Holds(s, x) PROVE Single(Append(s, y), x)
    BY <1>1, <1>3 DEF Holds, Single
  <1> QED
    BY <1>2, <1>3

\* What is left when the head of a queue is taken.
LEMMA TailHolds ==
    ASSUME NEW S, NEW s \in Seq(S), s # <<>>, NEW x, Single(s, x)
    PROVE  /\ Single(Tail(s), x)
           /\ Holds(Tail(s), x) <=> (Holds(s, x) /\ Head(s) # x)
           /\ Head(s) = x => Holds(s, x)
  <1>1. /\ Len(s) \in Nat /\ DOMAIN s = 1 .. Len(s) /\ Len(s) > 0 /\ Head(s) = s[1]
        /\ DOMAIN Tail(s) = 1 .. Len(s) - 1
        /\ \A i \in 1 .. Len(s) - 1 : Tail(s)[i] = s[i + 1]
    BY HeadTailProperties, LenProperties, EmptySeq
  <1>2. Single(Tail(s), x)
    BY <1>1 DEF Single
  <1>3. ASSUME NEW i \in DOMAIN Tail(s), Tail(s)[i] = x PROVE s[i + 1] = x /\ s[1] # x
    BY <1>1, <1>3 DEF Single
  <1>4. Holds(Tail(s), x) => Holds(s, x) /\ Head(s) # x
    BY <1>1, <1>3 DEF Holds
  <1>5. ASSUME NEW i \in DOMAIN s, s[i] = x, Head(s) # x PROVE Holds(Tail(s), x)
    <2>1. i - 1 \in DOMAIN Tail(s) /\ Tail(s)[i - 1] = x
      BY <1>1, <1>5
    <2> QED BY <2>1 DEF Holds
  <1>6. Head(s) = x => Holds(s, x)
    BY <1>1 DEF Holds
  <1> QED
    BY <1>2, <1>4, <1>5, <1>6 DEF Holds
-----------------------------------------------------------------------------
(* The queues that a message of a role can be in. *)

To(role)   == {c \in Conns : Role(c) = Other(role)}
Keys(role) == {<<"pending", NoConn>>} \cup ({"backlog", "send", "delivered"} \X To(role))

Queue(role, k) == CASE k[1] = "pending"   -> pending[Other(role)]
                    [] k[1] = "backlog"   -> backlog[k[2]]
                    [] k[1] = "send"      -> send[k[2]]
                    [] k[1] = "delivered" -> delivered[k[2]]
Item(k, n) == IF k[1] = "send" THEN Relayed(n) ELSE n

Has(role, k, n)  == Holds(Queue(role, k), Item(k, n))
Once(role, k, n) == Single(Queue(role, k), Item(k, n))

\* The message was sent, and neither refused nor lost.
Live(role, n) == n \in 1 .. sent[role] /\ n \notin refused[role] \cup lost[role]

OnePlace(role, n) ==
    /\ \A k \in Keys(role) : Once(role, k, n)
    /\ \A k, l \in Keys(role) : Has(role, k, n) /\ Has(role, l, n) => k = l
    /\ (\E k \in Keys(role) : Has(role, k, n)) <=> Live(role, n)

GoneWasSent(role) == refused[role] \cup lost[role] \subseteq 1 .. sent[role]

Delivery ==
    /\ \A role \in Roles : GoneWasSent(role)
    /\ \A role \in Roles : \A n \in Messages : OnePlace(role, n)
    /\ \A c \in Conns : handler[c] = "new" => backlog[c] = <<>>

\* What is in a queue are messages as the queue holds them.
Content(k) == IF k[1] = "send" THEN Wire ELSE Messages

LEMMA QueueTyped ==
    ASSUME TypeOK, NEW role \in Roles, NEW k \in Keys(role)
    PROVE  /\ Queue(role, k) \in Seq(Content(k))
           /\ \A n \in Messages : Item(k, n) \in Content(k)
  <1>1. Other(role) \in Roles
    BY DEF Other, Roles
  <1>2. CASE k = <<"pending", NoConn>>
    BY <1>1, <1>2 DEF TypeOK, Queue, Content, Item
  <1>3. ASSUME NEW c \in To(role), k = <<"backlog", c>> \/ k = <<"send", c>> \/ k = <<"delivered", c>>
        PROVE  /\ Queue(role, k) \in Seq(Content(k))
               /\ \A n \in Messages : Item(k, n) \in Content(k)
    <2>1. c \in Conns
      BY DEF To
    <2>2. k[1] \in {"backlog", "send", "delivered"} /\ k[2] = c
      BY <1>3
    <2>3. backlog[c] \in Seq(Messages) /\ send[c] \in Seq(Wire) /\ delivered[c] \in Seq(Messages)
      BY <2>1 DEF TypeOK
    <2>4. \A n \in Messages : Relayed(n) \in Wire
      BY DEF Wire
    <2> QED
      BY <2>2, <2>3, <2>4 DEF Queue, Content, Item
  <1> QED
    BY <1>2, <1>3 DEF Keys

LEMMA ItemsDiffer ==
    ASSUME NEW k, NEW m, NEW n, Item(k, m) = Item(k, n)
    PROVE  m = n
  BY DEF Item, Relayed
-----------------------------------------------------------------------------
(* What a step can do with a message. *)

LEMMA PlaceStays ==
    ASSUME NEW role \in Roles, NEW n \in Messages, OnePlace(role, n),
           \A k \in Keys(role) : Once(role, k, n)' /\ (Has(role, k, n)' <=> Has(role, k, n)),
           Live(role, n)' <=> Live(role, n)
    PROVE  OnePlace(role, n)'
  BY DEF OnePlace

LEMMA PlaceMoves ==
    ASSUME NEW role \in Roles, NEW n \in Messages, OnePlace(role, n),
           NEW from \in Keys(role), NEW to \in Keys(role),
           Has(role, from, n), ~Has(role, from, n)', Has(role, to, n)',
           \A k \in Keys(role) \ {from, to} : Has(role, k, n)' <=> Has(role, k, n),
           \A k \in Keys(role) : Once(role, k, n)',
           Live(role, n)' <=> Live(role, n)
    PROVE  OnePlace(role, n)'
  BY DEF OnePlace

LEMMA PlaceLeaves ==
    ASSUME NEW role \in Roles, NEW n \in Messages, OnePlace(role, n),
           NEW from \in Keys(role), Has(role, from, n), ~Has(role, from, n)',
           \A k \in Keys(role) \ {from} : Has(role, k, n)' <=> Has(role, k, n),
           \A k \in Keys(role) : Once(role, k, n)',
           ~Live(role, n)'
    PROVE  OnePlace(role, n)'
  BY DEF OnePlace

LEMMA PlaceEnters ==
    ASSUME NEW role \in Roles, NEW n \in Messages, OnePlace(role, n), ~Live(role, n),
           NEW to \in Keys(role), Has(role, to, n)',
           \A k \in Keys(role) \ {to} : Has(role, k, n)' <=> Has(role, k, n),
           \A k \in Keys(role) : Once(role, k, n)',
           Live(role, n)'
    PROVE  OnePlace(role, n)'
  BY DEF OnePlace
-----------------------------------------------------------------------------
(* What a step does to the queues. *)

\* No queue of the role changes.
LEMMA Unmoved ==
    ASSUME NEW role \in Roles, NEW n \in Messages, OnePlace(role, n),
           \A k \in Keys(role) : Queue(role, k)' = Queue(role, k),
           Live(role, n)' <=> Live(role, n)
    PROVE  OnePlace(role, n)'
  <1>1. \A k \in Keys(role) : Once(role, k, n)' /\ (Has(role, k, n)' <=> Has(role, k, n))
    BY DEF OnePlace, Once, Has
  <1> QED
    BY <1>1, PlaceStays

\* What is no message, or another one, is put at the end of a queue.
LEMMA OtherAppended ==
    ASSUME TypeOK, NEW role \in Roles, NEW n \in Messages, OnePlace(role, n),
           NEW to \in Keys(role), NEW y \in Content(to), y # Item(to, n),
           Queue(role, to)' = Append(Queue(role, to), y),
           \A k \in Keys(role) \ {to} : Queue(role, k)' = Queue(role, k),
           Live(role, n)' <=> Live(role, n)
    PROVE  OnePlace(role, n)'
  <1>1. Once(role, to, n)' /\ (Has(role, to, n)' <=> Has(role, to, n))
    BY QueueTyped, AppendHolds DEF OnePlace, Once, Has
  <1>2. \A k \in Keys(role) \ {to} : Once(role, k, n)' /\ (Has(role, k, n)' <=> Has(role, k, n))
    BY DEF OnePlace, Once, Has
  <1> QED
    BY <1>1, <1>2, PlaceStays

\* What is no message, or another one, is taken from the head of a queue.
LEMMA OtherTaken ==
    ASSUME TypeOK, NEW role \in Roles, NEW n \in Messages, OnePlace(role, n),
           NEW from \in Keys(role), Queue(role, from) # <<>>,
           Head(Queue(role, from)) # Item(from, n),
           Queue(role, from)' = Tail(Queue(role, from)),
           \A k \in Keys(role) \ {from} : Queue(role, k)' = Queue(role, k),
           Live(role, n)' <=> Live(role, n)
    PROVE  OnePlace(role, n)'
  <1>1. Once(role, from, n)' /\ (Has(role, from, n)' <=> Has(role, from, n))
    BY QueueTyped, TailHolds DEF OnePlace, Once, Has
  <1>2. \A k \in Keys(role) \ {from} : Once(role, k, n)' /\ (Has(role, k, n)' <=> Has(role, k, n))
    BY DEF OnePlace, Once, Has
  <1> QED
    BY <1>1, <1>2, PlaceStays

\* The head of a queue goes to the end of another.
LEMMA HeadMoves ==
    ASSUME TypeOK, NEW role \in Roles, NEW n \in Messages, OnePlace(role, n),
           NEW from \in Keys(role), NEW to \in Keys(role), from # to,
           NEW m \in Messages, Queue(role, from) # <<>>,
           Head(Queue(role, from)) = Item(from, m),
           Queue(role, from)' = Tail(Queue(role, from)),
           Queue(role, to)' = Append(Queue(role, to), Item(to, m)),
           \A k \in Keys(role) \ {from, to} : Queue(role, k)' = Queue(role, k),
           Live(role, n)' <=> Live(role, n)
    PROVE  OnePlace(role, n)'
  <1>1. \A k \in Keys(role) \ {from, to} :
            Once(role, k, n)' /\ (Has(role, k, n)' <=> Has(role, k, n))
    BY DEF OnePlace, Once, Has
  <1>2. /\ Once(role, from, n)'
        /\ Has(role, from, n)' <=> (Has(role, from, n) /\ Item(from, m) # Item(from, n))
        /\ Item(from, m) = Item(from, n) => Has(role, from, n)
    BY QueueTyped, TailHolds DEF OnePlace, Once, Has
  <1>3. Has(role, to, n)' <=> (Has(role, to, n) \/ Item(to, m) = Item(to, n))
    BY QueueTyped, AppendHolds DEF OnePlace, Once, Has
  <1>4. /\ Item(from, m) = Item(from, n) <=> m = n
        /\ Item(to, m) = Item(to, n) <=> m = n
    BY ItemsDiffer
  <1>5. m = n => ~Has(role, to, n)
    BY <1>2, <1>4 DEF OnePlace
  <1>6. Once(role, to, n)'
    BY <1>4, <1>5, QueueTyped, AppendHolds DEF OnePlace, Once, Has
  <1>7. CASE m = n
    BY <1>1, <1>2, <1>3, <1>4, <1>6, <1>7, PlaceMoves
  <1>8. CASE m # n
    BY <1>1, <1>2, <1>3, <1>4, <1>6, <1>8, PlaceStays
  <1> QED
    BY <1>7, <1>8

\* The head of a queue is lost.
LEMMA HeadLeaves ==
    ASSUME TypeOK, NEW role \in Roles, NEW n \in Messages, OnePlace(role, n),
           NEW from \in Keys(role),
           NEW m \in Messages, Queue(role, from) # <<>>,
           Head(Queue(role, from)) = Item(from, m),
           Queue(role, from)' = Tail(Queue(role, from)),
           \A k \in Keys(role) \ {from} : Queue(role, k)' = Queue(role, k),
           Live(role, n)' <=> Live(role, n) /\ n # m
    PROVE  OnePlace(role, n)'
  <1>1. \A k \in Keys(role) \ {from} :
            Once(role, k, n)' /\ (Has(role, k, n)' <=> Has(role, k, n))
    BY DEF OnePlace, Once, Has
  <1>2. /\ Once(role, from, n)'
        /\ Has(role, from, n)' <=> (Has(role, from, n) /\ Item(from, m) # Item(from, n))
        /\ Item(from, m) = Item(from, n) => Has(role, from, n)
    BY QueueTyped, TailHolds DEF OnePlace, Once, Has
  <1>3. Item(from, m) = Item(from, n) <=> m = n
    BY ItemsDiffer
  <1>4. CASE m = n
    BY <1>1, <1>2, <1>3, <1>4, PlaceLeaves
  <1>5. CASE m # n
    BY <1>1, <1>2, <1>3, <1>5, PlaceStays
  <1> QED
    BY <1>4, <1>5

\* A message that was not sent before is put at the end of a queue.
LEMMA Enters ==
    ASSUME TypeOK, NEW role \in Roles, NEW n \in Messages, OnePlace(role, n),
           NEW to \in Keys(role), NEW m \in Messages, ~Live(role, m),
           Queue(role, to)' = Append(Queue(role, to), Item(to, m)),
           \A k \in Keys(role) \ {to} : Queue(role, k)' = Queue(role, k),
           Live(role, n)' <=> Live(role, n) \/ n = m
    PROVE  OnePlace(role, n)'
  <1>1. \A k \in Keys(role) \ {to} :
            Once(role, k, n)' /\ (Has(role, k, n)' <=> Has(role, k, n))
    BY DEF OnePlace, Once, Has
  <1>2. Has(role, to, n)' <=> (Has(role, to, n) \/ Item(to, m) = Item(to, n))
    BY QueueTyped, AppendHolds DEF OnePlace, Once, Has
  <1>3. Item(to, m) = Item(to, n) <=> m = n
    BY ItemsDiffer
  <1>4. m = n => ~Has(role, to, n)
    BY DEF OnePlace
  <1>5. Once(role, to, n)'
    BY <1>3, <1>4, QueueTyped, AppendHolds DEF OnePlace, Once, Has
  <1>6. CASE m = n
    BY <1>1, <1>2, <1>3, <1>5, <1>6, PlaceEnters
  <1>7. CASE m # n
    BY <1>1, <1>2, <1>3, <1>5, <1>7, PlaceStays
  <1> QED
    BY <1>6, <1>7
-----------------------------------------------------------------------------
(* Which queues a step of a connection changes. *)

\* The role whose messages go to a connection.
From(c) == Other(Role(c))

LEMMA KeyFacts ==
    ASSUME NEW c \in Conns
    PROVE  /\ From(c) \in Roles /\ Other(From(c)) = Role(c) /\ Other(From(c)) \in Roles
           /\ \A kind \in {"backlog", "send", "delivered"} : <<kind, c>> \in Keys(From(c))
           /\ <<"pending", NoConn>> \in Keys(From(c))
           /\ \A role \in Roles \ {From(c)} : c \notin To(role) /\ Other(role) # Role(c)
  BY DEF From, Roles, Other, Role, To, Keys

LEMMA KeyKinds ==
    ASSUME NEW role \in Roles, NEW k \in Keys(role)
    PROVE  \/ k = <<"pending", NoConn>>
           \/ \E d \in To(role) : k \in {<<"backlog", d>>, <<"send", d>>, <<"delivered", d>>}
  BY DEF Keys

LEMMA QueueOf ==
    ASSUME NEW role, NEW d
    PROVE  /\ Queue(role, <<"pending", d>>) = pending[Other(role)]
           /\ Queue(role, <<"backlog", d>>) = backlog[d]
           /\ Queue(role, <<"send", d>>) = send[d]
           /\ Queue(role, <<"delivered", d>>) = delivered[d]
           /\ Queue(role, <<"pending", d>>)' = pending'[Other(role)]
           /\ Queue(role, <<"backlog", d>>)' = backlog'[d]
           /\ Queue(role, <<"send", d>>)' = send'[d]
           /\ Queue(role, <<"delivered", d>>)' = delivered'[d]
  BY DEF Queue

LEMMA ItemOf ==
    ASSUME NEW d, NEW n
    PROVE  /\ Item(<<"pending", d>>, n) = n /\ Item(<<"backlog", d>>, n) = n
           /\ Item(<<"delivered", d>>, n) = n /\ Item(<<"send", d>>, n) = Relayed(n)
           /\ Content(<<"send", d>>) = Wire
  BY DEF Item, Content

\* A step of c that leaves the pending messages changes c's queues at most.
LEMMA OnlyQueuesOf ==
    ASSUME NEW c \in Conns, UNCHANGED pending,
           \A d \in Conns \ {c} : /\ backlog'[d] = backlog[d] /\ send'[d] = send[d]
                                 /\ delivered'[d] = delivered[d]
    PROVE  /\ \A role \in Roles \ {From(c)} : \A k \in Keys(role) :
                  Queue(role, k)' = Queue(role, k)
           /\ \A k \in Keys(From(c)) :
                  \/ Queue(From(c), k)' = Queue(From(c), k)
                  \/ k = <<"backlog", c>> /\ backlog'[c] # backlog[c]
                  \/ k = <<"send", c>> /\ send'[c] # send[c]
                  \/ k = <<"delivered", c>> /\ delivered'[c] # delivered[c]
  <1>1. ASSUME NEW role \in Roles, NEW k \in Keys(role)
        PROVE  \/ Queue(role, k)' = Queue(role, k)
               \/ /\ c \in To(role)
                  /\ \/ k = <<"backlog", c>> /\ backlog'[c] # backlog[c]
                     \/ k = <<"send", c>> /\ send'[c] # send[c]
                     \/ k = <<"delivered", c>> /\ delivered'[c] # delivered[c]
    <2>1. CASE k = <<"pending", NoConn>>
      BY <2>1 DEF Queue
    <2>2. ASSUME NEW d \in To(role), k \in {<<"backlog", d>>, <<"send", d>>, <<"delivered", d>>}
          PROVE  \/ Queue(role, k)' = Queue(role, k)
                 \/ /\ c \in To(role)
                    /\ \/ k = <<"backlog", c>> /\ backlog'[c] # backlog[c]
                       \/ k = <<"send", c>> /\ send'[c] # send[c]
                       \/ k = <<"delivered", c>> /\ delivered'[c] # delivered[c]
      <3>1. d \in Conns
        BY DEF To
      <3>2. CASE d = c
        BY <2>2, <3>2 DEF Queue
      <3>3. CASE d # c
        BY <2>2, <3>1, <3>3 DEF Queue
      <3> QED
        BY <3>2, <3>3
    <2> QED
      BY <2>1, <2>2, KeyKinds
  <1>2. \A role \in Roles \ {From(c)} : c \notin To(role)
    BY KeyFacts
  <1>3. From(c) \in Roles
    BY KeyFacts
  <1> QED
    BY <1>1, <1>2, <1>3

\* A step that changes the pending messages for one role only.
LEMMA OnlyPending ==
    ASSUME NEW role \in Roles, UNCHANGED <<backlog, send, delivered>>,
           \A other \in Roles \ {Other(role)} : pending'[other] = pending[other]
    PROVE  /\ \A r \in Roles \ {role} : \A k \in Keys(r) : Queue(r, k)' = Queue(r, k)
           /\ \A k \in Keys(role) \ {<<"pending", NoConn>>} : Queue(role, k)' = Queue(role, k)
  <1>1. ASSUME NEW r \in Roles, NEW k \in Keys(r), r # role \/ k # <<"pending", NoConn>>
        PROVE  Queue(r, k)' = Queue(r, k)
    <2>1. r # role => Other(r) \in Roles \ {Other(role)}
      BY DEF Roles, Other
    <2>2. CASE k = <<"pending", NoConn>>
      BY <1>1, <2>1, <2>2 DEF Queue
    <2>3. CASE k # <<"pending", NoConn>>
      BY <2>3, KeyKinds DEF Queue
    <2> QED
      BY <2>2, <2>3
  <1> QED
    BY <1>1
-----------------------------------------------------------------------------
(* The steps. *)

Placed == \A role \in Roles : \A n \in Messages : OnePlace(role, n)

\* Steps that leave the queues alone.
LEMMA QuietPlaces ==
    ASSUME Placed, UNCHANGED <<pending, backlog, send, delivered, sent, refused, lost>>
    PROVE  Placed'
  <1>1. \A role \in Roles : \A k \in Keys(role) : Queue(role, k)' = Queue(role, k)
    BY DEF Queue
  <1>2. \A role \in Roles : \A n \in Messages : Live(role, n)' <=> Live(role, n)
    BY DEF Live
  <1> QED
    BY <1>1, <1>2, Unmoved DEF Placed

\* session.attached and the error replies are no messages of a role.
LEMMA PutPlaces ==
    ASSUME TypeOK, Placed, NEW c \in Conns, NEW y \in {Attached, Error}, Put(c, y),
           UNCHANGED <<pending, backlog, delivered, sent, refused, lost>>
    PROVE  Placed'
  <1> SUFFICES ASSUME NEW role \in Roles, NEW n \in Messages PROVE OnePlace(role, n)'
    BY DEF Placed
  <1>1. OnePlace(role, n) /\ (Live(role, n)' <=> Live(role, n))
    BY DEF Placed, Live
  <1>2. send[c] \in Seq(Wire) /\ send' = [send EXCEPT ![c] = Append(send[c], y)]
        /\ send'[c] = Append(send[c], y) /\ \A d \in Conns \ {c} : send'[d] = send[d]
    BY DEF TypeOK, Put
  <1>3. CASE role # From(c)
    <2>1. \A k \in Keys(role) : Queue(role, k)' = Queue(role, k)
      BY <1>2, <1>3, OnlyQueuesOf
    <2> QED BY <1>1, <2>1, Unmoved
  <1>4. CASE role = From(c)
    <2>1. \A k \in Keys(role) \ {<<"send", c>>} : Queue(role, k)' = Queue(role, k)
      BY <1>2, <1>4, OnlyQueuesOf
    <2>2. <<"send", c>> \in Keys(role)
      BY <1>4, KeyFacts
    <2>4. y \in Wire /\ y # Relayed(n)
      BY DEF Wire, Relayed, Attached, Error
    <2>5. y \in Content(<<"send", c>>) /\ y # Item(<<"send", c>>, n)
      BY <2>4 DEF Content, Item
    <2>3. Queue(role, <<"send", c>>)' = Append(Queue(role, <<"send", c>>), y)
      BY <1>2 DEF Queue
    <2> QED
      BY <1>1, <2>1, <2>2, <2>3, <2>5, OtherAppended
  <1> QED
    BY <1>3, <1>4

\* The next queued message of a connection goes to its channel.
LEMMA ReplayPlaces ==
    ASSUME TypeOK, Placed, NEW c \in Conns, Replay(c)
    PROVE  Placed'
  <1> SUFFICES ASSUME NEW role \in Roles, NEW n \in Messages PROVE OnePlace(role, n)'
    BY DEF Placed
  <1>1. OnePlace(role, n) /\ (Live(role, n)' <=> Live(role, n))
    BY DEF Placed, Live, Replay, historyVars
  <1>2. /\ backlog[c] \in Seq(Messages) /\ backlog[c] # <<>>
        /\ backlog'[c] = Tail(backlog[c])
        /\ send'[c] = Append(send[c], Relayed(Head(backlog[c])))
        /\ \A d \in Conns \ {c} : send'[d] = send[d] /\ backlog'[d] = backlog[d]
        /\ UNCHANGED <<pending, delivered>>
    BY DEF TypeOK, Put, Replay, queueVars, historyVars
  <1>3. CASE role # From(c)
    <2>1. \A k \in Keys(role) : Queue(role, k)' = Queue(role, k)
      BY <1>2, <1>3, OnlyQueuesOf
    <2> QED BY <1>1, <2>1, Unmoved
  <1>4. CASE role = From(c)
    <2> DEFINE from == <<"backlog", c>>
               to   == <<"send", c>>
               m    == Head(backlog[c])
    <2>1. \A k \in Keys(role) \ {from, to} : Queue(role, k)' = Queue(role, k)
      BY <1>2, <1>4, OnlyQueuesOf
    <2>2. from \in Keys(role) /\ to \in Keys(role) /\ from # to /\ m \in Messages
      BY <1>2, <1>4, KeyFacts, HeadTailProperties
    <2>3. /\ Queue(role, from) # <<>> /\ Head(Queue(role, from)) = Item(from, m)
          /\ Queue(role, from)' = Tail(Queue(role, from))
          /\ Queue(role, to)' = Append(Queue(role, to), Item(to, m))
      <3>1. /\ Queue(role, from) = backlog[c] /\ Queue(role, from)' = backlog'[c]
            /\ Queue(role, to) = send[c] /\ Queue(role, to)' = send'[c]
        BY QueueOf
      <3>2. Item(from, m) = m /\ Item(to, m) = Relayed(m)
        BY ItemOf
      <3> QED BY <1>2, <3>1, <3>2
    <2> HIDE DEF from, to, m
    <2> QED
      BY <1>1, <2>1, <2>2, <2>3, HeadMoves
  <1> QED
    BY <1>3, <1>4

\* attach gives a connection what was pending for its role.
LEMMA AdmitPlaces ==
    ASSUME TypeOK, Placed, NEW c \in Conns, Admit(c), backlog[c] = <<>>,
           pending' = [pending EXCEPT ![Role(c)] = <<>>],
           UNCHANGED <<send, delivered, sent, refused, lost>>
    PROVE  Placed'
  <1> SUFFICES ASSUME NEW role \in Roles, NEW n \in Messages PROVE OnePlace(role, n)'
    BY DEF Placed
  <1>1. OnePlace(role, n) /\ (Live(role, n)' <=> Live(role, n))
    BY DEF Placed, Live
  <1>2. /\ Role(c) \in Roles /\ Other(From(c)) = Role(c)
        /\ pending'[Role(c)] = <<>> /\ backlog'[c] = pending[Role(c)]
        /\ \A d \in Conns \ {c} : backlog'[d] = backlog[d]
        /\ \A r \in Roles \ {Role(c)} : pending'[r] = pending[r]
    BY KeyFacts, ConnRoles DEF TypeOK, Admit
  <1>3. CASE role # From(c)
    <2>1. c \notin To(role) /\ Other(role) \in Roles /\ Other(role) # Role(c)
      BY <1>3, KeyFacts DEF Roles, Other
    <2>2. ASSUME NEW k \in Keys(role) PROVE Queue(role, k)' = Queue(role, k)
      <3>1. CASE k = <<"pending", NoConn>>
        BY <1>2, <2>1, <3>1 DEF Queue
      <3>2. CASE k # <<"pending", NoConn>>
        BY <1>2, <2>1, <3>2, KeyKinds DEF Queue, To
      <3> QED BY <3>1, <3>2
    <2> QED BY <1>1, <2>2, Unmoved
  <1>4. CASE role = From(c)
    <2> DEFINE from == <<"pending", NoConn>>
               to   == <<"backlog", c>>
    <2>1. from \in Keys(role) /\ to \in Keys(role) /\ from # to
      BY <1>4, KeyFacts
    <2>2. /\ Queue(role, from)' = <<>> /\ Queue(role, to) = <<>>
          /\ Queue(role, to)' = Queue(role, from)
      BY <1>2, <1>4 DEF Queue
    <2>3. Item(from, n) = n /\ Item(to, n) = n
      BY DEF Item
    <2>4. ASSUME NEW k \in Keys(role) \ {from, to} PROVE Queue(role, k)' = Queue(role, k)
      <3>1. PICK d \in To(role) : k \in {<<"backlog", d>>, <<"send", d>>, <<"delivered", d>>}
        BY <2>4, KeyKinds
      <3>2. d \in Conns
        BY DEF To
      <3>3. CASE d = c
        BY <2>4, <3>1, <3>3 DEF Queue
      <3>4. CASE d # c
        BY <1>2, <3>1, <3>2, <3>4 DEF Queue
      <3> QED BY <3>3, <3>4
    <2> HIDE DEF from, to
    <2>5. \A k \in Keys(role) \ {from, to} :
              Once(role, k, n)' /\ (Has(role, k, n)' <=> Has(role, k, n))
      BY <1>1, <2>4 DEF OnePlace, Once, Has
    <2>6. /\ Once(role, from, n)' /\ ~Has(role, from, n)' /\ ~Has(role, to, n)
          /\ Once(role, to, n)' /\ (Has(role, to, n)' <=> Has(role, from, n))
      BY <1>1, <2>1, <2>2, <2>3, EmptyHolds DEF OnePlace, Once, Has
    <2>7. CASE Has(role, from, n)
      BY <1>1, <2>1, <2>5, <2>6, <2>7, PlaceMoves
    <2>8. CASE ~Has(role, from, n)
      BY <1>1, <2>1, <2>5, <2>6, <2>8, PlaceStays
    <2> QED
      BY <2>7, <2>8
  <1> QED
    BY <1>3, <1>4

\* Who sends the next message.
LEMMA NextMessage ==
    ASSUME TypeOK, \A role \in Roles : GoneWasSent(role), NEW c \in Conns,
           sent[Role(c)] + 1 <= MaxSent(Role(c)),
           sent' = [sent EXCEPT ![Role(c)] = sent[Role(c)] + 1]
    PROVE  /\ Role(c) \in Roles /\ sent[Role(c)] + 1 \in Messages
           /\ ~Live(Role(c), sent[Role(c)] + 1)
           /\ sent[Role(c)] + 1 \notin refused[Role(c)] \cup lost[Role(c)]
           /\ sent'[Role(c)] = sent[Role(c)] + 1
           /\ \A role \in Roles \ {Role(c)} : sent'[role] = sent[role]
           /\ \A n \in Messages : n \in 1 .. sent'[Role(c)] <=>
                  (n \in 1 .. sent[Role(c)] \/ n = sent[Role(c)] + 1)
  <1>1. Role(c) \in Roles /\ sent[Role(c)] \in Nat
    BY ConnRoles DEF TypeOK
  <1>2. sent[Role(c)] + 1 \in Messages
    BY <1>1, RoleFacts
  <1>3. sent'[Role(c)] = sent[Role(c)] + 1
        /\ \A role \in Roles \ {Role(c)} : sent'[role] = sent[role]
    BY <1>1 DEF TypeOK
  <1>4. sent[Role(c)] + 1 \notin 1 .. sent[Role(c)]
    BY <1>1
  <1>5. \A n \in Messages : n \in 1 .. sent[Role(c)] + 1 <=>
                  (n \in 1 .. sent[Role(c)] \/ n = sent[Role(c)] + 1)
    BY <1>1 DEF Messages
  <1> QED
    BY <1>1, <1>2, <1>3, <1>4, <1>5 DEF Live, GoneWasSent

\* A message is refused before it is in any queue.
LEMMA RefusedPlaces ==
    ASSUME TypeOK, Placed, \A role \in Roles : GoneWasSent(role), NEW c \in Conns,
           sent[Role(c)] + 1 <= MaxSent(Role(c)),
           sent' = [sent EXCEPT ![Role(c)] = sent[Role(c)] + 1],
           refused' = [refused EXCEPT ![Role(c)] = @ \cup {sent[Role(c)] + 1}],
           UNCHANGED <<pending, backlog, send, delivered, lost>>
    PROVE  Placed'
  <1> SUFFICES ASSUME NEW role \in Roles, NEW n \in Messages PROVE OnePlace(role, n)'
    BY DEF Placed
  <1>1. OnePlace(role, n)
    BY DEF Placed
  <1>2. \A k \in Keys(role) : Queue(role, k)' = Queue(role, k)
    BY DEF Queue
  <1>3. refused'[role] = IF role = Role(c) THEN refused[role] \cup {sent[Role(c)] + 1}
                                           ELSE refused[role]
    BY DEF TypeOK
  <1>5. ASSUME role # Role(c) PROVE Live(role, n)' <=> Live(role, n)
    BY <1>3, <1>5, NextMessage DEF Live
  <1>6. ASSUME role = Role(c) PROVE Live(role, n)' <=> Live(role, n)
    <2>1. n \in 1 .. sent'[role] <=> n \in 1 .. sent[role] \/ n = sent[role] + 1
      BY <1>6, NextMessage
    <2>2. n = sent[role] + 1 => ~Live(role, n)
      BY <1>6, NextMessage
    <2> QED
      BY <1>3, <1>6, <2>1, <2>2 DEF Live
  <1>4. Live(role, n)' <=> Live(role, n)
    BY <1>5, <1>6
  <1> QED
    BY <1>1, <1>2, <1>4, Unmoved

\* A message is relayed to the channel of the connection of the other role.
LEMMA RelayPlaces ==
    ASSUME TypeOK, Placed, \A role \in Roles : GoneWasSent(role), NEW c \in Conns,
           sent[Role(c)] + 1 <= MaxSent(Role(c)),
           sent' = [sent EXCEPT ![Role(c)] = sent[Role(c)] + 1],
           NEW d \in Conns, From(d) = Role(c), Put(d, Relayed(sent[Role(c)] + 1)),
           UNCHANGED <<pending, backlog, delivered, refused, lost>>
    PROVE  Placed'
  <1> SUFFICES ASSUME NEW role \in Roles, NEW n \in Messages PROVE OnePlace(role, n)'
    BY DEF Placed
  <1> DEFINE m  == sent[Role(c)] + 1
             to == <<"send", d>>
  <1>1. OnePlace(role, n)
    BY DEF Placed
  <1>2. /\ send'[d] = Append(send[d], Relayed(m))
        /\ \A e \in Conns \ {d} : send'[e] = send[e]
    BY DEF TypeOK, Put
  <1>3. CASE role # Role(c)
    <2>1. \A k \in Keys(role) : Queue(role, k)' = Queue(role, k)
      BY <1>2, <1>3, OnlyQueuesOf
    <2>2. Live(role, n)' <=> Live(role, n)
      BY <1>3, NextMessage DEF Live
    <2> QED BY <1>1, <2>1, <2>2, Unmoved
  <1>4. CASE role = Role(c)
    <2>1. \A k \in Keys(role) \ {to} : Queue(role, k)' = Queue(role, k)
      BY <1>2, <1>4, OnlyQueuesOf
    <2>2. to \in Keys(role)
      BY <1>4, KeyFacts
    <2>3. Queue(role, to)' = Append(Queue(role, to), Item(to, m))
      BY <1>2 DEF Queue, Item
    <2>4. m \in Messages /\ ~Live(role, m) /\ (Live(role, n)' <=> Live(role, n) \/ n = m)
      BY <1>4, NextMessage DEF Live
    <2> HIDE DEF m, to
    <2> QED
      BY <1>1, <2>1, <2>2, <2>3, <2>4, Enters
  <1> QED
    BY <1>3, <1>4

\* A message that is in a queue was sent.
LEMMA HeldIsLive ==
    ASSUME NEW role \in Roles, NEW n \in Messages, OnePlace(role, n),
           NEW k \in Keys(role), Has(role, k, n)
    PROVE  Live(role, n)
  BY DEF OnePlace

\* The head of a queue is in it.
LEMMA HeadIsHeld ==
    ASSUME TypeOK, NEW role \in Roles, NEW n \in Messages, OnePlace(role, n),
           NEW k \in Keys(role), Queue(role, k) # <<>>, Head(Queue(role, k)) = Item(k, n)
    PROVE  Has(role, k, n) /\ Live(role, n)
  <1>1. Has(role, k, n)
    BY QueueTyped, TailHolds DEF OnePlace, Once, Has
  <1> QED
    BY <1>1, HeldIsLive

\* A message is kept for a role that nobody is attached for, and the oldest one
\* may have to go.
LEMMA PendingPlaces ==
    ASSUME TypeOK, Placed, \A role \in Roles : GoneWasSent(role), NEW c \in Conns,
           sent[Role(c)] + 1 <= MaxSent(Role(c)),
           sent' = [sent EXCEPT ![Role(c)] = sent[Role(c)] + 1],
           RelayToPending(c, sent[Role(c)] + 1), UNCHANGED delivered
    PROVE  Placed' /\ \A role \in Roles : lost'[role] \subseteq lost[role] \cup 1 .. sent[role]
  <1> DEFINE from == Role(c)
             to   == Other(from)
             m    == sent[from] + 1
             k    == <<"pending", NoConn>>
             s    == pending[to]
             q    == Append(s, m)
  <1>1. from \in Roles /\ to \in Roles /\ k \in Keys(from) /\ m \in Messages /\ s \in Seq(Messages)
    BY NextMessage, RoleFacts DEF Keys, TypeOK
  <1>2. Queue(from, k) = s /\ Queue(from, k)' = pending'[to]
        /\ \A n \in Messages : Item(k, n) = n
    BY DEF Queue, Item
  <1>3. /\ UNCHANGED <<backlog, send, delivered, refused>>
        /\ \A other \in Roles \ {to} : pending'[other] = pending[other]
        /\ \A role \in Roles \ {from} : lost'[role] = lost[role]
    BY <1>1 DEF RelayToPending, TypeOK
  <1>4. /\ \A r \in Roles \ {from} : \A l \in Keys(r) : Queue(r, l)' = Queue(r, l)
        /\ \A l \in Keys(from) \ {k} : Queue(from, l)' = Queue(from, l)
    BY <1>1, <1>3, OnlyPending
  <1>5. ASSUME NEW role \in Roles \ {from}, NEW n \in Messages PROVE OnePlace(role, n)'
    <2>1. Live(role, n)' <=> Live(role, n)
      BY <1>3, NextMessage DEF Live
    <2> QED
      BY <1>4, <2>1, Unmoved DEF Placed
  <1>6. \/ pending'[to] = q /\ lost'[from] = lost[from]
        \/ /\ Len(q) > Capacity /\ pending'[to] = Tail(q)
           /\ lost'[from] = lost[from] \cup {Head(q)}
    BY <1>1 DEF RelayToPending, TypeOK
  <1>7. /\ ~Live(from, m) /\ m \notin refused[from] \cup lost[from]
        /\ \A n \in Messages : n \in 1 .. sent'[from] <=> n \in 1 .. sent[from] \/ n = m
    BY NextMessage
  <1> HIDE DEF from, to, m, k, s
  <1>8. CASE pending'[to] = q /\ lost'[from] = lost[from]
    <2>1. ASSUME NEW n \in Messages PROVE OnePlace(from, n)'
      <3>1. Live(from, n)' <=> Live(from, n) \/ n = m
        BY <1>1, <1>3, <1>7, <1>8 DEF Live
      <3>2. Queue(from, k)' = Append(Queue(from, k), Item(k, m))
        BY <1>1, <1>2, <1>8
      <3> QED
        BY <1>1, <1>4, <1>7, <3>1, <3>2, Enters DEF Placed
    <2> QED
      BY <1>3, <1>5, <1>8, <2>1 DEF Placed
  <1>9. CASE /\ Len(q) > Capacity /\ pending'[to] = Tail(q)
             /\ lost'[from] = lost[from] \cup {Head(q)}
    <2> DEFINE h == Head(q)
    <2>1. s # <<>> /\ q # <<>> /\ h = Head(s) /\ h \in Messages /\ q \in Seq(Messages)
      <3>1. Len(q) = Len(s) + 1 /\ Len(s) \in Nat /\ Len(s) > 0 /\ q \in Seq(Messages)
        <4>1. Len(q) = Len(s) + 1 /\ Len(s) \in Nat /\ q \in Seq(Messages)
          BY <1>1, AppendProperties, LenProperties
        <4>2. Len(q) > Capacity /\ Capacity \in Nat \ {0}
          BY <1>9, BoundsAssumption
        <4> QED
          BY <4>1, <4>2
      <3>2. q[1] = s[1] /\ s # <<>> /\ q # <<>>
        BY <1>1, <3>1, AppendProperties, EmptySeq
      <3> QED
        BY <1>1, <3>1, <3>2, HeadTailProperties
    <2>2. Has(from, k, h) /\ Live(from, h)
      BY <1>1, <1>2, <2>1, HeadIsHeld DEF Placed
    <2>3. h # m
      BY <1>7, <2>2
    <2> HIDE DEF h
    <2>4. ASSUME NEW n \in Messages PROVE OnePlace(from, n)'
      <3>1. OnePlace(from, n)
        BY <1>1 DEF Placed
      <3>2. Single(s, n) /\ (Has(from, k, n) <=> Holds(s, n)) /\ (n = m => ~Holds(s, n))
        BY <1>1, <1>2, <1>7, <3>1 DEF OnePlace, Once, Has
      <3>3. Single(q, n) /\ (Holds(q, n) <=> Holds(s, n) \/ n = m)
        BY <1>1, <3>2, AppendHolds
      <3>4. Single(Tail(q), n) /\ (Holds(Tail(q), n) <=> Holds(q, n) /\ h # n)
        BY <2>1, <3>3, TailHolds DEF h
      <3>5. Once(from, k, n)' /\ (Has(from, k, n)' <=> Holds(Tail(q), n))
        BY <1>2, <1>9, <3>4 DEF Once, Has, Item, k
      <3>6. \A l \in Keys(from) \ {k} : Once(from, l, n)' /\ (Has(from, l, n)' <=> Has(from, l, n))
        BY <1>4, <3>1 DEF OnePlace, Once, Has
      <3>7. Live(from, n)' <=> (Live(from, n) \/ n = m) /\ n # h
        BY <1>1, <1>3, <1>7, <1>9 DEF Live, h
      <3>8. CASE n = m
        BY <1>1, <1>7, <2>3, <3>1, <3>3, <3>4, <3>5, <3>6, <3>7, <3>8, PlaceEnters
      <3>9. CASE n = h
        BY <1>1, <2>2, <3>1, <3>4, <3>5, <3>6, <3>7, <3>9, PlaceLeaves
      <3>10. CASE n # m /\ n # h
        BY <1>1, <3>1, <3>2, <3>3, <3>4, <3>5, <3>6, <3>7, <3>10, PlaceStays
      <3> QED
        BY <3>8, <3>9, <3>10
    <2>5. lost'[from] \subseteq lost[from] \cup 1 .. sent[from]
      BY <1>9, <2>2 DEF Live, h
    <2> QED
      BY <1>3, <1>5, <2>4, <2>5 DEF Placed
  <1> QED
    BY <1>6, <1>8, <1>9

\* The writer's next message, which is one of the other role's or none.
LEMMA NextWritten ==
    ASSUME TypeOK, NEW c \in Conns, send[c] # <<>>, Taken(c)
    PROVE  /\ send'[c] = Tail(send[c]) /\ \A d \in Conns \ {c} : send'[d] = send[d]
           /\ \/ /\ Head(send[c]).kind = "relayed" /\ Head(send[c]).n \in Messages
                 /\ Head(send[c]) = Relayed(Head(send[c]).n)
              \/ Head(send[c]).kind # "relayed" /\ \A n : Head(send[c]) # Relayed(n)
  <1>1. send[c] \in Seq(Wire)
    BY DEF TypeOK
  <1>2. Head(send[c]) \in Wire
    BY <1>1, HeadTailProperties
  <1>3. \A message \in Wire :
              \/ /\ message.kind = "relayed" /\ message.n \in Messages
                 /\ message = Relayed(message.n)
              \/ message.kind # "relayed" /\ \A n : message # Relayed(n)
    BY DEF Wire, Relayed, Attached, Error
  <1>4. send'[c] = Tail(send[c]) /\ \A d \in Conns \ {c} : send'[d] = send[d]
    BY DEF TypeOK, Taken
  <1> QED
    BY <1>2, <1>3, <1>4

\* writeLoop writes a message.
LEMMA WritePlaces ==
    ASSUME TypeOK, Placed, NEW c \in Conns, Write(c)
    PROVE  Placed'
  <1> SUFFICES ASSUME NEW role \in Roles, NEW n \in Messages PROVE OnePlace(role, n)'
    BY DEF Placed
  <1> DEFINE from == <<"send", c>>
             to   == <<"delivered", c>>
             m    == Head(send[c]).n
  <1>1. OnePlace(role, n) /\ (Live(role, n)' <=> Live(role, n))
    BY DEF Placed, Live, Write
  <1>2. send[c] # <<>> /\ Taken(c) /\ UNCHANGED <<pending, backlog>>
    BY DEF Write, queueVars
  <1>3. delivered' = IF Head(send[c]).kind = "relayed"
                     THEN [delivered EXCEPT ![c] = Append(delivered[c], m)] ELSE delivered
    BY DEF Write
  <1>4. \A d \in Conns \ {c} : delivered'[d] = delivered[d]
    BY <1>3 DEF TypeOK
  <1>5. CASE role # From(c)
    <2>1. \A k \in Keys(role) : Queue(role, k)' = Queue(role, k)
      BY <1>2, <1>4, <1>5, NextWritten, OnlyQueuesOf
    <2> QED BY <1>1, <2>1, Unmoved
  <1>6. CASE role = From(c)
    <2>1. from \in Keys(role) /\ to \in Keys(role) /\ from # to
      BY <1>6, KeyFacts
    <2>2. Queue(role, from) # <<>> /\ Queue(role, from)' = Tail(Queue(role, from))
      BY <1>2, NextWritten DEF Queue
    <2>3. \A k \in Keys(role) \ {from, to} : Queue(role, k)' = Queue(role, k)
      BY <1>2, <1>4, <1>6, NextWritten, OnlyQueuesOf
    <2>4. Queue(role, from) = send[c] /\ Item(from, n) = Relayed(n) /\ Item(from, m) = Relayed(m)
      BY DEF Queue, Item
    <2>5. CASE Head(send[c]).kind = "relayed"
      <3>1. m \in Messages /\ Head(Queue(role, from)) = Item(from, m)
        BY <1>2, <2>4, <2>5, NextWritten
      <3>2. delivered'[c] = Append(delivered[c], m)
        BY <1>3, <2>5 DEF TypeOK
      <3>3. Queue(role, to)' = Append(Queue(role, to), Item(to, m))
        BY <3>2 DEF Queue, Item
      <3> HIDE DEF from, to, m
      <3> QED
        BY <1>1, <2>1, <2>2, <2>3, <3>1, <3>3, HeadMoves
    <2>6. CASE Head(send[c]).kind # "relayed"
      <3>1. Head(Queue(role, from)) # Item(from, n)
        BY <1>2, <2>4, <2>6, NextWritten
      <3>2. \A k \in Keys(role) \ {from} : Queue(role, k)' = Queue(role, k)
        BY <1>2, <1>3, <1>6, <2>6, NextWritten, OnlyQueuesOf
      <3> HIDE DEF from
      <3> QED
        BY <1>1, <2>1, <2>2, <3>1, <3>2, OtherTaken
    <2> QED
      BY <2>5, <2>6
  <1> QED
    BY <1>5, <1>6

\* writeLoop writes to a broken socket.
LEMMA InVainPlaces ==
    ASSUME TypeOK, Placed, NEW c \in Conns, WriteInVain(c)
    PROVE  Placed' /\ \A role \in Roles : lost'[role] \subseteq lost[role] \cup 1 .. sent[role]
  <1> DEFINE from == <<"send", c>>
             m    == Head(send[c]).n
  <1>1. send[c] # <<>> /\ Taken(c) /\ UNCHANGED <<pending, backlog, delivered, sent, refused>>
    BY DEF WriteInVain, queueVars
  <1>2. lost' = IF Head(send[c]).kind = "relayed"
                THEN [lost EXCEPT ![From(c)] = lost[From(c)] \cup {m}] ELSE lost
    BY DEF WriteInVain, From
  <1>3. From(c) \in Roles /\ from \in Keys(From(c))
    BY KeyFacts
  <1>4. \A role \in Roles \ {From(c)} : lost'[role] = lost[role]
    BY <1>2 DEF TypeOK
  <1>5. ASSUME NEW role \in Roles \ {From(c)}, NEW n \in Messages PROVE OnePlace(role, n)'
    <2>1. \A k \in Keys(role) : Queue(role, k)' = Queue(role, k)
      BY <1>1, NextWritten, OnlyQueuesOf
    <2>2. Live(role, n)' <=> Live(role, n)
      BY <1>1, <1>4 DEF Live
    <2> QED BY <2>1, <2>2, Unmoved DEF Placed
  <1>6. Queue(From(c), from) # <<>> /\ Queue(From(c), from)' = Tail(Queue(From(c), from))
    BY <1>1, NextWritten DEF Queue
  <1>7. \A k \in Keys(From(c)) \ {from} : Queue(From(c), k)' = Queue(From(c), k)
    BY <1>1, NextWritten, OnlyQueuesOf
  <1>8. Queue(From(c), from) = send[c] /\ \A n : Item(from, n) = Relayed(n)
    BY DEF Queue, Item
  <1>9. CASE Head(send[c]).kind = "relayed"
    <2>1. m \in Messages /\ Head(Queue(From(c), from)) = Item(from, m)
      BY <1>1, <1>8, <1>9, NextWritten
    <2>2. lost'[From(c)] = lost[From(c)] \cup {m}
      BY <1>2, <1>3, <1>9 DEF TypeOK
    <2> HIDE DEF from, m
    <2>3. ASSUME NEW n \in Messages PROVE OnePlace(From(c), n)'
      <3>1. Live(From(c), n)' <=> Live(From(c), n) /\ n # m
        BY <1>1, <2>2 DEF Live
      <3> QED
        BY <1>3, <1>6, <1>7, <2>1, <3>1, HeadLeaves DEF Placed
    <2>4. Live(From(c), m)
      BY <1>3, <1>6, <2>1, HeadIsHeld DEF Placed
    <2> QED
      BY <1>4, <1>5, <2>2, <2>3, <2>4 DEF Placed, Live
  <1>10. CASE Head(send[c]).kind # "relayed"
    <2>1. ASSUME NEW n \in Messages PROVE OnePlace(From(c), n)'
      <3>1. Head(Queue(From(c), from)) # Item(from, n)
        BY <1>1, <1>8, <1>10, NextWritten
      <3>2. Live(From(c), n)' <=> Live(From(c), n)
        BY <1>1, <1>2, <1>10 DEF Live
      <3> HIDE DEF from
      <3> QED
        BY <1>3, <1>6, <1>7, <3>1, <3>2, OtherTaken DEF Placed
    <2> QED
      BY <1>2, <1>5, <1>10, <2>1 DEF Placed
  <1> QED
    BY <1>9, <1>10
-----------------------------------------------------------------------------
(* The invariant. *)

Sent  == \A role \in Roles : GoneWasSent(role)
Fresh == \A c \in Conns : handler[c] = "new" => backlog[c] = <<>>

LEMMA DeliveryParts == Delivery <=> Sent /\ Placed /\ Fresh
  BY DEF Delivery, Sent, Placed, Fresh

LEMMA DeliveryInit == Init => Delivery
  <1> SUFFICES ASSUME Init PROVE Delivery
    OBVIOUS
  <1>1. Sent /\ Fresh
    BY DEF Init, Sent, GoneWasSent, Fresh
  <1>2. ASSUME NEW role \in Roles, NEW n \in Messages PROVE OnePlace(role, n)
    <2>1. ASSUME NEW k \in Keys(role) PROVE Queue(role, k) = <<>>
      <3>1. Other(role) \in Roles /\ To(role) \subseteq Conns
        BY DEF Other, Roles, To
      <3> QED
        BY <3>1, KeyKinds DEF Init, Queue
    <2>2. \A k \in Keys(role) : Once(role, k, n) /\ ~Has(role, k, n)
      BY <2>1, EmptyHolds DEF Once, Has
    <2>3. ~Live(role, n)
      BY DEF Init, Live
    <2> QED
      BY <2>2, <2>3 DEF OnePlace
  <1> QED
    BY <1>1, <1>2, DeliveryParts DEF Placed

\* A connection that has not attached yet replays nothing.
LEMMA FreshStep == TypeOK /\ Fresh /\ [Next]_vars => Fresh'
  <1> SUFFICES ASSUME TypeOK, Fresh, [Next]_vars, NEW d \in Conns, handler'[d] = "new"
               PROVE  backlog'[d] = <<>>
    BY DEF Fresh
  <1> USE DEF queueVars, historyVars, Serving
  <1>1. CASE UNCHANGED vars
    BY <1>1 DEF Fresh, vars, connVars
  <1>2. ASSUME NEW c \in Conns, Connect(c) PROVE backlog'[d] = <<>>
    BY <1>2 DEF Connect, Admit, TypeOK, Fresh
  <1>3. ASSUME NEW c \in Conns, Read(c) \/ ReadInvalid(c) PROVE backlog'[d] = <<>>
    BY <1>3 DEF Read, ReadInvalid, RelayToPeer, RelayToPending, TypeOK, Fresh
  <1>4. ASSUME NEW c \in Conns, Handle(c) PROVE backlog'[d] = <<>>
    BY <1>4 DEF Handle, Announce, Replay, Replayed, ReplyError, Detach, TypeOK, Fresh
  <1>5. ASSUME NEW c \in Conns, WriteLoop(c) \/ Break(c) PROVE backlog'[d] = <<>>
    BY <1>5 DEF WriteLoop, Write, WriteInVain, WriterEnds, Break, Fresh
  <1> QED
    BY <1>1, <1>2, <1>3, <1>4, <1>5 DEF Next

\* What relay does with a message.
LEMMA ReadDelivers ==
    ASSUME HubInv, TypeOK, Sent, Placed, NEW c \in Conns, Read(c) \/ ReadInvalid(c)
    PROVE  Placed' /\ Sent'
  <1> DEFINE m == sent[Role(c)] + 1
  <1>1. /\ m <= MaxSent(Role(c)) /\ sent' = [sent EXCEPT ![Role(c)] = m]
        /\ UNCHANGED delivered
    BY DEF Read, ReadInvalid
  <1>2. /\ Role(c) \in Roles /\ \A role \in Roles : 1 .. sent[role] \subseteq 1 .. sent'[role]
        /\ m \in 1 .. sent'[Role(c)]
    <2>1. Role(c) \in Roles /\ \A role \in Roles : sent[role] \in Nat
      BY ConnRoles DEF TypeOK
    <2>2. sent'[Role(c)] = m /\ \A role \in Roles \ {Role(c)} : sent'[role] = sent[role]
      BY <1>1, <2>1 DEF TypeOK
    <2> QED
      BY <2>1, <2>2
  <1>3. CASE /\ refused' = [refused EXCEPT ![Role(c)] = @ \cup {m}]
             /\ UNCHANGED <<pending, backlog, send, lost>>
    <2>1. Placed'
      BY <1>1, <1>3, RefusedPlaces DEF Sent
    <2>2. \A role \in Roles : refused'[role] \subseteq refused[role] \cup
                                (IF role = Role(c) THEN {m} ELSE {})
      BY <1>3 DEF TypeOK
    <2>3. Sent'
      BY <1>2, <1>3, <2>2 DEF Sent, GoneWasSent
    <2> QED BY <2>1, <2>3
  <1>4. ASSUME NEW d \in Conns, d = peers[Other(Role(c))], Put(d, Relayed(m)),
               UNCHANGED <<pending, backlog, refused, lost>>
        PROVE  Placed' /\ Sent'
    <2>1. Other(Role(c)) \in Roles /\ d # NoConn
      BY RoleFacts, ConnRoles
    <2>2. Role(d) = Other(Role(c))
      BY <1>4, <2>1 DEF HubInv, PeersServeTheirRole
    <2>3. From(d) = Role(c)
      BY <2>2 DEF From, Other, Role
    <2>4. Placed'
      BY <1>1, <1>4, <2>3, RelayPlaces DEF Sent
    <2>5. Sent'
      BY <1>2, <1>4 DEF Sent, GoneWasSent
    <2> QED BY <2>4, <2>5
  <1>5. CASE RelayToPending(c, m)
    <2>1. Placed' /\ \A role \in Roles : lost'[role] \subseteq lost[role] \cup 1 .. sent[role]
      BY <1>1, <1>5, PendingPlaces DEF Sent
    <2>2. UNCHANGED refused
      BY <1>5 DEF RelayToPending
    <2>3. Sent'
      BY <1>2, <2>1, <2>2 DEF Sent, GoneWasSent
    <2> QED BY <2>1, <2>3
  <1>6. CASE RelayToPeer(c, m)
    <2>1. peers[Other(Role(c))] \in Conns
      BY <1>6, RoleFacts DEF RelayToPeer, TypeOK
    <2> QED
      BY <1>3, <1>4, <1>6, <2>1 DEF RelayToPeer
  <1>7. CASE ReadInvalid(c)
    BY <1>3, <1>7 DEF ReadInvalid, queueVars
  <1> QED
    BY <1>5, <1>6, <1>7 DEF Read

LEMMA DeliveryStep == HubInv /\ TypeOK /\ Delivery /\ [Next]_vars => Delivery'
  <1> SUFFICES ASSUME HubInv, TypeOK, Sent, Placed, Fresh, [Next]_vars
               PROVE  Sent' /\ Placed'
    BY FreshStep DEF Delivery, Sent, Placed, Fresh
  <1> USE DEF queueVars, historyVars
  <1>1. ASSUME UNCHANGED <<pending, backlog, send, delivered, sent, refused, lost>>
        PROVE  Sent' /\ Placed'
    BY <1>1, QuietPlaces DEF Sent, GoneWasSent
  <1>2. ASSUME UNCHANGED <<sent, refused, lost>> PROVE Sent'
    BY <1>2 DEF Sent, GoneWasSent
  <1>3. CASE UNCHANGED vars
    BY <1>1, <1>3 DEF vars, connVars
  <1>4. ASSUME NEW c \in Conns, Connect(c) PROVE Sent' /\ Placed'
    <2>1. CASE peers[Role(c)] = NoConn
      <3>1. Admit(c) /\ pending' = [pending EXCEPT ![Role(c)] = <<>>] /\ handler[c] = "new"
            /\ UNCHANGED <<send, delivered, sent, refused, lost>>
        BY <1>4, <2>1 DEF Connect
      <3> QED
        BY <1>2, <3>1, AdmitPlaces DEF Fresh
    <2>2. CASE peers[Role(c)] # NoConn
      BY <1>1, <1>4, <2>2 DEF Connect
    <2> QED BY <2>1, <2>2
  <1>5. ASSUME NEW c \in Conns, Read(c) \/ ReadInvalid(c) PROVE Sent' /\ Placed'
    BY <1>5, ReadDelivers
  <1>6. ASSUME NEW c \in Conns, Announce(c) \/ ReplyError(c) PROVE Sent' /\ Placed'
    BY <1>2, <1>6, PutPlaces DEF Announce, ReplyError
  <1>7. ASSUME NEW c \in Conns, Replay(c) PROVE Sent' /\ Placed'
    BY <1>2, <1>7, ReplayPlaces DEF Replay
  <1>8. ASSUME NEW c \in Conns, Replayed(c) \/ Detach(c) \/ WriterEnds(c) \/ Break(c)
        PROVE  Sent' /\ Placed'
    BY <1>1, <1>8 DEF Replayed, Detach, WriterEnds, Break
  <1>9. ASSUME NEW c \in Conns, Write(c) PROVE Sent' /\ Placed'
    BY <1>2, <1>9, WritePlaces DEF Write
  <1>10. ASSUME NEW c \in Conns, WriteInVain(c) PROVE Sent' /\ Placed'
    <2>1. Placed' /\ UNCHANGED <<sent, refused>>
          /\ \A role \in Roles : lost'[role] \subseteq lost[role] \cup 1 .. sent[role]
      BY <1>10, InVainPlaces DEF WriteInVain
    <2> QED
      BY <2>1 DEF Sent, GoneWasSent
  <1> QED
    BY <1>3, <1>4, <1>5, <1>6, <1>7, <1>8, <1>9, <1>10 DEF Next, Handle, WriteLoop
-----------------------------------------------------------------------------
(* The property counts places; the invariant says where they are. *)

Spot(k, i) == IF k[1] = "pending" THEN <<"pending", i>> ELSE <<k[1], k[2], i>>

LEMMA PlacesAreSpots ==
    ASSUME NEW role \in Roles, NEW n
    PROVE  Places(role, n) = UNION {{Spot(k, i) : i \in {j \in DOMAIN Queue(role, k) :
                                                        Queue(role, k)[j] = Item(k, n)}}
                                    : k \in Keys(role)}
  <1> DEFINE At(k)      == {i \in DOMAIN Queue(role, k) : Queue(role, k)[i] = Item(k, n)}
             Spots(k)   == {Spot(k, i) : i \in At(k)}
             Waiting    == {<<"pending", i>> : i \in {j \in DOMAIN pending[Other(role)] :
                                                      pending[Other(role)][j] = n}}
             Stored(c)  == {<<"backlog", c, i>> : i \in {j \in DOMAIN backlog[c] : backlog[c][j] = n}}
             Queued(c)  == {<<"send", c, i>> : i \in {j \in DOMAIN send[c] : send[c][j] = Relayed(n)}}
             Written(c) == {<<"delivered", c, i>> : i \in {j \in DOMAIN delivered[c] :
                                                          delivered[c][j] = n}}
  <1>1. Places(role, n) = Waiting \cup UNION {Stored(c) \cup Queued(c) \cup Written(c) : c \in To(role)}
    BY DEF Places, To
  <1>2. Spots(<<"pending", NoConn>>) = Waiting
    BY DEF Spot, Queue, Item
  <1>3. ASSUME NEW c
        PROVE /\ Spots(<<"backlog", c>>) = Stored(c)
              /\ Spots(<<"send", c>>) = Queued(c)
              /\ Spots(<<"delivered", c>>) = Written(c)
    BY DEF Spot, Queue, Item
  <1> HIDE DEF Spots, Waiting, Stored, Queued, Written
  <1>4. UNION {Stored(c) \cup Queued(c) \cup Written(c) : c \in To(role)}
          \subseteq UNION {Spots(k) : k \in Keys(role)}
    <2> SUFFICES ASSUME NEW c \in To(role)
                 PROVE  \A p \in Stored(c) \cup Queued(c) \cup Written(c) :
                            \E k \in Keys(role) : p \in Spots(k)
      OBVIOUS
    <2>1. /\ <<"backlog", c>> \in Keys(role)
          /\ <<"send", c>> \in Keys(role)
          /\ <<"delivered", c>> \in Keys(role)
      BY DEF Keys
    <2> QED
      BY <1>3, <2>1
  <1>5. Waiting \subseteq UNION {Spots(k) : k \in Keys(role)}
    BY <1>2 DEF Keys
  <1>6. ASSUME NEW k \in Keys(role)
        PROVE  Spots(k) \subseteq
                   Waiting \cup UNION {Stored(c) \cup Queued(c) \cup Written(c) : c \in To(role)}
    <2>1. CASE k = <<"pending", NoConn>>
      BY <1>2, <2>1
    <2>2. CASE k # <<"pending", NoConn>>
      <3>1. PICK c \in To(role) :
                k \in {<<"backlog", c>>, <<"send", c>>, <<"delivered", c>>}
        BY <2>2 DEF Keys
      <3>2. Spots(k) \subseteq Stored(c) \cup Queued(c) \cup Written(c)
        BY <1>3, <3>1
      <3> QED
        BY <3>2
    <2> QED BY <2>1, <2>2
  <1>7. Places(role, n) = UNION {Spots(k) : k \in Keys(role)}
    BY <1>1, <1>4, <1>5, <1>6
  <1> QED
    BY <1>7 DEF Spots

LEMMA CountedOnce ==
    ASSUME NEW role \in Roles, NEW n, OnePlace(role, n)
    PROVE  Cardinality(Places(role, n)) = IF Live(role, n) THEN 1 ELSE 0
  <1>1. CASE ~Live(role, n)
    <2>1. \A k \in Keys(role) : ~Has(role, k, n)
      BY <1>1 DEF OnePlace
    <2>2. Places(role, n) = {}
      BY <2>1, PlacesAreSpots DEF Has, Holds
    <2> QED
      BY <1>1, <2>2, FS_EmptySet
  <1>2. CASE Live(role, n)
    <2>1. PICK k \in Keys(role) : Has(role, k, n)
      BY <1>2 DEF OnePlace
    <2>2. PICK i \in DOMAIN Queue(role, k) : Queue(role, k)[i] = Item(k, n)
      BY <2>1 DEF Has, Holds
    <2>3. \A l \in Keys(role) : \A j \in DOMAIN Queue(role, l) :
              Queue(role, l)[j] = Item(l, n) => l = k /\ j = i
      BY <2>1, <2>2 DEF OnePlace, Once, Single, Has, Holds
    <2>4. Places(role, n) = {Spot(k, i)}
      BY <2>2, <2>3, PlacesAreSpots
    <2> QED
      BY <1>2, <2>4, FS_Singleton
  <1> QED
    BY <1>1, <1>2

\* Every message is in one place, or its sender was told that it goes nowhere, or
\* it was evicted or written to a broken socket: the hub's attach, replay, relay
\* and detach deliver none twice and let none vanish.
THEOREM HubEachMessageOnce == Spec => []EachMessageOnce
  <1>1. TypeOK /\ Delivery => EachMessageOnce
    <2> SUFFICES ASSUME TypeOK, Delivery, NEW role \in Roles, NEW n \in 1 .. sent[role]
                 PROVE  Cardinality(Places(role, n)) =
                            IF n \in refused[role] \cup lost[role] THEN 0 ELSE 1
      BY DEF EachMessageOnce
    <2>1. n \in Messages
      BY BoundsAssumption DEF TypeOK, Roles, MaxSent, Messages
    <2> QED
      BY <2>1, CountedOnce DEF Delivery, Live
  <1>2. Spec => []HubInv /\ []TypeOK
    BY HubInvariant, HubTypeOK
  <1> QED
    BY <1>1, <1>2, DeliveryInit, DeliveryStep, PTL DEF Spec
-----------------------------------------------------------------------------
(* The order in which a connection is sent messages. *)

\* The message is in the connection's output or channel, and one is there before another.
Seen(c, n) == Holds(delivered[c], n) \/ Holds(send[c], Relayed(n))
Follow(s, x, y) == \E i, j \in DOMAIN s : i < j /\ s[i] = x /\ s[j] = y
Before(c, m, n) == \/ Follow(delivered[c], m, n)
                   \/ Holds(delivered[c], m) /\ Holds(send[c], Relayed(n))
                   \/ Follow(send[c], Relayed(m), Relayed(n))

Increasing(s) == \A i, j \in DOMAIN s : i < j => s[i] < s[j]

\* What attach gave to the connection was sent before what relay gives to it, each of
\* the two in the order it was sent; the backlog is what is still to come of the former.
InOrder(c) ==
    /\ \A n \in Messages : n \in replayed[c] \/ Seen(c, n) => n <= sent[From(c)]
    /\ \A m \in replayed[c], n \in Messages : Seen(c, n) /\ n \notin replayed[c] => m < n
    /\ \A m, n \in Messages : Before(c, m, n) /\ (m \in replayed[c] <=> n \in replayed[c]) => m < n
    /\ Increasing(backlog[c])
    /\ \A i \in DOMAIN backlog[c] : /\ backlog[c][i] \in replayed[c]
                                    /\ \A m \in replayed[c] : Seen(c, m) => m < backlog[c][i]
    /\ handler[c] = "new" => send[c] = <<>> /\ delivered[c] = <<>> /\ backlog[c] = <<>>

\* What waits for a role is in the order it was sent.
PendingInOrder(role) ==
    /\ Increasing(pending[role])
    /\ \A i \in DOMAIN pending[role] : pending[role][i] <= sent[Other(role)]

Ordered == (\A c \in Conns : InOrder(c)) /\ (\A role \in Roles : PendingInOrder(role))

LEMMA AppendFollow ==
    ASSUME NEW S, NEW s \in Seq(S), NEW z \in S, NEW x, NEW y, Follow(Append(s, z), x, y)
    PROVE  Follow(s, x, y) \/ (Holds(s, x) /\ z = y)
  <1>1. /\ Len(s) \in Nat /\ DOMAIN s = 1 .. Len(s)
        /\ DOMAIN Append(s, z) = 1 .. Len(s) + 1
        /\ Append(s, z)[Len(s) + 1] = z
        /\ \A i \in 1 .. Len(s) : Append(s, z)[i] = s[i]
    BY AppendProperties, LenProperties
  <1>2. PICK i, j \in 1 .. Len(s) + 1 : i < j /\ Append(s, z)[i] = x /\ Append(s, z)[j] = y
    BY <1>1 DEF Follow
  <1>3. i \in 1 .. Len(s) /\ (j \in 1 .. Len(s) \/ j = Len(s) + 1)
    BY <1>1, <1>2
  <1> QED
    BY <1>1, <1>2, <1>3 DEF Follow, Holds

LEMMA TailFollow ==
    ASSUME NEW S, NEW s \in Seq(S), s # <<>>, NEW x, NEW y
    PROVE  /\ Follow(Tail(s), x, y) => Follow(s, x, y)
           /\ Holds(Tail(s), y) => Holds(s, y) /\ Follow(s, Head(s), y)
           /\ Holds(s, Head(s))
  <1>1. /\ Len(s) \in Nat /\ DOMAIN s = 1 .. Len(s) /\ Len(s) > 0 /\ Head(s) = s[1]
        /\ DOMAIN Tail(s) = 1 .. Len(s) - 1
        /\ \A i \in 1 .. Len(s) - 1 : Tail(s)[i] = s[i + 1]
    BY HeadTailProperties, LenProperties, EmptySeq
  <1>2. ASSUME Follow(Tail(s), x, y) PROVE Follow(s, x, y)
    <2>1. PICK i, j \in 1 .. Len(s) - 1 : i < j /\ Tail(s)[i] = x /\ Tail(s)[j] = y
      BY <1>1, <1>2 DEF Follow
    <2>2. i + 1 \in DOMAIN s /\ j + 1 \in DOMAIN s /\ i + 1 < j + 1 /\ s[i + 1] = x /\ s[j + 1] = y
      BY <1>1, <2>1
    <2> QED BY <2>2 DEF Follow
  <1>3. ASSUME Holds(Tail(s), y) PROVE Holds(s, y) /\ Follow(s, Head(s), y)
    <2>1. PICK j \in 1 .. Len(s) - 1 : Tail(s)[j] = y
      BY <1>1, <1>3 DEF Holds
    <2>2. 1 \in DOMAIN s /\ j + 1 \in DOMAIN s /\ 1 < j + 1 /\ s[j + 1] = y
      BY <1>1, <2>1
    <2> QED BY <1>1, <2>2 DEF Follow, Holds
  <1>4. Holds(s, Head(s))
    BY <1>1 DEF Holds
  <1> QED
    BY <1>2, <1>3, <1>4

LEMMA TailIncreasing ==
    ASSUME NEW S \in SUBSET Nat, NEW s \in Seq(S), s # <<>>, Increasing(s)
    PROVE  /\ Increasing(Tail(s)) /\ Head(s) = s[1] /\ 1 \in DOMAIN s
           /\ \A i \in DOMAIN Tail(s) : /\ i + 1 \in DOMAIN s /\ Tail(s)[i] = s[i + 1]
                                        /\ Head(s) < Tail(s)[i]
  <1>1. /\ Len(s) \in Nat /\ DOMAIN s = 1 .. Len(s) /\ Len(s) > 0 /\ Head(s) = s[1]
        /\ DOMAIN Tail(s) = 1 .. Len(s) - 1
        /\ \A i \in 1 .. Len(s) - 1 : Tail(s)[i] = s[i + 1]
    BY HeadTailProperties, LenProperties, EmptySeq
  <1>2. \A i \in 1 .. Len(s) - 1 : i + 1 \in DOMAIN s /\ 1 \in DOMAIN s /\ 1 < i + 1
    BY <1>1
  <1>3. \A i, j \in 1 .. Len(s) - 1 : i < j => i + 1 < j + 1
    OBVIOUS
  <1>4. Increasing(Tail(s))
    BY <1>1, <1>2, <1>3 DEF Increasing
  <1>5. 1 \in DOMAIN s
    BY <1>1
  <1> QED
    BY <1>1, <1>2, <1>4, <1>5 DEF Increasing

LEMMA AppendIncreasing ==
    ASSUME NEW S \in SUBSET Nat, NEW s \in Seq(S), NEW z \in S, Increasing(s),
           \A i \in DOMAIN s : s[i] < z
    PROVE  /\ Increasing(Append(s, z))
           /\ \A i \in DOMAIN Append(s, z) : Append(s, z)[i] <= z
  <1>1. /\ Len(s) \in Nat /\ DOMAIN s = 1 .. Len(s)
        /\ DOMAIN Append(s, z) = 1 .. Len(s) + 1
        /\ Append(s, z)[Len(s) + 1] = z
        /\ \A i \in 1 .. Len(s) : Append(s, z)[i] = s[i]
    BY AppendProperties, LenProperties
  <1>2. \A i, j \in 1 .. Len(s) + 1 : i < j => i \in 1 .. Len(s) /\ (j \in 1 .. Len(s) \/ j = Len(s) + 1)
    BY <1>1
  <1>3. Increasing(Append(s, z))
    BY <1>1, <1>2 DEF Increasing
  <1>4. \A i \in 1 .. Len(s) : s[i] \in Nat /\ s[i] < z
    BY <1>1, ElementOfSeq
  <1>5. \A i \in 1 .. Len(s) + 1 : i \in 1 .. Len(s) \/ i = Len(s) + 1
    BY <1>1
  <1> QED
    BY <1>1, <1>3, <1>4, <1>5

LEMMA BeforeSeen ==
    ASSUME NEW c \in Conns, NEW m, NEW n, Before(c, m, n)
    PROVE  Seen(c, m) /\ Seen(c, n)
  BY DEF Before, Seen, Follow, Holds

LEMMA RelayedApart == \A m, n : Relayed(m) = Relayed(n) => m = n
  BY DEF Relayed

\* What peer.send <- message does to what the connection sees.
LEMMA PutOrder ==
    ASSUME TypeOK, NEW c \in Conns, NEW y \in Wire, Put(c, y), UNCHANGED delivered
    PROVE  /\ \A n : Seen(c, n)' => Seen(c, n) \/ y = Relayed(n)
           /\ \A m, n : Before(c, m, n)' => Before(c, m, n) \/ (Seen(c, m) /\ y = Relayed(n))
           /\ \A d \in Conns \ {c} : UNCHANGED <<send[d], delivered[d]>>
  <1>1. /\ send[c] \in Seq(Wire) /\ send'[c] = Append(send[c], y) /\ delivered'[c] = delivered[c]
        /\ \A d \in Conns \ {c} : UNCHANGED <<send[d], delivered[d]>>
    BY DEF TypeOK, Put
  <1>2. \A x : Holds(send'[c], x) => Holds(send[c], x) \/ y = x
    BY <1>1, AppendHolds
  <1>3. \A x, z : Follow(send'[c], x, z) => Follow(send[c], x, z) \/ (Holds(send[c], x) /\ y = z)
    BY <1>1, AppendFollow
  <1> QED
    BY <1>1, <1>2, <1>3 DEF Seen, Before

\* What writeLoop takes goes to the end of the output, or nowhere.
LEMMA TakenOrder ==
    ASSUME TypeOK, NEW c \in Conns, send[c] # <<>>, Taken(c),
           \/ UNCHANGED delivered
           \/ /\ Head(send[c]).kind = "relayed"
              /\ delivered' = [delivered EXCEPT ![c] = Append(@, Head(send[c]).n)]
    PROVE  /\ \A n : Seen(c, n)' => Seen(c, n)
           /\ \A m, n : Before(c, m, n)' => Before(c, m, n)
           /\ \A d \in Conns \ {c} : UNCHANGED <<send[d], delivered[d]>>
  <1>1. /\ send[c] \in Seq(Wire) /\ send'[c] = Tail(send[c]) /\ delivered[c] \in Seq(Messages)
        /\ \A d \in Conns \ {c} : UNCHANGED <<send[d], delivered[d]>>
    BY DEF TypeOK, Taken
  <1> DEFINE h == Head(send[c])
  <1>2. /\ \A x : Holds(send'[c], x) => Holds(send[c], x) /\ Follow(send[c], h, x)
        /\ \A x, z : Follow(send'[c], x, z) => Follow(send[c], x, z)
        /\ Holds(send[c], h)
    BY <1>1, TailFollow
  <1>3. CASE UNCHANGED delivered
    BY <1>1, <1>2, <1>3 DEF Seen, Before
  <1>4. CASE /\ h.kind = "relayed"
             /\ delivered' = [delivered EXCEPT ![c] = Append(@, h.n)]
    <2>1. h.n \in Messages /\ h = Relayed(h.n)
      <3>1. h \in Wire
        BY <1>1, HeadTailProperties
      <3> QED BY <1>4, <3>1 DEF Wire, Relayed, Attached, Error
    <2>2. delivered'[c] = Append(delivered[c], h.n)
      BY <1>4 DEF TypeOK
    <2>3. \A x : Holds(delivered'[c], x) => Holds(delivered[c], x) \/ h.n = x
      BY <1>1, <2>1, <2>2, AppendHolds
    <2>4. \A x, z : Follow(delivered'[c], x, z)
                      => Follow(delivered[c], x, z) \/ (Holds(delivered[c], x) /\ h.n = z)
      BY <1>1, <2>1, <2>2, AppendFollow
    <2> HIDE DEF h
    <2>5. \A n : Seen(c, n)' => Seen(c, n)
      BY <1>2, <2>1, <2>3 DEF Seen
    <2>6. \A m, n : Before(c, m, n)' => Before(c, m, n)
      BY <1>2, <2>1, <2>3, <2>4 DEF Before
    <2> QED BY <1>1, <2>5, <2>6
  <1> QED
    BY <1>3, <1>4

LEMMA Numbers ==
    ASSUME TypeOK, TypeOK', NEW c \in Conns
    PROVE  sent[From(c)] \in Nat /\ sent'[From(c)] \in Nat /\ Messages \subseteq Nat
  <1>1. Messages \subseteq Nat
    BY DEF Messages
  <1>2. From(c) \in Roles
    BY KeyFacts
  <1> QED
    BY <1>1, <1>2 DEF TypeOK

\* A connection that is sent nothing new stays in order.
LEMMA OrderKept ==
    ASSUME TypeOK, TypeOK', NEW c \in Conns, InOrder(c),
           \A n : Seen(c, n)' => Seen(c, n),
           \A m, n : Before(c, m, n)' => Before(c, m, n),
           replayed'[c] = replayed[c], backlog'[c] = backlog[c],
           sent[From(c)] <= sent'[From(c)],
           handler'[c] = "new" => handler[c] = "new" /\ UNCHANGED <<send[c], delivered[c]>>
    PROVE  InOrder(c)'
  <1>1. sent[From(c)] \in Nat /\ sent'[From(c)] \in Nat /\ Messages \subseteq Nat
    BY Numbers
  <1>2. \A n \in Messages : n \in replayed'[c] \/ Seen(c, n)' => n <= sent'[From(c)]
    BY <1>1 DEF InOrder
  <1> QED
    BY <1>2 DEF InOrder

\* One that is sent the head of its backlog, or a message that was not sent before.
LEMMA OrderExtended ==
    ASSUME TypeOK, TypeOK', NEW c \in Conns, InOrder(c), handler'[c] # "new",
           NEW x \in Messages, Put(c, Relayed(x)), UNCHANGED delivered,
           replayed'[c] = replayed[c], sent[From(c)] <= sent'[From(c)],
           \/ /\ backlog[c] # <<>> /\ x = Head(backlog[c]) /\ backlog'[c] = Tail(backlog[c])
           \/ /\ x = sent'[From(c)] /\ sent'[From(c)] = sent[From(c)] + 1 /\ backlog'[c] = backlog[c]
    PROVE  InOrder(c)'
  <1>1. /\ sent[From(c)] \in Nat /\ sent'[From(c)] \in Nat /\ Messages \subseteq Nat
        /\ backlog[c] \in Seq(Messages) /\ replayed[c] \subseteq Messages
    BY Numbers DEF TypeOK
  <1>2. Relayed(x) \in Wire
    BY DEF Wire
  <1>3. /\ \A n : Seen(c, n)' => Seen(c, n) \/ n = x
        /\ \A m, n : Before(c, m, n)' => Before(c, m, n) \/ (Seen(c, m) /\ n = x)
    BY <1>2, PutOrder, RelayedApart
  <1>4. CASE /\ backlog[c] # <<>> /\ x = Head(backlog[c]) /\ backlog'[c] = Tail(backlog[c])
    <2>1. /\ Increasing(backlog'[c]) /\ x = backlog[c][1] /\ 1 \in DOMAIN backlog[c]
          /\ \A i \in DOMAIN backlog'[c] : /\ i + 1 \in DOMAIN backlog[c]
                                           /\ backlog'[c][i] = backlog[c][i + 1]
                                           /\ x < backlog'[c][i]
      <3>1. Messages \in SUBSET Nat /\ Increasing(backlog[c])
        BY <1>1 DEF InOrder
      <3> QED BY <1>1, <1>4, <3>1, TailIncreasing
    <2>2. x \in replayed[c] /\ \A m \in replayed[c] : Seen(c, m) => m < x
      BY <2>1 DEF InOrder
    <2>3. \A n \in Messages : n \in replayed'[c] \/ Seen(c, n)' => n <= sent'[From(c)]
      BY <1>1, <1>3, <2>2 DEF InOrder
    <2>4. \A m \in replayed'[c], n \in Messages : Seen(c, n)' /\ n \notin replayed'[c] => m < n
      BY <1>1, <1>3, <2>2 DEF InOrder
    <2>5. \A m, n \in Messages : Before(c, m, n)' /\ (m \in replayed'[c] <=> n \in replayed'[c]) => m < n
      BY <1>1, <1>3, <2>2 DEF InOrder
    <2>6. \A i \in DOMAIN backlog'[c] : /\ backlog'[c][i] \in replayed'[c]
                                        /\ \A m \in replayed'[c] : Seen(c, m)' => m < backlog'[c][i]
      BY <1>1, <1>3, <2>1 DEF InOrder
    <2> QED BY <2>1, <2>3, <2>4, <2>5, <2>6 DEF InOrder
  <1>5. CASE /\ x = sent'[From(c)] /\ sent'[From(c)] = sent[From(c)] + 1 /\ backlog'[c] = backlog[c]
    <2>1. x \notin replayed[c] /\ \A n \in Messages : n \in replayed[c] \/ Seen(c, n) => n < x
      BY <1>1, <1>5 DEF InOrder
    <2>2. \A n \in Messages : n \in replayed'[c] \/ Seen(c, n)' => n <= sent'[From(c)]
      BY <1>1, <1>3, <1>5, <2>1
    <2>3. \A m \in replayed'[c], n \in Messages : Seen(c, n)' /\ n \notin replayed'[c] => m < n
      BY <1>1, <1>3, <2>1 DEF InOrder
    <2>4. \A m, n \in Messages : Before(c, m, n)' /\ (m \in replayed'[c] <=> n \in replayed'[c]) => m < n
      BY <1>3, <2>1 DEF InOrder
    <2>5. \A i \in DOMAIN backlog'[c] : /\ backlog'[c][i] \in replayed'[c]
                                        /\ \A m \in replayed'[c] : Seen(c, m)' => m < backlog'[c][i]
      BY <1>3, <1>5, <2>1 DEF InOrder
    <2> QED BY <1>5, <2>2, <2>3, <2>4, <2>5 DEF InOrder
  <1> QED
    BY <1>4, <1>5

\* attach: nothing was sent to the connection yet, and what waited for its role is what
\* it has still to be sent.
LEMMA OrderAdmitted ==
    ASSUME TypeOK, TypeOK', NEW c \in Conns, InOrder(c), PendingInOrder(Role(c)),
           handler[c] = "new", Admit(c), UNCHANGED <<send, delivered, sent>>
    PROVE  InOrder(c)'
  <1>1. /\ send'[c] = <<>> /\ delivered'[c] = <<>>
        /\ backlog'[c] = pending[Role(c)]
        /\ replayed'[c] = {pending[Role(c)][i] : i \in DOMAIN pending[Role(c)]}
        /\ handler'[c] = "attached" /\ sent'[From(c)] = sent[From(c)]
    BY DEF InOrder, Admit, TypeOK
  <1>2. \A m, n : ~Seen(c, n)' /\ ~Before(c, m, n)'
    BY <1>1 DEF Seen, Before, Holds, Follow
  <1>3. /\ Increasing(backlog'[c])
        /\ \A n \in replayed'[c] : n <= sent'[From(c)]
        /\ \A i \in DOMAIN backlog'[c] : backlog'[c][i] \in replayed'[c]
    BY <1>1 DEF PendingInOrder, From
  <1> QED
    BY <1>1, <1>2, <1>3 DEF InOrder

LEMMA OrderedInit == Init => Ordered
  <1> SUFFICES ASSUME Init PROVE Ordered
    OBVIOUS
  <1>1. ASSUME NEW c \in Conns PROVE InOrder(c)
    <2>1. send[c] = <<>> /\ delivered[c] = <<>> /\ backlog[c] = <<>> /\ replayed[c] = {}
      BY DEF Init
    <2>2. \A m, n : ~Seen(c, n) /\ ~Before(c, m, n)
      BY <2>1 DEF Seen, Before, Holds, Follow
    <2> QED BY <2>1, <2>2 DEF InOrder, Increasing
  <1>2. ASSUME NEW role \in Roles PROVE PendingInOrder(role)
    BY DEF Init, PendingInOrder, Increasing
  <1> QED BY <1>1, <1>2 DEF Ordered

LEMMA PendingWasSent ==
    ASSUME TypeOK, Ordered, NEW role \in Roles, NEW i \in DOMAIN pending[role]
    PROVE  pending[role][i] \in Nat /\ pending[role][i] <= sent[Other(role)]
  <1>1. pending[role] \in Seq(Messages)
    BY DEF TypeOK
  <1>2. i \in 1 .. Len(pending[role])
    BY <1>1, LenProperties
  <1>3. pending[role][i] \in Messages /\ Messages \subseteq Nat
    BY <1>1, <1>2, ElementOfSeq DEF Messages
  <1> QED
    BY <1>3 DEF Ordered, PendingInOrder

\* What nobody is attached for is kept in order, even if the oldest one has to go.
LEMMA OrderPending ==
    ASSUME TypeOK, TypeOK', Ordered, NEW c \in Conns,
           sent[Role(c)] + 1 <= MaxSent(Role(c)),
           sent' = [sent EXCEPT ![Role(c)] = sent[Role(c)] + 1],
           RelayToPending(c, sent[Role(c)] + 1)
    PROVE  \A role \in Roles : PendingInOrder(role)'
  <1> DEFINE r == Role(c)
             n == sent[r] + 1
             to == Other(r)
             queue == Append(pending[to], n)
  <1>1. /\ r \in Roles /\ to \in Roles /\ Other(to) = r /\ n \in Messages
        /\ \A role \in Roles \ {to} : Other(role) # r
    <2>1. r \in Roles /\ to \in Roles /\ \A m \in 1 .. MaxSent(r) : m \in Messages
      BY RoleFacts
    <2>2. n \in 1 .. MaxSent(r)
      BY <2>1, RoleFacts DEF TypeOK
    <2> QED BY <2>1, <2>2 DEF Roles, Other
  <1>2. /\ pending[to] \in Seq(Messages) /\ sent[r] \in Nat /\ Messages \subseteq Nat
        /\ sent'[r] = n /\ \A role \in Roles \ {r} : sent'[role] = sent[role]
    BY <1>1, Numbers DEF TypeOK
  <1>3. /\ \A role \in Roles \ {to} : pending'[role] = pending[role]
        /\ pending'[to] \in {queue, Tail(queue)}
    BY <1>1 DEF RelayToPending, TypeOK
  <1> HIDE DEF n, r, to
  <1>4. ASSUME NEW role \in Roles \ {to} PROVE PendingInOrder(role)'
    <2>1. sent'[Other(role)] = sent[Other(role)]
      BY <1>1, <1>2 DEF Roles, Other
    <2> QED BY <1>3, <2>1 DEF Ordered, PendingInOrder
  <1>5. Increasing(queue) /\ \A i \in DOMAIN queue : queue[i] <= n
    <2>1. \A i \in DOMAIN pending[to] : pending[to][i] \in Nat /\ pending[to][i] <= sent[r]
      BY <1>1, PendingWasSent
    <2>2. \A i \in DOMAIN pending[to] : pending[to][i] < n
      BY <1>2, <2>1 DEF n
    <2>3. Increasing(pending[to])
      BY <1>1 DEF Ordered, PendingInOrder
    <2>4. Messages \in SUBSET Nat /\ n \in Messages
      BY <1>1, <1>2
    <2> QED BY <1>2, <2>2, <2>3, <2>4, AppendIncreasing
  <1>6. queue \in Seq(Messages) /\ queue # <<>>
    BY <1>1, <1>2, AppendProperties
  <1> HIDE DEF queue
  <1>7. Increasing(Tail(queue)) /\ \A i \in DOMAIN Tail(queue) : Tail(queue)[i] <= n
    BY <1>2, <1>5, <1>6, TailIncreasing
  <1>8. PendingInOrder(to)'
    BY <1>1, <1>2, <1>3, <1>5, <1>7 DEF PendingInOrder
  <1> QED
    BY <1>4, <1>8

LEMMA OrderedStep == HubInv /\ TypeOK /\ TypeOK' /\ Ordered /\ [Next]_vars => Ordered'
  <1> SUFFICES ASSUME HubInv, TypeOK, TypeOK', Ordered, [Next]_vars PROVE Ordered'
    OBVIOUS
  <1> USE DEF queueVars, connVars, historyVars
  <1>0. \A d \in Conns : InOrder(d) /\ From(d) \in Roles
    BY KeyFacts DEF Ordered
  <1>1. ASSUME UNCHANGED <<pending, sent>> PROVE \A role \in Roles : PendingInOrder(role)'
    BY <1>1 DEF Ordered, PendingInOrder
  <1>2. ASSUME NEW d \in Conns,
               UNCHANGED <<send[d], delivered[d], replayed[d], backlog[d]>>,
               sent[From(d)] <= sent'[From(d)],
               handler'[d] = "new" => handler[d] = "new"
        PROVE  InOrder(d)'
    <2>1. /\ \A n : Seen(d, n)' => Seen(d, n)
          /\ \A m, n : Before(d, m, n)' => Before(d, m, n)
      BY <1>2 DEF Seen, Before
    <2> QED BY <1>0, <1>2, <2>1, OrderKept
  <1>3. \A d \in Conns : sent[From(d)] \in Nat
    BY <1>0 DEF TypeOK
  <1>4. ASSUME UNCHANGED <<pending, sent, send, delivered, replayed, backlog>>,
               \A d \in Conns : handler'[d] = "new" => handler[d] = "new"
        PROVE  Ordered'
    <2>1. \A d \in Conns : InOrder(d)'
      BY <1>2, <1>3, <1>4
    <2> QED BY <1>1, <1>4, <2>1 DEF Ordered
  <1>5. CASE UNCHANGED vars
    BY <1>4, <1>5 DEF vars
  <1>6. ASSUME NEW c \in Conns, Replayed(c) \/ Detach(c) \/ WriterEnds(c) \/ Break(c) PROVE Ordered'
    BY <1>4, <1>6 DEF Replayed, Detach, WriterEnds, Break, TypeOK
  <1>7. ASSUME NEW c \in Conns, Connect(c) PROVE Ordered'
    <2>1. CASE peers[Role(c)] = NoConn
      <3>1. /\ Admit(c) /\ handler[c] = "new" /\ UNCHANGED <<send, delivered, sent>>
            /\ pending' = [pending EXCEPT ![Role(c)] = <<>>]
        BY <1>7, <2>1 DEF Connect
      <3>2. Role(c) \in Roles
        BY RoleFacts
      <3>3. InOrder(c)'
        BY <1>0, <3>1, <3>2, OrderAdmitted DEF Ordered
      <3>4. ASSUME NEW d \in Conns \ {c} PROVE InOrder(d)'
        <4>1. UNCHANGED <<send[d], delivered[d], replayed[d], backlog[d], handler[d], sent>>
          BY <3>1 DEF Admit, TypeOK
        <4> QED BY <1>2, <1>3, <4>1
      <3>5. ASSUME NEW role \in Roles PROVE PendingInOrder(role)'
        BY <3>1, <3>5 DEF Ordered, PendingInOrder, TypeOK, Increasing
      <3> QED BY <3>3, <3>4, <3>5 DEF Ordered
    <2>2. CASE peers[Role(c)] # NoConn
      BY <1>4, <1>7, <2>2 DEF Connect, TypeOK
    <2> QED BY <2>1, <2>2
  <1>8. ASSUME NEW c \in Conns, Announce(c) \/ ReplyError(c) PROVE Ordered'
    <2>1. PICK y \in {Attached, Error} : Put(c, y)
      BY <1>8 DEF Announce, ReplyError
    <2>2. /\ UNCHANGED <<pending, sent, delivered, replayed, backlog>>
          /\ \A d \in Conns : handler'[d] = "new" => handler[d] = "new" /\ d # c
      BY <1>8 DEF Announce, ReplyError, TypeOK
    <2>3. y \in Wire /\ \A n : y # Relayed(n)
      BY DEF Wire, Relayed, Attached, Error
    <2>4. InOrder(c)'
      BY <1>0, <1>3, <2>1, <2>2, <2>3, PutOrder, OrderKept
    <2>5. ASSUME NEW d \in Conns \ {c} PROVE InOrder(d)'
      BY <1>2, <1>3, <2>1, <2>2, <2>3, PutOrder
    <2> QED BY <1>1, <2>2, <2>4, <2>5 DEF Ordered
  <1>9. ASSUME NEW c \in Conns, Replay(c) PROVE Ordered'
    <2>1. /\ backlog[c] # <<>> /\ Put(c, Relayed(Head(backlog[c]))) /\ handler[c] = "replay"
          /\ backlog'[c] = Tail(backlog[c]) /\ \A d \in Conns \ {c} : backlog'[d] = backlog[d]
          /\ UNCHANGED <<pending, sent, delivered, replayed, handler>>
      BY <1>9 DEF Replay, TypeOK
    <2>2. Head(backlog[c]) \in Messages /\ Relayed(Head(backlog[c])) \in Wire
      BY <2>1, HeadTailProperties DEF TypeOK, Wire
    <2>3. InOrder(c)'
      BY <1>0, <1>3, <2>1, <2>2, OrderExtended
    <2>4. ASSUME NEW d \in Conns \ {c} PROVE InOrder(d)'
      BY <1>2, <1>3, <2>1, <2>2, PutOrder
    <2> QED BY <1>1, <2>1, <2>3, <2>4 DEF Ordered
  <1>10. ASSUME NEW c \in Conns, Write(c) \/ WriteInVain(c) PROVE Ordered'
    <2>1. /\ send[c] # <<>> /\ Taken(c)
          /\ UNCHANGED <<pending, sent, replayed, backlog, handler>>
          /\ \/ UNCHANGED delivered
             \/ /\ Head(send[c]).kind = "relayed"
                /\ delivered' = [delivered EXCEPT ![c] = Append(@, Head(send[c]).n)]
      BY <1>10 DEF Write, WriteInVain
    <2>2. InOrder(c)'
      <3>1. handler[c] # "new"
        BY <1>0, <2>1 DEF InOrder
      <3> QED BY <1>0, <1>3, <2>1, <3>1, TakenOrder, OrderKept
    <2>3. ASSUME NEW d \in Conns \ {c} PROVE InOrder(d)'
      BY <1>2, <1>3, <2>1, TakenOrder
    <2> QED BY <1>1, <2>1, <2>2, <2>3 DEF Ordered
  <1>11. ASSUME NEW c \in Conns, Read(c) \/ ReadInvalid(c) PROVE Ordered'
    <2> DEFINE n == sent[Role(c)] + 1
    <2>1. /\ n <= MaxSent(Role(c)) /\ sent' = [sent EXCEPT ![Role(c)] = n]
          /\ UNCHANGED <<delivered, replayed>>
      BY <1>11 DEF Read, ReadInvalid
    <2>2. /\ Role(c) \in Roles /\ Other(Role(c)) \in Roles /\ n \in Messages
          /\ \A role \in Roles : sent[role] \in Nat /\ sent[role] <= sent'[role]
          /\ sent'[Role(c)] = n
      <3>1. Role(c) \in Roles /\ Other(Role(c)) \in Roles /\ \A role \in Roles : sent[role] \in Nat
        BY RoleFacts DEF TypeOK
      <3>2. n \in 1 .. MaxSent(Role(c))
        BY <2>1, <3>1, RoleFacts
      <3>3. sent'[Role(c)] = n /\ \A role \in Roles \ {Role(c)} : sent'[role] = sent[role]
        BY <2>1, <3>1 DEF TypeOK
      <3> QED BY <3>1, <3>2, <3>3, RoleFacts
    <2>3. UNCHANGED backlog /\ \A d \in Conns : handler'[d] = "new" => handler[d] = "new"
      BY <1>11 DEF Read, ReadInvalid, RelayToPeer, RelayToPending, TypeOK
    <2>4. CASE RelayToPending(c, n)
      <3>1. \A role \in Roles : PendingInOrder(role)'
        BY <2>1, <2>4, OrderPending
      <3>2. UNCHANGED send
        BY <2>4 DEF RelayToPending
      <3>3. \A d \in Conns : InOrder(d)'
        BY <1>0, <1>2, <2>1, <2>2, <2>3, <3>2
      <3> QED BY <3>1, <3>3 DEF Ordered
    <2>5. ASSUME UNCHANGED pending PROVE \A role \in Roles : PendingInOrder(role)'
      <3>1. ASSUME NEW role \in Roles, NEW i \in DOMAIN pending[role]
            PROVE  pending[role][i] <= sent'[Other(role)]
        <4>1. Other(role) \in Roles /\ pending[role] \in Seq(Messages) /\ Messages \subseteq Nat
          BY Numbers DEF Other, Roles, TypeOK
        <4>2. pending[role][i] \in Nat /\ pending[role][i] <= sent[Other(role)]
          BY PendingWasSent
        <4>3. sent[Other(role)] \in Nat /\ sent'[Other(role)] \in Nat
          BY <4>1 DEF TypeOK
        <4> QED BY <2>2, <4>1, <4>2, <4>3
      <3> QED BY <2>5, <3>1 DEF Ordered, PendingInOrder
    <2>6. CASE UNCHANGED <<pending, send>>
      <3>1. \A d \in Conns : InOrder(d)'
        BY <1>0, <1>2, <2>1, <2>2, <2>3, <2>6
      <3> QED BY <2>5, <2>6, <3>1 DEF Ordered
    <2>7. ASSUME NEW e \in Conns, e = peers[Other(Role(c))], Put(e, Relayed(n)),
                 UNCHANGED <<pending, handler>>
          PROVE  Ordered'
      <3>1. Role(e) = Other(Role(c)) /\ peers[Role(e)] = e
        BY <2>2, <2>7, ConnRoles DEF HubInv, PeersServeTheirRole
      <3>2. handler[e] # "new"
        BY <3>1 DEF HubInv, OnePeerPerRole, Serving
      <3>3. From(e) = Role(c) /\ sent'[From(e)] = sent[From(e)] + 1
        BY <2>2, <3>1 DEF From, Other, Role
      <3>4. InOrder(e)'
        BY <1>0, <2>1, <2>2, <2>3, <2>7, <3>2, <3>3, OrderExtended
      <3>5. ASSUME NEW d \in Conns \ {e} PROVE InOrder(d)'
        <4>1. Relayed(n) \in Wire
          BY <2>2 DEF Wire
        <4> QED BY <1>0, <1>2, <2>1, <2>2, <2>3, <2>7, <4>1, PutOrder
      <3> QED BY <2>5, <2>7, <3>4, <3>5 DEF Ordered
    <2>8. CASE RelayToPeer(c, n)
      <3>1. peers[Other(Role(c))] \in Conns
        BY <2>2, <2>8 DEF RelayToPeer, TypeOK
      <3> QED BY <2>6, <2>7, <2>8, <3>1 DEF RelayToPeer
    <2>9. CASE ReadInvalid(c)
      BY <2>6, <2>9 DEF ReadInvalid
    <2> QED BY <1>11, <2>4, <2>8, <2>9 DEF Read
  <1> QED
    BY <1>5, <1>6, <1>7, <1>8, <1>9, <1>10, <1>11 DEF Next, Handle, WriteLoop

\* A connection sees messages in the order they were sent, except that those relayed
\* while the backlog is replayed may overtake the backlog.
THEOREM HubOnlyReplayIsOvertaken == Spec => []OnlyReplayIsOvertaken
  <1>1. TypeOK /\ Ordered => OnlyReplayIsOvertaken
    <2> SUFFICES ASSUME TypeOK, Ordered, NEW c \in Conns,
                        NEW i \in DOMAIN Stream(c), NEW j \in DOMAIN Stream(c),
                        Stream(c)[i].kind = "relayed", Stream(c)[j].kind = "relayed",
                        i < j, Stream(c)[i].n > Stream(c)[j].n
                 PROVE  Stream(c)[j].n \in replayed[c] /\ Stream(c)[i].n \notin replayed[c]
      BY DEF OnlyReplayIsOvertaken
    <2> DEFINE m == Stream(c)[i].n
               n == Stream(c)[j].n
               out == [k \in DOMAIN delivered[c] |-> Relayed(delivered[c][k])]
    <2>1. /\ out \in Seq(Wire) /\ send[c] \in Seq(Wire) /\ Len(out) = Len(delivered[c])
          /\ DOMAIN delivered[c] = 1 .. Len(out) /\ Len(out) \in Nat /\ Len(send[c]) \in Nat
          /\ DOMAIN send[c] = 1 .. Len(send[c])
      <3>1. delivered[c] \in Seq(Messages) /\ send[c] \in Seq(Wire)
        BY DEF TypeOK
      <3>2. /\ DOMAIN delivered[c] = 1 .. Len(delivered[c]) /\ Len(delivered[c]) \in Nat
            /\ DOMAIN send[c] = 1 .. Len(send[c]) /\ Len(send[c]) \in Nat
        BY <3>1, LenProperties
      <3>3. \A k \in 1 .. Len(delivered[c]) : Relayed(delivered[c][k]) \in Wire
        BY <3>1, <3>2, ElementOfSeq DEF Wire
      <3> QED BY <3>1, <3>2, <3>3, IsASeq
    <2>2. /\ DOMAIN Stream(c) = 1 .. Len(out) + Len(send[c])
          /\ \A k \in 1 .. Len(out) + Len(send[c]) :
                 Stream(c)[k] = IF k <= Len(out) THEN out[k] ELSE send[c][k - Len(out)]
      BY <2>1, ConcatProperties DEF Stream
    <2>3. ASSUME NEW k \in DOMAIN Stream(c), Stream(c)[k].kind = "relayed"
          PROVE  /\ Stream(c)[k].n \in Messages
                 /\ \/ k \in DOMAIN delivered[c] /\ delivered[c][k] = Stream(c)[k].n
                    \/ /\ k > Len(out) /\ k - Len(out) \in DOMAIN send[c]
                       /\ send[c][k - Len(out)] = Relayed(Stream(c)[k].n)
      <3>1. CASE k <= Len(out)
        <4>1. k \in DOMAIN delivered[c] /\ Stream(c)[k] = Relayed(delivered[c][k])
          <5>1. k \in 1 .. Len(out) /\ Stream(c)[k] = out[k]
            <6> HIDE DEF out
            <6>1. k \in 1 .. Len(out) + Len(send[c])
              BY <2>2
            <6>2. k \in 1 .. Len(out)
              BY <2>1, <3>1, <6>1
            <6> QED BY <2>2, <3>1, <6>1, <6>2
          <5> QED BY <2>1, <5>1
        <4>2. delivered[c][k] \in Messages
          BY <4>1, ElementOfSeq, LenProperties DEF TypeOK
        <4> QED BY <4>1, <4>2 DEF Relayed
      <3>2. CASE k > Len(out)
        <4>1. k \in 1 .. Len(out) + Len(send[c]) /\ k - Len(out) \in 1 .. Len(send[c])
          BY <2>1, <2>2, <3>2
        <4>2. Stream(c)[k] = send[c][k - Len(out)]
          <5>1. ~(k <= Len(out))
            BY <2>1, <3>2, <4>1
          <5> HIDE DEF out
          <5> QED BY <2>2, <4>1, <5>1
        <4>3. send[c][k - Len(out)] \in Wire
          BY <2>1, <4>1, ElementOfSeq
        <4>4. \A message \in Wire : message.kind = "relayed"
                 => message.n \in Messages /\ message = Relayed(message.n)
          BY DEF Wire, Relayed, Attached, Error
        <4> HIDE DEF out
        <4> QED BY <2>1, <2>3, <3>2, <4>1, <4>2, <4>3, <4>4
      <3> QED BY <2>1, <2>2, <3>1, <3>2
    <2>4. m \in Messages /\ n \in Messages
      BY <2>3
    <2>5. Before(c, m, n)
      <3>1. \/ i \in DOMAIN delivered[c] /\ delivered[c][i] = m
            \/ i > Len(out) /\ i - Len(out) \in DOMAIN send[c] /\ send[c][i - Len(out)] = Relayed(m)
        BY <2>3
      <3>2. \/ j \in DOMAIN delivered[c] /\ delivered[c][j] = n
            \/ j > Len(out) /\ j - Len(out) \in DOMAIN send[c] /\ send[c][j - Len(out)] = Relayed(n)
        BY <2>3
      <3>3. i \in Nat /\ j \in Nat /\ (i > Len(out) => j > Len(out) /\ i - Len(out) < j - Len(out))
            /\ (j \in DOMAIN delivered[c] => j <= Len(out))
        BY <2>1, <2>2
      <3> HIDE DEF m, n, out
      <3> QED BY <3>1, <3>2, <3>3 DEF Before, Follow, Holds
    <2>6. Seen(c, m) /\ Seen(c, n) /\ InOrder(c) /\ m > n /\ Messages \subseteq Nat
      BY <2>5, BeforeSeen DEF Ordered, Messages
    <2> HIDE DEF m, n
    <2>7. n \in replayed[c] /\ m \notin replayed[c]
      BY <2>4, <2>5, <2>6 DEF InOrder
    <2> QED BY <2>7 DEF m, n
  <1>2. Spec => []HubInv /\ []TypeOK
    BY HubInvariant, HubTypeOK
  <1> QED
    BY <1>1, <1>2, OrderedInit, OrderedStep, PTL DEF Spec
=============================================================================

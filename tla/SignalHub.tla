------------------------------ MODULE SignalHub ------------------------------
(***************************************************************************)
(* The signaling server's part in one session: the hub, which relays       *)
(* between the role client and the role bot, and for each websocket        *)
(* connection the goroutine that serves it (handleWebSocket, readLoop) and *)
(* the one that writes to it (writeLoop).                                  *)
(*                                                                         *)
(* A step is one section of the hub's mutex, one operation on a channel or *)
(* one on a socket.  The hub never forgets a session, so it is there from  *)
(* the start.  A message is the number that its sender's role gave it;     *)
(* what it says (offer, answer, candidate, close) the hub does not look    *)
(* at.  Sockets break at any time; a client or bot may connect again.      *)
(***************************************************************************)
EXTENDS Naturals, Sequences, FiniteSets

CONSTANTS Clients, Bots,   \* websocket connections of the two roles
          NoConn,
          Capacity,        \* maxPendingMessages, for both kinds of queue
          MaxFromClient,   \* bounds on the messages that the roles send
          MaxFromBot

ASSUME ConnsAssumption == Clients \cap Bots = {} /\ NoConn \notin Clients \cup Bots
ASSUME BoundsAssumption == Capacity \in Nat \ {0}
                            /\ MaxFromClient \in Nat /\ MaxFromBot \in Nat

VARIABLES
    peers,      \* peers[role]: the connection attached for the role, or NoConn
    pending,    \* pending[role]: messages for a role that nobody is attached for
    handler,    \* handler[c]: where handleWebSocket is
    backlog,    \* backlog[c]: queued messages it has still to replay
    send,       \* send[c]: the channel peer.send
    closed,     \* connections whose send is closed
    writer,     \* writer[c]: where writeLoop is
    broken,     \* connections whose socket is closed or broken
    sent,       \* sent[role]: how many messages the role has sent
    replayed,   \* history: replayed[c], the messages that attach gave to c
    delivered,  \* history: delivered[c], the messages written to c's socket
    refused,    \* history: refused[role], messages answered with an error
    lost        \* history: lost[role], messages evicted, or written in vain

queueVars   == <<peers, pending>>
connVars    == <<handler, backlog, send, closed, writer, broken>>
historyVars == <<replayed, delivered, refused, lost>>
vars == <<queueVars, connVars, sent, historyVars>>

Roles    == {"client", "bot"}
Conns    == Clients \cup Bots
Messages == 1 .. MaxFromClient + MaxFromBot
MaxSent(role) == IF role = "client" THEN MaxFromClient ELSE MaxFromBot
Role(c)     == IF c \in Clients THEN "client" ELSE "bot"
Other(role) == IF role = "client" THEN "bot" ELSE "client"

\* What a peer's send queue holds besides relayed messages.
Relayed(n) == [kind |-> "relayed", n |-> n]
Attached   == [kind |-> "attached", n |-> 0]
Error      == [kind |-> "error", n |-> 0]

Serving == {"attached", "replay", "reading", "reply"}

Wire    == {Relayed(n) : n \in Messages} \cup {Attached, Error}

TypeOK ==
    /\ peers \in [Roles -> Conns \cup {NoConn}]
    /\ pending \in [Roles -> Seq(Messages)]
    /\ \A role \in Roles : Len(pending[role]) <= Capacity
    /\ handler \in [Conns -> Serving \cup {"new", "done"}]
    /\ backlog \in [Conns -> Seq(Messages)]
    /\ send \in [Conns -> Seq(Wire)]
    /\ \A c \in Conns : Len(send[c]) <= Capacity
    /\ closed \subseteq Conns /\ broken \subseteq Conns
    /\ writer \in [Conns -> {"none", "running", "stopped"}]
    /\ sent \in [Roles -> Nat] /\ \A role \in Roles : sent[role] <= MaxSent(role)
    /\ replayed \in [Conns -> SUBSET Messages]
    /\ delivered \in [Conns -> Seq(Messages)]
    /\ refused \in [Roles -> SUBSET Messages] /\ lost \in [Roles -> SUBSET Messages]

\* hub.createSession.
Init ==
    /\ peers = [role \in Roles |-> NoConn]
    /\ pending = [role \in Roles |-> <<>>]
    /\ handler = [c \in Conns |-> "new"]
    /\ backlog = [c \in Conns |-> <<>>]
    /\ send = [c \in Conns |-> <<>>]
    /\ closed = {} /\ broken = {}
    /\ writer = [c \in Conns |-> "none"]
    /\ sent = [role \in Roles |-> 0]
    /\ replayed = [c \in Conns |-> {}]
    /\ delivered = [c \in Conns |-> <<>>]
    /\ refused = [role \in Roles |-> {}]
    /\ lost = [role \in Roles |-> {}]
------------------------------------------------------------------------------
(* handleWebSocket: attach, session.attached, the queued messages. *)

\* attach takes the role's pending messages, and go writeLoop.
Admit(c) ==
    /\ peers' = [peers EXCEPT ![Role(c)] = c]
    /\ backlog' = [backlog EXCEPT ![c] = pending[Role(c)]]
    /\ replayed' = [replayed EXCEPT ![c] = {pending[Role(c)][i] : i \in DOMAIN pending[Role(c)]}]
    /\ handler' = [handler EXCEPT ![c] = "attached"]
    /\ writer' = [writer EXCEPT ![c] = "running"]

\* Mutants stand before the definition they replace.  This one leaves the
\* messages that it replays in the pending queue.
ConnectKeepsPending(c) ==
    /\ handler[c] = "new" /\ peers[Role(c)] = NoConn
    /\ Admit(c)
    /\ UNCHANGED <<pending, send, closed, broken, sent, delivered, refused, lost>>

\* Mutant: a connection that is turned away detaches its role as it leaves.
ConnectOrDetach(c) ==
    /\ handler[c] = "new"
    /\ \/ /\ peers[Role(c)] = NoConn
          /\ Admit(c)
          /\ pending' = [pending EXCEPT ![Role(c)] = <<>>]
          /\ UNCHANGED <<broken, closed>>
       \/ /\ peers[Role(c)] # NoConn
          /\ handler' = [handler EXCEPT ![c] = "done"]
          /\ broken' = broken \cup {c}
          /\ closed' = closed \cup {peers[Role(c)]}
          /\ peers' = [peers EXCEPT ![Role(c)] = NoConn]
          /\ UNCHANGED <<pending, backlog, replayed, writer>>
    /\ UNCHANGED <<send, sent, delivered, refused, lost>>

\* A second connection for a role is told so and closed.
Connect(c) ==
    /\ handler[c] = "new"
    /\ \/ /\ peers[Role(c)] = NoConn
          /\ Admit(c)
          /\ pending' = [pending EXCEPT ![Role(c)] = <<>>]
          /\ UNCHANGED broken
       \/ /\ peers[Role(c)] # NoConn
          /\ handler' = [handler EXCEPT ![c] = "done"]
          /\ broken' = broken \cup {c}
          /\ UNCHANGED <<queueVars, backlog, replayed, writer>>
    /\ UNCHANGED <<send, closed, sent, delivered, refused, lost>>

\* peer.send <- message, which blocks while the channel is full.
Put(c, message) ==
    /\ Len(send[c]) < Capacity
    /\ send' = [send EXCEPT ![c] = Append(@, message)]

Announce(c) ==
    /\ handler[c] = "attached"
    /\ Put(c, Attached)
    /\ handler' = [handler EXCEPT ![c] = "replay"]
    /\ UNCHANGED <<queueVars, backlog, closed, writer, broken, sent, historyVars>>

Replay(c) ==
    /\ handler[c] = "replay" /\ backlog[c] # <<>>
    /\ Put(c, Relayed(Head(backlog[c])))
    /\ backlog' = [backlog EXCEPT ![c] = Tail(@)]
    /\ UNCHANGED <<queueVars, handler, closed, writer, broken, sent, historyVars>>

Replayed(c) ==
    /\ handler[c] = "replay" /\ backlog[c] = <<>>
    /\ handler' = [handler EXCEPT ![c] = "reading"]
    /\ UNCHANGED <<queueVars, backlog, send, closed, writer, broken, sent, historyVars>>
------------------------------------------------------------------------------
(* readLoop and relay. *)

\* Mutant: a message that finds the channel full joins what is replayed.
RelayOrBacklog(c, n) ==
    LET target == peers[Other(Role(c))]
    IN /\ target # NoConn
       /\ \/ /\ Put(target, Relayed(n))
             /\ UNCHANGED backlog
          \/ /\ Len(send[target]) = Capacity
             /\ backlog' = [backlog EXCEPT ![target] = Append(@, n)]
             /\ UNCHANGED send
       /\ UNCHANGED <<handler, pending, refused, lost>>

\* To the other role's connection, unless its channel is full.
RelayToPeer(c, n) ==
    LET target == peers[Other(Role(c))]
    IN /\ target # NoConn
       /\ \/ /\ Put(target, Relayed(n))
             /\ UNCHANGED <<handler, refused>>
          \/ /\ Len(send[target]) = Capacity
             /\ handler' = [handler EXCEPT ![c] = "reply"]
             /\ refused' = [refused EXCEPT ![Role(c)] = @ \cup {n}]
             /\ UNCHANGED send
       /\ UNCHANGED <<pending, backlog, lost>>

\* Nobody is attached: the last Capacity messages are kept.
RelayToPending(c, n) ==
    LET role  == Other(Role(c))
        queue == Append(pending[role], n)
    IN /\ peers[role] = NoConn
       /\ IF Len(queue) > Capacity
          THEN /\ pending' = [pending EXCEPT ![role] = Tail(queue)]
               /\ lost' = [lost EXCEPT ![Role(c)] = @ \cup {Head(queue)}]
          ELSE /\ pending' = [pending EXCEPT ![role] = queue]
               /\ UNCHANGED lost
       /\ UNCHANGED <<handler, backlog, send, refused>>

Read(c) ==
    LET n == sent[Role(c)] + 1
    IN /\ handler[c] = "reading" /\ n <= MaxSent(Role(c))
       /\ c \notin broken
       /\ sent' = [sent EXCEPT ![Role(c)] = n]
       /\ RelayToPeer(c, n) \/ RelayToPending(c, n)
       /\ UNCHANGED <<peers, closed, writer, broken, replayed, delivered>>

\* A message that does not validate is answered and goes no further.
ReadInvalid(c) ==
    LET n == sent[Role(c)] + 1
    IN /\ handler[c] = "reading" /\ n <= MaxSent(Role(c))
       /\ c \notin broken
       /\ sent' = [sent EXCEPT ![Role(c)] = n]
       /\ handler' = [handler EXCEPT ![c] = "reply"]
       /\ refused' = [refused EXCEPT ![Role(c)] = @ \cup {n}]
       /\ UNCHANGED <<queueVars, backlog, send, closed, writer, broken, replayed,
                      delivered, lost>>

\* The error goes to the sender's own channel, and waits for room in it.
ReplyError(c) ==
    /\ handler[c] = "reply"
    /\ Put(c, Error)
    /\ handler' = [handler EXCEPT ![c] = "reading"]
    /\ UNCHANGED <<queueVars, backlog, closed, writer, broken, sent, historyVars>>

\* Mutant: closes the channel and leaves the peer in its session.
DetachKeepsPeer(c) ==
    /\ handler[c] = "reading" /\ c \in broken
    /\ handler' = [handler EXCEPT ![c] = "done"]
    /\ closed' = closed \cup {c}
    /\ UNCHANGED <<queueVars, backlog, send, writer, broken, sent, historyVars>>

\* ReadJSON fails, on a broken socket or on what is not JSON, which closes the
\* socket as well: detach takes whoever is attached for the role.
Detach(c) ==
    /\ handler[c] = "reading" /\ c \in broken
    /\ handler' = [handler EXCEPT ![c] = "done"]
    /\ closed' = IF peers[Role(c)] = NoConn THEN closed
                                            ELSE closed \cup {peers[Role(c)]}
    /\ peers' = [peers EXCEPT ![Role(c)] = NoConn]
    /\ UNCHANGED <<pending, backlog, send, writer, broken, sent, historyVars>>
------------------------------------------------------------------------------
(* writeLoop, and the socket. *)

Taken(c) == send' = [send EXCEPT ![c] = Tail(@)]

\* Mutant: writes nothing before the replay is over.
WriteWhenReading(c) ==
    LET message == Head(send[c])
    IN /\ writer[c] = "running" /\ send[c] # <<>> /\ c \notin broken
       /\ handler[c] \notin {"attached", "replay"}
       /\ Taken(c)
       /\ delivered' = IF message.kind = "relayed"
                       THEN [delivered EXCEPT ![c] = Append(@, message.n)] ELSE delivered
       /\ UNCHANGED <<queueVars, handler, backlog, closed, writer, broken, sent,
                      replayed, refused, lost>>

Write(c) ==
    LET message == Head(send[c])
    IN /\ writer[c] = "running" /\ send[c] # <<>> /\ c \notin broken
       /\ Taken(c)
       /\ delivered' = IF message.kind = "relayed"
                       THEN [delivered EXCEPT ![c] = Append(@, message.n)] ELSE delivered
       /\ UNCHANGED <<queueVars, handler, backlog, closed, writer, broken, sent,
                      replayed, refused, lost>>

\* The socket is broken: WriteJSON fails, or has not noticed yet.
WriteInVain(c) ==
    LET message == Head(send[c])
        from    == Other(Role(c))
    IN /\ writer[c] = "running" /\ send[c] # <<>> /\ c \in broken
       /\ Taken(c)
       /\ lost' = IF message.kind = "relayed"
                  THEN [lost EXCEPT ![from] = @ \cup {message.n}] ELSE lost
       /\ writer' = [writer EXCEPT ![c] = "stopped"] \/ UNCHANGED writer
       /\ UNCHANGED <<queueVars, handler, backlog, closed, broken, sent, replayed,
                      delivered, refused>>

\* The range over the channel ends when it is closed and empty.
WriterEnds(c) ==
    /\ writer[c] = "running" /\ send[c] = <<>> /\ c \in closed
    /\ writer' = [writer EXCEPT ![c] = "stopped"]
    /\ UNCHANGED <<queueVars, handler, backlog, send, closed, broken, sent, historyVars>>

\* The other end closes, or the network fails.
Break(c) ==
    /\ handler[c] \in Serving /\ c \notin broken
    /\ broken' = broken \cup {c}
    /\ UNCHANGED <<queueVars, handler, backlog, send, closed, writer, sent, historyVars>>
------------------------------------------------------------------------------
Handle(c) == Announce(c) \/ Replay(c) \/ Replayed(c) \/ ReplyError(c) \/ Detach(c)
WriteLoop(c) == Write(c) \/ WriteInVain(c) \/ WriterEnds(c)

\* What writeLoop does by itself.  WriteJSON has no deadline, so a Write waits
\* for the other end to read for as long as the socket holds.
WriteAlone(c) == WriteInVain(c) \/ WriterEnds(c)

Next == \E c \in Conns : \/ Connect(c) \/ Read(c) \/ ReadInvalid(c) \/ Break(c)
                         \/ Handle(c) \/ WriteLoop(c)

Spec == Init /\ [][Next]_vars

\* The scheduler runs the goroutines; clients, bots and networks owe nothing,
\* not even to read what is written to them.
FairSpec == /\ Spec
            /\ \A c \in Conns : WF_vars(Handle(c)) /\ WF_vars(WriteAlone(c))

\* The other end of c reads for as long as it is connected.
GoesOnReading(c) == WF_vars(Write(c))
------------------------------------------------------------------------------
(* Properties. *)

\* A role's entry in the hub is the one connection that is served for the role,
\* so that detach, which goes by the role, removes the connection that leaves.
OnePeerPerRole ==
    \A c \in Conns : handler[c] \in Serving <=> peers[Role(c)] = c

\* Nobody sends on a closed channel, which would be a panic: neither relay,
\* which finds the peer under the mutex, nor handleWebSocket and readLoop,
\* which use their peer without it.
NeverSendsOnClosed ==
    \A c \in closed : handler[c] \notin Serving /\ c \notin {peers[role] : role \in Roles}

\* Where message n of a role is: in the other role's pending queue, or in the
\* backlog, the channel or the output of a connection.
Places(role, n) ==
    {<<"pending", i>> : i \in {j \in DOMAIN pending[Other(role)] : pending[Other(role)][j] = n}}
    \cup UNION {  {<<"backlog", c, i>> : i \in {j \in DOMAIN backlog[c] : backlog[c][j] = n}}
                  \cup {<<"send", c, i>> : i \in {j \in DOMAIN send[c] : send[c][j] = Relayed(n)}}
                  \cup {<<"delivered", c, i>> : i \in {j \in DOMAIN delivered[c] : delivered[c][j] = n}}
                : c \in {d \in Conns : Role(d) = Other(role)}}

\* Every message is in exactly one place, or its sender was told that it goes
\* nowhere, or it was evicted or written to a broken socket: across attach,
\* replay, detach and reconnection none is delivered twice, and none vanishes
\* between the pending queue and a connection.
EachMessageOnce ==
    \A role \in Roles : \A n \in 1 .. sent[role] :
        Cardinality(Places(role, n)) = IF n \in refused[role] \cup lost[role] THEN 0 ELSE 1

\* What c was sent, in the order it sees it.
Stream(c) == [i \in DOMAIN delivered[c] |-> Relayed(delivered[c][i])] \o send[c]

\* A connection sees messages in the order they were sent, but for one case:
\* those relayed while the backlog is replayed may overtake the backlog.
OnlyReplayIsOvertaken ==
    \A c \in Conns :
        LET stream == Stream(c)
        IN \A i, j \in {k \in DOMAIN stream : stream[k].kind = "relayed"} :
               i < j /\ stream[i].n > stream[j].n
                   => stream[j].n \in replayed[c] /\ stream[i].n \notin replayed[c]

\* When the other end goes on reading, what is in a connection's backlog or
\* channel is written to its socket, unless the socket breaks: the replay and
\* the error replies, which wait for room in a channel that relay fills too, do
\* not block for good, whatever the other connections do.  An end that stays
\* connected and stops reading blocks its writeLoop, and then the replay or the
\* next error reply, for as long as it likes.
QueuedIsDelivered ==
    \A c \in Conns :
        GoesOnReading(c)
            => ((backlog[c] # <<>> \/ send[c] # <<>>)
                    ~> ((backlog[c] = <<>> /\ send[c] = <<>>) \/ c \in broken))

\* A connection whose socket is broken gives its role up, so that the role can
\* be attached again; what can keep it is a full channel that nobody reads.
BrokenConnectionLeaves ==
    \A c \in Conns :
        c \in broken ~> (peers[Role(c)] # c
                         \/ (writer[c] = "stopped" /\ Len(send[c]) = Capacity))
==============================================================================

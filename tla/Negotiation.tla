------------------------------- MODULE Negotiation -------------------------------
(***************************************************************************)
(* Offer, answer and ICE candidates of one session: the browser's          *)
(* VoiceSessionController, the signaling server, the websocket loop of the *)
(* bot and rtcManager with its table of sessions.                          *)
(*                                                                         *)
(* In the browser a step is what runs between two awaits, in the bot one   *)
(* section of the rtcManager's mutex, one call of the peer connection, or  *)
(* one websocket operation.  Messages to the bot may overtake each other:  *)
(* the hub relays while it replays (OnlyReplayIsOvertaken in SignalHub);   *)
(* those to the client, which is attached before it sends its offer, come  *)
(* in order.  What queues that are full or sockets that break lose is      *)
(* SignalHub's subject.  Entries of the table are numbered as they are     *)
(* made; an entry has at most one peer connection, which has its number.   *)
(* The bot's peer connection may refuse what it is given, and its making   *)
(* may fail; that of the browser takes what the bot sends.                 *)
(***************************************************************************)
EXTENDS Naturals, Sequences, FiniteSets

CONSTANTS ClientICE,   \* the candidates that the browser gathers
          BotICE,      \* and those of the bot's peer connections
          MaxEntries   \* bounds the entries that are made

ASSUME ICEAssumption == {"offer", "answer", "close", "none"} \cap (ClientICE \cup BotICE) = {}
ASSUME EntriesAssumption == MaxEntries \in Nat \ {0}

VARIABLES
    \* the browser
    client,      \* new, offering, offered, or left: the controller is closed
    gathered,    \* the candidates it has sent
    remote,      \* the answer: none, being set, being followed by candidates, or applied
    remoteICE,   \* pendingRemoteICE
    flushed,     \* how many of them have been applied
    clientPeer,  \* the bot's candidates that the peer connection took
    \* the signaling server
    toBot, toClient,
    socketOpen,  \* the bot's websocket
    \* the bot's websocket loop
    loop,        \* where it is
    hand,        \* the message it handles
    held,        \* the entry that HandleOffer holds, 0 for none
    batch,       \* the pending candidates that HandleOffer has still to add
    \* rtcManager
    table,       \* the entry in the table, 0 for none
    entries,     \* how many were made
    pendingICE,  \* pendingICE[e]
    remoteSet,   \* entries with remoteSet
    signalled,   \* entries that have the websocket as signal
    \* the bot's peer connections
    pc,          \* pc[e]: none, open, failed, closed
    described,   \* those with the offer as remote description
    gathering,   \* those with a local description
    sent,        \* sent[e]: the candidates that OnICECandidate wrote
    taken,       \* taken[e]: the client's candidates that AddICECandidate took
    watching,    \* those whose OnConnectionStateChange has still to call Close
    announced,   \* those whose control channel has called markControlReady
    \* history
    failed,      \* the client's candidates that AddICECandidate refused or nobody added
    refused,     \* those that it refused to HandleICECandidate
    closes,      \* whether Close has removed an entry
    orphans,     \* entries removed while HandleOffer was making their peer connection
    stranded     \* entries that nobody had closed when their offer failed

clientVars == <<client, gathered, remote, remoteICE, flushed, clientPeer>>
wireVars   == <<toBot, toClient, socketOpen>>
loopVars   == <<loop, hand, held, batch>>
tableVars  == <<table, entries, pendingICE, remoteSet, signalled>>
peerVars   == <<pc, described, gathering, sent, taken, watching, announced>>
history    == <<failed, refused, closes, orphans, stranded>>
vars == <<clientVars, wireVars, loopVars, tableVars, peerVars, history>>

Entries  == 1 .. MaxEntries
Answer   == <<"answer", 0>>
Local(e, k) == <<k, e>>      \* a candidate of the bot's peer connection e
ToBot    == {"offer", "close"} \cup ClientICE
ToClient == {Answer} \cup {Local(e, k) : e \in Entries, k \in BotICE}

TypeOK ==
    /\ client \in {"new", "offering", "offered", "left"} /\ gathered \subseteq ClientICE
    /\ remote \in {"none", "setting", "flushing", "applied"}
    /\ remoteICE \in Seq(ToClient \ {Answer}) /\ flushed \in 0 .. Len(remoteICE)
    /\ clientPeer \in Seq(ToClient \ {Answer})
    /\ toBot \subseteq ToBot /\ toClient \in Seq(ToClient) /\ socketOpen \in BOOLEAN
    /\ loop \in {"reading", "handling", "create", "describe", "take", "flush", "reply",
                 "leaving", "closed"}
    /\ hand \in ToBot \cup {"none"} /\ held \in 0 .. MaxEntries /\ batch \in Seq(ClientICE)
    /\ table \in 0 .. entries /\ entries \in 0 .. MaxEntries
    /\ pendingICE \in [Entries -> Seq(ClientICE)]
    /\ remoteSet \subseteq Entries /\ signalled \subseteq Entries
    /\ pc \in [Entries -> {"none", "open", "failed", "closed"}]
    /\ described \subseteq Entries /\ gathering \subseteq described
    /\ sent \in [Entries -> SUBSET BotICE] /\ taken \in [Entries -> Seq(ClientICE)]
    /\ watching \subseteq Entries /\ announced \subseteq Entries
    /\ failed \subseteq ClientICE /\ refused \subseteq ClientICE /\ closes \in BOOLEAN
    /\ orphans \subseteq Entries /\ stranded \subseteq Entries

\* Both are attached; the bot's table has no entry for the session.
Init ==
    /\ client = "new" /\ gathered = {} /\ remote = "none"
    /\ remoteICE = <<>> /\ flushed = 0 /\ clientPeer = <<>>
    /\ toBot = {} /\ toClient = <<>> /\ socketOpen = TRUE
    /\ loop = "reading" /\ hand = "none" /\ held = 0 /\ batch = <<>>
    /\ table = 0 /\ entries = 0 /\ pendingICE = [e \in Entries |-> <<>>]
    /\ remoteSet = {} /\ signalled = {}
    /\ pc = [e \in Entries |-> "none"] /\ described = {} /\ gathering = {}
    /\ sent = [e \in Entries |-> {}] /\ taken = [e \in Entries |-> <<>>]
    /\ watching = {} /\ announced = {}
    /\ failed = {} /\ refused = {} /\ closes = FALSE /\ orphans = {} /\ stranded = {}
-----------------------------------------------------------------------------
(* The browser *)

Present == client # "left"

\* onOpen awaits createOffer and setLocalDescription.
SocketOpens ==
    /\ client = "new"
    /\ client' = "offering"
    /\ UNCHANGED <<gathered, remote, remoteICE, flushed, clientPeer, wireVars, loopVars, tableVars,
                   peerVars, history>>

SendOffer ==
    /\ client = "offering"
    /\ client' = "offered"
    /\ toBot' = toBot \cup {"offer"}
    /\ UNCHANGED <<gathered, remote, remoteICE, flushed, clientPeer, toClient, socketOpen, loopVars,
                   tableVars, peerVars, history>>

\* onicecandidate, which follows the local description.
SendCandidate(k) ==
    /\ client = "offered" /\ k \notin gathered
    /\ gathered' = gathered \cup {k}
    /\ toBot' = toBot \cup {k}
    /\ UNCHANGED <<client, remote, remoteICE, flushed, clientPeer, toClient, socketOpen, loopVars,
                   tableVars, peerVars, history>>

\* The message is the first of those under way to the client.
Receives(message) ==
    /\ Present /\ toClient # <<>> /\ Head(toClient) = message
    /\ toClient' = Tail(toClient)
    /\ UNCHANGED <<client, gathered, toBot, socketOpen, loopVars, tableVars, peerVars, history>>

ReceiveAnswer ==
    /\ Receives(Answer)
    /\ remote' = "setting"
    /\ UNCHANGED <<remoteICE, flushed, clientPeer>>

\* setRemoteDescription has returned.
AnswerSet ==
    /\ Present /\ remote = "setting"
    /\ remote' = "flushing"
    /\ UNCHANGED <<client, gathered, remoteICE, flushed, clientPeer, wireVars, loopVars, tableVars,
                   peerVars, history>>

\* Mutants stand before the definition they replace.  This one goes on counting when
\* the queue is emptied.
FlushRemoteCounting ==
    /\ Present /\ remote = "flushing"
    /\ \/ /\ flushed < Len(remoteICE)
          /\ clientPeer' = Append(clientPeer, remoteICE[flushed + 1])
          /\ flushed' = flushed + 1
          /\ UNCHANGED <<remote, remoteICE>>
       \/ /\ flushed = Len(remoteICE)
          /\ remoteICE' = <<>>
          /\ remote' = "applied"
          /\ UNCHANGED <<flushed, clientPeer>>
    /\ UNCHANGED <<client, gathered, wireVars, loopVars, tableVars, peerVars, history>>

\* One addIceCandidate of the loop over pendingRemoteICE, which it empties at the end.
FlushRemote ==
    /\ Present /\ remote = "flushing"
    /\ \/ /\ flushed < Len(remoteICE)
          /\ clientPeer' = Append(clientPeer, remoteICE[flushed + 1])
          /\ flushed' = flushed + 1
          /\ UNCHANGED <<remote, remoteICE>>
       \/ /\ flushed = Len(remoteICE)
          /\ remoteICE' = <<>> /\ flushed' = 0
          /\ remote' = "applied"
          /\ UNCHANGED clientPeer
    /\ UNCHANGED <<client, gathered, wireVars, loopVars, tableVars, peerVars, history>>

\* Mutant: takes the candidate for applicable once the answer has arrived.
ReceiveCandidateEarly ==
    \E candidate \in ToClient \ {Answer} :
        /\ Receives(candidate)
        /\ \/ /\ remote = "none"
              /\ remoteICE' = Append(remoteICE, candidate) /\ UNCHANGED clientPeer
           \/ /\ remote \in {"flushing", "applied"}
              /\ clientPeer' = Append(clientPeer, candidate) /\ UNCHANGED remoteICE
           \/ remote = "setting" /\ UNCHANGED <<remoteICE, clientPeer>>
        /\ UNCHANGED <<remote, flushed>>

\* Queued without remoteDescription, else applied.
ReceiveCandidate ==
    \E candidate \in ToClient \ {Answer} :
        /\ Receives(candidate)
        /\ \/ /\ remote \in {"none", "setting"}
              /\ remoteICE' = Append(remoteICE, candidate) /\ UNCHANGED clientPeer
           \/ /\ remote \in {"flushing", "applied"}
              /\ clientPeer' = Append(clientPeer, candidate) /\ UNCHANGED remoteICE
        /\ UNCHANGED <<remote, flushed>>

\* end sends session.close before it closes the controller, and throws while the
\* socket still connects; leaving the page only closes the controller.
Leave ==
    /\ Present
    /\ client' = "left"
    /\ toBot' = toBot \/ (client # "new" /\ toBot' = toBot \cup {"close"})
    /\ remoteICE' = <<>> /\ flushed' = 0
    /\ UNCHANGED <<gathered, remote, clientPeer, toClient, socketOpen, loopVars, tableVars, peerVars,
                   history>>
-----------------------------------------------------------------------------
(* rtcManager.Close *)

Alive(e) == pc[e] \in {"open", "failed"}

\* Removes the entry and closes its websocket and its peer connection, but for those
\* to keep, which schedules OnConnectionStateChange; called are the callbacks served.
RemoveEntry(keep, called) ==
    LET shut == {e \in {table} \ ({0} \cup keep) : Alive(e)}
    IN /\ table' = 0
       /\ pc' = [e \in Entries |-> IF e \in shut THEN "closed" ELSE pc[e]]
       /\ watching' = (watching \ called) \cup shut
       /\ socketOpen' = (socketOpen /\ table \notin signalled)
       /\ closes' = (closes \/ table # 0)
       /\ orphans' = orphans \cup {e \in {held} \ {0} : e = table /\ loop = "create"}
       /\ UNCHANGED <<entries, pendingICE, remoteSet, signalled, described, gathering, sent, taken,
                      announced, failed, refused, stranded>>

\* Mutant: leaves a peer connection that has no remote description alone.
CloseTableIfSet(called) == RemoveEntry(Entries \ remoteSet, called)

CloseTable(called) == RemoveEntry({}, called)

\* DELETE, and the end of a call that the bot ends.
CloseByRequest ==
    /\ table # 0
    /\ CloseTable({})
    /\ UNCHANGED <<clientVars, toBot, toClient, loopVars>>

\* Mutant: closes nothing when the connection has failed.
StateChangeIfClosed(e) ==
    /\ e \in watching
    /\ \/ pc[e] = "closed" /\ CloseTable({e})
       \/ /\ pc[e] = "failed"
          /\ watching' = watching \ {e}
          /\ UNCHANGED <<socketOpen, tableVars, pc, described, gathering, sent, taken, announced,
                         history>>
    /\ UNCHANGED <<clientVars, toBot, toClient, loopVars>>

\* OnConnectionStateChange closes whatever is in the table.
StateChange(e) ==
    /\ e \in watching
    /\ CloseTable({e})
    /\ UNCHANGED <<clientVars, toBot, toClient, loopVars>>

\* ICE gives up.
ConnectionFails(e) ==
    /\ pc[e] = "open" /\ e \in gathering
    /\ pc' = [pc EXCEPT ![e] = "failed"]
    /\ watching' = watching \cup {e}
    /\ UNCHANGED <<clientVars, wireVars, loopVars, tableVars, described, gathering, sent, taken,
                   announced, history>>
-----------------------------------------------------------------------------
(* The bot's websocket loop *)

Read(message) ==
    /\ loop = "reading" /\ socketOpen /\ message \in toBot
    /\ loop' = "handling" /\ hand' = message
    /\ toBot' = toBot \ {message}
    /\ UNCHANGED <<clientVars, toClient, socketOpen, held, batch, tableVars, peerVars, history>>

\* session.close, after which attachToSignal returns.
HandleClose ==
    /\ loop = "handling" /\ hand = "close"
    /\ CloseTable({})
    /\ loop' = "leaving"
    /\ UNCHANGED <<clientVars, toBot, toClient, hand, held, batch>>

LoopEnds ==
    /\ loop = "leaving" \/ (loop = "reading" /\ ~socketOpen)
    /\ loop' = "closed" /\ socketOpen' = FALSE
    /\ UNCHANGED <<clientVars, toBot, toClient, hand, held, batch, tableVars, peerVars, history>>

\* The session's entry, which is made when there is none.
NewEntry == table = 0 /\ entries < MaxEntries
            /\ table' = entries + 1 /\ entries' = entries + 1
OwnEntry == table # 0 /\ UNCHANGED <<table, entries>>

\* HandleOffer, first section.
HandleOffer ==
    /\ loop = "handling" /\ hand = "offer"
    /\ NewEntry \/ OwnEntry
    /\ signalled' = signalled \cup {table'}
    /\ held' = table'
    /\ loop' = "create"
    /\ UNCHANGED <<clientVars, wireVars, hand, batch, pendingICE, remoteSet, peerVars, history>>

\* newPeerConnection, unless the entry has one.
MakePeer ==
    /\ loop = "create"
    /\ pc' = IF pc[held] = "none" THEN [pc EXCEPT ![held] = "open"] ELSE pc
    /\ loop' = "describe"
    /\ UNCHANGED <<clientVars, wireVars, hand, held, batch, tableVars, described, gathering, sent,
                   taken, watching, announced, history>>

\* HandleOffer returns an error.  Every call of a peer connection that is closed fails;
\* one that is open may refuse the offer, a candidate that waited, with which the rest
\* of them is dropped, or the answer; and newPeerConnection may make none.  Nothing is
\* undone: the entry stays in the table with what it has by then.
OfferFails ==
    /\ loop \in {"create", "describe", "flush"}
    /\ loop = "create" => pc[held] = "none"
    /\ loop' = "reading" /\ held' = 0
    /\ failed' = failed \cup {batch[i] : i \in DOMAIN batch} /\ batch' = <<>>
    /\ stranded' = IF pc[held] = "closed" THEN stranded ELSE stranded \cup {held}
    /\ UNCHANGED <<clientVars, wireVars, hand, tableVars, peerVars, refused, closes, orphans>>

SetRemoteDescription ==
    /\ loop = "describe" /\ Alive(held)
    /\ described' = described \cup {held}
    /\ loop' = "take"
    /\ UNCHANGED <<clientVars, wireVars, hand, held, batch, tableVars, pc, gathering, sent, taken,
                   watching, announced, history>>

\* Mutant: forgets to take the pending candidates.
TakeNothing ==
    /\ loop = "take"
    /\ remoteSet' = remoteSet \cup {held}
    /\ loop' = "flush"
    /\ UNCHANGED <<clientVars, wireVars, hand, held, batch, table, entries, pendingICE, signalled,
                   peerVars, history>>

\* The section after it.
TakePending ==
    /\ loop = "take"
    /\ remoteSet' = remoteSet \cup {held}
    /\ batch' = pendingICE[held]
    /\ pendingICE' = [pendingICE EXCEPT ![held] = <<>>]
    /\ loop' = "flush"
    /\ UNCHANGED <<clientVars, wireVars, hand, held, table, entries, signalled, peerVars, history>>

AddPending ==
    /\ loop = "flush" /\ batch # <<>> /\ Alive(held)
    /\ taken' = [taken EXCEPT ![held] = Append(@, Head(batch))]
    /\ batch' = Tail(batch)
    /\ UNCHANGED <<clientVars, wireVars, loop, hand, held, tableVars, pc, described, gathering, sent,
                   watching, announced, history>>

\* CreateAnswer and SetLocalDescription.
SetLocalDescription ==
    /\ loop = "flush" /\ batch = <<>> /\ Alive(held)
    /\ gathering' = gathering \cup {held}
    /\ loop' = "reply"
    /\ UNCHANGED <<clientVars, wireVars, hand, held, batch, tableVars, pc, described, sent, taken,
                   watching, announced, history>>

\* The answer, which fails on a closed websocket.
Reply ==
    /\ loop = "reply"
    /\ loop' = "reading" /\ held' = 0
    /\ toClient' = IF socketOpen THEN Append(toClient, Answer) ELSE toClient
    /\ UNCHANGED <<clientVars, toBot, socketOpen, hand, batch, tableVars, peerVars, history>>

\* HandleICECandidate: the candidate waits for the offer, or is applied.
HandleICECandidate ==
    /\ loop = "handling" /\ hand \in ClientICE
    /\ loop' = "reading"
    /\ NewEntry \/ OwnEntry
    /\ \/ /\ table' \notin remoteSet
          /\ pendingICE' = [pendingICE EXCEPT ![table'] = Append(@, hand)] /\ UNCHANGED taken
       \/ /\ table' \in remoteSet
          /\ taken' = [taken EXCEPT ![table'] = Append(@, hand)] /\ UNCHANGED pendingICE
    /\ UNCHANGED <<clientVars, wireVars, hand, held, batch, remoteSet, signalled, pc, described,
                   gathering, sent, watching, announced, history>>

\* HandleICECandidate, when the peer connection refuses it.
ICECandidateFails ==
    /\ loop = "handling" /\ hand \in ClientICE /\ table \in remoteSet
    /\ loop' = "reading"
    /\ failed' = failed \cup {hand} /\ refused' = refused \cup {hand}
    /\ UNCHANGED <<clientVars, wireVars, hand, held, batch, tableVars, peerVars, closes, orphans,
                   stranded>>

Loop ==
    \/ \E message \in ToBot : Read(message)
    \/ HandleClose \/ LoopEnds \/ HandleOffer \/ MakePeer \/ OfferFails \/ SetRemoteDescription
    \/ TakePending \/ AddPending \/ SetLocalDescription \/ Reply
    \/ HandleICECandidate \/ ICECandidateFails
-----------------------------------------------------------------------------
(* Callbacks of the bot's peer connections *)

OnICECandidate(e, k) ==
    /\ e \in gathering /\ Alive(e) /\ k \notin sent[e] /\ socketOpen
    /\ sent' = [sent EXCEPT ![e] = @ \cup {k}]
    /\ toClient' = Append(toClient, Local(e, k))
    /\ UNCHANGED <<clientVars, toBot, socketOpen, loopVars, tableVars, pc, described, gathering,
                   taken, watching, announced, history>>

\* markControlReady, when the control channel has opened: the entry may be gone.
MarkControlReady(e) ==
    /\ e \in gathering \ announced /\ remote \in {"flushing", "applied"}
    /\ announced' = announced \cup {e}
    /\ NewEntry \/ OwnEntry
    /\ UNCHANGED <<clientVars, wireVars, loopVars, pendingICE, remoteSet, signalled, pc, described,
                   gathering, sent, taken, watching, history>>
-----------------------------------------------------------------------------
Browser ==
    SocketOpens \/ SendOffer \/ ReceiveAnswer \/ AnswerSet \/ FlushRemote \/ ReceiveCandidate

Next ==
    \/ Browser \/ Leave \/ (\E k \in ClientICE : SendCandidate(k))
    \/ Loop \/ CloseByRequest
    \/ \E e \in Entries : \/ StateChange(e) \/ ConnectionFails(e) \/ MarkControlReady(e)
                          \/ \E k \in BotICE : OnICECandidate(e, k)

Spec == Init /\ [][Next]_vars

\* ICE fails in the end when the other side is gone or never got an answer.
Deserted(e) ==
    client = "left" \/ (loop = "closed" /\ remote = "none" /\ \A i \in DOMAIN toClient :
                                                                 toClient[i] # Answer)

\* The browser's awaits and the bot's goroutines go on, and sockets bring what was
\* sent.  Users need not leave, and who could gather a candidate need not.
FairSpec ==
    /\ Spec
    /\ WF_vars(Browser)
    /\ WF_vars(Loop) /\ \A message \in ToBot : WF_vars(Read(message))
    /\ \A e \in Entries : WF_vars(StateChange(e)) /\ WF_vars(Deserted(e) /\ ConnectionFails(e))
-----------------------------------------------------------------------------
(* Properties *)

At(s, x) == {i \in DOMAIN s : s[i] = x}

Places(k) ==
    {<<"wire", 0>> : x \in {k} \cap toBot}
    \cup {<<"hand", 0>> : x \in IF loop = "handling" THEN {k} \cap {hand} ELSE {}}
    \cup {<<"batch", i>> : i \in At(batch, k)}
    \cup {<<"failed", 0>> : x \in {k} \cap failed}
    \cup UNION {{<<"pending", e, i>> : i \in At(pendingICE[e], k)}
                \cup {<<"taken", e, i>> : i \in At(taken[e], k)} : e \in Entries}

\* A candidate of the client is in one place, and unless Close removed an entry it
\* reaches the peer connection of the entry in the table: one that this refuses is the
\* only one lost, but for those that HandleOffer drops when the offer fails.
ClientCandidateOnce ==
    \A k \in gathered :
        /\ Cardinality(Places(k)) = 1
        /\ ~closes => /\ k \in failed => k \in refused \/ stranded # {}
                      /\ \A e \in Entries : At(pendingICE[e], k) # {} => e = table
                      /\ table \in remoteSet => At(pendingICE[table], k) = {}

\* One of the bot is under way, waits for the answer, or was applied.
BotCandidateOnce ==
    Present =>
        \A e \in Entries : \A k \in sent[e] :
            LET c == Local(e, k)
            IN Cardinality(At(toClient, c)) + Cardinality(At(clientPeer, c))
               + Cardinality({i \in At(remoteICE, c) : i > flushed}) = 1

\* Every candidate is applied once, or waits to be: the client's whether it comes
\* before the offer, while HandleOffer applies those that waited, or after it; the
\* bot's before the answer, while the browser awaits it or applies those that waited.
CandidateOnce == ClientCandidateOnce /\ BotCandidateOnce

\* A peer connection of the bot that is not closed is that of the entry in the table,
\* so that Close will close it, unless Close came while HandleOffer was making it.
PeerConnectionOwned == \A e \in Entries : Alive(e) => e = table \/ e \in orphans

\* The negotiation ends: the browser has applied the answer and every candidate,
\* the bot those of the browser that it did not refuse, unless somebody closes the
\* session or HandleOffer fails, after which nobody tries again.
Settled ==
    /\ remote = "applied" /\ toClient = <<>> /\ remoteICE = <<>>
    /\ \A k \in gathered \ refused : table # 0 /\ At(taken[table], k) # {}
NegotiationCompletes ==
    client = "offered" ~> Settled \/ closes \/ ~Present \/ stranded # {}

\* When the client has left, with or without session.close, the bot's peer
\* connections are closed in the end, but for those that Close overlooked while they
\* were made, and those whose offer failed: they stay in the table, their ICE has
\* not begun and so cannot fail, and without session.close or DELETE nobody closes them.
DepartureReleases ==
    ~Present ~> [](\A e \in Entries : Alive(e) => e \in orphans \/ e \in stranded)
=============================================================================

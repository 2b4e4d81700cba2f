--------------------------- MODULE NegotiationProofs ---------------------------
(***************************************************************************)
(* Proofs about Negotiation, for any candidates of the two sides and any   *)
(* number of entries.                                                      *)
(*                                                                         *)
(* A candidate of the client is followed through the places it can be in   *)
(* (Delivery): a step leaves it where it is, or takes it from one place    *)
(* and puts it in another.  One of the bot is counted in the three queues  *)
(* it can be in (Counted).  That a candidate reaches the entry in the      *)
(* table rests on there being one entry as long as nobody called Close     *)
(* (Undisturbed).                                                          *)
(***************************************************************************)
EXTENDS Negotiation, SequenceTheorems, FiniteSetTheorems, FunctionTheorems, TLAPS

Offering == {"create", "describe", "take", "flush", "reply"}

\* What the place of the bot's loop says of the offer it handles: it holds an entry from
\* the first section to the answer, whose peer connection has the offer's description
\* once it was set, and has candidates to add only in between.
Handling ==
    /\ loop \in Offering <=> held # 0
    /\ loop \in {"take", "flush", "reply"} => held \in described
    /\ loop # "flush" => batch = <<>>

TypeInv == TypeOK /\ Handling

\* The entry whose peer connection is being made is in the table, or was removed from it
\* while that went on.
Making == loop = "create" => held = table \/ held \in orphans

\* The candidates that wait belong to an entry whose offer has not been applied.
Waiting == \A e \in Entries : pendingICE[e] # <<>> => e <= entries /\ e \notin remoteSet

\* As long as Close removed nothing there is one entry at most, its peer connection is not
\* closed, and no candidate has failed but those it refused, or with the offer.
Undisturbed ==
    ~closes =>
        /\ table = entries /\ entries <= 1
        /\ \A e \in Entries : pc[e] # "closed"
        /\ loop \in Offering \ {"create"} => Alive(held)
        /\ stranded = {} => failed \subseteq refused

\* The places of a candidate of the client: the queue of a place has it, and once.
Holds(s, k)  == At(s, k) # {}
Single(s, k) == \A i, j \in At(s, k) : i = j

WireKey   == <<"wire", 0>>
HandKey   == <<"hand", 0>>
BatchKey  == <<"batch", 0>>
FailedKey == <<"failed", 0>>
Keys == {WireKey, HandKey, BatchKey, FailedKey} \cup ({"pending", "taken"} \X Entries)

Has(key, k) == CASE key[1] = "wire"    -> k \in toBot
                 [] key[1] = "hand"    -> loop = "handling" /\ hand = k
                 [] key[1] = "batch"   -> Holds(batch, k)
                 [] key[1] = "failed"  -> k \in failed
                 [] key[1] = "pending" -> Holds(pendingICE[key[2]], k)
                 [] key[1] = "taken"   -> Holds(taken[key[2]], k)

Singles(k) == Single(batch, k) /\ \A e \in Entries : Single(pendingICE[e], k) /\ Single(taken[e], k)

OnePlace(k) ==
    /\ Singles(k)
    /\ \A x, y \in Keys : Has(x, k) /\ Has(y, k) => x = y
    /\ (\E x \in Keys : Has(x, k)) <=> k \in gathered

Delivery == \A k \in ClientICE : OnePlace(k)

\* How often a queue has a candidate of the bot, and how often it waits for the answer.
Times(s, c) == Cardinality(At(s, c))
Left(c) == {i \in At(remoteICE, c) : i > flushed}

Counted ==
    Present =>
        \A e \in Entries, k \in BotICE :
            Times(toClient, Local(e, k)) + Times(clientPeer, Local(e, k))
            + Cardinality(Left(Local(e, k))) = IF k \in sent[e] THEN 1 ELSE 0
-----------------------------------------------------------------------------
(* Types. *)

LEMMA CandidateTyped ==
    \A e \in Entries, k \in BotICE : Local(e, k) \in ToClient \ {Answer}
  <1>1. \A e \in Entries : e # 0
    BY EntriesAssumption DEF Entries
  <1>2. ASSUME NEW e \in Entries, NEW k \in BotICE PROVE Local(e, k)[2] # Answer[2]
    BY <1>1, <1>2 DEF Local, Answer
  <1> QED
    BY <1>2 DEF ToClient

\* The entry of the session, be it new or old.
LEMMA EntryTyped ==
    ASSUME TypeOK, NewEntry \/ OwnEntry
    PROVE  /\ table' \in Entries /\ table' # 0 /\ table' \in 0 .. entries'
           /\ entries' \in 0 .. MaxEntries /\ entries <= entries'
           /\ table # 0 => table' = table /\ entries' = entries
  <1>1. table \in 0 .. entries /\ entries \in 0 .. MaxEntries /\ MaxEntries \in Nat
    BY EntriesAssumption DEF TypeOK
  <1> QED
    BY <1>1 DEF NewEntry, OwnEntry, Entries

\* What Close does to the table, the peer connections and the websocket.
LEMMA CloseFacts ==
    ASSUME TypeInv, NEW called \in SUBSET Entries, CloseTable(called)
    PROVE  /\ table' = 0 /\ UNCHANGED <<entries, pendingICE, remoteSet, signalled, described,
                                        gathering, sent, taken, announced, failed, refused,
                                        stranded>>
           /\ pc' \in [Entries -> {"none", "open", "failed", "closed"}]
           /\ \A e \in Entries : pc'[e] = IF e = table /\ Alive(e) THEN "closed" ELSE pc[e]
           /\ watching' \subseteq Entries
           /\ socketOpen' \in BOOLEAN
           /\ closes' = (closes \/ table # 0)
           /\ orphans \subseteq orphans' /\ orphans' \subseteq Entries
           /\ loop = "create" /\ held = table => held \in orphans'
  <1>1. 0 \notin Entries
    BY EntriesAssumption DEF Entries
  <1>2. held \in Entries \cup {0} /\ table \in Entries \cup {0}
    BY EntriesAssumption DEF TypeInv, TypeOK, Entries
  <1>3. loop = "create" => held # 0
    BY DEF TypeInv, Handling, Offering
  <1> QED
    BY <1>1, <1>2, <1>3 DEF CloseTable, RemoveEntry, TypeInv, TypeOK, Alive

LEMMA TypesInit == Init => TypeInv
  <1> SUFFICES ASSUME Init PROVE TypeInv
    OBVIOUS
  <1>1. /\ <<>> \in Seq(ToClient) /\ <<>> \in Seq(ToClient \ {Answer}) /\ <<>> \in Seq(ClientICE)
        /\ Len(<<>>) = 0
    BY EmptySeq
  <1>2. /\ pendingICE \in [Entries -> Seq(ClientICE)]
        /\ taken \in [Entries -> Seq(ClientICE)]
        /\ pc \in [Entries -> {"none", "open", "failed", "closed"}]
        /\ sent \in [Entries -> SUBSET BotICE]
    BY <1>1 DEF Init
  <1>3. flushed \in 0 .. Len(remoteICE) /\ held \in 0 .. MaxEntries
        /\ entries \in 0 .. MaxEntries /\ table \in 0 .. entries
    BY <1>1, EntriesAssumption DEF Init
  <1> QED
    BY <1>1, <1>2, <1>3 DEF Init, TypeInv, TypeOK, Handling, Offering

LEMMA BrowserTypes ==
    ASSUME TypeInv, Browser \/ Leave \/ \E k \in ClientICE : SendCandidate(k)
    PROVE  TypeInv'
  <1> USE DEF clientVars, wireVars, loopVars, tableVars, peerVars, history
  <1>1. CASE SocketOpens
    BY <1>1 DEF SocketOpens, TypeInv, TypeOK, Handling
  <1>2. CASE AnswerSet
    BY <1>2 DEF AnswerSet, TypeInv, TypeOK, Handling
  <1>8. CASE SendOffer
    <2>1. toBot' \subseteq ToBot
      BY <1>8 DEF SendOffer, TypeInv, TypeOK, ToBot
    <2> QED
      BY <1>8, <2>1 DEF SendOffer, TypeInv, TypeOK, Handling
  <1>9. ASSUME NEW k \in ClientICE, SendCandidate(k) PROVE TypeInv'
    <2>1. toBot' \subseteq ToBot
      BY <1>9 DEF SendCandidate, TypeInv, TypeOK, ToBot
    <2> QED
      BY <1>9, <2>1 DEF SendCandidate, TypeInv, TypeOK, Handling
  <1>3. CASE Leave
    <2>1. <<>> \in Seq(ToClient \ {Answer}) /\ Len(<<>>) = 0 /\ 0 \in 0 .. 0
      BY EmptySeq
    <2>2. toBot' \subseteq ToBot
      BY <1>3 DEF Leave, TypeInv, TypeOK, ToBot
    <2> QED
      BY <1>3, <2>1, <2>2 DEF Leave, TypeInv, TypeOK, Handling
  <1>4. ASSUME NEW m, Receives(m) PROVE m \in ToClient /\ toClient' \in Seq(ToClient)
    BY <1>4, HeadTailProperties DEF Receives, TypeInv, TypeOK
  <1>5. CASE ReceiveAnswer
    <2>1. toClient' \in Seq(ToClient)
      BY <1>4, <1>5 DEF ReceiveAnswer
    <2> QED
      BY <1>5, <2>1 DEF ReceiveAnswer, Receives, TypeInv, TypeOK, Handling
  <1>6. CASE ReceiveCandidate
    <2>1. PICK c \in ToClient \ {Answer} :
            /\ Receives(c)
            /\ \/ /\ remote \in {"none", "setting"}
                  /\ remoteICE' = Append(remoteICE, c) /\ UNCHANGED clientPeer
               \/ /\ remote \in {"flushing", "applied"}
                  /\ clientPeer' = Append(clientPeer, c) /\ UNCHANGED remoteICE
            /\ UNCHANGED <<remote, flushed>>
      BY <1>6 DEF ReceiveCandidate
    <2>2. toClient' \in Seq(ToClient)
      BY <1>4, <2>1
    <2>3. /\ Append(remoteICE, c) \in Seq(ToClient \ {Answer})
          /\ Append(clientPeer, c) \in Seq(ToClient \ {Answer})
          /\ Len(Append(remoteICE, c)) = Len(remoteICE) + 1 /\ Len(remoteICE) \in Nat
      BY AppendProperties, LenProperties DEF TypeInv, TypeOK
    <2>4. 0 .. Len(remoteICE) \subseteq 0 .. Len(remoteICE)'
      BY <2>1, <2>3
    <2>5. /\ flushed' \in 0 .. Len(remoteICE)' /\ remoteICE' \in Seq(ToClient \ {Answer})
          /\ clientPeer' \in Seq(ToClient \ {Answer})
      BY <2>1, <2>3, <2>4 DEF TypeInv, TypeOK
    <2> QED
      BY <2>1, <2>2, <2>5 DEF Receives, TypeInv, TypeOK, Handling
  <1>7. CASE FlushRemote
    <2>1. <<>> \in Seq(ToClient \ {Answer}) /\ Len(<<>>) = 0
      BY EmptySeq
    <2>2. Len(remoteICE) \in Nat /\ flushed \in 0 .. Len(remoteICE)
      BY LenProperties DEF TypeInv, TypeOK
    <2>3. ASSUME flushed < Len(remoteICE)
          PROVE  /\ Append(clientPeer, remoteICE[flushed + 1]) \in Seq(ToClient \ {Answer})
                 /\ flushed + 1 \in 0 .. Len(remoteICE)
      <3>1. flushed + 1 \in 1 .. Len(remoteICE)
        BY <2>2, <2>3
      <3>2. remoteICE[flushed + 1] \in ToClient \ {Answer}
        BY <3>1, ElementOfSeq DEF TypeInv, TypeOK
      <3> QED
        BY <3>1, <3>2, AppendProperties DEF TypeInv, TypeOK
    <2>4. /\ flushed' \in 0 .. Len(remoteICE)' /\ remoteICE' \in Seq(ToClient \ {Answer})
          /\ clientPeer' \in Seq(ToClient \ {Answer})
          /\ remote' \in {"none", "setting", "flushing", "applied"}
      <3>1. CASE /\ flushed < Len(remoteICE)
                 /\ clientPeer' = Append(clientPeer, remoteICE[flushed + 1])
                 /\ flushed' = flushed + 1
                 /\ UNCHANGED <<remote, remoteICE>>
        BY <3>1, <2>3 DEF TypeInv, TypeOK
      <3>2. CASE /\ flushed = Len(remoteICE)
                 /\ remoteICE' = <<>> /\ flushed' = 0
                 /\ remote' = "applied"
                 /\ UNCHANGED clientPeer
        BY <3>2, <2>1 DEF TypeInv, TypeOK
      <3> QED
        BY <1>7, <3>1, <3>2 DEF FlushRemote
    <2> QED
      BY <1>7, <2>4 DEF FlushRemote, TypeInv, TypeOK, Handling
  <1> QED
    BY <1>1, <1>2, <1>3, <1>5, <1>6, <1>7, <1>8, <1>9 DEF Browser

LEMMA CloseTypes ==
    ASSUME TypeInv, CloseByRequest \/ HandleClose \/ \E e \in Entries : StateChange(e)
    PROVE  TypeInv'
  <1> USE DEF clientVars, loopVars, TypeInv, TypeOK, Handling
  <1>1. ASSUME NEW called \in SUBSET Entries, CloseTable(called),
               UNCHANGED <<clientVars, toBot, toClient, hand, held, batch>>,
               loop' \in {"reading", "handling", "create", "describe", "take", "flush", "reply",
                          "leaving", "closed"},
               Handling'
        PROVE  TypeInv'
    <2>1. table' = 0 /\ entries' = entries /\ closes' \in BOOLEAN
      BY <1>1, CloseFacts
    <2>2. table' \in 0 .. entries'
      BY <2>1, EntriesAssumption
    <2> QED
      BY <1>1, <2>1, <2>2, CloseFacts
  <1>2. CASE CloseByRequest
    <2>1. CloseTable({}) /\ UNCHANGED described
      BY <1>2, CloseFacts DEF CloseByRequest
    <2> QED BY <1>1, <1>2, <2>1 DEF CloseByRequest
  <1>3. CASE HandleClose
    <2>1. CloseTable({}) /\ UNCHANGED described
      BY <1>3, CloseFacts DEF HandleClose
    <2>2. Handling'
      BY <1>3, <2>1 DEF HandleClose, Offering
    <2> QED BY <1>1, <1>3, <2>1, <2>2 DEF HandleClose
  <1>4. ASSUME NEW e \in Entries, StateChange(e) PROVE TypeInv'
    <2>1. CloseTable({e}) /\ UNCHANGED described
      BY <1>4, CloseFacts DEF StateChange
    <2> QED BY <1>1, <1>4, <2>1 DEF StateChange
  <1> QED BY <1>2, <1>3, <1>4

LEMMA LoopTypes ==
    ASSUME TypeInv, Loop, ~HandleClose
    PROVE  TypeInv'
  <1> USE DEF clientVars, wireVars, loopVars, tableVars, peerVars, history
  <1>0. 0 \notin Entries /\ held \in Entries \cup {0}
    BY EntriesAssumption DEF TypeInv, TypeOK, Entries
  <1>1. ASSUME NEW m \in ToBot, Read(m) PROVE TypeInv'
    BY <1>1 DEF Read, TypeInv, TypeOK, Handling, Offering
  <1>2. CASE LoopEnds
    BY <1>2 DEF LoopEnds, TypeInv, TypeOK, Handling, Offering
  <1>3. CASE HandleOffer
    <2>1. NewEntry \/ OwnEntry
      BY <1>3 DEF HandleOffer
    <2>2. table' \in Entries /\ table' \in 0 .. entries' /\ entries' \in 0 .. MaxEntries
      BY <2>1, EntryTyped DEF TypeInv
    <2>3. held' \in 0 .. MaxEntries /\ held' # 0 /\ signalled' \subseteq Entries
      BY <1>0, <1>3, <2>2, EntriesAssumption DEF HandleOffer, Entries, TypeInv, TypeOK
    <2> QED
      BY <1>3, <2>2, <2>3 DEF HandleOffer, TypeInv, TypeOK, Handling, Offering
  <1>4. CASE MakePeer
    BY <1>4 DEF MakePeer, TypeInv, TypeOK, Handling, Offering
  <1>5. CASE OfferFails
    <2>1. {batch[i] : i \in DOMAIN batch} \subseteq ClientICE
      BY ElementOfSeq, LenProperties DEF TypeInv, TypeOK
    <2>2. <<>> \in Seq(ClientICE) /\ 0 \in 0 .. MaxEntries
      BY EmptySeq, EntriesAssumption
    <2>3. held \in Entries
      BY <1>0, <1>5 DEF OfferFails, TypeInv, Handling, Offering
    <2> QED
      BY <1>5, <2>1, <2>2, <2>3 DEF OfferFails, TypeInv, TypeOK, Handling, Offering
  <1>6. CASE SetRemoteDescription
    BY <1>0, <1>6 DEF SetRemoteDescription, TypeInv, TypeOK, Handling, Offering
  <1>7. CASE TakePending
    <2>1. held \in Entries
      BY <1>0, <1>7 DEF TakePending, TypeInv, Handling, Offering
    <2>2. /\ batch' \in Seq(ClientICE) /\ pendingICE' \in [Entries -> Seq(ClientICE)]
          /\ remoteSet' \subseteq Entries
      BY <1>7, <2>1, EmptySeq DEF TakePending, TypeInv, TypeOK
    <2> QED
      BY <1>7, <2>2 DEF TakePending, TypeInv, TypeOK, Handling, Offering
  <1>8. CASE AddPending
    <2>1. Head(batch) \in ClientICE /\ Tail(batch) \in Seq(ClientICE) /\ held \in Entries
      BY <1>0, <1>8, HeadTailProperties DEF AddPending, TypeInv, TypeOK, Handling, Offering
    <2>2. Append(taken[held], Head(batch)) \in Seq(ClientICE)
      BY <2>1, AppendProperties DEF TypeInv, TypeOK
    <2>3. taken' \in [Entries -> Seq(ClientICE)]
      BY <1>8, <2>1, <2>2 DEF AddPending, TypeInv, TypeOK
    <2> QED
      BY <1>8, <2>1, <2>3 DEF AddPending, TypeInv, TypeOK, Handling, Offering
  <1>9. CASE SetLocalDescription
    BY <1>9 DEF SetLocalDescription, TypeInv, TypeOK, Handling, Offering
  <1>10. CASE Reply
    <2>1. Append(toClient, Answer) \in Seq(ToClient)
      BY AppendProperties DEF TypeInv, TypeOK, ToClient
    <2>2. toClient' \in Seq(ToClient) /\ 0 \in 0 .. MaxEntries
      BY <1>10, <2>1, EntriesAssumption DEF Reply, TypeInv, TypeOK
    <2> QED
      BY <1>10, <2>2 DEF Reply, TypeInv, TypeOK, Handling, Offering
  <1>11. CASE HandleICECandidate
    <2>1. NewEntry \/ OwnEntry
      BY <1>11 DEF HandleICECandidate
    <2>2. table' \in Entries /\ table' \in 0 .. entries' /\ entries' \in 0 .. MaxEntries
      BY <2>1, EntryTyped DEF TypeInv
    <2>3. /\ Append(pendingICE[table'], hand) \in Seq(ClientICE)
          /\ Append(taken[table'], hand) \in Seq(ClientICE)
      BY <1>11, <2>2, AppendProperties DEF HandleICECandidate, TypeInv, TypeOK
    <2>4. /\ pendingICE' \in [Entries -> Seq(ClientICE)]
          /\ taken' \in [Entries -> Seq(ClientICE)]
      BY <1>11, <2>2, <2>3 DEF HandleICECandidate, TypeInv, TypeOK
    <2> QED
      BY <1>11, <2>2, <2>4 DEF HandleICECandidate, TypeInv, TypeOK, Handling, Offering
  <1>12. CASE ICECandidateFails
    BY <1>12 DEF ICECandidateFails, TypeInv, TypeOK, Handling, Offering
  <1> QED
    BY <1>1, <1>2, <1>3, <1>4, <1>5, <1>6, <1>7, <1>8, <1>9, <1>10, <1>11, <1>12 DEF Loop

LEMMA CallbackTypes ==
    ASSUME TypeInv, NEW e \in Entries,
           ConnectionFails(e) \/ MarkControlReady(e) \/ \E k \in BotICE : OnICECandidate(e, k)
    PROVE  TypeInv'
  <1> USE DEF clientVars, wireVars, loopVars, tableVars, peerVars, history
  <1>1. CASE ConnectionFails(e)
    BY <1>1 DEF ConnectionFails, TypeInv, TypeOK, Handling
  <1>2. CASE MarkControlReady(e)
    <2>1. NewEntry \/ OwnEntry
      BY <1>2 DEF MarkControlReady
    <2>2. table' \in 0 .. entries' /\ entries' \in 0 .. MaxEntries
      BY <2>1, EntryTyped DEF TypeInv
    <2> QED
      BY <1>2, <2>2 DEF MarkControlReady, TypeInv, TypeOK, Handling
  <1>3. ASSUME NEW k \in BotICE, OnICECandidate(e, k) PROVE TypeInv'
    <2>1. toClient' \in Seq(ToClient)
      BY <1>3, CandidateTyped, AppendProperties DEF OnICECandidate, TypeInv, TypeOK
    <2>2. sent' \in [Entries -> SUBSET BotICE]
      BY <1>3 DEF OnICECandidate, TypeInv, TypeOK
    <2> QED
      BY <1>3, <2>1, <2>2 DEF OnICECandidate, TypeInv, TypeOK, Handling
  <1> QED BY <1>1, <1>2, <1>3

LEMMA TypesStep == TypeInv /\ [Next]_vars => TypeInv'
  <1>1. ASSUME TypeInv, UNCHANGED vars PROVE TypeInv'
    BY <1>1 DEF vars, clientVars, wireVars, loopVars, tableVars, peerVars, history, TypeInv, TypeOK,
                Handling
  <1> QED
    BY <1>1, BrowserTypes, CloseTypes, LoopTypes, CallbackTypes DEF Next

LEMMA NegotiationTypes == Spec => []TypeInv
  BY TypesInit, TypesStep, PTL DEF Spec

\* What is handled, queued and described has its type: an offer that is being handled
\* belongs to an entry, and only what has a description gathers candidates.
THEOREM NegotiationTypeOK == Spec => []TypeOK
  BY NegotiationTypes, PTL DEF TypeInv
-----------------------------------------------------------------------------
(* Whose the peer connections are. *)

LEMMA OwnedStep ==
    TypeInv /\ TypeInv' /\ Making /\ PeerConnectionOwned /\ [Next]_vars
        => Making' /\ PeerConnectionOwned'
  <1> SUFFICES ASSUME TypeInv, TypeInv', Making, PeerConnectionOwned, [Next]_vars
               PROVE  Making' /\ PeerConnectionOwned'
    OBVIOUS
  <1> USE DEF clientVars, wireVars, loopVars, tableVars, peerVars, history
  <1>0. 0 \notin Entries
    BY EntriesAssumption DEF Entries
  <1>1. ASSUME UNCHANGED <<table, pc, orphans, held>>, loop' = "create" => loop = "create"
        PROVE  Making' /\ PeerConnectionOwned'
    BY <1>1 DEF Making, PeerConnectionOwned, Alive
  <1>2. CASE \/ UNCHANGED vars \/ Browser \/ Leave
             \/ \E k \in ClientICE : SendCandidate(k)
             \/ \E m \in ToBot : Read(m)
             \/ LoopEnds \/ SetRemoteDescription \/ TakePending \/ AddPending
             \/ SetLocalDescription \/ ICECandidateFails
             \/ \E e \in Entries, k \in BotICE : OnICECandidate(e, k)
    <2>1. UNCHANGED <<table, pc, orphans, held>> /\ (loop' = "create" => loop = "create")
      BY <1>2
      DEF vars, Browser, Leave, SendCandidate, Read, LoopEnds, SetRemoteDescription, TakePending,
          AddPending, SetLocalDescription, OnICECandidate, ICECandidateFails, SocketOpens, SendOffer, ReceiveAnswer,
          AnswerSet, FlushRemote, ReceiveCandidate, Receives
    <2> QED BY <1>1, <2>1
  <1>3. ASSUME NEW called \in SUBSET Entries, CloseTable(called), UNCHANGED held,
               loop' = "create" => loop = "create"
        PROVE  Making' /\ PeerConnectionOwned'
    BY <1>3, CloseFacts DEF Making, PeerConnectionOwned, Alive
  <1>4. CASE CloseByRequest \/ HandleClose \/ \E e \in Entries : StateChange(e)
    BY <1>3, <1>4 DEF CloseByRequest, HandleClose, StateChange
  <1>5. ASSUME NewEntry \/ OwnEntry, UNCHANGED <<pc, orphans>>,
               \/ held' = held /\ (loop' = "create" => loop = "create")
               \/ held' = table'
        PROVE  Making' /\ PeerConnectionOwned'
    <2>1. table = 0 \/ table' = table
      BY <1>5 DEF OwnEntry, NewEntry
    <2>2. loop = "create" => held # 0
      BY DEF TypeInv, Handling, Offering
    <2> QED BY <1>0, <1>5, <2>1, <2>2 DEF Making, PeerConnectionOwned, Alive
  <1>6. CASE HandleOffer \/ HandleICECandidate \/ \E e \in Entries : MarkControlReady(e)
    BY <1>5, <1>6 DEF HandleOffer, HandleICECandidate, MarkControlReady
  <1>7. CASE MakePeer
    BY <1>7 DEF MakePeer, Making, PeerConnectionOwned, Alive, TypeInv, TypeOK
  <1>8. CASE OfferFails \/ Reply
    BY <1>8 DEF OfferFails, Reply, Making, PeerConnectionOwned, Alive
  <1>9. ASSUME NEW e \in Entries, ConnectionFails(e) PROVE Making' /\ PeerConnectionOwned'
    BY <1>9 DEF ConnectionFails, Making, PeerConnectionOwned, Alive, TypeInv, TypeOK
  <1> QED
    BY <1>2, <1>4, <1>6, <1>7, <1>8, <1>9 DEF Next, Loop

\* A peer connection of the bot that is not closed is that of the entry in the table, but
\* for those whose entry Close removed while HandleOffer was making them.
THEOREM NegotiationPeerConnectionOwned == Spec => []PeerConnectionOwned
  <1>1. Init => Making /\ PeerConnectionOwned
    BY DEF Init, Making, PeerConnectionOwned, Alive
  <1> QED
    BY <1>1, OwnedStep, NegotiationTypes, PTL DEF Spec
-----------------------------------------------------------------------------
(* One entry until Close. *)

LEMMA WaitingStep == TypeInv /\ TypeInv' /\ Waiting /\ [Next]_vars => Waiting'
  <1> SUFFICES ASSUME TypeInv, TypeInv', Waiting, [Next]_vars PROVE Waiting'
    OBVIOUS
  <1> USE DEF clientVars, wireVars, loopVars, tableVars, peerVars, history
  <1>0. Entries \subseteq Nat /\ entries \in Nat /\ entries' \in Nat
    BY EntriesAssumption DEF Entries, TypeInv, TypeOK
  <1>1. ASSUME UNCHANGED <<entries, pendingICE, remoteSet>> PROVE Waiting'
    BY <1>1 DEF Waiting
  <1>2. CASE \/ UNCHANGED vars \/ Browser \/ Leave
             \/ \E k \in ClientICE : SendCandidate(k)
             \/ \E m \in ToBot : Read(m)
             \/ LoopEnds \/ MakePeer \/ OfferFails \/ SetRemoteDescription \/ AddPending
             \/ SetLocalDescription \/ Reply \/ ICECandidateFails
             \/ \E e \in Entries : ConnectionFails(e) \/ \E k \in BotICE : OnICECandidate(e, k)
    <2>1. UNCHANGED <<entries, pendingICE, remoteSet>>
      BY <1>2
      DEF vars, ICECandidateFails, Browser, Leave, SendCandidate, Read, LoopEnds, MakePeer, OfferFails,
          SetRemoteDescription, AddPending, SetLocalDescription, Reply, ConnectionFails,
          OnICECandidate, SocketOpens, SendOffer, ReceiveAnswer, AnswerSet, FlushRemote,
          ReceiveCandidate, Receives
    <2> QED BY <1>1, <2>1
  <1>3. CASE CloseByRequest \/ HandleClose \/ \E e \in Entries : StateChange(e)
    <2>1. \E called \in SUBSET Entries : CloseTable(called)
      BY <1>3 DEF CloseByRequest, HandleClose, StateChange
    <2> QED BY <1>1, <2>1, CloseFacts
  <1>4. CASE HandleOffer \/ \E e \in Entries : MarkControlReady(e)
    <2>1. /\ UNCHANGED <<pendingICE, remoteSet>>
          /\ NewEntry \/ OwnEntry
      BY <1>4 DEF HandleOffer, MarkControlReady
    <2>2. entries <= entries'
      BY <2>1, EntryTyped DEF TypeInv
    <2>3. \A e \in Entries : e <= entries => e <= entries'
      BY <1>0, <2>2
    <2> QED BY <2>1, <2>3 DEF Waiting
  <1>5. CASE TakePending
    BY <1>5 DEF TakePending, Waiting, TypeInv, TypeOK
  <1>6. CASE HandleICECandidate
    <2>1. NewEntry \/ OwnEntry
      BY <1>6 DEF HandleICECandidate
    <2>2. entries <= entries' /\ table' \in 0 .. entries' /\ table' \in Entries
      BY <2>1, EntryTyped DEF TypeInv
    <2>3. table' <= entries' /\ \A e \in Entries : e <= entries => e <= entries'
      BY <1>0, <2>2
    <2>4. ASSUME NEW e \in Entries, pendingICE'[e] # <<>>, e # table'
          PROVE  pendingICE[e] # <<>>
      BY <1>6, <2>4 DEF HandleICECandidate, TypeInv, TypeOK
    <2>5. pendingICE'[table'] # <<>> => table' \notin remoteSet
      BY <1>6, <2>2 DEF HandleICECandidate, Waiting
    <2>6. remoteSet' = remoteSet
      BY <1>6 DEF HandleICECandidate
    <2> QED BY <2>2, <2>3, <2>4, <2>5, <2>6 DEF Waiting
  <1> QED
    BY <1>2, <1>3, <1>4, <1>5, <1>6 DEF Next, Loop

LEMMA UndisturbedStep == TypeInv /\ TypeInv' /\ Undisturbed /\ [Next]_vars => Undisturbed'
  <1> SUFFICES ASSUME TypeInv, TypeInv', Undisturbed, [Next]_vars, ~closes'
               PROVE  Undisturbed'
    BY DEF Undisturbed
  <1> USE DEF clientVars, wireVars, loopVars, tableVars, peerVars, history
  <1>0. /\ Entries \subseteq Nat /\ 0 \notin Entries
        /\ entries \in Nat /\ table \in Nat /\ entries' \in Nat /\ table' \in Nat
    BY EntriesAssumption DEF Entries, TypeInv, TypeOK
  <1>1. ASSUME NEW called \in SUBSET Entries, CloseTable(called),
               UNCHANGED held, loop' \in {loop, "leaving"}
        PROVE  Undisturbed'
    <2>1. ~closes /\ table = 0 /\ table' = 0 /\ UNCHANGED <<entries, failed, refused, stranded>>
      BY <1>1, CloseFacts
    <2>2. \A e \in Entries : pc'[e] = pc[e]
      BY <1>0, <1>1, <2>1, CloseFacts
    <2>3. loop \in Offering => held \in Entries
      BY DEF TypeInv, TypeOK, Handling, Entries
    <2>4. "leaving" \notin Offering
      BY DEF Offering
    <2> QED BY <1>1, <2>1, <2>2, <2>3, <2>4 DEF Undisturbed, Alive
  <1>2. CASE CloseByRequest \/ HandleClose \/ \E e \in Entries : StateChange(e)
    BY <1>1, <1>2 DEF CloseByRequest, HandleClose, StateChange
  <1>3. ASSUME UNCHANGED <<table, entries, pc, failed, refused, stranded, closes, held>>,
               loop' \in Offering \ {"create"} => loop \in Offering \ {"create"}
        PROVE  Undisturbed'
    BY <1>3 DEF Undisturbed, Alive
  <1>4. CASE \/ UNCHANGED vars \/ Browser \/ Leave
             \/ \E k \in ClientICE : SendCandidate(k)
             \/ \E m \in ToBot : Read(m)
             \/ LoopEnds \/ SetRemoteDescription \/ TakePending \/ AddPending
             \/ SetLocalDescription
             \/ \E e \in Entries, k \in BotICE : OnICECandidate(e, k)
    <2>1. UNCHANGED <<table, entries, pc, failed, refused, stranded, closes, held>>
      BY <1>4
      DEF vars, Browser, Leave, SendCandidate, Read, LoopEnds, SetRemoteDescription, TakePending,
          AddPending, SetLocalDescription, OnICECandidate, SocketOpens, SendOffer, ReceiveAnswer,
          AnswerSet, FlushRemote, ReceiveCandidate, Receives
    <2>2. loop' \in Offering \ {"create"} => loop \in Offering \ {"create"}
      BY <1>4
      DEF vars, Browser, Leave, SendCandidate, Read, LoopEnds, SetRemoteDescription, TakePending,
          AddPending, SetLocalDescription, OnICECandidate, SocketOpens, SendOffer, ReceiveAnswer,
          AnswerSet, FlushRemote, ReceiveCandidate, Receives, Offering
    <2> QED BY <1>3, <2>1, <2>2
  <1>5. CASE HandleOffer \/ HandleICECandidate \/ \E e \in Entries : MarkControlReady(e)
    <2>1. /\ UNCHANGED <<pc, failed, refused, stranded, closes>>
          /\ NewEntry \/ OwnEntry
      BY <1>5 DEF HandleOffer, HandleICECandidate, MarkControlReady
    <2>2. table' = entries' /\ entries' <= 1
      BY <1>0, <2>1 DEF NewEntry, OwnEntry, Undisturbed
    <2>3. loop' \in Offering \ {"create"} => held' = held /\ loop \in Offering \ {"create"}
      BY <1>5 DEF HandleOffer, HandleICECandidate, MarkControlReady, Offering
    <2> QED BY <2>1, <2>2, <2>3 DEF Undisturbed, Alive
  <1>6. CASE MakePeer
    <2>1. held \in Entries
      BY <1>6 DEF MakePeer, TypeInv, TypeOK, Handling, Offering, Entries
    <2>2. pc'[held] \in {"open", "failed"} /\ \A e \in Entries : pc'[e] # "closed"
      BY <1>6, <2>1 DEF MakePeer, Undisturbed, TypeInv, TypeOK
    <2> QED BY <1>6, <2>2 DEF MakePeer, Undisturbed, Alive
  <1>7. CASE OfferFails
    <2>1. held \in Entries
      BY <1>7 DEF OfferFails, TypeInv, TypeOK, Handling, Offering, Entries
    <2>2. pc[held] # "closed" /\ held \in stranded'
      BY <1>7, <2>1 DEF OfferFails, Undisturbed
    <2> QED BY <1>7, <2>2 DEF OfferFails, Undisturbed, Offering
  <1>8. CASE Reply
    BY <1>8 DEF Reply, Undisturbed, Offering
  <1>9. ASSUME NEW e \in Entries, ConnectionFails(e) PROVE Undisturbed'
    BY <1>9 DEF ConnectionFails, Undisturbed, Alive, TypeInv, TypeOK
  <1>10. CASE ICECandidateFails
    BY <1>10 DEF ICECandidateFails, Undisturbed, Offering, Alive
  <1> QED
    BY <1>2, <1>4, <1>5, <1>6, <1>7, <1>8, <1>9, <1>10 DEF Next, Loop

LEMMA NegotiationUndisturbed == Spec => [](Waiting /\ Undisturbed)
  <1>1. Init => Waiting /\ Undisturbed
    BY DEF Init, Waiting, Undisturbed, Offering
  <1> QED
    BY <1>1, WaitingStep, UndisturbedStep, NegotiationTypes, PTL DEF Spec
-----------------------------------------------------------------------------
(* Queues: At gives the places where one has an element. *)

LEMMA EmptyAt == ASSUME NEW x PROVE At(<<>>, x) = {}
  BY DEF At

\* What is put at the end of a queue.
LEMMA AppendAt ==
    ASSUME NEW S, NEW s \in Seq(S), NEW y \in S, NEW x
    PROVE  /\ Len(s) \in Nat /\ At(s, x) \subseteq 1 .. Len(s)
           /\ At(Append(s, y), x) = At(s, x) \cup (IF y = x THEN {Len(s) + 1} ELSE {})
  <1>1. /\ Len(s) \in Nat /\ DOMAIN s = 1 .. Len(s)
        /\ DOMAIN Append(s, y) = 1 .. Len(s) + 1
        /\ Append(s, y)[Len(s) + 1] = y
        /\ \A i \in 1 .. Len(s) : Append(s, y)[i] = s[i]
    BY AppendProperties, LenProperties
  <1>2. 1 .. Len(s) + 1 = (1 .. Len(s)) \cup {Len(s) + 1}
    BY <1>1
  <1> QED
    BY <1>1, <1>2 DEF At

\* What is left when the head of a queue is taken.
LEMMA TailAt ==
    ASSUME NEW S, NEW s \in Seq(S), s # <<>>, NEW x
    PROVE  /\ Len(s) \in Nat /\ At(s, x) \subseteq 1 .. Len(s)
           /\ Head(s) = x <=> 1 \in At(s, x)
           /\ At(Tail(s), x) = {i - 1 : i \in At(s, x) \ {1}}
  <1>1. /\ Len(s) \in Nat /\ DOMAIN s = 1 .. Len(s) /\ Len(s) > 0 /\ Head(s) = s[1]
        /\ DOMAIN Tail(s) = 1 .. Len(s) - 1
        /\ \A i \in 1 .. Len(s) - 1 : Tail(s)[i] = s[i + 1]
    BY HeadTailProperties, LenProperties, EmptySeq
  <1>2. 1 \in DOMAIN s /\ (Head(s) = x <=> 1 \in At(s, x)) /\ At(s, x) \subseteq 1 .. Len(s)
    BY <1>1 DEF At
  <1>3. ASSUME NEW j \in At(Tail(s), x) PROVE j + 1 \in At(s, x) \ {1} /\ j = (j + 1) - 1
    BY <1>1, <1>3 DEF At
  <1>4. ASSUME NEW i \in At(s, x) \ {1} PROVE i - 1 \in At(Tail(s), x)
    <2>1. i - 1 \in 1 .. Len(s) - 1 /\ (i - 1) + 1 = i /\ s[i] = x
      BY <1>1, <1>4 DEF At
    <2> QED BY <1>1, <2>1 DEF At
  <1> QED
    BY <1>1, <1>2, <1>3, <1>4

LEMMA AppendHolds ==
    ASSUME NEW S, NEW s \in Seq(S), NEW y \in S, NEW k
    PROVE  /\ Holds(Append(s, y), k) <=> (Holds(s, k) \/ y = k)
           /\ Single(s, k) /\ (y = k => ~Holds(s, k)) => Single(Append(s, y), k)
  BY AppendAt DEF Holds, Single

LEMMA TailHolds ==
    ASSUME NEW S, NEW s \in Seq(S), s # <<>>, NEW k, Single(s, k)
    PROVE  /\ Single(Tail(s), k)
           /\ Holds(Tail(s), k) <=> (Holds(s, k) /\ Head(s) # k)
           /\ Head(s) = k => Holds(s, k)
  <1>1. /\ At(s, k) \subseteq Nat /\ (Head(s) = k <=> 1 \in At(s, k))
        /\ At(Tail(s), k) = {i - 1 : i \in At(s, k) \ {1}}
    BY TailAt
  <1> QED
    BY <1>1 DEF Holds, Single
-----------------------------------------------------------------------------
(* Where a candidate of the client is. *)

LEMMA KeyFacts ==
    /\ {WireKey, HandKey, BatchKey, FailedKey} \subseteq Keys
    /\ \A e \in Entries : <<"pending", e>> \in Keys /\ <<"taken", e>> \in Keys
    /\ \A x \in Keys : \/ x \in {WireKey, HandKey, BatchKey, FailedKey}
                       \/ \E e \in Entries : x = <<"pending", e>> \/ x = <<"taken", e>>
    /\ WireKey # HandKey /\ WireKey # BatchKey /\ WireKey # FailedKey
    /\ HandKey # BatchKey /\ HandKey # FailedKey /\ BatchKey # FailedKey
    /\ \A e \in Entries : /\ <<"pending", e>> \notin {WireKey, HandKey, BatchKey, FailedKey}
                          /\ <<"taken", e>> \notin {WireKey, HandKey, BatchKey, FailedKey}
    /\ \A e, f \in Entries : /\ <<"pending", e>> # <<"taken", f>>
                             /\ <<"pending", e>> = <<"pending", f>> => e = f
                             /\ <<"taken", e>> = <<"taken", f>> => e = f
  BY DEF Keys, WireKey, HandKey, BatchKey, FailedKey

LEMMA HasFacts ==
    ASSUME NEW k
    PROVE  /\ Has(WireKey, k) <=> k \in toBot
           /\ Has(HandKey, k) <=> loop = "handling" /\ hand = k
           /\ Has(BatchKey, k) <=> Holds(batch, k)
           /\ Has(FailedKey, k) <=> k \in failed
           /\ \A e \in Entries : /\ Has(<<"pending", e>>, k) <=> Holds(pendingICE[e], k)
                                 /\ Has(<<"taken", e>>, k) <=> Holds(taken[e], k)
  BY DEF Has, WireKey, HandKey, BatchKey, FailedKey

LEMMA HasFactsNext ==
    ASSUME NEW k
    PROVE  /\ Has(WireKey, k)' <=> k \in toBot'
           /\ Has(HandKey, k)' <=> loop' = "handling" /\ hand' = k
           /\ Has(BatchKey, k)' <=> Holds(batch', k)
           /\ Has(FailedKey, k)' <=> k \in failed'
           /\ \A e \in Entries : /\ Has(<<"pending", e>>, k)' <=> Holds(pendingICE'[e], k)
                                 /\ Has(<<"taken", e>>, k)' <=> Holds(taken'[e], k)
  BY DEF Has, WireKey, HandKey, BatchKey, FailedKey

\* A place keeps the candidate while what it stands for does.
LEMMA HasKept ==
    ASSUME NEW k, NEW x \in Keys,
           x = WireKey => (k \in toBot' <=> k \in toBot),
           x = HandKey => (loop' = "handling" /\ hand' = k <=> loop = "handling" /\ hand = k),
           x = BatchKey => (Holds(batch', k) <=> Holds(batch, k)),
           x = FailedKey => (k \in failed' <=> k \in failed),
           \A e \in Entries : /\ x = <<"pending", e>>
                                   => (Holds(pendingICE'[e], k) <=> Holds(pendingICE[e], k))
                              /\ x = <<"taken", e>>
                                   => (Holds(taken'[e], k) <=> Holds(taken[e], k))
    PROVE  Has(x, k)' <=> Has(x, k)
  <1>1. CASE x \in {WireKey, HandKey, BatchKey, FailedKey}
    BY <1>1, HasFacts, HasFactsNext
  <1>2. ASSUME NEW e \in Entries, x = <<"pending", e>> PROVE Has(x, k)' <=> Has(x, k)
    <2>1. Has(<<"pending", e>>, k)' <=> Has(<<"pending", e>>, k)
      BY <1>2, HasFacts, HasFactsNext
    <2> QED BY <1>2, <2>1
  <1>3. ASSUME NEW e \in Entries, x = <<"taken", e>> PROVE Has(x, k)' <=> Has(x, k)
    <2>1. Has(<<"taken", e>>, k)' <=> Has(<<"taken", e>>, k)
      BY <1>3, HasFacts, HasFactsNext
    <2> QED BY <1>3, <2>1
  <1> QED
    BY <1>1, <1>2, <1>3, KeyFacts

LEMMA PlaceStays ==
    ASSUME NEW k, OnePlace(k), Singles(k)',
           \A x \in Keys : Has(x, k)' <=> Has(x, k),
           k \in gathered' <=> k \in gathered
    PROVE  OnePlace(k)'
  BY DEF OnePlace

\* The candidate leaves where it was, or is gathered, and is in a new place.
LEMMA PlaceFound ==
    ASSUME NEW k, Singles(k)', NEW to \in Keys, Has(to, k)',
           \A x \in Keys \ {to} : ~Has(x, k)',
           k \in gathered'
    PROVE  OnePlace(k)'
  BY DEF OnePlace

\* It moves from one place to another.
LEMMA PlaceMoves ==
    ASSUME NEW k, OnePlace(k), Singles(k)', NEW from \in Keys, NEW to \in Keys,
           Has(from, k), ~Has(from, k)', Has(to, k)',
           \A x \in Keys \ {from, to} : Has(x, k)' <=> Has(x, k),
           gathered' = gathered
    PROVE  OnePlace(k)'
  <1>1. k \in gathered /\ \A x \in Keys \ {from} : ~Has(x, k)
    BY DEF OnePlace
  <1> QED
    BY <1>1, PlaceFound

LEMMA PlaceUntouched ==
    ASSUME NEW k, OnePlace(k), UNCHANGED <<batch, pendingICE, taken, failed, gathered>>,
           k \in toBot' <=> k \in toBot,
           loop' = "handling" /\ hand' = k <=> loop = "handling" /\ hand = k
    PROVE  OnePlace(k)'
  <1>1. Singles(k)'
    BY DEF OnePlace, Singles
  <1>2. \A x \in Keys : Has(x, k)' <=> Has(x, k)
    BY HasKept
  <1> QED
    BY <1>1, <1>2, PlaceStays

LEMMA CandidateNames == \A k \in ClientICE : k \notin {"offer", "close", "none"}
  BY ICEAssumption

\* HandleICECandidate: the candidate in hand waits or is applied, the others stay.
LEMMA HandledPlace ==
    ASSUME TypeInv, Delivery, HandleICECandidate, NEW k \in ClientICE
    PROVE  OnePlace(k)'
  <1> USE DEF clientVars, wireVars, history
  <1>10. OnePlace(k)
    BY DEF Delivery
  <1>0. hand \in ClientICE /\ loop = "handling" /\ loop' = "reading"
        /\ UNCHANGED <<toBot, batch, failed, gathered, hand>>
    BY DEF HandleICECandidate
  <1>1. PICK to \in Entries : to = table'
    BY EntryTyped DEF HandleICECandidate, TypeInv
  <1>2. /\ pendingICE[to] \in Seq(ClientICE) /\ taken[to] \in Seq(ClientICE)
        /\ pendingICE \in [Entries -> Seq(ClientICE)] /\ taken \in [Entries -> Seq(ClientICE)]
    BY <1>1 DEF TypeInv, TypeOK
  <1>3. \/ /\ pendingICE' = [pendingICE EXCEPT ![to] = Append(@, hand)] /\ UNCHANGED taken
        \/ /\ taken' = [taken EXCEPT ![to] = Append(@, hand)] /\ UNCHANGED pendingICE
    BY <1>1 DEF HandleICECandidate
  <1>4. hand = k => ~Holds(pendingICE[to], k) /\ ~Holds(taken[to], k)
    BY <1>10, <1>0, <1>1, HasFacts, KeyFacts DEF OnePlace
  <1>5. /\ Single(Append(pendingICE[to], hand), k) /\ Single(Append(taken[to], hand), k)
        /\ Holds(Append(pendingICE[to], hand), k) <=> (Holds(pendingICE[to], k) \/ hand = k)
        /\ Holds(Append(taken[to], hand), k) <=> (Holds(taken[to], k) \/ hand = k)
    BY <1>10, <1>0, <1>1, <1>2, <1>4, AppendHolds DEF OnePlace, Singles
  <1>6. Singles(k)'
    BY <1>10, <1>0, <1>1, <1>2, <1>3, <1>5 DEF OnePlace, Singles
  <1>7. ASSUME NEW x \in Keys, x # HandKey,
               hand = k => x \notin {<<"pending", to>>, <<"taken", to>>}
        PROVE  Has(x, k)' <=> Has(x, k)
    <2>1. ASSUME NEW e \in Entries
          PROVE  /\ x = <<"pending", e>> => (Holds(pendingICE'[e], k) <=> Holds(pendingICE[e], k))
                 /\ x = <<"taken", e>> => (Holds(taken'[e], k) <=> Holds(taken[e], k))
      BY <1>1, <1>2, <1>3, <1>5, <1>7
    <2> QED BY <1>10, <1>0, <1>7, <2>1, HasKept
  <1>8. CASE hand = k
    <2>1. Has(HandKey, k) /\ ~Has(HandKey, k)'
      BY <1>10, <1>0, <1>8, HasFacts, HasFactsNext
    <2>2. \A x \in Keys \ {HandKey} : ~Has(x, k)
      BY <1>10, <2>1, <1>0, KeyFacts DEF OnePlace
    <2>3. k \in gathered'
      BY <1>10, <1>0, <2>1, KeyFacts DEF OnePlace
    <2>4. ASSUME NEW here, NEW there, here \in Keys, Has(here, k)', ~Has(there, k)',
                 {here, there} = {<<"pending", to>>, <<"taken", to>>}
          PROVE  OnePlace(k)'
      <3>1. ASSUME NEW x \in Keys \ {here} PROVE ~Has(x, k)'
        BY <1>7, <2>1, <2>2, <2>4, <3>1
      <3> QED BY <1>6, <2>3, <2>4, <3>1, PlaceFound
    <2>5. /\ <<"pending", to>> \in Keys /\ <<"taken", to>> \in Keys
          /\ Has(<<"pending", to>>, k)' <=> Holds(pendingICE'[to], k)
          /\ Has(<<"taken", to>>, k)' <=> Holds(taken'[to], k)
      BY <1>1, KeyFacts, HasFactsNext
    <2>6. CASE pendingICE' = [pendingICE EXCEPT ![to] = Append(@, hand)] /\ UNCHANGED taken
      <3>1. Holds(pendingICE'[to], k) /\ ~Holds(taken'[to], k)
        BY <1>1, <1>2, <1>4, <1>5, <1>8, <2>6
      <3> QED BY <2>4, <2>5, <3>1
    <2>7. CASE taken' = [taken EXCEPT ![to] = Append(@, hand)] /\ UNCHANGED pendingICE
      <3>1. Holds(taken'[to], k) /\ ~Holds(pendingICE'[to], k)
        BY <1>1, <1>2, <1>4, <1>5, <1>8, <2>7
      <3> QED BY <2>4, <2>5, <3>1
    <2> QED BY <1>3, <2>6, <2>7
  <1>9. CASE hand # k
    <2>1. \A x \in Keys : Has(x, k)' <=> Has(x, k)
      BY <1>10, <1>0, <1>7, <1>9, HasFacts, HasFactsNext
    <2> QED BY <1>10, <1>0, <1>6, <2>1, PlaceStays
  <1> QED BY <1>8, <1>9

\* TakePending: what waited becomes what HandleOffer has to add, which was nothing.
LEMMA TakenPlace ==
    ASSUME TypeInv, Delivery, TakePending, NEW k \in ClientICE
    PROVE  OnePlace(k)'
  <1> USE DEF clientVars, wireVars, peerVars, history
  <1>10. OnePlace(k)
    BY DEF Delivery
  <1>1. PICK e \in Entries : e = held
    BY EntriesAssumption DEF TakePending, TypeInv, TypeOK, Handling, Offering, Entries
  <1>0. /\ loop = "take" /\ loop' = "flush" /\ batch = <<>>
        /\ batch' = pendingICE[e] /\ pendingICE' = [pendingICE EXCEPT ![e] = <<>>]
        /\ pendingICE \in [Entries -> Seq(ClientICE)]
        /\ UNCHANGED <<toBot, taken, failed, gathered, hand>>
    BY <1>1 DEF TakePending, TypeInv, TypeOK, Handling
  <1>2. pendingICE'[e] = <<>> /\ \A f \in Entries \ {e} : pendingICE'[f] = pendingICE[f]
    BY <1>10, <1>0, <1>1
  <1>3. Singles(k)'
    BY <1>10, <1>0, <1>1, <1>2, EmptyAt DEF OnePlace, Singles, Single
  <1> DEFINE from == <<"pending", e>>
  <1>4. /\ from \in Keys /\ from # BatchKey
        /\ Has(from, k) <=> Holds(pendingICE[e], k)
        /\ ~Has(from, k)' /\ ~Has(BatchKey, k)
        /\ Has(BatchKey, k)' <=> Holds(pendingICE[e], k)
    BY <1>10, <1>0, <1>1, <1>2, HasFacts, HasFactsNext, KeyFacts, EmptyAt DEF Holds
  <1>5. ASSUME NEW x \in Keys \ {from, BatchKey} PROVE Has(x, k)' <=> Has(x, k)
    BY <1>10, <1>0, <1>2, <1>5, HasKept
  <1> HIDE DEF from
  <1>6. CASE Holds(pendingICE[e], k)
    BY <1>10, <1>0, <1>3, <1>4, <1>5, <1>6, KeyFacts, PlaceMoves
  <1>7. CASE ~Holds(pendingICE[e], k)
    <2>1. \A x \in Keys : Has(x, k)' <=> Has(x, k)
      BY <1>4, <1>5, <1>7
    <2> QED BY <1>10, <1>0, <1>3, <2>1, PlaceStays
  <1> QED BY <1>6, <1>7

\* AddPending: the first of them is applied.
LEMMA AddedPlace ==
    ASSUME TypeInv, Delivery, AddPending, NEW k \in ClientICE
    PROVE  OnePlace(k)'
  <1> USE DEF clientVars, wireVars, tableVars, history
  <1>10. OnePlace(k)
    BY DEF Delivery
  <1>1. PICK e \in Entries : e = held
    BY EntriesAssumption DEF AddPending, TypeInv, TypeOK, Handling, Offering, Entries
  <1>0. /\ loop' = loop /\ batch # <<>> /\ batch' = Tail(batch)
        /\ taken' = [taken EXCEPT ![e] = Append(@, Head(batch))]
        /\ UNCHANGED <<toBot, pendingICE, failed, gathered, hand>>
    BY <1>1 DEF AddPending
  <1>11. /\ taken \in [Entries -> Seq(ClientICE)] /\ batch \in Seq(ClientICE)
        /\ taken[e] \in Seq(ClientICE) /\ Head(batch) \in ClientICE
    BY <1>10, <1>0, HeadTailProperties DEF TypeInv, TypeOK
  <1> DEFINE to == <<"taken", e>>
  <1>2. /\ to \in Keys /\ to # BatchKey
        /\ Has(to, k) <=> Holds(taken[e], k)
        /\ Has(to, k)' <=> Holds(taken'[e], k)
        /\ Has(BatchKey, k) <=> Holds(batch, k)
        /\ Has(BatchKey, k)' <=> Holds(batch', k)
    BY <1>1, HasFacts, HasFactsNext, KeyFacts
  <1>3. /\ Single(batch', k)
        /\ Holds(batch', k) <=> (Holds(batch, k) /\ Head(batch) # k)
        /\ Head(batch) = k => Holds(batch, k)
    BY <1>10, <1>0, <1>1, <1>11, TailHolds DEF OnePlace, Singles
  <1>4. Holds(batch, k) => ~Holds(taken[e], k)
    BY <1>10, <1>0, <1>2, KeyFacts DEF OnePlace
  <1>5. /\ Single(taken'[e], k)
        /\ Holds(taken'[e], k) <=> (Holds(taken[e], k) \/ Head(batch) = k)
        /\ \A f \in Entries \ {e} : taken'[f] = taken[f]
    BY <1>10, <1>0, <1>1, <1>11, <1>3, <1>4, AppendHolds DEF OnePlace, Singles
  <1>6. Singles(k)'
    BY <1>10, <1>0, <1>1, <1>11, <1>3, <1>5 DEF OnePlace, Singles
  <1>7. ASSUME NEW x \in Keys \ {to, BatchKey} PROVE Has(x, k)' <=> Has(x, k)
    BY <1>10, <1>0, <1>5, <1>7, HasKept
  <1> HIDE DEF to
  <1>8. CASE Head(batch) = k
    BY <1>10, <1>0, <1>2, <1>3, <1>5, <1>6, <1>7, <1>8, KeyFacts, PlaceMoves
  <1>9. CASE Head(batch) # k
    <2>1. \A x \in Keys : Has(x, k)' <=> Has(x, k)
      BY <1>2, <1>3, <1>5, <1>7, <1>9
    <2> QED BY <1>10, <1>0, <1>6, <2>1, PlaceStays
  <1> QED BY <1>8, <1>9

\* OfferFails: nobody adds what is left of them.
LEMMA FailedPlace ==
    ASSUME TypeInv, Delivery, OfferFails, NEW k \in ClientICE
    PROVE  OnePlace(k)'
  <1> USE DEF clientVars, wireVars, tableVars, peerVars
  <1>0. /\ OnePlace(k) /\ loop # "handling" /\ loop' # "handling" /\ batch' = <<>>
        /\ failed' = failed \cup {batch[i] : i \in DOMAIN batch}
        /\ UNCHANGED <<toBot, pendingICE, taken, gathered, hand>>
    BY DEF Delivery, OfferFails
  <1>1. /\ Has(BatchKey, k) <=> Holds(batch, k)
        /\ ~Has(BatchKey, k)'
        /\ Has(FailedKey, k) <=> k \in failed
        /\ Has(FailedKey, k)' <=> k \in failed \/ Holds(batch, k)
    BY <1>0, HasFacts, HasFactsNext, EmptyAt DEF Holds, At
  <1>2. Singles(k)'
    BY <1>0, EmptyAt DEF OnePlace, Singles, Single
  <1>3. ASSUME NEW x \in Keys \ {BatchKey, FailedKey} PROVE Has(x, k)' <=> Has(x, k)
    BY <1>0, <1>3, HasKept
  <1>4. CASE Holds(batch, k)
    BY <1>0, <1>1, <1>2, <1>3, <1>4, KeyFacts, PlaceMoves
  <1>5. CASE ~Holds(batch, k)
    <2>1. \A x \in Keys : Has(x, k)' <=> Has(x, k)
      BY <1>1, <1>3, <1>5
    <2> QED BY <1>0, <1>2, <2>1, PlaceStays
  <1> QED BY <1>4, <1>5

\* ICECandidateFails: the candidate in hand is lost.
LEMMA RefusedPlace ==
    ASSUME TypeInv, Delivery, ICECandidateFails, NEW k \in ClientICE
    PROVE  OnePlace(k)'
  <1> USE DEF clientVars, wireVars, tableVars, peerVars
  <1>0. /\ OnePlace(k) /\ loop = "handling" /\ loop' # "handling"
        /\ failed' = failed \cup {hand}
        /\ UNCHANGED <<toBot, batch, pendingICE, taken, gathered, hand>>
    BY DEF Delivery, ICECandidateFails
  <1>1. /\ Has(HandKey, k) <=> hand = k
        /\ ~Has(HandKey, k)'
        /\ Has(FailedKey, k) <=> k \in failed
        /\ Has(FailedKey, k)' <=> k \in failed \/ hand = k
    BY <1>0, HasFacts, HasFactsNext
  <1>2. Singles(k)'
    BY <1>0 DEF OnePlace, Singles
  <1>3. ASSUME NEW x \in Keys \ {HandKey, FailedKey} PROVE Has(x, k)' <=> Has(x, k)
    BY <1>0, <1>3, HasKept
  <1>4. CASE hand = k
    BY <1>0, <1>1, <1>2, <1>3, <1>4, KeyFacts, PlaceMoves
  <1>5. CASE hand # k
    <2>1. \A x \in Keys : Has(x, k)' <=> Has(x, k)
      BY <1>1, <1>3, <1>5
    <2> QED BY <1>0, <1>2, <2>1, PlaceStays
  <1> QED BY <1>4, <1>5

LEMMA DeliveryStep == TypeInv /\ Delivery /\ [Next]_vars => Delivery'
  <1> SUFFICES ASSUME TypeInv, Delivery, [Next]_vars, NEW k \in ClientICE PROVE OnePlace(k)'
    BY DEF Delivery
  <1> USE DEF clientVars, wireVars, loopVars, tableVars, peerVars, history
  <1>0. OnePlace(k) /\ k \notin {"offer", "close", "none"}
    BY CandidateNames DEF Delivery
  <1>1. ASSUME UNCHANGED <<batch, pendingICE, taken, failed, gathered>>,
               k \in toBot' <=> k \in toBot,
               loop' = "handling" /\ hand' = k <=> loop = "handling" /\ hand = k
        PROVE  OnePlace(k)'
    BY <1>0, <1>1, PlaceUntouched
  <1>2. CASE \/ UNCHANGED vars \/ Browser \/ Leave
             \/ LoopEnds \/ HandleOffer \/ MakePeer \/ SetRemoteDescription
             \/ SetLocalDescription \/ Reply
             \/ \E e \in Entries : \/ ConnectionFails(e) \/ MarkControlReady(e)
                                   \/ \E b \in BotICE : OnICECandidate(e, b)
    <2>1. UNCHANGED <<batch, pendingICE, taken, failed, gathered>>
      BY <1>2
      DEF vars, Browser, Leave, LoopEnds, HandleOffer, MakePeer, SetRemoteDescription,
          SetLocalDescription, Reply, ConnectionFails, MarkControlReady, OnICECandidate,
          SocketOpens, SendOffer, ReceiveAnswer, AnswerSet, FlushRemote, ReceiveCandidate, Receives
    <2>2. k \in toBot' <=> k \in toBot
      BY <1>0, <1>2
      DEF vars, Browser, Leave, LoopEnds, HandleOffer, MakePeer, SetRemoteDescription,
          SetLocalDescription, Reply, ConnectionFails, MarkControlReady, OnICECandidate,
          SocketOpens, SendOffer, ReceiveAnswer, AnswerSet, FlushRemote, ReceiveCandidate, Receives
    <2>3. loop' = "handling" /\ hand' = k <=> loop = "handling" /\ hand = k
      BY <1>0, <1>2
      DEF vars, Browser, Leave, LoopEnds, HandleOffer, MakePeer, SetRemoteDescription,
          SetLocalDescription, Reply, ConnectionFails, MarkControlReady, OnICECandidate,
          SocketOpens, SendOffer, ReceiveAnswer, AnswerSet, FlushRemote, ReceiveCandidate, Receives
    <2> QED BY <1>1, <2>1, <2>2, <2>3
  <1>3. CASE CloseByRequest \/ HandleClose \/ \E e \in Entries : StateChange(e)
    <2>1. \E called \in SUBSET Entries : CloseTable(called)
      BY <1>3 DEF CloseByRequest, HandleClose, StateChange
    <2>2. UNCHANGED <<batch, pendingICE, taken, failed, gathered, toBot>>
      BY <1>3, <2>1, CloseFacts DEF CloseByRequest, HandleClose, StateChange
    <2>3. loop' = "handling" /\ hand' = k <=> loop = "handling" /\ hand = k
      BY <1>0, <1>3 DEF CloseByRequest, HandleClose, StateChange
    <2> QED BY <1>1, <2>2, <2>3
  <1>4. ASSUME NEW j \in ClientICE, SendCandidate(j) PROVE OnePlace(k)'
    <2>1. CASE j # k
      <3>1. Singles(k)' /\ (k \in gathered' <=> k \in gathered)
        BY <1>0, <1>4, <2>1 DEF SendCandidate, OnePlace, Singles
      <3>2. \A x \in Keys : Has(x, k)' <=> Has(x, k)
        BY <1>4, <2>1, HasKept DEF SendCandidate
      <3> QED BY <1>0, <3>1, <3>2, PlaceStays
    <2>2. CASE j = k
      <3>1. \A x \in Keys : ~Has(x, k)
        BY <1>0, <1>4, <2>2 DEF SendCandidate, OnePlace
      <3>2. Singles(k)' /\ Has(WireKey, k)' /\ k \in gathered'
        BY <1>0, <1>4, <2>2, HasFactsNext DEF SendCandidate, OnePlace, Singles
      <3>3. \A x \in Keys \ {WireKey} : Has(x, k)' <=> Has(x, k)
        BY <1>4, HasKept DEF SendCandidate
      <3> QED BY <3>1, <3>2, <3>3, KeyFacts, PlaceFound
    <2> QED BY <2>1, <2>2
  <1>5. ASSUME NEW m \in ToBot, Read(m) PROVE OnePlace(k)'
    <2>1. CASE m # k
      BY <1>1, <1>5, <2>1 DEF Read
    <2>2. CASE m = k
      <3>1. Singles(k)' /\ Has(WireKey, k) /\ ~Has(WireKey, k)' /\ Has(HandKey, k)'
        BY <1>0, <1>5, <2>2, HasFacts, HasFactsNext DEF Read, OnePlace, Singles
      <3>2. \A x \in Keys \ {WireKey, HandKey} : Has(x, k)' <=> Has(x, k)
        BY <1>5, HasKept DEF Read
      <3>3. gathered' = gathered
        BY <1>5 DEF Read
      <3> QED BY <1>0, <3>1, <3>2, <3>3, KeyFacts, PlaceMoves
    <2> QED BY <2>1, <2>2
  <1> QED
    BY <1>2, <1>3, <1>4, <1>5, HandledPlace, RefusedPlace, TakenPlace, AddedPlace, FailedPlace
    DEF Next, Loop

LEMMA NegotiationDelivery == Spec => []Delivery
  <1>1. Init => Delivery
    <2> SUFFICES ASSUME Init, NEW k \in ClientICE PROVE OnePlace(k)
      BY DEF Delivery
    <2>1. Singles(k)
      BY EmptyAt DEF Init, Singles, Single
    <2>2. \A x \in Keys : ~Has(x, k)
      <3>1. ASSUME NEW e \in Entries
            PROVE  ~Has(<<"pending", e>>, k) /\ ~Has(<<"taken", e>>, k)
        BY HasFacts, EmptyAt DEF Init, Holds
      <3>2. ~Has(WireKey, k) /\ ~Has(HandKey, k) /\ ~Has(BatchKey, k) /\ ~Has(FailedKey, k)
        BY HasFacts, EmptyAt DEF Init, Holds
      <3> QED BY <3>1, <3>2, KeyFacts
    <2> QED BY <2>1, <2>2 DEF Init, OnePlace
  <1> QED
    BY <1>1, DeliveryStep, NegotiationTypes, PTL DEF Spec
-----------------------------------------------------------------------------
(* How often a queue has a candidate of the bot. *)

LEMMA OneMore ==
    ASSUME NEW S, IsFiniteSet(S), NEW x, x \notin S
    PROVE  IsFiniteSet(S \cup {x}) /\ Cardinality(S \cup {x}) = Cardinality(S) + 1
  BY FS_AddElement

LEMMA ShiftedDown ==
    ASSUME NEW S \in SUBSET Nat, IsFiniteSet(S)
    PROVE  Cardinality({i - 1 : i \in S}) = Cardinality(S)
  <1> DEFINE T == {i - 1 : i \in S}
             f == [i \in S |-> i - 1]
  <1>1. f \in Bijection(S, T)
    <2>1. f \in Surjection(S, T)
      BY DEF Surjection
    <2>2. f \in Injection(S, T)
      BY DEF Injection, IsInjective
    <2> QED BY <2>1, <2>2 DEF Bijection
  <1>2. ExistsBijection(S, T)
    BY <1>1, Fun_ExistsBij
  <1> QED
    BY <1>2, FS_Bijection

LEMMA AtFinite ==
    ASSUME NEW S, NEW s \in Seq(S), NEW x, NEW T \in SUBSET At(s, x)
    PROVE  IsFiniteSet(T) /\ Cardinality(T) \in Nat /\ T \subseteq Nat
  <1>1. Len(s) \in Nat /\ DOMAIN s = 1 .. Len(s)
    BY LenProperties
  <1>2. IsFiniteSet(1 .. Len(s))
    BY <1>1, FS_Interval
  <1>3. T \subseteq 1 .. Len(s) /\ 1 .. Len(s) \subseteq Nat
    BY <1>1 DEF At
  <1> QED
    BY <1>2, <1>3, FS_Subset, FS_CardinalityType

LEMMA TimesAppend ==
    ASSUME NEW S, NEW s \in Seq(S), NEW y \in S, NEW c
    PROVE  Times(Append(s, y), c) = Times(s, c) + (IF y = c THEN 1 ELSE 0)
  <1>1. /\ Len(s) \in Nat /\ Len(s) + 1 \notin At(s, c)
        /\ At(Append(s, y), c) = At(s, c) \cup (IF y = c THEN {Len(s) + 1} ELSE {})
    BY AppendAt
  <1>2. IsFiniteSet(At(s, c)) /\ Cardinality(At(s, c)) \in Nat
    BY AtFinite
  <1>3. CASE y = c
    BY <1>1, <1>2, <1>3, OneMore DEF Times
  <1>4. CASE y # c
    BY <1>1, <1>2, <1>4 DEF Times
  <1> QED BY <1>3, <1>4

LEMMA TimesTail ==
    ASSUME NEW S, NEW s \in Seq(S), s # <<>>, NEW c
    PROVE  Times(s, c) = Times(Tail(s), c) + (IF Head(s) = c THEN 1 ELSE 0)
  <1> DEFINE rest == At(s, c) \ {1}
  <1>1. /\ Head(s) = c <=> 1 \in At(s, c)
        /\ At(Tail(s), c) = {i - 1 : i \in rest}
    BY TailAt
  <1>2. rest \subseteq Nat /\ IsFiniteSet(rest) /\ Cardinality(rest) \in Nat
    BY AtFinite
  <1>3. Cardinality(At(Tail(s), c)) = Cardinality(rest)
    BY <1>1, <1>2, ShiftedDown
  <1>4. CASE Head(s) = c
    <2>1. At(s, c) = rest \cup {1} /\ 1 \notin rest
      BY <1>1, <1>4
    <2> HIDE DEF rest
    <2> QED BY <1>2, <1>3, <1>4, <2>1, OneMore DEF Times
  <1>5. CASE Head(s) # c
    <2>1. At(s, c) = rest
      BY <1>1, <1>5
    <2> HIDE DEF rest
    <2> QED BY <1>2, <1>3, <1>5, <2>1 DEF Times
  <1> QED BY <1>4, <1>5

LEMMA TimesTyped ==
    ASSUME TypeOK, NEW c
    PROVE  /\ Times(toClient, c) \in Nat /\ Times(clientPeer, c) \in Nat
           /\ IsFiniteSet(Left(c)) /\ Cardinality(Left(c)) \in Nat
  <1>1. /\ toClient \in Seq(ToClient) /\ clientPeer \in Seq(ToClient \ {Answer})
        /\ remoteICE \in Seq(ToClient \ {Answer})
    BY DEF TypeOK
  <1>2. Left(c) \subseteq At(remoteICE, c)
    BY DEF Left
  <1> QED
    BY <1>1, <1>2, AtFinite DEF Times

\* A candidate that is queued, applied when it comes, or applied from the queue.
LEMMA LeftAppended ==
    ASSUME TypeOK, NEW m \in ToClient \ {Answer}, NEW c,
           remoteICE' = Append(remoteICE, m), flushed' = flushed
    PROVE  Cardinality(Left(c))' = Cardinality(Left(c)) + (IF m = c THEN 1 ELSE 0)
  <1>1. remoteICE \in Seq(ToClient \ {Answer}) /\ flushed \in 0 .. Len(remoteICE)
    BY DEF TypeOK
  <1>2. /\ Len(remoteICE) \in Nat /\ At(remoteICE, c) \subseteq 1 .. Len(remoteICE)
        /\ At(remoteICE', c) = At(remoteICE, c) \cup (IF m = c THEN {Len(remoteICE) + 1} ELSE {})
    BY <1>1, AppendAt
  <1>3. Len(remoteICE) + 1 > flushed /\ Len(remoteICE) + 1 \notin Left(c)
    BY <1>1, <1>2 DEF Left
  <1>4. Left(c)' = Left(c) \cup (IF m = c THEN {Len(remoteICE) + 1} ELSE {})
    BY <1>2, <1>3 DEF Left
  <1>5. IsFiniteSet(Left(c)) /\ Cardinality(Left(c)) \in Nat
    BY TimesTyped
  <1>6. CASE m = c
    BY <1>3, <1>4, <1>5, <1>6, OneMore
  <1>7. CASE m # c
    BY <1>4, <1>5, <1>7
  <1> QED BY <1>6, <1>7

LEMMA LeftFlushed ==
    ASSUME TypeOK, NEW c, flushed < Len(remoteICE),
           remoteICE' = remoteICE, flushed' = flushed + 1
    PROVE  Cardinality(Left(c)) = Cardinality(Left(c))' + (IF remoteICE[flushed + 1] = c THEN 1 ELSE 0)
  <1>1. remoteICE \in Seq(ToClient \ {Answer}) /\ flushed \in 0 .. Len(remoteICE)
        /\ Len(remoteICE) \in Nat /\ DOMAIN remoteICE = 1 .. Len(remoteICE)
    BY LenProperties DEF TypeOK
  <1>2. flushed + 1 \in DOMAIN remoteICE
    BY <1>1
  <1>3. Left(c)' \subseteq At(remoteICE, c) /\ flushed + 1 \notin Left(c)'
    BY <1>1 DEF Left, At
  <1>4. \A i \in At(remoteICE, c) : i > flushed <=> i > flushed + 1 \/ i = flushed + 1
    BY <1>1 DEF At
  <1>5. Left(c) = Left(c)' \cup (IF remoteICE[flushed + 1] = c THEN {flushed + 1} ELSE {})
    BY <1>2, <1>3, <1>4 DEF Left, At
  <1>6. IsFiniteSet(Left(c)') /\ Cardinality(Left(c)') \in Nat
    BY <1>1, <1>3, AtFinite
  <1>7. CASE remoteICE[flushed + 1] = c
    BY <1>3, <1>5, <1>6, <1>7, OneMore
  <1>8. CASE remoteICE[flushed + 1] # c
    BY <1>5, <1>6, <1>8
  <1> QED BY <1>7, <1>8

LEMMA CountedStep == TypeInv /\ TypeInv' /\ Counted /\ [Next]_vars => Counted'
  <1> SUFFICES ASSUME TypeInv, TypeInv', Counted, [Next]_vars, Present',
                      NEW e \in Entries, NEW k \in BotICE
               PROVE  Times(toClient', Local(e, k)) + Times(clientPeer', Local(e, k))
                      + Cardinality(Left(Local(e, k)))' = IF k \in sent'[e] THEN 1 ELSE 0
    BY DEF Counted
  <1> USE DEF clientVars, wireVars, loopVars, tableVars, peerVars, history
  <1> DEFINE c == Local(e, k)
             Sum == Times(toClient', c) + Times(clientPeer', c) + Cardinality(Left(c))'
             One == IF k \in sent'[e] THEN 1 ELSE 0
  <1>0. Present
    BY DEF Next, Loop, Browser, Present, vars, SocketOpens, SendOffer, ReceiveAnswer, AnswerSet,
           FlushRemote, ReceiveCandidate, Receives, Leave, SendCandidate, Read, HandleClose, LoopEnds,
           HandleOffer, MakePeer, OfferFails, SetRemoteDescription, TakePending, AddPending,
           SetLocalDescription, Reply, HandleICECandidate, ICECandidateFails, CloseByRequest,
           StateChange, ConnectionFails, MarkControlReady, OnICECandidate
  <1>11. /\ TypeOK /\ c \in ToClient \ {Answer}
        /\ toClient \in Seq(ToClient) /\ clientPeer \in Seq(ToClient \ {Answer})
        /\ Times(toClient, c) \in Nat /\ Times(clientPeer, c) \in Nat /\ Cardinality(Left(c)) \in Nat
        /\ Times(toClient', c) \in Nat /\ Times(clientPeer', c) \in Nat /\ Cardinality(Left(c))' \in Nat
    <2>1. c \in ToClient \ {Answer}
      BY CandidateTyped
    <2>2. TypeOK /\ TypeOK'
      BY DEF TypeInv
    <2>3. Times(toClient', c) \in Nat /\ Times(clientPeer', c) \in Nat /\ Cardinality(Left(c))' \in Nat
      <3>1. /\ toClient' \in Seq(ToClient) /\ clientPeer' \in Seq(ToClient \ {Answer})
            /\ remoteICE' \in Seq(ToClient \ {Answer})
        BY <2>2 DEF TypeOK
      <3>2. Left(c)' \subseteq At(remoteICE', c)
        BY DEF Left
      <3> QED BY <3>1, <3>2, AtFinite DEF Times
    <2> HIDE DEF c
    <2> QED BY <2>1, <2>2, <2>3, TimesTyped DEF TypeOK
  <1>12. Times(toClient, c) + Times(clientPeer, c) + Cardinality(Left(c)) = IF k \in sent[e] THEN 1 ELSE 0
    BY <1>0 DEF Counted
  <1>1. ASSUME UNCHANGED <<toClient, clientPeer, remoteICE, flushed, sent>> PROVE Sum = One
    BY <1>12, <1>1 DEF Left
  <1>2. CASE \/ UNCHANGED vars \/ SocketOpens \/ SendOffer \/ AnswerSet
             \/ \E j \in ClientICE : SendCandidate(j)
             \/ \E m \in ToBot : Read(m)
             \/ LoopEnds \/ HandleOffer \/ MakePeer \/ OfferFails \/ SetRemoteDescription
             \/ TakePending \/ AddPending \/ SetLocalDescription \/ HandleICECandidate
             \/ ICECandidateFails
             \/ \E f \in Entries : ConnectionFails(f) \/ MarkControlReady(f)
    <2>1. UNCHANGED <<toClient, clientPeer, remoteICE, flushed, sent>>
      BY <1>2
      DEF vars, SocketOpens, SendOffer, AnswerSet, SendCandidate, Read, LoopEnds, HandleOffer,
          MakePeer, OfferFails, SetRemoteDescription, TakePending, AddPending, SetLocalDescription,
          HandleICECandidate, ICECandidateFails, ConnectionFails, MarkControlReady
    <2> QED BY <1>1, <2>1
  <1>3. CASE CloseByRequest \/ HandleClose \/ \E f \in Entries : StateChange(f)
    <2>1. \E called \in SUBSET Entries : CloseTable(called)
      BY <1>3 DEF CloseByRequest, HandleClose, StateChange
    <2>2. UNCHANGED sent
      BY <2>1, CloseFacts
    <2> QED BY <1>1, <1>3, <2>2 DEF CloseByRequest, HandleClose, StateChange
  <1>4. CASE Leave
    BY <1>4 DEF Leave, Present
  <1>5. CASE Reply
    <2>1. Answer \in ToClient
      BY DEF ToClient
    <2>2. Times(toClient', c) = Times(toClient, c)
      BY <1>5, <1>11, <2>1, TimesAppend DEF Reply
    <2> QED BY <1>5, <1>12, <2>2 DEF Reply, Left
  <1>6. ASSUME NEW f \in Entries, NEW j \in BotICE, OnICECandidate(f, j) PROVE Sum = One
    <2>1. Local(f, j) = c <=> f = e /\ j = k
      BY DEF Local
    <2>2. Local(f, j) \in ToClient
      BY CandidateTyped
    <2>3. Times(toClient', c) = Times(toClient, c) + (IF Local(f, j) = c THEN 1 ELSE 0)
      BY <1>6, <1>11, <2>2, TimesAppend DEF OnICECandidate
    <2>4. k \in sent'[e] <=> k \in sent[e] \/ Local(f, j) = c
      BY <1>6, <2>1 DEF OnICECandidate, TypeInv, TypeOK
    <2>5. Local(f, j) = c => k \notin sent[e]
      BY <1>6, <2>1 DEF OnICECandidate
    <2>6. Times(clientPeer', c) = Times(clientPeer, c) /\ Cardinality(Left(c))' = Cardinality(Left(c))
      BY <1>6 DEF OnICECandidate, Left
    <2> HIDE DEF c
    <2> QED BY <1>12, <1>11, <2>3, <2>4, <2>5, <2>6
  <1>7. ASSUME NEW m, Receives(m)
        PROVE  Times(toClient, c) = Times(toClient', c) + (IF m = c THEN 1 ELSE 0) /\ sent' = sent
    BY <1>7, <1>11, TimesTail DEF Receives
  <1>8. CASE ReceiveAnswer
    <2>1. Times(toClient', c) = Times(toClient, c) /\ sent' = sent
      BY <1>7, <1>8, <1>11 DEF ReceiveAnswer
    <2> QED BY <1>8, <1>12, <2>1 DEF ReceiveAnswer, Left
  <1>9. CASE ReceiveCandidate
    <2>1. PICK m \in ToClient \ {Answer} :
            /\ Receives(m)
            /\ \/ /\ remoteICE' = Append(remoteICE, m) /\ UNCHANGED clientPeer
               \/ /\ clientPeer' = Append(clientPeer, m) /\ UNCHANGED remoteICE
            /\ UNCHANGED flushed
      BY <1>9 DEF ReceiveCandidate
    <2>2. Times(toClient, c) = Times(toClient', c) + (IF m = c THEN 1 ELSE 0) /\ sent' = sent
      BY <1>7, <2>1
    <2>3. \/ /\ Cardinality(Left(c))' = Cardinality(Left(c)) + (IF m = c THEN 1 ELSE 0)
             /\ Times(clientPeer', c) = Times(clientPeer, c)
          \/ /\ Cardinality(Left(c))' = Cardinality(Left(c))
             /\ Times(clientPeer', c) = Times(clientPeer, c) + (IF m = c THEN 1 ELSE 0)
      <3>1. CASE remoteICE' = Append(remoteICE, m) /\ UNCHANGED clientPeer
        BY <1>11, <2>1, <3>1, LeftAppended
      <3>2. CASE clientPeer' = Append(clientPeer, m) /\ UNCHANGED remoteICE
        BY <1>11, <2>1, <3>2, TimesAppend DEF Left
      <3> QED BY <2>1, <3>1, <3>2
    <2>4. /\ Times(toClient', c) \in Nat /\ Times(clientPeer, c) \in Nat
          /\ Cardinality(Left(c)) \in Nat
      BY <1>11
    <2> QED BY <1>12, <2>2, <2>3, <2>4
  <1>10. CASE FlushRemote
    <2>1. toClient' = toClient /\ sent' = sent
      BY <1>10 DEF FlushRemote
    <2>2. CASE /\ flushed < Len(remoteICE)
               /\ clientPeer' = Append(clientPeer, remoteICE[flushed + 1])
               /\ flushed' = flushed + 1 /\ remoteICE' = remoteICE
      <3> DEFINE next == remoteICE[flushed + 1]
      <3>1. next \in ToClient \ {Answer}
        <4>1. remoteICE \in Seq(ToClient \ {Answer}) /\ flushed \in Nat /\ Len(remoteICE) \in Nat
          BY <1>11, LenProperties DEF TypeOK
        <4>2. flushed + 1 \in 1 .. Len(remoteICE)
          BY <2>2, <4>1
        <4> QED BY <4>1, <4>2, ElementOfSeq
      <3>2. Cardinality(Left(c)) = Cardinality(Left(c))' + (IF next = c THEN 1 ELSE 0)
        BY <1>11, <2>2, LeftFlushed
      <3>3. Times(clientPeer', c) = Times(clientPeer, c) + (IF next = c THEN 1 ELSE 0)
        BY <1>11, <2>2, <3>1, TimesAppend
      <3>4. /\ Times(toClient', c) = Times(toClient, c) /\ Times(toClient, c) \in Nat
            /\ Times(clientPeer, c) \in Nat /\ Cardinality(Left(c))' \in Nat
        BY <1>11, <2>1, <3>2
      <3> HIDE DEF next
      <3> QED BY <1>12, <2>1, <3>2, <3>3, <3>4
    <2>3. CASE /\ flushed = Len(remoteICE) /\ remoteICE' = <<>> /\ UNCHANGED clientPeer
      <3>1. Left(c) = {} /\ Left(c)' = {}
        <4>1. remoteICE \in Seq(ToClient \ {Answer})
          BY <1>11 DEF TypeOK
        <4>2. /\ DOMAIN remoteICE = 1 .. Len(remoteICE) /\ Len(remoteICE) \in Nat
          BY <4>1, LenProperties
        <4>3. \A i \in At(remoteICE, c) : ~(i > flushed)
          BY <2>3, <4>2 DEF At
        <4> QED BY <2>3, <4>3, EmptyAt DEF Left
      <3> QED BY <1>12, <2>1, <2>3, <3>1
    <2> QED BY <1>10, <2>2, <2>3 DEF FlushRemote
  <1> QED
    BY <1>2, <1>3, <1>4, <1>5, <1>6, <1>8, <1>9, <1>10 DEF Next, Loop, Browser

LEMMA NegotiationCounted == Spec => []Counted
  <1>1. Init => Counted
    <2> SUFFICES ASSUME Init, NEW e \in Entries, NEW k \in BotICE
                 PROVE  Times(toClient, Local(e, k)) + Times(clientPeer, Local(e, k))
                        + Cardinality(Left(Local(e, k))) = IF k \in sent[e] THEN 1 ELSE 0
      BY DEF Counted
    <2>1. /\ Times(toClient, Local(e, k)) = 0 /\ Times(clientPeer, Local(e, k)) = 0
          /\ Cardinality(Left(Local(e, k))) = 0
      BY EmptyAt, FS_EmptySet DEF Init, Times, Left
    <2> QED BY <2>1 DEF Init
  <1> QED
    BY <1>1, CountedStep, NegotiationTypes, PTL DEF Spec
-----------------------------------------------------------------------------
(* Every candidate once. *)

LEMMA OneAt ==
    ASSUME NEW s, NEW k, Single(s, k)
    PROVE  IF Holds(s, k) THEN \E i : At(s, k) = {i} ELSE At(s, k) = {}
  BY DEF Single, Holds

\* A candidate that is in one place of Keys is in one place of its queue.
LEMMA PlacesCounted ==
    ASSUME NEW k, OnePlace(k), k \in gathered
    PROVE  Cardinality(Places(k)) = 1
  <1> DEFINE Wire == {<<"wire", 0>> : x \in {k} \cap toBot}
             Hand == {<<"hand", 0>> : x \in IF loop = "handling" THEN {k} \cap {hand} ELSE {}}
             Batch == {<<"batch", i>> : i \in At(batch, k)}
             Failed == {<<"failed", 0>> : x \in {k} \cap failed}
             Of(e) == {<<"pending", e, i>> : i \in At(pendingICE[e], k)}
                      \cup {<<"taken", e, i>> : i \in At(taken[e], k)}
             Queued == UNION {Of(e) : e \in Entries}
  <1>1. Places(k) = Wire \cup Hand \cup Batch \cup Failed \cup Queued
    BY DEF Places
  <1>2. Wire = (IF Has(WireKey, k) THEN {<<"wire", 0>>} ELSE {})
        /\ Hand = (IF Has(HandKey, k) THEN {<<"hand", 0>>} ELSE {})
        /\ Failed = (IF Has(FailedKey, k) THEN {<<"failed", 0>>} ELSE {})
    BY HasFacts
  <1>3. /\ ~Has(BatchKey, k) => Batch = {}
        /\ Has(BatchKey, k) => \E p : Batch = {p}
    <2>1. Single(batch, k) /\ (Has(BatchKey, k) <=> Holds(batch, k))
      BY HasFacts DEF OnePlace, Singles
    <2>2. ASSUME NEW i, At(batch, k) = {i} PROVE Batch = {<<"batch", i>>}
      BY <2>2
    <2>3. At(batch, k) = {} => Batch = {}
      OBVIOUS
    <2> HIDE DEF Batch
    <2> QED BY <2>1, <2>2, <2>3, OneAt
  <1>4. ASSUME NEW e \in Entries
        PROVE  /\ ~Has(<<"pending", e>>, k) /\ ~Has(<<"taken", e>>, k) => Of(e) = {}
               /\ Has(<<"pending", e>>, k) /\ ~Has(<<"taken", e>>, k) => \E p : Of(e) = {p}
               /\ ~Has(<<"pending", e>>, k) /\ Has(<<"taken", e>>, k) => \E p : Of(e) = {p}
    <2>1. /\ Single(pendingICE[e], k) /\ Single(taken[e], k)
          /\ Has(<<"pending", e>>, k) <=> Holds(pendingICE[e], k)
          /\ Has(<<"taken", e>>, k) <=> Holds(taken[e], k)
      BY HasFacts DEF OnePlace, Singles
    <2>2. ASSUME NEW i, At(pendingICE[e], k) = {i}, At(taken[e], k) = {}
          PROVE  Of(e) = {<<"pending", e, i>>}
      BY <2>2
    <2>3. ASSUME NEW i, At(pendingICE[e], k) = {}, At(taken[e], k) = {i}
          PROVE  Of(e) = {<<"taken", e, i>>}
      BY <2>3
    <2>4. At(pendingICE[e], k) = {} /\ At(taken[e], k) = {} => Of(e) = {}
      OBVIOUS
    <2> HIDE DEF Of
    <2> QED BY <2>1, <2>2, <2>3, <2>4, OneAt
  <1> HIDE DEF Wire, Hand, Batch, Failed, Of
  <1>5. PICK x \in Keys : Has(x, k) /\ \A y \in Keys \ {x} : ~Has(y, k)
    BY DEF OnePlace
  <1>6. ASSUME NEW e \in Entries, x \notin {<<"pending", e>>, <<"taken", e>>} PROVE Of(e) = {}
    BY <1>4, <1>5, <1>6, KeyFacts
  <1>7. \E p : Places(k) = {p}
    <2>1. CASE x \in {WireKey, HandKey, BatchKey, FailedKey}
      <3>1. Queued = {}
        BY <1>6, <2>1, KeyFacts
      <3> HIDE DEF Queued
      <3>2. \A y \in {WireKey, HandKey, BatchKey, FailedKey} : Has(y, k) <=> y = x
        BY <1>5, KeyFacts
      <3>3. CASE x = WireKey
        BY <1>1, <1>2, <1>3, <3>1, <3>2, <3>3, KeyFacts
      <3>4. CASE x = HandKey
        BY <1>1, <1>2, <1>3, <3>1, <3>2, <3>4, KeyFacts
      <3>5. CASE x = BatchKey
        BY <1>1, <1>2, <1>3, <3>1, <3>2, <3>5, KeyFacts
      <3>6. CASE x = FailedKey
        BY <1>1, <1>2, <1>3, <3>1, <3>2, <3>6, KeyFacts
      <3> QED BY <2>1, <3>3, <3>4, <3>5, <3>6
    <2>2. ASSUME NEW e \in Entries, x = <<"pending", e>> \/ x = <<"taken", e>>
          PROVE  \E p : Places(k) = {p}
      <3>1. /\ ~Has(WireKey, k) /\ ~Has(HandKey, k) /\ ~Has(BatchKey, k) /\ ~Has(FailedKey, k)
        BY <1>5, <2>2, KeyFacts
      <3>2. \A f \in Entries \ {e} : Of(f) = {}
        BY <1>6, <2>2, KeyFacts
      <3>3. Queued = Of(e)
        BY <3>2
      <3>4. \E p : Of(e) = {p}
        <4>1. /\ <<"pending", e>> \in Keys /\ <<"taken", e>> \in Keys
              /\ <<"pending", e>> # <<"taken", e>>
          BY KeyFacts
        <4>2. CASE x = <<"pending", e>>
          <5>1. Has(<<"pending", e>>, k) /\ ~Has(<<"taken", e>>, k)
            BY <1>5, <4>1, <4>2
          <5> QED BY <1>4, <5>1
        <4>3. CASE x = <<"taken", e>>
          <5>1. Has(<<"taken", e>>, k) /\ ~Has(<<"pending", e>>, k)
            BY <1>5, <4>1, <4>3
          <5> QED BY <1>4, <5>1
        <4> QED BY <2>2, <4>2, <4>3
      <3> HIDE DEF Queued
      <3> QED BY <1>1, <1>2, <1>3, <3>1, <3>3, <3>4
    <2> QED BY <2>1, <2>2, KeyFacts
  <1> QED
    BY <1>7, FS_Singleton

\* Every candidate is applied once, or waits to be: one of the client is in one place, and
\* reaches the entry in the table unless it is refused, the offer fails, or Close removed
\* an entry; one of the bot is under way, waits for the answer, or was applied.
THEOREM NegotiationCandidateOnce == Spec => []CandidateOnce
  <1>1. TypeInv /\ Waiting /\ Undisturbed /\ Delivery => ClientCandidateOnce
    <2> SUFFICES ASSUME TypeInv, Waiting, Undisturbed, Delivery, NEW k \in gathered
                 PROVE  /\ Cardinality(Places(k)) = 1
                        /\ ~closes => /\ k \in failed => k \in refused \/ stranded # {}
                                      /\ \A e \in Entries : At(pendingICE[e], k) # {} => e = table
                                      /\ table \in remoteSet => At(pendingICE[table], k) = {}
      BY DEF ClientCandidateOnce
    <2>1. Cardinality(Places(k)) = 1
      BY PlacesCounted DEF Delivery, TypeInv, TypeOK
    <2>2. ~closes => (k \in failed => k \in refused \/ stranded # {})
      BY DEF Undisturbed
    <2>3. ASSUME ~closes, NEW e \in Entries, At(pendingICE[e], k) # {} PROVE e = table
      <3>1. e <= entries /\ table = entries /\ entries <= 1
        BY <2>3, EmptyAt DEF Waiting, Undisturbed
      <3>2. e \in Nat /\ e >= 1 /\ entries \in Nat
        BY EntriesAssumption DEF Entries, TypeInv, TypeOK
      <3> QED BY <3>1, <3>2
    <2>4. table \in remoteSet => At(pendingICE[table], k) = {}
      BY EmptyAt DEF Waiting, TypeInv, TypeOK
    <2> QED BY <2>1, <2>2, <2>3, <2>4
  <1>2. TypeInv /\ Counted => BotCandidateOnce
    <2> SUFFICES ASSUME TypeInv, Counted, Present, NEW e \in Entries, NEW k \in sent[e]
                 PROVE  Cardinality(At(toClient, Local(e, k)))
                        + Cardinality(At(clientPeer, Local(e, k)))
                        + Cardinality({i \in At(remoteICE, Local(e, k)) : i > flushed}) = 1
      BY DEF BotCandidateOnce
    <2>1. k \in BotICE
      BY DEF TypeInv, TypeOK
    <2> QED BY <2>1 DEF Counted, Times, Left
  <1> QED
    BY <1>1, <1>2, NegotiationTypes, NegotiationUndisturbed, NegotiationDelivery,
       NegotiationCounted, PTL DEF CandidateOnce
=============================================================================

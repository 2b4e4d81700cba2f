--------------------------- MODULE AsrSessionProofs ---------------------------
(***************************************************************************)
(* Proofs about AsrSession, for both providers, any capacities and any     *)
(* number of chunks and responses.                                         *)
(*                                                                         *)
(* Three invariants carry them: what an ended select says of the other     *)
(* goroutines (Accounted), where the audio is (AudioKept), and that        *)
(* nothing follows a final (FinalIsLast).                                  *)
(***************************************************************************)
EXTENDS AsrSession, SequenceTheorems, TLAPS

USE SizesAssumption, BoundsAssumption

-----------------------------------------------------------------------------
(* Types. *)

\* What the goroutines' steps have in common: Next unfolded to one disjunct for
\* each operation.
Step ==
    \/ PutChunk \/ CloseInput("utterance") \/ CloseInput("close") \/ LoseConnection
    \/ Cancel \/ ReadEvent \/ Send \/ Receive \/ Select \/ CloseConn \/ CloseOut

LEMMA NextIsStep == Next => ~panicked /\ Step
  BY DEF Next, Step, Environment, RunSession

LEMMA InitTypes == Init => TypeOK
  <1> SUFFICES ASSUME Init PROVE TypeOK
    OBVIOUS
  <1>1. <<>> \in Seq(1 .. MaxChunks) /\ <<>> \in Seq(Events) /\ Len(<<>>) = 0
    BY EmptySeq
  <1>2. /\ input \in Seq(1 .. MaxChunks) /\ Len(input) <= InputCapacity
        /\ buffer \in Seq(1 .. MaxChunks) /\ Len(buffer) < PacketChunks
        /\ audio \in Seq(1 .. MaxChunks)
        /\ out \in Seq(Events) /\ Len(out) <= OutCapacity /\ sent \in Seq(Events)
    BY <1>1 DEF Init
  <1>3. sender \in {"request", "loop", "ok", "failed"}
    BY DEF Init
  <1>4. vendor \in Vendors /\ chunks \in 0 .. MaxChunks /\ responded \in 0 .. MaxResponses
    BY DEF Init
  <1> QED
    BY <1>2, <1>3, <1>4 DEF Init, TypeOK, Events

\* A chunk put on the input keeps the types.
LEMMA PutChunkTypes == TypeOK /\ PutChunk => TypeOK'
  <1> SUFFICES ASSUME TypeOK, PutChunk PROVE TypeOK'
    OBVIOUS
  <1>1. chunks' \in 0 .. MaxChunks /\ chunks + 1 \in 1 .. MaxChunks
    BY DEF TypeOK, PutChunk
  <1>2. input' \in Seq(1 .. MaxChunks) /\ Len(input') <= InputCapacity
    BY <1>1, AppendProperties DEF TypeOK, PutChunk
  <1> QED
    BY <1>1, <1>2 DEF TypeOK, PutChunk, senderVars, serverVars, receiverVars, sessionVars,
                      outVars

\* A flush keeps the types of the audio.
LEMMA FlushTypes ==
    ASSUME TypeOK, NEW pending \in Seq(1 .. MaxChunks), Flush(pending)
    PROVE  audio' \in Seq(1 .. MaxChunks) /\ buffer' = <<>>
           /\ buffer' \in Seq(1 .. MaxChunks) /\ Len(buffer') < PacketChunks
  BY ConcatProperties, EmptySeq DEF TypeOK, Flush

LEMMA SendTypes == TypeOK /\ Send => TypeOK'
  <1> SUFFICES ASSUME TypeOK, Send PROVE TypeOK'
    OBVIOUS
  <1> DEFINE Same == /\ UNCHANGED <<vendor, chunks, inputEnd, cancelled, serverVars,
                                    receiverVars, sessionVars, connClosed, outVars,
                                    outClosed>>
  <1> DEFINE Moved == /\ input' \in Seq(1 .. MaxChunks) /\ Len(input') <= InputCapacity
                      /\ sender' \in {"request", "loop", "ok", "failed"}
                      /\ buffer' \in Seq(1 .. MaxChunks) /\ Len(buffer') < PacketChunks
                      /\ audio' \in Seq(1 .. MaxChunks) /\ lastSent' \in BOOLEAN
  <1>1. Same
    BY DEF Send
  <1>2. ASSUME SendRequest PROVE Moved
    BY <1>2 DEF SendRequest, SenderFails, TypeOK
  <1>3. ASSUME SenderCancelled PROVE Moved
    BY <1>3 DEF SenderCancelled, SenderFails, TypeOK
  <1>4. ASSUME SendLast PROVE Moved
    <2>1. CASE SenderFails /\ UNCHANGED input
      BY <2>1 DEF SenderFails, TypeOK
    <2>2. CASE Flush(buffer) /\ lastSent' = TRUE /\ sender' = "ok" /\ UNCHANGED input
      BY <2>2, FlushTypes DEF TypeOK
    <2> QED
      BY <1>4, <2>1, <2>2 DEF SendLast
  <1>5. ASSUME TakeChunk PROVE Moved
    <2> DEFINE pending == Append(buffer, Head(input))
    <2>1. input # <<>> /\ input' = Tail(input)
      BY <1>5 DEF TakeChunk
    <2>2. Head(input) \in 1 .. MaxChunks /\ input' \in Seq(1 .. MaxChunks)
          /\ Len(input') <= InputCapacity
      BY <2>1, HeadTailProperties DEF TypeOK
    <2>3. pending \in Seq(1 .. MaxChunks)
      BY <2>2, AppendProperties DEF TypeOK
    <2>4. CASE ~FillsPacket(pending) /\ buffer' = pending /\ UNCHANGED <<sender, audio, lastSent>>
      <3>1. Len(pending) < PacketChunks
        BY <2>3, <2>4 DEF FillsPacket, TypeOK
      <3> QED
        BY <2>2, <2>3, <2>4, <3>1 DEF TypeOK
    <2>5. CASE Flush(pending) /\ UNCHANGED <<sender, lastSent>>
      BY <2>2, <2>3, <2>5, FlushTypes DEF TypeOK
    <2>6. CASE SenderFails
      BY <2>2, <2>6 DEF SenderFails, TypeOK
    <2> QED
      BY <1>5, <2>4, <2>5, <2>6 DEF TakeChunk
  <1>6. Moved
    BY <1>2, <1>3, <1>4, <1>5 DEF Send
  <1> HIDE DEF Moved
  <1> QED
    BY <1>1, <1>6 DEF Moved, TypeOK, serverVars, receiverVars, sessionVars, outVars

LEMMA ReceiveTypes == TypeOK /\ Receive => TypeOK'
  <1> SUFFICES ASSUME TypeOK, Receive PROVE TypeOK'
    OBVIOUS
  <1> DEFINE Moved == /\ responded' \in 0 .. MaxResponses
                      /\ receiver' \in {"check", "read", "deliver", "ok", "failed"}
                      /\ event' \in Events
                      /\ out' \in Seq(Events) /\ Len(out') <= OutCapacity
                      /\ sent' \in Seq(Events) /\ panicked' \in BOOLEAN
  <1>1. ASSUME CheckContext PROVE Moved
    BY <1>1 DEF CheckContext, TypeOK, outVars
  <1>2. ASSUME ReadFails PROVE Moved
    BY <1>2 DEF ReadFails, TypeOK, outVars
  <1>3. ASSUME NEW kind \in Responses, ReadResponse(kind) PROVE Moved
    <2>1. After(kind) \in {"check", "deliver", "ok", "failed"}
      BY <1>3 DEF After, Responses, Events
    <2>2. EventFor(kind) \in Events
      BY DEF EventFor, Events
    <2> QED
      BY <1>3, <2>1, <2>2 DEF ReadResponse, TypeOK, outVars
  <1>4. ASSUME Deliver PROVE Moved
    <2>1. CASE outClosed
      BY <1>4, <2>1 DEF Deliver, TypeOK
    <2>2. CASE ~outClosed
      <3>1. /\ out \in Seq(Events) /\ sent \in Seq(Events) /\ event \in Events
            /\ Len(out) < OutCapacity /\ Len(out) \in Nat
            /\ out' = Append(out, event) /\ sent' = Append(sent, event)
        BY <1>4, <2>2, LenProperties DEF Deliver, TypeOK
      <3>2. out' \in Seq(Events) /\ Len(out') = Len(out) + 1 /\ sent' \in Seq(Events)
        BY <3>1, AppendProperties
      <3> QED
        BY <1>4, <2>2, <3>1, <3>2 DEF Deliver, AfterDelivery, TypeOK
    <2> QED
      BY <2>1, <2>2
  <1>5. Moved
    BY <1>1, <1>2, <1>3, <1>4 DEF Receive
  <1> HIDE DEF Moved
  <1> QED
    BY <1>5 DEF Moved, Receive, TypeOK, inputVars, senderVars, sessionVars

LEMMA SelectTypes == TypeOK /\ Select => TypeOK'
  <1> SUFFICES ASSUME TypeOK, Select PROVE TypeOK'
    OBVIOUS
  <1>1. /\ session' \in {"select", "left", "closed", "ended"}
        /\ reason' \in {"none", "cancelled", "send", "receive", "timeout"}
        /\ sendSeen' \in BOOLEAN /\ finalWait' \in BOOLEAN /\ closeSent' \in BOOLEAN
    BY DEF Select, SeeCancel, SeeSend, SeeReceive, FinalTimeout, Leave, TypeOK
  <1> QED
    BY <1>1 DEF TypeOK, Select, inputVars, senderVars, serverVars, receiverVars, outVars

LEMMA TypeStep == TypeOK /\ [Next]_vars => TypeOK'
  <1> SUFFICES ASSUME TypeOK, [Next]_vars PROVE TypeOK'
    OBVIOUS
  <1> USE DEF inputVars, senderVars, serverVars, receiverVars, sessionVars, outVars
  <1>1. CASE UNCHANGED vars
    BY <1>1 DEF TypeOK, vars
  <1>2. CASE CloseInput("utterance") \/ CloseInput("close")
    BY <1>2 DEF TypeOK, CloseInput
  <1>3. CASE LoseConnection
    BY <1>3 DEF TypeOK, LoseConnection
  <1>4. CASE Cancel
    BY <1>4 DEF TypeOK, Cancel
  <1>5. CASE ReadEvent
    <2>1. out' \in Seq(Events) /\ Len(out') <= OutCapacity
      BY <1>5, HeadTailProperties DEF TypeOK, ReadEvent
    <2> QED
      BY <1>5, <2>1 DEF TypeOK, ReadEvent
  <1>6. CASE CloseConn
    BY <1>6 DEF TypeOK, CloseConn
  <1>7. CASE CloseOut
    BY <1>7 DEF TypeOK, CloseOut
  <1> QED
    BY <1>1, <1>2, <1>3, <1>4, <1>5, <1>6, <1>7, NextIsStep, PutChunkTypes, SendTypes,
       ReceiveTypes, SelectTypes DEF Step

\* TypeOK: what each goroutine holds, and the capacities of the two channels and
\* of volc's buffer, in both providers.
THEOREM SessionTypeOK == Spec => []TypeOK
  BY InitTypes, TypeStep, PTL DEF Spec
-----------------------------------------------------------------------------
(* What runSession knows of the others when it leaves. *)

Accounted ==
    /\ session = "select" <=> reason = "none"
    /\ outClosed <=> session = "ended"
    /\ reason = "receive" => receiver \in {"ok", "failed"}
    /\ finalWait \/ reason \in {"send", "timeout"} => vendor = "xfyun"
    /\ panicked => outClosed /\ receiver = "deliver"

LEMMA AccountedStep == TypeOK /\ Accounted /\ [Next]_vars => Accounted'
  <1> SUFFICES ASSUME TypeOK, Accounted, [Next]_vars PROVE Accounted'
    OBVIOUS
  <1> USE DEF inputVars, senderVars, serverVars, receiverVars, sessionVars, outVars
  <1>1. CASE UNCHANGED vars
    BY <1>1 DEF Accounted, vars
  <1>2. CASE \/ PutChunk \/ CloseInput("utterance") \/ CloseInput("close")
             \/ LoseConnection \/ Cancel \/ ReadEvent
    BY <1>2 DEF Accounted, PutChunk, CloseInput, LoseConnection, Cancel, ReadEvent
  <1>3. CASE Send
    BY <1>3 DEF Accounted, Send
  <1>4. CASE ~panicked /\ Receive
    <2>1. CASE CheckContext \/ ReadFails \/ \E kind \in Responses : ReadResponse(kind)
      BY <1>4, <2>1 DEF Accounted, Receive, CheckContext, ReadFails, ReadResponse
    <2>2. CASE Deliver
      BY <1>4, <2>2 DEF Accounted, Receive, Deliver
    <2> QED
      BY <1>4, <2>1, <2>2 DEF Receive
  <1>5. CASE ~panicked /\ Select
    <2>1. CASE SeeCancel
      BY <1>5, <2>1 DEF Accounted, Select, SeeCancel, Leave
    <2>2. CASE SeeSend
      BY <1>5, <2>2 DEF Accounted, Select, SeeSend, Leave
    <2>3. CASE SeeReceive
      BY <1>5, <2>3 DEF Accounted, Select, SeeReceive, Leave
    <2>4. CASE FinalTimeout
      BY <1>5, <2>4 DEF Accounted, Select, FinalTimeout, Leave
    <2> QED
      BY <1>5, <2>1, <2>2, <2>3, <2>4 DEF Select
  <1>6. CASE ~panicked /\ CloseConn
    BY <1>6 DEF Accounted, CloseConn
  <1>7. CASE ~panicked /\ CloseOut
    BY <1>7 DEF Accounted, CloseOut
  <1> QED
    BY <1>1, <1>2, <1>3, <1>4, <1>5, <1>6, <1>7, NextIsStep DEF Step

\* OnlyAbandonedSessionsPanic: runSession that leaves because recvLoop has
\* returned closes a channel on which nobody sends any more; volc's does so but
\* for a cancellation.
THEOREM SessionPanicsWhenAbandoned == Spec => []OnlyAbandonedSessionsPanic
  <1>1. Init => Accounted
    BY DEF Init, Accounted
  <1>2. TypeOK /\ Accounted => OnlyAbandonedSessionsPanic
    BY DEF TypeOK, Accounted, OnlyAbandonedSessionsPanic, Vendors
  <1> QED
    BY <1>1, <1>2, InitTypes, TypeStep, AccountedStep, PTL DEF Spec
-----------------------------------------------------------------------------
(* The refinement. *)

\* Once a final was sent recvLoop has returned, and a channel that is going to
\* be closed is open.
FinalIsLast == sent # <<>> /\ sent[Len(sent)] = "final" => receiver = "ok"

LEMMA FinalStep == TypeOK /\ Accounted /\ FinalIsLast /\ [Next]_vars => FinalIsLast'
  <1> SUFFICES ASSUME TypeOK, Accounted, FinalIsLast, [Next]_vars PROVE FinalIsLast'
    OBVIOUS
  <1> USE DEF inputVars, senderVars, serverVars, receiverVars, sessionVars, outVars
  <1>1. CASE UNCHANGED <<sent, receiver>>
    BY <1>1 DEF FinalIsLast
  <1>2. CASE Receive
    <2>1. CASE CheckContext \/ ReadFails \/ \E kind \in Responses : ReadResponse(kind)
      BY <2>1 DEF FinalIsLast, CheckContext, ReadFails, ReadResponse
    <2>2. CASE Deliver /\ outClosed
      BY <2>2 DEF FinalIsLast, Deliver
    <2>3. CASE Deliver /\ ~outClosed
      <3>1. sent \in Seq(Events) /\ event \in Events /\ sent' = Append(sent, event)
            /\ receiver' = AfterDelivery
        BY <2>3 DEF Deliver, TypeOK
      <3>2. sent'[Len(sent')] = event
        BY <3>1, AppendProperties, LenProperties
      <3> QED
        BY <3>1, <3>2 DEF FinalIsLast, AfterDelivery
    <2> QED
      BY <1>2, <2>1, <2>2, <2>3 DEF Receive
  <1>3. CASE \/ PutChunk \/ CloseInput("utterance") \/ CloseInput("close")
             \/ LoseConnection \/ Cancel \/ ReadEvent \/ Send \/ Select
             \/ CloseConn \/ CloseOut
    <2>1. UNCHANGED <<sent, receiver>>
      BY <1>3 DEF PutChunk, CloseInput, LoseConnection, Cancel, ReadEvent, Send, Select,
                  CloseConn, CloseOut
    <2> QED
      BY <1>1, <2>1
  <1>4. CASE UNCHANGED vars
    BY <1>1, <1>4 DEF vars
  <1> QED
    BY <1>2, <1>3, <1>4, NextIsStep DEF Step

\* A step of the session is a step of the abstract stream or leaves it alone.
LEMMA StreamStep ==
    TypeOK /\ Accounted /\ FinalIsLast /\ [Next]_vars => [Stream!Next]_Stream!vars
  <1> SUFFICES ASSUME TypeOK, Accounted, FinalIsLast, [Next]_vars
               PROVE  [Stream!Next]_Stream!vars
    OBVIOUS
  <1> USE DEF inputVars, senderVars, serverVars, receiverVars, sessionVars, outVars
  <1>1. CASE UNCHANGED <<sent, outClosed>>
    BY <1>1 DEF Stream!vars
  <1>2. CASE Receive
    <2>1. CASE CheckContext \/ ReadFails \/ \E kind \in Responses : ReadResponse(kind)
      BY <1>1, <1>2, <2>1 DEF Receive, CheckContext, ReadFails, ReadResponse
    <2>2. CASE Deliver /\ outClosed
      BY <1>1, <1>2, <2>2 DEF Receive, Deliver
    <2>3. CASE Deliver /\ ~outClosed
      <3>1. Stream!Send(event)
        <4>1. ~Stream!Finished
          BY <2>3 DEF FinalIsLast, Deliver, Stream!Finished
        <4> QED
          BY <1>2, <2>3, <4>1 DEF Receive, Deliver, Stream!Send
      <3>2. event \in {"partial", "final"}
        BY DEF TypeOK, Events
      <3> QED
        BY <3>1, <3>2 DEF Stream!Next
    <2> QED
      BY <1>2, <2>1, <2>2, <2>3 DEF Receive
  <1>3. CASE CloseOut
    <2>1. Stream!End
      BY <1>3 DEF CloseOut, Accounted, Stream!End
    <2> QED
      BY <2>1 DEF Stream!Next
  <1>4. CASE \/ PutChunk \/ CloseInput("utterance") \/ CloseInput("close")
             \/ LoseConnection \/ Cancel \/ ReadEvent \/ Send \/ Select \/ CloseConn
    <2>1. UNCHANGED <<sent, outClosed>>
      BY <1>4 DEF PutChunk, CloseInput, LoseConnection, Cancel, ReadEvent, Send, Select,
                  CloseConn
    <2> QED
      BY <1>1, <2>1
  <1>5. CASE UNCHANGED vars
    BY <1>1, <1>5 DEF vars
  <1> QED
    BY <1>2, <1>3, <1>4, <1>5, NextIsStep DEF Step

\* AsrStreamSpec: a provider session implements the stream that asrRuntime reads.
THEOREM SessionRefinesStream == Spec => AsrStreamSpec
  <1>1. Init => Accounted /\ FinalIsLast /\ Stream!Init
    BY DEF Init, Accounted, FinalIsLast, Stream!Init
  <1> QED
    BY <1>1, InitTypes, TypeStep, AccountedStep, FinalStep, StreamStep, PTL
       DEF Spec, AsrStreamSpec, Stream!Spec
-----------------------------------------------------------------------------
(* The audio. *)

\* Concatenation under a name, so that what follows is about its laws only.
Join(s, t) == s \o t

LEMMA JoinLaws ==
    ASSUME NEW S
    PROVE  /\ \A s, t \in Seq(S) : Join(s, t) \in Seq(S)
           /\ \A s, t, u \in Seq(S) : Join(Join(s, t), u) = Join(s, Join(t, u))
           /\ \A s \in Seq(S) : Join(s, <<>>) = s /\ Join(<<>>, s) = s
           /\ \A s \in Seq(S), e \in S : Append(s, e) = Join(s, <<e>>) /\ <<e>> \in Seq(S)
  <1>1. ASSUME NEW s \in Seq(S), NEW t \in Seq(S) PROVE s \o t \in Seq(S)
    BY ConcatProperties
  <1>2. ASSUME NEW s \in Seq(S), NEW t \in Seq(S), NEW u \in Seq(S)
        PROVE  (s \o t) \o u = s \o (t \o u)
    BY ConcatAssociative, SMTT(60)
  <1>3. ASSUME NEW s \in Seq(S) PROVE s \o <<>> = s /\ <<>> \o s = s
    BY ConcatEmptySeq
  <1>4. ASSUME NEW s \in Seq(S), NEW e \in S
        PROVE  Append(s, e) = s \o <<e>> /\ <<e>> \in Seq(S)
    BY AppendIsConcat
  <1> QED
    BY <1>1, <1>2, <1>3, <1>4 DEF Join

\* Where the chunks are; a packet that ends the audio leaves nothing behind.
AudioKept ==
    /\ sender # "failed" => Join(Join(audio, buffer), input) = [i \in 1 .. chunks |-> i]
    /\ lastSent <=> sender = "ok"
    /\ lastSent => inputEnd # "open" /\ audio = [i \in 1 .. chunks |-> i]

\* A sequence is its head and its tail.
LEMMA HeadAndTail ==
    ASSUME NEW S, NEW c \in Seq(S), c # <<>>
    PROVE  <<Head(c)>> \o Tail(c) = c
  <1>1. Head(c) \in S /\ Tail(c) \in Seq(S) /\ Len(Tail(c)) = Len(c) - 1
        /\ \A i \in 1 .. Len(Tail(c)) : Tail(c)[i] = c[i + 1]
    BY HeadTailProperties
  <1>2. Len(c) \in Nat /\ Head(c) = c[1] /\ <<Head(c)>> \in Seq(S)
        /\ Len(<<Head(c)>>) = 1 /\ <<Head(c)>>[1] = c[1]
    BY <1>1, LenProperties
  <1>3. ASSUME NEW first \in Seq(S), NEW t \in Seq(S),
               Len(first) = 1, first[1] = c[1], Len(t) = Len(c) - 1,
               \A i \in 1 .. Len(t) : t[i] = c[i + 1]
        PROVE  first \o t = c
    <2>1. first \o t \in Seq(S) /\ Len(first \o t) = Len(first) + Len(t)
          /\ \A i \in 1 .. Len(first) + Len(t) :
                 (first \o t)[i] = IF i <= Len(first) THEN first[i] ELSE t[i - Len(first)]
      BY ConcatProperties
    <2>2. ASSUME NEW i \in 1 .. Len(c) PROVE (first \o t)[i] = c[i]
      <3>1. CASE i = 1
        BY <1>2, <1>3, <2>1, <3>1
      <3>2. CASE i # 1
        <4>1. i - 1 \in 1 .. Len(t) /\ i \in 1 .. Len(first) + Len(t) /\ ~(i <= 1)
              /\ (i - 1) + 1 = i
          BY <1>2, <1>3, <3>2
        <4>2. t[i - 1] = c[(i - 1) + 1]
          BY <1>3, <4>1
        <4> QED
          BY <1>3, <2>1, <4>1, <4>2
      <3> QED
        BY <3>1, <3>2
    <2>3. Len(first \o t) = Len(c)
      BY <1>2, <1>3, <2>1
    <2> QED
      BY <2>1, <2>2, <2>3, SeqEqual
  <1> QED
    BY <1>1, <1>2, <1>3

\* Moving the head of one sequence to the end of the one before it.
LEMMA MoveHead ==
    ASSUME NEW S, NEW a \in Seq(S), NEW b \in Seq(S), NEW c \in Seq(S), c # <<>>
    PROVE  /\ Append(b, Head(c)) \in Seq(S)
           /\ Join(Join(a, Append(b, Head(c))), Tail(c)) = Join(Join(a, b), c)
  <1>1. Head(c) \in S /\ Tail(c) \in Seq(S)
    BY HeadTailProperties
  <1>2. <<Head(c)>> \in Seq(S) /\ Join(<<Head(c)>>, Tail(c)) = c
    BY <1>1, HeadAndTail, JoinLaws DEF Join
  <1>3. Append(b, Head(c)) = Join(b, <<Head(c)>>)
    BY <1>1, JoinLaws
  <1>4. ASSUME NEW h \in Seq(S), NEW t \in Seq(S), Join(h, t) = c
        PROVE  Join(b, h) \in Seq(S) /\ Join(Join(a, Join(b, h)), t) = Join(Join(a, b), c)
    BY <1>4, JoinLaws
  <1> QED
    BY <1>1, <1>2, <1>3, <1>4

\* The first n numbers, and the next one after them.
LEMMA NextNumber ==
    ASSUME NEW n \in Nat
    PROVE  Join([i \in 1 .. n |-> i], <<n + 1>>) = [i \in 1 .. n + 1 |-> i]
  <1>1. ASSUME NEW s \in Seq(Nat), Len(s) = n, \A i \in 1 .. n : s[i] = i,
               NEW last \in Seq(Nat), Len(last) = 1, last[1] = n + 1,
               NEW next \in Seq(Nat), Len(next) = n + 1, \A i \in 1 .. n + 1 : next[i] = i
        PROVE  s \o last = next
    <2>1. s \o last \in Seq(Nat) /\ Len(s \o last) = Len(s) + Len(last)
          /\ \A i \in 1 .. Len(s) + Len(last) :
                 (s \o last)[i] = IF i <= Len(s) THEN s[i] ELSE last[i - Len(s)]
      BY ConcatProperties
    <2>2. ASSUME NEW i \in 1 .. n + 1 PROVE (s \o last)[i] = next[i]
      <3>1. CASE i <= n
        BY <1>1, <2>1, <3>1
      <3>2. CASE i = n + 1
        <4>1. i \in 1 .. Len(s) + Len(last) /\ ~(i <= Len(s)) /\ i - Len(s) = 1
          BY <1>1, <3>2
        <4>2. (s \o last)[i] = last[1]
          BY <2>1, <4>1
        <4> QED
          BY <1>1, <3>2, <4>2
      <3>3. i <= n \/ i = n + 1
        OBVIOUS
      <3> QED
        BY <3>1, <3>2, <3>3
    <2>3. Len(s \o last) = Len(next)
      BY <1>1, <2>1
    <2>4. \A i \in 1 .. Len(s \o last) : (s \o last)[i] = next[i]
      BY <1>1, <2>2, <2>3
    <2> QED
      BY <2>1, <2>3, <2>4, SeqEqual
  <1>2. [i \in 1 .. n |-> i] \in Seq(Nat) /\ Len([i \in 1 .. n |-> i]) = n
    OBVIOUS
  <1>3. [i \in 1 .. n + 1 |-> i] \in Seq(Nat) /\ Len([i \in 1 .. n + 1 |-> i]) = n + 1
    OBVIOUS
  <1>4. <<n + 1>> \in Seq(Nat) /\ Len(<<n + 1>>) = 1 /\ <<n + 1>>[1] = n + 1
    OBVIOUS
  <1> QED
    BY <1>1, <1>2, <1>3, <1>4 DEF Join

LEMMA ChunksAreNumbers == \A s \in Seq(1 .. MaxChunks) : s \in Seq(Nat)
  BY BoundsAssumption

LEMMA SendKeepsAudio == TypeOK /\ AudioKept /\ Send => AudioKept'
  <1> SUFFICES ASSUME TypeOK, AudioKept, Send PROVE AudioKept'
    OBVIOUS
  <1>1. audio \in Seq(Nat) /\ buffer \in Seq(Nat) /\ input \in Seq(Nat)
    BY ChunksAreNumbers DEF TypeOK
  <1>2. UNCHANGED <<chunks, inputEnd>>
    BY DEF Send
  <1>3. CASE SendRequest \/ SenderCancelled
    BY <1>2, <1>3 DEF AudioKept, SendRequest, SenderCancelled, SenderFails
  <1>4. CASE SendLast /\ SenderFails
    BY <1>2, <1>4 DEF AudioKept, SendLast, SenderFails
  <1>5. CASE SendLast /\ ~SenderFails
    <2>1. /\ input = <<>> /\ inputEnd # "open" /\ sender = "loop"
          /\ audio' = Join(audio, buffer) /\ buffer' = <<>> /\ input' = <<>>
          /\ lastSent' = TRUE /\ sender' = "ok"
      BY <1>5 DEF SendLast, Flush, Join
    <2>2. Join(audio, buffer) \in Seq(Nat)
      BY <1>1, JoinLaws
    <2>3. /\ Join(Join(audio', buffer'), input') = Join(audio, buffer)
          /\ Join(Join(audio, buffer), input) = Join(audio, buffer)
      BY <2>1, <2>2, JoinLaws
    <2> QED
      BY <1>2, <2>1, <2>3 DEF AudioKept
  <1>6. CASE TakeChunk /\ SenderFails
    BY <1>2, <1>6 DEF AudioKept, TakeChunk, SenderFails
  <1>7. CASE TakeChunk /\ ~SenderFails
    <2> DEFINE pending == Append(buffer, Head(input))
    <2>1. input # <<>> /\ input' = Tail(input) /\ sender = "loop" /\ sender' = sender
          /\ lastSent' = lastSent
      BY <1>7 DEF TakeChunk
    <2>2. pending \in Seq(Nat)
          /\ Join(Join(audio, pending), input') = Join(Join(audio, buffer), input)
      BY <1>1, <2>1, MoveHead
    <2>3. CASE buffer' = pending /\ audio' = audio
      BY <1>2, <2>1, <2>2, <2>3 DEF AudioKept
    <2>4. CASE Flush(pending)
      <3>1. audio' = Join(audio, pending) /\ buffer' = <<>>
        BY <2>4 DEF Flush, Join
      <3>2. Join(audio', buffer') = Join(audio, pending)
        BY <1>1, <2>2, <3>1, JoinLaws
      <3> HIDE DEF pending
      <3> QED
        BY <1>2, <2>1, <2>2, <3>2 DEF AudioKept
    <2> QED
      BY <1>7, <2>3, <2>4 DEF TakeChunk
  <1> QED
    BY <1>3, <1>4, <1>5, <1>6, <1>7 DEF Send

\* A chunk that is put on the input comes last.
LEMMA PutKeepsAudio == TypeOK /\ AudioKept /\ PutChunk => AudioKept'
  <1> SUFFICES ASSUME TypeOK, AudioKept, PutChunk PROVE AudioKept'
    OBVIOUS
  <1>1. audio \in Seq(Nat) /\ buffer \in Seq(Nat) /\ input \in Seq(Nat) /\ chunks \in Nat
    BY BoundsAssumption, ChunksAreNumbers DEF TypeOK
  <1>2. chunks' = chunks + 1 /\ input' = Append(input, chunks + 1) /\ inputEnd = "open"
        /\ UNCHANGED <<audio, buffer, sender, lastSent, inputEnd>>
    BY DEF PutChunk, senderVars
  <1>3. <<chunks + 1>> \in Seq(Nat) /\ input' = Join(input, <<chunks + 1>>)
    <2>1. \A s \in Seq(Nat), e \in Nat : Append(s, e) = Join(s, <<e>>) /\ <<e>> \in Seq(Nat)
      BY JoinLaws
    <2>2. chunks + 1 \in Nat
      BY <1>1
    <2> QED
      BY <1>1, <1>2, <2>1, <2>2
  <1>4. Join(Join(audio, buffer), input') = Join(Join(Join(audio, buffer), input), <<chunks + 1>>)
    <2>1. \A s, t \in Seq(Nat) : Join(s, t) \in Seq(Nat)
      BY JoinLaws
    <2>2. \A s, t, u \in Seq(Nat) : Join(Join(s, t), u) = Join(s, Join(t, u))
      BY JoinLaws
    <2>3. Join(audio, buffer) \in Seq(Nat)
      BY <1>1, <2>1
    <2> QED
      BY <1>1, <1>3, <2>2, <2>3
  <1>5. Join([i \in 1 .. chunks |-> i], <<chunks + 1>>) = [i \in 1 .. chunks' |-> i]
    BY <1>1, <1>2, NextNumber
  <1> QED
    BY <1>2, <1>4, <1>5 DEF AudioKept

LEMMA AudioStep == TypeOK /\ AudioKept /\ [Next]_vars => AudioKept'
  <1> SUFFICES ASSUME TypeOK, AudioKept, [Next]_vars PROVE AudioKept'
    OBVIOUS
  <1> USE DEF inputVars, senderVars, serverVars, receiverVars, sessionVars, outVars
  <1>1. CASE UNCHANGED <<chunks, input, inputEnd, sender, buffer, audio, lastSent>>
    BY <1>1 DEF AudioKept
  <1>2. CASE CloseInput("utterance") \/ CloseInput("close")
    BY <1>2 DEF AudioKept, CloseInput
  <1>3. CASE \/ LoseConnection \/ Cancel \/ ReadEvent \/ Receive \/ Select \/ CloseConn
             \/ CloseOut \/ UNCHANGED vars
    <2>1. UNCHANGED <<chunks, input, inputEnd, sender, buffer, audio, lastSent>>
      BY <1>3 DEF LoseConnection, Cancel, ReadEvent, Receive, Select, CloseConn, CloseOut, vars
    <2> QED
      BY <1>1, <2>1
  <1> QED
    BY <1>2, <1>3, NextIsStep, PutKeepsAudio, SendKeepsAudio DEF Step

\* AudioArrivesOnce: whatever the sizes of the channel and of the packets, no
\* chunk is lost, doubled or overtaken between asrRuntime and the server.
THEOREM SessionAudioArrivesOnce == Spec => []AudioArrivesOnce
  <1>1. Init => AudioKept
    <2> SUFFICES ASSUME Init PROVE AudioKept
      OBVIOUS
    <2>1. Join(Join(<<>>, <<>>), <<>>) = <<>>
      <3>1. <<>> \in Seq(Nat)
        BY EmptySeq
      <3> QED
        BY <3>1, JoinLaws
    <2> QED
      BY <2>1 DEF Init, AudioKept
  <1>2. AudioKept => AudioArrivesOnce
    BY DEF AudioKept, AudioArrivesOnce, Join
  <1> QED
    BY <1>1, <1>2, InitTypes, TypeStep, AudioStep, PTL DEF Spec
==============================================================================

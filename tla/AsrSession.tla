------------------------------ MODULE AsrSession ------------------------------
(***************************************************************************)
(* A provider session of an ASR stream, for both providers: the websocket  *)
(* and the three goroutines of runSession, with sendLoop between the input *)
(* channel and the socket and recvLoop between the socket and the channel  *)
(* of events.                                                              *)
(*                                                                         *)
(* Around them are asrRuntime, which puts chunks on the input, closes it   *)
(* and cancels, forwardEvents, which reads the events and cancels at their *)
(* end, and the provider's server, which answers or not.                   *)
(*                                                                         *)
(* A step is one channel operation, one select or one call on the socket.  *)
(* A write and the taking of what it writes are one step, so a chunk that  *)
(* waits for the server to read counts as not yet taken.                   *)
(* A chunk is its number; a response is its kind; nothing in a panicked    *)
(* process moves.                                                          *)
(***************************************************************************)
EXTENDS Naturals, Sequences

CONSTANTS PacketChunks,   \* volc: chunks that make up targetBytes
          InputCapacity,  \* of the input channel (64 in the code)
          OutCapacity,    \* of the channel of events (16 in the code)
          MaxChunks,      \* bound on the chunks put on the input
          MaxResponses    \* bound on the responses that are read

ASSUME SizesAssumption == /\ PacketChunks \in Nat \ {0}
                          /\ InputCapacity \in Nat \ {0} /\ OutCapacity \in Nat \ {0}
ASSUME BoundsAssumption == MaxChunks \in Nat /\ MaxResponses \in Nat

VARIABLES
    vendor,      \* the provider that is configured
    chunks,      \* chunks put on the input so far
    input,       \* the input channel
    inputEnd,    \* how it was closed: "open", "utterance", or "close"
    cancelled,   \* the session's context
    sender,      \* where sendLoop is
    sendSeen,    \* runSession has received sendErr
    buffer,      \* volc: the audio that waits for a packet
    audio,       \* the audio that the server was sent
    lastSent,    \* the packet that ends the audio was sent
    responded,   \* responses that recvLoop has read
    lost,        \* the server has closed the connection, or it broke
    closeSent,   \* the close frame was written
    connClosed,  \* conn.Close was called
    receiver,    \* where recvLoop is
    event,       \* the event it is about to send
    session,     \* where runSession is
    reason,      \* why it left its loop
    finalWait,   \* xfyun: the timer for the final response runs
    out,         \* the channel of events
    outClosed,
    sent,        \* history: the events sent on out
    panicked     \* somebody sent on a closed channel

inputVars    == <<chunks, input, inputEnd>>
senderVars   == <<sender, buffer, audio, lastSent>>
serverVars   == <<responded, lost>>
receiverVars == <<receiver, event>>
sessionVars  == <<session, reason, sendSeen, finalWait, closeSent>>
outVars      == <<out, sent, panicked>>
vars == <<vendor, inputVars, cancelled, senderVars, serverVars, receiverVars, sessionVars,
          connClosed, outVars, outClosed>>

Vendors == {"volc", "xfyun"}
\* Transcripts; volc also acknowledges, and sends results without text; lastEmpty
\* is a last response without text.
Responses == {"partial", "final", "metadata", "lastEmpty", "error"}
Events == {"partial", "final"}

TypeOK ==
    /\ vendor \in Vendors
    /\ chunks \in 0 .. MaxChunks
    /\ input \in Seq(1 .. MaxChunks) /\ Len(input) <= InputCapacity
    /\ inputEnd \in {"open", "utterance", "close"}
    /\ cancelled \in BOOLEAN /\ lost \in BOOLEAN
    /\ sender \in {"request", "loop", "ok", "failed"}
    /\ buffer \in Seq(1 .. MaxChunks) /\ Len(buffer) < PacketChunks
    /\ audio \in Seq(1 .. MaxChunks) /\ lastSent \in BOOLEAN
    /\ responded \in 0 .. MaxResponses
    /\ receiver \in {"check", "read", "deliver", "ok", "failed"}
    /\ event \in Events
    /\ session \in {"select", "left", "closed", "ended"}
    /\ reason \in {"none", "cancelled", "send", "receive", "timeout"}
    /\ sendSeen \in BOOLEAN /\ finalWait \in BOOLEAN
    /\ closeSent \in BOOLEAN /\ connClosed \in BOOLEAN
    /\ out \in Seq(Events) /\ Len(out) <= OutCapacity
    /\ outClosed \in BOOLEAN
    /\ sent \in Seq(Events)
    /\ panicked \in BOOLEAN

\* Transcribe has dialled; volc's sendLoop starts with the full client request.
Init ==
    /\ vendor \in Vendors
    /\ chunks = 0 /\ input = <<>> /\ inputEnd = "open" /\ cancelled = FALSE
    /\ sender = IF vendor = "volc" THEN "request" ELSE "loop"
    /\ buffer = <<>> /\ audio = <<>> /\ lastSent = FALSE
    /\ responded = 0 /\ lost = FALSE
    /\ receiver = "check" /\ event = "partial"
    /\ session = "select" /\ reason = "none" /\ sendSeen = FALSE /\ finalWait = FALSE
    /\ closeSent = FALSE /\ connClosed = FALSE
    /\ out = <<>> /\ outClosed = FALSE /\ sent = <<>> /\ panicked = FALSE
------------------------------------------------------------------------------
(* asrRuntime and forwardEvents. *)

PutChunk ==
    /\ inputEnd = "open" /\ chunks < MaxChunks /\ Len(input) < InputCapacity
    /\ chunks' = chunks + 1
    /\ input' = Append(input, chunks + 1)
    /\ UNCHANGED <<vendor, inputEnd, cancelled, senderVars, serverVars, receiverVars,
                   sessionVars, connClosed, outVars, outClosed>>

\* HandleEndOfUtterance, or Close, which cancels after it.
CloseInput(how) ==
    /\ inputEnd = "open"
    /\ inputEnd' = how
    /\ UNCHANGED <<vendor, chunks, input, cancelled, senderVars, serverVars, receiverVars,
                   sessionVars, connClosed, outVars, outClosed>>

\* Close's cancel, and the deferred one of forwardEvents.  HandleEndOfUtterance
\* clears asrRuntime.cancel: a Close after it does not cancel this session.
Cancel ==
    /\ ~cancelled
    /\ inputEnd = "close" \/ (outClosed /\ out = <<>>)
    /\ cancelled' = TRUE
    /\ UNCHANGED <<vendor, inputVars, senderVars, serverVars, receiverVars, sessionVars,
                   connClosed, outVars, outClosed>>

\* forwardEvents reads an event.
ReadEvent ==
    /\ out # <<>>
    /\ out' = Tail(out)
    /\ UNCHANGED <<vendor, inputVars, cancelled, senderVars, serverVars, receiverVars,
                   sessionVars, connClosed, sent, panicked, outClosed>>
------------------------------------------------------------------------------
(* The network. *)

LoseConnection ==
    /\ ~lost
    /\ lost' = TRUE
    /\ UNCHANGED <<vendor, inputVars, cancelled, senderVars, responded, receiverVars,
                   sessionVars, connClosed, outVars, outClosed>>
------------------------------------------------------------------------------
(* sendLoop. *)

CanWrite == ~connClosed /\ ~closeSent
WriteMayFail == connClosed \/ closeSent \/ lost

SenderFails ==
    /\ sender' = "failed"
    /\ UNCHANGED <<buffer, audio, lastSent>>

SendRequest ==
    /\ sender = "request"
    /\ \/ CanWrite /\ sender' = "loop" /\ UNCHANGED <<buffer, audio, lastSent>>
       \/ WriteMayFail /\ SenderFails
    /\ UNCHANGED input

\* xfyun has a packet for each chunk.
FillsPacket(pending) == vendor = "xfyun" \/ Len(pending) >= PacketChunks

\* Mutant: sends the buffer and keeps it.
FlushAndKeep(pending) == audio' = audio \o pending /\ buffer' = pending

Flush(pending) == audio' = audio \o pending /\ buffer' = <<>>

\* A chunk waits in the buffer until a packet is full.
TakeChunk ==
    /\ sender = "loop" /\ input # <<>>
    /\ input' = Tail(input)
    /\ LET pending == Append(buffer, Head(input))
       IN \/ /\ ~FillsPacket(pending)
             /\ buffer' = pending
             /\ UNCHANGED <<sender, audio, lastSent>>
          \/ /\ FillsPacket(pending)
             /\ CanWrite
             /\ Flush(pending)
             /\ UNCHANGED <<sender, lastSent>>
          \/ /\ FillsPacket(pending)
             /\ WriteMayFail
             /\ SenderFails

\* The input is closed and empty: the last packet has what is left.
SendLast ==
    /\ sender = "loop" /\ input = <<>> /\ inputEnd # "open"
    /\ \/ /\ CanWrite
          /\ Flush(buffer)
          /\ lastSent' = TRUE
          /\ sender' = "ok"
       \/ WriteMayFail /\ SenderFails
    /\ UNCHANGED input

SenderCancelled ==
    /\ sender = "loop" /\ cancelled
    /\ SenderFails
    /\ UNCHANGED input

Send ==
    /\ SendRequest \/ TakeChunk \/ SendLast \/ SenderCancelled
    /\ UNCHANGED <<vendor, chunks, inputEnd, cancelled, serverVars, receiverVars,
                   sessionVars, connClosed, outVars, outClosed>>
------------------------------------------------------------------------------
(* recvLoop. *)

CheckContext ==
    /\ receiver = "check"
    /\ receiver' = IF cancelled THEN "failed" ELSE "read"
    /\ UNCHANGED <<responded, event, outVars>>

\* What a response makes recvLoop do: where it goes, with which event.
After(kind) ==
    CASE kind \in Events -> "deliver"
      [] kind = "metadata" -> "check"
      [] kind = "lastEmpty" -> IF vendor = "volc" THEN "deliver" ELSE "ok"
      [] kind = "error" -> "failed"

EventFor(kind) == IF kind \in {"final", "lastEmpty"} THEN "final" ELSE "partial"

\* The server may send a response of any kind at any time, and what arrived
\* before the connection was closed may be read after that.
ReadResponse(kind) ==
    /\ receiver = "read" /\ responded < MaxResponses
    /\ responded' = responded + 1
    /\ receiver' = After(kind)
    /\ event' = EventFor(kind)
    /\ UNCHANGED outVars

ReadFails ==
    /\ receiver = "read"
    /\ connClosed \/ lost
    /\ receiver' = "failed"
    /\ UNCHANGED <<responded, event, outVars>>

\* Mutant: goes on reading after a final.
ReadOn == "check"

AfterDelivery == IF event = "final" THEN "ok" ELSE "check"

\* out <- event, which waits for room, and panics if out is closed.
Deliver ==
    /\ receiver = "deliver"
    /\ IF outClosed
       THEN panicked' = TRUE /\ UNCHANGED <<receiver, out, sent>>
       ELSE /\ Len(out) < OutCapacity
            /\ out' = Append(out, event)
            /\ sent' = Append(sent, event)
            /\ receiver' = AfterDelivery
            /\ UNCHANGED panicked
    /\ UNCHANGED <<responded, event>>

Receive ==
    /\ \/ CheckContext \/ ReadFails \/ Deliver
       \/ \E kind \in Responses : ReadResponse(kind)
    /\ UNCHANGED <<vendor, inputVars, cancelled, senderVars, lost, sessionVars,
                   connClosed, outClosed>>
------------------------------------------------------------------------------
(* runSession. *)

\* The close frame, at most once, and return.
Leave(why) ==
    /\ session' = "left"
    /\ reason' = why
    /\ closeSent' = TRUE
    /\ UNCHANGED finalWait

SeeCancel == cancelled /\ Leave("cancelled") /\ UNCHANGED sendSeen

\* Mutant: volc leaves when all is sent.
SeeSendLeaving ==
    /\ sender \in {"ok", "failed"} /\ ~sendSeen
    /\ sendSeen' = TRUE
    /\ Leave("receive")

\* The send loop has ended: volc writes the close frame and goes on waiting for
\* recvLoop; xfyun gives the final response five seconds, or gives up.
SeeSend ==
    /\ sender \in {"ok", "failed"} /\ ~sendSeen
    /\ sendSeen' = TRUE
    /\ \/ /\ vendor = "volc"
          /\ closeSent' = TRUE
          /\ UNCHANGED <<session, reason, finalWait>>
       \/ /\ vendor = "xfyun" /\ sender = "ok"
          /\ finalWait' = TRUE
          /\ UNCHANGED <<session, reason, closeSent>>
       \/ vendor = "xfyun" /\ sender = "failed" /\ Leave("send")

SeeReceive ==
    /\ receiver \in {"ok", "failed"}
    /\ Leave("receive")
    /\ UNCHANGED sendSeen

\* Mutant: never gives up.
FinalNever == FALSE /\ UNCHANGED <<session, reason, closeSent, finalWait, sendSeen>>

FinalTimeout == finalWait /\ Leave("timeout") /\ UNCHANGED sendSeen

Select ==
    /\ session = "select"
    /\ SeeCancel \/ SeeSend \/ SeeReceive \/ FinalTimeout
    /\ UNCHANGED <<vendor, inputVars, cancelled, senderVars, serverVars, receiverVars,
                   connClosed, outVars, outClosed>>

\* The deferred calls: conn.Close, then close(out).
CloseConn ==
    /\ session = "left"
    /\ session' = "closed"
    /\ connClosed' = TRUE
    /\ UNCHANGED <<vendor, inputVars, cancelled, senderVars, serverVars, receiverVars,
                   reason, sendSeen, finalWait, closeSent, outVars, outClosed>>

CloseOut ==
    /\ session = "closed"
    /\ session' = "ended"
    /\ outClosed' = TRUE
    /\ UNCHANGED <<vendor, inputVars, cancelled, senderVars, serverVars, receiverVars,
                   reason, sendSeen, finalWait, closeSent, connClosed, outVars>>

RunSession == Select \/ CloseConn \/ CloseOut
------------------------------------------------------------------------------
Environment ==
    \/ PutChunk \/ \E how \in {"utterance", "close"} : CloseInput(how)
    \/ LoseConnection

Next ==
    /\ ~panicked
    /\ Environment \/ Cancel \/ ReadEvent \/ Send \/ Receive \/ RunSession

Spec == Init /\ [][Next]_vars

\* A write has no deadline: it waits for the server to read, until conn.Close.
\* By itself sendLoop sees the context, fails on a connection that is closed,
\* and takes the chunks that its buffer has room for.
SendAlone ==
    /\ Send
    /\ \/ sender' = "failed" /\ (cancelled \/ ~CanWrite)
       \/ sender' = sender /\ audio' = audio

\* A read waits for the server too.
ReceiveAlone == Receive /\ responded' = responded

\* The goroutines run, asrRuntime.Close cancels once it has closed the input,
\* forwardEvents reads to the end and cancels, a timer fires.  Nothing makes the
\* server read, answer or close, the user stop, or the connection break.
FairSpec ==
    /\ Spec
    /\ WF_vars(Next /\ Cancel) /\ WF_vars(Next /\ ReadEvent)
    /\ WF_vars(Next /\ SendAlone) /\ WF_vars(Next /\ ReceiveAlone)
    /\ WF_vars(Next /\ RunSession)

\* The server reads what it is sent.
ServerReads == WF_vars(Next /\ Send)
------------------------------------------------------------------------------
(* Properties. *)

\* Every chunk put on the input goes to the server once and in order, over the
\* channel, volc's buffer and the packets, as long as no write fails; the last
\* packet comes when all of it has.
AudioArrivesOnce ==
    /\ sender # "failed" => audio \o buffer \o input = [i \in 1 .. chunks |-> i]
    /\ lastSent => audio = [i \in 1 .. chunks |-> i]

Stream == INSTANCE AsrStream WITH events <- sent, ended <- outClosed

\* The session implements what the adapter's interface promises.
AsrStreamSpec == Stream!Spec

\* Only a session that was given up can bring the process down: by Close, and
\* with xfyun by a failed write or when the final response is late.
OnlyAbandonedSessionsPanic ==
    panicked => reason = "cancelled" \/ (vendor = "xfyun" /\ reason \in {"send", "timeout"})

Returned == session = "ended" /\ sender \in {"ok", "failed"} /\ receiver \in {"ok", "failed"}

\* A session ends with all its goroutines, whatever the server does from then on,
\* once Close was called, the connection broke, recvLoop has returned, or xfyun's
\* last frame was written or a write of it failed: the context, the timer and
\* conn.Close reach each goroutine.  After the end of an utterance nobody can
\* cancel the session any more, and until then nothing of this may have happened:
\* xfyun's ends if the server reads the audio, which its writes wait for without
\* a deadline and before the timer runs; volc's, which has no timer, when the
\* server ends it, and maybe never.
AbandonedSessionEnds ==
    /\ (\/ inputEnd = "close" \/ lost \/ receiver \in {"ok", "failed"}
        \/ vendor = "xfyun" /\ sender \in {"ok", "failed"})
           ~> (Returned \/ panicked)
    /\ ServerReads => ((vendor = "xfyun" /\ inputEnd = "utterance") ~> (Returned \/ panicked))

==============================================================================

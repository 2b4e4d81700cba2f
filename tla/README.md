# TLA+ models of the WebRTC voice agent

This directory holds TLA+ models of the bot and of the signaling server of this
repository, the TLC configurations that check them on small instances, and
proofs of the most important results for instances of any size.

Everything is translated from the Go source. Where a document under `docs/`
and the code disagree, the model follows the code and the disagreement is listed
under *Findings*.

## The system and its parts

A browser opens a session at the **signaling server**, which registers it with the
**bot** and then relays WebRTC negotiation between the two over websockets. The
user's audio reaches the bot on a WebRTC track, goes through endpointing to a
streaming ASR, the final transcript goes to an LLM, whose answer is synthesized
segment by segment and paced back on a downlink track. A DataChannel carries
control events both ways. Everything that belongs to one user utterance and its
answer is a *turn*.

| Component | State | Operations | Interacts through | Modelled in |
|---|---|---|---|---|
| Session task (`internal/session/task.go`) | state, turn number | BeginNegotiation, MarkActive, StartTurn, EnsureTurn, StartResponse, CompleteTurn, Interrupt, End | called by every other part, each method under the task's mutex | `SessionTask`, abstractly `TurnLifecycle` |
| Session manager (`internal/session/manager.go`) | id → task | Create, Get, End | task | `TurnRuntime` (one session) |
| Reply runtime (`bot/response_runtime.go`, `turn_directives.go`) | cancel handle and its turn; one goroutine per reply | HandleASREvent, StartAssistantTurn, run, Interrupt, clear | task, downlink, rtcManager | `TurnRuntime` |
| ASR runtime (`bot/asr_runtime.go`) | current input; one forwarding goroutine per stream | HandleSpeechStart, consumeFrame, HandleEndOfUtterance, forwardEvents, Close | task, reply runtime | `TurnRuntime` (turns, replies), `SpeechInput` (inputs, chunks, transcripts) |
| Control runtime (`bot/control_runtime.go`) | channel, pending events | OnOpen, hints, handleVADStart, Emit | task, rtcManager, reply runtime | `ControlChannel` (channels, order of events), `TurnRuntime` (effect on turns) |
| RTC manager (`bot/rtc_manager.go`) | session id → peer connection, runtimes, greeting flag, ending flag | HandleOffer, HandleICECandidate, OnTrack, ScheduleEnd, Close | all of the above; its mutex is held across Flush | `TurnRuntime`, `SpeechInput` (OnTrack), `Negotiation` (offer, candidates, entries) |
| Bot server (`bot/server.go`) | the websocket to the signaling server | HTTP handlers, attachToSignal | rtcManager, task, hotel store | `Negotiation` (websocket loop), `TurnRuntime`, `Booking` |
| Web client (`apps/web/…/voice-session.ts`) | peer connection, socket, queued candidates | connect, answer, candidates, end | signaling server | `Negotiation` |
| Downlink audio (`bot/downlink_audio.go`) | queue, pending count, idle channel | WritePCM16K, WaitIdle, Flush, Close, pacing goroutine | written by replies, flushed by interrupts | `DownlinkAudio` |
| Endpointer (`bot/endpointing.go`) | speech flag, silence timer | frames, timer | starts the speech goroutines | `SpeechInput` |
| Signaling hub and server (`app/signal/hub.go`, `server.go`) | peers and pending messages per role; a read and a write goroutine per connection | attach, relay, detach, readLoop, writeLoop | websockets | `SignalHub` |
| Hotel store, tool loop (`hotel/store.go`, `bot/hotel_tools.go`, `adapters/openaicompat/llm.go`) | rooms, reservations; the round of a tool loop | reserve, list; rounds of tool calls, finalizer | LLM requests of a reply, HTTP | `Booking`, abstractly `RoomLedger` |
| ASR adapters (`adapters/volc`, `adapters/xfyun`) | websocket session; a session, a send and a receive goroutine | audio in, events out | ASR runtime | `AsrSession`, abstractly `AsrStream` |
| TTS adapters (same directories) | one request with a streamed answer | text in, chunks out | reply runtime | not modelled |
| Audio streams (`audio/`) | subscribers | publish, subscribe | endpointer, ASR runtime | `SpeechInput` (the PCM stream) |
| Protocols, configuration, logging, metrics, mock providers, commands | — | — | — | not modelled |

### What is hard here

* **Nobody holds a lock for a whole operation.** The task's methods are atomic,
  but a handler is a sequence of them: `handleVADStart` takes a snapshot,
  interrupts, cancels the reply, flushes, ensures a turn; then
  `HandleSpeechStart` takes its own snapshot. Replies, HTTP calls, hints and
  further speech run in between.
* **Goroutines that were cancelled go on for a while.** A reply sees its
  cancelled context at three places only, and goes on writing the audio its TTS
  stream still delivers.
* **Several results for one turn.** `EnsureTurn` puts several stretches of
  speech on one turn, so that several finals compete to answer it.
* **Handles filed under a turn id**, which two replies can share.
* **Every way to end a session at once**: DELETE, `session.close`, end_call and its
  grace period, a lost connection, the end of the track.
* **The downlink** counts frames across writers, a pacing goroutine, flushes in the
  middle of a frame and refused writes, and replaces the channel on which waiters wait.
* **Control channels come and go** while replies and the greeting emit events: a
  channel is registered before what waited for it is sent, and the callbacks of an old
  channel run beside those of its successor.
* **Candidates overtake** the offer, come while either side awaits the peer connection,
  and HandleOffer holds an entry without the mutex while Close may remove it.
* **The hub** closes a channel that other goroutines send on, replays a queue while
  it relays, and lets a goroutine wait for room in its own peer's queue.
* **Start and end of speech are told by different goroutines**: a start runs in one of
  its own, an end in that of a timer that may have fired too late to be stopped, and a
  final transcript takes whatever input is open then.
* **An ASR session has three goroutines and one channel**, which the first to leave
  closes, and its server may never answer.
* **The LLM decides what is booked**, in replies that overlap, with tool calls that fail,
  and then speaks about it.

`PROJECT.json` lists each hazard with its line and the property that covers it.

### What makes each component correct

* Task: turns begin in order, one at a time, and each is settled once and for good.
* Replies: at most one answers a turn; the cancel handle always cancels a live
  reply; every reply returns.
* Speech: a barge-in is transcribed for a later turn than the one it interrupted;
  user audio goes to a stream that somebody reads.
* Session: one greeting; a call that the bot decided to end does end.
* Downlink: the pending count is exact, nobody waits for ever, a flush silences.
* Control channel: an event is sent once or accounted for; only what waited for a
  channel is overtaken; events go to the open channel.
* Negotiation: each candidate is applied once on either side, the negotiation completes,
  and a departure closes the peer connection.
* Hub: one peer per role, no send on a closed channel, no message twice or
  silently gone, in order except around a replay.
* Speech input: an input that is opened is closed again, speech that begins is
  transcribed unless a listed reason prevents it, one final per stream.
* ASR sessions: the audio arrives once and in order, at most one final and nothing
  after it, a session that is given up ends. What becomes of a turn whose stream brings no
  text is not specified anywhere, and no property speaks of it.
* Booking: rooms are never sold twice nor lost, a booking is confirmed only when it was
  made, and made only when the user asked for one. A second booking by a later reply, and one
  that is made by a cancelled reply and never told, are possible and no property excludes them.

## The modules

### `TurnBound`, `TurnLifecycle` and `SessionTask`

`TurnBound` declares the bound on turns, `MaxTurn`, which the others share.

`TurnLifecycle` is what a session promises about turns, with no task, mutex or
goroutine: a status per turn. `SessionTask` is `task.go`: one action per method,
enabled exactly when the method returns no error, since a method that fails
changes nothing. `outcome` is a history variable: how each turn was settled. `Next`
lets anyone call any method with any turn id, which includes every stale id a
late goroutine could hold. `TurnLifecycleSpec` is the refinement, read off the
task by `StatusOf`. `updatedAt`, `Expired` and the state `closing`, which no other
goroutine can observe, are left out.

### `TurnRuntime`

One session of the bot. It instantiates `SessionTask` for the task's actions and
adds every goroutine that uses it:

| Actor | Actions | Code |
|---|---|---|
| session creation, channel, track | `CreateSession` `ChannelOpen` `ControlReady` `TrackStart` `TrackEnds` | `server.go`, `control_runtime.go` bind, `rtc_manager.go` OnTrack |
| greeting | `MaybeStartOpeningTurn` `OpeningTurn` `OpeningInstall` | `rtc_manager.go`, StartAssistantTurn |
| a stretch of speech `u` | `SpeechStart` `VADSnapshot` `VADInterrupt` `VADCancel` `VADFlush` `VADEnsureTurn` `ASRSnapshot` `ASRStart` | onSpeechStart, handleVADStart, HandleSpeechStart |
| its ASR stream | `ASRFinal` `ASREmptyFinal` `ASRStreamEnds` `FinalFlush` `InstallRun` `ASRRelease` | forwardEvents, HandleASREvent |
| a reply `r` | `RunStart` … `RunClear`, `RunSpeak`, `RunEndCall` | response_runtime.go run, synthesizeSegment |
| hint and HTTP handlers | `Hint…` `HTTP…` | control_runtime.go, server.go |
| ends | `HTTPEnd` `CloseThenEnd` `FinishEnd` `FinishClose` `ConnectionLost` | server.go, rtc_manager.go |

A step is what a goroutine does between two points where another can change what
it uses next: one mutex section or one call that blocks. The position of each
goroutine is a string in `speech[u]`, `run[r]`, `hint`, `http`, `opener`; locals that
outlive a step are variables (`heard`, `turnOf`, `hintTurn`). The downlink is reduced
to the set of replies that have audio in it; what a flush and a wait really do is
`DownlinkAudio`'s subject. `RtcFree` is the rtcManager's mutex, which
`interruptResponse` holds while Flush blocks.

Abstractions: transcripts, text and audio carry no content, so whether a partial is
promoted to a final, whether a farewell is recognized, and how a provider ends, are
choices. Events sent to the client are `ControlChannel`'s subject, offer and candidates `Negotiation`'s. A track that begins just
after `rtcManager.Close` removed its entry, whose runtimes go into an entry nobody
closes, is left out; so is the second bot session under the same id. `Get` and
`MarkActive` in OnOpen are one step.

### `DownlinkAudio`

`downlinkAudioWriter` in full: writers, waiters, flushes, Close, and the goroutine
that takes frames, paces them, accepts flushes between frames or in the middle of
one, and drains. A frame is the number of its `markQueued`; an idle channel is the
number of its generation; `closed` holds those that are closed. `before[f]` is
history: the frames that sounded when flush `f` was called.

### `ControlChannel`

The control runtime's channels and pending events. OnOpen is four steps, between which
other goroutines run: register the channel and take the pending events, in one section;
send `session.ready`; send the events taken; call `onReady`, which triggers the greeting.
`Emit` is two: decide where the event goes under the mutex, then send it. The emitters are
goroutines, a reply and the greeting, whose events are numbered; the hint handler
answers on the channel that its message came on. An OnOpen that finds the session gone
sends an error and registers nothing (`Refuse`). A sender that uses a closed channel
loses its event (`lost`); what the pending queue had to drop is in `evicted`; both, and
`taken`, `closedFirst` and `last`, are history. A channel opens and closes when the client
or the network wants, and pion runs OnOpen and OnClose in goroutines of their own, so
that OnClose may come first. What MarkActive does to the task is in `TurnRuntime`.

### `Negotiation`

Browser, wires, the bot's websocket loop, `rtcManager`'s entry, its peer connections.

| Actor | Actions | Code |
|---|---|---|
| browser | `SocketOpens` `SendOffer` `SendCandidate` `ReceiveAnswer` `AnswerSet` `FlushRemote` `ReceiveCandidate` `Leave` | `voice-session.ts` connect, handleSignalMessage, end, close |
| websocket loop | `Read` `HandleOffer` … `Reply` `OfferFails` `HandleICECandidate` `ICECandidateFails` `HandleClose` `LoopEnds` | attachToSignal, HandleOffer, HandleICECandidate |
| callbacks | `OnICECandidate` `MarkControlReady` `StateChange` | newPeerConnection, markControlReady |
| ends | `CloseByRequest` `ConnectionFails` | rtcManager.Close, the network |

A step of the browser is what runs between two awaits; of the bot, one section of the
mutex or one call of the peer connection. What SignalHub says of the wires is assumed:
messages to the bot may overtake each other, since the hub replays while it relays; the
client is attached before it sends its offer, so those to it come in order. Messages
that full queues or broken sockets lose are left to `SignalHub`. Every entry of the
table has a number, because `HandleOffer` goes on with the entry it found after Close has
removed that. `orphans` is history: entries removed while their peer connection was
being made. Nobody closes that connection until ICE fails, and then OnConnectionStateChange
closes what is in the table, which is not it; `PeerConnectionOwned` says that this is the
only way in which one leaves the table without being closed.

Every call of a peer connection can fail. On one that is closed it does; one that is open
may refuse the offer, a candidate that waited, or the answer (`OfferFails`), or a candidate
that comes later (`ICECandidateFails`). HandleOffer undoes nothing then: what is left of the
batch is dropped, the peer connection stays in the table without an answer, its ICE does not
begin and so cannot fail. `refused` and `stranded`, history too, are the candidates and the
entries to which this has happened; `CandidateOnce`, `NegotiationCompletes` and
`DepartureReleases` name them. The browser's peer connection is assumed to accept what it is
given. The errors that the loop sends to the client are only shown to the user and left out.

### `SpeechInput`

From the user's track to transcripts: the PCM frame stream with its two subscriptions,
`packetEndpointer`, and `asrRuntime`.

| Actor | Actions | Code |
|---|---|---|
| decoder and consumers | `Publish` `ObserveFrame` `ConsumeFrame` `Detach` | `pcm_stream.go`, ObserveFrame, consumeFrame |
| silence timer | `TimerFires` `SilenceTimeout` `EndOfUtterance` | `endpointing.go`, onEndOfUtterance |
| start of speech | `LookUpRuntime` `SpeechStart` | onSpeechStart, HandleSpeechStart |
| a stream's forwarder | `ForwardEvent` `EndInput` `CloseInput` `EventsEnd` `Release` | forwardEvents |
| end of the audio | `TrackEnds` `CloseNext` `RtcClose` | OnTrack's deferred calls, rtcManager.Close |

Goroutines of one kind are alike, so they are counted (`starters`, `starting`, `timeouts`,
`enders`). `taken` are streams whose input was taken under the mutex and whose channel is
closed after it. Two variables are history: `late` are streams opened when nothing was
left that would end them; `excused` says that the stretch of speech that goes on may
have no stream, because its start was ignored (the session is ending) or refused (no
turn, a failed dial, the input of an earlier stretch still open), because a final or the
provider ended its stream, or because the end of the utterance before it came late. Both
exempt outcomes nobody wants, a stream left open and speech that is cut or not transcribed,
so `OpenInputWillEnd` and `SpeechIsHeard` bound these hazards rather than exclude them.
That a frame is dropped after 10 ms is a choice; `handleVADStart` and the lookups are
delays. `rtcManager.Close` is one step.

### `AsrStream` and `AsrSession`

`AsrStream` is what `ASRAdapter.Transcribe` promises to the reader of its channel:
partials, at most one final, nothing after it, one close. `AsrSession` is the session of
both providers, chosen by `vendor`: `runSession` with its `sendLoop` and `recvLoop`, the
channel of audio before it and the channel of events behind it. Transcripts are
partial or final; what else a server sends is an acknowledgement, an error, or a last
response without text. The network may break at any time, and a write on a broken
connection may still succeed. The volc loop collects chunks into packets
(`PacketChunks`); xfyun sends a packet for each. `panicked` stands for a send on a closed
channel, after which nothing happens any more. After the end of an utterance xfyun waits
five seconds for the final response. Volc writes the close frame right after its
last packet and has no timer, and `HandleEndOfUtterance` has cleared the cancel function,
so that session ends when the server ends it. Writes have no deadline: an xfyun server that
stops reading keeps `sendLoop` in a write, before the timer is armed, and after the end of
the utterance nobody can cancel that session either.

### `RoomLedger` and `Booking`

`RoomLedger` is what a hotel promises: of each type at most the rooms it has are sold,
for good. `Booking` is `store.go`, the tools with their predicates, `completeWithTools`,
and the part of a reply's `run` that remembers the exchange and decides to end the call.
A reply is `<<call, n>>`; hearing the next final cancels the replies before it, in the
same step. A cancelled reply notices at its next request to the LLM; tools that it still
has to run are run. Texts are sets of the marks the code looks for: in transcripts words
of booking (`intent`), guest details and a phone number, in answers that a booking is
confirmed, a confirmation number, a farewell. What users say and what the LLM answers
are constants; it may call any tool with any arguments, good or bad.

Abstractions: `list_room_types` is offered to every transcript, which includes those
that `hotelQueryNeedsInventory` would not offer it to; the two reasons to end a call
without a booking are one, `farewell`; validation of names and phone numbers is a kind
of arguments. The streaming completion of `llm.go` is not reached, since `end_call` is
always offered. `hotel_inventory_llm.go` wraps the mock provider and is left out, as are
`hotelQueryNeedsEndCall` and `historyHasConfirmedReservation`, which nothing calls.

### `SignalHub`

One session of the signaling server with any number of connections of either role.
`handler[c]` is where the goroutine that serves `c` is (attach, `session.attached`,
replay, readLoop, an error reply), `writer[c]` where its writeLoop is, `send[c]` the
buffered channel between them. Sends to it block when it is full, except relay's,
which gives up. A message is its sender's sequence number. `replayed`,
`delivered`, `refused` and `lost` are history. `send` includes the message that a `Write`
waiting for the other end holds. What a write loop leaves in its channel when it ends counts
as in place for `EachMessageOnce`, although nobody will write it. A malformed message that ends
readLoop is treated like a broken socket. The HTTP handlers that create a session are
left out: the session exists from the start and the hub never removes it.

## What the runs check

All runs are exhaustive for their bounds. Every invariant and every refinement below is
also proved for all instances (see *What is proved*); the liveness properties are
model-checked only. The type invariants of `SessionTask`, `TurnRuntime`, `DownlinkAudio`,
`SignalHub`, `SpeechInput`, `AsrSession` and `Booking`, and `SettledUnlessCurrent` and
`OnePeerPerRole`, are proved and in no run, which are kept for what is hardest to see. `SessionTask` has no run of its
own: `TurnRuntimeChannel` checks that the task implements `TurnLifecycle` when the
goroutines of a session call it.

| Run | Bounds | Properties |
|---|---|---|
| `TurnRuntimeSpeech` | 2 stretches of speech (symmetric), no control channel and so no greeting, 1 HTTP call, end_call, end of the track; 4.0 M states | `OneReplyPerTurn`, `BargeInGetsLaterTurn`, `HandleIsLive`, `InputIsLive` |
| `TurnRuntimeChannel` | 1 stretch of speech, greeting, 1 hint or HTTP call, late candidate, lost connection; 2.9 M states | refinement `TurnLifecycleSpec` |
| `TurnRuntimeEnding` | 1 stretch of speech, greeting, end_call, session.close, lost connection; fair; 0.4 M states | `GreetingOnce`, `RepliesReturn`, `EndingClosesSession` |
| `DownlinkAudio` | 2 writers, 1 waiter, 2 flushes, 2 places, 3 frames; fair | `PendingCountsFrames`, `NoWaiterStranded`, `FlushSilences`, `CallsReturn` |
| `signal_hub` | 1 client, 2 bot connections, 1 place, 2 + 1 messages; fair; 0.36 M states | `NeverSendsOnClosed`, `EachMessageOnce`, `OnlyReplayIsOvertaken`, `QueuedIsDelivered`, `BrokenConnectionLeaves` |
| `control_channel` | a reply, the greeting and the hint handler with 2 + 1 + 1 events, 2 channels, pending queue of 2; 2.8 M states | `TypeOK`, `EventOnce`, `OnlyFlushIsOvertaken`, `OpenChannelIsUsed`, `GreetingFollowsReady` |
| `negotiation` | 2 candidates of the browser, 2 of the bot, 3 entries; fair; 0.19 M states | `TypeOK`, `CandidateOnce`, `PeerConnectionOwned`, `NegotiationCompletes`, `DepartureReleases` |
| `speech_input` | 4 frames, 2 streams, 1 place per subscription, a partial is stable when it came twice; 6.4 M states | `OneFinalPerStream`, `ChunksNumbered`, `OpenInputWillEnd`, `SpeechIsHeard` |
| `asr_session` | both providers, 3 chunks, 2 to a packet, 3 responses, 1 place per channel; fair; 0.12 M states | `AudioArrivesOnce`, `OnlyAbandonedSessionsPanic`, `AbandonedSessionEnds`, refinement `AsrStreamSpec` |
| `booking` | 1 call with 2 replies of 2 requests, 1 room, 1 HTTP booking, 5 messages of tool calls; 2.5 M states | `RoomsConserved`, `ConfirmationIsBacked`, `NoBookingWithoutRequest`, `UnbackedEndingNamesNumber`, refinement `LedgerSpec` |
| `BargeInOnOldTurn`, `EndingAfterInterrupt` | 2 stretches of speech | the two findings below |

### Why the bounds are enough

* Task: in `TurnRuntimeChannel` a turn, the one settled before it and one after; the
  task compares turn ids for equality with the current one only.
* `TurnRuntime`: two stretches of speech let one be answered and one barge in, let both
  share a turn, and with the HTTP call let a final arrive for a turn that is not the last.
  The greeting needs the control channel, which is in the two runs with one stretch of
  speech; that it overwrites the cancel handle (`HandleIsLive`) is covered by the proof. Each event (`Events`) that can happen is named in the cfg;
  splitting them over three runs keeps each complete. `MaxTurn` is what they can
  use up at most (`TurnsSuffice`), so it never stops the model.
* Downlink: two places and three frames let one play while two are queued, with
  a third writer blocked; two flushes overlap in every order.
* Hub: `session.attached` fills a channel of one place and two messages overflow the
  pending queue, so the replay, the relay and the error replies all find it full; the
  second bot connects while the first is there, and after it.
* Control channel: the second channel replaces the first at any step of its OnOpen and
  OnClose; two events of one goroutine show an overtaking, and with the others they
  overflow a queue of two.
* Negotiation: two candidates let one come before the offer and one during or after it, on
  either side; entries are the offer's, one made by what comes after a close, and one to spare.
* Speech input: speech, silence, speech and silence make two utterances whose timers,
  starts and ends can be told in any order; with one place per subscription every
  frame may be the one that is not delivered; two streams let a final take the other's input.
* ASR session: three chunks fill one packet and leave one over; three responses are a
  partial, a final, and one more. Channels of one place fill at once.
* Booking: two replies overlap, the second hears the history of the first, and three
  parties want the one room. Two requests are enough for tool calls and an answer
  after them. The theorems cover more rooms, calls and rounds.

### Fairness

* `TurnRuntime`: every goroutine that can run does (replies, speech, handlers, the
  goroutine of ScheduleEnd, the end of a close); LLM calls and TTS streams that a reply
  began end. That is an assumption about servers: an LLM call ends with its context, but
  the iFlytek TTS (`xfyun/tts.go:107`) looks at its context only between two reads, and a
  reply that is cancelled before a silent server returns when that answers or closes; the downlink plays. Nothing is owed by users, clients and networks:
  speech, hints, HTTP calls, `session.close` and losses need not happen.
  `EndOfUtterance` and the end of an ASR stream are not fair, since no property needs it.
* `DownlinkAudio`: the pacing goroutine runs and its timers fire; writers, waiters,
  flushes and Close go on when they can. A Go `select` with two ready cases may
  take either, so no fairness between the cases is assumed.
* `AsrSession`: the goroutines of a session run, writes and reads return when the connection is
  closed, xfyun's timer fires, `asrRuntime.Close` cancels once it has closed the input, and
  `forwardEvents` reads to the end. Nothing makes a server read (`SendAlone`), answer
  (`ReceiveAlone`) or close, or a user stop. Only the half of `AbandonedSessionEnds` about
  the end of an utterance at xfyun assumes that the server reads (`ServerReads`), for
  `WriteJSON` (`xfyun/asr.go:167`, `177`) has no deadline; without it TLC finds the session
  that stays in a write.
* `Negotiation`: the browser's awaits return and it reads what it was sent, the bot's
  loop reads every message in the end, callbacks of peer connections run, and ICE gives up
  when the other side is gone or never had an answer. Nobody has to leave, and no
  candidate has to be gathered. `ControlChannel` has no liveness property.
* `SignalHub`: handler and writer goroutines run, but a write on a whole socket waits for the
  other end to read (`WriteAlone`), for `server.go:263` sets no deadline. `QueuedIsDelivered`
  has as hypothesis that the other end of the connection in question goes on reading
  (`GoesOnReading`), of no other; without it TLC finds the writer that waits for good, and
  with it the replay or an error reply. Sockets need not break or hold, which is why
  `BrokenConnectionLeaves` has an exception: a connection whose writer has stopped
  on a broken socket, with its channel full, keeps its role.

## Findings

* **Speech on the turn it interrupts** (`BargeInOnOldTurn`).
  `docs/vad-endpointing.md:105` forbids to go on putting speech that barges in on the
  old turn. When the reply completes between handleVADStart's snapshot and its
  Interrupt, Interrupt fails, handleVADStart returns without ensuring a turn, and
  HandleSpeechStart takes the completed turn's id.
* **The call ends although its turn was interrupted** (`EndingAfterInterrupt`).
  `docs/session-state-machine.md:101` says that the wish to end the call lapses with the
  turn. After its last look at its context, `run` ignores that CompleteTurn fails
  and schedules the end.

### Deviations that passing properties delimit

In these the code does other than a document says, or loses something. The property named
passes because it makes an exception of exactly this, and says that nothing else happens.

* **A call can end as booked without a booking.** `docs/session-state-machine.md:93` says
  "主动挂断采用显式 tool 控制，不依赖服务端对文案做关键词猜测" (ending the call is controlled by an
  explicit tool and not by guessing from words), `docs/architecture.md:129` "将结束通话从关键词猜测升级为显式控制意图"
  (an explicit intent in place of the guess), and `docs/hotel-booking-demo.md:77` "AI 仅在接口返回
  `confirmed` 后，才能告知预订成功" (success is told only after the interface returned `confirmed`).
  `shouldScheduleEndCall` (`response_runtime.go:441`) also looks at the words: with the reason
  `reservation_confirmed` it ends the call when the text says that a booking is made, which the
  finalizer checks against the last tool result, or when it contains "确认号", which nothing checks.
  So a reply that booked nothing and speaks of a confirmation number ends the call as booked.
  `UnbackedEndingNamesNumber` says that no other reply without a booking does.
* **An interrupted reply is still heard.** `docs/vad-endpointing.md:52` and
  `docs/architecture.md:104` have an interrupt cancel the TTS first, `docs/provider-adapters.md:68`
  wants a stream stopped then. A cancelled reply goes on writing the chunks that its TTS stream
  still delivers, after the downlink was flushed (`response_runtime.go:336`). `FlushSilences` is
  about what sounded before the flush, `RepliesReturn` says that the next reply returns all
  the same; that the old audio sounds in between is allowed.
* **An ASR session can end without saying why, and abandoning one can panic.**
  `docs/provider-adapters.md:65` wants a provider's timeout, cancellation and errors returned
  explicitly. The channel of events has no place for them: `recvLoop` returns its error to
  `runSession`, which logs it, and a timeout is logged too, so that the reader sees a closed
  channel. `AsrStreamSpec` allows a stream to end so at any point. As for cancellation, `runSession` of both adapters closes the channel of
  events when it returns, while `recvLoop`, a goroutine of its own, may have read a response
  and be about to send it. `OnlyAbandonedSessionsPanic` says in which sessions this can
  happen: not in one that ends by its server's last response or by a failed read.
* **The end may be announced before the last turn has completed.**
  `docs/datachannel-protocol.md:57` says that `session.ending` comes after the bot's last
  `turn.completed`. OnOpen registers a channel before it sends what waited for it: a reply
  whose `turn.completed` waits emits `session.ending` in between, which is sent at once.
  `OnlyFlushIsOvertaken` says that events come out of order in no other way.
* **A peer connection may be orphaned, or stranded by a failed offer.** Close removes an entry
  while HandleOffer, without the mutex, makes its peer connection. Or the peer connection
  refuses the offer, a candidate or the answer, and stays in the table with ICE not begun:
  a client that leaves without `session.close` leaves it there. No document speaks of either.
  `PeerConnectionOwned` and `DepartureReleases` say that none is lost in another way.
* **A connected end that stops reading keeps its role** and blocks its goroutines in the hub,
  and an ASR server that does so keeps its session (see *Fairness*). No document asks for a deadline.

## What is proved

TLAPS checks, for all values of the constants that satisfy the named assumptions:

* `DownlinkAudioProofs`: `DownlinkTypeOK`, `DownlinkPending`,
  `DownlinkNoWaiterStranded`, `DownlinkFlushSilences`. Assumptions: finitely many
  writers, at least one place in the queue. `PendingCountsFrames` alone is not
  inductive: it needs that the pacing goroutine holds a frame only while pacing and
  counts drained frames only while flushing (`Stages`), and that the idle channel is
  closed exactly when nothing is pending (`IdleChannel`). `FlushSilences` needs a
  second invariant: what a writer still holds is newer than every flush under way
  (`Handover`); the flush that the pacing goroutine serves is the one that waits, and
  once the queue is empty nothing that sounded before it still sounds (`Served`).
  `DownlinkNobodyWaitsInVain` is what `CallsReturn` has of safety: the runner stops only
  for Close, an accepted flush is the one being served, and while WaitIdle waits on an open
  channel some frame is in a writer's hands, queued, or with the runner. It follows from
  the two invariants and the exact count.
* `TurnRuntimeProofs`: the task, and every safety property that the `TurnRuntime` runs
  check. Assumptions: finitely many stretches of speech, `MaxCalls` a number, `MaxTurn`
  large enough never to stop the model, and that `Opening` and `NoRun` are neither speech nor
  each other. The task alone needs only that `MaxTurn` is a natural number.
  - `TaskTypeOK`, `TaskSettled`, and `TaskRefinesLifecycle`, that the task implements
    `TurnLifecycle`. The invariant `TaskInv` is the type invariant and
    `SettledUnlessCurrent`, with `turn` one of the turns while one is in progress and none
    before the session is active; `SettleStep` shows once, for CompleteTurn, Interrupt and
    MarkActive, that settling the current turn is one abstract Settle.
  - `RuntimeTaskSettled` and `RuntimeTurnLifecycle`: each step of a session's goroutines is
    one call of the task's methods or none (`TaskStep`), so what holds of the task, and its
    refinement of the lifecycle, hold of the composed system.
  - `RuntimeTypeOK` needs `Triggers`: the channel triggers the greeting once, the track once.
  - Frame lemmas (`RunFrame`, `TurnOfFrame`, `SpeechFrame`, `GreetingFrame`, `HandleFrame`,
    `InputFrame`) say who changes what; the other proofs use only them and the few
    actions they name.
  - `RuntimeOneReplyPerTurn`: `ReplyInv` adds that a turn being answered is not in
    `processing`, and that no reply has a turn that has not begun; `BeginInv` that a
    reply's turn is fixed before the reply begins. Since the only way back to
    `processing` is a new turn, StartResponse admits at most one reply to a turn.
    `BeginInv` gives `RuntimeGreetingOnce` too.
  - `RuntimeBargeInGetsLaterTurn`: `BargeInv` says that the interrupted turn is never in
    progress again, so a turn that EnsureTurn finds or begins afterwards is later.
  - `RuntimeHandleIsLive`: `CancelInv` adds that only replies under way are cancelled.
  - `RuntimeInputIsLive` is inductive as it stands.
* `SignalHubProofs`: `HubOnePeerPerRole`, `HubNeverSendsOnClosed` and `HubTypeOK`. `detach`
  goes by role, so it closes the right channel only because a role's entry is the
  connection that is being served. `HubInv` adds to this that entries are of their
  own role, and that the connection of a closed channel is done. `HubTypeOK` is proved
  part by part, by lemmas about the queues and their lengths. Assumptions: no
  connection has both roles, `NoConn` is none, the capacity is at least one.
  - `HubEachMessageOnce`: the property counts the places of a message; the invariant
    `Delivery` says instead that it is in one of the queues on its way (`OnePlace`), once,
    exactly while it is under way or delivered, that what was refused or lost had been sent,
    and that a connection that has not connected has empty queues. Three lemmas about
    queues (`HeadMoves`, `HeadLeaves`, `Enters`) carry every step: a message moves from
    the head of one queue to the end of the next, leaves, or enters.
  - `HubOnlyReplayIsOvertaken`: what attach replays to a connection was all sent before
    anything that relay gives to it, and each of the two comes in order (`InOrder`). Hence
    if a later message is seen before an earlier one, the earlier is of the replay and the
    later is not. `Ordered` says this together with the order of the pending queues; a
    message that relay adds has a number above all that were sent.
  - `HubBlockedIsBroken`: the goroutine that serves a connection waits for room in a channel
    that its write loop makes. While it is served the write loop runs, unless the socket is
    broken, so `BrokenConnectionLeaves` has its exception only there. On a whole socket the
    wait may still last, as long as the other end does not read.
* `SpeechInputProofs`: every property of the run, and `SpeechInputClosedOnce`. Assumptions:
  a capacity of at least one, a threshold of at least two.
  - `Inputs`: a stream is numbered after those before it, so the open input is none that
    was taken or closed. `Finals`: a stream that is still read has handed no final on.
  - `Numbering`: `sequence` is the number of chunks that the open input was given.
  - `Endpointing`: an endpointer in speech whose timer has fired and is still set has a
    handler of that timer before it; the deferred calls come in order.
  - `Heard`: speech has a stream, an excuse, or a start on its way.
* `ControlChannelProofs`: `ControlTypeOK` and every property of the run, for any channels,
  emitters, events and capacity. Assumptions: channels, emitters and `session.ready` are
  different things, `Greeter` is an emitter, the capacity is at least one.
  - `ControlTypeOK` needs what the positions of OnOpen and OnClose say of their channel
    (`Callbacks`), since OnClose may come first.
  - `ControlOpenChannelIsUsed` is inductive once it is known that the channel published last
    got past its first section (`Published`).
  - `ControlGreetingFollowsReady`: `Greeting` says that the greeter waits for an OnOpen that has
    finished, and that one that sends events has sent `session.ready`, or its channel is closed.
  - `ControlEventOnce` follows an event through emitter, pending queue, batches, wires and
    what was dropped (`Delivery`), as for the hub.
  - `ControlOnlyFlushIsOvertaken`: `Order` says that what OnOpen took is in its batch, sent or
    lost, in the order in which it was made, and what it sent of it is older than what it has
    still to send. An event that is sent directly is newer than every other of its sender.
* `NegotiationProofs`: the invariants of the run, for any candidates and any number of
  entries. Assumptions: messages and candidates are different things, there is an entry.
  - `NegotiationTypeOK` needs that the loop holds an entry exactly while it handles an offer,
    whose peer connection has the description from `take` on (`Handling`).
  - `NegotiationPeerConnectionOwned` needs `Making`: the entry whose peer connection is
    being made is in the table, or Close removed it meanwhile.
  - `NegotiationCandidateOnce`: a candidate of the browser is in one place (`Delivery`), and
    waits only at an entry whose offer has not been applied (`Waiting`); that it reaches
    the table's entry rests on there being one entry as long as nobody called Close
    (`Undisturbed`), that only a refusal or a failed offer loses it on the history `refused` and
    `stranded`. One of the bot is counted in the three queues on its way (`Counted`),
    since the sum is what each step of the browser keeps.
* `AsrSessionProofs`: `SessionTypeOK`, `SessionPanicsWhenAbandoned`, `SessionRefinesStream`,
  `SessionAudioArrivesOnce`. Assumption: positive sizes. `AudioKept` says that the audio sent,
  the buffer and the input are the chunks in order; `FinalIsLast` that recvLoop has returned
  once it has sent a final; `Accounted` ties why runSession left to the state of the
  other two: if it left because recvLoop had returned, nobody is left to send on the
  channel it closes.
* `BookingProofs`: `BookingTypeOK` and every property of the run. Assumptions: finitely many rooms of each
  type, any texts and tool calls of their types. Conservation counts the confirmed
  records of a type through `Cardinality`; the refinement follows from it, since only a
  confirmed record lowers availability. `ConfirmationIsBacked` needs that the latest
  status in a reply's results, if it is confirmed, is that of its latest record
  (`Confirmations`); `NoBookingWithoutRequest`, that the history holds only what was heard
  in the call, and that whoever was offered `create_reservation` was asked (`Requests`).
  A reply that was superseded before it read the history may find later transcripts in
  it; it is cancelled, and cannot ask the LLM any more.

Only model-checked: the liveness properties (`RepliesReturn`, `EndingClosesSession`,
`CallsReturn`, `QueuedIsDelivered`, `BrokenConnectionLeaves`, `AbandonedSessionEnds`,
`NegotiationCompletes`, `DepartureReleases`), for which fairness and ENABLED are out of the
prover's reach. `BargeInLeavesTurn` and `EndingOnlyAfterCompletedTurn` are what documents say
and the code violates.

## Plan

What is left, in this order:

1. Pure algorithms: the xfyun transcript accumulator and the segmenter, each against a
   reference definition over bounded inputs.
2. The TTS sessions, as refinements of one abstract stream of chunks, and the pipeline of
   segments in a reply.
3. An abstract specification of the hub's and of the control channel's delivery, with
   proofs that they implement it, in place of history variables.

## Not modelled, and why

Opus decoding, resampling and mu-law are arithmetic on samples; the volc framing
and the message types are data; configuration, logging, metrics and debug dumps
have no state that the rest depends on; mock providers and the commands are
wiring; the rest of the web client is presentation, its microphone and HTTP calls.
TTS sessions and the transcript accumulator are on the plan. `Manager.Create` over an existing id is left out: the signaling server's
ids do not repeat, and only a direct caller of the bot could use one twice. ICE, DTLS,
SRTP and the DataChannel itself are the pion library's.

## Running

    tlc -config TurnRuntimeSpeech.cfg MCTurnRuntime
    tlc -config SpeechInput.cfg SpeechInput
    tlapm TurnRuntimeProofs.tla

Each cfg's module and expected result are in `PROJECT.json`. Definitions whose comment
begins with *Mutant* are plausible bugs of the definition that follows; substituting
one must violate the property that `PROJECT.json` names with it.

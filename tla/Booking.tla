------------------------------- MODULE Booking -------------------------------
(***************************************************************************)
(* The hotel store and those who book in it: the replies of several calls, *)
(* whose LLM runs tools (openaicompat LLM.completeWithTools with the tools *)
(* and the finalizer of hotel_tools), and HTTP clients.                    *)
(*                                                                         *)
(* A reply <<call, n>> is response_runtime's run for the n-th final        *)
(* transcript of a call.  A new transcript cancels the replies before it,  *)
(* but a cancelled reply only notices at its next request to the LLM: the  *)
(* tool calls it holds are run, so replies of one call overlap.  What the  *)
(* turn, the speech and the audio do meanwhile is TurnRuntime's subject.   *)
(*                                                                         *)
(* A text is the set of marks that the code looks for in it; that of a     *)
(* transcript are the words that ShouldUse looks for.                      *)
(***************************************************************************)
EXTENDS Naturals, Sequences, FiniteSets

CONSTANTS Rooms, Seed,        \* NewStore's room types and their rooms
          Calls, MaxReplies,  \* calls, and a bound on each one's transcripts
          Transcripts,        \* what users say, as sets of Words
          Contents,           \* what the LLM may answer, as sets of Marks
          MaxToolIterations,
          ToolMessages,       \* tool calls the LLM may make, those of one message
          MaxHistory,         \* maxResponseHistoryMessages
          MaxHTTP,            \* bound on reservations made over HTTP
          NoRoom, HTTP

ASSUME SeedAssumption == Seed \in [Rooms -> Nat] /\ NoRoom \notin Rooms
ASSUME BoundsAssumption ==
    /\ MaxReplies \in Nat /\ MaxToolIterations \in Nat
    /\ MaxHistory \in Nat /\ MaxHTTP \in Nat
ASSUME HTTPAssumption == HTTP \notin Calls \X (1 .. MaxReplies)

VARIABLES
    available,     \* Store.rooms[room].AvailableCount
    reservations,  \* Store.reservations
    nextID,        \* Store.nextID
    phase,         \* phase[r]: where reply r is
    heard,         \* heard[r]: the transcript that r answers
    offered,       \* offered[r]: the tools of toolsForRequest
    round,         \* round[r]: requests sent so far
    toolCalls,     \* toolCalls[r]: tool calls of the last message still to run
    results,       \* results[r]: the statuses in toolResults
    text,          \* text[r]: what r says
    directive,     \* directive[r]: turnDirectives.endCall, or "none"
    cancelled,     \* replies whose context is cancelled
    history,       \* history[call]: responseRuntime.history
    ending         \* ending[call]: the reason given to ScheduleEnd, or "none"

storeVars == <<available, reservations, nextID>>
replyVars == <<phase, heard, offered, round, toolCalls, results, text, directive>>
callVars  == <<cancelled, history, ending>>
vars == <<storeVars, replyVars, callVars>>

Replies == Calls \X (1 .. MaxReplies)

\* "farewell" stands for both reasons of end_call that are not
\* reservation_confirmed: nothing tells bot_farewell from user_declined.
Words    == {"intent", "details", "phone"}
Marks    == {"confirmed", "number", "farewell", "denied"}
Tools    == {"list_room_types", "create_reservation", "end_call"}
Statuses == {"confirmed", "sold_out", "invalid_input"}
Reasons  == {"reservation_confirmed", "farewell"}
Phases   == {"idle", "start", "ask", "tools", "speak", "said", "drain", "done"}
None     == "none"

\* The arguments of create_reservation name a room type, or none that exists;
\* "malformed" ones are no JSON, "invalid" ones lack a name or a phone number.
Arguments == [kind : {"valid"}, room : Rooms \cup {NoRoom}]
             \cup [kind : {"invalid"}, room : Rooms] \cup [kind : {"malformed"}, room : {NoRoom}]
ToolCall == [name : {"list_room_types", "unknown"}]
            \cup [name : {"create_reservation"}, args : Arguments]
            \cup [name : {"end_call"}, reason : Reasons \cup {"malformed"}]

ASSUME TextsAssumption ==
    /\ Transcripts \subseteq SUBSET Words /\ Contents \subseteq SUBSET Marks
    /\ ToolMessages \subseteq Seq(ToolCall) \ {<<>>}

Reservation == [id : Nat \ {0}, room : Rooms \cup {NoRoom}, status : Statuses,
                by : Replies \cup {HTTP}]
Message == [role : {"user", "assistant"}, words : SUBSET Words]

TypeOK ==
    /\ available \in [Rooms -> Nat]
    /\ reservations \in Seq(Reservation)
    /\ nextID \in Nat \ {0}
    /\ phase \in [Replies -> Phases]
    /\ heard \in [Replies -> SUBSET Words]
    /\ offered \in [Replies -> SUBSET Tools]
    /\ round \in [Replies -> 0 .. MaxToolIterations]
    /\ toolCalls \in [Replies -> Seq(ToolCall)]
    /\ results \in [Replies -> Seq(Statuses \cup {None})]
    /\ text \in [Replies -> SUBSET Marks]
    /\ directive \in [Replies -> Reasons \cup {None}]
    /\ cancelled \subseteq Replies
    /\ history \in [Calls -> Seq(Message)]
    /\ ending \in [Calls -> Reasons \cup {None}]

Init ==
    /\ available = Seed
    /\ reservations = <<>>
    /\ nextID = 1
    /\ phase = [r \in Replies |-> "idle"]
    /\ heard = [r \in Replies |-> {}]
    /\ offered = [r \in Replies |-> {}]
    /\ round = [r \in Replies |-> 0]
    /\ toolCalls = [r \in Replies |-> <<>>]
    /\ results = [r \in Replies |-> <<>>]
    /\ text = [r \in Replies |-> {}]
    /\ directive = [r \in Replies |-> None]
    /\ cancelled = {}
    /\ history = [call \in Calls |-> <<>>]
    /\ ending = [call \in Calls |-> None]

-----------------------------------------------------------------------------
(* The store.  Its mutex makes each operation one step. *)

StatusFor(args) ==
    IF args.kind # "valid" \/ args.room \notin Rooms THEN "invalid_input"
    ELSE IF available[args.room] < 1 THEN "sold_out"
    ELSE "confirmed"

\* Mutant: an attempt with invalid input is not recorded, but has taken its id.
CreateUnrecorded(args, by) ==
    /\ reservations' = IF StatusFor(args) = "invalid_input" THEN reservations
                       ELSE Append(reservations, [id |-> nextID, room |-> args.room,
                                                  status |-> StatusFor(args), by |-> by])
    /\ nextID' = nextID + 1
    /\ available' = IF StatusFor(args) = "confirmed"
                    THEN [available EXCEPT ![args.room] = @ - 1] ELSE available

\* Mutant: the room is given back on failure, but it was not taken.
CreateRollsBack(args, by) ==
    /\ reservations' = Append(reservations, [id |-> nextID, room |-> args.room,
                                             status |-> StatusFor(args), by |-> by])
    /\ nextID' = nextID + 1
    /\ available' = CASE StatusFor(args) = "confirmed" -> [available EXCEPT ![args.room] = @ - 1]
                      [] StatusFor(args) = "sold_out"  -> [available EXCEPT ![args.room] = @ + 1]
                      [] OTHER -> available

\* Store.CreateReservation: every attempt is recorded, under the next id.
CreateReservation(args, by) ==
    /\ reservations' = Append(reservations, [id |-> nextID, room |-> args.room,
                                             status |-> StatusFor(args), by |-> by])
    /\ nextID' = nextID + 1
    /\ available' = IF StatusFor(args) = "confirmed"
                    THEN [available EXCEPT ![args.room] = @ - 1] ELSE available

\* handleCreateReservation ignores a body that is no JSON: its input is empty.
BookOverHTTP(args) ==
    /\ Cardinality({i \in DOMAIN reservations : reservations[i].by = HTTP}) < MaxHTTP
    /\ CreateReservation([args EXCEPT !.kind = IF @ = "malformed" THEN "invalid" ELSE @], HTTP)
    /\ UNCHANGED <<replyVars, callVars>>

-----------------------------------------------------------------------------
(* A reply, up to the LLM's answer. *)

\* responseRuntime.HandleASREvent with a final transcript: the reply before is
\* cancelled, and a goroutine starts the next one.
Hear(r, words) ==
    /\ phase[r] = "idle"
    /\ r[2] > 1 => phase[<<r[1], r[2] - 1>>] # "idle"
    /\ phase' = [phase EXCEPT ![r] = "start"]
    /\ heard' = [heard EXCEPT ![r] = words]
    /\ cancelled' = cancelled \cup {q \in Replies : q[1] = r[1] /\ q[2] < r[2]}
    /\ UNCHANGED <<storeVars, offered, round, toolCalls, results, text, directive,
                   history, ending>>

\* responseRuntime.Interrupt cancels the reply that runs.
Interrupt(r) ==
    /\ phase[r] \notin {"idle", "done"} /\ r \notin cancelled
    /\ cancelled' = cancelled \cup {r}
    /\ UNCHANGED <<storeVars, replyVars, history, ending>>

\* Mutant: the words of booking are enough.
NeedsIntentOnly(words, past) ==
    \/ "intent" \in words
    \/ \E i \in DOMAIN past : past[i].role = "user" /\ "intent" \in past[i].words

\* hotelQueryNeedsReservation.
NeedsReservation(words, past) ==
    \/ "phone" \in words /\ "intent" \in words
    \/ "phone" \notin words /\ "details" \in words
       /\ \/ "intent" \in words
          \/ \E i \in DOMAIN past : past[i].role = "user" /\ "intent" \in past[i].words

\* toolsForRequest with the predicates of hotelTools.  A transcript in which
\* hotelQueryNeedsInventory finds nothing is as good as one that offers the list.
ToolsFor(words, past) ==
    {"end_call", "list_room_types"}
    \cup IF NeedsReservation(words, past) THEN {"create_reservation"} ELSE {}

\* run up to LLM.Complete: the history is read here, not when r was heard.
Complete(r) ==
    /\ phase[r] = "start"
    /\ phase' = [phase EXCEPT ![r] = "ask"]
    /\ offered' = [offered EXCEPT ![r] = ToolsFor(heard[r], history[r[1]])]
    /\ UNCHANGED <<storeVars, heard, round, toolCalls, results, text, directive, callVars>>

\* run returns, and its variables are gone.
Return(r) ==
    /\ phase' = [phase EXCEPT ![r] = "done"]
    /\ offered' = [offered EXCEPT ![r] = {}]
    /\ round' = [round EXCEPT ![r] = 0]
    /\ results' = [results EXCEPT ![r] = <<>>]
    /\ text' = [text EXCEPT ![r] = {}]
    /\ directive' = [directive EXCEPT ![r] = None]

\* StartResponse refuses the turn; or sendChatRequest fails, always when the
\* context is cancelled, or the answer cannot be used, or there have been
\* maxToolIterations rounds: run completes the turn without a word.  What the
\* tools did stays done.
Fails(r) ==
    /\ phase[r] \in {"start", "ask"}
    /\ Return(r)
    /\ UNCHANGED <<storeVars, heard, toolCalls, callVars>>

CanAsk(r) == phase[r] = "ask" /\ r \notin cancelled /\ round[r] < MaxToolIterations

\* The message has tool calls.
AskForTools(r, calls) ==
    /\ CanAsk(r)
    /\ phase' = [phase EXCEPT ![r] = "tools"]
    /\ round' = [round EXCEPT ![r] = @ + 1]
    /\ toolCalls' = [toolCalls EXCEPT ![r] = calls]
    /\ UNCHANGED <<storeVars, heard, offered, results, text, directive, callVars>>

\* Mutant: any result will do, not only the latest.
EverConfirmed(r) == \E i \in DOMAIN results[r] : results[r][i] = "confirmed"

\* latestReservationToolResult and hotelBookingConfirmationFinalizer: a text
\* that looks confirmed is let through only on a confirmed reservation.
LatestConfirmed(r) == results[r] # <<>> /\ results[r][Len(results[r])] = "confirmed"
Finalized(r, content) ==
    IF "confirmed" \in content /\ ~LatestConfirmed(r) THEN {"denied"} ELSE content

\* The message has none: its content is what r says.
Answer(r, content) ==
    /\ CanAsk(r)
    /\ phase' = [phase EXCEPT ![r] = "speak"]
    /\ round' = [round EXCEPT ![r] = @ + 1]
    /\ text' = [text EXCEPT ![r] = Finalized(r, content)]
    /\ UNCHANGED <<storeVars, heard, offered, toolCalls, results, directive, callVars>>

-----------------------------------------------------------------------------
(* callTool, for the first tool call that is left. *)

\* The results of other tools are kept too, but nobody looks at them.  After
\* the last tool call of a message comes the next request.
ToolReturns(r, status) ==
    /\ results' = IF Head(toolCalls[r]).name = "create_reservation"
                  THEN [results EXCEPT ![r] = Append(@, status)] ELSE results
    /\ toolCalls' = [toolCalls EXCEPT ![r] = Tail(@)]
    /\ phase' = [phase EXCEPT ![r] = IF Len(toolCalls[r]) = 1 THEN "ask" ELSE @]
    /\ UNCHANGED <<heard, offered, round, text, callVars>>

Calling(r, name) == phase[r] = "tools" /\ Head(toolCalls[r]).name = name

\* findTool looks among the offered tools only.
Unavailable(r) ==
    /\ phase[r] = "tools" /\ Head(toolCalls[r]).name \notin offered[r]
    /\ ToolReturns(r, None)
    /\ UNCHANGED <<storeVars, directive>>

ListRoomTypes(r) ==
    /\ Calling(r, "list_room_types") /\ "list_room_types" \in offered[r]
    /\ ToolReturns(r, None)
    /\ UNCHANGED <<storeVars, directive>>

\* The handler looks at no context: a cancelled reply books all the same.
Reserve(r) ==
    /\ Calling(r, "create_reservation") /\ "create_reservation" \in offered[r]
    /\ LET args == Head(toolCalls[r]).args IN
          IF args.kind = "malformed"
          THEN ToolReturns(r, None) /\ UNCHANGED storeVars
          ELSE CreateReservation(args, r) /\ ToolReturns(r, StatusFor(args))
    /\ UNCHANGED directive

\* RequestEndCall with the reason that normalizeEndCallRequest makes of it.
EndCall(r) ==
    /\ Calling(r, "end_call") /\ "end_call" \in offered[r]
    /\ LET reason == Head(toolCalls[r]).reason IN
          directive' = IF reason = "malformed" THEN directive
                       ELSE [directive EXCEPT ![r] = reason]
    /\ ToolReturns(r, None)
    /\ UNCHANGED storeVars

RunTool(r) == Unavailable(r) \/ ListRoomTypes(r) \/ Reserve(r) \/ EndCall(r)

-----------------------------------------------------------------------------
(* The rest of run. *)

LastMessages(messages) ==
    IF Len(messages) <= MaxHistory THEN messages
    ELSE SubSeq(messages, Len(messages) - MaxHistory + 1, Len(messages))

\* rememberExchange; a text without marks may be empty, and is left out then.
Exchanges(r) ==
    LET user == [role |-> "user", words |-> heard[r]]
        bot  == [role |-> "assistant", words |-> {}]
    IN  {<<user, bot>>} \cup IF text[r] = {} THEN {<<user>>} ELSE {}

\* The segments are synthesized; then a reply that was cancelled returns.
Speak(r) ==
    /\ phase[r] = "speak"
    /\ IF r \in cancelled THEN Return(r)
       ELSE /\ phase' = [phase EXCEPT ![r] = "said"]
            /\ UNCHANGED <<offered, round, results, text, directive>>
    /\ UNCHANGED <<storeVars, heard, toolCalls, callVars>>

\* The last event of the LLM is sent, and the exchange remembered.
Remember(r) ==
    /\ phase[r] = "said"
    /\ phase' = [phase EXCEPT ![r] = "drain"]
    /\ \E exchange \in Exchanges(r) :
          history' = [history EXCEPT ![r[1]] = LastMessages(@ \o exchange)]
    /\ UNCHANGED <<storeVars, heard, offered, round, toolCalls, results, text, directive,
                   cancelled, ending>>

\* Mutant: the reply need not sound like the end.
TerminalAnyway(marks, reason) == TRUE

\* shouldScheduleEndCall.
Terminal(marks, reason) ==
    IF reason = "reservation_confirmed" THEN "confirmed" \in marks \/ "number" \in marks
    ELSE "farewell" \in marks

\* The audio is out: the turn is completed and the call ended if the LLM
\* wanted that and r sounds like it.  The first ScheduleEnd counts.
Finish(r) ==
    /\ phase[r] = "drain"
    /\ Return(r)
    /\ ending' = IF /\ r \notin cancelled /\ directive[r] # None
                    /\ Terminal(text[r], directive[r]) /\ ending[r[1]] = None
                 THEN [ending EXCEPT ![r[1]] = directive[r]] ELSE ending
    /\ UNCHANGED <<storeVars, heard, toolCalls, cancelled, history>>

-----------------------------------------------------------------------------
Ask(r) ==
    \/ \E calls \in ToolMessages : AskForTools(r, calls)
    \/ \E content \in Contents : Answer(r, content)

Run(r) == Complete(r) \/ Fails(r) \/ Ask(r) \/ RunTool(r) \/ Speak(r) \/ Remember(r) \/ Finish(r)

Next ==
    \/ \E args \in Arguments : BookOverHTTP(args)
    \/ \E r \in Replies : \/ \E words \in Transcripts : Hear(r, words)
                          \/ Interrupt(r)
                          \/ Run(r)

Spec == Init /\ [][Next]_vars

-----------------------------------------------------------------------------
(* Properties. *)

Booked(room) == {i \in DOMAIN reservations : /\ reservations[i].status = "confirmed"
                                            /\ reservations[i].room = room}

\* Whoever books, over HTTP or from overlapping replies: no room is sold twice
\* and none is lost, and every attempt, failed ones included, is on record
\* under an id of its own (Store.CreateReservation and its mutex).
RoomsConserved ==
    /\ \A room \in Rooms : available[room] + Cardinality(Booked(room)) = Seed[room]
    /\ \A i \in DOMAIN reservations : reservations[i].id = i
    /\ nextID = Len(reservations) + 1

\* The store sells rooms as RoomLedger promises: one at a time, at most what
\* there is, and for good.
Ledger == INSTANCE RoomLedger WITH sold <- [room \in Rooms |-> Seed[room] - available[room]]
LedgerSpec == Ledger!Spec

\* The last thing that r tried to book is booked.
By(r) == {i \in DOMAIN reservations : reservations[i].by = r}
Backed(r) == \E i \in By(r) : /\ reservations[i].status = "confirmed"
                              /\ \A j \in By(r) : j <= i

\* When the bot says that a booking is made, the last one that this reply tried
\* is made (hotelBookingConfirmationFinalizer), whatever the LLM makes up,
\* whichever of its tool calls failed, and although others book meanwhile.
ConfirmationIsBacked == \A r \in Replies : "confirmed" \in text[r] => Backed(r)

\* A call that ends as booked by a reply that booked nothing ends so for one reason:
\* the reply spoke of a confirmation number, which shouldScheduleEndCall accepts and
\* the finalizer does not look for.  The documents want no such guess from words
\* (see README.md); the property says that there is no other way.
UnbackedEndingNamesNumber ==
    [][\A call \in Calls : ending[call] = None /\ ending'[call] = "reservation_confirmed" =>
          \E r \in Replies : /\ r[1] = call /\ phase[r] = "drain"
                             /\ (Backed(r) \/ "number" \in text[r])]_ending

\* The LLM cannot book by itself: a reply that books, or tries to, answers a
\* transcript with a phone number or guest details, in a call in which the
\* user has spoken of booking, in this transcript or one before it
\* (hotelQueryNeedsReservation), however its tool calls come.
NoBookingWithoutRequest ==
    \A i \in DOMAIN reservations : LET r == reservations[i].by IN
        r # HTTP =>
            /\ heard[r] \cap {"details", "phone"} # {}
            /\ \E q \in Replies : q[1] = r[1] /\ q[2] <= r[2] /\ "intent" \in heard[q]
===============================================================================

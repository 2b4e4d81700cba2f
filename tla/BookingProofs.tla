---------------------------- MODULE BookingProofs ----------------------------
(***************************************************************************)
(* Proofs about Booking, for any number of calls, replies, room types and  *)
(* rooms, whatever the users say and the LLM makes up.                     *)
(*                                                                         *)
(* A step either leaves the store alone or is one CreateReservation, so    *)
(* the store's invariant and the ledger are proved of CreateReservation;   *)
(* what replies say of their bookings needs the invariant on results and   *)
(* texts that follows them.                                                *)
(***************************************************************************)
EXTENDS Booking, FiniteSetTheorems, SequenceTheorems, TLAPS

USE SeedAssumption, BoundsAssumption, HTTPAssumption, TextsAssumption

StoreTypes ==
    /\ available \in [Rooms -> Nat]
    /\ reservations \in Seq(Reservation)
    /\ nextID \in Nat \ {0}

ReplyTypes ==
    /\ phase \in [Replies -> Phases]
    /\ heard \in [Replies -> SUBSET Words]
    /\ offered \in [Replies -> SUBSET Tools]
    /\ round \in [Replies -> 0 .. MaxToolIterations]
    /\ toolCalls \in [Replies -> Seq(ToolCall)]
    /\ results \in [Replies -> Seq(Statuses \cup {None})]
    /\ text \in [Replies -> SUBSET Marks]
    /\ directive \in [Replies -> Reasons \cup {None}]

CallTypes ==
    /\ cancelled \subseteq Replies
    /\ history \in [Calls -> Seq(Message)]
    /\ ending \in [Calls -> Reasons \cup {None}]

\* A reply is among its tool calls exactly while it has some left.
ToolsLeft == \A r \in Replies : phase[r] = "tools" => toolCalls[r] # <<>>

Types == StoreTypes /\ ReplyTypes /\ CallTypes /\ ToolsLeft

-----------------------------------------------------------------------------
(* The store. *)

AnyArguments == [kind : {"valid", "invalid", "malformed"}, room : Rooms \cup {NoRoom}]
Bookers == Replies \cup {HTTP}

\* The status of an attempt, and when it is confirmed.
LEMMA StatusType ==
    ASSUME NEW args \in AnyArguments
    PROVE  /\ StatusFor(args) \in Statuses
           /\ StatusFor(args) = "confirmed" <=>
                 args.kind = "valid" /\ args.room \in Rooms /\ ~(available[args.room] < 1)
  BY DEF StatusFor, Statuses, AnyArguments

\* CreateReservation keeps the types of the store.
LEMMA CreateTypes ==
    ASSUME StoreTypes, NEW args \in AnyArguments, NEW by \in Bookers,
           CreateReservation(args, by)
    PROVE  StoreTypes'
  <1> DEFINE record == [id |-> nextID, room |-> args.room, status |-> StatusFor(args), by |-> by]
  <1>1. record \in Reservation
    BY StatusType DEF StoreTypes, Reservation, AnyArguments, Bookers
  <1>2. reservations' = Append(reservations, record) /\ nextID' = nextID + 1
    BY DEF CreateReservation
  <1>3. available' \in [Rooms -> Nat]
    <2>1. CASE StatusFor(args) = "confirmed"
      <3>1. available' = [available EXCEPT ![args.room] = @ - 1]
        BY <2>1 DEF CreateReservation
      <3>2. args.room \in Rooms /\ available[args.room] \in Nat /\ available[args.room] >= 1
        BY <2>1, StatusType DEF StoreTypes
      <3> QED BY <3>1, <3>2 DEF StoreTypes
    <2>2. CASE StatusFor(args) # "confirmed"
      BY <2>2 DEF CreateReservation, StoreTypes
    <2> QED BY <2>1, <2>2
  <1> HIDE DEF record
  <1> QED BY <1>1, <1>2, <1>3 DEF StoreTypes

\* The record that CreateReservation adds is the last; the others stay.
LEMMA CreateAppends ==
    ASSUME StoreTypes, NEW args \in AnyArguments, NEW by \in Bookers,
           CreateReservation(args, by)
    PROVE  /\ DOMAIN reservations' = DOMAIN reservations \cup {Len(reservations) + 1}
           /\ Len(reservations) + 1 \notin DOMAIN reservations
           /\ Len(reservations') = Len(reservations) + 1
           /\ DOMAIN reservations = 1 .. Len(reservations) /\ Len(reservations) \in Nat
           /\ \A i \in DOMAIN reservations : reservations'[i] = reservations[i]
           /\ LET last == reservations'[Len(reservations) + 1] IN
                 /\ last.id = nextID /\ last.room = args.room
                 /\ last.status = StatusFor(args) /\ last.by = by
  <1> DEFINE record == [id |-> nextID, room |-> args.room, status |-> StatusFor(args), by |-> by]
  <1>1. reservations' = Append(reservations, record)
    BY DEF CreateReservation
  <1>2. record.id = nextID /\ record.room = args.room
        /\ record.status = StatusFor(args) /\ record.by = by
    OBVIOUS
  <1> HIDE DEF record
  <1> QED BY <1>1, <1>2 DEF StoreTypes

\* The confirmed records of a room type are finitely many.
LEMMA BookedFinite ==
    ASSUME StoreTypes, NEW room
    PROVE  IsFiniteSet(Booked(room)) /\ Cardinality(Booked(room)) \in Nat
  <1>1. DOMAIN reservations = 1 .. Len(reservations) /\ Len(reservations) \in Nat
    BY DEF StoreTypes
  <1>2. IsFiniteSet(1 .. Len(reservations))
    BY <1>1, FS_Interval
  <1>3. Booked(room) \subseteq 1 .. Len(reservations)
    BY <1>1 DEF Booked
  <1> QED BY <1>2, <1>3, FS_Subset, FS_CardinalityType

\* CreateReservation conserves rooms and numbers its records.
LEMMA CreateConserves ==
    ASSUME StoreTypes, RoomsConserved, NEW args \in AnyArguments, NEW by \in Bookers,
           CreateReservation(args, by)
    PROVE  RoomsConserved'
  <1> DEFINE n == Len(reservations) + 1
  <1>1. ASSUME NEW room \in Rooms
        PROVE  available'[room] + Cardinality(Booked(room)') = Seed[room]
    <2>1. CASE StatusFor(args) = "confirmed" /\ args.room = room
      <3>1. Booked(room)' = Booked(room) \cup {n} /\ n \notin Booked(room)
        BY <2>1, CreateAppends DEF Booked
      <3>2. Cardinality(Booked(room)') = Cardinality(Booked(room)) + 1
        BY <3>1, BookedFinite, FS_AddElement
      <3>3. available'[room] = available[room] - 1
        BY <2>1 DEF CreateReservation, StoreTypes
      <3> QED BY <3>2, <3>3, BookedFinite DEF RoomsConserved, StoreTypes
    <2>2. CASE ~(StatusFor(args) = "confirmed" /\ args.room = room)
      <3>1. Booked(room)' = Booked(room)
        BY <2>2, CreateAppends DEF Booked
      <3>2. available'[room] = available[room]
        BY <2>2 DEF CreateReservation, StoreTypes
      <3> QED BY <3>1, <3>2 DEF RoomsConserved
    <2> QED BY <2>1, <2>2
  <1>2. \A i \in DOMAIN reservations' : reservations'[i].id = i
    <2>1. n = nextID
      BY DEF RoomsConserved
    <2> QED BY <2>1, CreateAppends DEF RoomsConserved
  <1>3. nextID' = Len(reservations') + 1
    BY CreateAppends DEF RoomsConserved, CreateReservation
  <1> QED BY <1>1, <1>2, <1>3 DEF RoomsConserved
-----------------------------------------------------------------------------
(* Types of a reply and of a call. *)

\* The first element of a sequence, and the rest of it.
LEMMA HeadTail ==
    ASSUME NEW S, NEW s \in Seq(S), s # <<>>
    PROVE  /\ Head(s) \in S /\ Tail(s) \in Seq(S)
           /\ Len(s) \in Nat /\ Len(s) >= 1
           /\ Len(s) # 1 => Tail(s) # <<>>
  <1>1. Len(s) \in Nat /\ (s = <<>> <=> Len(s) = 0)
    BY LenProperties, EmptySeq
  <1>2. Head(s) \in S /\ Tail(s) \in Seq(S) /\ Len(Tail(s)) = Len(s) - 1
    BY HeadTailProperties
  <1>3. Tail(s) = <<>> => Len(Tail(s)) = 0
    BY EmptySeq
  <1> QED BY <1>1, <1>2, <1>3

\* The first of the tool calls that are left, and the rest of them.
LEMMA FirstToolCall ==
    ASSUME Types, NEW r \in Replies, phase[r] = "tools"
    PROVE  /\ Head(toolCalls[r]) \in ToolCall /\ Tail(toolCalls[r]) \in Seq(ToolCall)
           /\ Len(toolCalls[r]) \in Nat /\ Len(toolCalls[r]) >= 1
           /\ Len(toolCalls[r]) # 1 => Tail(toolCalls[r]) # <<>>
  <1>1. toolCalls[r] \in Seq(ToolCall) /\ toolCalls[r] # <<>>
    BY DEF Types, ReplyTypes, ToolsLeft
  <1> QED BY <1>1, HeadTail

\* The arguments of create_reservation are records of the right kind.
LEMMA ArgumentsType ==
    ASSUME NEW call \in ToolCall, call.name = "create_reservation"
    PROVE  call.args \in AnyArguments
  BY DEF ToolCall, Arguments, AnyArguments

\* The reason of end_call is one that is known, or malformed.
LEMMA ReasonType ==
    ASSUME NEW call \in ToolCall, call.name = "end_call"
    PROVE  call.reason \in Reasons \cup {"malformed"}
  BY DEF ToolCall

\* A result keeps the types of the reply, and the next request comes when no
\* tool call is left.
LEMMA ToolReturnsTypes ==
    ASSUME Types, NEW r \in Replies, phase[r] = "tools",
           NEW status \in Statuses \cup {None}, ToolReturns(r, status),
           directive' \in [Replies -> Reasons \cup {None}]
    PROVE  ReplyTypes' /\ CallTypes' /\ ToolsLeft'
  <1>1. /\ Head(toolCalls[r]) \in ToolCall /\ Tail(toolCalls[r]) \in Seq(ToolCall)
        /\ Len(toolCalls[r]) # 1 => Tail(toolCalls[r]) # <<>>
    BY FirstToolCall
  <1>2. phase' \in [Replies -> Phases]
    BY DEF ToolReturns, Types, ReplyTypes, Phases
  <1>3. toolCalls' = [toolCalls EXCEPT ![r] = Tail(@)] /\ toolCalls' \in [Replies -> Seq(ToolCall)]
    BY <1>1 DEF ToolReturns, Types, ReplyTypes
  <1>4. Append(results[r], status) \in Seq(Statuses \cup {None})
    BY DEF Types, ReplyTypes
  <1>5. results' \in [Replies -> Seq(Statuses \cup {None})]
    BY <1>4 DEF ToolReturns, Types, ReplyTypes
  <1>6. UNCHANGED <<heard, offered, round, text, callVars>>
    BY DEF ToolReturns
  <1>7. ReplyTypes' /\ CallTypes'
    BY <1>2, <1>3, <1>5, <1>6 DEF Types, ReplyTypes, CallTypes, callVars
  <1>8. ToolsLeft'
    <2> SUFFICES ASSUME NEW q \in Replies, phase'[q] = "tools" PROVE toolCalls'[q] # <<>>
      BY DEF ToolsLeft
    <2>1. CASE q = r
      <3>1. Len(toolCalls[r]) # 1
        BY <2>1 DEF ToolReturns, Types, ReplyTypes
      <3> QED BY <2>1, <3>1, <1>1, <1>3 DEF Types, ReplyTypes
    <2>2. CASE q # r
      BY <2>2, <1>3 DEF ToolReturns, Types, ReplyTypes, ToolsLeft
    <2> QED BY <2>1, <2>2
  <1> QED BY <1>7, <1>8

\* What Return leaves behind is of the right type.
LEMMA ReturnTypes ==
    ASSUME Types, NEW r \in Replies, Return(r), UNCHANGED <<heard, toolCalls>>
    PROVE  ReplyTypes' /\ ToolsLeft'
  <1>1. <<>> \in Seq(Statuses \cup {None})
    OBVIOUS
  <1>2. ReplyTypes'
    BY <1>1 DEF Return, Types, ReplyTypes, Phases
  <1>3. ToolsLeft'
    BY DEF Return, Types, ReplyTypes, ToolsLeft
  <1> QED BY <1>2, <1>3

\* The history stays a sequence of messages.
LEMMA RememberTypes ==
    ASSUME Types, NEW r \in Replies, NEW exchange \in Exchanges(r)
    PROVE  LastMessages(history[r[1]] \o exchange) \in Seq(Message)
  <1>1. r[1] \in Calls /\ heard[r] \in SUBSET Words
    BY DEF Types, ReplyTypes, Replies
  <1> DEFINE user == [role |-> "user", words |-> heard[r]]
             bot  == [role |-> "assistant", words |-> {}]
  <1>a. user \in Message /\ bot \in Message
    BY <1>1 DEF Message
  <1>b. exchange = <<user, bot>> \/ exchange = <<user>>
    BY DEF Exchanges
  <1> HIDE DEF user, bot
  <1>c. <<user>> \in Seq(Message) /\ <<user, bot>> \in Seq(Message)
    BY <1>a
  <1>2. exchange \in Seq(Message)
    BY <1>b, <1>c
  <1>3. history[r[1]] \o exchange \in Seq(Message)
    BY <1>1, <1>2 DEF Types, CallTypes
  <1> DEFINE messages == history[r[1]] \o exchange
  <1> HIDE DEF messages
  <1>4. LastMessages(messages) \in Seq(Message)
    BY <1>3 DEF LastMessages, messages
  <1> QED BY <1>4 DEF messages

\* What Reserve does to the store and to the reply.
LEMMA ReserveCases ==
    ASSUME Types, NEW r \in Replies, Reserve(r)
    PROVE  /\ phase[r] = "tools" /\ Head(toolCalls[r]) \in ToolCall
           /\ Head(toolCalls[r]).name = "create_reservation"
           /\ "create_reservation" \in offered[r]
           /\ Head(toolCalls[r]).args \in AnyArguments
           /\ LET args == Head(toolCalls[r]).args IN
                 \/ ToolReturns(r, None) /\ UNCHANGED storeVars
                 \/ CreateReservation(args, r) /\ ToolReturns(r, StatusFor(args))
  BY FirstToolCall, ArgumentsType DEF Reserve, Calling
\* Every step keeps the types of the store, of the replies and of the calls.
LEMMA TypesKept ==
    ASSUME Types, Next
    PROVE  Types'
  <1>1. ASSUME NEW args \in Arguments, BookOverHTTP(args) PROVE Types'
    <2> DEFINE given == [args EXCEPT !.kind = IF @ = "malformed" THEN "invalid" ELSE @]
    <2>1. given \in AnyArguments
      BY DEF Arguments, AnyArguments
    <2>2. CreateReservation(given, HTTP) /\ UNCHANGED <<replyVars, callVars>>
      BY <1>1 DEF BookOverHTTP
    <2> HIDE DEF given
    <2>3. StoreTypes'
      BY <2>1, <2>2, CreateTypes DEF Types, Bookers
    <2> QED BY <2>2, <2>3 DEF Types, ReplyTypes, CallTypes, ToolsLeft, replyVars, callVars
  <1>2. ASSUME NEW r \in Replies, NEW words \in Transcripts, Hear(r, words) PROVE Types'
    BY <1>2 DEF Hear, Types, StoreTypes, ReplyTypes, CallTypes, ToolsLeft, storeVars, Phases
  <1>3. ASSUME NEW r \in Replies, Interrupt(r) PROVE Types'
    BY <1>3 DEF Interrupt, Types, StoreTypes, ReplyTypes, CallTypes, ToolsLeft, storeVars, replyVars
  <1>4. ASSUME NEW r \in Replies, Complete(r) PROVE Types'
    <2>1. ToolsFor(heard[r], history[r[1]]) \in SUBSET Tools
      BY DEF ToolsFor, Tools
    <2> QED
      BY <1>4, <2>1 DEF Complete, Types, StoreTypes, ReplyTypes, CallTypes, ToolsLeft, storeVars,
                        callVars, Phases
  <1>5. ASSUME NEW r \in Replies, Fails(r) PROVE Types'
    <2>1. Return(r) /\ UNCHANGED <<storeVars, heard, toolCalls, callVars>>
      BY <1>5 DEF Fails
    <2>2. ReplyTypes' /\ ToolsLeft'
      BY <2>1, ReturnTypes
    <2> QED BY <2>1, <2>2 DEF Types, StoreTypes, CallTypes, storeVars, callVars
  <1>6. ASSUME NEW r \in Replies, NEW calls \in ToolMessages, AskForTools(r, calls) PROVE Types'
    <2>1. calls \in Seq(ToolCall) /\ calls # <<>>
      OBVIOUS
    <2>2. round[r] + 1 \in 0 .. MaxToolIterations
      BY <1>6 DEF AskForTools, CanAsk, Types, ReplyTypes
    <2> QED
      BY <1>6, <2>1, <2>2 DEF AskForTools, Types, StoreTypes, ReplyTypes, CallTypes, ToolsLeft,
                              storeVars, callVars, Phases
  <1>7. ASSUME NEW r \in Replies, NEW content \in Contents, Answer(r, content) PROVE Types'
    <2>1. Finalized(r, content) \in SUBSET Marks
      BY DEF Finalized, Marks
    <2>2. round[r] + 1 \in 0 .. MaxToolIterations
      BY <1>7 DEF Answer, CanAsk, Types, ReplyTypes
    <2> QED
      BY <1>7, <2>1, <2>2 DEF Answer, Types, StoreTypes, ReplyTypes, CallTypes, ToolsLeft,
                              storeVars, callVars, Phases
  <1>8. ASSUME NEW r \in Replies, Unavailable(r) \/ ListRoomTypes(r) PROVE Types'
    <2>1. /\ phase[r] = "tools" /\ ToolReturns(r, None)
          /\ UNCHANGED <<storeVars, directive>>
      BY <1>8 DEF Unavailable, ListRoomTypes, Calling
    <2>2. ReplyTypes' /\ CallTypes' /\ ToolsLeft'
      BY <2>1, ToolReturnsTypes DEF Types, ReplyTypes
    <2> QED BY <2>1, <2>2 DEF Types, StoreTypes, storeVars
  <1>9. ASSUME NEW r \in Replies, Reserve(r) PROVE Types'
    <2> DEFINE args == Head(toolCalls[r]).args
    <2>1. phase[r] = "tools" /\ args \in AnyArguments /\ directive' = directive
      BY <1>9, ReserveCases DEF Reserve
    <2>2. \/ ToolReturns(r, None) /\ UNCHANGED storeVars
          \/ CreateReservation(args, r) /\ ToolReturns(r, StatusFor(args))
      BY <1>9, ReserveCases
    <2> HIDE DEF args
    <2>3. ReplyTypes' /\ CallTypes' /\ ToolsLeft'
      BY <2>1, <2>2, StatusType, ToolReturnsTypes DEF Types, ReplyTypes
    <2>4. StoreTypes'
      BY <2>1, <2>2, CreateTypes DEF Types, StoreTypes, storeVars, Bookers
    <2> QED BY <2>3, <2>4 DEF Types
  <1>10. ASSUME NEW r \in Replies, EndCall(r) PROVE Types'
    <2>1. /\ phase[r] = "tools" /\ ToolReturns(r, None) /\ UNCHANGED storeVars
          /\ Head(toolCalls[r]).name = "end_call"
      BY <1>10 DEF EndCall, Calling
    <2>2. Head(toolCalls[r]).reason \in Reasons \cup {"malformed"}
      BY <2>1, FirstToolCall, ReasonType
    <2>3. directive' \in [Replies -> Reasons \cup {None}]
      BY <1>10, <2>2 DEF EndCall, Types, ReplyTypes
    <2>4. ReplyTypes' /\ CallTypes' /\ ToolsLeft'
      BY <2>1, <2>3, ToolReturnsTypes
    <2> QED BY <2>1, <2>4 DEF Types, StoreTypes, storeVars
  <1>11. ASSUME NEW r \in Replies, Speak(r) PROVE Types'
    <2>1. UNCHANGED <<storeVars, heard, toolCalls, callVars>>
      BY <1>11 DEF Speak
    <2>2. CASE Return(r)
      BY <2>1, <2>2, ReturnTypes DEF Types, StoreTypes, CallTypes, storeVars, callVars
    <2>3. CASE /\ phase' = [phase EXCEPT ![r] = "said"]
               /\ UNCHANGED <<offered, round, results, text, directive>>
      BY <2>1, <2>3 DEF Types, StoreTypes, ReplyTypes, CallTypes, ToolsLeft, storeVars, callVars,
                        Phases
    <2> QED BY <1>11, <2>2, <2>3 DEF Speak
  <1>12. ASSUME NEW r \in Replies, Remember(r) PROVE Types'
    <2>1. PICK exchange \in Exchanges(r) :
             history' = [history EXCEPT ![r[1]] = LastMessages(@ \o exchange)]
      BY <1>12 DEF Remember
    <2>2. history' \in [Calls -> Seq(Message)]
      BY <2>1, RememberTypes DEF Types, CallTypes
    <2> QED
      BY <1>12, <2>2 DEF Remember, Types, StoreTypes, ReplyTypes, CallTypes, ToolsLeft, storeVars,
                         Phases
  <1>13. ASSUME NEW r \in Replies, Finish(r) PROVE Types'
    <2>1. Return(r) /\ UNCHANGED <<storeVars, heard, toolCalls, cancelled, history>>
      BY <1>13 DEF Finish
    <2>2. ReplyTypes' /\ ToolsLeft'
      BY <2>1, ReturnTypes
    <2>3. ending' \in [Calls -> Reasons \cup {None}]
      BY <1>13 DEF Finish, Types, ReplyTypes, CallTypes
    <2> QED BY <2>1, <2>2, <2>3 DEF Types, StoreTypes, CallTypes, storeVars
  <1> QED
    BY <1>1, <1>2, <1>3, <1>4, <1>5, <1>6, <1>7, <1>8, <1>9, <1>10, <1>11, <1>12, <1>13
    DEF Next, Run, Ask, RunTool

LEMMA TypesStutter == Types /\ UNCHANGED vars => Types'
  BY DEF Types, StoreTypes, ReplyTypes, CallTypes, ToolsLeft, vars, storeVars, replyVars, callVars

LEMMA TypesInit == Init => Types
  <1> SUFFICES ASSUME Init PROVE Types
    OBVIOUS
  <1>1. StoreTypes /\ CallTypes
    BY DEF Init, StoreTypes, CallTypes
  <1>2. ReplyTypes /\ ToolsLeft
    BY DEF Init, ReplyTypes, ToolsLeft, Phases
  <1> QED BY <1>1, <1>2 DEF Types

\* The state of the store, of every reply and of every call keeps its type,
\* and a reply that runs tools has a tool call to run.
LEMMA AlwaysTypes == Spec => []Types
  <1>1. Types /\ [Next]_vars => Types'
    BY TypesKept, TypesStutter
  <1> QED BY TypesInit, <1>1, PTL DEF Spec

\* Type correctness, for any number of calls, replies and rooms and whatever
\* the LLM makes up; among others, no room type is ever sold below zero
\* (Store.CreateReservation) and no reply asks the LLM more often than
\* maxToolIterations.
THEOREM BookingTypeOK == Spec => []TypeOK
  <1>1. Types => TypeOK
    BY DEF Types, StoreTypes, ReplyTypes, CallTypes, TypeOK
  <1> QED BY <1>1, AlwaysTypes, PTL

-----------------------------------------------------------------------------
(* Rooms and the ledger. *)

\* A step leaves the store alone or is one reservation.
LEMMA StoreSteps ==
    ASSUME Types, [Next]_vars
    PROVE  \/ UNCHANGED storeVars
           \/ \E args \in AnyArguments, by \in Bookers : CreateReservation(args, by)
  <1>1. ASSUME NEW args \in Arguments, BookOverHTTP(args)
        PROVE  \E given \in AnyArguments : CreateReservation(given, HTTP)
    <2> DEFINE given == [args EXCEPT !.kind = IF @ = "malformed" THEN "invalid" ELSE @]
    <2>1. given \in AnyArguments
      BY DEF Arguments, AnyArguments
    <2>2. CreateReservation(given, HTTP)
      BY <1>1 DEF BookOverHTTP
    <2> HIDE DEF given
    <2> QED BY <2>1, <2>2
  <1>2. ASSUME NEW r \in Replies, Reserve(r)
        PROVE  UNCHANGED storeVars \/ \E args \in AnyArguments : CreateReservation(args, r)
    BY <1>2, ReserveCases
  <1>3. ASSUME NEW r \in Replies,
               \/ \E words \in Transcripts : Hear(r, words)
               \/ Interrupt(r) \/ Complete(r) \/ Fails(r) \/ Ask(r) \/ Speak(r)
               \/ Remember(r) \/ Finish(r)
               \/ Unavailable(r) \/ ListRoomTypes(r) \/ EndCall(r)
        PROVE  UNCHANGED storeVars
    BY <1>3 DEF Hear, Interrupt, Complete, Fails, Ask, AskForTools, Answer, Speak, Remember,
                Finish, Unavailable, ListRoomTypes, EndCall
  <1>4. CASE UNCHANGED vars
    BY <1>4 DEF vars
  <1> QED BY <1>1, <1>2, <1>3, <1>4 DEF Next, Run, RunTool, Bookers

\* At first every room is available and nothing is on record.
LEMMA RoomsInit == Init => RoomsConserved
  <1> SUFFICES ASSUME Init PROVE RoomsConserved
    OBVIOUS
  <1>1. \A room \in Rooms : Booked(room) = {}
    BY DEF Init, Booked
  <1>2. Cardinality({}) = 0
    BY FS_EmptySet
  <1>3. \A room \in Rooms : available[room] = Seed[room] /\ Seed[room] \in Nat
    BY DEF Init
  <1>4. ASSUME NEW room \in Rooms
        PROVE  available[room] + Cardinality(Booked(room)) = Seed[room]
    <2>1. Cardinality(Booked(room)) = 0
      BY <1>1, <1>2
    <2> HIDE DEF Booked
    <2> QED BY <2>1, <1>3
  <1>5. DOMAIN reservations = {} /\ Len(reservations) = 0 /\ nextID = 1
    BY DEF Init
  <1> QED BY <1>4, <1>5 DEF RoomsConserved

\* Rooms are conserved: what is available of a room type and what is confirmed
\* of it add up to what the hotel has, whoever books and in whatever order, and
\* the n-th attempt is on record under id n (Store.CreateReservation).
THEOREM BookingRoomsConserved == Spec => []RoomsConserved
  <1>1. Types /\ RoomsConserved /\ [Next]_vars => RoomsConserved'
    <2> SUFFICES ASSUME Types, RoomsConserved, [Next]_vars PROVE RoomsConserved'
      OBVIOUS
    <2>1. CASE UNCHANGED storeVars
      BY <2>1 DEF RoomsConserved, Booked, storeVars
    <2>2. ASSUME NEW args \in AnyArguments, NEW by \in Bookers, CreateReservation(args, by)
          PROVE  RoomsConserved'
      BY <2>2, CreateConserves DEF Types
    <2> QED BY <2>1, <2>2, StoreSteps
  <1> QED BY RoomsInit, <1>1, AlwaysTypes, PTL DEF Spec

\* The store is a ledger of sold rooms that sells one room at a time, none that
\* it does not have, and takes none back.
THEOREM BookingRefinesLedger == Spec => LedgerSpec
  <1> DEFINE sold == [room \in Rooms |-> Seed[room] - available[room]]
  <1>1. Init => Ledger!Init
    BY DEF Init, Ledger!Init
  <1>2. Types /\ RoomsConserved /\ [Next]_vars => [Ledger!Next]_sold
    <2> SUFFICES ASSUME Types, RoomsConserved, [Next]_vars PROVE [Ledger!Next]_sold
      OBVIOUS
    <2>1. CASE UNCHANGED storeVars
      BY <2>1 DEF storeVars
    <2>2. ASSUME NEW args \in AnyArguments, NEW by \in Bookers, CreateReservation(args, by)
          PROVE  [Ledger!Next]_sold
      <3>1. CASE StatusFor(args) # "confirmed"
        BY <2>2, <3>1 DEF CreateReservation
      <3>2. CASE StatusFor(args) = "confirmed"
        <4> DEFINE room == args.room
        <4>1. room \in Rooms /\ ~(available[room] < 1)
          BY <3>2, StatusType
        <4>2. available' = [available EXCEPT ![room] = @ - 1]
          BY <2>2, <3>2 DEF CreateReservation
        <4>3. available \in [Rooms -> Nat]
          BY DEF Types, StoreTypes
        <4> HIDE DEF room
        <4>4. sold' = [sold EXCEPT ![room] = @ + 1]
          <5>1. sold' = [other \in Rooms |-> Seed[other] - available'[other]]
            OBVIOUS
          <5>2. \A other \in Rooms :
                   Seed[other] - available'[other]
                      = IF other = room THEN sold[room] + 1 ELSE sold[other]
            BY <4>1, <4>2, <4>3
          <5>3. [sold EXCEPT ![room] = @ + 1]
                   = [other \in Rooms |-> IF other = room THEN sold[room] + 1 ELSE sold[other]]
            OBVIOUS
          <5> QED BY <5>1, <5>2, <5>3
        <4>5. sold[room] < Seed[room]
          BY <4>1, <4>3
        <4> QED BY <4>1, <4>4, <4>5 DEF Ledger!Next, Ledger!Sell
      <3> QED BY <3>1, <3>2
    <2> QED BY <2>1, <2>2, StoreSteps
  <1> QED BY <1>1, <1>2, AlwaysTypes, BookingRoomsConserved, PTL DEF Spec, LedgerSpec, Ledger!Spec

-----------------------------------------------------------------------------
(* What a reply says of its bookings. *)

\* The latest result and the text of a reply agree with the store, and a reply
\* has no text before the LLM has answered.
Confirmations ==
    \A r \in Replies :
        /\ LatestConfirmed(r) => Backed(r)
        /\ "confirmed" \in text[r] => Backed(r)
        /\ text[r] # {} => phase[r] \in {"speak", "said", "drain"}

\* A reservation by somebody else leaves what r has booked as it was.
LEMMA BackedByOthers ==
    ASSUME StoreTypes, NEW args \in AnyArguments, NEW by \in Bookers,
           CreateReservation(args, by), NEW r \in Replies, r # by, Backed(r)
    PROVE  Backed(r)'
  <1>1. By(r)' = By(r)
    BY CreateAppends DEF By
  <1>2. \A i \in By(r) : reservations'[i].status = reservations[i].status
    BY CreateAppends DEF By
  <1>3. PICK i \in By(r) : reservations[i].status = "confirmed" /\ \A j \in By(r) : j <= i
    BY DEF Backed
  <1> QED BY <1>1, <1>2, <1>3 DEF Backed

\* A confirmed reservation is the latest of its reply.
LEMMA BackedByOwn ==
    ASSUME StoreTypes, NEW args \in AnyArguments, NEW r \in Replies,
           CreateReservation(args, r), StatusFor(args) = "confirmed"
    PROVE  Backed(r)'
  <1> DEFINE n == Len(reservations) + 1
  <1>1. n \in By(r)' /\ reservations'[n].status = "confirmed"
    BY CreateAppends DEF By, Bookers
  <1>2. \A j \in By(r)' : j <= n
    BY CreateAppends DEF By, Bookers
  <1> QED BY <1>1, <1>2 DEF Backed

\* What most steps do: the store stays, results stay or are dropped, and a text
\* stays with its reply where it is, or is dropped.
Quiet ==
    /\ UNCHANGED storeVars
    /\ \A q \in Replies : results'[q] = results[q] \/ results'[q] = <<>>
    /\ \A q \in Replies :
          \/ text'[q] = {}
          \/ /\ text'[q] = text[q]
             /\ phase'[q] = phase[q] \/ phase'[q] \in {"speak", "said", "drain"}

LEMMA QuietStep ==
    ASSUME Confirmations, Quiet
    PROVE  Confirmations'
  <1>1. \A q \in Replies : Backed(q)' <=> Backed(q)
    BY DEF Quiet, Backed, By, storeVars
  <1>2. ASSUME NEW q \in Replies PROVE LatestConfirmed(q)' => LatestConfirmed(q)
    BY DEF Quiet, LatestConfirmed
  <1> QED BY <1>1, <1>2 DEF Quiet, Confirmations

\* The status that a tool call returns is the latest result.
LEMMA LatestResult ==
    ASSUME Types, NEW r \in Replies, NEW status \in Statuses \cup {None},
           ToolReturns(r, status), Head(toolCalls[r]).name = "create_reservation"
    PROVE  /\ LatestConfirmed(r)' => status = "confirmed"
           /\ \A q \in Replies : q # r => (LatestConfirmed(q)' <=> LatestConfirmed(q))
  <1>1. results' = [results EXCEPT ![r] = Append(@, status)]
    BY DEF ToolReturns
  <1>2. results[r] \in Seq(Statuses \cup {None})
    BY DEF Types, ReplyTypes
  <1>3. results'[r] = Append(results[r], status)
    BY <1>1 DEF Types, ReplyTypes
  <1>4. Len(results'[r]) = Len(results[r]) + 1 /\ results'[r][Len(results[r]) + 1] = status
    BY <1>2, <1>3
  <1> QED BY <1>1, <1>4 DEF LatestConfirmed, Types, ReplyTypes

\* A reply that answers sounds confirmed only on its latest result.
LEMMA FinalizedConfirmed ==
    ASSUME NEW r \in Replies, NEW content \in Contents, "confirmed" \in Finalized(r, content)
    PROVE  LatestConfirmed(r)
  BY DEF Finalized

LEMMA ConfirmationsKept ==
    ASSUME Types, Confirmations, [Next]_vars
    PROVE  Confirmations'
  <1>1. ASSUME NEW args \in Arguments, BookOverHTTP(args) PROVE Confirmations'
    <2> DEFINE given == [args EXCEPT !.kind = IF @ = "malformed" THEN "invalid" ELSE @]
    <2>1. given \in AnyArguments
      BY DEF Arguments, AnyArguments
    <2>2. CreateReservation(given, HTTP) /\ UNCHANGED <<replyVars, callVars>>
      BY <1>1 DEF BookOverHTTP
    <2> HIDE DEF given
    <2>3. \A r \in Replies : Backed(r) => Backed(r)'
      BY <2>1, <2>2, BackedByOthers DEF Types, Bookers, Replies
    <2> QED BY <2>2, <2>3 DEF Confirmations, LatestConfirmed, replyVars
  <1>2. ASSUME NEW r \in Replies, NEW words \in Transcripts, Hear(r, words) PROVE Confirmations'
    <2>1. text[r] = {}
      BY <1>2 DEF Hear, Confirmations
    <2>2. UNCHANGED <<storeVars, results, text>>
      BY <1>2 DEF Hear
    <2>3. \A q \in Replies : q # r => phase'[q] = phase[q]
      BY <1>2 DEF Hear, Types, ReplyTypes
    <2>4. Quiet
      BY <2>1, <2>2, <2>3 DEF Quiet
    <2> QED BY <2>4, QuietStep
  <1>3. ASSUME NEW r \in Replies, Interrupt(r) PROVE Confirmations'
    <2>1. Quiet
      BY <1>3 DEF Interrupt, replyVars, Quiet
    <2> QED BY <2>1, QuietStep
  <1>4. ASSUME NEW r \in Replies, Complete(r) PROVE Confirmations'
    <2>1. text[r] = {}
      BY <1>4 DEF Complete, Confirmations
    <2>2. UNCHANGED <<storeVars, results, text>>
      BY <1>4 DEF Complete
    <2>3. \A q \in Replies : q # r => phase'[q] = phase[q]
      BY <1>4 DEF Complete, Types, ReplyTypes
    <2>4. Quiet
      BY <2>1, <2>2, <2>3 DEF Quiet
    <2> QED BY <2>4, QuietStep
  <1>5. ASSUME NEW r \in Replies, Return(r), UNCHANGED storeVars PROVE Confirmations'
    <2>1. /\ results'[r] = <<>> /\ text'[r] = {}
          /\ \A q \in Replies : q # r => /\ results'[q] = results[q] /\ text'[q] = text[q]
                                        /\ phase'[q] = phase[q]
      BY <1>5 DEF Return, Types, ReplyTypes
    <2>2. Quiet
      BY <1>5, <2>1 DEF Quiet
    <2> QED BY <2>2, QuietStep
  <1>6. ASSUME NEW r \in Replies, NEW calls \in ToolMessages, AskForTools(r, calls)
        PROVE  Confirmations'
    <2>1. text[r] = {}
      BY <1>6 DEF AskForTools, CanAsk, Confirmations
    <2>2. UNCHANGED <<storeVars, results, text>>
      BY <1>6 DEF AskForTools
    <2>3. \A q \in Replies : q # r => phase'[q] = phase[q]
      BY <1>6 DEF AskForTools, Types, ReplyTypes
    <2>4. Quiet
      BY <2>1, <2>2, <2>3 DEF Quiet
    <2> QED BY <2>4, QuietStep
  <1>7. ASSUME NEW r \in Replies, NEW content \in Contents, Answer(r, content)
        PROVE  Confirmations'
    <2>1. /\ UNCHANGED <<storeVars, results>>
          /\ text' = [text EXCEPT ![r] = Finalized(r, content)]
          /\ phase' = [phase EXCEPT ![r] = "speak"]
      BY <1>7 DEF Answer
    <2>2. \A q \in Replies : /\ Backed(q)' <=> Backed(q)
                             /\ LatestConfirmed(q)' <=> LatestConfirmed(q)
      BY <2>1 DEF Backed, By, LatestConfirmed, storeVars
    <2>3. "confirmed" \in text'[r] => Backed(r)
      BY <2>1, FinalizedConfirmed DEF Confirmations, Types, ReplyTypes
    <2>4. phase'[r] = "speak" /\ \A q \in Replies : q # r => text'[q] = text[q] /\ phase'[q] = phase[q]
      BY <2>1 DEF Types, ReplyTypes
    <2> QED BY <2>2, <2>3, <2>4 DEF Confirmations
  <1>8. ASSUME NEW r \in Replies, Unavailable(r) \/ ListRoomTypes(r) \/ EndCall(r)
        PROVE  Confirmations'
    <2>1. phase[r] = "tools" /\ ToolReturns(r, None) /\ UNCHANGED storeVars
      BY <1>8 DEF Unavailable, ListRoomTypes, EndCall, Calling
    <2>2. text[r] = {} /\ text' = text
      BY <2>1 DEF Confirmations, ToolReturns
    <2>3. \A q \in Replies : q # r => phase'[q] = phase[q]
      BY <2>1 DEF ToolReturns, Types, ReplyTypes
    <2>4. \A q \in Replies : LatestConfirmed(q)' => LatestConfirmed(q)
      <3>1. CASE Head(toolCalls[r]).name = "create_reservation"
        BY <2>1, <3>1, LatestResult DEF Statuses, None
      <3>2. CASE Head(toolCalls[r]).name # "create_reservation"
        BY <2>1, <3>2 DEF ToolReturns, LatestConfirmed
      <3> QED BY <3>1, <3>2
    <2>5. \A q \in Replies : Backed(q)' <=> Backed(q)
      BY <2>1 DEF Backed, By, storeVars
    <2> QED BY <2>2, <2>3, <2>4, <2>5 DEF Confirmations
  <1>9. ASSUME NEW r \in Replies, Reserve(r) PROVE Confirmations'
    <2> DEFINE args == Head(toolCalls[r]).args
    <2>1. /\ phase[r] = "tools" /\ args \in AnyArguments
          /\ Head(toolCalls[r]).name = "create_reservation"
          /\ \/ ToolReturns(r, None) /\ UNCHANGED storeVars
             \/ CreateReservation(args, r) /\ ToolReturns(r, StatusFor(args))
      BY <1>9, ReserveCases
    <2> HIDE DEF args
    <2>2. text[r] = {} /\ text' = text
      BY <2>1 DEF Confirmations, ToolReturns
    <2>3. \A q \in Replies : q # r => phase'[q] = phase[q]
      BY <2>1 DEF ToolReturns, Types, ReplyTypes
    <2>4. ASSUME NEW q \in Replies, q # r
          PROVE  (LatestConfirmed(q)' => LatestConfirmed(q)) /\ (Backed(q) => Backed(q)')
      <3>1. CASE ToolReturns(r, None) /\ UNCHANGED storeVars
        BY <2>1, <2>4, <3>1, LatestResult DEF Backed, By, storeVars
      <3>2. CASE CreateReservation(args, r) /\ ToolReturns(r, StatusFor(args))
        BY <2>1, <2>4, <3>2, LatestResult, StatusType, BackedByOthers DEF Types, Bookers
      <3> QED BY <2>1, <3>1, <3>2
    <2>5. LatestConfirmed(r)' => Backed(r)'
      <3>1. CASE ToolReturns(r, None) /\ UNCHANGED storeVars
        BY <2>1, <3>1, LatestResult DEF Statuses, None
      <3>2. CASE CreateReservation(args, r) /\ ToolReturns(r, StatusFor(args))
        BY <2>1, <3>2, LatestResult, StatusType, BackedByOwn DEF Types
      <3> QED BY <2>1, <3>1, <3>2
    <2>6. ASSUME NEW q \in Replies, q # r
          PROVE  /\ LatestConfirmed(q)' => Backed(q)'
                 /\ "confirmed" \in text'[q] => Backed(q)'
                 /\ text'[q] # {} => phase'[q] \in {"speak", "said", "drain"}
      <3>1. (LatestConfirmed(q)' => LatestConfirmed(q)) /\ (Backed(q) => Backed(q)')
        BY <2>4, <2>6
      <3>2. /\ LatestConfirmed(q) => Backed(q)
            /\ "confirmed" \in text[q] => Backed(q)
            /\ text[q] # {} => phase[q] \in {"speak", "said", "drain"}
        BY DEF Confirmations
      <3> QED BY <2>2, <2>3, <2>6, <3>1, <3>2
    <2>7. \A q \in Replies : /\ LatestConfirmed(q)' => Backed(q)'
                             /\ "confirmed" \in text'[q] => Backed(q)'
                             /\ text'[q] # {} => phase'[q] \in {"speak", "said", "drain"}
      BY <2>2, <2>5, <2>6
    <2> QED BY <2>7 DEF Confirmations
  <1>10. ASSUME NEW r \in Replies, phase' = [phase EXCEPT ![r] = "said"] \/
                                   phase' = [phase EXCEPT ![r] = "drain"],
                UNCHANGED <<storeVars, results, text>>
         PROVE  Confirmations'
    <2>1. Quiet
      BY <1>10 DEF Types, ReplyTypes, Quiet
    <2> QED BY <2>1, QuietStep
  <1>11. CASE UNCHANGED vars
    BY <1>11 DEF Confirmations, LatestConfirmed, Backed, By, vars, storeVars, replyVars
  <1>12. ASSUME NEW r \in Replies, Fails(r) \/ Speak(r) \/ Remember(r) \/ Finish(r)
         PROVE  Confirmations'
    BY <1>5, <1>10, <1>12 DEF Fails, Speak, Remember, Finish
  <1> QED
    BY <1>1, <1>2, <1>3, <1>4, <1>6, <1>7, <1>8, <1>9, <1>11, <1>12
    DEF Next, Run, Ask, RunTool

LEMMA AlwaysConfirmations == Spec => []Confirmations
  <1>1. Init => Confirmations
    BY DEF Init, Confirmations, LatestConfirmed
  <1>2. Types /\ Confirmations /\ [Next]_vars => Confirmations'
    BY ConfirmationsKept
  <1> QED BY <1>1, <1>2, AlwaysTypes, PTL DEF Spec

\* Whatever the LLM makes up, and whoever books meanwhile: a reply that sounds
\* as if it had booked has, and its latest attempt is the one
\* (hotelBookingConfirmationFinalizer).
THEOREM BookingConfirmationIsBacked == Spec => []ConfirmationIsBacked
  <1>1. Confirmations => ConfirmationIsBacked
    BY DEF Confirmations, ConfirmationIsBacked
  <1> QED BY <1>1, AlwaysConfirmations, PTL

\* A call that ends as booked was booked by the reply that ends it, unless that
\* reply spoke of a confirmation number (shouldScheduleEndCall).
THEOREM BookingUnbackedEnding == Spec => UnbackedEndingNamesNumber
  <1> DEFINE Ends(call) ==
        ending[call] = None /\ ending'[call] = "reservation_confirmed" =>
          \E r \in Replies : /\ r[1] = call /\ phase[r] = "drain"
                             /\ (Backed(r) \/ "number" \in text[r])
  <1>1. ASSUME Types, Confirmations, Next, NEW call \in Calls PROVE Ends(call)
    <2>1. CASE ending' = ending
      BY <2>1 DEF None
    <2>2. ASSUME NEW r \in Replies, Finish(r) PROVE Ends(call)
      <3> SUFFICES ASSUME ending[call] = None, ending'[call] = "reservation_confirmed"
                   PROVE  r[1] = call /\ phase[r] = "drain" /\ (Backed(r) \/ "number" \in text[r])
        OBVIOUS
      <3>1. /\ Terminal(text[r], directive[r]) /\ phase[r] = "drain"
            /\ ending' = [ending EXCEPT ![r[1]] = directive[r]]
        BY <2>2 DEF Finish, None
      <3>2. r[1] = call /\ directive[r] = "reservation_confirmed"
        BY <1>1, <3>1 DEF Types, CallTypes, None
      <3>3. "confirmed" \in text[r] \/ "number" \in text[r]
        BY <3>1, <3>2 DEF Terminal
      <3> QED BY <1>1, <3>1, <3>2, <3>3 DEF Confirmations
    <2>3. ASSUME NEW args \in Arguments, BookOverHTTP(args) PROVE ending' = ending
      BY <2>3 DEF BookOverHTTP, callVars
    <2>4. ASSUME NEW r \in Replies,
                 \/ \E words \in Transcripts : Hear(r, words)
                 \/ Interrupt(r) \/ Complete(r) \/ Fails(r) \/ Ask(r) \/ Speak(r) \/ Remember(r)
          PROVE  ending' = ending
      BY <2>4 DEF Hear, Interrupt, Complete, Fails, Ask, AskForTools, Answer, Speak, Remember,
                  callVars
    <2>5. ASSUME NEW r \in Replies, RunTool(r) PROVE ending' = ending
      <3>1. \E status \in {None, StatusFor(Head(toolCalls[r]).args)} : ToolReturns(r, status)
        BY <2>5 DEF RunTool, Unavailable, ListRoomTypes, Reserve, EndCall
      <3> QED BY <3>1 DEF ToolReturns, callVars
    <2> QED BY <1>1, <2>1, <2>2, <2>3, <2>4, <2>5 DEF Next, Run
  <1>2. Types /\ Confirmations /\ [Next]_vars => [\A call \in Calls : Ends(call)]_ending
    BY <1>1 DEF vars, callVars
  <1> QED BY <1>2, AlwaysTypes, AlwaysConfirmations, PTL DEF Spec, UnbackedEndingNamesNumber

-----------------------------------------------------------------------------
(* Who has asked for a booking. *)

\* What NoBookingWithoutRequest says of a reply.
Asked(r) ==
    /\ heard[r] \cap {"details", "phone"} # {}
    /\ \E q \in Replies : q[1] = r[1] /\ q[2] <= r[2] /\ "intent" \in heard[q]

HeardOnce == \A r \in Replies : phase[r] = "idle" => heard[r] = {}

OnlyLatestRuns ==
    \A r, q \in Replies : q[1] = r[1] /\ r[2] < q[2] /\ phase[q] # "idle" => r \in cancelled

WasHeard(call, message) ==
    message.role = "user" =>
        \E q \in Replies : q[1] = call /\ phase[q] # "idle" /\ heard[q] = message.words

HistoryWasHeard ==
    \A call \in Calls : \A i \in DOMAIN history[call] : WasHeard(call, history[call][i])

\* A reply that was superseded before it read the history may find later
\* transcripts in it, but cannot ask the LLM any more.
OfferedWhenAsked ==
    \A r \in Replies : "create_reservation" \in offered[r] =>
        Asked(r) \/ (phase[r] = "ask" /\ r \in cancelled)

BookedWhenAsked ==
    \A i \in DOMAIN reservations : reservations[i].by # HTTP => Asked(reservations[i].by)

Requests == /\ HeardOnce /\ OnlyLatestRuns /\ HistoryWasHeard
            /\ OfferedWhenAsked /\ BookedWhenAsked

\* Most steps: nothing is heard, remembered or booked, and a reply that was
\* offered create_reservation goes on only if it was asked.
Unasked ==
    /\ UNCHANGED <<heard, history, reservations>>
    /\ cancelled \subseteq cancelled'
    /\ \A q \in Replies : phase'[q] = "idle" <=> phase[q] = "idle"
    /\ \A q \in Replies :
          \/ offered'[q] = {}
          \/ /\ offered'[q] = offered[q]
             /\ phase'[q] = phase[q] \/ ("create_reservation" \in offered[q] => Asked(q))

LEMMA UnaskedStep ==
    ASSUME Requests, Unasked
    PROVE  Requests'
  <1>1. \A r \in Replies : Asked(r)' <=> Asked(r)
    BY DEF Unasked, Asked
  <1>2. HeardOnce' /\ OnlyLatestRuns'
    BY DEF Unasked, Requests, HeardOnce, OnlyLatestRuns
  <1>3. HistoryWasHeard'
    BY DEF Unasked, Requests, HistoryWasHeard, WasHeard
  <1>4. OfferedWhenAsked'
    BY <1>1 DEF Unasked, Requests, OfferedWhenAsked
  <1>5. BookedWhenAsked'
    BY DEF Unasked, Requests, BookedWhenAsked, Asked
  <1> QED BY <1>2, <1>3, <1>4, <1>5 DEF Requests

\* One reply moves on, past the request that a cancelled one cannot send.
LEMMA MovingStep ==
    ASSUME Types, Requests, NEW r \in Replies, NEW place \in Phases \ {"idle"},
           phase[r] # "idle", phase[r] # "ask" \/ r \notin cancelled,
           phase' = [phase EXCEPT ![r] = place] \/ phase' = phase,
           UNCHANGED <<heard, history, reservations, cancelled, offered>>
    PROVE  Requests'
  <1>1. "create_reservation" \in offered[r] => Asked(r)
    BY DEF Requests, OfferedWhenAsked
  <1>2. \A q \in Replies : q # r => phase'[q] = phase[q]
    BY DEF Types, ReplyTypes
  <1>3. phase'[r] # "idle"
    BY DEF Types, ReplyTypes
  <1>4. Unasked
    BY <1>1, <1>2, <1>3 DEF Unasked
  <1> QED BY <1>4, UnaskedStep

\* A message of the shortened history was in the history.
LEMMA LastMessagesAreMessages ==
    ASSUME NEW messages \in Seq(Message), NEW i \in DOMAIN LastMessages(messages)
    PROVE  \E j \in DOMAIN messages : LastMessages(messages)[i] = messages[j]
  <1>1. CASE Len(messages) <= MaxHistory
    BY <1>1 DEF LastMessages
  <1>2. CASE ~(Len(messages) <= MaxHistory)
    <2> DEFINE first == Len(messages) - MaxHistory + 1
    <2>1. Len(messages) \in Nat /\ DOMAIN messages = 1 .. Len(messages)
      BY LenProperties
    <2>2. first \in Int /\ first >= 1
      BY <1>2, <2>1
    <2>3. LastMessages(messages) = SubSeq(messages, first, Len(messages))
      BY <1>2 DEF LastMessages
    <2> HIDE DEF first
    <2>4. \A j \in first .. Len(messages) : messages[j] \in Message
      BY <2>1, <2>2
    <2>5. SubSeq(messages, first, Len(messages)) \in Seq(Message)
          /\ Len(SubSeq(messages, first, Len(messages)))
                = (IF first <= Len(messages) THEN Len(messages) - first + 1 ELSE 0)
          /\ \A j \in 1 .. Len(messages) - first + 1 :
                SubSeq(messages, first, Len(messages))[j] = messages[first + j - 1]
      BY <2>1, <2>2, <2>4, SubSeqProperties
    <2>6. i \in 1 .. Len(messages) - first + 1
      BY <2>1, <2>2, <2>3, <2>5, LenProperties
    <2>7. first + i - 1 \in DOMAIN messages
      BY <2>1, <2>2, <2>6
    <2> QED BY <2>3, <2>5, <2>6, <2>7
  <1> QED BY <1>1, <1>2

\* rememberExchange adds a transcript that was heard.
LEMMA RememberWasHeard ==
    ASSUME Types, HistoryWasHeard, NEW r \in Replies, phase[r] # "idle",
           NEW exchange \in Exchanges(r),
           NEW i \in DOMAIN LastMessages(history[r[1]] \o exchange)
    PROVE  WasHeard(r[1], LastMessages(history[r[1]] \o exchange)[i])
  <1> DEFINE user == [role |-> "user", words |-> heard[r]]
             bot  == [role |-> "assistant", words |-> {}]
             past == history[r[1]]
  <1>1. r[1] \in Calls /\ heard[r] \in SUBSET Words
    BY DEF Types, ReplyTypes, Replies
  <1>2. user \in Message /\ bot \in Message
    BY <1>1 DEF Message
  <1>3. exchange = <<user, bot>> \/ exchange = <<user>>
    BY DEF Exchanges
  <1>4. WasHeard(r[1], user) /\ WasHeard(r[1], bot)
    BY DEF WasHeard
  <1>5. \A j \in DOMAIN past : WasHeard(r[1], past[j])
    BY <1>1 DEF HistoryWasHeard
  <1>6. past \in Seq(Message)
    BY <1>1 DEF Types, CallTypes
  <1> HIDE DEF user, bot, past
  <1>7. exchange \in Seq(Message) /\ \A j \in DOMAIN exchange : exchange[j] \in {user, bot}
    <2>1. CASE exchange = <<user>>
      BY <2>1, <1>2
    <2>2. CASE exchange = <<user, bot>>
      BY <2>2, <1>2
    <2> QED BY <1>3, <2>1, <2>2
  <1>8. past \o exchange \in Seq(Message)
    BY <1>6, <1>7, ConcatProperties
  <1>9. ASSUME NEW j \in DOMAIN (past \o exchange) PROVE WasHeard(r[1], (past \o exchange)[j])
    <2>1. j \in 1 .. Len(past) + Len(exchange) /\ Len(past) \in Nat /\ Len(exchange) \in Nat
      BY <1>6, <1>7, <1>8, ConcatProperties, LenProperties
    <2>2. CASE j <= Len(past)
      <3>1. (past \o exchange)[j] = past[j] /\ j \in DOMAIN past
        BY <1>6, <1>7, <2>1, <2>2, ConcatProperties, LenProperties
      <3> QED BY <3>1, <1>5
    <2>3. CASE ~(j <= Len(past))
      <3>1. /\ (past \o exchange)[j] = exchange[j - Len(past)]
            /\ j - Len(past) \in DOMAIN exchange
        BY <1>6, <1>7, <2>1, <2>3, ConcatProperties, LenProperties
      <3> QED BY <3>1, <1>4, <1>7
    <2> QED BY <2>2, <2>3
  <1>10. PICK j \in DOMAIN (past \o exchange) :
            LastMessages(past \o exchange)[i] = (past \o exchange)[j]
    BY <1>8, LastMessagesAreMessages DEF past
  <1> QED BY <1>9, <1>10 DEF past

LEMMA RequestsKept ==
    ASSUME Types, Requests, [Next]_vars
    PROVE  Requests'
  <1>1. ASSUME NEW args \in AnyArguments, NEW by \in Bookers, CreateReservation(args, by),
               by # HTTP => Asked(by), heard' = heard
        PROVE  BookedWhenAsked'
    <2>1. \A i \in DOMAIN reservations' : reservations'[i].by # HTTP => Asked(reservations'[i].by)
      BY <1>1, CreateAppends DEF Types, Requests, BookedWhenAsked
    <2> QED BY <1>1, <2>1 DEF BookedWhenAsked, Asked
  <1>2. ASSUME NEW args \in Arguments, BookOverHTTP(args) PROVE Requests'
    <2> DEFINE given == [args EXCEPT !.kind = IF @ = "malformed" THEN "invalid" ELSE @]
    <2>1. given \in AnyArguments
      BY DEF Arguments, AnyArguments
    <2>2. CreateReservation(given, HTTP) /\ UNCHANGED <<replyVars, callVars>>
      BY <1>2 DEF BookOverHTTP
    <2> HIDE DEF given
    <2>3. BookedWhenAsked'
      BY <1>1, <2>1, <2>2 DEF Bookers, replyVars
    <2> QED
      BY <2>2, <2>3 DEF Requests, HeardOnce, OnlyLatestRuns, HistoryWasHeard, WasHeard,
                        OfferedWhenAsked, Asked, replyVars, callVars
  <1>3. ASSUME NEW r \in Replies, NEW words \in Transcripts, Hear(r, words) PROVE Requests'
    <2>1. /\ phase[r] = "idle" /\ heard[r] = {}
          /\ phase'[r] = "start"
          /\ \A q \in Replies : q # r => phase'[q] = phase[q] /\ heard'[q] = heard[q]
          /\ cancelled' = cancelled \cup {q \in Replies : q[1] = r[1] /\ q[2] < r[2]}
          /\ UNCHANGED <<history, offered, reservations>>
      BY <1>3 DEF Hear, Types, ReplyTypes, Requests, HeardOnce, storeVars
    <2>2. \A q \in Replies : Asked(q) => Asked(q)'
      BY <2>1 DEF Asked
    <2>3. HeardOnce' /\ OnlyLatestRuns'
      BY <2>1 DEF Requests, HeardOnce, OnlyLatestRuns
    <2>4. HistoryWasHeard'
      BY <2>1 DEF Requests, HistoryWasHeard, WasHeard
    <2>5. OfferedWhenAsked'
      BY <2>1, <2>2 DEF Requests, OfferedWhenAsked
    <2>6. \A i \in DOMAIN reservations : reservations[i].by \in Bookers
      <3>1. \A i \in DOMAIN reservations : reservations[i] \in Reservation
        BY DEF Types, StoreTypes
      <3> QED BY <3>1 DEF Reservation, Bookers
    <2>7. BookedWhenAsked'
      BY <2>1, <2>2, <2>6 DEF Requests, BookedWhenAsked, Bookers
    <2> QED BY <2>3, <2>4, <2>5, <2>7 DEF Requests
  <1>4. ASSUME NEW r \in Replies, Interrupt(r) PROVE Requests'
    <2>1. Unasked
      BY <1>4 DEF Interrupt, Unasked, storeVars, replyVars
    <2> QED BY <2>1, UnaskedStep
  <1>5. ASSUME NEW r \in Replies, Complete(r) PROVE Requests'
    <2>1. /\ phase[r] = "start" /\ phase'[r] = "ask"
          /\ \A q \in Replies : q # r => phase'[q] = phase[q] /\ offered'[q] = offered[q]
          /\ offered'[r] = ToolsFor(heard[r], history[r[1]])
          /\ UNCHANGED <<heard, history, reservations, cancelled>>
      BY <1>5 DEF Complete, Types, ReplyTypes, storeVars, callVars
    <2>2. \A q \in Replies : Asked(q)' <=> Asked(q)
      BY <2>1 DEF Asked
    <2>3. ASSUME "create_reservation" \in offered'[r] PROVE Asked(r) \/ r \in cancelled
      <3>1. NeedsReservation(heard[r], history[r[1]])
        BY <2>1, <2>3 DEF ToolsFor
      <3>2. heard[r] \cap {"details", "phone"} # {}
        BY <3>1 DEF NeedsReservation
      <3>3. CASE "intent" \in heard[r]
        <4>1. r[2] <= r[2]
          BY DEF Replies
        <4> QED BY <3>2, <3>3, <4>1 DEF Asked
      <3>4. CASE "intent" \notin heard[r]
        <4>1. PICK i \in DOMAIN history[r[1]] : /\ history[r[1]][i].role = "user"
                                                /\ "intent" \in history[r[1]][i].words
          BY <3>1, <3>4 DEF NeedsReservation
        <4>2. r[1] \in Calls
          BY DEF Replies
        <4>3. PICK q \in Replies : /\ q[1] = r[1] /\ phase[q] # "idle"
                                   /\ heard[q] = history[r[1]][i].words
          BY <4>1, <4>2 DEF Requests, HistoryWasHeard, WasHeard
        <4>4. q[2] <= r[2] \/ r[2] < q[2]
          BY DEF Replies
        <4> QED BY <3>2, <4>1, <4>3, <4>4 DEF Asked, Requests, OnlyLatestRuns
      <3> QED BY <3>3, <3>4
    <2>4. OfferedWhenAsked'
      BY <2>1, <2>2, <2>3 DEF Requests, OfferedWhenAsked
    <2>5. HeardOnce' /\ OnlyLatestRuns'
      BY <2>1 DEF Requests, HeardOnce, OnlyLatestRuns
    <2>6. HistoryWasHeard' /\ BookedWhenAsked'
      BY <2>1 DEF Requests, HistoryWasHeard, WasHeard, BookedWhenAsked, Asked
    <2> QED BY <2>4, <2>5, <2>6 DEF Requests
  <1>6. ASSUME NEW r \in Replies, phase[r] # "idle", Return(r),
               UNCHANGED <<heard, history, reservations, cancelled>>
        PROVE  Requests'
    <2>1. Unasked
      BY <1>6 DEF Return, Unasked, Types, ReplyTypes
    <2> QED BY <2>1, UnaskedStep
  <1>7. ASSUME NEW r \in Replies, Fails(r) \/ Speak(r) \/ Finish(r) PROVE Requests'
    <2>1. CASE Return(r)
      BY <1>6, <1>7, <2>1 DEF Fails, Speak, Finish, storeVars, callVars
    <2>2. CASE Speak(r) /\ ~Return(r)
      BY <2>2, MovingStep DEF Speak, storeVars, callVars, Phases
    <2> QED BY <1>7, <2>1, <2>2 DEF Fails, Finish
  <1>8. ASSUME NEW r \in Replies, Ask(r) PROVE Requests'
    BY <1>8, MovingStep DEF Ask, AskForTools, Answer, CanAsk, storeVars, callVars, Phases
  <1>9. ASSUME NEW r \in Replies, phase[r] = "tools", NEW status, ToolReturns(r, status),
               UNCHANGED reservations
        PROVE  Requests'
    BY <1>9, MovingStep DEF ToolReturns, callVars, Phases, Types, ReplyTypes
  <1>10. ASSUME NEW r \in Replies, Unavailable(r) \/ ListRoomTypes(r) \/ EndCall(r)
         PROVE  Requests'
    BY <1>9, <1>10 DEF Unavailable, ListRoomTypes, EndCall, Calling, storeVars
  <1>11. ASSUME NEW r \in Replies, Reserve(r) PROVE Requests'
    <2> DEFINE args == Head(toolCalls[r]).args
    <2>1. /\ phase[r] = "tools" /\ args \in AnyArguments
          /\ "create_reservation" \in offered[r]
          /\ \/ ToolReturns(r, None) /\ UNCHANGED storeVars
             \/ CreateReservation(args, r) /\ ToolReturns(r, StatusFor(args))
      BY <1>11, ReserveCases
    <2> HIDE DEF args
    <2>2. CASE ToolReturns(r, None) /\ UNCHANGED storeVars
      BY <1>9, <2>1, <2>2 DEF storeVars
    <2>3. CASE CreateReservation(args, r) /\ ToolReturns(r, StatusFor(args))
      <3>1. Asked(r)
        BY <2>1 DEF Requests, OfferedWhenAsked
      <3>2. /\ UNCHANGED <<heard, history, cancelled, offered>>
            /\ \A q \in Replies : q # r => phase'[q] = phase[q]
            /\ phase'[r] \in {"ask", "tools"}
        BY <2>1, <2>3 DEF ToolReturns, callVars, Types, ReplyTypes
      <3>3. BookedWhenAsked'
        BY <1>1, <2>1, <2>3, <3>1, <3>2 DEF Bookers
      <3>4. \A q \in Replies : Asked(q)' <=> Asked(q)
        BY <3>2 DEF Asked
      <3>5. OfferedWhenAsked'
        BY <3>1, <3>2, <3>4 DEF Requests, OfferedWhenAsked
      <3>6. HeardOnce' /\ OnlyLatestRuns' /\ HistoryWasHeard'
        BY <2>1, <3>2 DEF Requests, HeardOnce, OnlyLatestRuns, HistoryWasHeard, WasHeard
      <3> QED BY <3>3, <3>5, <3>6 DEF Requests
    <2> QED BY <2>1, <2>2, <2>3
  <1>12. ASSUME NEW r \in Replies, Remember(r) PROVE Requests'
    <2>1. PICK exchange \in Exchanges(r) :
             history' = [history EXCEPT ![r[1]] = LastMessages(@ \o exchange)]
      BY <1>12 DEF Remember
    <2>2. /\ phase[r] = "said" /\ phase'[r] = "drain"
          /\ \A q \in Replies : q # r => phase'[q] = phase[q]
          /\ UNCHANGED <<heard, offered, reservations, cancelled>>
      BY <1>12 DEF Remember, Types, ReplyTypes, storeVars
    <2>3. r[1] \in Calls
      BY DEF Replies
    <2>4. ASSUME NEW call \in Calls, NEW i \in DOMAIN history'[call]
          PROVE  WasHeard(call, history'[call][i])
      <3>1. CASE call = r[1]
        <4>1. history'[call] = LastMessages(history[r[1]] \o exchange)
          BY <2>1, <2>3, <3>1 DEF Types, CallTypes
        <4> QED BY <2>2, <3>1, <4>1, RememberWasHeard DEF Requests
      <3>2. CASE call # r[1]
        <4>1. history'[call] = history[call]
          BY <2>1, <3>2 DEF Types, CallTypes
        <4> QED BY <4>1 DEF Requests, HistoryWasHeard
      <3> QED BY <3>1, <3>2
    <2>5. HistoryWasHeard'
      BY <2>2, <2>4 DEF HistoryWasHeard, WasHeard
    <2>6. \A q \in Replies : Asked(q)' <=> Asked(q)
      BY <2>2 DEF Asked
    <2>7. OfferedWhenAsked'
      BY <2>2, <2>6 DEF Requests, OfferedWhenAsked
    <2>8. HeardOnce' /\ OnlyLatestRuns'
      BY <2>2 DEF Requests, HeardOnce, OnlyLatestRuns
    <2>9. BookedWhenAsked'
      BY <2>2 DEF Requests, BookedWhenAsked, Asked
    <2> QED BY <2>5, <2>7, <2>8, <2>9 DEF Requests
  <1>13. CASE UNCHANGED vars
    <2>1. Unasked
      BY <1>13 DEF Unasked, vars, storeVars, replyVars, callVars
    <2> QED BY <2>1, UnaskedStep
  <1> QED
    BY <1>2, <1>3, <1>4, <1>5, <1>7, <1>8, <1>10, <1>11, <1>12, <1>13
    DEF Next, Run, RunTool

\* A reply books, or tries to, only when the user has given details or a number
\* and has spoken of booking by then, however the LLM's tool calls, the replies
\* of the call and their cancellation interleave (hotelQueryNeedsReservation,
\* findTool, and the context of sendChatRequest).
THEOREM BookingWhenRequested == Spec => []NoBookingWithoutRequest
  <1>1. Init => Requests
    BY DEF Init, Requests, HeardOnce, OnlyLatestRuns, HistoryWasHeard, OfferedWhenAsked,
           BookedWhenAsked
  <1>2. Types /\ Requests /\ [Next]_vars => Requests'
    BY RequestsKept
  <1>3. Requests => NoBookingWithoutRequest
    BY DEF Requests, BookedWhenAsked, Asked, NoBookingWithoutRequest
  <1> QED BY <1>1, <1>2, <1>3, AlwaysTypes, PTL DEF Spec
===============================================================================

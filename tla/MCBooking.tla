------------------------------ MODULE MCBooking ------------------------------
(* Booking for TLC: the rooms of each type, what users say, and what the LLM *)
(* answers, with and without tool calls.                                     *)
EXTENDS Booking

CONSTANTS suite, king
MCSeed == [room \in Rooms |-> IF room = king THEN 2 ELSE 1]
MCTranscripts == {{"intent"}, {"phone"}, {"intent", "details"}}
MCContents == {{}, {"confirmed"}, {"number", "farewell"}}

Book(kind, room) == [name |-> "create_reservation", args |-> [kind |-> kind, room |-> room]]
End(reason) == [name |-> "end_call", reason |-> reason]
Call(name) == [name |-> name]
MCToolMessages == {
    <<Call("list_room_types"), End("reservation_confirmed")>>,
    <<Call("unknown"), Book("valid", suite)>>,
    <<Book("valid", suite), Book("invalid", suite)>>,
    <<Book("malformed", NoRoom), End("farewell")>>,
    <<Book("valid", NoRoom), End("malformed")>>}
===============================================================================

------------------------------ MODULE RoomLedger ------------------------------
(***************************************************************************)
(* What the hotel promises, whoever books and however: of each room type   *)
(* at most the rooms it has are sold, one at a time, and a room that is    *)
(* sold stays sold.  There are no calls, no tools and no records here.     *)
(***************************************************************************)
EXTENDS Naturals

CONSTANTS Rooms, Seed    \* room types, and how many rooms each has

VARIABLE sold            \* sold[room]: rooms of the type that are sold

Init == sold = [room \in Rooms |-> 0]

Sell(room) ==
    /\ sold[room] < Seed[room]
    /\ sold' = [sold EXCEPT ![room] = @ + 1]

Next == \E room \in Rooms : Sell(room)

Spec == Init /\ [][Next]_sold
===============================================================================

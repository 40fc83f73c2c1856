------------------------------ MODULE SeatSale ------------------------------
(***************************************************************************)
(* What the sale of seats promises, whatever the number of backend          *)
(* processes and whatever the interleaving of their awaits: a seat is free, *)
(* held by one user or sold to one user; nobody takes a seat another user   *)
(* holds; only a user who holds a seat buys it; a sold seat becomes free    *)
(* again only by a cancellation.  SeatLock implements this specification    *)
(* with a version column, a Redis key and several awaits per operation.     *)
(*                                                                          *)
(* Cancel does not name who cancels: that the buyer does is a property of   *)
(* SeatLock (CancelledByOwner) that needs more than the version column.     *)
(***************************************************************************)
CONSTANTS Users, Seats, None

VARIABLE sale    \* seat -> who has it, and how

Free    == [state |-> "AVAILABLE", owner |-> None]
Held(u) == [state |-> "LOCKED",    owner |-> u]
Sold(u) == [state |-> "SOLD",      owner |-> u]

Init == sale = [s \in Seats |-> Free]

\* A user takes a free seat, or renews the hold it has.
Select(u, s) ==
  /\ sale[s] \in {Free, Held(u)}
  /\ sale' = [sale EXCEPT ![s] = Held(u)]

Confirm(u, s) ==
  /\ sale[s] = Held(u)
  /\ sale' = [sale EXCEPT ![s] = Sold(u)]

\* A hold ends without a sale: it expired, or its owner gave it up.
Release(u, s) ==
  /\ sale[s] = Held(u)
  /\ sale' = [sale EXCEPT ![s] = Free]

Cancel(u, s) ==
  /\ sale[s] = Sold(u)
  /\ sale' = [sale EXCEPT ![s] = Free]

Next == \E u \in Users, s \in Seats :
          Select(u, s) \/ Confirm(u, s) \/ Release(u, s) \/ Cancel(u, s)

Spec == Init /\ [][Next]_sale

=============================================================================

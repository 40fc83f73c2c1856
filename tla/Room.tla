-------------------------------- MODULE Room --------------------------------
(***************************************************************************)
(* What the waiting room of a train promises, whatever its counters, keys   *)
(* and ticks: nobody comes in who has not waited, no more are in than the   *)
(* limit, who is out comes back only to wait with a new ticket, and a       *)
(* ticket is the user's alone, later than any it has had.                   *)
(*                                                                          *)
(* Queue implements this specification while each user waits for its        *)
(* answers, ticks do not overlap and nobody leaves under a running tick     *)
(* (RoomSpec).                                                              *)
(***************************************************************************)
EXTENDS Naturals, FiniteSets

CONSTANTS Users, Limit

VARIABLES
  place,   \* of each user
  ticket   \* of each user, the number of its last ticket; 0: none

Out    == {"never", "done", "left"}

Inside == {u \in Users : place[u] = "in"}

Init ==
  /\ place = [u \in Users |-> "never"]
  /\ ticket = [u \in Users |-> 0]

MoveTo(u, to) == place' = [place EXCEPT ![u] = to]

(* Tickets need not be given out in the order in which users come to wait.  *)
Join(u) ==
  /\ place[u] \in Out
  /\ MoveTo(u, "waiting")
  /\ ticket' \in [Users -> Nat]
  /\ ticket'[u] > ticket[u]
  /\ \A v \in Users \ {u} : ticket'[v] = ticket[v] /\ ticket'[u] # ticket[v]

LetIn(u) ==
  /\ place[u] = "waiting"
  /\ Cardinality(Inside) < Limit
  /\ MoveTo(u, "in")
  /\ UNCHANGED ticket

Complete(u) ==
  /\ place[u] = "in"
  /\ MoveTo(u, "done")
  /\ UNCHANGED ticket

Leave(u) ==
  /\ place[u] \in {"waiting", "in"}
  /\ MoveTo(u, "left")
  /\ UNCHANGED ticket

Next == \E u \in Users : Join(u) \/ LetIn(u) \/ Complete(u) \/ Leave(u)

Spec == Init /\ [][Next]_<<place, ticket>>

=============================================================================

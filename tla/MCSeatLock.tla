----------------------------- MODULE MCSeatLock -----------------------------
(* Instances of SeatLock for TLC. *)
EXTENDS SeatLock, TLC

(* Handlers are interchangeable, and so are users, seats and reapers: no    *)
(* definition names one of them.  Safety runs only.                         *)
Symmetry == Permutations(Users) \cup Permutations(Seats)
              \cup Permutations(Handlers) \cup Permutations(Reapers)

=============================================================================

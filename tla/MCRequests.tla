----------------------------- MODULE MCRequests -----------------------------
(* Instances of Requests for TLC. *)
EXTENDS Requests, TLC

(* Users, seats and handlers are interchangeable.  Safety runs only.        *)
Symmetry == Permutations(Users) \cup Permutations(Seats) \cup Permutations(Handlers)

=============================================================================

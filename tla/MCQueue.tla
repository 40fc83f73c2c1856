------------------------------ MODULE MCQueue -------------------------------
(* Instances of Queue for TLC. *)
EXTENDS Queue, TLC

(* Users, requests in flight and ticks in flight are interchangeable.       *)
(* Safety runs only.                                                        *)
Symmetry == Permutations(Users) \cup Permutations(Handlers) \cup Permutations(Tickers)

=============================================================================

---------------------------- MODULE MCQueueScreen ----------------------------
(* Instances of QueueScreen for TLC. *)
EXTENDS QueueScreen, TLC

(* Users are interchangeable, and so are processes.  Safety runs only.      *)
Symmetry == Permutations(Users) \cup Permutations(Processes)

=============================================================================

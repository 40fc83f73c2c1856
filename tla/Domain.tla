------------------------------- MODULE Domain -------------------------------
(***************************************************************************)
(* The two state machines that frontend and backend share                   *)
(* (shared/types/domain.ts): the states of a queue entry and of a seat, and *)
(* the transition tables the guards of the services consult.  A table is    *)
(* the set of its <<from, to>> pairs.                                       *)
(***************************************************************************)

QueueState ==
  {"WAITING", "READY", "PROCESSING", "COMPLETED", "TIMEOUT", "CANCELLED"}

QUEUE_TERMINAL_STATES == {"COMPLETED", "TIMEOUT", "CANCELLED"}

QUEUE_TRANSITIONS ==
  ({"WAITING"}    \X {"READY",      "TIMEOUT", "CANCELLED"}) \cup
  ({"READY"}      \X {"PROCESSING", "TIMEOUT", "CANCELLED"}) \cup
  ({"PROCESSING"} \X {"COMPLETED",  "TIMEOUT", "CANCELLED"})

canTransitionQueue(from, to) == <<from, to>> \in QUEUE_TRANSITIONS

SeatState == {"AVAILABLE", "LOCKED", "SOLD"}

SEAT_TRANSITIONS ==
  {<<"AVAILABLE", "LOCKED">>, <<"LOCKED", "SOLD">>,
   <<"LOCKED", "AVAILABLE">>, <<"SOLD", "AVAILABLE">>}

canTransitionSeat(from, to) == <<from, to>> \in SEAT_TRANSITIONS

=============================================================================

-------------------------------- MODULE Queue --------------------------------
(***************************************************************************)
(* services/queueService.ts: the waiting room of one train, kept in Redis,  *)
(* with the table queue_history of those who left it.                       *)
(*                                                                          *)
(* A Handler is one running request that touches the queue: joinQueue       *)
(* (POST /queue/join and the JOIN_QUEUE message), leaveQueue (DELETE        *)
(* /queue/leave), assertCanSelectSeat followed by markProcessing (the head  *)
(* of POST /seat/select), markCompleted (the tail of POST                   *)
(* /booking/confirm).  A Ticker is one running tick: every backend process  *)
(* starts one a second (scheduler.ts) and waits for none, so several may    *)
(* run at a time.  A step is the effect of one call to a store and the code *)
(* up to the next await.                                                    *)
(*                                                                          *)
(* A request that is answered or refused at its first read changes nothing  *)
(* and is left out.                                                         *)
(***************************************************************************)
EXTENDS Naturals, FiniteSets, Domain

CONSTANTS
  Users,
  None,               \* no user
  Handlers, Tickers,  \* requests and ticks that can be in flight at a time
  Limit,              \* config.concurrentProcessingLimit
  Requests,           \* the requests users make in this instance
  OneRequestPerUser,  \* TRUE: a user waits for an answer before it asks again
  MaxTickets,         \* bound: numbers given out
  MaxAborts           \* bound: requests and ticks that fail half way

AllRequests == {"join", "leave", "select", "complete"}

ASSUME UserAssumption    == None \notin Users
ASSUME LimitAssumption   == Limit \in Nat
ASSUME RequestAssumption == /\ Requests \subseteq AllRequests
                            /\ OneRequestPerUser \in BOOLEAN
ASSUME BoundAssumption   == MaxTickets \in Nat /\ MaxAborts \in Nat

VARIABLES
  entry,      \* queue:entry:<user>:<train>
  counter,    \* queue:counter:<train>
  processed,  \* queue:processed:<train>
  history,    \* table queue_history
  pc, frame,  \* of each handler
  ticker,     \* of each tick
  aborts      \* requests and ticks that failed half way so far

redis == <<entry, counter, processed>>
calls == <<pc, frame>>
vars  == <<entry, counter, processed, history, pc, frame, ticker, aborts>>

-----------------------------------------------------------------------------
(* Data *)

UserOrNone == Users \cup {None}
Entry    == [state : QueueState, number : Nat]
NoEntry  == [state |-> "NONE", number |-> 0]
Snapshot == [user : Users, state : QueueState, number : Nat]

(* A row has a random id, so that equal rows count; here the id tells a row *)
(* from those that are otherwise equal.                                     *)
HistoryRow == [id : Nat, user : Users, number : Nat, status : QueueState]

(* A request keeps its user, the entry it has loaded and, of a transition,  *)
(* the state it goes to.                                                    *)
NoFrame == [user |-> None, to |-> "NONE", number |-> 0]

Steps == {"idle", "joinIncr", "joinSave", "selectLoad", "save", "history"}

Resting == [pc |-> "idle", keys |-> {}, seen |-> {}, chosen |-> {}]

-----------------------------------------------------------------------------
(* Control of a request *)

Goto(h, step) == pc' = [pc EXCEPT ![h] = step]

Return(h) ==
  /\ pc' = [pc EXCEPT ![h] = "idle"]
  /\ frame' = [frame EXCEPT ![h] = NoFrame]

MayCall(h, u, request) ==
  /\ request \in Requests
  /\ pc[h] = "idle"
  /\ OneRequestPerUser => \A g \in Handlers : frame[g].user # u

Call(h, step, u, to, number) ==
  /\ Goto(h, step)
  /\ frame' = [frame EXCEPT ![h] = [user |-> u, to |-> to, number |-> number]]

Terminal(e) == e.state \in QUEUE_TERMINAL_STATES

saveEntry(u, st, n) == entry' = [entry EXCEPT ![u] = [state |-> st, number |-> n]]

-----------------------------------------------------------------------------
(* joinQueue *)

JoinStart(h, u) ==
  /\ MayCall(h, u, "join")
  /\ entry[u] = NoEntry \/ Terminal(entry[u])
  /\ counter < MaxTickets
  /\ Call(h, "joinIncr", u, "WAITING", 0)
  /\ UNCHANGED <<redis, history, ticker, aborts>>

\* Mutated form: the number of people in the queue instead of INCR.
Incr_Count(n) == Cardinality({u \in Users : entry[u] # NoEntry}) + 1
Incr(n) == n + 1

JoinIncr(h) ==
  /\ pc[h] = "joinIncr"
  /\ counter' = Incr(counter)
  /\ frame' = [frame EXCEPT ![h].number = Incr(counter)]
  /\ Goto(h, "joinSave")
  /\ UNCHANGED <<entry, processed, history, ticker, aborts>>

JoinSave(h) ==
  /\ pc[h] = "joinSave"
  /\ saveEntry(frame[h].user, "WAITING", frame[h].number)
  /\ Return(h)
  /\ UNCHANGED <<counter, processed, history, ticker, aborts>>

-----------------------------------------------------------------------------
(* transition: load and guard, save, and a history row for a terminal state *)

\* Mutated form: the guard checks only that the entry is not in state to.
Allowed_AnyChange(from, to) == TRUE
Allowed(from, to) == canTransitionQueue(from, to)

(* The guards of transition on the entry it has loaded.                     *)
MayMove(u, to) ==
  /\ entry[u] # NoEntry
  /\ entry[u].state # to
  /\ Allowed(entry[u].state, to)

LeaveStart(h, u) ==
  /\ MayCall(h, u, "leave")
  /\ MayMove(u, "CANCELLED")
  /\ Call(h, "save", u, "CANCELLED", entry[u].number)
  /\ UNCHANGED <<redis, history, ticker, aborts>>

(* markCompleted, once confirmBooking has sold the user its seat.           *)
CompleteStart(h, u) ==
  /\ MayCall(h, u, "complete")
  /\ MayMove(u, "COMPLETED")
  /\ Call(h, "save", u, "COMPLETED", entry[u].number)
  /\ UNCHANGED <<redis, history, ticker, aborts>>

(* assertCanSelectSeat, and then markProcessing with a load of its own.     *)
SelectStart(h, u) ==
  /\ MayCall(h, u, "select")
  /\ entry[u].state \in {"READY", "PROCESSING"}
  /\ Call(h, "selectLoad", u, "PROCESSING", 0)
  /\ UNCHANGED <<redis, history, ticker, aborts>>

SelectLoad(h) ==
  LET u == frame[h].user IN
  /\ pc[h] = "selectLoad"
  /\ IF MayMove(u, "PROCESSING")
     THEN /\ Goto(h, "save")
          /\ frame' = [frame EXCEPT ![h].number = entry[u].number]
     ELSE Return(h)
  /\ UNCHANGED <<redis, history, ticker, aborts>>

\* Mutated form: no queue_history row for a ticket given back.
Recorded_CompletedOnly(to) == to = "COMPLETED"
\* Mutated form: no queue_history row for a completed booking.
Recorded_CancelledOnly(to) == to = "CANCELLED"
Recorded(to) == to \in QUEUE_TERMINAL_STATES

Save(h) ==
  LET f == frame[h] IN
  /\ pc[h] = "save"
  /\ saveEntry(f.user, f.to, f.number)
  /\ \/ /\ Recorded(f.to)
        /\ Goto(h, "history")
        /\ UNCHANGED frame
     \/ /\ ~Recorded(f.to)
        /\ Return(h)
  /\ UNCHANGED <<counter, processed, history, ticker, aborts>>

NewRow(f) ==
  [id |-> Cardinality({r \in history : r.user = f.user /\ r.number = f.number
                                        /\ r.status = f.to}),
   user |-> f.user, number |-> f.number, status |-> f.to]

InsertHistory(h) ==
  /\ pc[h] = "history"
  /\ history' = history \cup {NewRow(frame[h])}
  /\ Return(h)
  /\ UNCHANGED <<redis, ticker, aborts>>

-----------------------------------------------------------------------------
(* tick: KEYS, a GET for every key, then the promotions one by one          *)

\* Mutated form: users whose booking is over still take a slot.
Active_NotWaiting(st) == st # "WAITING"
Active(st) == st \in {"READY", "PROCESSING"}

\* Mutated form: the limit alone, whoever is already let in.
Slots_Limit(seen) == Limit
Slots(seen) ==
  LET processing == Cardinality({e \in seen : Active(e.state)}) IN
  IF processing < Limit THEN Limit - processing ELSE 0

\* Mutated form: the sort in the other direction.
Before_Last(e, f) == e.number > f.number
Before(e, f) == e.number < f.number

\* Mutated form: all entries of the train.
Waiting_All(seen) == seen
Waiting(seen) == {e \in seen : e.state = "WAITING"}

(* The first Slots of the waiting entries, by number.                       *)
Chosen(seen) ==
  {e \in Waiting(seen) :
     Cardinality({f \in Waiting(seen) : Before(f, e)}) < Slots(seen)}

(* KEYS queue:entry:*, by user.                                             *)
redisKeys == {u \in Users : entry[u] # NoEntry}

TickKeys(t) ==
  /\ ticker[t].pc = "idle"
  /\ redisKeys # {}
  /\ ticker' = [ticker EXCEPT ![t] =
       [pc |-> "get", keys |-> redisKeys, seen |-> {}, chosen |-> {}]]
  /\ UNCHANGED <<redis, history, calls, aborts>>

(* On to the next promotion, or done.                                       *)
Promoting(seen, chosen) ==
  IF chosen = {} THEN Resting
  ELSE [pc |-> "save", keys |-> {}, seen |-> seen, chosen |-> chosen]

TickGet(t) ==
  /\ ticker[t].pc = "get"
  /\ \E u \in ticker[t].keys :
       LET seen == ticker[t].seen \cup
                     {[user |-> u, state |-> entry[u].state, number |-> entry[u].number]}
           keys == ticker[t].keys \ {u}
       IN ticker' = [ticker EXCEPT ![t] =
            IF keys = {} THEN Promoting(seen, Chosen(seen))
            ELSE [pc |-> "get", keys |-> keys, seen |-> seen, chosen |-> {}]]
  /\ UNCHANGED <<redis, history, calls, aborts>>

\* Mutated form: those let in from the last to the first.
First_Last(chosen, e) == e \in chosen /\ \A f \in chosen : f.number <= e.number
First(chosen, e) == e \in chosen /\ \A f \in chosen : f.number >= e.number

(* The entry as it was read, now READY, whatever it has become since.       *)
TickSave(t) ==
  /\ ticker[t].pc = "save"
  /\ \E e \in ticker[t].chosen :
       /\ First(ticker[t].chosen, e)
       /\ saveEntry(e.user, "READY", e.number)
  /\ ticker' = [ticker EXCEPT ![t].pc = "processed"]
  /\ UNCHANGED <<counter, processed, history, calls, aborts>>

TickProcessed(t) ==
  /\ ticker[t].pc = "processed"
  /\ \E e \in ticker[t].chosen :
       /\ First(ticker[t].chosen, e)
       /\ processed' = e.number
       /\ ticker' = [ticker EXCEPT ![t] = Promoting(ticker[t].seen, ticker[t].chosen \ {e})]
  /\ UNCHANGED <<entry, counter, history, calls, aborts>>

-----------------------------------------------------------------------------
(* A call to a store throws, or the process dies.                           *)

Abort(h) ==
  /\ pc[h] # "idle"
  /\ aborts < MaxAborts
  /\ aborts' = aborts + 1
  /\ Return(h)
  /\ UNCHANGED <<redis, history, ticker>>

TickAbort(t) ==
  /\ ticker[t].pc # "idle"
  /\ aborts < MaxAborts
  /\ aborts' = aborts + 1
  /\ ticker' = [ticker EXCEPT ![t] = Resting]
  /\ UNCHANGED <<redis, history, calls>>

-----------------------------------------------------------------------------
Init ==
  /\ entry = [u \in Users |-> NoEntry]
  /\ counter = 0
  /\ processed = 0
  /\ history = {}
  /\ pc = [h \in Handlers |-> "idle"]
  /\ frame = [h \in Handlers |-> NoFrame]
  /\ ticker = [t \in Tickers |-> Resting]
  /\ aborts = 0

Request(h) ==
  \E u \in Users : \/ JoinStart(h, u)   \/ LeaveStart(h, u)
                   \/ SelectStart(h, u) \/ CompleteStart(h, u)

Serve(h) ==
  \/ JoinIncr(h) \/ JoinSave(h) \/ SelectLoad(h) \/ Save(h) \/ InsertHistory(h)

Tick(t) == TickKeys(t) \/ TickGet(t) \/ TickSave(t) \/ TickProcessed(t)

Next ==
  \/ \E h \in Handlers : Request(h) \/ Serve(h) \/ Abort(h)
  \/ \E t \in Tickers : Tick(t) \/ TickAbort(t)

Spec == Init /\ [][Next]_vars

(* Node runs every continuation and starts a tick every second.             *)
Fairness ==
  /\ \A h \in Handlers : WF_vars(Serve(h))
  /\ \A t \in Tickers : WF_vars(Tick(t))

FairSpec == Spec /\ Fairness

(* Beyond the program: a user who is let in goes on to choose a seat and to *)
(* book it.                                                                 *)
UsersGoOn ==
  \A u \in Users :
    /\ SF_vars(\E h \in Handlers : SelectStart(h, u))
    /\ SF_vars(\E h \in Handlers : CompleteStart(h, u))

UsersSpec == FairSpec /\ UsersGoOn

-----------------------------------------------------------------------------
(* Properties *)

Frame  == [user : UserOrNone, to : QueueState \cup {"NONE"}, number : Nat]
Ticker == [pc : {"idle", "get", "save", "processed"}, keys : SUBSET Users,
           seen : SUBSET Snapshot, chosen : SUBSET Snapshot]

(* The types; a request has a user and a state to go to exactly while it is *)
(* served, a tick promotes only entries it has read as WAITING.             *)
TypeOK ==
  /\ entry \in [Users -> Entry \cup {NoEntry}]
  /\ counter \in Nat /\ processed \in Nat
  /\ history \subseteq HistoryRow
  /\ pc \in [Handlers -> Steps]
  /\ frame \in [Handlers -> Frame]
  /\ \A h \in Handlers : IF pc[h] = "idle" THEN frame[h] = NoFrame
                         ELSE frame[h].user \in Users /\ frame[h].to # "NONE"
  /\ ticker \in [Tickers -> Ticker]
  /\ \A t \in Tickers : /\ ticker[t].chosen \subseteq ticker[t].seen
                        /\ \A e \in ticker[t].chosen : e.state = "WAITING"
                        /\ \A u \in ticker[t].keys : entry[u] # NoEntry
  /\ aborts \in 0..MaxAborts

(* Every place a ticket lives in: the entries, the requests that are about  *)
(* to save one or to record its end, the reads of the ticks, the history.   *)
Tickets ==
  {[user |-> u, number |-> entry[u].number] : u \in {v \in Users : entry[v] # NoEntry}}
    \cup {[user |-> frame[h].user, number |-> frame[h].number] :
             h \in {g \in Handlers : pc[g] \in {"joinSave", "save", "history"}}}
    \cup {[user |-> e.user, number |-> e.number] :
             e \in UNION {ticker[t].seen : t \in Tickers}}
    \cup {[user |-> r.user, number |-> r.number] : r \in history}

(* A number belongs to one user, wherever the ticket has been copied to and *)
(* however stale the copy: no two users ever wait, are let in or are on     *)
(* record under the same number (joinQueue's INCR).                         *)
NumbersDistinct ==
  /\ \A a, b \in Tickets : a.number = b.number => a.user = b.user
  /\ \A a \in Tickets : a.number <= counter

(* No more users are let in than config.concurrentProcessingLimit for each  *)
(* tick that can be in flight at a time: ticks that overlap may fill the    *)
(* same slots, and each of them counts the users it has let in itself.      *)
ActiveLimit ==
  Cardinality({u \in Users : entry[u].state \in {"READY", "PROCESSING"}})
    <= Limit * Cardinality(Tickers)

(* A tick lets users in by number: whoever it has read as WAITING with a    *)
(* smaller number is not WAITING with it any more when the next is let in.  *)
InOrder ==
  [][\A t \in Tickers : \A e \in ticker[t].chosen : \A f \in ticker[t].seen :
       ticker[t].pc = "save" /\ ticker'[t].pc = "processed" /\ First(ticker[t].chosen, e)
         /\ f.state = "WAITING" /\ f.number < e.number =>
         entry[f.user] # [state |-> "WAITING", number |-> f.number]]_vars

(* The service implements the waiting room of Room: whatever ticks and      *)
(* requests have read before, whoever is let in was waiting and there was   *)
(* room, and who is out comes back only with a new ticket of its own.       *)
placeOf(e) ==
  CASE e.state = "NONE"                    -> "never"
    [] e.state = "WAITING"                 -> "waiting"
    [] e.state \in {"READY", "PROCESSING"} -> "in"
    [] e.state = "COMPLETED"               -> "done"
    [] e.state \in {"CANCELLED", "TIMEOUT"} -> "left"

Room == INSTANCE Room WITH place  <- [u \in Users |-> placeOf(entry[u])],
                           ticket <- [u \in Users |-> entry[u].number]
RoomSpec == Room!Spec

(* The end of a ticket is on record: the users whose terminal entry has no  *)
(* row in queue_history, nor a transition that is about to insert it, are   *)
(* no more than the requests that have failed half way.                     *)
OnRecord(u) ==
  \/ \E r \in history : r.user = u /\ r.number = entry[u].number
                          /\ r.status = entry[u].state
  \/ \E h \in Handlers : pc[h] = "history"
       /\ frame[h] = [user |-> u, to |-> entry[u].state, number |-> entry[u].number]

ExitOnRecord ==
  Cardinality({u \in Users : Terminal(entry[u]) /\ ~OnRecord(u)}) <= aborts

(* And, while users wait for their answers, it is so once: no ticket has    *)
(* two rows.                                                                *)
ExitRecorded ==
  /\ ExitOnRecord
  /\ \A r, s \in history : r.user = s.user /\ r.number = s.number => r = s

(* Who waits is let in, or leaves.                                          *)
EventuallyServed ==
  \A u \in Users : \A n \in 1..(MaxTickets + Cardinality(Handlers)) :
    (entry[u] = [state |-> "WAITING", number |-> n])
      ~> (entry[u] # [state |-> "WAITING", number |-> n])

=============================================================================

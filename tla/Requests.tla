------------------------------ MODULE Requests ------------------------------
(***************************************************************************)
(* The requests that join the services: api/queue.ts, api/seats.ts,         *)
(* api/booking.ts, api/session.ts, and the messages of websocket/server.ts, *)
(* which run the same sequences.  A request calls queueService, then        *)
(* seatLockService, then sessionService, and nothing undoes a call when a   *)
(* later one throws.                                                        *)
(*                                                                          *)
(* A request's call of queueService or seatLockService is one step here:    *)
(* what their awaits can do is in Queue and SeatLock.  The session is kept  *)
(* by a GET and a SET that do not know of each other, so its calls are      *)
(* taken apart.  Of a session only bookingId is kept; trainId,              *)
(* selectedSeatId and queueState come and go with the same patches.  The    *)
(* tick of the timer runs beside the requests, and what it saves it has     *)
(* read before: it is taken apart too, but for the numbers of the queue.    *)
(*                                                                          *)
(* With OneRequestPerUser a user waits for the answer before it asks again, *)
(* but the createSession of a connecting socket is awaited by nobody and    *)
(* runs beside its requests; without, a user has several tabs.              *)
(***************************************************************************)
EXTENDS Naturals, FiniteSets, Domain

CONSTANTS
  Users, Seats,
  None,       \* null
  Handlers,   \* requests and createSessions in flight at a time
  Tickers,    \* ticks in flight at a time
  Limit,      \* config.concurrentProcessingLimit
  OneRequestPerUser,  \* TRUE: a user waits for an answer before it asks again
  MaxSales    \* bound: bookings made

ASSUME NoneAssumption  == None \notin Users \cup Seats \cup (0..MaxSales)
ASSUME LimitAssumption == Limit \in Nat /\ MaxSales \in Nat
ASSUME TabsAssumption  == OneRequestPerUser \in BOOLEAN

VARIABLES
  turn,      \* state of each user's queue entry
  ticker,    \* of each tick, what it has read and whom it is to let in
  seats,     \* state, owner, and whether the Redis lock is there
  bookings, sales,  \* the bookings; their number so far gives the next id
  session,   \* session:<user> in Redis
  pc, frame, \* of each handler
  failed     \* history: users one of whose requests failed half way

requests == <<pc, frame, failed>>
sale     == <<seats, bookings, sales>>
services == <<turn, sale, ticker>>
vars     == <<turn, ticker, seats, bookings, sales, session, pc, frame, failed>>

-----------------------------------------------------------------------------
(* Data *)

Turn    == QueueState \cup {"NONE"}
Seat    == [state : SeatState, owner : Users \cup {None}, key : BOOLEAN]
Booking == [id : 1..MaxSales, user : Users, seat : Seats]
Id      == (1..MaxSales) \cup {None}

NoSession == [there |-> FALSE, bookingId |-> None]
Blank     == [there |-> TRUE,  bookingId |-> None]
Session   == [there : {TRUE}, bookingId : Id] \cup {NoSession}

Free == [state |-> "AVAILABLE", owner |-> None, key |-> FALSE]

(* A tick that is yet to read every entry; and one that has read them and   *)
(* has these users left to let in.                                          *)
Resting == [unread |-> Users, waiting |-> {}, active |-> {}, chosen |-> {}]

Promoting(chosen) ==
  IF chosen = {} THEN Resting
  ELSE [unread |-> {}, waiting |-> {}, active |-> {}, chosen |-> chosen]

(* What the request still has to write into the session.  create stands for *)
(* a createSession that is no part of an updateSession.                     *)
Patch == {[kind |-> "create"], [kind |-> "keep"]} \cup [kind : {"set"}, to : Id]

NoFrame == [user |-> None, seat |-> None, patch |-> [kind |-> "keep"],
            seen |-> NoSession]

Steps == {"idle", "mark", "lock", "complete", "get", "create", "blank", "set"}

-----------------------------------------------------------------------------
(* Control of a request *)

Goto(h, step) == pc' = [pc EXCEPT ![h] = step]

Return(h) ==
  /\ Goto(h, "idle")
  /\ frame' = [frame EXCEPT ![h] = NoFrame]

MayCall(h, u) ==
  /\ pc[h] = "idle"
  /\ OneRequestPerUser =>
       \A g \in Handlers : frame[g].user = u => frame[g].patch.kind = "create"

Call(h, step, u, s, patch) ==
  /\ Goto(h, step)
  /\ frame' = [frame EXCEPT ![h] = [user |-> u, seat |-> s, patch |-> patch,
                                    seen |-> NoSession]]

Set(id) == [kind |-> "set", to |-> id]

-----------------------------------------------------------------------------
(* The waiting room *)

(* transition succeeds: it changes the state, or finds it changed already.  *)
MayTurn(u, to) == turn[u] = to \/ canTransitionQueue(turn[u], to)

Join(h, u) ==
  /\ MayCall(h, u)
  /\ turn' = [turn EXCEPT ![u] =
       IF @ \in QUEUE_TERMINAL_STATES \cup {"NONE"} THEN "WAITING" ELSE @]
  /\ Call(h, "get", u, None, [kind |-> "keep"])
  /\ UNCHANGED <<ticker, sale, session, failed>>

Leave(h, u) ==
  /\ MayCall(h, u)
  /\ canTransitionQueue(turn[u], "CANCELLED")
  /\ turn' = [turn EXCEPT ![u] = "CANCELLED"]
  /\ UNCHANGED <<ticker, sale, session, requests>>

(* A tick reads the entries one by one: here the entry of user u, which may *)
(* not be there yet.  Once it has read them all it is to let in as many of  *)
(* those that were WAITING as there are slots, the first by a number that   *)
(* is not kept here: any of them.                                           *)
TickGet(t, u) ==
  LET waiting == ticker[t].waiting \cup (IF turn[u] = "WAITING" THEN {u} ELSE {})
      active  == ticker[t].active \cup (IF turn[u] \in {"READY", "PROCESSING"} THEN {u} ELSE {})
      slots   == IF Cardinality(active) < Limit THEN Limit - Cardinality(active) ELSE 0
  IN
  /\ u \in ticker[t].unread
  /\ \/ /\ ticker[t].unread # {u}
        /\ ticker' = [ticker EXCEPT ![t] =
             [unread |-> @.unread \ {u}, waiting |-> waiting, active |-> active, chosen |-> {}]]
     \/ /\ ticker[t].unread = {u}
        /\ \E chosen \in SUBSET waiting :
             /\ Cardinality(chosen) <= slots
             /\ chosen # waiting => Cardinality(chosen) = slots
             /\ ticker' = [ticker EXCEPT ![t] = Promoting(chosen)]
  /\ UNCHANGED <<turn, sale, session, requests>>

(* The entry as it was read, now READY, whatever it has become since.       *)
TickSave(t, u) ==
  /\ u \in ticker[t].chosen
  /\ turn' = [turn EXCEPT ![u] = "READY"]
  /\ ticker' = [ticker EXCEPT ![t] = Promoting(@.chosen \ {u})]
  /\ UNCHANGED <<sale, session, requests>>

(* A call to Redis throws, or the process dies.                             *)
TickAbort(t) ==
  /\ ticker[t] # Resting
  /\ ticker' = [ticker EXCEPT ![t] = Resting]
  /\ UNCHANGED <<turn, sale, session, requests>>

-----------------------------------------------------------------------------
(* POST /seat/select and SELECT_SEAT *)

\* Mutated form: markProcessing is not called.
SelectStart_NoMark(h, u, s) ==
  /\ MayCall(h, u)
  /\ turn[u] \in {"READY", "PROCESSING"}
  /\ Call(h, "lock", u, s, [kind |-> "keep"])
  /\ UNCHANGED <<services, session, failed>>

SelectStart(h, u, s) ==
  /\ MayCall(h, u)
  /\ turn[u] \in {"READY", "PROCESSING"}
  /\ Call(h, "mark", u, s, [kind |-> "keep"])
  /\ UNCHANGED <<services, session, failed>>

(* While a user waits for its answers nothing can refuse this one.          *)
Mark(h) ==
  LET u == frame[h].user IN
  /\ pc[h] = "mark"
  /\ IF MayTurn(u, "PROCESSING")
     THEN /\ turn' = [turn EXCEPT ![u] = "PROCESSING"]
          /\ Goto(h, "lock")
          /\ UNCHANGED frame
     ELSE Return(h) /\ UNCHANGED turn
  /\ UNCHANGED <<ticker, sale, session, failed>>

\* Mutated form: a hold whose Redis lock is gone counts as free.
MayHold_Lapsed(u, s) ==
  \/ seats[s].state = "AVAILABLE"
  \/ seats[s].state = "LOCKED" /\ (seats[s].owner = u \/ ~seats[s].key)
MayHold(u, s) ==
  \/ seats[s].state = "AVAILABLE"
  \/ seats[s].state = "LOCKED" /\ seats[s].owner = u

(* A refused lockSeat leaves the user PROCESSING.                           *)
Hold(h) ==
  LET u == frame[h].user
      s == frame[h].seat
  IN
  /\ pc[h] = "lock"
  /\ \/ /\ MayHold(u, s)
        /\ seats' = [seats EXCEPT ![s] = [state |-> "LOCKED", owner |-> u, key |-> TRUE]]
        /\ Goto(h, "get")
        /\ UNCHANGED frame
     \/ /\ ~MayHold(u, s)
        /\ Return(h)
        /\ UNCHANGED seats
  /\ UNCHANGED <<turn, ticker, bookings, sales, session, failed>>

(* Five minutes have passed; the reaper has seen it.                        *)
Expire(s) ==
  /\ seats[s].key
  /\ seats' = [seats EXCEPT ![s].key = FALSE]
  /\ UNCHANGED <<turn, ticker, bookings, sales, session, requests>>

Reap(s) ==
  /\ seats[s].state = "LOCKED" /\ ~seats[s].key
  /\ seats' = [seats EXCEPT ![s] = Free]
  /\ UNCHANGED <<turn, ticker, bookings, sales, session, requests>>

-----------------------------------------------------------------------------
(* POST /booking/confirm and CONFIRM_BOOKING, DELETE /booking/:bookingId    *)

\* Mutated form: the Redis lock is not deleted.
Sold_StillLocked(u) == [state |-> "SOLD", owner |-> u, key |-> TRUE]
Sold(u) == [state |-> "SOLD", owner |-> u, key |-> FALSE]

\* Mutated form: markCompleted first, then confirmBooking.
ConfirmStart_MarkFirst(h, u, s) ==
  /\ MayCall(h, u)
  /\ sales < MaxSales
  /\ seats[s] = [state |-> "LOCKED", owner |-> u, key |-> TRUE]
  /\ Call(h, "complete", u, s, Set(None))
  /\ UNCHANGED <<services, session, failed>>

(* confirmBooking; a refused one changes nothing.  It does not ask whether  *)
(* the user still has its turn.                                             *)
ConfirmStart(h, u, s) ==
  /\ MayCall(h, u)
  /\ sales < MaxSales
  /\ seats[s] = [state |-> "LOCKED", owner |-> u, key |-> TRUE]
  /\ seats' = [seats EXCEPT ![s] = Sold(u)]
  /\ sales' = sales + 1
  /\ bookings' = bookings \cup {[id |-> sales + 1, user |-> u, seat |-> s]}
  /\ Call(h, "complete", u, s, Set(sales + 1))
  /\ UNCHANGED <<turn, ticker, session, failed>>

(* A refused markCompleted answers with an error, and the sale stands.      *)
Complete(h) ==
  LET u == frame[h].user IN
  /\ pc[h] = "complete"
  /\ \/ /\ MayTurn(u, "COMPLETED")
        /\ turn' = [turn EXCEPT ![u] = "COMPLETED"]
        /\ Goto(h, "get")
        /\ UNCHANGED frame
     \/ /\ ~MayTurn(u, "COMPLETED")
        /\ Return(h)
        /\ UNCHANGED turn
  /\ UNCHANGED <<ticker, sale, session, failed>>

\* Mutated form: the patch of a cancellation leaves bookingId out.
AfterCancel_Keep == [kind |-> "keep"]
AfterCancel == Set(None)

Cancel(h, b) ==
  /\ MayCall(h, b.user)
  /\ seats' = [seats EXCEPT ![b.seat] = Free]
  /\ bookings' = bookings \ {b}
  /\ Call(h, "get", b.user, b.seat, AfterCancel)
  /\ UNCHANGED <<turn, ticker, sales, session, failed>>

-----------------------------------------------------------------------------
(* sessionService *)

(* A socket connects, or the user logs in: createSession.                   *)
Connect(h, u) ==
  /\ pc[h] = "idle"
  /\ Call(h, "create", u, None, [kind |-> "create"])
  /\ UNCHANGED <<services, session, failed>>

(* clearSession, by DELETE /session or by the logout.                       *)
Clear(h, u) ==
  /\ MayCall(h, u)
  /\ session[u].there
  /\ session' = [session EXCEPT ![u] = NoSession]
  /\ UNCHANGED <<services, pc, frame, failed>>

(* The first getSession of updateSession.                                   *)
GetSession(h) ==
  LET found == session[frame[h].user] IN
  /\ pc[h] = "get"
  /\ Goto(h, IF found.there THEN "set" ELSE "create")
  /\ frame' = [frame EXCEPT ![h].seen = found]
  /\ UNCHANGED <<services, session, failed>>

(* What follows a createSession that has come to session found.             *)
Created(h, found) ==
  IF frame[h].patch.kind = "create" THEN Return(h)
  ELSE Goto(h, "set") /\ frame' = [frame EXCEPT ![h].seen = found]

CreateGet(h) ==
  LET found == session[frame[h].user] IN
  /\ pc[h] = "create"
  /\ \/ found.there /\ Created(h, found)
     \/ ~found.there /\ Goto(h, "blank") /\ UNCHANGED frame
  /\ UNCHANGED <<services, session, failed>>

CreateSet(h) ==
  /\ pc[h] = "blank"
  /\ session' = [session EXCEPT ![frame[h].user] = Blank]
  /\ Created(h, Blank)
  /\ UNCHANGED <<services, failed>>

Merged(current, patch) ==
  IF patch.kind = "set" THEN [current EXCEPT !.bookingId = patch.to] ELSE current

UpdateSet(h) ==
  LET f == frame[h] IN
  /\ pc[h] = "set"
  /\ session' = [session EXCEPT ![f.user] = Merged(f.seen, f.patch)]
  /\ Return(h)
  /\ UNCHANGED <<services, failed>>

-----------------------------------------------------------------------------
(* A service throws for a reason of its own, or the process dies.  Bound:   *)
(* once for each user.                                                      *)
Abort(h) ==
  /\ pc[h] # "idle"
  /\ frame[h].user \notin failed
  /\ failed' = failed \cup {frame[h].user}
  /\ Return(h)
  /\ UNCHANGED <<services, session>>

-----------------------------------------------------------------------------
Init ==
  /\ turn = [u \in Users |-> "NONE"]
  /\ ticker = [t \in Tickers |-> Resting]
  /\ seats = [s \in Seats |-> Free]
  /\ bookings = {}
  /\ sales = 0
  /\ session = [u \in Users |-> NoSession]
  /\ pc = [h \in Handlers |-> "idle"]
  /\ frame = [h \in Handlers |-> NoFrame]
  /\ failed = {}

Request(h) ==
  \/ \E u \in Users : \/ Join(h, u) \/ Leave(h, u) \/ Connect(h, u) \/ Clear(h, u)
                      \/ \E s \in Seats : SelectStart(h, u, s) \/ ConfirmStart(h, u, s)
  \/ \E b \in bookings : Cancel(h, b)

Serve(h) ==
  \/ Mark(h) \/ Hold(h) \/ Complete(h)
  \/ GetSession(h) \/ CreateGet(h) \/ CreateSet(h) \/ UpdateSet(h)

Next ==
  \/ \E h \in Handlers : Request(h) \/ Serve(h) \/ Abort(h)
  \/ \E t \in Tickers : TickAbort(t) \/ \E u \in Users : TickGet(t, u) \/ TickSave(t, u)
  \/ \E s \in Seats : Expire(s) \/ Reap(s)

Spec == Init /\ [][Next]_vars

-----------------------------------------------------------------------------
(* Properties *)

Frame == [user : Users \cup {None}, seat : Seats \cup {None}, patch : Patch,
          seen : Session]

Ticker == [unread : SUBSET Users, waiting : SUBSET Users, active : SUBSET Users,
           chosen : SUBSET Users]

(* The types; a seat is owned exactly while it is taken, and its Redis lock *)
(* is there only while it is LOCKED.                                        *)
TypeOK ==
  /\ turn \in [Users -> Turn]
  /\ ticker \in [Tickers -> Ticker]
  /\ seats \in [Seats -> Seat]
  /\ \A s \in Seats : /\ seats[s].owner = None <=> seats[s].state = "AVAILABLE"
                      /\ seats[s].key => seats[s].state = "LOCKED"
  /\ bookings \subseteq Booking
  /\ sales \in 0..MaxSales
  /\ session \in [Users -> Session]
  /\ pc \in [Handlers -> Steps]
  /\ frame \in [Handlers -> Frame]
  /\ \A h \in Handlers : pc[h] = "idle" <=> frame[h] = NoFrame
  /\ failed \subseteq Users

(* No seat passes to a user who is not in its turn when it does, nor is any *)
(* hold renewed out of turn: whatever happens between the gate of           *)
(* POST /seat/select and its lockSeat, the user is still PROCESSING.  That  *)
(* is so while one tick runs at a time and users wait for their answers.    *)
SeatsInTurn ==
  [][\A s \in Seats :
       seats'[s] # seats[s] /\ seats'[s].state = "LOCKED" /\ seats'[s].key =>
         turn[seats'[s].owner] = "PROCESSING"]_vars

(* A turn is COMPLETED by a sale: when it is, the user has a booking.       *)
CompletedBySale ==
  [][\A u \in Users : turn[u] # "COMPLETED" /\ turn'[u] = "COMPLETED" =>
       \E b \in bookings : b.user = u]_vars

(* The requests keep to the sale of seats of SeatSale, which SeatLock takes  *)
(* apart: in particular only a seat that was sold is ever cancelled.        *)
saleOfSeats == [s \in Seats |-> [state |-> seats[s].state, owner |-> seats[s].owner]]

Sale == INSTANCE SeatSale WITH sale <- saleOfSeats
SaleSpec == Sale!Spec

Idle(u) == \A h \in Handlers : frame[h].user = u => frame[h].patch.kind = "create"

(* Between a user's requests its session never names a booking that is gone *)
(* or another user's, whatever createSession and updateSession have         *)
(* overwritten for each other; a request that failed half way excepted.     *)
SessionNamesBooking ==
  \A u \in Users : Idle(u) /\ u \notin failed /\ session[u].bookingId # None =>
    \E b \in bookings : b.user = u /\ b.id = session[u].bookingId

=============================================================================

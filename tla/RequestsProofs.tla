--------------------------- MODULE RequestsProofs ---------------------------
(***************************************************************************)
(* Theorems about Requests, for any users, seats, handlers and bounds.     *)
(* What a step does to a frame is stated once (CallFrame, SeenFrame,       *)
(* CreatedFrame, ReturnFrame); each part of the invariant has a lemma with *)
(* one step per action that can disturb it.  The types and the sale of     *)
(* seats need no condition; the rest is about users who wait, and what is  *)
(* about turns, about one tick at a time.                                  *)
(***************************************************************************)
EXTENDS Requests, TLAPS

(* Groups of variables, so that what a step leaves alone is seen.           *)
USE DEF services, requests, sale

-----------------------------------------------------------------------------
(* Types *)

(* A request in flight has a user; what it writes back it has read.         *)
InFlight ==
  \A h \in Handlers :
    /\ pc[h] # "idle" => frame[h].user \in Users
    /\ pc[h] = "set" => frame[h].seen.there

Types == TypeOK /\ InFlight

(* The part of the types that is about the handlers.                        *)
Control ==
  /\ pc \in [Handlers -> Steps]
  /\ frame \in [Handlers -> Frame]
  /\ \A h \in Handlers : pc[h] = "idle" <=> frame[h] = NoFrame
  /\ InFlight

LEMMA NoFrameTypes == NoFrame \in Frame /\ NoFrame.user = None
BY DEF NoFrame, Frame, Patch, Session, NoSession

LEMMA ReturnTypes ==
  ASSUME Types, NEW h \in Handlers, Return(h)
  PROVE  Control'
BY NoFrameTypes DEF Return, Goto, Control, Types, TypeOK, InFlight, Steps

LEMMA GotoTypes ==
  ASSUME Types, NEW h \in Handlers, pc[h] # "idle",
         NEW step \in Steps \ {"idle", "set"}, Goto(h, step), UNCHANGED frame
  PROVE  Control'
BY DEF Goto, Control, Types, TypeOK, InFlight

LEMMA CallTypes ==
  ASSUME Types, NEW h \in Handlers, NEW step \in Steps \ {"idle", "set"}, NEW u \in Users,
         NEW s \in Seats \cup {None}, NEW patch \in Patch, Call(h, step, u, s, patch)
  PROVE  Control'
<1> DEFINE f == [user |-> u, seat |-> s, patch |-> patch, seen |-> NoSession]
<1>1. f \in Frame /\ f.user = u /\ f # NoFrame
  BY NoneAssumption, NoFrameTypes DEF Frame, Session
<1>2. pc' = [pc EXCEPT ![h] = step] /\ frame' = [frame EXCEPT ![h] = f]
  BY DEF Call, Goto
<1> HIDE DEF f
<1>3. QED BY <1>1, <1>2 DEF Control, Types, TypeOK, InFlight

LEMMA SeenTypes ==
  ASSUME Types, NEW h \in Handlers, pc[h] # "idle", NEW found \in Session,
         NEW step \in {"set", "create"}, step = "set" => found.there,
         Goto(h, step), frame' = [frame EXCEPT ![h].seen = found]
  PROVE  Control'
<1> DEFINE f == [frame[h] EXCEPT !.seen = found]
<1>1. f \in Frame /\ f.user \in Users /\ f.seen = found
  BY DEF Types, TypeOK, InFlight, Frame
<1>2. f # NoFrame
  BY <1>1, NoneAssumption, NoFrameTypes
<1>3. pc' = [pc EXCEPT ![h] = step] /\ frame' = [frame EXCEPT ![h] = f]
  BY DEF Goto, Types, TypeOK
<1> HIDE DEF f
<1>4. QED BY <1>1, <1>2, <1>3 DEF Control, Types, TypeOK, InFlight, Steps

(* The part of the types that is about the seats.                           *)
SeatType ==
  /\ seats \in [Seats -> Seat]
  /\ \A s \in Seats : /\ seats[s].owner = None <=> seats[s].state = "AVAILABLE"
                      /\ seats[s].key => seats[s].state = "LOCKED"

LEMMA SessionTypes ==
  /\ NoSession \in Session /\ Blank \in Session /\ Blank.there
  /\ \A f \in Session, id \in Id : f.there => [f EXCEPT !.bookingId = id] \in Session
BY DEF Session, NoSession, Blank, Id

LEMMA PatchTypes ==
  /\ [kind |-> "create"] \in Patch /\ [kind |-> "keep"] \in Patch
  /\ \A id \in Id : Set(id) \in Patch
  /\ \A patch \in Patch : patch.kind = "set" => patch.to \in Id
BY DEF Patch, Set

LEMMA SeatTypes ==
  /\ Free \in Seat /\ Free.owner = None /\ Free.state = "AVAILABLE" /\ ~Free.key
  /\ \A q \in Seat : LET lapsed == [q EXCEPT !.key = FALSE] IN
       lapsed \in Seat /\ lapsed.owner = q.owner /\ lapsed.state = q.state /\ ~lapsed.key
BY DEF Free, Seat, SeatState

LEMMA CreatedTypes ==
  ASSUME Types, NEW h \in Handlers, pc[h] # "idle", NEW found \in Session, found.there,
         Created(h, found)
  PROVE  Control'
BY ReturnTypes, SeenTypes DEF Created

LEMMA RequestTypes ==
  ASSUME Types, NEW h \in Handlers, Request(h)
  PROVE  Types'
<1>1. ASSUME NEW u \in Users, Join(h, u)
      PROVE  Types'
  <2>1. Control'
    BY <1>1, CallTypes, PatchTypes DEF Join, Steps
  <2>2. QED BY <1>1, <2>1 DEF Join, Types, TypeOK, Control, Turn, QueueState
<1>2. ASSUME NEW u \in Users, Leave(h, u)
      PROVE  Types'
  BY <1>2 DEF Leave, Types, TypeOK, InFlight, Turn, QueueState
<1>3. ASSUME NEW u \in Users, Connect(h, u)
      PROVE  Types'
  <2>1. Control'
    BY <1>3, CallTypes, PatchTypes DEF Connect, Steps
  <2>2. QED BY <1>3, <2>1 DEF Connect, Types, TypeOK, Control
<1>4. ASSUME NEW u \in Users, Clear(h, u)
      PROVE  Types'
  BY <1>4, SessionTypes DEF Clear, Types, TypeOK, InFlight
<1>5. ASSUME NEW u \in Users, NEW s \in Seats, SelectStart(h, u, s)
      PROVE  Types'
  <2>1. Control'
    BY <1>5, CallTypes, PatchTypes DEF SelectStart, Steps
  <2>2. QED BY <1>5, <2>1 DEF SelectStart, Types, TypeOK, Control
<1>6. ASSUME NEW u \in Users, NEW s \in Seats, ConfirmStart(h, u, s)
      PROVE  Types'
  <2>1. sales + 1 \in 1..MaxSales
    BY <1>6, LimitAssumption DEF ConfirmStart, Types, TypeOK
  <2>2. Control'
    BY <1>6, <2>1, CallTypes, PatchTypes DEF ConfirmStart, Steps, Id
  <2>3. SeatType'
    BY <1>6 DEF ConfirmStart, Sold, Types, TypeOK, SeatType, Seat, SeatState
  <2>4. bookings' \subseteq Booking /\ sales' \in 0..MaxSales
    BY <1>6, <2>1 DEF ConfirmStart, Types, TypeOK, Booking
  <2>5. QED BY <1>6, <2>2, <2>3, <2>4 DEF ConfirmStart, Types, TypeOK, Control, SeatType
<1>7. ASSUME NEW b \in bookings, Cancel(h, b)
      PROVE  Types'
  <2>1. b.user \in Users /\ b.seat \in Seats
    BY DEF Types, TypeOK, Booking
  <2>2. Control'
    BY <1>7, <2>1, CallTypes, PatchTypes DEF Cancel, AfterCancel, Steps, Id
  <2>3. SeatType'
    BY <1>7, <2>1, SeatTypes DEF Cancel, Types, TypeOK, SeatType
  <2>4. QED BY <1>7, <2>2, <2>3 DEF Cancel, Types, TypeOK, Control, SeatType
<1>8. QED BY <1>1, <1>2, <1>3, <1>4, <1>5, <1>6, <1>7 DEF Request

LEMMA ServeTypes ==
  ASSUME Types, NEW h \in Handlers, Serve(h)
  PROVE  Types'
<1> DEFINE u == frame[h].user
<1>1. CASE Mark(h)
  <2>1. u \in Users
    BY <1>1 DEF Mark, Types, InFlight
  <2>2. Control'
    BY <1>1, ReturnTypes, GotoTypes DEF Mark, Steps
  <2>3. QED BY <1>1, <2>2 DEF Mark, Types, TypeOK, Control, Turn, QueueState
<1>2. CASE Hold(h)
  <2>1. u \in Users
    BY <1>2 DEF Hold, Types, InFlight
  <2>2. Control'
    BY <1>2, ReturnTypes, GotoTypes DEF Hold, Steps
  <2>3. SeatType'
    <3>1. CASE UNCHANGED seats
      BY <3>1 DEF Types, TypeOK, SeatType
    <3>2. CASE ~UNCHANGED seats
      <4> DEFINE held == [state |-> "LOCKED", owner |-> u, key |-> TRUE]
      <4>1. held \in Seat /\ held.owner # None /\ held.state = "LOCKED"
        BY <2>1, NoneAssumption DEF Seat, SeatState
      <4>2. \E s \in {frame[h].seat} : seats' = [seats EXCEPT ![s] = held]
        BY <1>2, <3>2 DEF Hold
      <4> HIDE DEF held
      <4>3. QED BY <4>1, <4>2 DEF Types, TypeOK, SeatType
    <3>3. QED BY <3>1, <3>2
  <2>4. QED BY <1>2, <2>2, <2>3 DEF Hold, Types, TypeOK, Control, SeatType
<1>3. CASE Complete(h)
  <2>1. u \in Users
    BY <1>3 DEF Complete, Types, InFlight
  <2>2. Control'
    BY <1>3, ReturnTypes, GotoTypes DEF Complete, Steps
  <2>3. QED BY <1>3, <2>2 DEF Complete, Types, TypeOK, Control, Turn, QueueState
<1>4. CASE GetSession(h)
  <2>1. u \in Users /\ session[u] \in Session
    BY <1>4 DEF GetSession, Types, TypeOK, InFlight
  <2>2. Control'
    BY <1>4, <2>1, SeenTypes DEF GetSession
  <2>3. QED BY <1>4, <2>2 DEF GetSession, Types, TypeOK, Control
<1>5. CASE CreateGet(h)
  <2>1. u \in Users /\ session[u] \in Session
    BY <1>5 DEF CreateGet, Types, TypeOK, InFlight
  <2>2. Control'
    BY <1>5, <2>1, CreatedTypes, GotoTypes DEF CreateGet, Steps
  <2>3. QED BY <1>5, <2>2 DEF CreateGet, Types, TypeOK, Control
<1>6. CASE CreateSet(h)
  <2>1. u \in Users
    BY <1>6 DEF CreateSet, Types, InFlight
  <2>2. Control'
    BY <1>6, SessionTypes, CreatedTypes DEF CreateSet
  <2>3. QED BY <1>6, <2>1, <2>2, SessionTypes
               DEF CreateSet, Types, TypeOK, Control
<1>7. CASE UpdateSet(h)
  <2>1. u \in Users /\ frame[h] \in Frame /\ frame[h].seen \in Session /\ frame[h].seen.there
        /\ frame[h].patch \in Patch
    BY <1>7 DEF UpdateSet, Types, TypeOK, InFlight, Frame
  <2>2. Merged(frame[h].seen, frame[h].patch) \in Session
    BY <2>1, PatchTypes, SessionTypes DEF Merged
  <2>3. Control'
    BY <1>7, ReturnTypes DEF UpdateSet
  <2>4. QED BY <1>7, <2>1, <2>2, <2>3 DEF UpdateSet, Types, TypeOK, Control
<1>8. QED BY <1>1, <1>2, <1>3, <1>4, <1>5, <1>6, <1>7 DEF Serve

LEMMA TickerTypes ==
  /\ Resting \in Ticker /\ Resting.waiting = {} /\ Resting.chosen = {}
  /\ \A chosen \in SUBSET Users :
       /\ Promoting(chosen) \in Ticker
       /\ Promoting(chosen).waiting = {} /\ Promoting(chosen).chosen = chosen
BY DEF Resting, Promoting, Ticker

(* What a tick has read after a GET; it lets in only users it has read as   *)
(* WAITING.                                                                 *)
LEMMA TickGetReads ==
  ASSUME Types, NEW t \in Tickers, NEW u \in Users, TickGet(t, u)
  PROVE  \E next \in Ticker :
           /\ ticker' = [ticker EXCEPT ![t] = next]
           /\ \A v \in next.waiting \cup next.chosen :
                v \in ticker[t].waiting \/ turn[v] = "WAITING"
<1> DEFINE old == ticker[t]
           waiting == old.waiting \cup (IF turn[u] = "WAITING" THEN {u} ELSE {})
           active  == old.active \cup (IF turn[u] \in {"READY", "PROCESSING"} THEN {u} ELSE {})
           further == [unread |-> old.unread \ {u}, waiting |-> waiting, active |-> active,
                       chosen |-> {}]
<1>1. old \in Ticker
  BY DEF Types, TypeOK
<1>2. waiting \in SUBSET Users /\ active \in SUBSET Users
      /\ \A v \in waiting : v \in old.waiting \/ turn[v] = "WAITING"
  BY <1>1 DEF Ticker
<1>3. further \in Ticker /\ further.waiting = waiting /\ further.chosen = {}
  BY <1>1, <1>2 DEF Ticker
<1>4. \/ ticker' = [ticker EXCEPT ![t] = further]
      \/ \E chosen \in SUBSET waiting : ticker' = [ticker EXCEPT ![t] = Promoting(chosen)]
  BY DEF TickGet
<1> HIDE DEF further, waiting, active
<1>5. CASE ticker' = [ticker EXCEPT ![t] = further]
  BY <1>2, <1>3, <1>5
<1>6. ASSUME NEW chosen \in SUBSET waiting, ticker' = [ticker EXCEPT ![t] = Promoting(chosen)]
      PROVE  \E next \in Ticker :
               /\ ticker' = [ticker EXCEPT ![t] = next]
               /\ \A v \in next.waiting \cup next.chosen :
                    v \in old.waiting \/ turn[v] = "WAITING"
  <2> DEFINE next == Promoting(chosen)
  <2>1. chosen \in SUBSET Users
    BY <1>2
  <2>2. next \in Ticker /\ next.waiting = {} /\ next.chosen = chosen
    BY <2>1, TickerTypes
  <2> HIDE DEF next
  <2>3. \A v \in next.waiting \cup next.chosen : v \in old.waiting \/ turn[v] = "WAITING"
    BY <1>2, <2>2
  <2>4. ticker' = [ticker EXCEPT ![t] = next]
    BY <1>6 DEF next
  <2>5. QED BY <2>2, <2>3, <2>4
<1>7. QED BY <1>4, <1>5, <1>6

LEMMA OtherTypes ==
  ASSUME Types,
         \/ \E h \in Handlers : Abort(h)
         \/ \E t \in Tickers : TickAbort(t) \/ \E u \in Users : TickGet(t, u) \/ TickSave(t, u)
         \/ \E s \in Seats : Expire(s) \/ Reap(s)
  PROVE  Types'
<1>1. ASSUME NEW h \in Handlers, Abort(h)
      PROVE  Types'
  <2>1. Control' /\ frame[h].user \in Users
    BY <1>1, ReturnTypes DEF Abort, Types, InFlight
  <2>2. QED BY <1>1, <2>1 DEF Abort, Types, TypeOK, Control
<1>2. ASSUME NEW t \in Tickers, TickAbort(t) \/ \E u \in Users : TickGet(t, u) \/ TickSave(t, u)
      PROVE  Types'
  <2>1. ticker' \in [Tickers -> Ticker]
    <3>1. ticker[t] \in Ticker /\ ticker \in [Tickers -> Ticker]
      BY DEF Types, TypeOK
    <3>2. CASE TickAbort(t)
      BY <3>1, <3>2, TickerTypes DEF TickAbort
    <3>3. ASSUME NEW u \in Users, TickGet(t, u)
          PROVE  ticker' \in [Tickers -> Ticker]
      BY <3>1, <3>3, TickGetReads
    <3>4. ASSUME NEW u \in Users, TickSave(t, u)
          PROVE  ticker' \in [Tickers -> Ticker]
      <4>1. ticker[t].chosen \ {u} \in SUBSET Users
        BY <3>1 DEF Ticker
      <4>2. QED BY <3>1, <3>4, <4>1, TickerTypes DEF TickSave
    <3>5. QED BY <1>2, <3>2, <3>3, <3>4
  <2>2. turn' \in [Users -> Turn]
    BY <1>2 DEF TickAbort, TickGet, TickSave, Types, TypeOK, Turn, QueueState
  <2>3. QED
    BY <1>2, <2>1, <2>2 DEF TickAbort, TickGet, TickSave, Types, TypeOK, InFlight
<1>3. ASSUME NEW s \in Seats, Expire(s) \/ Reap(s)
      PROVE  Types'
  <2>1. SeatType'
    <3>1. CASE Expire(s)
      <4> DEFINE lapsed == [seats[s] EXCEPT !.key = FALSE]
      <4>1. lapsed \in Seat /\ lapsed.owner = seats[s].owner /\ lapsed.state = seats[s].state
            /\ ~lapsed.key
        BY SeatTypes DEF Types, TypeOK
      <4>2. seats' = [seats EXCEPT ![s] = lapsed]
        BY <3>1 DEF Expire
      <4> HIDE DEF lapsed
      <4>3. QED BY <4>1, <4>2 DEF Types, TypeOK, SeatType
    <3>2. CASE Reap(s)
      BY <3>2, SeatTypes DEF Reap, Types, TypeOK, SeatType
    <3>3. QED BY <1>3, <3>1, <3>2
  <2>2. QED BY <1>3, <2>1 DEF Expire, Reap, Types, TypeOK, SeatType, InFlight
<1>4. QED BY <1>1, <1>2, <1>3

-----------------------------------------------------------------------------
(* The invariant *)

(* A user waits for the answer to its request before it sends the next;     *)
(* only createSession, for a socket, runs beside it.                        *)
OneRequest ==
  /\ \A h \in Handlers : pc[h] \in {"mark", "lock", "complete", "get", "set"} =>
       frame[h].patch.kind # "create"
  /\ \A g, h \in Handlers : \A u \in Users :
       /\ frame[g].user = u /\ frame[g].patch.kind # "create"
       /\ frame[h].user = u /\ frame[h].patch.kind # "create"
       => g = h

(* A request about to hold a seat is in turn.                               *)
InTurn == \A h \in Handlers : pc[h] = "lock" => turn[frame[h].user] = "PROCESSING"

(* Whom a tick is to let in has not been let in since it was read, so that  *)
(* what the tick saves undoes no PROCESSING.                                *)
Pending ==
  \A t \in Tickers : \A u \in ticker[t].waiting \cup ticker[t].chosen :
    turn[u] \in {"WAITING", "CANCELLED"}

(* One tick runs at a time: there is one backend process, and a tick takes  *)
(* less than the second between two of them.                                *)
OneTick == \A s, t \in Tickers : s = t

(* Bookings are of seats sold to their users, one for each seat.            *)
BookedSold ==
  /\ \A b \in bookings : seats[b.seat].state = "SOLD" /\ seats[b.seat].owner = b.user
  /\ \A b, c \in bookings : b.seat = c.seat => b = c

(* What the session of a user may name: nothing, or one of its bookings.    *)
names == [u \in Users |-> {None} \cup {b.id : b \in {c \in bookings : c.user = u}}]

(* What a request is to write may be named; a sale writes its booking.      *)
PatchNamed == \A h \in Handlers :
  /\ frame[h].patch.kind = "set" => frame[h].patch.to \in names[frame[h].user]
  /\ pc[h] \in {"mark", "lock"} => frame[h].patch.kind = "keep"
  /\ pc[h] = "complete" => frame[h].patch.kind = "set" /\ frame[h].patch.to # None

(* What updateSession has read and is to write back may be named.           *)
SeenNamed == \A h \in Handlers :
  pc[h] = "set" /\ frame[h].patch.kind = "keep" /\ frame[h].user \notin failed =>
    frame[h].seen.bookingId \in names[frame[h].user]

(* h serves a cancellation: it is to write that there is no booking.        *)
Clears(h, u) ==
  frame[h].user = u /\ frame[h].patch.kind = "set" /\ frame[h].patch.to = None

(* What the session names may be named, or is about to be cleared.          *)
SessionNamed == \A u \in Users \ failed :
  session[u].bookingId \in names[u] \/ \E h \in Handlers : Clears(h, u)

-----------------------------------------------------------------------------
(* What the steps do to names and frames *)

LEMMA NamesKept == UNCHANGED bookings => UNCHANGED names
BY DEF names

LEMMA NamesNone == \A u \in Users : None \in names[u] /\ None \in names'[u]
BY DEF names

LEMMA NamesConfirm ==
  ASSUME Types, NEW h \in Handlers, NEW u \in Users, NEW s \in Seats, ConfirmStart(h, u, s)
  PROVE  /\ \A v \in Users : names[v] \subseteq names'[v]
         /\ sales + 1 \in names'[u] /\ sales + 1 # None
<1>1. ASSUME NEW v \in Users
      PROVE  names[v] \subseteq names'[v]
  <2>1. {c \in bookings : c.user = v} \subseteq {c \in bookings' : c.user = v}
    BY DEF ConfirmStart
  <2>2. QED BY <2>1 DEF names
<1>2. sales + 1 \in names'[u]
  <2> DEFINE b == [id |-> sales + 1, user |-> u, seat |-> s]
  <2>1. b \in bookings' /\ b.user = u /\ b.id = sales + 1
    BY DEF ConfirmStart
  <2> HIDE DEF b
  <2>2. QED BY <2>1 DEF names
<1>3. sales + 1 # None
  BY NoneAssumption, LimitAssumption DEF ConfirmStart, Types, TypeOK
<1>4. QED BY <1>1, <1>2, <1>3

LEMMA NamesCancel ==
  ASSUME NEW h \in Handlers, NEW b \in bookings, Cancel(h, b)
  PROVE  \A v \in Users \ {b.user} : names'[v] = names[v]
<1> SUFFICES ASSUME NEW v \in Users \ {b.user}
             PROVE  names'[v] = names[v]
  OBVIOUS
<1>1. {c \in bookings' : c.user = v} = {c \in bookings : c.user = v}
  BY DEF Cancel
<1>2. QED BY <1>1 DEF names

LEMMA SeenFrame ==
  ASSUME Types, NEW h \in Handlers, NEW found, frame' = [frame EXCEPT ![h].seen = found]
  PROVE  /\ \A g \in Handlers : frame'[g].user = frame[g].user /\ frame'[g].patch = frame[g].patch
         /\ \A g \in Handlers \ {h} : frame'[g] = frame[g]
         /\ frame'[h].seen = found
<1>1. frame \in [Handlers -> Frame]
  BY DEF Types, TypeOK
<1>2. QED BY <1>1 DEF Frame

LEMMA CreatedFrame ==
  ASSUME Types, NEW h \in Handlers, NEW found, Created(h, found)
  PROVE  \/ frame[h].patch.kind = "create" /\ Return(h)
         \/ /\ frame[h].patch.kind # "create"
            /\ Goto(h, "set")
            /\ \A g \in Handlers : frame'[g].user = frame[g].user /\ frame'[g].patch = frame[g].patch
            /\ \A g \in Handlers \ {h} : frame'[g] = frame[g]
            /\ frame'[h].seen = found
BY SeenFrame DEF Created

LEMMA CallFrame ==
  ASSUME Types, NEW h \in Handlers, NEW step, NEW u, NEW s, NEW patch,
         Call(h, step, u, s, patch)
  PROVE  /\ pc'[h] = step /\ frame'[h].user = u /\ frame'[h].patch = patch
         /\ \A g \in Handlers \ {h} : pc'[g] = pc[g] /\ frame'[g] = frame[g]
BY DEF Call, Goto, Types, TypeOK

LEMMA ReturnFrame ==
  ASSUME Types, NEW h \in Handlers, Return(h)
  PROVE  /\ pc'[h] = "idle" /\ frame'[h].user = None /\ frame'[h].patch.kind = "keep"
         /\ \A g \in Handlers \ {h} : pc'[g] = pc[g] /\ frame'[g] = frame[g]
BY DEF Return, Goto, NoFrame, Types, TypeOK

LEMMA IdleFrame ==
  ASSUME Types, NEW h \in Handlers
  PROVE  /\ pc[h] = "idle" => frame[h].user = None /\ frame[h].patch.kind = "keep"
         /\ pc[h] # "idle" => frame[h].user \in Users
         /\ frame[h].patch.kind = "set" => frame[h].user \in Users
         /\ frame[h].patch.kind \in {"create", "keep", "set"}
BY DEF Types, TypeOK, InFlight, NoFrame, Frame, Patch

-----------------------------------------------------------------------------
(* The parts of the invariant *)

LEMMA PatchNamedStep ==
  ASSUME OneRequestPerUser, Types, OneRequest, PatchNamed, [Next]_vars
  PROVE  PatchNamed'
<1>1. CASE UNCHANGED <<pc, frame, bookings>>
  BY <1>1, NamesKept DEF PatchNamed
<1>2. ASSUME NEW h \in Handlers, NEW u \in Users, Join(h, u)
      PROVE  PatchNamed'
  BY <1>2, NamesKept DEF Join, MayCall, Call, Goto, PatchNamed
<1>3. ASSUME NEW h \in Handlers, NEW u \in Users, Connect(h, u)
      PROVE  PatchNamed'
  BY <1>3, NamesKept DEF Connect, Call, Goto, PatchNamed
<1>4. ASSUME NEW h \in Handlers, NEW u \in Users, NEW s \in Seats, SelectStart(h, u, s)
      PROVE  PatchNamed'
  BY <1>4, NamesKept DEF SelectStart, Call, Goto, Types, TypeOK, PatchNamed
<1>5. ASSUME NEW h \in Handlers, NEW u \in Users, NEW s \in Seats, ConfirmStart(h, u, s)
      PROVE  PatchNamed'
  <2>1. Call(h, "complete", u, s, Set(sales + 1)) /\ pc[h] = "idle"
        /\ UNCHANGED <<session, failed>>
    BY <1>5 DEF ConfirmStart, MayCall
  <2>2. QED BY <1>5, <2>1, CallFrame, IdleFrame, NamesConfirm DEF Set, PatchNamed
<1>6. ASSUME NEW h \in Handlers, NEW b \in bookings, Cancel(h, b)
      PROVE  PatchNamed'
  <2>1. /\ Call(h, "get", b.user, b.seat, Set(None)) /\ pc[h] = "idle"
        /\ \A g \in Handlers : frame[g].user = b.user => frame[g].patch.kind = "create"
        /\ UNCHANGED <<session, failed>>
    BY <1>6 DEF Cancel, AfterCancel, MayCall
  <2>2. b.user \in Users
    BY DEF Types, TypeOK, Booking
  <2>3. QED BY <1>6, <2>1, <2>2, CallFrame, IdleFrame, NamesNone, NamesCancel
               DEF Set, PatchNamed
<1>7. ASSUME NEW h \in Handlers, Mark(h)
      PROVE  PatchNamed'
  BY <1>7, NamesKept DEF Mark, Goto, Return, Types, TypeOK, NoFrame, PatchNamed
<1>8. ASSUME NEW h \in Handlers, Hold(h)
      PROVE  PatchNamed'
  BY <1>8, NamesKept DEF Hold, Goto, Return, Types, TypeOK, NoFrame, PatchNamed
<1>9. ASSUME NEW h \in Handlers, Complete(h)
      PROVE  PatchNamed'
  BY <1>9, NamesKept DEF Complete, Goto, Return, Types, TypeOK, NoFrame, PatchNamed
<1>10. ASSUME NEW h \in Handlers, GetSession(h)
      PROVE  PatchNamed'
  BY <1>10, NamesKept DEF GetSession, Goto, PatchNamed
<1>11. ASSUME NEW h \in Handlers, CreateGet(h)
      PROVE  PatchNamed'
  <2>1. /\ Created(h, session[frame[h].user]) \/ (Goto(h, "blank") /\ UNCHANGED frame)
        /\ pc[h] = "create" /\ UNCHANGED <<session, failed, names>>
    BY <1>11, NamesKept DEF CreateGet
  <2>2. QED BY <2>1, CreatedFrame, ReturnFrame DEF Goto, Types, TypeOK, PatchNamed
<1>12. ASSUME NEW h \in Handlers, CreateSet(h)
      PROVE  PatchNamed'
  <2>1. Created(h, Blank) /\ pc[h] = "blank" /\ UNCHANGED <<failed, names>>
        /\ session' = [session EXCEPT ![frame[h].user] = Blank]
    BY <1>12, NamesKept DEF CreateSet
  <2>2. QED BY <2>1, CreatedFrame, ReturnFrame DEF Goto, Types, TypeOK, PatchNamed
<1>13. ASSUME NEW h \in Handlers, UpdateSet(h)
      PROVE  PatchNamed'
  BY <1>13, NamesKept DEF UpdateSet, Goto, Return, NoFrame, PatchNamed
<1>14. ASSUME NEW h \in Handlers, Abort(h)
      PROVE  PatchNamed'
  BY <1>14, NamesKept
     DEF Abort, Goto, Return, Types, TypeOK, NoFrame, PatchNamed
<1>15. QED
  BY <1>1, <1>2, <1>3, <1>4, <1>5, <1>6, <1>7, <1>8, <1>9, <1>10, <1>11, <1>12, <1>13,
     <1>14
     DEF Next, Request, Serve, vars, Leave, Clear, TickGet, TickSave,
         TickAbort, Expire, Reap

LEMMA SeenNamedStep ==
  ASSUME OneRequestPerUser, Types, OneRequest, PatchNamed, SeenNamed, SessionNamed, [Next]_vars
  PROVE  SeenNamed'
<1>1. CASE UNCHANGED <<pc, frame, bookings, failed>>
  BY <1>1, NamesKept DEF SeenNamed
<1>2. ASSUME NEW h \in Handlers, NEW u \in Users, Join(h, u)
      PROVE  SeenNamed'
  BY <1>2, NamesKept DEF Join, MayCall, Call, Goto, SeenNamed
<1>3. ASSUME NEW h \in Handlers, NEW u \in Users, Connect(h, u)
      PROVE  SeenNamed'
  BY <1>3, NamesKept DEF Connect, Call, Goto, SeenNamed
<1>4. ASSUME NEW h \in Handlers, NEW u \in Users, NEW s \in Seats, SelectStart(h, u, s)
      PROVE  SeenNamed'
  BY <1>4, NamesKept DEF SelectStart, MayCall, Call, Goto, SeenNamed
<1>5. ASSUME NEW h \in Handlers, NEW u \in Users, NEW s \in Seats, ConfirmStart(h, u, s)
      PROVE  SeenNamed'
  <2>1. Call(h, "complete", u, s, Set(sales + 1)) /\ pc[h] = "idle"
        /\ UNCHANGED <<session, failed>>
    BY <1>5 DEF ConfirmStart, MayCall
  <2>2. QED BY <1>5, <2>1, CallFrame, IdleFrame, NamesConfirm DEF SeenNamed
<1>6. ASSUME NEW h \in Handlers, NEW b \in bookings, Cancel(h, b)
      PROVE  SeenNamed'
  <2>1. /\ Call(h, "get", b.user, b.seat, Set(None)) /\ pc[h] = "idle"
        /\ \A g \in Handlers : frame[g].user = b.user => frame[g].patch.kind = "create"
        /\ UNCHANGED <<session, failed>>
    BY <1>6 DEF Cancel, AfterCancel, MayCall
  <2>2. b.user \in Users
    BY DEF Types, TypeOK, Booking
  <2>3. QED BY <1>6, <2>1, CallFrame, IdleFrame, NamesCancel DEF SeenNamed
<1>7. ASSUME NEW h \in Handlers, Mark(h)
      PROVE  SeenNamed'
  BY <1>7, NamesKept DEF Mark, Goto, Return, Types, TypeOK, SeenNamed
<1>8. ASSUME NEW h \in Handlers, Hold(h)
      PROVE  SeenNamed'
  BY <1>8, NamesKept DEF Hold, Goto, Return, Types, TypeOK, SeenNamed
<1>9. ASSUME NEW h \in Handlers, Complete(h)
      PROVE  SeenNamed'
  BY <1>9, NamesKept DEF Complete, Goto, Return, Types, TypeOK, SeenNamed
<1>10. ASSUME NEW h \in Handlers, GetSession(h)
      PROVE  SeenNamed'
  BY <1>10, NamesKept
     DEF GetSession, Goto, Types, TypeOK, InFlight, OneRequest, SeenNamed,
         Clears,
         SessionNamed
<1>11. ASSUME NEW h \in Handlers, CreateGet(h)
      PROVE  SeenNamed'
  <2>1. /\ Created(h, session[frame[h].user]) \/ (Goto(h, "blank") /\ UNCHANGED frame)
        /\ pc[h] = "create" /\ UNCHANGED <<session, failed, names>>
    BY <1>11, NamesKept DEF CreateGet
  <2>2. QED BY <2>1, CreatedFrame, ReturnFrame, IdleFrame
               DEF Goto, Types, TypeOK, SeenNamed, Clears, SessionNamed, OneRequest
<1>12. ASSUME NEW h \in Handlers, CreateSet(h)
      PROVE  SeenNamed'
  <2>1. Created(h, Blank) /\ pc[h] = "blank" /\ UNCHANGED <<failed, names>>
        /\ session' = [session EXCEPT ![frame[h].user] = Blank]
    BY <1>12, NamesKept DEF CreateSet
  <2>2. QED BY <2>1, CreatedFrame, ReturnFrame, IdleFrame, NamesNone
               DEF Goto, Blank, Types, TypeOK, SeenNamed
<1>13. ASSUME NEW h \in Handlers, UpdateSet(h)
      PROVE  SeenNamed'
  BY <1>13, NamesKept DEF UpdateSet, Goto, Return, Types, TypeOK, SeenNamed
<1>14. ASSUME NEW h \in Handlers, Abort(h)
      PROVE  SeenNamed'
  BY <1>14, NamesKept DEF Abort, Goto, Return, Types, TypeOK, SeenNamed
<1>15. QED
  BY <1>1, <1>2, <1>3, <1>4, <1>5, <1>6, <1>7, <1>8, <1>9, <1>10, <1>11, <1>12, <1>13,
     <1>14
     DEF Next, Request, Serve, vars, Leave, Clear, TickGet, TickSave,
         TickAbort, Expire, Reap

LEMMA SessionNamedStep ==
  ASSUME OneRequestPerUser, Types, OneRequest, PatchNamed, SeenNamed, SessionNamed, [Next]_vars
  PROVE  SessionNamed'
<1>1. CASE UNCHANGED <<frame, bookings, session, failed>>
  BY <1>1, NamesKept DEF Clears, SessionNamed
<1>2. ASSUME NEW h \in Handlers, NEW u \in Users, Join(h, u)
      PROVE  SessionNamed'
  BY <1>2, NamesKept
     DEF Join, MayCall, Call, Types, TypeOK, NoFrame, Clears, SessionNamed
<1>3. ASSUME NEW h \in Handlers, NEW u \in Users, Connect(h, u)
      PROVE  SessionNamed'
  BY <1>3, NamesKept
     DEF Connect, Call, Types, TypeOK, NoFrame, Clears, SessionNamed
<1>4. ASSUME NEW h \in Handlers, NEW u \in Users, Clear(h, u)
      PROVE  SessionNamed'
  BY <1>4, NamesKept, NamesNone DEF Clear, NoSession, Clears, SessionNamed
<1>5. ASSUME NEW h \in Handlers, NEW u \in Users, NEW s \in Seats, SelectStart(h, u, s)
      PROVE  SessionNamed'
  BY <1>5, NamesKept
     DEF SelectStart, MayCall, Call, Types, TypeOK, NoFrame, Clears,
         SessionNamed
<1>6. ASSUME NEW h \in Handlers, NEW u \in Users, NEW s \in Seats, ConfirmStart(h, u, s)
      PROVE  SessionNamed'
  <2>1. Call(h, "complete", u, s, Set(sales + 1)) /\ pc[h] = "idle"
        /\ UNCHANGED <<session, failed>>
    BY <1>6 DEF ConfirmStart, MayCall
  <2>2. QED BY <1>6, <2>1, CallFrame, IdleFrame, NamesConfirm DEF Clears, SessionNamed
<1>7. ASSUME NEW h \in Handlers, NEW b \in bookings, Cancel(h, b)
      PROVE  SessionNamed'
  <2>1. /\ Call(h, "get", b.user, b.seat, Set(None)) /\ pc[h] = "idle"
        /\ \A g \in Handlers : frame[g].user = b.user => frame[g].patch.kind = "create"
        /\ UNCHANGED <<session, failed>>
    BY <1>7 DEF Cancel, AfterCancel, MayCall
  <2>2. b.user \in Users
    BY DEF Types, TypeOK, Booking
  <2>3. QED BY <1>7, <2>1, CallFrame, IdleFrame, NamesCancel
               DEF Set, Clears, SessionNamed
<1>8. ASSUME NEW h \in Handlers, Mark(h)
      PROVE  SessionNamed'
  BY <1>8, NamesKept DEF Mark, Return, Types, TypeOK, PatchNamed, Clears, SessionNamed
<1>9. ASSUME NEW h \in Handlers, Hold(h)
      PROVE  SessionNamed'
  BY <1>9, NamesKept DEF Hold, Return, Types, TypeOK, PatchNamed, Clears, SessionNamed
<1>10. ASSUME NEW h \in Handlers, Complete(h)
      PROVE  SessionNamed'
  BY <1>10, NamesKept
     DEF Complete, Return, Types, TypeOK, PatchNamed, Clears, SessionNamed
<1>11. ASSUME NEW h \in Handlers, GetSession(h)
      PROVE  SessionNamed'
  BY <1>11, NamesKept DEF GetSession, Clears, SessionNamed
<1>12. ASSUME NEW h \in Handlers, CreateGet(h)
      PROVE  SessionNamed'
  <2>1. /\ Created(h, session[frame[h].user]) \/ (Goto(h, "blank") /\ UNCHANGED frame)
        /\ pc[h] = "create" /\ UNCHANGED <<session, failed, names>>
    BY <1>12, NamesKept DEF CreateGet
  <2>2. QED BY <2>1, CreatedFrame, ReturnFrame DEF Clears, SessionNamed
<1>13. ASSUME NEW h \in Handlers, CreateSet(h)
      PROVE  SessionNamed'
  <2>1. Created(h, Blank) /\ pc[h] = "blank" /\ UNCHANGED <<failed, names>>
        /\ session' = [session EXCEPT ![frame[h].user] = Blank]
    BY <1>13, NamesKept DEF CreateSet
  <2>2. QED BY <2>1, CreatedFrame, ReturnFrame, NamesNone
               DEF Blank, Clears, SessionNamed
<1>14. ASSUME NEW h \in Handlers, UpdateSet(h)
      PROVE  SessionNamed'
  <2> DEFINE f == frame[h]
  <2>1. /\ Return(h) /\ pc[h] = "set" /\ UNCHANGED <<failed, names>>
        /\ session' = [session EXCEPT ![f.user] = Merged(f.seen, f.patch)]
    BY <1>14, NamesKept DEF UpdateSet
  <2>2. f.user \in Users /\ f.patch.kind \in {"keep", "set"}
    BY <2>1, IdleFrame DEF OneRequest
  <2>3. f.user \notin failed => Merged(f.seen, f.patch).bookingId \in names[f.user]
    <3>1. f.patch.kind = "keep" => Merged(f.seen, f.patch) = f.seen
      BY DEF Merged
    <3>2. f.patch.kind = "set" => Merged(f.seen, f.patch).bookingId = f.patch.to
      BY DEF Merged
    <3>3. QED BY <2>1, <2>2, <3>1, <3>2 DEF PatchNamed, SeenNamed
  <2>4. session'[f.user] = Merged(f.seen, f.patch)
        /\ \A v \in Users \ {f.user} : session'[v] = session[v]
    BY <2>1, <2>2 DEF Types, TypeOK
  <2>5. \A v \in Users \ {f.user} : \A g \in Handlers : Clears(g, v) => Clears(g, v)'
    BY <2>1, ReturnFrame DEF Clears
  <2>6. QED BY <2>1, <2>3, <2>4, <2>5 DEF SessionNamed
<1>15. ASSUME NEW h \in Handlers, Abort(h)
      PROVE  SessionNamed'
  BY <1>15, NamesKept DEF Abort, Return, Clears, SessionNamed
<1>16. QED
  BY <1>1, <1>2, <1>3, <1>4, <1>5, <1>6, <1>7, <1>8, <1>9, <1>10, <1>11, <1>12, <1>13,
     <1>14, <1>15
     DEF Next, Request, Serve, vars, Leave, TickGet, TickSave,
         TickAbort, Expire, Reap

LEMMA OneRequestStep ==
  ASSUME OneRequestPerUser, Types, OneRequest, [Next]_vars
  PROVE  OneRequest'
<1>1. CASE UNCHANGED <<pc, frame>>
  BY <1>1 DEF OneRequest
<1>2. ASSUME NEW h \in Handlers, NEW u \in Users, Join(h, u)
      PROVE  OneRequest'
  BY <1>2 DEF Join, MayCall, Call, Goto, Types, TypeOK, OneRequest
<1>3. ASSUME NEW h \in Handlers, NEW u \in Users, Connect(h, u)
      PROVE  OneRequest'
  BY <1>3 DEF Connect, Call, Goto, OneRequest
<1>4. ASSUME NEW h \in Handlers, NEW u \in Users, NEW s \in Seats, SelectStart(h, u, s)
      PROVE  OneRequest'
  BY <1>4 DEF SelectStart, MayCall, Call, Goto, Types, TypeOK, OneRequest
<1>5. ASSUME NEW h \in Handlers, NEW u \in Users, NEW s \in Seats, ConfirmStart(h, u, s)
      PROVE  OneRequest'
  BY <1>5 DEF ConfirmStart, MayCall, Call, Goto, Set, Types, TypeOK, OneRequest
<1>6. ASSUME NEW h \in Handlers, NEW b \in bookings, Cancel(h, b)
      PROVE  OneRequest'
  BY <1>6 DEF Cancel, MayCall, Call, Goto, AfterCancel, Set, Types, TypeOK, OneRequest
<1>7. ASSUME NEW h \in Handlers, Mark(h)
      PROVE  OneRequest'
  BY <1>7, NoneAssumption
     DEF Mark, Goto, Return, Types, TypeOK, OneRequest, NoFrame
<1>8. ASSUME NEW h \in Handlers, Hold(h)
      PROVE  OneRequest'
  BY <1>8, NoneAssumption
     DEF Hold, Goto, Return, Types, TypeOK, OneRequest, NoFrame
<1>9. ASSUME NEW h \in Handlers, Complete(h)
      PROVE  OneRequest'
  BY <1>9, NoneAssumption
     DEF Complete, Goto, Return, Types, TypeOK, OneRequest, NoFrame
<1>10. ASSUME NEW h \in Handlers, GetSession(h)
      PROVE  OneRequest'
  BY <1>10 DEF GetSession, Goto, OneRequest
<1>11. ASSUME NEW h \in Handlers, CreateGet(h)
      PROVE  OneRequest'
  <2>1. Created(h, session[frame[h].user]) \/ (Goto(h, "blank") /\ UNCHANGED frame)
    BY <1>11 DEF CreateGet
  <2>2. QED BY <2>1, CreatedFrame, NoneAssumption
               DEF Goto, Return, NoFrame, Types, TypeOK, OneRequest
<1>12. ASSUME NEW h \in Handlers, CreateSet(h)
      PROVE  OneRequest'
  <2>1. Created(h, Blank)
    BY <1>12 DEF CreateSet
  <2>2. QED BY <2>1, CreatedFrame, NoneAssumption
               DEF Goto, Return, NoFrame, Types, TypeOK, OneRequest
<1>13. ASSUME NEW h \in Handlers, UpdateSet(h)
      PROVE  OneRequest'
  BY <1>13, NoneAssumption DEF UpdateSet, Goto, Return, OneRequest, NoFrame
<1>14. ASSUME NEW h \in Handlers, Abort(h)
      PROVE  OneRequest'
  BY <1>14, NoneAssumption DEF Abort, Goto, Return, OneRequest, NoFrame
<1>15. QED
  BY <1>1, <1>2, <1>3, <1>4, <1>5, <1>6, <1>7, <1>8, <1>9, <1>10, <1>11, <1>12, <1>13,
     <1>14
     DEF Next, Request, Serve, vars, Leave, Clear, TickGet, TickSave,
         TickAbort, Expire, Reap

LEMMA PendingStep ==
  ASSUME OneTick, Types, Pending, [Next]_vars
  PROVE  Pending'
<1>1. CASE UNCHANGED <<turn, ticker>>
  BY <1>1 DEF Pending
<1>2. ASSUME NEW h \in Handlers, NEW u \in Users, Join(h, u) \/ Leave(h, u)
      PROVE  Pending'
  <2>1. UNCHANGED ticker
        /\ \A v \in Users : turn[v] \in {"WAITING", "CANCELLED"} =>
                            turn'[v] \in {"WAITING", "CANCELLED"}
    BY <1>2 DEF Join, Leave, Types, TypeOK, QUEUE_TERMINAL_STATES
  <2>2. QED BY <2>1 DEF Pending, Types, TypeOK, Ticker
<1>3. ASSUME NEW h \in Handlers, Mark(h) \/ Complete(h)
      PROVE  Pending'
  <2>1. UNCHANGED ticker
        /\ \A v \in Users : turn[v] \in {"WAITING", "CANCELLED"} => turn'[v] = turn[v]
    BY <1>3 DEF Mark, Complete, MayTurn, canTransitionQueue, QUEUE_TRANSITIONS, Types, TypeOK
  <2>2. QED BY <2>1 DEF Pending, Types, TypeOK, Ticker
<1>4. ASSUME NEW t \in Tickers, NEW u \in Users, TickGet(t, u)
      PROVE  Pending'
  <2>1. UNCHANGED turn
    BY <1>4 DEF TickGet
  <2>2. QED BY <1>4, <2>1, TickGetReads DEF Pending, Types, TypeOK
<1>5. ASSUME NEW t \in Tickers, NEW u \in Users, TickSave(t, u)
      PROVE  Pending'
  <2>1. /\ ticker' = [ticker EXCEPT ![t] = Promoting(ticker[t].chosen \ {u})]
        /\ turn' = [turn EXCEPT ![u] = "READY"]
    BY <1>5 DEF TickSave
  <2>2. ticker[t].chosen \ {u} \in SUBSET Users
    BY DEF Types, TypeOK, Ticker
  <2>3. ticker'[t].waiting = {} /\ ticker'[t].chosen = ticker[t].chosen \ {u}
    BY <2>1, <2>2, TickerTypes DEF Types, TypeOK
  <2>4. \A s \in Tickers : s = t
    BY DEF OneTick
  <2>5. QED BY <2>1, <2>2, <2>3, <2>4 DEF Pending, Types, TypeOK
<1>6. ASSUME NEW t \in Tickers, TickAbort(t)
      PROVE  Pending'
  BY <1>6, TickerTypes DEF TickAbort, Pending, Types, TypeOK
<1>7. QED
  BY <1>1, <1>2, <1>3, <1>4, <1>5, <1>6
     DEF Next, Request, Serve, vars, Connect, Clear, SelectStart, ConfirmStart, Cancel, Hold,
         GetSession, CreateGet, CreateSet, UpdateSet, Abort, Expire, Reap

LEMMA InTurnStep ==
  ASSUME OneRequestPerUser, Types, OneRequest, InTurn, Pending, [Next]_vars
  PROVE  InTurn'
<1>1. CASE UNCHANGED <<pc, frame, turn>>
  BY <1>1 DEF InTurn
<1>2. ASSUME NEW h \in Handlers, NEW u \in Users, Join(h, u)
      PROVE  InTurn'
  BY <1>2 DEF Join, MayCall, Call, Goto, OneRequest, InTurn, QueueState
<1>3. ASSUME NEW h \in Handlers, NEW u \in Users, Leave(h, u)
      PROVE  InTurn'
  BY <1>3 DEF Leave, MayCall, OneRequest, InTurn, QUEUE_TERMINAL_STATES, QueueState
<1>4. ASSUME NEW h \in Handlers, NEW u \in Users, Connect(h, u)
      PROVE  InTurn'
  BY <1>4
     DEF Connect, Call, Goto, InTurn
<1>5. ASSUME NEW h \in Handlers, NEW u \in Users, NEW s \in Seats, SelectStart(h, u, s)
      PROVE  InTurn'
  BY <1>5
     DEF SelectStart, MayCall, Call, Goto, InTurn
<1>6. ASSUME NEW h \in Handlers, NEW u \in Users, NEW s \in Seats, ConfirmStart(h, u, s)
      PROVE  InTurn'
  BY <1>6
     DEF ConfirmStart, MayCall, Call, Goto, InTurn
<1>7. ASSUME NEW h \in Handlers, NEW b \in bookings, Cancel(h, b)
      PROVE  InTurn'
  BY <1>7
     DEF Cancel, MayCall, Call, Goto, InTurn
<1>8. ASSUME NEW h \in Handlers, Mark(h)
      PROVE  InTurn'
  <2>1. frame[h].user \in Users
    BY <1>8 DEF Mark, Types, InFlight
  <2>2. \A g \in Handlers : pc'[g] = "lock" =>
          turn'[frame[g].user] = "PROCESSING" /\ frame'[g] = frame[g]
    BY <1>8 DEF Mark, Goto, Return, Types, TypeOK, InFlight, InTurn
  <2>3. QED BY <2>2 DEF InTurn
<1>9. ASSUME NEW h \in Handlers, Hold(h)
      PROVE  InTurn'
  BY <1>9
     DEF Hold, Goto, Return, Types, TypeOK, InTurn
<1>10. ASSUME NEW h \in Handlers, Complete(h)
      PROVE  InTurn'
  <2>1. frame[h].user \in Users
    BY <1>10 DEF Complete, Types, InFlight
  <2>2. \A g \in Handlers : pc'[g] = "lock" => pc[g] = "lock" /\ frame'[g] = frame[g] /\ g # h
    BY <1>10 DEF Complete, Goto, Return, Types, TypeOK
  <2>3. \A g \in Handlers : pc[g] = "lock" => frame[g].user \in Users /\ frame[g].user # frame[h].user
    BY <1>10 DEF Complete, Types, InFlight, OneRequest
  <2>4. \A v \in Users : v # frame[h].user => turn'[v] = turn[v]
    BY <1>10 DEF Complete, Types, TypeOK
  <2>5. QED BY <2>2, <2>3, <2>4 DEF InTurn
<1>11. ASSUME NEW h \in Handlers, GetSession(h)
      PROVE  InTurn'
  BY <1>11
     DEF GetSession, Goto, InTurn
<1>12. ASSUME NEW h \in Handlers, CreateGet(h)
      PROVE  InTurn'
  BY <1>12
     DEF CreateGet, Created, Goto, Return, Types, TypeOK, InTurn
<1>13. ASSUME NEW h \in Handlers, CreateSet(h)
      PROVE  InTurn'
  BY <1>13
     DEF CreateSet, Created, Goto, Return, Types, TypeOK, InTurn
<1>14. ASSUME NEW h \in Handlers, UpdateSet(h)
      PROVE  InTurn'
  BY <1>14
     DEF UpdateSet, Goto, Return, InTurn
<1>15. ASSUME NEW h \in Handlers, Abort(h)
      PROVE  InTurn'
  BY <1>15
     DEF Abort, Goto, Return, Types, TypeOK, InTurn
<1>16. ASSUME NEW t \in Tickers, NEW u \in Users, TickSave(t, u)
      PROVE  InTurn'
  <2>1. turn[u] # "PROCESSING"
    BY <1>16 DEF TickSave, Pending
  <2>2. QED BY <1>16, <2>1 DEF TickSave, InTurn
<1>17. QED
  BY <1>1, <1>2, <1>3, <1>4, <1>5, <1>6, <1>7, <1>8, <1>9, <1>10, <1>11, <1>12, <1>13,
     <1>14, <1>15, <1>16
     DEF Next, Request, Serve, vars, Clear, Expire, Reap, TickGet, TickAbort

LEMMA SoldStep ==
  ASSUME Types, BookedSold, [Next]_vars
  PROVE  BookedSold'
<1>1. CASE UNCHANGED <<seats, bookings>>
  BY <1>1 DEF BookedSold
<1>2. ASSUME NEW h \in Handlers, NEW u \in Users, NEW s \in Seats, ConfirmStart(h, u, s)
      PROVE  BookedSold'
  BY <1>2 DEF ConfirmStart, Types, TypeOK, BookedSold, Free, Sold
<1>3. ASSUME NEW h \in Handlers, NEW b \in bookings, Cancel(h, b)
      PROVE  BookedSold'
  BY <1>3 DEF Cancel, BookedSold
<1>4. ASSUME NEW h \in Handlers, Hold(h)
      PROVE  BookedSold'
  BY <1>4 DEF Hold, Types, TypeOK, BookedSold, Booking, Free, MayHold
<1>5. ASSUME NEW s \in Seats, Expire(s)
      PROVE  BookedSold'
  BY <1>5 DEF Expire, BookedSold, Free
<1>6. ASSUME NEW s \in Seats, Reap(s)
      PROVE  BookedSold'
  BY <1>6 DEF Reap, BookedSold
<1>7. QED
  BY <1>1, <1>2, <1>3, <1>4, <1>5, <1>6
     DEF Next, Request, Serve, vars, Join, Leave, Connect, Clear,
         SelectStart, Mark, Complete, GetSession, CreateGet, CreateSet, UpdateSet,
         Abort, TickGet, TickSave, TickAbort

(* The inductive invariant: its part about the types and the sales, which   *)
(* holds whatever overlaps; about sessions, for users who wait; about       *)
(* turns, for one tick at a time.                                           *)
SaleInv == Types /\ BookedSold

Inv == SaleInv /\ OneRequest /\ PatchNamed /\ SeenNamed /\ SessionNamed

TurnInv == Inv /\ InTurn /\ Pending

LEMMA InitInv == Init => Inv
<1> SUFFICES ASSUME Init
             PROVE  Inv
  OBVIOUS
<1>1. Types
  BY NoFrameTypes, SeatTypes, SessionTypes, TickerTypes, LimitAssumption
     DEF Init, Types, TypeOK, InFlight, Steps, Turn
<1>2. OneRequest /\ BookedSold /\ PatchNamed /\ SeenNamed
  BY NoneAssumption DEF Init, OneRequest, BookedSold, PatchNamed, SeenNamed, NoFrame
<1>3. SessionNamed
  BY NamesNone DEF Init, SessionNamed, NoSession
<1>4. QED BY <1>1, <1>2, <1>3 DEF Inv, SaleInv

LEMMA TypesStep == Types /\ [Next]_vars => Types'
<1> SUFFICES ASSUME Types, [Next]_vars
             PROVE  Types'
  OBVIOUS
<1>1. CASE UNCHANGED vars
  BY <1>1 DEF vars, Types, TypeOK, InFlight
<1>2. CASE Next
  BY <1>2, RequestTypes, ServeTypes, OtherTypes DEF Next
<1>3. QED BY <1>1, <1>2

LEMMA SaleInvariant == Spec => []SaleInv
<1>1. Init => SaleInv
  BY InitInv DEF Inv
<1>2. SaleInv /\ [Next]_vars => SaleInv'
  BY TypesStep, SoldStep DEF SaleInv
<1>3. QED BY <1>1, <1>2, PTL DEF Spec

LEMMA InvStep == ASSUME OneRequestPerUser PROVE Inv /\ [Next]_vars => Inv'
BY TypesStep, OneRequestStep, SoldStep, PatchNamedStep, SeenNamedStep, SessionNamedStep
   DEF Inv, SaleInv

LEMMA Invariant == ASSUME OneRequestPerUser PROVE Spec => []Inv
<1>1. Inv /\ [Next]_vars => Inv'
  BY InvStep
<1>2. QED BY InitInv, <1>1, PTL DEF Spec

LEMMA TurnInvariant == ASSUME OneRequestPerUser, OneTick PROVE Spec => []TurnInv
<1>1. Init => TurnInv
  BY InitInv, TickerTypes DEF Init, TurnInv, InTurn, Pending
<1>2. TurnInv /\ [Next]_vars => TurnInv'
  BY InvStep, InTurnStep, PendingStep DEF TurnInv, Inv, SaleInv
<1>3. QED BY <1>1, <1>2, PTL DEF Spec

-----------------------------------------------------------------------------
(* The theorems *)

(***************************************************************************)
(* The state is well typed through every interleaving of requests, also of *)
(* one user's tabs, of ticks, expiries and failures; in particular a seat  *)
(* is owned exactly while it is taken, and its Redis lock is there only    *)
(* while it is LOCKED.                                                     *)
(***************************************************************************)
THEOREM TypeInvariant == Spec => []TypeOK
<1>1. SaleInv => TypeOK
  BY DEF SaleInv, Types
<1>2. QED BY SaleInvariant, <1>1, PTL

(***************************************************************************)
(* Once a user's requests are answered its session names no booking, or    *)
(* one of its own that is still there, whatever createSession and          *)
(* updateSession (sessionService.ts) have overwritten for each other.      *)
(***************************************************************************)
THEOREM SessionsName == ASSUME OneRequestPerUser PROVE Spec => []SessionNamesBooking
<1>1. Inv => SessionNamesBooking
  <2> SUFFICES ASSUME Inv, NEW u \in Users, Idle(u), u \notin failed,
                      session[u].bookingId # None
               PROVE  \E b \in bookings : b.user = u /\ b.id = session[u].bookingId
    BY DEF SessionNamesBooking
  <2>1. \A h \in Handlers : ~Clears(h, u)
    BY DEF Clears, Idle
  <2>2. session[u].bookingId \in names[u]
    BY <2>1 DEF Inv, SessionNamed
  <2>3. QED BY <2>2 DEF names
<1>2. QED BY Invariant, <1>1, PTL

(***************************************************************************)
(* selectSeat holds a seat only for a user in its turn: between the gate   *)
(* of POST /seat/select and lockSeat nothing ends the turn of a user who   *)
(* waits for its answers.  A tick saves READY unasked over what the user   *)
(* has become since it was read (queueService.ts:190-193); while one tick  *)
(* runs at a time, that is never a user who is PROCESSING.                 *)
(***************************************************************************)
THEOREM LocksInTurn == ASSUME OneRequestPerUser, OneTick PROVE Spec => SeatsInTurn
<1>1. ASSUME TurnInv, [Next]_vars, NEW s \in Seats,
             seats'[s] # seats[s], seats'[s].state = "LOCKED", seats'[s].key
      PROVE  turn[seats'[s].owner] = "PROCESSING"
  <2>1. PICK h \in Handlers : Hold(h)
    <3>1. \A h \in Handlers, u \in Users, t \in Seats : ~ConfirmStart(h, u, t)
      BY <1>1 DEF ConfirmStart, Sold, TurnInv, Inv, SaleInv, Types, TypeOK
    <3>2. \A h \in Handlers : \A b \in bookings : ~Cancel(h, b)
      BY <1>1 DEF Cancel, Free, TurnInv, Inv, SaleInv, Types, TypeOK
    <3>3. \A t \in Seats : ~Expire(t) /\ ~Reap(t)
      BY <1>1, SeatTypes DEF Expire, Reap, TurnInv, Inv, SaleInv, Types, TypeOK
    <3>4. QED BY <1>1, <3>1, <3>2, <3>3
                 DEF Next, Request, Serve, vars, Join, Leave, Connect, Clear,
                     SelectStart, Mark, Complete, GetSession, CreateGet, CreateSet, UpdateSet,
                     Abort, TickGet, TickSave, TickAbort
  <2>2. seats'[s].owner = frame[h].user /\ pc[h] = "lock"
    BY <1>1, <2>1 DEF Hold, TurnInv, Inv, SaleInv, Types, TypeOK
  <2>3. QED BY <1>1, <2>2 DEF TurnInv, InTurn
<1>2. TurnInv /\ [Next]_vars =>
        [\A s \in Seats :
           seats'[s] # seats[s] /\ seats'[s].state = "LOCKED" /\ seats'[s].key =>
             turn[seats'[s].owner] = "PROCESSING"]_vars
  BY <1>1
<1>3. QED BY TurnInvariant, <1>2, PTL DEF Spec, SeatsInTurn

(***************************************************************************)
(* markCompleted comes after confirmBooking: a turn that is COMPLETED has  *)
(* a booking to show for it.                                               *)
(***************************************************************************)
THEOREM CompletedSold == ASSUME OneRequestPerUser PROVE Spec => CompletedBySale
<1>1. ASSUME Inv, [Next]_vars, NEW u \in Users,
             turn[u] # "COMPLETED", turn'[u] = "COMPLETED"
      PROVE  \E b \in bookings : b.user = u
  <2>1. PICK h \in Handlers : Complete(h)
    <3>1. \A h \in Handlers, v \in Users : ~Join(h, v) /\ ~Leave(h, v)
      BY <1>1 DEF Join, Leave, Inv, SaleInv, Types, TypeOK
    <3>2. \A h \in Handlers : ~Mark(h)
      BY <1>1 DEF Mark, Inv, SaleInv, Types, TypeOK
    <3>3. \A t \in Tickers, v \in Users : ~TickSave(t, v)
      BY <1>1 DEF TickSave, Inv, SaleInv, Types, TypeOK
    <3>4. QED BY <1>1, <3>1, <3>2, <3>3
                 DEF Next, Request, Serve, vars, Connect, Clear, SelectStart,
                     ConfirmStart, Cancel, Hold, GetSession, CreateGet, CreateSet, UpdateSet,
                     Abort, Expire, Reap, TickGet, TickAbort
  <2>2. u = frame[h].user /\ pc[h] = "complete"
    BY <1>1, <2>1 DEF Complete, Inv, SaleInv, Types, TypeOK
  <2>3. frame[h].patch.to \in names[u] /\ frame[h].patch.to # None
    BY <1>1, <2>2 DEF Inv, PatchNamed
  <2>4. QED BY <2>3 DEF names
<1>2. Inv /\ [Next]_vars =>
        [\A u \in Users : turn[u] # "COMPLETED" /\ turn'[u] = "COMPLETED" =>
           \E b \in bookings : b.user = u]_vars
  BY <1>1
<1>3. QED BY Invariant, <1>2, PTL DEF Spec, CompletedBySale

-----------------------------------------------------------------------------
(* The refinement *)

LEMMA OneSeatSale ==
  ASSUME Types, NEW s \in Seats, NEW q, seats' = [seats EXCEPT ![s] = q]
  PROVE  saleOfSeats' = [saleOfSeats EXCEPT ![s] = [state |-> q.state, owner |-> q.owner]]
BY DEF saleOfSeats, Types, TypeOK

LEMMA StepSale == SaleInv /\ [Next]_vars => [Sale!Next]_saleOfSeats
<1> SUFFICES ASSUME SaleInv, [Next]_vars
             PROVE  [Sale!Next]_saleOfSeats
  OBVIOUS
<1>1. CASE UNCHANGED seats
  BY <1>1 DEF saleOfSeats
<1>2. ASSUME NEW h \in Handlers, Hold(h), ~UNCHANGED seats
      PROVE  Sale!Next
  <2> DEFINE u == frame[h].user
             s == frame[h].seat
             q == [state |-> "LOCKED", owner |-> u, key |-> TRUE]
  <2>1. MayHold(u, s) /\ seats' = [seats EXCEPT ![s] = q]
    BY <1>2 DEF Hold
  <2>2. u \in Users /\ s \in Seats
    <3>1. u \in Users /\ s \in Seats \cup {None}
      BY <1>2 DEF Hold, SaleInv, Types, TypeOK, InFlight
    <3>2. s \in Seats
      BY <1>2, <2>1 DEF SaleInv, Types, TypeOK
    <3>3. QED BY <3>1, <3>2
  <2>3. saleOfSeats[s] \in {Sale!Free, Sale!Held(u)}
    BY <2>1, <2>2 DEF MayHold, saleOfSeats, Sale!Free, Sale!Held, SaleInv, Types, TypeOK
  <2>4. saleOfSeats' = [saleOfSeats EXCEPT ![s] = Sale!Held(u)]
    BY <2>1, <2>2, OneSeatSale DEF Sale!Held, SaleInv
  <2>5. QED BY <2>2, <2>3, <2>4 DEF Sale!Next, Sale!Select
<1>3. ASSUME NEW h \in Handlers, NEW u \in Users, NEW s \in Seats, ConfirmStart(h, u, s)
      PROVE  Sale!Next
  <2>1. saleOfSeats[s] = Sale!Held(u)
    BY <1>3 DEF ConfirmStart, saleOfSeats, Sale!Held
  <2>2. saleOfSeats' = [saleOfSeats EXCEPT ![s] = Sale!Sold(u)]
    BY <1>3, OneSeatSale DEF ConfirmStart, Sold, Sale!Sold, SaleInv
  <2>3. QED BY <2>1, <2>2 DEF Sale!Next, Sale!Confirm
<1>4. ASSUME NEW h \in Handlers, NEW b \in bookings, Cancel(h, b)
      PROVE  Sale!Next
  <2>1. b.user \in Users /\ b.seat \in Seats
    BY DEF SaleInv, Types, TypeOK, Booking
  <2>2. saleOfSeats[b.seat] = Sale!Sold(b.user)
    BY <2>1 DEF saleOfSeats, Sale!Sold, SaleInv, BookedSold
  <2>3. saleOfSeats' = [saleOfSeats EXCEPT ![b.seat] = Sale!Free]
    BY <1>4, <2>1, OneSeatSale DEF Cancel, Free, Sale!Free, SaleInv
  <2>4. QED BY <2>1, <2>2, <2>3 DEF Sale!Next, Sale!Cancel
<1>5. ASSUME NEW s \in Seats, Expire(s)
      PROVE  UNCHANGED saleOfSeats
  <2> DEFINE q == [seats[s] EXCEPT !.key = FALSE]
  <2>1. q.owner = seats[s].owner /\ q.state = seats[s].state
    BY SeatTypes DEF SaleInv, Types, TypeOK
  <2>2. seats' = [seats EXCEPT ![s] = q]
    BY <1>5 DEF Expire
  <2> HIDE DEF q
  <2>3. QED BY <2>1, <2>2, OneSeatSale DEF saleOfSeats, SaleInv
<1>6. ASSUME NEW s \in Seats, Reap(s)
      PROVE  Sale!Next
  <2>1. seats[s].state = "LOCKED" /\ seats[s].owner \in Users
    BY <1>6 DEF Reap, SaleInv, Types, TypeOK, Seat
  <2>2. saleOfSeats[s] = Sale!Held(seats[s].owner)
    BY <2>1 DEF saleOfSeats, Sale!Held
  <2>3. saleOfSeats' = [saleOfSeats EXCEPT ![s] = Sale!Free]
    BY <1>6, OneSeatSale DEF Reap, Free, Sale!Free, SaleInv
  <2>4. QED BY <2>1, <2>2, <2>3 DEF Sale!Next, Sale!Release
<1>7. QED
  BY <1>1, <1>2, <1>3, <1>4, <1>5, <1>6
     DEF Next, Request, Serve, vars, Join, Leave, Connect, Clear,
         SelectStart, Mark,
         Complete, GetSession, CreateGet, CreateSet, UpdateSet, Abort,
         TickGet, TickSave, TickAbort

(***************************************************************************)
(* The requests implement the sale of seats (SeatSale): every step sells,  *)
(* holds, frees or cancels one seat as its rules allow, or leaves the      *)
(* seats alone, however the requests of one user overlap.                  *)
(***************************************************************************)
THEOREM ImplementsSale == Spec => SaleSpec
<1>1. Init => Sale!Init
  BY DEF Init, saleOfSeats, Sale!Init, Sale!Free, Free
<1>2. QED BY <1>1, SaleInvariant, StepSale, PTL DEF Spec, SaleSpec, Sale!Spec

=============================================================================

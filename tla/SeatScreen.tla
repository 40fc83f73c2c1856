----------------------------- MODULE SeatScreen ------------------------------
(***************************************************************************)
(* One user on the seats page and the payment page: app/seats/page.tsx with *)
(* components/SeatMap, app/payment/page.tsx, and their calls of lib/api.ts. *)
(*                                                                          *)
(* The pages pass on the seat in localStorage.  Nothing keeps the user from *)
(* leaving a page while a call is in flight, from clicking a second seat    *)
(* before the first is answered, or from coming to the payment page by the  *)
(* browser's back button.  A call or its answer may be lost.  One train: a  *)
(* trainId that has changed since the seat was stored makes a seat that the *)
(* user does not hold, which confirmBooking refuses like any other.         *)
(*                                                                          *)
(* The backend is seen from outside, a request in one step; the requests of *)
(* other users and the reaper change the seats at any time.  SEAT_STATUS    *)
(* does not appear: no client has a trainId, so that it is sent to nobody.  *)
(***************************************************************************)
EXTENDS Naturals, FiniteSets

CONSTANTS
  Seats,
  None,
  Calls,         \* requests of this browser in flight at a time
  MaxBookings,   \* bound: bookings the user makes
  MaxLosses      \* bound: calls and answers lost

ASSUME NoneAssumption  == None \notin Seats
ASSUME BoundAssumption == MaxBookings \in Nat /\ MaxLosses \in Nat

VARIABLES
  seats,     \* in the table: free, held by or sold to the user, or another's
  turn,      \* of the user in the queue; OUT is waiting, or not in it
  bookings,  \* of the user
  made,      \* the bookings made so far give the next id
  asked,     \* history: the bookings the user has asked to cancel
  seatId,    \* in localStorage
  page,      \* what the browser shows
  pc, frame, \* of each call
  losses     \* calls and answers lost so far

backend == <<seats, turn, bookings, made>>
calls   == <<pc, frame>>
vars    == <<backend, asked, seatId, page, calls, losses>>

-----------------------------------------------------------------------------
(* Data *)

SeatOrNone == Seats \cup {None}
SeatStatus == {"free", "held", "mine", "other"}
Id == 1..MaxBookings

(* SeatMap: a seat can be clicked that is shown as free or as held by the   *)
(* user.  A map that has not come yet shows no seat.                        *)
NoMap == {}
clickable == {s \in Seats : seats[s] \in {"free", "held"}}

(* The state of the page that is open: the map of the seats page; seatId,   *)
(* ticket and loading of the payment page.                                  *)
Away == [at |-> "away", map |-> NoMap, seatId |-> None, ticket |-> 0, loading |-> FALSE]
Page == [at : {"away", "seats", "payment"}, map : SUBSET Seats,
         seatId : SeatOrNone, ticket : Id \cup {0}, loading : BOOLEAN]

(* mounted: the page that made the call is still there.                     *)
NoFrame == [kind |-> "none", mounted |-> FALSE, seat |-> None, id |-> 0, map |-> NoMap]
Frame   == [kind : {"none", "map", "select", "confirm", "cancel"}, mounted : BOOLEAN,
            seat : SeatOrNone, id : Id \cup {0}, map : SUBSET Seats]

-----------------------------------------------------------------------------
(* Control of a call *)

Ask(c, kind, s, id) ==
  /\ pc[c] = "idle"
  /\ pc' = [pc EXCEPT ![c] = "asked"]
  /\ frame' = [frame EXCEPT ![c] = [NoFrame EXCEPT !.kind = kind, !.mounted = TRUE,
                                    !.seat = s, !.id = id]]

Served(c, kind) == pc[c] = "asked" /\ frame[c].kind = kind
Answer(c) == pc' = [pc EXCEPT ![c] = "answered"]

\* Mutated form: the route does not pass the error on to the errorHandler.
Refuse_NotPassedOn(c) == UNCHANGED pc
Refuse(c) == pc' = [pc EXCEPT ![c] = "refused"]

Come(c, kind) == pc[c] = "answered" /\ frame[c].kind = kind
Return(c) ==
  /\ pc' = [pc EXCEPT ![c] = "idle"]
  /\ frame' = [frame EXCEPT ![c] = NoFrame]

\* Mutated form: a call does not know of which page it is.
Unmount_StillMounted == UNCHANGED frame

(* The page is left: its calls go on without it.                            *)
Unmount == frame' = [c \in Calls |-> [frame[c] EXCEPT !.mounted = FALSE]]

-----------------------------------------------------------------------------
(* From page to page *)

(* The queue page: a user whose turn is over joins again, or leaves.        *)
JoinAgain ==
  /\ page.at = "away" /\ turn = "COMPLETED"
  /\ turn' = "OUT"
  /\ UNCHANGED <<seats, bookings, made, asked, seatId, page, calls, losses>>

LeaveQueue ==
  /\ page.at = "away" /\ turn \in {"READY", "PROCESSING"}
  /\ turn' = "OUT"
  /\ UNCHANGED <<seats, bookings, made, asked, seatId, page, calls, losses>>

OpenSeats(c) ==
  /\ page.at = "away"
  /\ page' = [Away EXCEPT !.at = "seats"]
  /\ Ask(c, "map", None, 0)
  /\ UNCHANGED <<backend, asked, seatId, losses>>

(* The button is off until a seat has been chosen, "back" never is.         *)
OpenPayment ==
  /\ page.at # "payment"
  /\ page' = [Away EXCEPT !.at = "payment", !.seatId = seatId]
  /\ Unmount
  /\ UNCHANGED <<backend, asked, seatId, pc, losses>>

Leave ==
  /\ page.at # "away"
  /\ page' = Away
  /\ Unmount
  /\ UNCHANGED <<backend, asked, seatId, pc, losses>>

-----------------------------------------------------------------------------
(* The seats page *)

ServeMap(c) ==
  /\ Served(c, "map")
  /\ frame' = [frame EXCEPT ![c].map = clickable]
  /\ Answer(c)
  /\ UNCHANGED <<backend, asked, seatId, page, losses>>

ShowMap(c) ==
  /\ Come(c, "map")
  /\ page' = IF frame[c].mounted THEN [page EXCEPT !.map = frame[c].map] ELSE page
  /\ Return(c)
  /\ UNCHANGED <<backend, asked, seatId, losses>>

Click(c, s) ==
  /\ page.at = "seats"
  /\ s \in page.map
  /\ Ask(c, "select", s, 0)
  /\ UNCHANGED <<backend, asked, seatId, page, losses>>

(* The turn is checked and marked, then the seat is locked or not.          *)
ServeSelect(c) ==
  LET s == frame[c].seat IN
  /\ Served(c, "select")
  /\ \/ /\ turn \in {"READY", "PROCESSING"}
        /\ turn' = "PROCESSING"
        /\ \/ /\ seats[s] \in {"free", "held"}
              /\ seats' = [seats EXCEPT ![s] = "held"]
              /\ Answer(c)
           \/ /\ seats[s] \notin {"free", "held"}
              /\ Refuse(c)
              /\ UNCHANGED seats
     \/ /\ turn \notin {"READY", "PROCESSING"}
        /\ Refuse(c)
        /\ UNCHANGED <<seats, turn>>
  /\ UNCHANGED <<bookings, made, asked, seatId, page, frame, losses>>

(* The rest of handleSelect: localStorage is set, from a page left too.     *)
ShowSelected(c) ==
  /\ Come(c, "select")
  /\ seatId' = frame[c].seat
  /\ Return(c)
  /\ UNCHANGED <<backend, asked, page, losses>>

-----------------------------------------------------------------------------
(* The payment page *)

Confirm(c) ==
  /\ page.at = "payment" /\ page.ticket = 0
  /\ page.seatId # None /\ ~page.loading
  /\ made + Cardinality({d \in Calls : frame[d].kind = "confirm"}) < MaxBookings
  /\ page' = [page EXCEPT !.loading = TRUE]
  /\ Ask(c, "confirm", page.seatId, 0)
  /\ UNCHANGED <<backend, asked, seatId, losses>>

(* confirmBooking, then markCompleted, which refuses a user who has left    *)
(* the queue or has chosen no seat in its new turn; the booking stands.     *)
ServeConfirm(c) ==
  LET s == frame[c].seat IN
  /\ Served(c, "confirm")
  /\ \/ /\ seats[s] = "held"
        /\ seats' = [seats EXCEPT ![s] = "mine"]
        /\ made' = made + 1
        /\ bookings' = bookings \cup {[id |-> made + 1, seat |-> s]}
        /\ \/ /\ turn \in {"PROCESSING", "COMPLETED"}
              /\ turn' = "COMPLETED"
              /\ frame' = [frame EXCEPT ![c].id = made + 1]
              /\ Answer(c)
           \/ /\ turn \notin {"PROCESSING", "COMPLETED"}
              /\ Refuse(c)
              /\ UNCHANGED <<turn, frame>>
     \/ /\ seats[s] # "held"
        /\ Refuse(c)
        /\ UNCHANGED <<seats, turn, bookings, made, frame>>
  /\ UNCHANGED <<asked, seatId, page, losses>>

ShowTicket(c) ==
  /\ Come(c, "confirm")
  /\ page' = IF frame[c].mounted
             THEN [page EXCEPT !.ticket = frame[c].id, !.loading = FALSE] ELSE page
  /\ Return(c)
  /\ UNCHANGED <<backend, asked, seatId, losses>>

Cancel(c) ==
  /\ page.at = "payment" /\ page.ticket # 0 /\ ~page.loading
  /\ page' = [page EXCEPT !.loading = TRUE]
  /\ asked' = asked \cup {page.ticket}
  /\ Ask(c, "cancel", None, page.ticket)
  /\ UNCHANGED <<backend, seatId, losses>>

\* Mutated form: by user and train.
Cancelled_OfTrain(id) == IF \E b \in bookings : b.id = id THEN bookings ELSE {}
Cancelled(id) == {b \in bookings : b.id = id}

ServeCancel(c) ==
  LET gone == Cancelled(frame[c].id) IN
  /\ Served(c, "cancel")
  /\ \/ /\ gone # {}
        /\ bookings' = bookings \ gone
        /\ seats' = [s \in Seats |-> IF \E b \in gone : b.seat = s THEN "free" ELSE seats[s]]
        /\ Answer(c)
     \/ /\ gone = {}
        /\ Refuse(c)
        /\ UNCHANGED <<bookings, seats>>
  /\ UNCHANGED <<turn, made, asked, seatId, page, frame, losses>>

(* The rest of cancel: it takes the user home, from any page.               *)
ShowCancelled(c) ==
  /\ Come(c, "cancel")
  /\ seatId' = None
  /\ page' = Away
  /\ pc' = [pc EXCEPT ![c] = "idle"]
  /\ frame' = [d \in Calls |-> IF d = c THEN NoFrame ELSE [frame[d] EXCEPT !.mounted = FALSE]]
  /\ UNCHANGED <<backend, asked, losses>>

-----------------------------------------------------------------------------
(* Errors *)

(* The page shows the error; loading is reset in finally.                   *)
ShowError(c) ==
  /\ pc[c] = "refused"
  /\ page' = IF frame[c].mounted THEN [page EXCEPT !.loading = FALSE] ELSE page
  /\ Return(c)
  /\ UNCHANGED <<backend, asked, seatId, losses>>

(* The call is lost before it is served, or its answer after that.          *)
Lose(c) ==
  /\ pc[c] \in {"asked", "answered"}
  /\ losses < MaxLosses
  /\ losses' = losses + 1
  /\ Refuse(c)
  /\ UNCHANGED <<backend, asked, seatId, page, frame>>

-----------------------------------------------------------------------------
(* Everybody else *)

(* A tick lets the user in, on whatever page it is.                         *)
LetIn ==
  /\ turn = "OUT"
  /\ turn' = "READY"
  /\ UNCHANGED <<seats, bookings, made, asked, seatId, page, calls, losses>>

(* The five minutes of a hold are over: to this user the seat is free, also *)
(* in the moment before the reaper has seen it.                             *)
Expire(s) ==
  /\ seats[s] = "held"
  /\ seats' = [seats EXCEPT ![s] = "free"]
  /\ UNCHANGED <<turn, bookings, made, asked, seatId, page, calls, losses>>

(* Another user's hold or booking begins or ends.                           *)
Other(s) ==
  /\ \/ seats[s] = "free" /\ seats' = [seats EXCEPT ![s] = "other"]
     \/ seats[s] = "other" /\ seats' = [seats EXCEPT ![s] = "free"]
  /\ UNCHANGED <<turn, bookings, made, asked, seatId, page, calls, losses>>

-----------------------------------------------------------------------------
Init ==
  /\ seats = [s \in Seats |-> "free"]
  /\ turn = "OUT"
  /\ bookings = {}
  /\ made = 0
  /\ asked = {}
  /\ seatId = None
  /\ page = Away
  /\ pc = [c \in Calls |-> "idle"]
  /\ frame = [c \in Calls |-> NoFrame]
  /\ losses = 0

Act(c) == (\E s \in Seats : Click(c, s)) \/ Confirm(c) \/ Cancel(c)

Serve(c) == ServeMap(c) \/ ServeSelect(c) \/ ServeConfirm(c) \/ ServeCancel(c)

Show(c) == ShowMap(c) \/ ShowSelected(c) \/ ShowTicket(c) \/ ShowCancelled(c) \/ ShowError(c)

Next ==
  \/ JoinAgain \/ LeaveQueue \/ LetIn \/ OpenPayment \/ Leave
  \/ \E c \in Calls : OpenSeats(c) \/ Act(c) \/ Serve(c) \/ Show(c) \/ Lose(c)
  \/ \E s \in Seats : Expire(s) \/ Other(s)

Spec == Init /\ [][Next]_vars

(* Requests are served and answers shown.                                   *)
Fairness == \A c \in Calls : WF_vars(Serve(c) \/ Show(c))

FairSpec == Spec /\ Fairness

-----------------------------------------------------------------------------
(* Properties *)

(* The types; the buttons of the payment page are off exactly while a call  *)
(* of this very page is in flight, whatever calls of pages left are.        *)
TypeOK ==
  /\ seats \in [Seats -> SeatStatus]
  /\ turn \in {"OUT", "READY", "PROCESSING", "COMPLETED"}
  /\ bookings \subseteq [id : Id, seat : Seats]
  /\ made \in 0..MaxBookings
  /\ asked \subseteq Id
  /\ seatId \in SeatOrNone
  /\ page \in Page
  /\ page.loading <=> page.at = "payment" /\ \E c \in Calls : frame[c].mounted
  /\ pc \in [Calls -> {"idle", "asked", "answered", "refused"}]
  /\ frame \in [Calls -> Frame]
  /\ losses \in 0..MaxLosses

(* The ticket on the screen is one: unless the user has asked to cancel it, *)
(* the booking it names is there, for the seat the page was opened with,    *)
(* and that seat is sold to the user: late answers, repeated cancellations  *)
(* and the calls of pages left notwithstanding.                             *)
TicketReal ==
  page.ticket \notin {0} \cup asked =>
    /\ [id |-> page.ticket, seat |-> page.seatId] \in bookings
    /\ seats[page.seatId] = "mine"

(* The payment page does not stay loading.                                  *)
ButtonsReturn == page.loading ~> ~page.loading

=============================================================================

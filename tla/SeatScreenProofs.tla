-------------------------- MODULE SeatScreenProofs ---------------------------
(***************************************************************************)
(* Theorems about SeatScreen, for any seats, calls in flight and bounds.   *)
(* What a step does to the calls is stated once (AskFrame, ReturnFrame,    *)
(* UnmountFrame); each kind of step has a lemma that carries the invariant *)
(* over it, and the lemma of an action says of which kind it is.           *)
(***************************************************************************)
EXTENDS SeatScreen, TLAPS, FiniteSetTheorems

-----------------------------------------------------------------------------
(* The invariant *)

(* What the user has been told of a booking and has not asked to cancel.    *)
Real(id, s) == id \notin asked => [id |-> id, seat |-> s] \in bookings

(* Ids are given once, and a seat is in one booking, which has it sold.     *)
Booked ==
  /\ \A b \in bookings : b.id <= made /\ seats[b.seat] = "mine"
  /\ \A a, b \in bookings : a.id = b.id \/ a.seat = b.seat => a = b

(* What the payment page shows.                                             *)
Shown == page.ticket # 0 => Real(page.ticket, page.seatId)

(* A call knows its seat, or the booking the user has asked to cancel.      *)
Kinds ==
  \A c \in Calls :
    /\ pc[c] = "idle" => frame[c].kind = "none"
    /\ frame[c].kind \in {"select", "confirm"} => frame[c].seat \in Seats
    /\ frame[c].kind = "cancel" => frame[c].id \in asked

(* The answer to a confirmation is true when it comes, however late.        *)
Answers ==
  \A c \in Calls : frame[c].kind = "confirm" /\ pc[c] = "answered" =>
                     Real(frame[c].id, frame[c].seat)

(* The calls of the open page are its own, and the payment page has one.    *)
Fit(f) == CASE page.at = "seats"   -> f.kind \in {"map", "select"}
            [] page.at = "payment" -> /\ f.kind \in {"confirm", "cancel"}
                                      /\ f.kind = "confirm" => f.seat = page.seatId
            [] OTHER -> FALSE

Mounted == {c \in Calls : frame[c].mounted}

OfPage ==
  /\ \A c \in Mounted : Fit(frame[c])
  /\ page.at = "payment" => \A c, d \in Mounted : c = d

(* Confirmations not served yet fit within the bound, as Confirm sees to.   *)
Confirms == {c \in Calls : frame[c].kind = "confirm"}
Unserved == {c \in Confirms : pc[c] = "asked"}

Within ==
  /\ IsFiniteSet(Confirms)
  /\ made + Cardinality(Unserved) <= MaxBookings

(* The inductive invariant.                                                 *)
Inv == TypeOK /\ Booked /\ Shown /\ Kinds /\ Answers /\ OfPage /\ Within

-----------------------------------------------------------------------------
(* Pages and calls *)

LEMMA Records ==
  /\ Away \in Page /\ Away.at = "away" /\ Away.ticket = 0 /\ ~Away.loading
  /\ NoFrame \in Frame /\ NoFrame.kind = "none" /\ ~NoFrame.mounted /\ NoFrame.seat = None
BY DEF Away, Page, NoMap, SeatOrNone, NoFrame, Frame

LEMMA AskFrame ==
  ASSUME TypeOK, NEW c \in Calls,
         NEW kind \in {"map", "select", "confirm", "cancel"},
         NEW s \in SeatOrNone, NEW id \in Id \cup {0}, Ask(c, kind, s, id)
  PROVE  /\ pc[c] = "idle" /\ pc' = [pc EXCEPT ![c] = "asked"]
         /\ frame' \in [Calls -> Frame]
         /\ \A d \in Calls \ {c} : frame'[d] = frame[d]
         /\ frame'[c].kind = kind /\ frame'[c].mounted /\ frame'[c].seat = s
         /\ frame'[c].id = id
BY DEF Ask, TypeOK, NoFrame, Frame, NoMap

LEMMA ReturnFrame ==
  ASSUME TypeOK, NEW c \in Calls, Return(c)
  PROVE  /\ pc' = [pc EXCEPT ![c] = "idle"]
         /\ frame' \in [Calls -> Frame]
         /\ frame' = [frame EXCEPT ![c] = NoFrame]
BY Records DEF Return, TypeOK

LEMMA UnmountFrame ==
  ASSUME TypeOK, Unmount
  PROVE  /\ frame' \in [Calls -> Frame]
         /\ \A d \in Calls : /\ ~frame'[d].mounted /\ frame'[d].kind = frame[d].kind
                             /\ frame'[d].seat = frame[d].seat /\ frame'[d].id = frame[d].id
BY DEF Unmount, TypeOK, Frame

-----------------------------------------------------------------------------
(* Confirmations within the bound: fewer, one more, one served *)

LEMMA LessWithin ==
  ASSUME TypeOK, Within, made' = made, Confirms' \subseteq Confirms,
         Unserved' \subseteq Unserved
  PROVE  Within'
<1>1. IsFiniteSet(Unserved)
  BY FS_Subset DEF Unserved, Within
<1>2. IsFiniteSet(Confirms') /\ IsFiniteSet(Unserved')
  BY <1>1, FS_Subset DEF Within
<1>3. Cardinality(Unserved') <= Cardinality(Unserved)
  BY <1>1, FS_Subset
<1>4. Cardinality(Unserved') \in Nat /\ Cardinality(Unserved) \in Nat
  BY <1>1, <1>2, FS_CardinalityType
<1>5. QED BY <1>2, <1>3, <1>4, BoundAssumption DEF Within, TypeOK

LEMMA MoreWithin ==
  ASSUME TypeOK, Within, NEW c \in Calls, made' = made,
         made + Cardinality(Confirms) < MaxBookings, c \notin Confirms,
         Confirms' = Confirms \cup {c}, Unserved' = Unserved \cup {c}
  PROVE  Within'
<1>1. IsFiniteSet(Confirms) /\ IsFiniteSet(Confirms')
      /\ Cardinality(Confirms') = Cardinality(Confirms) + 1
  BY FS_AddElement DEF Within
<1>2. IsFiniteSet(Unserved') /\ Cardinality(Unserved') <= Cardinality(Confirms')
  <2>1. Unserved' \subseteq Confirms'
    BY DEF Unserved
  <2>2. QED BY <1>1, <2>1, FS_Subset
<1>3. Cardinality(Unserved') \in Nat /\ Cardinality(Confirms) \in Nat
  BY <1>1, <1>2, FS_CardinalityType
<1>4. QED BY <1>1, <1>2, <1>3, BoundAssumption DEF Within, TypeOK

LEMMA ServedWithin ==
  ASSUME TypeOK, Within, NEW c \in Unserved, made' \in {made, made + 1},
         Confirms' = Confirms, Unserved' = Unserved \ {c}
  PROVE  Within' /\ made' \in 0..MaxBookings /\ made < MaxBookings
<1>1. IsFiniteSet(Unserved)
  BY FS_Subset DEF Unserved, Within
<1>2. IsFiniteSet(Unserved') /\ Cardinality(Unserved') = Cardinality(Unserved) - 1
  BY <1>1, FS_RemoveElement
<1>3. Cardinality(Unserved') \in Nat /\ Cardinality(Unserved) \in Nat
  BY <1>1, <1>2, FS_CardinalityType
<1>4. QED BY <1>2, <1>3, BoundAssumption DEF Within, TypeOK

-----------------------------------------------------------------------------
(* Steps of the others, and from page to page *)

LEMMA InitInv == Init => Inv
<1> SUFFICES ASSUME Init PROVE Inv
  OBVIOUS
<1>1. TypeOK
  BY Records, BoundAssumption DEF Init, TypeOK, SeatStatus, SeatOrNone
<1>2. Confirms = {} /\ Unserved = {}
  BY Records DEF Init, Confirms, Unserved
<1>3. Within
  BY <1>2, FS_EmptySet, BoundAssumption DEF Init, Within
<1>4. QED BY <1>1, <1>3, Records
          DEF Init, Inv, Booked, Shown, Kinds, Answers, OfPage, Mounted

(* Steps that leave the page, its calls and the bookings alone.             *)
Quiet == UNCHANGED <<bookings, made, asked, page, calls>>

LEMMA QuietStep ==
  ASSUME Inv, Quiet, seats' \in [Seats -> SeatStatus],
         \A s \in Seats : seats[s] = "mine" => seats'[s] = "mine",
         turn' \in {"OUT", "READY", "PROCESSING", "COMPLETED"},
         UNCHANGED <<seatId, losses>>
  PROVE  Inv'
<1>1. TypeOK'
  BY DEF Inv, Quiet, TypeOK, calls
<1>2. Booked'
  BY DEF Inv, Quiet, Booked, TypeOK
<1>3. QED
  BY <1>1, <1>2
     DEF Inv, Quiet, calls, Shown, Kinds, Answers, OfPage, Mounted, Fit, Real,
                    Within, Confirms, Unserved

LEMMA OthersStep ==
  ASSUME Inv, \/ JoinAgain \/ LeaveQueue \/ LetIn
              \/ \E s \in Seats : Expire(s) \/ Other(s)
  PROVE  Inv'
<1>1. CASE JoinAgain \/ LeaveQueue \/ LetIn
  BY <1>1, QuietStep DEF JoinAgain, LeaveQueue, LetIn, Quiet, Inv, TypeOK
<1>2. CASE \E s \in Seats : Expire(s) \/ Other(s)
  BY <1>2, QuietStep DEF Expire, Other, Quiet, Inv, TypeOK, SeatStatus
<1>3. QED BY <1>1, <1>2

LEMMA MoveStep ==
  ASSUME Inv, OpenPayment \/ Leave
  PROVE  Inv'
<1> DEFINE open == [Away EXCEPT !.at = "payment", !.seatId = seatId]
<1>1. PICK p \in {open, Away} : page' = p
  BY DEF OpenPayment, Leave
<1>2. p \in Page /\ p.ticket = 0 /\ ~p.loading
  BY Records DEF Page, Away, Inv, TypeOK
<1> HIDE DEF open
<1>3. /\ frame' \in [Calls -> Frame]
      /\ \A d \in Calls : /\ ~frame'[d].mounted /\ frame'[d].kind = frame[d].kind
                          /\ frame'[d].seat = frame[d].seat /\ frame'[d].id = frame[d].id
  BY UnmountFrame DEF OpenPayment, Leave, Inv
<1>4. UNCHANGED <<backend, asked, seatId, pc, losses>>
  BY DEF OpenPayment, Leave
<1>5. TypeOK'
  BY <1>1, <1>2, <1>3, <1>4 DEF Inv, TypeOK, backend
<1>6. Confirms' = Confirms /\ Unserved' = Unserved
  BY <1>3, <1>4 DEF Confirms, Unserved
<1>7. Within'
  BY <1>4, <1>6, LessWithin DEF Inv, backend
<1>8. Kinds' /\ Answers'
  BY <1>3, <1>4 DEF Inv, Kinds, Answers, Real, backend
<1>9. QED
  BY <1>1, <1>2, <1>3, <1>4, <1>5, <1>7, <1>8
     DEF Inv, Booked, Shown, OfPage, Mounted, backend

-----------------------------------------------------------------------------
(* A call of the open page begins *)

LEMMA AskStep ==
  ASSUME Inv, NEW c \in Calls,
         NEW kind \in {"map", "select", "confirm", "cancel"},
         NEW s \in SeatOrNone, NEW id \in Id \cup {0}, Ask(c, kind, s, id),
         page' \in Page, asked \subseteq asked', asked' \subseteq Id,
         page'.loading <=> page'.at = "payment",
         page'.ticket # 0 => Real(page'.ticket, page'.seatId),
         page.at \in {"away", page'.at},
         page.at = "payment" => ~page.loading /\ page'.seatId = page.seatId,
         kind \in {"select", "confirm"} => s \in Seats,
         kind = "cancel" => id \in asked',
         CASE page'.at = "seats" -> kind \in {"map", "select"}
           [] page'.at = "payment" -> /\ page.at = "payment"
                                      /\ kind \in {"confirm", "cancel"}
                                      /\ kind = "confirm" => s = page'.seatId
           [] OTHER -> FALSE,
         kind = "confirm" => made + Cardinality(Confirms) < MaxBookings,
         UNCHANGED <<backend, seatId, losses>>
  PROVE  Inv'
<1>1. /\ pc[c] = "idle" /\ pc' = [pc EXCEPT ![c] = "asked"]
      /\ frame' \in [Calls -> Frame]
      /\ \A d \in Calls \ {c} : frame'[d] = frame[d]
      /\ frame'[c].kind = kind /\ frame'[c].mounted /\ frame'[c].seat = s
      /\ frame'[c].id = id
  BY AskFrame DEF Inv
<1>2. TypeOK'
  BY <1>1 DEF Inv, TypeOK, backend
<1>3. Booked' /\ Shown'
  BY DEF Inv, Booked, Shown, Real, backend
<1>4. Kinds' /\ Answers'
  BY <1>1 DEF Inv, Kinds, Answers, Real, TypeOK, backend
<1>5. OfPage'
  <2>1. page.at = "payment" => Mounted = {}
    BY DEF Inv, TypeOK, Mounted
  <2>2. page.at = "away" => Mounted = {}
    BY DEF Inv, OfPage, Fit
  <2>3. Mounted' = Mounted \cup {c}
    BY <1>1 DEF Mounted
  <2>4. QED BY <1>1, <2>1, <2>2, <2>3 DEF Inv, OfPage, Fit, Mounted, TypeOK, Page
<1>6. Within'
  <2>1. c \notin Confirms
    BY <1>1 DEF Inv, Kinds, Confirms
  <2>2. CASE kind = "confirm"
    <3>1. Confirms' = Confirms \cup {c} /\ Unserved' = Unserved \cup {c}
      BY <1>1, <2>2 DEF Confirms, Unserved, Inv, TypeOK
    <3>2. QED BY <2>1, <2>2, <3>1, MoreWithin DEF Inv, backend
  <2>3. CASE kind # "confirm"
    <3>1. Confirms' = Confirms /\ Unserved' = Unserved
      BY <1>1, <2>1, <2>3 DEF Confirms, Unserved, Inv, TypeOK
    <3>2. QED BY <3>1, LessWithin DEF Inv, backend
  <2>4. QED BY <2>2, <2>3
<1>7. QED BY <1>2, <1>3, <1>4, <1>5, <1>6 DEF Inv

LEMMA UserStep ==
  ASSUME Inv, NEW c \in Calls, OpenSeats(c) \/ Act(c)
  PROVE  Inv'
<1>1. CASE OpenSeats(c)
  <2> DEFINE p == [Away EXCEPT !.at = "seats"]
  <2>1. p \in Page /\ p.at = "seats" /\ p.ticket = 0 /\ ~p.loading
    BY Records DEF Page, Away
  <2>2. page' = p /\ page.at = "away"
    BY <1>1 DEF OpenSeats
  <2> HIDE DEF p
  <2>3. QED BY <1>1, <2>1, <2>2, AskStep DEF OpenSeats, SeatOrNone, Inv, TypeOK
<1>2. ASSUME NEW s \in Seats, Click(c, s)
      PROVE  Inv'
  BY <1>2, AskStep DEF Click, SeatOrNone, Inv, TypeOK, Shown
<1>3. CASE Confirm(c)
  <2> DEFINE p == [page EXCEPT !.loading = TRUE]
  <2>1. /\ p \in Page /\ p.at = "payment" /\ p.ticket = 0 /\ p.loading
        /\ p.seatId = page.seatId /\ page.seatId \in Seats
    BY <1>3 DEF Confirm, Inv, TypeOK, Page, SeatOrNone
  <2>2. page' = p
    BY <1>3 DEF Confirm
  <2> HIDE DEF p
  <2>3. QED BY <1>3, <2>1, <2>2, AskStep DEF Confirm, Confirms, SeatOrNone, Inv, TypeOK
<1>4. CASE Cancel(c)
  <2> DEFINE p == [page EXCEPT !.loading = TRUE]
  <2>1. /\ p \in Page /\ p.at = "payment" /\ p.ticket = page.ticket /\ p.loading
        /\ p.seatId = page.seatId /\ page.ticket \in Id
    BY <1>4 DEF Cancel, Inv, TypeOK, Page
  <2>2. page' = p
    BY <1>4 DEF Cancel
  <2> HIDE DEF p
  <2>3. QED BY <1>4, <2>1, <2>2, AskStep DEF Cancel, SeatOrNone, Inv, TypeOK, Shown
<1>5. QED BY <1>1, <1>2, <1>3, <1>4 DEF Act

-----------------------------------------------------------------------------
(* The server, or the network, deals with a call *)

LEMMA ServedCalls ==
  ASSUME Inv, NEW c \in Calls, pc[c] \in {"asked", "answered"},
         NEW end \in {"answered", "refused"}, pc' = [pc EXCEPT ![c] = end],
         frame' \in [Calls -> Frame],
         \A d \in Calls : /\ frame'[d].mounted = frame[d].mounted
                          /\ frame'[d].kind = frame[d].kind
                          /\ frame'[d].seat = frame[d].seat
                          /\ frame[d].kind # "confirm" => frame'[d].id = frame[d].id,
         UNCHANGED <<asked, page>>
  PROVE  /\ Kinds' /\ OfPage'
         /\ pc' \in [Calls -> {"idle", "asked", "answered", "refused"}]
         /\ Confirms' = Confirms /\ Unserved' = Unserved \ {c}
         /\ made' = made => Within'
<1>1. Kinds' /\ OfPage' /\ pc' \in [Calls -> {"idle", "asked", "answered", "refused"}]
  BY DEF Inv, TypeOK, Kinds, OfPage, Mounted, Fit
<1>2. Confirms' = Confirms /\ Unserved' = Unserved \ {c}
  BY DEF Inv, TypeOK, Confirms, Unserved
<1>3. QED BY <1>1, <1>2, LessWithin DEF Inv

LEMMA ServeStep ==
  ASSUME Inv, NEW c \in Calls, Serve(c)
  PROVE  Inv'
<1>1. CASE ServeMap(c)
  <2>1. /\ frame' \in [Calls -> Frame]
        /\ \A d \in Calls : /\ frame'[d].mounted = frame[d].mounted
                            /\ frame'[d].kind = frame[d].kind
                            /\ frame'[d].seat = frame[d].seat
                            /\ frame'[d].id = frame[d].id
    BY <1>1 DEF ServeMap, Inv, TypeOK, Frame, clickable
  <2>2. /\ pc[c] = "asked" /\ pc' = [pc EXCEPT ![c] = "answered"]
        /\ frame[c].kind = "map" /\ UNCHANGED <<backend, asked, seatId, page, losses>>
    BY <1>1 DEF ServeMap, Served, Answer
  <2>3. /\ Kinds' /\ OfPage' /\ Within'
        /\ pc' \in [Calls -> {"idle", "asked", "answered", "refused"}]
    BY <2>1, <2>2, ServedCalls DEF backend
  <2>4. TypeOK'
    BY <2>1, <2>2, <2>3 DEF Inv, TypeOK, backend
  <2>5. Answers'
    BY <2>1, <2>2 DEF Inv, TypeOK, Answers, Real, backend
  <2>6. QED BY <2>2, <2>3, <2>4, <2>5 DEF Inv, Booked, Shown, Real, backend
<1>2. CASE ServeSelect(c)
  <2>1. PICK end \in {"answered", "refused"} :
          /\ pc[c] = "asked" /\ pc' = [pc EXCEPT ![c] = end]
          /\ frame[c].kind = "select"
          /\ UNCHANGED <<bookings, made, asked, seatId, page, frame, losses>>
    BY <1>2 DEF ServeSelect, Served, Answer, Refuse
  <2>2. /\ Kinds' /\ OfPage' /\ Within'
        /\ pc' \in [Calls -> {"idle", "asked", "answered", "refused"}]
    BY <2>1, ServedCalls DEF Inv, TypeOK
  <2>3. /\ seats' \in [Seats -> SeatStatus] /\ turn' \in {turn, "PROCESSING"}
        /\ \A s \in Seats : seats[s] = "mine" => seats'[s] = "mine"
    BY <1>2, <2>1 DEF ServeSelect, Inv, TypeOK, SeatStatus
  <2>4. TypeOK'
    BY <2>1, <2>2, <2>3 DEF Inv, TypeOK
  <2>5. Answers'
    BY <2>1 DEF Inv, TypeOK, Answers, Real
  <2>6. Booked'
    BY <2>1, <2>3 DEF Inv, TypeOK, Booked
  <2>7. QED BY <2>1, <2>2, <2>4, <2>5, <2>6 DEF Inv, Shown, Real
<1>3. CASE ServeConfirm(c)
  <2> DEFINE s == frame[c].seat
             b == [id |-> made + 1, seat |-> s]
  <2>1. /\ pc[c] = "asked" /\ frame[c].kind = "confirm" /\ c \in Unserved
        /\ s \in Seats /\ UNCHANGED <<asked, seatId, page, losses>>
    BY <1>3 DEF ServeConfirm, Served, Inv, Kinds, Unserved, Confirms
  <2>2. CASE seats[s] = "held"
    <3>1. PICK end \in {"answered", "refused"}, id \in {frame[c].id, made + 1} :
            /\ pc' = [pc EXCEPT ![c] = end]
            /\ frame' = [frame EXCEPT ![c].id = id]
            /\ end = "answered" => id = made + 1
            /\ seats' = [seats EXCEPT ![s] = "mine"]
            /\ made' = made + 1
            /\ bookings' = bookings \cup {b}
            /\ turn' \in {turn, "COMPLETED"}
      BY <1>3, <2>2 DEF ServeConfirm, Answer, Refuse, Inv, TypeOK, Frame
    <3>2. Confirms' = Confirms /\ Unserved' = Unserved \ {c}
      BY <2>1, <3>1 DEF Inv, TypeOK, Confirms, Unserved, Frame
    <3>3. Within' /\ made' \in 0..MaxBookings /\ made < MaxBookings
      BY <2>1, <3>1, <3>2, ServedWithin DEF Inv
    <3>4. made + 1 \in Id
      BY <3>3, BoundAssumption DEF Inv, TypeOK, Id
    <3>5. /\ frame' \in [Calls -> Frame] /\ frame'[c].id = id
          /\ \A d \in Calls : /\ frame'[d].mounted = frame[d].mounted
                              /\ frame'[d].kind = frame[d].kind
                              /\ frame'[d].seat = frame[d].seat
                              /\ d # c => frame'[d].id = frame[d].id
      BY <3>1, <3>4 DEF Inv, TypeOK, Frame
    <3>6. /\ Kinds' /\ OfPage'
          /\ pc' \in [Calls -> {"idle", "asked", "answered", "refused"}]
      BY <2>1, <3>1, <3>5, ServedCalls
    <3>7. TypeOK'
      BY <2>1, <3>1, <3>3, <3>4, <3>5, <3>6 DEF Inv, TypeOK, SeatStatus
    <3>8. Booked'
      BY <2>1, <2>2, <3>1, BoundAssumption DEF Inv, TypeOK, Booked, Id
    <3>9. Answers'
      BY <2>1, <3>1, <3>5 DEF Inv, TypeOK, Answers, Real
    <3>10. QED BY <2>1, <3>1, <3>3, <3>6, <3>7, <3>8, <3>9 DEF Inv, Shown, Real
  <2>3. CASE seats[s] # "held"
    <3>1. /\ pc' = [pc EXCEPT ![c] = "refused"]
          /\ UNCHANGED <<seats, turn, bookings, made, frame>>
      BY <1>3, <2>3 DEF ServeConfirm, Refuse
    <3>2. /\ Kinds' /\ OfPage' /\ Within'
          /\ pc' \in [Calls -> {"idle", "asked", "answered", "refused"}]
      BY <2>1, <3>1, ServedCalls DEF Inv, TypeOK
    <3>3. TypeOK'
      BY <2>1, <3>1, <3>2 DEF Inv, TypeOK
    <3>4. Answers'
      BY <2>1, <3>1 DEF Inv, TypeOK, Answers, Real
    <3>5. QED BY <2>1, <3>1, <3>2, <3>3, <3>4 DEF Inv, Booked, Shown, Real
  <2>4. QED BY <2>2, <2>3
<1>4. CASE ServeCancel(c)
  <2>1. /\ pc[c] = "asked" /\ frame[c].kind = "cancel" /\ frame[c].id \in asked
        /\ UNCHANGED <<turn, made, asked, seatId, page, frame, losses>>
    BY <1>4 DEF ServeCancel, Served, Inv, Kinds
  <2>2. PICK gone \in SUBSET bookings, end \in {"answered", "refused"} :
          /\ \A b \in gone : b.id \in asked
          /\ pc' = [pc EXCEPT ![c] = end]
          /\ bookings' = bookings \ gone
          /\ seats' \in [Seats -> SeatStatus]
          /\ \A b \in bookings' : seats'[b.seat] = seats[b.seat]
    <3>1. CASE Cancelled(frame[c].id) # {}
      <4> DEFINE gone == Cancelled(frame[c].id)
      <4>1. /\ pc' = [pc EXCEPT ![c] = "answered"]
            /\ bookings' = bookings \ gone
            /\ seats' = [t \in Seats |-> IF \E b \in gone : b.seat = t
                                         THEN "free" ELSE seats[t]]
        BY <1>4, <3>1 DEF ServeCancel, Answer
      <4>2. gone \in SUBSET bookings /\ \A b \in gone : b.id \in asked
        BY <2>1 DEF Cancelled
      <4> HIDE DEF gone
      <4>3. seats' \in [Seats -> SeatStatus]
        BY <4>1 DEF Inv, TypeOK, SeatStatus
      <4>4. \A b \in bookings \ gone : b.seat \in Seats /\ ~\E a \in gone : a.seat = b.seat
        BY <4>2 DEF Inv, TypeOK, Booked
      <4>5. QED BY <4>1, <4>2, <4>3, <4>4
    <3>2. CASE Cancelled(frame[c].id) = {}
      BY <1>4, <3>2 DEF ServeCancel, Refuse, Inv, TypeOK
    <3>3. QED BY <3>1, <3>2
  <2>3. /\ Kinds' /\ OfPage' /\ Within'
        /\ pc' \in [Calls -> {"idle", "asked", "answered", "refused"}]
    BY <2>1, <2>2, ServedCalls DEF Inv, TypeOK
  <2>4. TypeOK'
    BY <2>1, <2>2, <2>3 DEF Inv, TypeOK
  <2>5. Booked'
    BY <2>1, <2>2 DEF Inv, Booked
  <2>6. Answers' /\ Shown'
    BY <2>1, <2>2 DEF Inv, TypeOK, Answers, Shown, Real
  <2>7. QED BY <2>3, <2>4, <2>5, <2>6 DEF Inv
<1>5. QED BY <1>1, <1>2, <1>3, <1>4 DEF Serve

LEMMA LoseStep ==
  ASSUME Inv, NEW c \in Calls, Lose(c)
  PROVE  Inv'
<1>1. /\ pc[c] \in {"asked", "answered"} /\ pc' = [pc EXCEPT ![c] = "refused"]
      /\ UNCHANGED <<backend, asked, seatId, page, frame>>
  BY DEF Lose, Refuse
<1>2. /\ Kinds' /\ OfPage' /\ Within'
      /\ pc' \in [Calls -> {"idle", "asked", "answered", "refused"}]
  BY <1>1, ServedCalls DEF Inv, TypeOK, backend
<1>3. TypeOK'
  BY <1>1, <1>2, BoundAssumption DEF Lose, Inv, TypeOK, backend
<1>4. Answers'
  BY <1>1 DEF Inv, TypeOK, Answers, Real, backend
<1>5. QED BY <1>1, <1>2, <1>3, <1>4 DEF Inv, Booked, Shown, Real, backend

-----------------------------------------------------------------------------
(* A call is over *)

LEMMA ReturnStep ==
  ASSUME Inv, NEW c \in Calls, Return(c), page' \in Page,
         frame[c].mounted \/ page' = page,
         frame[c].mounted => /\ page'.at = page.at /\ page'.seatId = page.seatId
                             /\ ~page'.loading,
         page'.ticket # 0 => Real(page'.ticket, page'.seatId),
         seatId' \in SeatOrNone,
         UNCHANGED <<backend, asked, losses>>
  PROVE  Inv'
<1>1. /\ pc' = [pc EXCEPT ![c] = "idle"]
      /\ frame' \in [Calls -> Frame]
      /\ frame' = [frame EXCEPT ![c] = NoFrame]
  BY ReturnFrame DEF Inv
<1>2. Mounted' = Mounted \ {c} /\ page'.at = page.at /\ page'.seatId = page.seatId
  BY <1>1, Records DEF Inv, TypeOK, Mounted
<1>3. page'.loading <=> page'.at = "payment" /\ \E d \in Calls : frame'[d].mounted
  <2>1. (\E d \in Calls : frame'[d].mounted) <=> Mounted' # {}
    BY DEF Mounted
  <2>2. (\E d \in Calls : frame[d].mounted) <=> Mounted # {}
    BY DEF Mounted
  <2>3. frame[c].mounted <=> c \in Mounted
    BY DEF Mounted
  <2>4. QED BY <1>2, <2>1, <2>2, <2>3 DEF Inv, TypeOK, OfPage
<1>4. TypeOK'
  BY <1>1, <1>3 DEF Inv, TypeOK, backend
<1>5. OfPage'
  BY <1>1, <1>2 DEF Inv, TypeOK, OfPage, Fit, Mounted
<1>6. Kinds' /\ Answers'
  BY <1>1, Records DEF Inv, TypeOK, Kinds, Answers, Real, backend
<1>7. Within'
  <2>1. Confirms' = Confirms \ {c} /\ Unserved' = Unserved \ {c}
    BY <1>1, Records DEF Inv, TypeOK, Confirms, Unserved
  <2>2. QED BY <2>1, LessWithin DEF Inv, backend
<1>8. QED BY <1>4, <1>5, <1>6, <1>7 DEF Inv, Booked, Shown, Real, backend

LEMMA ShowStep ==
  ASSUME Inv, NEW c \in Calls, Show(c)
  PROVE  Inv'
<1>1. CASE ShowMap(c)
  <2> DEFINE p == [page EXCEPT !.map = frame[c].map]
  <2>1. /\ p \in Page /\ p.at = page.at /\ p.ticket = page.ticket
        /\ p.seatId = page.seatId /\ p.loading = page.loading
    BY DEF Inv, TypeOK, Page, Frame
  <2>2. frame[c].mounted => ~page.loading
    BY <1>1 DEF ShowMap, Come, Inv, TypeOK, OfPage, Mounted, Fit
  <2>3. page' = IF frame[c].mounted THEN p ELSE page
    BY <1>1 DEF ShowMap
  <2> HIDE DEF p
  <2>4. QED BY <1>1, <2>1, <2>2, <2>3, ReturnStep DEF ShowMap, Inv, TypeOK, Shown
<1>2. CASE ShowSelected(c)
  <2>1. frame[c].mounted => ~page.loading
    BY <1>2 DEF ShowSelected, Come, Inv, TypeOK, OfPage, Mounted, Fit
  <2>2. frame[c].seat \in SeatOrNone
    BY DEF Inv, TypeOK, Frame
  <2>3. QED BY <1>2, <2>1, <2>2, ReturnStep DEF ShowSelected, Inv, TypeOK, Shown
<1>3. CASE ShowTicket(c)
  <2> DEFINE p == [page EXCEPT !.ticket = frame[c].id, !.loading = FALSE]
  <2>1. /\ p \in Page /\ p.at = page.at /\ p.ticket = frame[c].id
        /\ p.seatId = page.seatId /\ ~p.loading
    BY DEF Inv, TypeOK, Page, Frame
  <2>2. frame[c].mounted => frame[c].seat = page.seatId
    BY <1>3 DEF ShowTicket, Come, Inv, OfPage, Mounted, Fit
  <2>3. Real(frame[c].id, frame[c].seat)
    BY <1>3 DEF ShowTicket, Come, Inv, Answers
  <2>4. page' = IF frame[c].mounted THEN p ELSE page
    BY <1>3 DEF ShowTicket
  <2> HIDE DEF p
  <2>5. QED BY <1>3, <2>1, <2>2, <2>3, <2>4, ReturnStep
               DEF ShowTicket, Inv, TypeOK, Shown
<1>4. CASE ShowCancelled(c)
  <2> DEFINE g(d) == IF d = c THEN NoFrame ELSE [frame[d] EXCEPT !.mounted = FALSE]
  <2>1. \A d \in Calls : /\ g(d) \in Frame /\ ~g(d).mounted
                         /\ g(d).kind \in {"none", frame[d].kind}
                         /\ d # c => /\ g(d).kind = frame[d].kind
                                     /\ g(d).seat = frame[d].seat
                                     /\ g(d).id = frame[d].id
    BY Records DEF Inv, TypeOK, Frame
  <2>2. g(c).kind = "none"
    BY Records
  <2>3. /\ frame' = [d \in Calls |-> g(d)] /\ pc' = [pc EXCEPT ![c] = "idle"]
        /\ page' = Away /\ seatId' = None /\ UNCHANGED <<backend, asked, losses>>
    BY <1>4 DEF ShowCancelled
  <2> HIDE DEF g
  <2>4. /\ frame' \in [Calls -> Frame]
        /\ \A d \in Calls : ~frame'[d].mounted /\ frame'[d] = g(d)
    BY <2>1, <2>3
  <2>5. TypeOK'
    BY <2>3, <2>4, Records DEF Inv, TypeOK, backend, SeatOrNone
  <2>6. Kinds' /\ Answers'
    BY <2>1, <2>2, <2>3, <2>4 DEF Inv, TypeOK, Kinds, Answers, Real, backend
  <2>7. Confirms' \subseteq Confirms /\ Unserved' \subseteq Unserved
    BY <2>1, <2>2, <2>3, <2>4 DEF Inv, TypeOK, Confirms, Unserved
  <2>8. Within'
    BY <2>3, <2>7, LessWithin DEF Inv, backend
  <2>9. QED BY <2>3, <2>4, <2>5, <2>6, <2>8, Records
            DEF Inv, Booked, Shown, OfPage, Mounted, backend
<1>5. CASE ShowError(c)
  <2> DEFINE p == [page EXCEPT !.loading = FALSE]
  <2>1. /\ p \in Page /\ p.at = page.at /\ p.ticket = page.ticket
        /\ p.seatId = page.seatId /\ ~p.loading
    BY DEF Inv, TypeOK, Page
  <2>2. page' = IF frame[c].mounted THEN p ELSE page
    BY <1>5 DEF ShowError
  <2> HIDE DEF p
  <2>3. QED BY <1>5, <2>1, <2>2, ReturnStep DEF ShowError, Inv, TypeOK, Shown
<1>6. QED BY <1>1, <1>2, <1>3, <1>4, <1>5 DEF Show

-----------------------------------------------------------------------------
(* The theorems *)

LEMMA Invariant == Spec => []Inv
<1>1. Inv /\ [Next]_vars => Inv'
  <2> SUFFICES ASSUME Inv, [Next]_vars PROVE Inv'
    OBVIOUS
  <2>1. CASE UNCHANGED vars
    BY <2>1, QuietStep DEF vars, backend, Quiet, Inv, TypeOK
  <2>2. CASE Next
    BY <2>2, OthersStep, MoveStep, UserStep, ServeStep, ShowStep, LoseStep DEF Next
  <2>3. QED BY <2>1, <2>2
<1>2. QED BY InitInv, <1>1, PTL DEF Spec

(***************************************************************************)
(* The state is well typed whatever the user clicks, leaves and comes back *)
(* to and whatever is lost; in particular the payment page is loading      *)
(* exactly while a call of the page that is open is in flight.             *)
(***************************************************************************)
THEOREM TypeInvariant == Spec => []TypeOK
<1>1. Inv => TypeOK
  BY DEF Inv
<1>2. QED BY Invariant, <1>1, PTL

(***************************************************************************)
(* A ticket on the payment page that the user has not asked to cancel      *)
(* names a booking there is, of the seat of that page, which is sold to    *)
(* the user: an answer carries what was made for it (api.ts), ids are not  *)
(* used again, and only what the user asked to cancel is cancelled.        *)
(***************************************************************************)
THEOREM TicketsReal == Spec => []TicketReal
<1>1. Inv => TicketReal
  <2> SUFFICES ASSUME Inv, page.ticket \notin {0} \cup asked
               PROVE  /\ [id |-> page.ticket, seat |-> page.seatId] \in bookings
                      /\ seats[page.seatId] = "mine"
    BY DEF TicketReal
  <2>1. [id |-> page.ticket, seat |-> page.seatId] \in bookings
    BY DEF Inv, Shown, Real
  <2>2. QED BY <2>1 DEF Inv, Booked
<1>2. QED BY Invariant, <1>1, PTL
=============================================================================

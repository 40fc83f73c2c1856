--------------------------- MODULE SeatLockProofs ---------------------------
(***************************************************************************)
(* Theorems about SeatLock, for any users, seats, handlers, reapers, lock   *)
(* lifetime and bounds.                                                     *)
(***************************************************************************)
EXTENDS SeatLock, FiniteSetTheorems, TLAPS

-----------------------------------------------------------------------------
(* Typing.                                                                  *)

LEMMA AgeType ==
  ASSUME NEW t \in 0..TTL
  PROVE  Age(t) \in 0..TTL
BY TTLAssumption DEF Age

LEMMA InitTypeOK == Init => TypeOK
BY UsersAssumption, TTLAssumption, BoundsAssumption
   DEF Init, TypeOK, Row, Snapshot, Lock, Booking, Frame, Reap, Item, UserOrNone,
       NoLock, NoSnapshot, NoFrame, NoItem, Steps, SeatState

(* What a call, a step of it and its end leave in the control variables.    *)
LEMMA RequestTypeOK ==
  ASSUME TypeOK, NEW h \in Handlers, Request(h)
  PROVE  TypeOK'
<1>1. ASSUME NEW u \in Users, NEW s \in Seats, LockStart(h, u, s)
      PROVE  TypeOK'
  BY <1>1, UsersAssumption, TTLAssumption
     DEF LockStart, MayCall, Call, Goto, getSeat, TypeOK, Frame, Snapshot, Row,
         UserOrNone, Steps, tables
<1>2. ASSUME NEW u \in Users, NEW s \in Seats, ConfirmStart(h, u, s)
      PROVE  TypeOK'
  BY <1>2, UsersAssumption, TTLAssumption
     DEF ConfirmStart, MayCall, Call, Goto, getSeat, TypeOK, Frame, Snapshot, Row,
         UserOrNone, Steps, tables
<1>3. ASSUME NEW u \in Users, NEW s \in Seats, ReleaseStart(h, u, s)
      PROVE  TypeOK'
  BY <1>3, UsersAssumption, TTLAssumption
     DEF ReleaseStart, MayCall, Call, Goto, getSeat, TypeOK, Frame, Snapshot, Row,
         UserOrNone, Steps, tables
<1>4. ASSUME NEW u \in Users, NEW b \in bookings, CancelStart(h, u, b)
      PROVE  TypeOK'
  BY <1>4, UsersAssumption, TTLAssumption
     DEF CancelStart, MayCall, Call, Goto, NoSnapshot, TypeOK, Frame, Snapshot, Booking,
         UserOrNone, Steps, SeatState, tables
<1>5. QED BY <1>1, <1>2, <1>3, <1>4 DEF Request

LEMMA ReturnTypes ==
  ASSUME TypeOK, NEW h \in Handlers, Return(h)
  PROVE  /\ pc' \in [Handlers -> Steps]
         /\ frame' \in [Handlers -> Frame]
         /\ \A g \in Handlers : IF pc'[g] = "idle" THEN frame'[g] = NoFrame
                                ELSE frame'[g].user \in Users /\ frame'[g].seat \in Seats
BY TTLAssumption
   DEF Return, TypeOK, Steps, Frame, NoFrame, NoSnapshot, Snapshot, SeatState,
       UserOrNone

LEMMA GotoTypes ==
  ASSUME TypeOK, NEW h \in Handlers, NEW step \in Steps \ {"idle"}, pc[h] # "idle",
         Goto(h, step), UNCHANGED frame
  PROVE  /\ pc' \in [Handlers -> Steps]
         /\ frame' \in [Handlers -> Frame]
         /\ \A g \in Handlers : IF pc'[g] = "idle" THEN frame'[g] = NoFrame
                                ELSE frame'[g].user \in Users /\ frame'[g].seat \in Seats
BY DEF Goto, TypeOK

LEMMA SetSeatTypes ==
  ASSUME TypeOK, NEW s \in Seats, NEW st \in SeatState, NEW u \in UserOrNone,
         NEW left \in 0..TTL, u = None <=> st = "AVAILABLE", SetSeat(s, st, u, left)
  PROVE  /\ seats' \in [Seats -> Row]
         /\ \A x \in Seats : seats'[x].owner = None <=> seats'[x].state = "AVAILABLE"
BY DEF SetSeat, NextVersion, TypeOK, Row

LEMMA FreeSeatTypes ==
  ASSUME TypeOK, NEW s \in Seats, FreeSeat(s)
  PROVE  /\ seats' \in [Seats -> Row]
         /\ \A x \in Seats : seats'[x].owner = None <=> seats'[x].state = "AVAILABLE"
BY SetSeatTypes, TTLAssumption DEF FreeSeat, UserOrNone, SeatState

LEMMA GetSeatType ==
  ASSUME TypeOK, NEW s \in Seats
  PROVE  getSeat(s) \in Snapshot
BY DEF TypeOK, getSeat, Snapshot, Row

LEMMA DelTypes ==
  ASSUME TypeOK, NEW s \in Seats, redisDel(s)
  PROVE  lock' \in [Seats -> Lock]
BY TTLAssumption DEF redisDel, NoLock, TypeOK, Lock, UserOrNone

LEMMA ServeTypeOK ==
  ASSUME TypeOK, NEW h \in Handlers, Serve(h)
  PROVE  TypeOK'
<1> USE DEF TypeOK
<1>f. pc[h] # "idle" => frame[h] \in Frame /\ frame[h].user \in Users
                        /\ frame[h].seat \in Seats /\ None \notin Users
  BY UsersAssumption
<1>1. CASE LockGet(h)
  BY <1>1, <1>f, ReturnTypes, TTLAssumption
     DEF LockGet, Goto, Steps, Frame, tables
<1>2. CASE LockSet(h)
  BY <1>2, <1>f, GotoTypes, TTLAssumption
     DEF LockSet, redisSet, Lock, UserOrNone, Steps
<1>3. CASE LockCas(h)
  <2>1. CASE SetSeat(frame[h].seat, "LOCKED", frame[h].user, frame[h].expiresIn) /\ Return(h)
    BY <1>3, <1>f, <2>1, ReturnTypes, SetSeatTypes
       DEF LockCas, Frame, UserOrNone, SeatState
  <2>2. CASE Goto(h, "lockUndo") /\ UNCHANGED <<seats, frame>>
    BY <1>3, <2>2, GotoTypes DEF LockCas, Steps
  <2>3. QED BY <1>3, <2>1, <2>2 DEF LockCas
<1>4. CASE LockUndo(h)
  BY <1>4, <1>f, ReturnTypes, DelTypes DEF LockUndo
<1>5. CASE ConfirmGet(h)
  BY <1>5, ReturnTypes, GotoTypes DEF ConfirmGet, Steps, tables
<1>6. CASE ConfirmCas(h)
  <2>1. CASE SetSeat(frame[h].seat, "SOLD", frame[h].user, 0)
             /\ Goto(h, "confirmDel") /\ UNCHANGED frame
    BY <1>6, <1>f, <2>1, GotoTypes, SetSeatTypes, TTLAssumption
       DEF ConfirmCas, UserOrNone, SeatState, Steps
  <2>2. CASE Return(h) /\ UNCHANGED seats
    BY <1>6, <2>2, ReturnTypes DEF ConfirmCas
  <2>3. QED BY <1>6, <2>1, <2>2 DEF ConfirmCas
<1>7. CASE ConfirmDel(h)
  BY <1>7, <1>f, GotoTypes, DelTypes DEF ConfirmDel, Steps
<1>8. CASE ConfirmInsert(h)
  <2>1. NewBooking(frame[h]) \in Booking
    BY <1>8, <1>f DEF ConfirmInsert, NewBooking, Booking, Frame, Snapshot
  <2>2. QED BY <1>8, <2>1, ReturnTypes DEF ConfirmInsert
<1>9. CASE CancelSeat(h)
  <2>1. CASE Goto(h, "cancelCas")
             /\ frame' = [frame EXCEPT ![h].seen = getSeat(frame[h].seat)]
    <3>1. getSeat(frame[h].seat) \in Snapshot
      BY <1>9, <1>f, GetSeatType DEF CancelSeat
    <3>2. QED BY <1>9, <1>f, <2>1, <3>1 DEF CancelSeat, Goto, Steps, Frame, tables
  <2>2. CASE Return(h)
    BY <1>9, <2>2, ReturnTypes DEF CancelSeat, tables
  <2>3. QED BY <1>9, <2>1, <2>2 DEF CancelSeat
<1>10. CASE CancelCas(h)
  <2>1. CASE FreeSeat(frame[h].seat) /\ Goto(h, "cancelDel") /\ UNCHANGED frame
    BY <1>10, <1>f, <2>1, GotoTypes, FreeSeatTypes DEF CancelCas, Steps
  <2>2. CASE Return(h) /\ UNCHANGED seats
    BY <1>10, <2>2, ReturnTypes DEF CancelCas
  <2>3. QED BY <1>10, <2>1, <2>2 DEF CancelCas
<1>11. CASE CancelDel(h)
  BY <1>11, <1>f, GotoTypes, DelTypes DEF CancelDel, Steps
<1>12. CASE CancelDrop(h)
  BY <1>12, ReturnTypes DEF CancelDrop, deleteBooking
<1>13. CASE ReleaseCas(h)
  <2>1. CASE FreeSeat(frame[h].seat) /\ Goto(h, "releaseDel") /\ UNCHANGED frame
    BY <1>13, <1>f, <2>1, GotoTypes, FreeSeatTypes DEF ReleaseCas, Steps
  <2>2. CASE Return(h) /\ UNCHANGED seats
    BY <1>13, <2>2, ReturnTypes DEF ReleaseCas
  <2>3. QED BY <1>13, <2>1, <2>2 DEF ReleaseCas
<1>14. CASE ReleaseDel(h)
  BY <1>14, <1>f, ReturnTypes, DelTypes DEF ReleaseDel
<1>15. QED
  BY <1>1, <1>2, <1>3, <1>4, <1>5, <1>6, <1>7, <1>8, <1>9, <1>10, <1>11, <1>12,
     <1>13, <1>14 DEF Serve

LEMMA NextItemTypes ==
  ASSUME TypeOK, NEW r \in Reapers, NEW rest \in SUBSET Item, NextItem(r, rest)
  PROVE  /\ reap' \in [Reapers -> Reap]
         /\ \A q \in Reapers : reap'[q].pc \in {"cas", "del"} <=> reap'[q].cur # NoItem
BY DEF NextItem, TypeOK, Reap

LEMMA ReapTypeOK ==
  ASSUME TypeOK, NEW r \in Reapers, ReapStep(r)
  PROVE  TypeOK'
<1> USE DEF TypeOK
<1>a. reap[r] \in Reap
  OBVIOUS
<1>b. NoItem \notin Item
  BY UsersAssumption DEF NoItem, Item
<1>1. CASE ReapScan(r)
  <2> DEFINE rows == {[seat |-> s, version |-> seats[s].version,
                       expiresIn |-> seats[s].expiresIn] : s \in LockedSeats}
  <2>1. rows \in SUBSET Item
    BY DEF LockedSeats, Item, Row
  <2>2. reap' = [reap EXCEPT ![r] = [pc |-> "get", todo |-> rows, cur |-> NoItem]]
    BY <1>1 DEF ReapScan
  <2>3. /\ reap' \in [Reapers -> Reap]
        /\ \A q \in Reapers : reap'[q].pc \in {"cas", "del"} <=> reap'[q].cur # NoItem
    BY <2>1, <2>2 DEF Reap
  <2>4. QED BY <1>1, <2>3 DEF ReapScan, tables, calls
<1>2. CASE ReapGet(r)
  <2>1. PICK item \in reap[r].todo :
          LET rest == reap[r].todo \ {item} IN
          IF redisGet(item.seat) = None \/ item.expiresIn = 0
          THEN reap' = [reap EXCEPT ![r] = [pc |-> "cas", todo |-> rest, cur |-> item]]
          ELSE NextItem(r, rest)
    BY <1>2 DEF ReapGet
  <2>2. item \in Item /\ reap[r].todo \ {item} \in SUBSET Item
    BY <1>a DEF Reap
  <2>3. /\ reap' \in [Reapers -> Reap]
        /\ \A q \in Reapers : reap'[q].pc \in {"cas", "del"} <=> reap'[q].cur # NoItem
    <3>1. CASE NextItem(r, reap[r].todo \ {item})
      BY <2>2, <3>1, NextItemTypes
    <3>2. CASE reap' = [reap EXCEPT ![r] = [pc |-> "cas", todo |-> reap[r].todo \ {item},
                                            cur |-> item]]
      BY <1>b, <2>2, <3>2 DEF Reap
    <3>3. QED BY <2>1, <3>1, <3>2
  <2>4. QED BY <1>2, <2>3 DEF ReapGet, tables, calls
<1>c. reap[r].todo \in SUBSET Item /\ (reap[r].pc \in {"cas", "del"} => reap[r].cur \in Item)
  BY <1>a DEF Reap
<1>d. reap[r].pc \in {"cas", "del"} => reap[r].cur.seat \in Seats
  BY <1>c DEF Item
<1>3. CASE ReapCas(r)
  <2>1. CASE FreeSeat(reap[r].cur.seat) /\ reap' = [reap EXCEPT ![r].pc = "del"]
    <3>1. /\ seats' \in [Seats -> Row]
          /\ \A x \in Seats : seats'[x].owner = None <=> seats'[x].state = "AVAILABLE"
      <4>1. reap[r].cur.seat \in Seats
        BY <1>3, <1>d DEF ReapCas
      <4>2. FreeSeat(reap[r].cur.seat)
        BY <2>1
      <4>3. QED BY <4>1, <4>2, FreeSeatTypes
    <3>2. /\ reap' \in [Reapers -> Reap]
          /\ \A q \in Reapers : reap'[q].pc \in {"cas", "del"} <=> reap'[q].cur # NoItem
      BY <1>3, <1>a, <2>1 DEF ReapCas, Reap
    <3>3. QED BY <1>3, <3>1, <3>2 DEF ReapCas, calls
  <2>2. CASE NextItem(r, reap[r].todo) /\ UNCHANGED seats
    BY <1>3, <1>c, <2>2, NextItemTypes DEF ReapCas, calls
  <2>3. QED BY <1>3, <2>1, <2>2 DEF ReapCas
<1>4. CASE ReapDel(r)
  BY <1>4, <1>c, <1>d, NextItemTypes, DelTypes DEF ReapDel, calls
<1>5. QED BY <1>1, <1>2, <1>3, <1>4 DEF ReapStep

LEMMA ElapseTypeOK == TypeOK /\ Elapse => TypeOK'
<1> SUFFICES ASSUME TypeOK, Elapse PROVE TypeOK'
  OBVIOUS
<1> USE DEF TypeOK
<1>1. \A t \in 0..TTL : Age(t) \in 0..TTL
  BY AgeType
<1>2. /\ seats' \in [Seats -> Row]
      /\ \A s \in Seats : seats'[s].owner = None <=> seats'[s].state = "AVAILABLE"
  BY <1>1 DEF Elapse, Row
<1>3. lock' \in [Seats -> Lock]
  <2>1. NoLock \in Lock
    BY TTLAssumption DEF Lock, NoLock, UserOrNone
  <2>2. ASSUME NEW s \in Seats
        PROVE  [lock[s] EXCEPT !.ttl = Age(lock[s].ttl)] \in Lock
    BY <1>1 DEF Lock
  <2>3. QED BY <2>1, <2>2 DEF Elapse
<1>4. frame' \in [Handlers -> Frame]
  BY <1>1 DEF Elapse, Frame
<1>5. \A h \in Handlers : IF pc'[h] = "idle" THEN frame'[h] = NoFrame
                          ELSE frame'[h].user \in Users /\ frame'[h].seat \in Seats
  <2>1. [NoFrame EXCEPT !.expiresIn = Age(NoFrame.expiresIn)] = NoFrame
    BY DEF NoFrame, Age
  <2>2. \A h \in Handlers : frame'[h] = [frame[h] EXCEPT !.expiresIn = Age(frame[h].expiresIn)]
    BY DEF Elapse
  <2>3. \A h \in Handlers : frame'[h].user = frame[h].user /\ frame'[h].seat = frame[h].seat
    BY <2>2 DEF Frame
  <2>4. QED BY <2>1, <2>2, <2>3 DEF Elapse
<1>6. /\ reap' \in [Reapers -> Reap]
      /\ \A r \in Reapers : reap'[r].pc \in {"cas", "del"} <=> reap'[r].cur # NoItem
  <2>1. \A item \in Item : AgeItem(item) \in Item
    BY <1>1 DEF AgeItem, Item
  <2>2. AgeItem(NoItem) = NoItem
    BY DEF AgeItem, NoItem, Age
  <2>3. NoItem \notin Item
    BY UsersAssumption DEF NoItem, Item
  <2>4. SUFFICES ASSUME NEW r \in Reapers
                 PROVE  /\ reap'[r] \in Reap
                        /\ reap'[r].pc \in {"cas", "del"} <=> reap'[r].cur # NoItem
    BY DEF Elapse
  <2>5. reap'[r] = [reap[r] EXCEPT !.todo = {AgeItem(item) : item \in reap[r].todo},
                                   !.cur = AgeItem(reap[r].cur)]
    BY DEF Elapse
  <2>6. reap[r] \in Reap
    OBVIOUS
  <2>7. {AgeItem(item) : item \in reap[r].todo} \in SUBSET Item
    BY <2>1, <2>6 DEF Reap
  <2>8. AgeItem(reap[r].cur) \in Item \cup {NoItem}
        /\ (AgeItem(reap[r].cur) = NoItem <=> reap[r].cur = NoItem)
    BY <2>1, <2>2, <2>3, <2>6 DEF Reap
  <2>9. QED BY <2>5, <2>6, <2>7, <2>8 DEF Reap
<1>7. QED BY <1>2, <1>3, <1>4, <1>5, <1>6 DEF Elapse

(* The type invariant, with a row's owner and a frame's caller and seat     *)
(* present exactly when they must be.                                       *)
THEOREM TypeInvariant == Spec => []TypeOK
<1>1. TypeOK /\ [Next]_vars => TypeOK'
  <2> SUFFICES ASSUME TypeOK, [Next]_vars PROVE TypeOK'
    OBVIOUS
  <2>1. ASSUME NEW h \in Handlers, Request(h) PROVE TypeOK'
    BY <2>1, RequestTypeOK
  <2>2. ASSUME NEW h \in Handlers, Serve(h) PROVE TypeOK'
    BY <2>2, ServeTypeOK
  <2>3. ASSUME NEW h \in Handlers, Abort(h) PROVE TypeOK'
    BY <2>3, ReturnTypes, BoundsAssumption DEF Abort, TypeOK, tables
  <2>4. ASSUME NEW r \in Reapers, ReapStep(r) PROVE TypeOK'
    BY <2>4, ReapTypeOK
  <2>5. ASSUME NEW r \in Reapers, ReapAbort(r) PROVE TypeOK'
    BY <2>5, NextItemTypes, BoundsAssumption DEF ReapAbort, TypeOK, tables, calls
  <2>6. CASE Elapse
    BY <2>6, ElapseTypeOK
  <2>7. CASE UNCHANGED vars
    BY <2>7 DEF vars, TypeOK
  <2>8. QED BY <2>1, <2>2, <2>3, <2>4, <2>5, <2>6, <2>7 DEF Next
<1>2. QED BY InitTypeOK, <1>1, PTL DEF Spec

-----------------------------------------------------------------------------
(* What a handler has read and checked stays true while the version does.   *)

(* A step leaves a row as it is or gives it a later version.                *)
RowsMove ==
  \A s \in Seats :
    /\ seats[s].version <= seats'[s].version
    /\ seats[s].version = seats'[s].version => getSeat(s)' = getSeat(s)

LEMMA SetSeatMoves ==
  ASSUME TypeOK, NEW s \in Seats, NEW st, NEW u, NEW left, SetSeat(s, st, u, left)
  PROVE  RowsMove
BY DEF TypeOK, Row, SetSeat, NextVersion, RowsMove, getSeat

LEMMA SameRows == ASSUME TypeOK, UNCHANGED seats PROVE RowsMove
BY DEF TypeOK, Row, RowsMove, getSeat

LEMMA ElapseMoves == ASSUME TypeOK, Elapse PROVE RowsMove
<1>1. SUFFICES ASSUME NEW s \in Seats
               PROVE  /\ seats[s].version <= seats'[s].version
                      /\ getSeat(s)' = getSeat(s)
  BY DEF RowsMove
<1>2. seats'[s] = [seats[s] EXCEPT !.expiresIn = Age(seats[s].expiresIn)]
  BY DEF Elapse
<1>3. seats[s] \in Row
  BY DEF TypeOK
<1>4. /\ seats'[s].version = seats[s].version
      /\ seats'[s].state = seats[s].state
      /\ seats'[s].owner = seats[s].owner
  BY <1>2, <1>3 DEF Row
<1>5. QED BY <1>3, <1>4 DEF Row, getSeat

(* A handler that did not move, whatever the others did.                    *)
LEMMA HandlerStaysFresh ==
  ASSUME TypeOK, RowsMove, NEW h \in Handlers, HandlerFresh(h), seats' \in [Seats -> Row],
         pc'[h] = pc[h], frame'[h].user = frame[h].user,
         frame'[h].seat = frame[h].seat, frame'[h].seen = frame[h].seen
  PROVE  HandlerFresh(h)'
<1>1. CASE pc[h] \notin BeforeCas
  BY <1>1 DEF HandlerFresh
<1>2. CASE pc[h] \in BeforeCas
  <2>1. frame[h].seat \in Seats /\ frame[h].seen.version \in Nat
    BY <1>2 DEF TypeOK, Frame, Snapshot, BeforeCas
  <2>a. /\ seats[frame[h].seat].version \in Nat
        /\ seats'[frame[h].seat].version \in Nat
        /\ seats[frame[h].seat].version <= seats'[frame[h].seat].version
    BY <2>1 DEF RowsMove, TypeOK, Row
  <2>b. frame[h].seen.version <= seats[frame[h].seat].version
    BY <1>2 DEF HandlerFresh
  <2>2. frame[h].seen.version <= seats'[frame[h].seat].version
    BY <2>1, <2>a, <2>b
  <2>3. ASSUME frame[h].seen.version = seats'[frame[h].seat].version
        PROVE  frame[h].seen = getSeat(frame[h].seat)'
    <3>1. /\ frame[h].seen.version = seats[frame[h].seat].version
          /\ seats[frame[h].seat].version = seats'[frame[h].seat].version
      BY <2>1, <2>a, <2>b, <2>3
    <3>2. frame[h].seen = getSeat(frame[h].seat)
      BY <1>2, <3>1 DEF HandlerFresh
    <3>3. \A s \in Seats : s = frame[h].seat => getSeat(s)' = getSeat(s)
      BY <3>1 DEF RowsMove
    <3>4. QED BY <2>1, <3>2, <3>3 DEF getSeat
  <2>4. QED BY <1>2, <2>2, <2>3 DEF HandlerFresh, getSeat
<1>3. QED BY <1>1, <1>2

LEMMA ItemStaysFresh ==
  ASSUME TypeOK, RowsMove, seats' \in [Seats -> Row],
         NEW item \in Item, ItemFresh(item)
  PROVE  ItemFresh(item)'
<1>1. item.seat \in Seats /\ item.version \in Nat
  BY DEF Item
<1>2. /\ seats[item.seat].version \in Nat /\ seats'[item.seat].version \in Nat
      /\ seats[item.seat].version <= seats'[item.seat].version
  BY <1>1 DEF TypeOK, Row, RowsMove
<1>3. ASSUME item.version = seats'[item.seat].version
      PROVE  seats'[item.seat].state = "LOCKED"
  <2>1. seats[item.seat].version = seats'[item.seat].version
    BY <1>1, <1>2, <1>3 DEF ItemFresh
  <2>2. seats[item.seat].state = "LOCKED"
    BY <1>3, <2>1 DEF ItemFresh
  <2>3. seats'[item.seat].state = seats[item.seat].state
    BY <1>1, <2>1 DEF RowsMove, getSeat
  <2>4. QED BY <2>2, <2>3
<1>4. QED BY <1>1, <1>2, <1>3 DEF ItemFresh

LEMMA PendingItems ==
  ASSUME TypeOK, NEW r \in Reapers
  PROVE  Pending(r) \subseteq Item
<1>1. reap[r] \in Reap /\ (reap[r].pc = "cas" => reap[r].cur # NoItem)
  BY DEF TypeOK
<1>2. QED BY <1>1 DEF Pending, Reap

(* The frame conditions: a step of one handler or reaper leaves the rest.   *)
OthersKept(h) == \A g \in Handlers \ {h} : pc'[g] = pc[g] /\ frame'[g] = frame[g]

LEMMA ReapersStayFresh ==
  ASSUME TypeOK, SnapshotFresh, RowsMove, seats' \in [Seats -> Row], UNCHANGED reap
  PROVE  \A r \in Reapers : \A item \in Pending(r)' : ItemFresh(item)'
<1>1. SUFFICES ASSUME NEW r \in Reapers, NEW item \in Pending(r)
               PROVE  ItemFresh(item)'
  BY DEF Pending
<1>2. item \in Item /\ ItemFresh(item)
  BY PendingItems DEF SnapshotFresh
<1>3. QED BY <1>2, ItemStaysFresh

(* A step of handler h keeps SnapshotFresh if h itself stays fresh.         *)
LEMMA OneHandlerMoves ==
  ASSUME TypeOK, SnapshotFresh, RowsMove, seats' \in [Seats -> Row], UNCHANGED reap,
         NEW h \in Handlers, OthersKept(h), HandlerFresh(h)'
  PROVE  SnapshotFresh'
<1>1. ASSUME NEW g \in Handlers \ {h} PROVE HandlerFresh(g)'
  BY HandlerStaysFresh DEF SnapshotFresh, OthersKept
<1>2. QED BY <1>1, ReapersStayFresh DEF SnapshotFresh

LEMMA ReturnFresh ==
  ASSUME TypeOK, NEW h \in Handlers, Return(h)
  PROVE  OthersKept(h) /\ HandlerFresh(h)'
<1>1. pc'[h] = "idle" /\ OthersKept(h)
  BY DEF TypeOK, Return, OthersKept
<1>2. QED BY <1>1 DEF HandlerFresh, BeforeCas

(* On to a step after the write.                                            *)
LEMMA AfterCasFresh ==
  ASSUME TypeOK, NEW h \in Handlers, NEW step, step \notin BeforeCas, Goto(h, step),
         UNCHANGED frame
  PROVE  OthersKept(h) /\ HandlerFresh(h)'
BY DEF TypeOK, Goto, OthersKept, HandlerFresh

(* On to another step before the write, the row read as before.             *)
LEMMA BeforeCasFresh ==
  ASSUME TypeOK, NEW h \in Handlers, HandlerFresh(h), pc[h] \in BeforeCas,
         NEW step, Goto(h, step), UNCHANGED seats,
         frame'[h].user = frame[h].user, frame'[h].seat = frame[h].seat,
         frame'[h].seen = frame[h].seen, Checked(step, frame[h].user, frame[h].seen)
  PROVE  HandlerFresh(h)'
BY DEF TypeOK, Goto, HandlerFresh, getSeat

LEMMA CallFresh ==
  ASSUME TypeOK, NEW h \in Handlers, NEW u \in Users, NEW s \in Seats, NEW id,
         NEW step, NEW seen, Call(h, step, u, s, seen, id), UNCHANGED seats,
         step \in BeforeCas => seen = getSeat(s) /\ Checked(step, u, seen)
  PROVE  OthersKept(h) /\ HandlerFresh(h)'
<1>1. /\ pc'[h] = step /\ OthersKept(h)
      /\ frame'[h].user = u /\ frame'[h].seat = s /\ frame'[h].seen = seen
  BY DEF TypeOK, Call, Goto, OthersKept
<1>2. ASSUME step \in BeforeCas PROVE HandlerFresh(h)'
  <2>1. seen.version = seats[s].version /\ seats[s].version \in Nat
    BY <1>2 DEF getSeat, TypeOK, Row
  <2>2. QED BY <1>1, <1>2, <2>1 DEF HandlerFresh, getSeat
<1>3. QED BY <1>1, <1>2 DEF HandlerFresh

LEMMA RequestFresh ==
  ASSUME TypeOK, TypeOK', SnapshotFresh, NEW h \in Handlers, Request(h)
  PROVE  SnapshotFresh'
<1>0. seats' \in [Seats -> Row]
  BY DEF TypeOK
<1>1. ASSUME NEW u \in Users, NEW s \in Seats, LockStart(h, u, s)
      PROVE  SnapshotFresh'
  <2>1. UNCHANGED <<seats, reap>> /\ Call(h, "lockGet", u, s, getSeat(s), 0)
    BY <1>1 DEF LockStart, tables
  <2>2. Checked("lockGet", u, getSeat(s))
    BY <1>1 DEF LockStart, Checked, getSeat, TypeOK
  <2>3. QED BY <1>0, <2>1, <2>2, CallFresh, SameRows, OneHandlerMoves
<1>2. ASSUME NEW u \in Users, NEW s \in Seats, ConfirmStart(h, u, s)
      PROVE  SnapshotFresh'
  <2>1. UNCHANGED <<seats, reap>> /\ Call(h, "confirmGet", u, s, getSeat(s), 0)
    BY <1>2 DEF ConfirmStart, tables
  <2>2. Checked("confirmGet", u, getSeat(s))
    BY <1>2 DEF ConfirmStart, Checked, getSeat
  <2>3. QED BY <1>0, <2>1, <2>2, CallFresh, SameRows, OneHandlerMoves
<1>3. ASSUME NEW u \in Users, NEW s \in Seats, ReleaseStart(h, u, s)
      PROVE  SnapshotFresh'
  <2>1. UNCHANGED <<seats, reap>> /\ Call(h, "releaseCas", u, s, getSeat(s), 0)
    BY <1>3 DEF ReleaseStart, tables
  <2>2. Checked("releaseCas", u, getSeat(s))
    BY <1>3 DEF ReleaseStart, Checked, getSeat
  <2>3. QED BY <1>0, <2>1, <2>2, CallFresh, SameRows, OneHandlerMoves
<1>4. ASSUME NEW u \in Users, NEW b \in bookings, CancelStart(h, u, b)
      PROVE  SnapshotFresh'
  <2>1. UNCHANGED <<seats, reap>> /\ Call(h, "cancelSeat", u, b.seat, NoSnapshot, b.id)
    BY <1>4 DEF CancelStart, tables
  <2>2. b.seat \in Seats /\ "cancelSeat" \notin BeforeCas
    BY DEF TypeOK, Booking, BeforeCas
  <2>3. QED BY <1>0, <2>1, <2>2, CallFresh, SameRows, OneHandlerMoves
<1>5. QED BY <1>1, <1>2, <1>3, <1>4 DEF Request

LEMMA ServeFresh ==
  ASSUME TypeOK, TypeOK', SnapshotFresh, NEW h \in Handlers, Serve(h)
  PROVE  SnapshotFresh'
<1>0. seats' \in [Seats -> Row] /\ HandlerFresh(h)
  BY DEF TypeOK, SnapshotFresh
<1>f. pc[h] # "idle" => frame[h].user \in Users /\ frame[h].seat \in Seats
  BY DEF TypeOK
(* A step that reads or writes no row and goes on before the write,         *)
(* a step that writes or leaves the row and goes on after it, and a return. *)
<1>a. ASSUME UNCHANGED <<seats, reap>>, Return(h) PROVE SnapshotFresh'
  BY <1>0, <1>a, ReturnFresh, SameRows, OneHandlerMoves
<1>b. ASSUME NEW step, step \notin BeforeCas, Goto(h, step), UNCHANGED <<frame, reap>>, RowsMove
      PROVE SnapshotFresh'
  BY <1>0, <1>b, AfterCasFresh, OneHandlerMoves
<1>c. ASSUME NEW step, Goto(h, step), UNCHANGED <<seats, reap>>, OthersKept(h), HandlerFresh(h)'
      PROVE SnapshotFresh'
  BY <1>0, <1>c, SameRows, OneHandlerMoves
<1>d. ASSUME NEW step, pc[h] \in BeforeCas, Goto(h, step), UNCHANGED <<seats, frame, reap>>,
             Checked(step, frame[h].user, frame[h].seen)
      PROVE SnapshotFresh'
  <2>1. OthersKept(h)
    BY <1>d DEF Goto, OthersKept, TypeOK
  <2>2. HandlerFresh(h)'
    BY <1>0, <1>d, BeforeCasFresh
  <2>3. QED BY <1>c, <1>d, <2>1, <2>2
<1>1. CASE LockGet(h)
  <2>1. CASE Return(h)
    BY <1>1, <1>a, <2>1 DEF LockGet, tables
  <2>2. CASE /\ MayLock(frame[h].user, frame[h].seen, redisGet(frame[h].seat))
             /\ Goto(h, "lockSet")
             /\ frame' = [frame EXCEPT ![h].expiresIn = TTL]
    <3>1. OthersKept(h)
      BY <2>2 DEF Goto, OthersKept, TypeOK
    <3>2. /\ frame'[h].user = frame[h].user /\ frame'[h].seat = frame[h].seat
          /\ frame'[h].seen = frame[h].seen
      BY <2>2 DEF TypeOK, Frame
    <3>3. Checked("lockSet", frame[h].user, frame[h].seen)
      <4>1. ~(frame[h].seen.state = "LOCKED" /\ frame[h].seen.owner = None)
        BY <1>0, <1>1 DEF LockGet, HandlerFresh, BeforeCas, Checked
      <4>2. QED BY <2>2, <4>1 DEF MayLock, Checked, canTransitionSeat, SEAT_TRANSITIONS
    <3>4. HandlerFresh(h)'
      BY <1>0, <1>1, <2>2, <3>2, <3>3, BeforeCasFresh DEF LockGet, BeforeCas, tables
    <3>5. QED BY <1>1, <1>c, <2>2, <3>1, <3>4 DEF LockGet, tables
  <2>3. QED BY <1>1, <2>1, <2>2 DEF LockGet
<1>2. CASE LockSet(h)
  <2>1. Checked("lockCas", frame[h].user, frame[h].seen)
    BY <1>0, <1>2 DEF LockSet, HandlerFresh, BeforeCas, Checked
  <2>2. QED BY <1>2, <1>d, <2>1 DEF LockSet, BeforeCas
<1>3. CASE LockCas(h)
  <2>1. CASE SetSeat(frame[h].seat, "LOCKED", frame[h].user, frame[h].expiresIn) /\ Return(h)
    <3>1. RowsMove
      BY <1>3, <1>f, <2>1, SetSeatMoves DEF LockCas
    <3>2. QED BY <1>0, <1>3, <2>1, <3>1, ReturnFresh, OneHandlerMoves DEF LockCas
  <2>2. CASE Goto(h, "lockUndo") /\ UNCHANGED <<seats, frame>>
    BY <1>3, <1>b, <2>2, SameRows DEF LockCas, BeforeCas
  <2>3. QED BY <1>3, <2>1, <2>2 DEF LockCas
<1>4. CASE LockUndo(h)
  BY <1>4, <1>a DEF LockUndo
<1>5. CASE ConfirmGet(h)
  <2>1. CASE Return(h)
    BY <1>5, <1>a, <2>1 DEF ConfirmGet, tables
  <2>2. CASE canTransitionSeat(frame[h].seen.state, "SOLD") /\ Goto(h, "confirmCas")
             /\ UNCHANGED frame
    <3>1. Checked("confirmCas", frame[h].user, frame[h].seen)
      BY <1>0, <1>5, <2>2 DEF ConfirmGet, HandlerFresh, BeforeCas, Checked,
                              canTransitionSeat, SEAT_TRANSITIONS
    <3>2. QED BY <1>5, <1>d, <2>2, <3>1 DEF ConfirmGet, BeforeCas, tables
  <2>3. QED BY <1>5, <2>1, <2>2 DEF ConfirmGet
<1>6. CASE ConfirmCas(h)
  <2>1. CASE SetSeat(frame[h].seat, "SOLD", frame[h].user, 0)
             /\ Goto(h, "confirmDel") /\ UNCHANGED frame
    <3>1. RowsMove
      BY <1>6, <1>f, <2>1, SetSeatMoves DEF ConfirmCas
    <3>2. QED BY <1>6, <1>b, <2>1, <3>1 DEF ConfirmCas, BeforeCas
  <2>2. CASE Return(h) /\ UNCHANGED seats
    BY <1>6, <1>a, <2>2 DEF ConfirmCas
  <2>3. QED BY <1>6, <2>1, <2>2 DEF ConfirmCas
<1>7. CASE ConfirmDel(h)
  BY <1>7, <1>b, SameRows DEF ConfirmDel, BeforeCas
<1>8. CASE ConfirmInsert(h)
  BY <1>8, <1>a DEF ConfirmInsert
<1>9. CASE CancelSeat(h)
  <2>1. CASE Return(h)
    BY <1>9, <1>a, <2>1 DEF CancelSeat, tables
  <2>2. CASE /\ seats[frame[h].seat].state = "SOLD"
             /\ Goto(h, "cancelCas")
             /\ frame' = [frame EXCEPT ![h].seen = getSeat(frame[h].seat)]
    <3>1. OthersKept(h)
      BY <2>2 DEF Goto, OthersKept, TypeOK
    <3>2. /\ pc'[h] = "cancelCas" /\ frame'[h].user = frame[h].user
          /\ frame'[h].seat = frame[h].seat
          /\ frame'[h].seen = getSeat(frame[h].seat)
      <4>1. frame[h] \in Frame
        BY DEF TypeOK
      <4>2. QED BY <2>2, <4>1 DEF TypeOK, Frame, Goto
    <3>3. Checked("cancelCas", frame[h].user, getSeat(frame[h].seat))
      BY <2>2 DEF Checked, getSeat
    <3>4. /\ getSeat(frame[h].seat).version = seats[frame[h].seat].version
          /\ seats[frame[h].seat].version \in Nat
      BY <1>9, <1>f DEF CancelSeat, getSeat, TypeOK, Row
    <3>5. HandlerFresh(h)'
      BY <1>9, <3>2, <3>3, <3>4 DEF CancelSeat, HandlerFresh, getSeat, tables
    <3>6. QED BY <1>9, <1>c, <2>2, <3>1, <3>5 DEF CancelSeat, tables
  <2>3. QED BY <1>9, <2>1, <2>2 DEF CancelSeat
<1>10. CASE CancelCas(h)
  <2>1. CASE FreeSeat(frame[h].seat) /\ Goto(h, "cancelDel") /\ UNCHANGED frame
    <3>1. RowsMove
      BY <1>10, <1>f, <2>1, SetSeatMoves DEF CancelCas, FreeSeat
    <3>2. QED BY <1>10, <1>b, <2>1, <3>1 DEF CancelCas, BeforeCas
  <2>2. CASE Return(h) /\ UNCHANGED seats
    BY <1>10, <1>a, <2>2 DEF CancelCas
  <2>3. QED BY <1>10, <2>1, <2>2 DEF CancelCas
<1>11. CASE CancelDel(h)
  BY <1>11, <1>b, SameRows DEF CancelDel, BeforeCas
<1>12. CASE CancelDrop(h)
  BY <1>12, <1>a DEF CancelDrop
<1>13. CASE ReleaseCas(h)
  <2>1. CASE FreeSeat(frame[h].seat) /\ Goto(h, "releaseDel") /\ UNCHANGED frame
    <3>1. RowsMove
      BY <1>13, <1>f, <2>1, SetSeatMoves DEF ReleaseCas, FreeSeat
    <3>2. QED BY <1>13, <1>b, <2>1, <3>1 DEF ReleaseCas, BeforeCas
  <2>2. CASE Return(h) /\ UNCHANGED seats
    BY <1>13, <1>a, <2>2 DEF ReleaseCas
  <2>3. QED BY <1>13, <2>1, <2>2 DEF ReleaseCas
<1>14. CASE ReleaseDel(h)
  BY <1>14, <1>a DEF ReleaseDel
<1>15. QED
  BY <1>1, <1>2, <1>3, <1>4, <1>5, <1>6, <1>7, <1>8, <1>9, <1>10, <1>11, <1>12,
     <1>13, <1>14 DEF Serve

(* A step of one reaper keeps the handlers and the other reapers fresh.     *)
LEMMA OneReaperMoves ==
  ASSUME TypeOK, SnapshotFresh, RowsMove, seats' \in [Seats -> Row],
         UNCHANGED <<pc, frame>>, NEW r \in Reapers,
         \A q \in Reapers \ {r} : reap'[q] = reap[q],
         \A item \in Pending(r)' : item \in Pending(r) \/ ItemFresh(item)'
  PROVE  SnapshotFresh'
<1>1. ASSUME NEW h \in Handlers PROVE HandlerFresh(h)'
  BY HandlerStaysFresh DEF SnapshotFresh
<1>2. ASSUME NEW q \in Reapers, NEW item \in Pending(q) PROVE ItemFresh(item)'
  <2>1. item \in Item /\ ItemFresh(item)
    BY PendingItems DEF SnapshotFresh
  <2>2. QED BY <2>1, ItemStaysFresh
<1>3. ASSUME NEW q \in Reapers, NEW item \in Pending(q)' PROVE ItemFresh(item)'
  <2>1. CASE q = r
    BY <1>2, <1>3, <2>1
  <2>2. CASE q # r
    <3>1. item \in Pending(q)
      BY <1>3, <2>2 DEF Pending
    <3>2. QED BY <1>2, <3>1
  <2>3. QED BY <2>1, <2>2
<1>4. QED BY <1>1, <1>3 DEF SnapshotFresh

LEMMA NextItemPending ==
  ASSUME TypeOK, NEW r \in Reapers, NEW rest, NextItem(r, rest)
  PROVE  Pending(r)' = rest /\ \A q \in Reapers \ {r} : reap'[q] = reap[q]
BY DEF TypeOK, NextItem, Pending

LEMMA ReapFresh ==
  ASSUME TypeOK, TypeOK', SnapshotFresh, NEW r \in Reapers, ReapStep(r)
  PROVE  SnapshotFresh'
<1>0. seats' \in [Seats -> Row]
  BY DEF TypeOK
<1>1. CASE ReapScan(r)
  <2> DEFINE row(s) == [seat |-> s, version |-> seats[s].version,
                        expiresIn |-> seats[s].expiresIn]
  <2>1. UNCHANGED <<seats, pc, frame>>
    BY <1>1 DEF ReapScan, tables, calls
  <2>2. reap' = [reap EXCEPT ![r] = [pc |-> "get", todo |-> {row(s) : s \in LockedSeats},
                                     cur |-> NoItem]]
    BY <1>1 DEF ReapScan
  <2>3. Pending(r)' = {row(s) : s \in LockedSeats}
    BY <2>2 DEF TypeOK, Pending
  <2>4. \A s \in LockedSeats : ItemFresh(row(s))'
    BY <2>1 DEF LockedSeats, ItemFresh, TypeOK, Row
  <2>5. \A q \in Reapers \ {r} : reap'[q] = reap[q]
    BY <2>2 DEF TypeOK
  <2>6. QED BY <1>0, <2>1, <2>3, <2>4, <2>5, SameRows, OneReaperMoves
<1>2. CASE ReapGet(r)
  <2>1. UNCHANGED <<seats, pc, frame>> /\ reap[r].pc = "get"
    BY <1>2 DEF ReapGet, tables, calls
  <2>2. PICK item \in reap[r].todo :
          LET rest == reap[r].todo \ {item} IN
          IF redisGet(item.seat) = None \/ item.expiresIn = 0
          THEN reap' = [reap EXCEPT ![r] = [pc |-> "cas", todo |-> rest, cur |-> item]]
          ELSE NextItem(r, rest)
    BY <1>2 DEF ReapGet
  <2>3. Pending(r)' \subseteq reap[r].todo /\ \A q \in Reapers \ {r} : reap'[q] = reap[q]
    <3>1. CASE NextItem(r, reap[r].todo \ {item})
      BY <3>1, NextItemPending
    <3>2. CASE reap' = [reap EXCEPT ![r] = [pc |-> "cas", todo |-> reap[r].todo \ {item},
                                            cur |-> item]]
      BY <3>2 DEF TypeOK, Pending
    <3>3. QED BY <2>2, <3>1, <3>2
  <2>4. Pending(r)' \subseteq Pending(r)
    BY <2>3 DEF Pending
  <2>5. QED BY <1>0, <2>1, <2>3, <2>4, SameRows, OneReaperMoves
<1>3. CASE ReapCas(r)
  <2>1. CASE FreeSeat(reap[r].cur.seat) /\ reap' = [reap EXCEPT ![r].pc = "del"]
    <3>1. reap[r] \in Reap /\ reap[r].cur # NoItem
      BY <1>3 DEF TypeOK, ReapCas
    <3>2. reap[r].cur.seat \in Seats
      BY <3>1 DEF Reap, Item
    <3>3. RowsMove
      BY <2>1, <3>2, SetSeatMoves DEF FreeSeat
    <3>4. /\ reap'[r].pc = "del" /\ reap'[r].todo = reap[r].todo
          /\ \A q \in Reapers \ {r} : reap'[q] = reap[q]
      BY <2>1, <3>1 DEF TypeOK, Reap
    <3>5. Pending(r)' \subseteq Pending(r)
      BY <3>4 DEF Pending
    <3>6. QED BY <1>0, <1>3, <3>3, <3>4, <3>5, OneReaperMoves DEF ReapCas, calls
  <2>2. CASE NextItem(r, reap[r].todo) /\ UNCHANGED seats
    <3>1. Pending(r)' \subseteq Pending(r) /\ \A q \in Reapers \ {r} : reap'[q] = reap[q]
      BY <2>2, NextItemPending DEF Pending
    <3>2. QED BY <1>0, <1>3, <2>2, <3>1, SameRows, OneReaperMoves DEF ReapCas, calls
  <2>3. QED BY <1>3, <2>1, <2>2 DEF ReapCas
<1>4. CASE ReapDel(r)
  <2>1. Pending(r)' \subseteq Pending(r) /\ \A q \in Reapers \ {r} : reap'[q] = reap[q]
    BY <1>4, NextItemPending DEF ReapDel, Pending
  <2>2. QED BY <1>0, <1>4, <2>1, SameRows, OneReaperMoves DEF ReapDel, calls
<1>5. QED BY <1>1, <1>2, <1>3, <1>4 DEF ReapStep

LEMMA ElapseFresh ==
  ASSUME TypeOK, TypeOK', SnapshotFresh, Elapse
  PROVE  SnapshotFresh'
<1>0. seats' \in [Seats -> Row] /\ RowsMove
  BY ElapseMoves DEF TypeOK
<1>1. ASSUME NEW h \in Handlers PROVE HandlerFresh(h)'
  <2>1. frame'[h] = [frame[h] EXCEPT !.expiresIn = Age(frame[h].expiresIn)]
    BY DEF Elapse
  <2>2. frame[h] \in Frame
    BY DEF TypeOK
  <2>3. /\ frame'[h].user = frame[h].user /\ frame'[h].seat = frame[h].seat
        /\ frame'[h].seen = frame[h].seen /\ pc'[h] = pc[h]
    BY <2>1, <2>2 DEF Frame, Elapse
  <2>4. QED BY <1>0, <2>3, HandlerStaysFresh DEF SnapshotFresh
<1>2. ASSUME NEW r \in Reapers, NEW item \in Pending(r)' PROVE ItemFresh(item)'
  <2>1. reap'[r] = [reap[r] EXCEPT !.todo = {AgeItem(x) : x \in reap[r].todo},
                                   !.cur = AgeItem(reap[r].cur)]
    BY DEF Elapse
  <2>2. reap[r] \in Reap
    BY DEF TypeOK
  <2>3. /\ reap'[r].pc = reap[r].pc
        /\ reap'[r].todo = {AgeItem(x) : x \in reap[r].todo}
        /\ reap'[r].cur = AgeItem(reap[r].cur)
    BY <2>1, <2>2 DEF Reap
  <2>4. PICK x \in Pending(r) : item = AgeItem(x)
    BY <1>2, <2>3 DEF Pending
  <2>5. x \in Item /\ ItemFresh(x)
    BY PendingItems DEF SnapshotFresh
  <2>6. ItemFresh(x)'
    BY <1>0, <2>5, ItemStaysFresh
  <2>7. item.seat = x.seat /\ item.version = x.version
    BY <2>4, <2>5 DEF AgeItem, Item
  <2>8. QED BY <2>6, <2>7 DEF ItemFresh
<1>3. QED BY <1>1, <1>2 DEF SnapshotFresh

(* Whatever happens between a read and the write it was made for: as long   *)
(* as the row's version is the one that was read, everything the handler or *)
(* the reaper has checked of the row is true of it.                         *)
THEOREM FreshSnapshots == Spec => []SnapshotFresh
<1>1. Init => SnapshotFresh
  BY DEF Init, SnapshotFresh, HandlerFresh, BeforeCas, Pending
<1>2. TypeOK /\ TypeOK' /\ SnapshotFresh /\ [Next]_vars => SnapshotFresh'
  <2> SUFFICES ASSUME TypeOK, TypeOK', SnapshotFresh, [Next]_vars PROVE SnapshotFresh'
    OBVIOUS
  <2>0. seats' \in [Seats -> Row]
    BY DEF TypeOK
  <2>1. ASSUME NEW h \in Handlers, Request(h) PROVE SnapshotFresh'
    BY <2>1, RequestFresh
  <2>2. ASSUME NEW h \in Handlers, Serve(h) PROVE SnapshotFresh'
    BY <2>2, ServeFresh
  <2>3. ASSUME NEW h \in Handlers, Abort(h) PROVE SnapshotFresh'
    BY <2>0, <2>3, ReturnFresh, SameRows, OneHandlerMoves DEF Abort, tables
  <2>4. ASSUME NEW r \in Reapers, ReapStep(r) PROVE SnapshotFresh'
    BY <2>4, ReapFresh
  <2>5. ASSUME NEW r \in Reapers, ReapAbort(r) PROVE SnapshotFresh'
    BY <2>0, <2>5, NextItemPending, SameRows, OneReaperMoves
       DEF ReapAbort, tables, calls
  <2>6. CASE Elapse
    BY <2>6, ElapseFresh
  <2>7. CASE UNCHANGED vars
    BY <2>7 DEF vars, SnapshotFresh, HandlerFresh, ItemFresh, Pending, getSeat
  <2>8. QED BY <2>1, <2>2, <2>3, <2>4, <2>5, <2>6, <2>7 DEF Next
<1>3. QED BY TypeInvariant, <1>1, <1>2, PTL DEF Spec

-----------------------------------------------------------------------------
(* SeatLock implements SeatSale.                                            *)

LEMMA SetSeatSale ==
  ASSUME TypeOK, NEW s \in Seats, NEW st, NEW u, NEW left, SetSeat(s, st, u, left)
  PROVE  saleOfSeats' = [saleOfSeats EXCEPT ![s] = [state |-> st, owner |-> u]]
BY DEF TypeOK, SetSeat, saleOfSeats

(* A row at the version a handler has read is the row it has read.          *)
LEMMA SaleOfSeen ==
  ASSUME TypeOK, SnapshotFresh, NEW h \in Handlers, pc[h] \in BeforeCas,
         VersionMatches(frame[h].seat, frame[h].seen.version)
  PROVE  /\ frame[h].seat \in Seats /\ frame[h].user \in Users
         /\ saleOfSeats[frame[h].seat] = [state |-> frame[h].seen.state,
                                          owner |-> frame[h].seen.owner]
         /\ frame[h].seen.state = "AVAILABLE" <=> frame[h].seen.owner = None
         /\ frame[h].seen.owner \in UserOrNone
         /\ Checked(pc[h], frame[h].user, frame[h].seen)
<1>1. frame[h].seat \in Seats /\ frame[h].user \in Users
  BY DEF TypeOK, BeforeCas
<1>2. frame[h].seen = getSeat(frame[h].seat) /\ Checked(pc[h], frame[h].user, frame[h].seen)
  BY DEF SnapshotFresh, HandlerFresh, VersionMatches
<1>3. /\ frame[h].seen.state = seats[frame[h].seat].state
      /\ frame[h].seen.owner = seats[frame[h].seat].owner
  BY <1>2 DEF getSeat
<1>4. QED BY <1>1, <1>2, <1>3 DEF saleOfSeats, TypeOK, Row

LEMMA ServeSale ==
  ASSUME TypeOK, SnapshotFresh, NEW h \in Handlers, Serve(h)
  PROVE  Sale!Next \/ UNCHANGED saleOfSeats
<1>0. UNCHANGED seats => UNCHANGED saleOfSeats
  BY DEF saleOfSeats
<1>1. CASE LockCas(h) /\ VersionMatches(frame[h].seat, frame[h].seen.version)
  <2>1. SetSeat(frame[h].seat, "LOCKED", frame[h].user, frame[h].expiresIn)
    BY <1>1 DEF LockCas
  <2>2. Sale!Select(frame[h].user, frame[h].seat)
    BY <1>1, <2>1, SaleOfSeen, SetSeatSale
       DEF LockCas, BeforeCas, Checked, Sale!Select, Sale!Free, Sale!Held
  <2>3. QED BY <1>1, <2>2, SaleOfSeen DEF LockCas, BeforeCas, Sale!Next
<1>2. CASE ConfirmCas(h) /\ VersionMatches(frame[h].seat, frame[h].seen.version)
  <2>1. SetSeat(frame[h].seat, "SOLD", frame[h].user, 0)
    BY <1>2 DEF ConfirmCas
  <2>2. Sale!Confirm(frame[h].user, frame[h].seat)
    BY <1>2, <2>1, SaleOfSeen, SetSeatSale
       DEF ConfirmCas, BeforeCas, Checked, Sale!Confirm, Sale!Sold, Sale!Held
  <2>3. QED BY <1>2, <2>2, SaleOfSeen DEF ConfirmCas, BeforeCas, Sale!Next
<1>3. CASE CancelCas(h) /\ VersionMatches(frame[h].seat, frame[h].seen.version)
  <2>1. SetSeat(frame[h].seat, "AVAILABLE", None, 0)
    BY <1>3 DEF CancelCas, FreeSeat
  <2>2. frame[h].seen.state = "SOLD" /\ frame[h].seen.owner \in Users
    BY <1>3, SaleOfSeen DEF CancelCas, BeforeCas, Checked, UserOrNone
  <2>3. Sale!Cancel(frame[h].seen.owner, frame[h].seat)
    BY <1>3, <2>1, <2>2, SaleOfSeen, SetSeatSale
       DEF CancelCas, BeforeCas, Sale!Cancel, Sale!Sold, Sale!Free
  <2>4. QED BY <1>3, <2>2, <2>3, SaleOfSeen DEF CancelCas, BeforeCas, Sale!Next
<1>4. CASE ReleaseCas(h) /\ VersionMatches(frame[h].seat, frame[h].seen.version)
  <2>1. SetSeat(frame[h].seat, "AVAILABLE", None, 0)
    BY <1>4 DEF ReleaseCas, FreeSeat
  <2>a. saleOfSeats[frame[h].seat] = Sale!Held(frame[h].user)
    BY <1>4, SaleOfSeen DEF ReleaseCas, BeforeCas, Checked, Sale!Held
  <2>b. saleOfSeats' = [saleOfSeats EXCEPT ![frame[h].seat] = Sale!Free]
    BY <1>4, <2>1, SaleOfSeen, SetSeatSale DEF ReleaseCas, BeforeCas, Sale!Free
  <2>2. Sale!Release(frame[h].user, frame[h].seat)
    BY <2>a, <2>b DEF Sale!Release
  <2>3. QED BY <1>4, <2>2, SaleOfSeen DEF ReleaseCas, BeforeCas, Sale!Next
<1>5. CASE UNCHANGED seats
  BY <1>0, <1>5
<1>6. QED
  BY <1>1, <1>2, <1>3, <1>4, <1>5
     DEF Serve, LockGet, LockSet, LockCas, LockUndo, ConfirmGet, ConfirmCas, ConfirmDel,
         ConfirmInsert, CancelSeat, CancelCas, CancelDel, CancelDrop, ReleaseCas,
         ReleaseDel, tables

LEMMA ReapSale ==
  ASSUME TypeOK, SnapshotFresh, NEW r \in Reapers, ReapStep(r)
  PROVE  Sale!Next \/ UNCHANGED saleOfSeats
<1>1. CASE ReapCas(r) /\ VersionMatches(reap[r].cur.seat, reap[r].cur.version)
  <2> DEFINE s == reap[r].cur.seat
  <2>1. reap[r].cur \in Pending(r) /\ reap[r].cur \in Item
    BY <1>1, PendingItems DEF ReapCas, Pending
  <2>2. s \in Seats
    BY <2>1 DEF Item
  <2>3. seats[s].state = "LOCKED"
    BY <1>1, <2>1 DEF SnapshotFresh, ItemFresh, VersionMatches
  <2>4. seats[s].owner \in Users
    BY <2>2, <2>3 DEF TypeOK, Row, UserOrNone
  <2>5. SetSeat(s, "AVAILABLE", None, 0)
    BY <1>1 DEF ReapCas, FreeSeat
  <2>6. Sale!Release(seats[s].owner, s)
    BY <2>2, <2>3, <2>5, SetSeatSale DEF Sale!Release, Sale!Held, Sale!Free, saleOfSeats
  <2>7. QED BY <2>2, <2>4, <2>6 DEF Sale!Next
<1>2. CASE UNCHANGED seats
  BY <1>2 DEF saleOfSeats
<1>3. QED BY <1>1, <1>2 DEF ReapStep, ReapScan, ReapGet, ReapCas, ReapDel, tables

(* Every behaviour of the service, with any number of processes, is a sale  *)
(* of seats: no seat is taken from its holder, sold without a hold or sold  *)
(* twice.                                                                   *)
THEOREM ImplementsSale == Spec => SaleSpec
<1>1. Init => Sale!Init
  BY DEF Init, Sale!Init, Sale!Free, saleOfSeats
<1>2. TypeOK /\ SnapshotFresh /\ [Next]_vars => [Sale!Next]_saleOfSeats
  <2> SUFFICES ASSUME TypeOK, SnapshotFresh, [Next]_vars
               PROVE  Sale!Next \/ UNCHANGED saleOfSeats
    OBVIOUS
  <2>1. ASSUME NEW h \in Handlers, Serve(h) PROVE Sale!Next \/ UNCHANGED saleOfSeats
    BY <2>1, ServeSale
  <2>2. ASSUME NEW r \in Reapers, ReapStep(r) PROVE Sale!Next \/ UNCHANGED saleOfSeats
    BY <2>2, ReapSale
  <2>3. CASE Elapse
    <3>1. ASSUME NEW s \in Seats
          PROVE  seats'[s].state = seats[s].state /\ seats'[s].owner = seats[s].owner
      <4>1. seats'[s] = [seats[s] EXCEPT !.expiresIn = Age(seats[s].expiresIn)]
        BY <2>3 DEF Elapse
      <4>2. seats[s] \in Row
        BY DEF TypeOK
      <4>3. QED BY <4>1, <4>2 DEF Row
    <3>2. QED BY <3>1 DEF saleOfSeats
  <2>4. CASE UNCHANGED seats
    BY <2>4 DEF saleOfSeats
  <2>5. ASSUME NEW h \in Handlers, Request(h) \/ Abort(h) PROVE UNCHANGED seats
    BY <2>5
       DEF Request, LockStart, ConfirmStart, ReleaseStart, CancelStart, Abort, tables
  <2>6. ASSUME NEW r \in Reapers, ReapAbort(r) PROVE UNCHANGED seats
    BY <2>6 DEF ReapAbort, tables
  <2>7. QED BY <2>1, <2>2, <2>3, <2>4, <2>5, <2>6 DEF Next, vars
<1>3. QED BY TypeInvariant, FreshSnapshots, <1>1, <1>2, PTL
             DEF Spec, SaleSpec, Sale!Spec

-----------------------------------------------------------------------------
(* What a step does to seats and bookings.                                  *)

(* The steps between the writes of a seat and of its booking.               *)
Selling  == {"confirmDel", "confirmInsert"}
Freed    == {"cancelDel", "cancelDrop"}
Cancels  == {"cancelSeat", "cancelCas"} \cup Freed

(* The booking a cancellation is about.                                     *)
OwnBooking(h) == [user |-> frame[h].user, seat |-> frame[h].seat, id |-> frame[h].id]

(* A handler whose part in this a step does not change; and one that is     *)
(* not in the midst of its two writes, nor comes to be.                     *)
Kept(g) ==
  /\ \/ pc'[g] = pc[g]
     \/ <<pc[g], pc'[g]>> \in {<<"confirmDel", "confirmInsert">>, <<"cancelDel", "cancelDrop">>}
  /\ frame'[g].user = frame[g].user /\ frame'[g].seat = frame[g].seat
  /\ frame'[g].seen = frame[g].seen /\ frame'[g].id = frame[g].id

Aside(g) ==
  /\ pc[g] \notin Selling \cup Freed /\ pc'[g] \notin Selling \cup Freed
  /\ pc'[g] \in Cancels => \/ pc[g] \in Cancels /\ OwnBooking(g)' = OwnBooking(g)
                           \/ OwnBooking(g)' \in bookings

(* A row that is as it was, but for its expiry; and one that is written and *)
(* is not a sold one, before or after.                                      *)
RowKept(s) ==
  /\ getSeat(s)' = getSeat(s)
  /\ seats[s].expiresIn = 0 => seats'[s] = seats[s]
RowWritten(s) ==
  /\ seats[s].state # "SOLD" /\ seats'[s].state # "SOLD"
  /\ seats'[s].version > seats[s].version

(* Failures are counted for good.                                           *)
Counted == aborts' >= aborts

(* A step that neither sells, frees, books, nor ends a call between its two *)
(* writes.                                                                  *)
Quiet ==
  /\ UNCHANGED bookings
  /\ Counted
  /\ \A g \in Handlers : Kept(g) \/ Aside(g)
  /\ \A s \in Seats : RowKept(s) \/ RowWritten(s)

(* The steps that do: confirmBooking's UPDATE and INSERT, cancelBooking's   *)
(* UPDATE and DELETE, and a failure between the two.                        *)
Sells(h) == ConfirmCas(h) /\ VersionMatches(frame[h].seat, frame[h].seen.version)
Frees(h) == CancelCas(h) /\ VersionMatches(frame[h].seat, frame[h].seen.version)
Fails(h) == Abort(h) /\ pc[h] \in Selling \cup Freed

LEMMA SetSeatRow ==
  ASSUME TypeOK, NEW s \in Seats, NEW st, NEW u, NEW left, SetSeat(s, st, u, left)
  PROVE  /\ getSeat(s)' = [state |-> st, owner |-> u, version |-> seats[s].version + 1]
         /\ seats'[s].version = seats[s].version + 1 /\ seats[s].version \in Nat
         /\ seats'[s].state = st /\ seats'[s].expiresIn = left
         /\ \A t \in Seats \ {s} : seats'[t] = seats[t] /\ RowKept(t)
BY DEF TypeOK, Row, SetSeat, NextVersion, getSeat, RowKept

LEMMA WriteRows ==
  ASSUME TypeOK, NEW s \in Seats, NEW st, NEW u, NEW left, SetSeat(s, st, u, left),
         st # "SOLD", seats[s].state # "SOLD"
  PROVE  \A t \in Seats : RowKept(t) \/ RowWritten(t)
BY SetSeatRow DEF RowWritten

(* A write of a row that has been checked to be no sold one.                *)
LEMMA NotSold ==
  ASSUME TypeOK, SnapshotFresh, NEW h \in Handlers,
         VersionMatches(frame[h].seat, frame[h].seen.version),
         pc[h] \in {"lockCas", "confirmCas", "releaseCas"}
  PROVE  frame[h].seat \in Seats /\ seats[frame[h].seat].state # "SOLD"
<1>1. pc[h] \in BeforeCas
  BY DEF BeforeCas
<1>2. frame[h].seat \in Seats /\ frame[h].seen.state # "SOLD"
  BY <1>1, SaleOfSeen DEF Checked
<1>3. frame[h].seen = getSeat(frame[h].seat)
  BY <1>1 DEF SnapshotFresh, HandlerFresh, VersionMatches
<1>4. QED BY <1>2, <1>3 DEF getSeat

LEMMA ReapWrites ==
  ASSUME TypeOK, SnapshotFresh, NEW r \in Reapers, ReapCas(r),
         VersionMatches(reap[r].cur.seat, reap[r].cur.version)
  PROVE  /\ reap[r].cur.seat \in Seats /\ seats[reap[r].cur.seat].state = "LOCKED"
         /\ SetSeat(reap[r].cur.seat, "AVAILABLE", None, 0)
<1>1. reap[r].cur \in Pending(r) /\ reap[r].cur \in Item
  BY PendingItems DEF ReapCas, Pending
<1>2. QED BY <1>1 DEF SnapshotFresh, ItemFresh, VersionMatches, Item, ReapCas, FreeSeat

LEMMA ElapseRow ==
  ASSUME TypeOK, Elapse, NEW s \in Seats
  PROVE  RowKept(s)
<1>1. /\ seats'[s] = [seats[s] EXCEPT !.expiresIn = Age(seats[s].expiresIn)]
      /\ seats[s] \in Row
  BY DEF Elapse, TypeOK
<1>2. /\ seats'[s].state = seats[s].state /\ seats'[s].owner = seats[s].owner
      /\ seats'[s].version = seats[s].version
  BY <1>1 DEF Row
<1>3. ASSUME seats[s].expiresIn = 0 PROVE seats'[s] = seats[s]
  <2>1. Age(seats[s].expiresIn) = 0
    BY <1>3 DEF Age
  <2>2. QED BY <1>1, <1>3, <2>1 DEF Row
<1>4. QED BY <1>2, <1>3 DEF RowKept, getSeat

LEMMA RowsStay ==
  ASSUME UNCHANGED seats
  PROVE  \A s \in Seats : RowKept(s)
<1>1. seats' = seats
  OBVIOUS
<1>2. QED BY <1>1 DEF RowKept, getSeat

(* A step of one handler.                                                   *)
LEMMA OneQuiet ==
  ASSUME TypeOK, NEW h \in Handlers, OthersKept(h), Kept(h) \/ Aside(h),
         UNCHANGED bookings, Counted, \A s \in Seats : RowKept(s) \/ RowWritten(s)
  PROVE  Quiet
BY DEF Quiet, OthersKept, Kept

LEMMA ReturnAside ==
  ASSUME TypeOK, NEW h \in Handlers, Return(h), pc[h] \notin Selling \cup Freed
  PROVE  OthersKept(h) /\ Aside(h)
BY DEF TypeOK, Return, OthersKept, Aside, Selling, Freed, Cancels

LEMMA GotoAside ==
  ASSUME TypeOK, NEW h \in Handlers, NEW step, Goto(h, step), UNCHANGED frame,
         pc[h] \notin Selling \cup Freed, step \notin Selling \cup Cancels
  PROVE  OthersKept(h) /\ Aside(h)
BY DEF TypeOK, Goto, OthersKept, Aside, Cancels

LEMMA RequestQuiet ==
  ASSUME TypeOK, NEW h \in Handlers, Request(h)
  PROVE  Quiet
<1>1. /\ UNCHANGED <<seats, bookings, aborts>> /\ pc[h] = "idle" /\ OthersKept(h)
      /\ Counted
  BY DEF Request, LockStart, ConfirmStart, ReleaseStart, CancelStart, MayCall, Call, Goto,
         OthersKept, TypeOK, tables, Counted
<1>2. Aside(h)
  <2>1. ASSUME NEW u \in Users, NEW s \in Seats,
               LockStart(h, u, s) \/ ConfirmStart(h, u, s) \/ ReleaseStart(h, u, s)
        PROVE  pc'[h] \in {"lockGet", "confirmGet", "releaseCas"}
    BY <2>1 DEF LockStart, ConfirmStart, ReleaseStart, Call, Goto, TypeOK
  <2>2. ASSUME NEW u \in Users, NEW b \in bookings, CancelStart(h, u, b)
        PROVE  pc'[h] = "cancelSeat" /\ OwnBooking(h)' \in bookings
    <3>1. /\ pc'[h] = "cancelSeat" /\ frame'[h].user = b.user
          /\ frame'[h].seat = b.seat /\ frame'[h].id = b.id
      BY <2>2 DEF CancelStart, MayCancel, Call, Goto, TypeOK
    <3>2. b = [user |-> b.user, seat |-> b.seat, id |-> b.id]
      BY DEF TypeOK, Booking
    <3>3. QED BY <3>1, <3>2 DEF OwnBooking
  <2>3. QED BY <1>1, <2>1, <2>2 DEF Request, Aside, Selling, Freed, Cancels
<1>3. QED BY <1>1, <1>2, OneQuiet, RowsStay

LEMMA ServeKind ==
  ASSUME TypeOK, SnapshotFresh, NEW h \in Handlers, Serve(h)
  PROVE  Quiet \/ Sells(h) \/ ConfirmInsert(h) \/ Frees(h) \/ CancelDrop(h)
<1> DEFINE matches == VersionMatches(frame[h].seat, frame[h].seen.version)
<1>0. UNCHANGED aborts /\ Counted
  BY DEF Serve, LockGet, LockSet, LockCas, LockUndo, ConfirmGet, ConfirmCas, ConfirmDel,
         ConfirmInsert, CancelSeat, CancelCas, CancelDel, CancelDrop, ReleaseCas,
         ReleaseDel, TypeOK, Counted
<1>a. ASSUME Return(h), pc[h] \notin Selling \cup Freed, UNCHANGED <<seats, bookings>>
      PROVE  Quiet
  BY <1>0, <1>a, ReturnAside, OneQuiet, RowsStay
<1>b. ASSUME NEW step, step \notin Selling \cup Cancels, Goto(h, step),
             pc[h] \notin Selling \cup Freed, UNCHANGED <<seats, bookings, frame>>
      PROVE  Quiet
  BY <1>0, <1>b, GotoAside, OneQuiet, RowsStay
<1>1. CASE LockGet(h)
  <2>1. CASE Return(h)
    BY <1>1, <1>a, <2>1 DEF LockGet, Freed, Selling, tables
  <2>2. CASE Goto(h, "lockSet") /\ frame' = [frame EXCEPT ![h].expiresIn = TTL]
    <3>1. /\ OthersKept(h) /\ pc'[h] = "lockSet" /\ pc[h] = "lockGet"
          /\ UNCHANGED <<seats, bookings>>
      BY <1>1, <2>2 DEF LockGet, TypeOK, Goto, OthersKept, tables
    <3>2. Aside(h)
      BY <3>1 DEF Aside, Cancels, Freed, Selling
    <3>3. QED BY <1>0, <3>1, <3>2, OneQuiet, RowsStay
  <2>3. QED BY <1>1, <2>1, <2>2 DEF LockGet
<1>2. CASE LockSet(h)
  BY <1>2, <1>b DEF LockSet, Freed, Cancels, Selling
<1>3. CASE LockCas(h)
  <2>1. CASE matches
    <3>1. /\ SetSeat(frame[h].seat, "LOCKED", frame[h].user, frame[h].expiresIn)
          /\ Return(h) /\ UNCHANGED bookings /\ pc[h] = "lockCas"
      BY <1>3, <2>1 DEF LockCas
    <3>2. \A t \in Seats : RowKept(t) \/ RowWritten(t)
      BY <2>1, <3>1, NotSold, WriteRows
    <3>3. QED BY <1>0, <3>1, <3>2, ReturnAside, OneQuiet DEF Selling, Freed
  <2>2. CASE ~matches
    BY <1>3, <1>b, <2>2 DEF LockCas, Freed, Cancels, Selling
  <2>3. QED BY <2>1, <2>2
<1>4. CASE LockUndo(h)
  BY <1>4, <1>a DEF LockUndo, Freed, Selling
<1>5. CASE ConfirmGet(h)
  BY <1>5, <1>a, <1>b DEF ConfirmGet, Freed, Cancels, Selling, tables
<1>6. CASE ConfirmCas(h)
  <2>1. CASE ~matches
    BY <1>6, <1>a, <2>1 DEF ConfirmCas, Freed, Selling
  <2>2. QED BY <1>6, <2>1 DEF Sells
<1>7. CASE ConfirmDel(h) \/ CancelDel(h)
  <2>1. OthersKept(h) /\ Kept(h) /\ UNCHANGED <<seats, bookings>>
    BY <1>7 DEF ConfirmDel, CancelDel, TypeOK, Goto, OthersKept, Kept
  <2>2. QED BY <1>0, <2>1, OneQuiet, RowsStay
<1>8. CASE CancelSeat(h)
  <2>1. CASE Return(h)
    BY <1>8, <1>a, <2>1 DEF CancelSeat, Freed, Selling, tables
  <2>2. CASE /\ Goto(h, "cancelCas")
             /\ frame' = [frame EXCEPT ![h].seen = getSeat(frame[h].seat)]
    <3>1. /\ OthersKept(h) /\ pc'[h] = "cancelCas" /\ pc[h] = "cancelSeat"
          /\ UNCHANGED <<seats, bookings>>
      BY <1>8, <2>2 DEF CancelSeat, TypeOK, Goto, OthersKept, tables
    <3>2. /\ frame'[h].user = frame[h].user /\ frame'[h].seat = frame[h].seat
          /\ frame'[h].id = frame[h].id
      <4>1. frame[h] \in Frame
        BY DEF TypeOK
      <4>2. QED BY <2>2, <4>1 DEF TypeOK, Frame
    <3>3. Aside(h)
      BY <3>1, <3>2 DEF Aside, OwnBooking, Cancels, Freed, Selling
    <3>4. QED BY <1>0, <3>1, <3>3, OneQuiet, RowsStay
  <2>3. QED BY <1>8, <2>1, <2>2 DEF CancelSeat
<1>9. CASE CancelCas(h)
  <2>1. CASE ~matches
    BY <1>9, <1>a, <2>1 DEF CancelCas, Freed, Selling
  <2>2. QED BY <1>9, <2>1 DEF Frees
<1>10. CASE ReleaseCas(h)
  <2>1. CASE matches
    <3>1. /\ SetSeat(frame[h].seat, "AVAILABLE", None, 0) /\ UNCHANGED <<frame, bookings>>
          /\ Goto(h, "releaseDel") /\ pc[h] = "releaseCas"
      BY <1>10, <2>1 DEF ReleaseCas, FreeSeat
    <3>2. \A t \in Seats : RowKept(t) \/ RowWritten(t)
      BY <2>1, <3>1, NotSold, WriteRows
    <3>3. QED BY <1>0, <3>1, <3>2, GotoAside, OneQuiet DEF Selling, Freed, Cancels
  <2>2. CASE ~matches
    BY <1>10, <1>a, <2>2 DEF ReleaseCas, Freed, Selling
  <2>3. QED BY <2>1, <2>2
<1>11. CASE ReleaseDel(h)
  BY <1>11, <1>a DEF ReleaseDel, Freed, Selling
<1>12. QED BY <1>1, <1>2, <1>3, <1>4, <1>5, <1>6, <1>7, <1>8, <1>9, <1>10, <1>11 DEF Serve

(* Every step is quiet or one of the five that matter.                      *)
LEMMA StepKind ==
  ASSUME TypeOK, SnapshotFresh, [Next]_vars
  PROVE  \/ Quiet
         \/ \E h \in Handlers : Sells(h) \/ ConfirmInsert(h) \/ Frees(h) \/ CancelDrop(h)
                                \/ Fails(h)
<1>1. ASSUME NEW h \in Handlers, Request(h) PROVE Quiet
  BY <1>1, RequestQuiet
<1>2. ASSUME NEW h \in Handlers, Serve(h)
      PROVE  Quiet \/ Sells(h) \/ ConfirmInsert(h) \/ Frees(h) \/ CancelDrop(h)
  BY <1>2, ServeKind
<1>3. ASSUME NEW h \in Handlers, Abort(h) PROVE Quiet \/ Fails(h)
  <2>1. CASE pc[h] \in Selling \cup Freed
    BY <1>3, <2>1 DEF Fails
  <2>2. CASE pc[h] \notin Selling \cup Freed
    <3>1. Return(h) /\ UNCHANGED <<seats, bookings>> /\ Counted
      BY <1>3 DEF Abort, tables, TypeOK, Counted
    <3>2. QED BY <2>2, <3>1, ReturnAside, OneQuiet, RowsStay
  <2>3. QED BY <2>1, <2>2
<1>4. ASSUME NEW r \in Reapers, ReapStep(r) \/ ReapAbort(r) PROVE Quiet
  <2>1. UNCHANGED <<pc, frame, bookings>> /\ Counted
    BY <1>4 DEF ReapStep, ReapScan, ReapGet, ReapCas, ReapDel, ReapAbort, tables, calls,
                    TypeOK, Counted
  <2>2. \A s \in Seats : RowKept(s) \/ RowWritten(s)
    <3>1. CASE ReapCas(r) /\ VersionMatches(reap[r].cur.seat, reap[r].cur.version)
      BY <3>1, ReapWrites, WriteRows
    <3>2. CASE UNCHANGED seats
      BY <3>2, RowsStay
    <3>3. QED BY <1>4, <3>1, <3>2
                 DEF ReapStep, ReapScan, ReapGet, ReapCas, ReapDel, ReapAbort, tables
  <2>3. QED BY <2>1, <2>2 DEF Quiet, Kept
<1>5. CASE Elapse
  <2>1. UNCHANGED <<pc, bookings, aborts>>
    BY <1>5 DEF Elapse
  <2>2. Counted
    BY <2>1 DEF TypeOK, Counted
  <2>3. ASSUME NEW h \in Handlers PROVE Kept(h)
    <3>1. /\ frame'[h] = [frame[h] EXCEPT !.expiresIn = Age(frame[h].expiresIn)]
          /\ frame[h] \in Frame
      BY <1>5 DEF Elapse, TypeOK
    <3>2. QED BY <2>1, <3>1 DEF Frame, Kept
  <2>4. QED BY <1>5, <2>1, <2>2, <2>3, ElapseRow DEF Quiet
<1>6. CASE UNCHANGED vars
  <2>1. Counted
    BY <1>6 DEF vars, TypeOK, Counted
  <2>2. QED BY <1>6, <2>1, RowsStay DEF vars, Quiet, Kept
<1>7. QED BY <1>1, <1>2, <1>3, <1>4, <1>5, <1>6 DEF Next

LEMMA SellRows ==
  ASSUME TypeOK, SnapshotFresh, NEW h \in Handlers, Sells(h)
  PROVE  /\ OthersKept(h) /\ UNCHANGED <<frame, bookings, aborts>>
         /\ pc[h] = "confirmCas" /\ pc'[h] = "confirmDel"
         /\ frame[h].seat \in Seats /\ frame[h].user \in Users
         /\ seats[frame[h].seat].state # "SOLD"
         /\ seats[frame[h].seat].version = frame[h].seen.version
         /\ frame[h].seen.version \in Nat
         /\ getSeat(frame[h].seat)' = [state |-> "SOLD", owner |-> frame[h].user,
                                       version |-> frame[h].seen.version + 1]
         /\ seats'[frame[h].seat].expiresIn = 0
         /\ \A t \in Seats \ {frame[h].seat} : RowKept(t)
<1>1. /\ pc[h] = "confirmCas" /\ SetSeat(frame[h].seat, "SOLD", frame[h].user, 0)
      /\ Goto(h, "confirmDel") /\ UNCHANGED <<frame, bookings, aborts>>
      /\ VersionMatches(frame[h].seat, frame[h].seen.version)
  BY DEF Sells, ConfirmCas
<1>2. OthersKept(h) /\ pc'[h] = "confirmDel" /\ frame[h].user \in Users
  BY <1>1 DEF TypeOK, Goto, OthersKept
<1>3. /\ frame[h].seat \in Seats /\ seats[frame[h].seat].state # "SOLD"
      /\ seats[frame[h].seat].version = frame[h].seen.version
  BY <1>1, NotSold DEF VersionMatches
<1>4. QED BY <1>1, <1>2, <1>3, SetSeatRow

LEMMA FreeRows ==
  ASSUME TypeOK, NEW h \in Handlers, Frees(h)
  PROVE  /\ OthersKept(h) /\ UNCHANGED <<frame, bookings, aborts>>
         /\ pc[h] = "cancelCas" /\ pc'[h] = "cancelDel"
         /\ frame[h].seat \in Seats /\ frame[h].user \in Users
         /\ seats'[frame[h].seat].version = seats[frame[h].seat].version + 1
         /\ seats'[frame[h].seat].state = "AVAILABLE"
         /\ \A t \in Seats \ {frame[h].seat} : RowKept(t)
<1>1. /\ pc[h] = "cancelCas" /\ SetSeat(frame[h].seat, "AVAILABLE", None, 0)
      /\ Goto(h, "cancelDel") /\ UNCHANGED <<frame, bookings, aborts>>
  BY DEF Frees, CancelCas, FreeSeat
<1>2. /\ OthersKept(h) /\ pc'[h] = "cancelDel"
      /\ frame[h].user \in Users /\ frame[h].seat \in Seats
  BY <1>1 DEF TypeOK, Goto, OthersKept
<1>3. QED BY <1>1, <1>2, SetSeatRow

(* A call that ends between its two writes, or with the second.             *)
LEMMA EndRows ==
  ASSUME TypeOK, NEW h \in Handlers, ConfirmInsert(h) \/ CancelDrop(h) \/ Fails(h)
  PROVE  /\ OthersKept(h) /\ pc'[h] = "idle" /\ frame'[h].user = None
         /\ pc[h] \in Selling \cup Freed
         /\ frame[h].seat \in Seats /\ frame[h].user \in Users
         /\ UNCHANGED seats /\ \A s \in Seats : RowKept(s)
<1>1. Return(h) /\ UNCHANGED seats /\ pc[h] \in Selling \cup Freed
  BY DEF ConfirmInsert, CancelDrop, Fails, Abort, tables, Selling, Freed
<1>2. OthersKept(h) /\ pc'[h] = "idle" /\ frame'[h].user = None
  BY <1>1 DEF TypeOK, Return, OthersKept, NoFrame
<1>3. frame[h].seat \in Seats /\ frame[h].user \in Users
  BY <1>1 DEF TypeOK, Selling, Freed
<1>4. QED BY <1>1, <1>2, <1>3, RowsStay

-----------------------------------------------------------------------------
(* The numbers of sales.                                                    *)

(* A booking's id and what a call has to do with are versions that the seat *)
(* has had; what a cancellation has freed is past the sale it is about.  A  *)
(* sold row has no expiry, so that time does not touch it.                  *)
PastIds(h) ==
  /\ pc[h] \in Selling => frame[h].seen.version < seats[frame[h].seat].version
  /\ pc[h] \in Cancels => frame[h].id <= seats[frame[h].seat].version
  /\ pc[h] \in Freed => frame[h].id < seats[frame[h].seat].version

NumbersInv ==
  /\ \A s \in Seats : seats[s].state = "SOLD" => seats[s].expiresIn = 0
  /\ \A b \in bookings : b.id <= seats[b.seat].version
  /\ \A h \in Handlers : PastIds(h)

LEMMA Numbers ==
  ASSUME TypeOK
  PROVE  /\ \A s \in Seats : seats[s].version \in Nat
         /\ \A b \in bookings : b.seat \in Seats /\ b.id \in Nat /\ b.user \in Users
         /\ \A h \in Handlers : frame[h].id \in Nat /\ frame[h].seen.version \in Nat
         /\ \A h \in Handlers : pc[h] \in Cancels \cup Selling =>
              frame[h].seat \in Seats /\ frame[h].user \in Users
<1>1. \A h \in Handlers : frame[h].id \in Nat /\ frame[h].seen.version \in Nat
  BY DEF TypeOK, Frame, Snapshot
<1>2. \A h \in Handlers : pc[h] \in Cancels \cup Selling =>
        frame[h].seat \in Seats /\ frame[h].user \in Users
  BY DEF TypeOK, Cancels, Selling, Freed
<1>3. QED BY <1>1, <1>2 DEF TypeOK, Row, Booking

LEMMA StepMoves ==
  ASSUME TypeOK, TypeOK', SnapshotFresh, [Next]_vars
  PROVE  RowsMove
<1>1. CASE Quiet
  <2>1. ASSUME NEW s \in Seats
        PROVE  /\ seats[s].version <= seats'[s].version
               /\ seats[s].version = seats'[s].version => getSeat(s)' = getSeat(s)
    <3>1. seats[s].version \in Nat /\ seats'[s].version \in Nat
      BY DEF TypeOK, Row
    <3>2. CASE RowKept(s)
      BY <3>1, <3>2 DEF RowKept, getSeat
    <3>3. CASE RowWritten(s)
      BY <3>1, <3>3 DEF RowWritten
    <3>4. QED BY <1>1, <3>2, <3>3 DEF Quiet
  <2>2. QED BY <2>1 DEF RowsMove
<1>2. ASSUME NEW h \in Handlers, Sells(h) PROVE RowsMove
  BY <1>2, SellRows, SetSeatMoves DEF Sells, ConfirmCas
<1>3. ASSUME NEW h \in Handlers, Frees(h) PROVE RowsMove
  BY <1>3, FreeRows, SetSeatMoves DEF Frees, CancelCas, FreeSeat
<1>4. ASSUME NEW h \in Handlers, ConfirmInsert(h) \/ CancelDrop(h) \/ Fails(h)
      PROVE  RowsMove
  BY <1>4, EndRows, SameRows
<1>5. QED BY <1>1, <1>2, <1>3, <1>4, StepKind

LEMMA PastKept ==
  ASSUME TypeOK, TypeOK', RowsMove, NEW g \in Handlers, Kept(g), PastIds(g)
  PROVE  PastIds(g)'
<1>1. CASE pc[g] \in Cancels \cup Selling
  <2>1. /\ frame[g].seat \in Seats /\ frame[g].id \in Nat /\ frame[g].seen.version \in Nat
        /\ seats[frame[g].seat].version \in Nat
    BY <1>1, Numbers
  <2>2. seats'[frame[g].seat].version \in Nat
    BY <2>1 DEF TypeOK, Row
  <2>3. seats[frame[g].seat].version <= seats'[frame[g].seat].version
    BY <2>1 DEF RowsMove
  <2>4. /\ pc'[g] \in Selling <=> pc[g] \in Selling
        /\ pc'[g] \in Cancels <=> pc[g] \in Cancels
        /\ pc'[g] \in Freed <=> pc[g] \in Freed
    BY DEF Kept, Selling, Cancels, Freed
  <2>5. QED BY <2>1, <2>2, <2>3, <2>4 DEF Kept, PastIds
<1>2. CASE pc[g] \notin Cancels \cup Selling
  BY <1>2 DEF Kept, PastIds, Selling, Cancels, Freed
<1>3. QED BY <1>1, <1>2

LEMMA OthersPast ==
  ASSUME TypeOK, TypeOK', RowsMove, NumbersInv, NEW h \in Handlers, OthersKept(h),
         PastIds(h)'
  PROVE  \A g \in Handlers : PastIds(g)'
<1>1. \A g \in Handlers \ {h} : Kept(g)
  BY DEF OthersKept, Kept
<1>2. QED BY <1>1, PastKept DEF NumbersInv

LEMMA BookingsPast ==
  ASSUME TypeOK, TypeOK', RowsMove, NumbersInv, bookings' \subseteq bookings
  PROVE  \A b \in bookings' : b.id <= seats'[b.seat].version
<1> SUFFICES ASSUME NEW b \in bookings'
             PROVE  b.id <= seats'[b.seat].version
  OBVIOUS
<1>1. /\ b \in bookings /\ b.seat \in Seats /\ b.id \in Nat
      /\ seats[b.seat].version \in Nat
  BY Numbers
<1>2. seats'[b.seat].version \in Nat
  BY <1>1 DEF TypeOK, Row
<1>3. b.id <= seats[b.seat].version /\ seats[b.seat].version <= seats'[b.seat].version
  BY <1>1 DEF NumbersInv, RowsMove
<1>4. QED BY <1>1, <1>2, <1>3

LEMMA NumbersStep ==
  ASSUME TypeOK, TypeOK', SnapshotFresh, NumbersInv, [Next]_vars
  PROVE  NumbersInv'
<1>0. RowsMove
  BY StepMoves
<1>a. ASSUME \A s \in Seats : RowKept(s) \/ seats'[s].state # "SOLD" \/ seats'[s].expiresIn = 0
      PROVE  \A s \in Seats : seats'[s].state = "SOLD" => seats'[s].expiresIn = 0
  BY <1>a DEF NumbersInv, RowKept, getSeat
<1>1. CASE Quiet
  <2>1. ASSUME NEW g \in Handlers PROVE PastIds(g)'
    <3>1. CASE Kept(g)
      BY <1>0, <3>1, PastKept DEF NumbersInv
    <3>2. CASE Aside(g)
      <4>1. CASE pc'[g] \notin Cancels
        BY <3>2, <4>1 DEF Aside, PastIds, Cancels
      <4>2. CASE pc[g] \in Cancels /\ OwnBooking(g)' = OwnBooking(g)
        <5>1. frame'[g].id = frame[g].id /\ frame'[g].seat = frame[g].seat
          BY <4>2 DEF OwnBooking
        <5>2. /\ frame[g].seat \in Seats /\ frame[g].id \in Nat
              /\ seats[frame[g].seat].version \in Nat
          BY <4>2, Numbers
        <5>3. seats'[frame[g].seat].version \in Nat
          BY <5>2 DEF TypeOK, Row
        <5>4. /\ frame[g].id <= seats[frame[g].seat].version
              /\ seats[frame[g].seat].version <= seats'[frame[g].seat].version
          BY <1>0, <4>2, <5>2 DEF NumbersInv, PastIds, RowsMove
        <5>5. frame'[g].id <= seats'[frame'[g].seat].version
          BY <5>1, <5>2, <5>3, <5>4
        <5>6. QED BY <3>2, <5>5 DEF Aside, PastIds
      <4>3. CASE OwnBooking(g)' \in bookings
        <5>1. OwnBooking(g)' \in bookings'
          BY <1>1, <4>3 DEF Quiet
        <5>2. frame'[g].id <= seats'[frame'[g].seat].version
          BY <1>0, <1>1, <5>1, BookingsPast DEF Quiet, OwnBooking
        <5>3. QED BY <3>2, <5>2 DEF Aside, PastIds
      <4>4. QED BY <3>2, <4>1, <4>2, <4>3 DEF Aside
    <3>3. QED BY <1>1, <3>1, <3>2 DEF Quiet
  <2>2. \A b \in bookings' : b.id <= seats'[b.seat].version
    BY <1>0, <1>1, BookingsPast DEF Quiet
  <2>3. \A s \in Seats : RowKept(s) \/ seats'[s].state # "SOLD" \/ seats'[s].expiresIn = 0
    BY <1>1 DEF Quiet, RowWritten
  <2>4. QED BY <1>a, <2>1, <2>2, <2>3 DEF NumbersInv
<1>2. ASSUME NEW h \in Handlers, Sells(h) PROVE NumbersInv'
  <2>1. /\ seats'[frame[h].seat].version = frame[h].seen.version + 1
        /\ frame[h].seen.version \in Nat
    BY <1>2, SellRows DEF getSeat
  <2>2. PastIds(h)'
    <3>1. pc'[h] = "confirmDel" /\ frame'[h] = frame[h]
      BY <1>2, SellRows
    <3>2. frame'[h].seen.version < seats'[frame'[h].seat].version
      BY <2>1, <3>1
    <3>3. QED BY <3>1, <3>2 DEF PastIds, Cancels, Freed
  <2>3. \A g \in Handlers : PastIds(g)'
    BY <1>0, <1>2, <2>2, SellRows, OthersPast
  <2>4. \A b \in bookings' : b.id <= seats'[b.seat].version
    BY <1>0, <1>2, SellRows, BookingsPast
  <2>5. \A s \in Seats : RowKept(s) \/ seats'[s].state # "SOLD" \/ seats'[s].expiresIn = 0
    BY <1>2, SellRows
  <2>6. QED BY <1>a, <2>3, <2>4, <2>5 DEF NumbersInv
<1>3. ASSUME NEW h \in Handlers, Frees(h) PROVE NumbersInv'
  <2>1. /\ frame[h].id <= seats[frame[h].seat].version
        /\ frame[h].id \in Nat /\ seats[frame[h].seat].version \in Nat
    BY <1>3, FreeRows, Numbers DEF NumbersInv, PastIds, Cancels
  <2>2. PastIds(h)'
    BY <1>3, <2>1, FreeRows DEF PastIds, Selling, Cancels, Freed
  <2>3. \A g \in Handlers : PastIds(g)'
    BY <1>0, <1>3, <2>2, FreeRows, OthersPast
  <2>4. \A b \in bookings' : b.id <= seats'[b.seat].version
    BY <1>0, <1>3, FreeRows, BookingsPast
  <2>5. \A s \in Seats : RowKept(s) \/ seats'[s].state # "SOLD" \/ seats'[s].expiresIn = 0
    BY <1>3, FreeRows
  <2>6. QED BY <1>a, <2>3, <2>4, <2>5 DEF NumbersInv
<1>4. ASSUME NEW h \in Handlers, ConfirmInsert(h) \/ CancelDrop(h) \/ Fails(h)
      PROVE  NumbersInv'
  <2>1. PastIds(h)'
    BY <1>4, EndRows DEF PastIds, Selling, Cancels, Freed
  <2>2. \A g \in Handlers : PastIds(g)'
    BY <1>0, <1>4, <2>1, EndRows, OthersPast
  <2>3. \A b \in bookings' : b.id <= seats'[b.seat].version
    <3>1. CASE bookings' \subseteq bookings
      BY <1>0, <3>1, BookingsPast
    <3>2. CASE ConfirmInsert(h)
      <4>1. /\ bookings' = bookings \/ bookings' = bookings \cup {NewBooking(frame[h])}
            /\ pc[h] \in Selling /\ UNCHANGED seats
        BY <3>2 DEF ConfirmInsert, Selling
      <4>2. frame[h].seen.version + 1 <= seats[frame[h].seat].version
        BY <4>1, Numbers DEF NumbersInv, PastIds
      <4>3. QED BY <4>1, <4>2 DEF NewBooking, NumbersInv
    <3>3. QED BY <1>4, <3>1, <3>2 DEF CancelDrop, deleteBooking, Fails, Abort, tables
  <2>4. \A s \in Seats : RowKept(s) \/ seats'[s].state # "SOLD" \/ seats'[s].expiresIn = 0
    BY <1>4, EndRows
  <2>5. QED BY <1>a, <2>2, <2>3, <2>4 DEF NumbersInv
<1>5. QED BY <1>1, <1>2, <1>3, <1>4, StepKind

LEMMA NumbersHold == Spec => []NumbersInv
<1>1. Init => NumbersInv
  BY DEF Init, NumbersInv, PastIds, Selling, Cancels, Freed
<1>2. TypeOK /\ TypeOK' /\ SnapshotFresh /\ NumbersInv /\ [Next]_vars => NumbersInv'
  BY NumbersStep
<1>3. QED BY TypeInvariant, FreshSnapshots, <1>1, <1>2, PTL DEF Spec

-----------------------------------------------------------------------------
(* Few: as many as calls have failed, at most.                              *)

Few(S, n) == IsFiniteSet(S) /\ Cardinality(S) <= n

LEMMA FewerFew ==
  ASSUME NEW n \in Nat, NEW m \in Nat, n <= m, NEW S, Few(S, n), NEW T \in SUBSET S
  PROVE  Few(T, m)
BY FS_Subset, FS_CardinalityType DEF Few

LEMMA OneMoreFew ==
  ASSUME NEW n \in Nat, NEW S, Few(S, n), NEW x, NEW T \in SUBSET (S \cup {x})
  PROVE  Few(T, n + 1)
<1>1. IsFiniteSet(S \cup {x}) /\ Cardinality(S \cup {x}) <= n + 1
  <2>1. IsFiniteSet(S) /\ Cardinality(S) <= n /\ Cardinality(S) \in Nat
    BY FS_CardinalityType DEF Few
  <2>2. /\ IsFiniteSet(S \cup {x})
        /\ Cardinality(S \cup {x}) \in {Cardinality(S), Cardinality(S) + 1}
    BY <2>1, FS_AddElement
  <2>3. QED BY <2>1, <2>2
<1>2. Few(S \cup {x}, n + 1)
  BY <1>1 DEF Few
<1>3. QED BY <1>2, FewerFew

LEMMA SwappedFew ==
  ASSUME NEW n \in Nat, NEW S, Few(S, n), NEW x \in S, NEW y,
         NEW T \in SUBSET ((S \ {x}) \cup {y})
  PROVE  Few(T, n)
<1>1. /\ IsFiniteSet(S \ {x}) /\ Cardinality(S \ {x}) = Cardinality(S) - 1
      /\ Cardinality(S) \in Nat /\ Cardinality(S) <= n /\ Cardinality(S \ {x}) \in Nat
  BY FS_RemoveElement, FS_CardinalityType DEF Few
<1>2. n - 1 \in Nat /\ Few(S \ {x}, n - 1)
  BY <1>1 DEF Few
<1>3. Few(T, (n - 1) + 1)
  BY <1>2, OneMoreFew
<1>4. QED BY <1>3

LEMMA AbortsGrow ==
  ASSUME TypeOK, TypeOK'
  PROVE  /\ aborts \in Nat /\ aborts' \in Nat
         /\ Counted \/ UNCHANGED aborts => aborts <= aborts'
         /\ \A h \in Handlers : Fails(h) => aborts' = aborts + 1
BY BoundsAssumption DEF TypeOK, Counted, Fails, Abort

-----------------------------------------------------------------------------
(* A sold seat has its booking.                                             *)

Bare == {s \in Seats : seats[s].state = "SOLD" /\ ~HasBooking(s)}

(* A row that stays has its booking as before, where the booking or the     *)
(* call that is to write it stays, or makes place for the other.            *)
LEMMA HasBookingKept ==
  ASSUME NEW s \in Seats, RowKept(s), HasBooking(s), seats[s].state = "SOLD",
         \A b \in bookings : b.seat = s /\ b.id = seats[s].version => b \in bookings',
         \A g \in Handlers : pc[g] \in Selling => \/ Kept(g)
                                                 \/ frame[g].seat # s
                                                 \/ NewBooking(frame[g]) \in bookings'
  PROVE  HasBooking(s)'
<1>1. seats'[s].owner = seats[s].owner /\ seats'[s].version = seats[s].version
  BY DEF RowKept, getSeat
<1>2. CASE [user |-> seats[s].owner, seat |-> s, id |-> seats[s].version] \in bookings
  BY <1>1, <1>2 DEF HasBooking
<1>3. CASE Recording(s, seats[s].owner, seats[s].version)
  <2>1. PICK g \in Handlers : /\ pc[g] \in Selling /\ frame[g].seat = s
                             /\ frame[g].user = seats[s].owner
                             /\ frame[g].seen.version + 1 = seats[s].version
    BY <1>3 DEF Recording, Selling
  <2>2. CASE Kept(g)
    BY <1>1, <2>1, <2>2 DEF HasBooking, Recording, Kept, Selling
  <2>3. CASE NewBooking(frame[g]) \in bookings'
    BY <1>1, <2>1, <2>3 DEF HasBooking, NewBooking
  <2>4. QED BY <2>1, <2>2, <2>3
<1>4. QED BY <1>2, <1>3 DEF HasBooking

LEMMA KeptSold ==
  ASSUME NEW s \in Seats, RowKept(s)
  PROVE  seats'[s].state = seats[s].state
BY DEF RowKept, getSeat

LEMMA BareStep ==
  ASSUME ~UniqueSeat, TypeOK, TypeOK', SnapshotFresh, NumbersInv, Few(Bare, aborts),
         [Next]_vars
  PROVE  Few(Bare, aborts)'
<1>a. ASSUME Bare' \subseteq Bare, Counted \/ UNCHANGED aborts
      PROVE  Few(Bare, aborts)'
  <2>1. Few(Bare', aborts')
    BY <1>a, AbortsGrow, FewerFew
  <2>2. QED BY <2>1 DEF Few
<1>b. ASSUME NEW s \in Seats, RowKept(s), s \in Bare', HasBooking(s) => HasBooking(s)'
      PROVE  s \in Bare
  BY <1>b, KeptSold DEF Bare
<1>1. CASE Quiet
  <2>1. ASSUME NEW s \in Bare' PROVE s \in Bare
    <3>1. s \in Seats /\ seats'[s].state = "SOLD" /\ RowKept(s)
      BY <1>1 DEF Bare, Quiet, RowWritten
    <3>2. seats[s].state = "SOLD"
      BY <3>1, KeptSold
    <3>3. \A g \in Handlers : pc[g] \in Selling => Kept(g)
      BY <1>1 DEF Quiet, Aside
    <3>4. HasBooking(s) => HasBooking(s)'
      BY <1>1, <3>1, <3>2, <3>3, HasBookingKept DEF Quiet
    <3>5. QED BY <1>b, <3>1, <3>4
  <2>2. QED BY <1>1, <1>a, <2>1 DEF Quiet
<1>2. ASSUME NEW h \in Handlers, Sells(h) PROVE Few(Bare, aborts)'
  <2>1. HasBooking(frame[h].seat)'
    <3>1. /\ seats'[frame[h].seat].owner = frame[h].user
          /\ seats'[frame[h].seat].version = frame[h].seen.version + 1
      BY <1>2, SellRows DEF getSeat
    <3>2. QED BY <1>2, <3>1, SellRows DEF HasBooking, Recording
  <2>2. ASSUME NEW s \in Bare' PROVE s \in Bare
    <3>1. s \in Seats /\ s # frame[h].seat /\ RowKept(s) /\ seats[s].state = "SOLD"
      BY <1>2, <2>1, SellRows, KeptSold DEF Bare
    <3>2. \A g \in Handlers : pc[g] \in Selling => Kept(g)
      BY <1>2, SellRows DEF OthersKept, Kept, Selling
    <3>3. HasBooking(s) => HasBooking(s)'
      BY <1>2, <3>1, <3>2, SellRows, HasBookingKept
    <3>4. QED BY <1>b, <3>1, <3>3
  <2>3. QED BY <1>2, <1>a, <2>2, SellRows
<1>3. ASSUME NEW h \in Handlers, Frees(h) PROVE Few(Bare, aborts)'
  <2>1. ASSUME NEW s \in Bare' PROVE s \in Bare
    <3>1. s \in Seats /\ RowKept(s) /\ seats[s].state = "SOLD"
      BY <1>3, FreeRows, KeptSold DEF Bare
    <3>2. \A g \in Handlers : pc[g] \in Selling => Kept(g)
      BY <1>3, FreeRows DEF OthersKept, Kept, Selling
    <3>3. HasBooking(s) => HasBooking(s)'
      BY <1>3, <3>1, <3>2, FreeRows, HasBookingKept
    <3>4. QED BY <1>b, <3>1, <3>3
  <2>2. QED BY <1>3, <1>a, <2>1, FreeRows
<1>4. ASSUME NEW h \in Handlers, ConfirmInsert(h) \/ CancelDrop(h)
      PROVE  Few(Bare, aborts)'
  <2>1. ASSUME NEW s \in Bare' PROVE s \in Bare
    <3>1. s \in Seats /\ RowKept(s) /\ seats[s].state = "SOLD" /\ UNCHANGED seats
      BY <1>4, EndRows, KeptSold DEF Bare
    <3>2. \A b \in bookings : b.seat = s /\ b.id = seats[s].version => b \in bookings'
      <4>1. CASE ConfirmInsert(h)
        BY <4>1 DEF ConfirmInsert
      <4>2. CASE CancelDrop(h)
        <5>1. /\ bookings' = {b \in bookings : ~(b.seat = frame[h].seat /\ b.id = frame[h].id)}
              /\ pc[h] \in Freed
          BY <4>2 DEF CancelDrop, deleteBooking, Freed
        <5>2. /\ frame[h].id < seats[frame[h].seat].version
              /\ frame[h].id \in Nat /\ seats[frame[h].seat].version \in Nat
          BY <5>1, Numbers DEF NumbersInv, PastIds, Cancels
        <5>3. QED BY <5>1, <5>2
      <4>3. QED BY <1>4, <4>1, <4>2
    <3>3. \A g \in Handlers : pc[g] \in Selling =>
            Kept(g) \/ NewBooking(frame[g]) \in bookings'
      <4>1. pc[h] \in Selling => NewBooking(frame[h]) \in bookings'
        BY <1>4 DEF ConfirmInsert, InsertRefused, CancelDrop, Selling
      <4>2. QED BY <1>4, <4>1, EndRows DEF OthersKept, Kept
    <3>4. HasBooking(s) => HasBooking(s)'
      BY <3>1, <3>2, <3>3, HasBookingKept
    <3>5. QED BY <1>b, <3>1, <3>4
  <2>2. UNCHANGED aborts
    BY <1>4 DEF ConfirmInsert, CancelDrop
  <2>3. QED BY <1>a, <2>1, <2>2
<1>5. ASSUME NEW h \in Handlers, Fails(h) PROVE Few(Bare, aborts)'
  <2>1. ASSUME NEW s \in Bare', s # frame[h].seat PROVE s \in Bare
    <3>1. s \in Seats /\ RowKept(s) /\ seats[s].state = "SOLD" /\ UNCHANGED bookings
      BY <1>5, EndRows, KeptSold DEF Bare, Fails, Abort, tables
    <3>2. \A g \in Handlers : pc[g] \in Selling => Kept(g) \/ frame[g].seat # s
      BY <1>5, <2>1, EndRows DEF OthersKept, Kept
    <3>3. HasBooking(s) => HasBooking(s)'
      BY <3>1, <3>2, HasBookingKept
    <3>4. QED BY <1>b, <2>1, <3>1, <3>3
  <2>2. Bare' \in SUBSET (Bare \cup {frame[h].seat})
    BY <2>1
  <2>3. Few(Bare', aborts + 1)
    BY <2>2, AbortsGrow, OneMoreFew
  <2>4. QED BY <1>5, <2>3, AbortsGrow DEF Few
<1>6. QED BY <1>1, <1>2, <1>3, <1>4, <1>5, StepKind

(* But for one seat per call that failed half way, nobody is left with a    *)
(* seat that is SOLD and no booking of exactly this sale, other than the    *)
(* one that confirmBooking is about to write; also when a user's requests   *)
(* overlap.  With the key uq_seat_once it fails: the INSERT meets a booking *)
(* not yet deleted.                                                         *)
THEOREM SoldHaveBookings == ASSUME ~UniqueSeat PROVE Spec => []SoldHasBooking
<1>1. Init => Few(Bare, aborts)
  <2> SUFFICES ASSUME Init PROVE Few(Bare, aborts)
    OBVIOUS
  <2>1. Bare = {} /\ aborts = 0
    BY DEF Init, Bare
  <2>2. QED BY <2>1, FS_EmptySet DEF Few
<1>2. TypeOK /\ TypeOK' /\ SnapshotFresh /\ NumbersInv /\ Few(Bare, aborts) /\ [Next]_vars
        => Few(Bare, aborts)'
  BY BareStep
<1>3. Few(Bare, aborts) => SoldHasBooking
  BY DEF Few, Bare, SoldHasBooking
<1>4. QED BY TypeInvariant, FreshSnapshots, NumbersHold, <1>1, <1>2, <1>3, PTL DEF Spec

-----------------------------------------------------------------------------
(* Bookings are good for their seats.                                       *)

(* A user has one call in flight.                                           *)
OneCall ==
  \A g, h \in Handlers : frame[g].user = frame[h].user /\ frame[g].user # None => g = h

LEMMA CallerKept ==
  ASSUME TypeOK, NEW h \in Handlers, Serve(h) \/ Abort(h)
  PROVE  \A g \in Handlers : frame'[g].user \in {frame[g].user, None}
<1>1. \/ UNCHANGED frame \/ Return(h)
      \/ frame' = [frame EXCEPT ![h].expiresIn = TTL]
      \/ frame' = [frame EXCEPT ![h].seen = getSeat(frame[h].seat)]
  BY DEF Serve, LockGet, LockSet, LockCas, LockUndo, ConfirmGet, ConfirmCas, ConfirmDel,
         ConfirmInsert, CancelSeat, CancelCas, CancelDel, CancelDrop, ReleaseCas,
         ReleaseDel, Abort
<1>2. CASE UNCHANGED frame
  BY <1>2
<1>3. CASE Return(h)
  BY <1>3 DEF Return, TypeOK, NoFrame
<1>4. CASE frame' = [frame EXCEPT ![h].expiresIn = TTL]
  BY <1>4 DEF TypeOK, Frame
<1>5. CASE frame' = [frame EXCEPT ![h].seen = getSeat(frame[h].seat)]
  BY <1>5 DEF TypeOK, Frame
<1>6. QED BY <1>1, <1>2, <1>3, <1>4, <1>5

LEMMA OneCallStep ==
  ASSUME OneRequestPerUser, TypeOK, OneCall, [Next]_vars
  PROVE  OneCall'
<1>1. ASSUME \A g \in Handlers : frame'[g].user \in {frame[g].user, None} PROVE OneCall'
  BY <1>1 DEF OneCall
<1>2. ASSUME NEW h \in Handlers, Request(h) PROVE OneCall'
  <2>1. PICK u \in Users : /\ MayCall(h, u) /\ frame'[h].user = u
                          /\ \A g \in Handlers \ {h} : frame'[g] = frame[g]
    BY <1>2 DEF Request, LockStart, ConfirmStart, ReleaseStart, CancelStart, Call, TypeOK
  <2>2. QED BY <2>1 DEF OneCall, MayCall
<1>3. ASSUME NEW h \in Handlers, Serve(h) \/ Abort(h) PROVE OneCall'
  BY <1>1, <1>3, CallerKept
<1>4. ASSUME NEW r \in Reapers, ReapStep(r) \/ ReapAbort(r) PROVE OneCall'
  BY <1>1, <1>4 DEF ReapStep, ReapScan, ReapGet, ReapCas, ReapDel, ReapAbort, calls
<1>5. CASE Elapse
  <2>1. ASSUME NEW g \in Handlers PROVE frame'[g].user = frame[g].user
    <3>1. /\ frame'[g] = [frame[g] EXCEPT !.expiresIn = Age(frame[g].expiresIn)]
          /\ frame[g] \in Frame
      BY <1>5 DEF Elapse, TypeOK
    <3>2. QED BY <3>1 DEF Frame
  <2>2. QED BY <1>1, <2>1
<1>6. CASE UNCHANGED vars
  BY <1>1, <1>6 DEF vars, calls
<1>7. QED BY <1>2, <1>3, <1>4, <1>5, <1>6 DEF Next

(* The bookings, with those that confirmBooking is about to write; and      *)
(* which of them are good for nothing and not under cancellation.           *)
Sales == {NewBooking(frame[h]) : h \in {g \in Handlers : pc[g] \in Selling}}
Known == bookings \cup Sales
Loose == {b \in Known : ~Backed(b) /\ ~Dropping(b)}

(* A sale has one booking, and what a cancellation is about is there until  *)
(* it deletes it.                                                           *)
Distinct == \A b, c \in Known : b.seat = c.seat /\ b.id = c.id => b = c
Owned(h) == pc[h] \in Cancels => OwnBooking(h) \in bookings

(* The inductive invariant.  Of what a failure leaves behind, the           *)
(* cancellation of a booking astray sets straight that booking and puts     *)
(* astray the booking of the sale it ends, also one not written yet.        *)
BooksInv ==
  /\ OneCall
  /\ Distinct
  /\ \A h \in Handlers : Owned(h)
  /\ Few(Loose, aborts)

LEMMA KnownTypes ==
  ASSUME TypeOK, NumbersInv, NEW b \in Known
  PROVE  /\ b.seat \in Seats /\ b.id \in Nat /\ b.user \in Users
         /\ b.id <= seats[b.seat].version /\ seats[b.seat].version \in Nat
<1>1. CASE b \in bookings
  BY <1>1, Numbers DEF NumbersInv
<1>2. CASE b \in Sales
  <2>1. PICK h \in Handlers : pc[h] \in Selling /\ b = NewBooking(frame[h])
    BY <1>2 DEF Sales
  <2>2. /\ frame[h].seat \in Seats /\ frame[h].user \in Users
        /\ frame[h].seen.version \in Nat /\ seats[frame[h].seat].version \in Nat
        /\ frame[h].seen.version < seats[frame[h].seat].version
    BY <2>1, Numbers DEF NumbersInv, PastIds
  <2>3. QED BY <2>1, <2>2 DEF NewBooking
<1>3. QED BY <1>1, <1>2 DEF Known

LEMMA SaleKept ==
  ASSUME NEW g \in Handlers, Kept(g), pc'[g] \in Selling
  PROVE  NewBooking(frame'[g]) \in Sales
<1>1. pc[g] \in Selling /\ NewBooking(frame'[g]) = NewBooking(frame[g])
  BY DEF Kept, Selling, NewBooking
<1>2. QED BY <1>1 DEF Sales

LEMMA SalesKept ==
  ASSUME \A g \in Handlers : pc'[g] \in Selling => Kept(g)
  PROVE  Sales' \subseteq Sales
<1>1. ASSUME NEW b \in Sales' PROVE b \in Sales
  <2>1. PICK g \in Handlers : pc'[g] \in Selling /\ b = NewBooking(frame'[g])
    BY DEF Sales
  <2>2. QED BY <2>1, SaleKept
<1>2. QED BY <1>1

LEMMA DroppingKept ==
  ASSUME NEW b, Dropping(b), \A g \in Handlers : pc[g] \in Freed => Kept(g)
  PROVE  Dropping(b)'
BY DEF Dropping, Freed, Kept

LEMMA BackedKept ==
  ASSUME NEW b, RowKept(b.seat), Backed(b)
  PROVE  Backed(b)'
BY DEF Backed, RowKept, getSeat

LEMMA DistinctKept ==
  ASSUME Distinct, Known' \subseteq Known
  PROVE  Distinct'
BY DEF Distinct

LEMMA LooseFew ==
  ASSUME TypeOK, TypeOK', Few(Loose, aborts), Counted \/ UNCHANGED aborts,
         Loose' \subseteq Loose
  PROVE  Few(Loose, aborts)'
<1>1. Few(Loose', aborts')
  BY AbortsGrow, FewerFew
<1>2. QED BY <1>1 DEF Few

(* Of a cancellation's own booking: nobody else drops it.                   *)
LEMMA OwnNotDropped ==
  ASSUME TypeOK, BooksInv, NEW h \in Handlers, pc[h] \in {"cancelSeat", "cancelCas"}
  PROVE  OwnBooking(h) \in bookings /\ ~Dropping(OwnBooking(h))
<1>1. OwnBooking(h) \in bookings
  BY DEF BooksInv, Owned, Cancels
<1>2. ~Dropping(OwnBooking(h))
  <2> SUFFICES ASSUME NEW g \in Handlers, pc[g] \in {"cancelDel", "cancelDrop"},
                      frame[g].user = frame[h].user
               PROVE  FALSE
    BY DEF Dropping, OwnBooking
  <2>1. frame[h].user # None
    BY UsersAssumption DEF TypeOK
  <2>2. g = h
    BY <2>1 DEF BooksInv, OneCall
  <2>3. QED BY <2>2
<1>3. QED BY <1>1, <1>2

LEMMA OthersOwned ==
  ASSUME BooksInv, NEW h \in Handlers, OthersKept(h), Owned(h)',
         \A g \in Handlers \ {h} : pc[g] \in Cancels =>
           (OwnBooking(g) \in bookings => OwnBooking(g) \in bookings')
  PROVE  \A g \in Handlers : Owned(g)'
<1>1. ASSUME NEW g \in Handlers \ {h} PROVE Owned(g)'
  BY DEF BooksInv, Owned, OthersKept, OwnBooking
<1>2. QED BY <1>1

LEMMA QuietBooks ==
  ASSUME TypeOK, TypeOK', NumbersInv, BooksInv, OneCall', Quiet
  PROVE  BooksInv'
<1>1. Sales' \subseteq Sales
  BY SalesKept DEF Quiet, Aside
<1>2. Known' \subseteq Known
  BY <1>1 DEF Quiet, Known
<1>3. ASSUME NEW g \in Handlers PROVE Owned(g)'
  <2>1. CASE Kept(g)
    <3>1. OwnBooking(g)' = OwnBooking(g) /\ (pc'[g] \in Cancels <=> pc[g] \in Cancels)
      BY <2>1 DEF Kept, OwnBooking, Cancels, Freed
    <3>2. QED BY <3>1 DEF Quiet, BooksInv, Owned
  <2>2. CASE Aside(g)
    BY <2>2 DEF Aside, Quiet, BooksInv, Owned
  <2>3. QED BY <2>1, <2>2 DEF Quiet
<1>4. ASSUME NEW b \in Loose' PROVE b \in Loose
  <2>1. b \in Known /\ ~Backed(b)' /\ ~Dropping(b)'
    BY <1>2 DEF Loose
  <2>2. ~Dropping(b)
    BY <2>1, DroppingKept DEF Quiet, Aside
  <2>3. ASSUME Backed(b) PROVE FALSE
    <3>1. b.seat \in Seats /\ seats[b.seat].state = "SOLD"
      BY <2>1, <2>3, KnownTypes DEF Backed, getSeat
    <3>2. RowKept(b.seat)
      BY <3>1 DEF Quiet, RowWritten
    <3>3. QED BY <2>1, <2>3, <3>2, BackedKept
  <2>4. QED BY <2>1, <2>2, <2>3 DEF Loose
<1>5. Few(Loose, aborts)'
  BY <1>4, LooseFew DEF BooksInv, Quiet
<1>6. QED BY <1>2, <1>3, <1>5, DistinctKept DEF BooksInv

LEMMA SoldBooks ==
  ASSUME TypeOK, TypeOK', SnapshotFresh, NumbersInv, BooksInv, OneCall',
         NEW h \in Handlers, Sells(h)
  PROVE  BooksInv'
<1> DEFINE new == NewBooking(frame[h])
<1>1. /\ new.seat = frame[h].seat /\ new.user = frame[h].user
      /\ new.id = frame[h].seen.version + 1
  BY DEF NewBooking
<1>2. Known' \subseteq Known \cup {new}
  <2>1. ASSUME NEW b \in Sales' PROVE b \in Sales \cup {new}
    <3>1. PICK g \in Handlers : pc'[g] \in Selling /\ b = NewBooking(frame'[g])
      BY DEF Sales
    <3>2. CASE g = h
      BY <3>1, <3>2, SellRows
    <3>3. CASE g # h
      <4>1. Kept(g)
        BY <3>3, SellRows DEF OthersKept, Kept
      <4>2. QED BY <3>1, <4>1, SaleKept
    <3>4. QED BY <3>2, <3>3
  <2>2. QED BY <2>1, SellRows DEF Known
<1>3. ASSUME NEW b \in Known, b.seat = new.seat PROVE b.id # new.id
  <2>1. b.id \in Nat /\ b.id <= frame[h].seen.version /\ frame[h].seen.version \in Nat
    BY <1>1, <1>3, KnownTypes, SellRows
  <2>2. QED BY <1>1, <2>1
<1>4. Distinct'
  BY <1>2, <1>3 DEF BooksInv, Distinct
<1>5. Owned(h)'
  BY SellRows DEF Owned, Cancels, Freed
<1>6. \A g \in Handlers : Owned(g)'
  BY <1>5, SellRows, OthersOwned
<1>7. ASSUME NEW b \in Loose' PROVE b \in Loose
  <2>1. b \in Known \cup {new} /\ ~Backed(b)' /\ ~Dropping(b)'
    BY <1>2 DEF Loose
  <2>2. b # new
    BY <1>1, <2>1, SellRows DEF Backed
  <2>3. ~Dropping(b)
    <3>1. \A g \in Handlers : pc[g] \in Freed => Kept(g)
      BY SellRows DEF OthersKept, Kept, Freed
    <3>2. QED BY <2>1, <3>1, DroppingKept
  <2>4. ASSUME Backed(b) PROVE FALSE
    <3>1. b.seat \in Seats /\ seats[b.seat].state = "SOLD"
      BY <2>1, <2>2, <2>4, KnownTypes DEF Backed, getSeat
    <3>2. RowKept(b.seat)
      BY <3>1, SellRows
    <3>3. QED BY <2>1, <2>4, <3>2, BackedKept
  <2>5. QED BY <2>1, <2>2, <2>3, <2>4 DEF Loose
<1>8. Few(Loose, aborts)'
  BY <1>7, LooseFew, SellRows DEF BooksInv
<1>9. QED BY <1>4, <1>6, <1>8 DEF BooksInv

(* What the end of a call leaves: no booking that was not known, and none   *)
(* loose that was not, but for the one that the call was about.             *)
LEMMA EndKnown ==
  ASSUME TypeOK, NumbersInv, BooksInv, NEW h \in Handlers,
         ConfirmInsert(h) \/ CancelDrop(h) \/ Fails(h)
  PROVE  /\ Known' \subseteq Known
         /\ Owned(h)'
         /\ \A b \in Loose' : b \in Loose \cup {OwnBooking(h)}
         /\ pc[h] \notin Freed => Loose' \subseteq Loose
<1>1. \A g \in Handlers : pc'[g] \in Selling => Kept(g)
  BY EndRows DEF OthersKept, Kept, Selling
<1>2. Sales' \subseteq Sales
  BY <1>1, SalesKept
<1>3. bookings' \subseteq Known
  BY DEF ConfirmInsert, CancelDrop, deleteBooking, Fails, Abort, tables, Known, Sales, Selling
<1>4. Known' \subseteq Known
  BY <1>2, <1>3 DEF Known
<1>5. Owned(h)'
  BY EndRows DEF Owned, Cancels, Freed
<1>6. ASSUME NEW b \in Loose', b # OwnBooking(h) \/ pc[h] \notin Freed PROVE b \in Loose
  <2>1. b \in Known /\ ~Backed(b)' /\ ~Dropping(b)'
    BY <1>4 DEF Loose
  <2>2. b.seat \in Seats /\ b = [user |-> b.user, seat |-> b.seat, id |-> b.id]
    BY <2>1, KnownTypes DEF Known, Sales, NewBooking, TypeOK, Booking
  <2>3. ASSUME Dropping(b) PROVE FALSE
    <3>1. PICK g \in Handlers : /\ pc[g] \in Freed
                               /\ frame[g].user = b.user /\ frame[g].seat = b.seat
                               /\ frame[g].id = b.id
      BY <2>3 DEF Dropping, Freed
    <3>2. g # h
      BY <1>6, <2>2, <3>1 DEF OwnBooking
    <3>3. pc'[g] = pc[g] /\ frame'[g] = frame[g]
      BY <3>2, EndRows DEF OthersKept
    <3>4. QED BY <2>1, <3>1, <3>3 DEF Dropping, Freed
  <2>4. ASSUME Backed(b) PROVE FALSE
    BY <2>1, <2>2, <2>4, EndRows, BackedKept
  <2>5. QED BY <2>1, <2>3, <2>4 DEF Loose
<1>7. QED BY <1>4, <1>5, <1>6

LEMMA BookedBooks ==
  ASSUME TypeOK, TypeOK', NumbersInv, BooksInv, OneCall', NEW h \in Handlers,
         ConfirmInsert(h)
  PROVE  BooksInv'
<1>1. pc[h] \notin Freed /\ bookings \subseteq bookings' /\ UNCHANGED aborts
  BY DEF ConfirmInsert, Freed
<1>2. Distinct'
  BY EndKnown, DistinctKept DEF BooksInv
<1>3. \A g \in Handlers : Owned(g)'
  BY <1>1, EndRows, EndKnown, OthersOwned
<1>4. Few(Loose, aborts)'
  BY <1>1, EndKnown, LooseFew DEF BooksInv
<1>5. QED BY <1>2, <1>3, <1>4 DEF BooksInv

LEMMA DroppedBooks ==
  ASSUME TypeOK, TypeOK', NumbersInv, BooksInv, OneCall', NEW h \in Handlers,
         CancelDrop(h)
  PROVE  BooksInv'
<1> DEFINE own == OwnBooking(h)
<1>1. /\ pc[h] \in Freed /\ UNCHANGED aborts
      /\ bookings' = {b \in bookings : ~(b.seat = frame[h].seat /\ b.id = frame[h].id)}
  BY DEF CancelDrop, deleteBooking, Freed
<1>2. /\ own \in bookings /\ own.seat = frame[h].seat /\ own.id = frame[h].id
      /\ own.user = frame[h].user
  BY <1>1 DEF BooksInv, Owned, Cancels, OwnBooking
<1>3. bookings' = bookings \ {own}
  BY <1>1, <1>2 DEF BooksInv, Distinct, Known
<1>4. Distinct'
  BY EndKnown, DistinctKept DEF BooksInv
<1>5. ASSUME NEW g \in Handlers \ {h} PROVE frame[g].user # frame[h].user
  BY UsersAssumption, EndRows DEF BooksInv, OneCall
<1>6. \A g \in Handlers \ {h} : OwnBooking(g) # own
  BY <1>5 DEF OwnBooking
<1>7. \A g \in Handlers : Owned(g)'
  BY <1>3, <1>6, EndRows, EndKnown, OthersOwned
<1>8. own \notin Loose'
  <2> SUFFICES ASSUME own \in Known' PROVE FALSE
    BY DEF Loose
  <2>1. PICK g \in Handlers : pc'[g] \in Selling /\ own = NewBooking(frame'[g])
    BY <1>3 DEF Known, Sales
  <2>2. g # h /\ frame'[g] = frame[g]
    BY <2>1, EndRows DEF OthersKept, Selling
  <2>3. QED BY <1>2, <1>5, <2>1, <2>2 DEF NewBooking
<1>9. Loose' \subseteq Loose
  BY <1>8, EndKnown
<1>10. Few(Loose, aborts)'
  BY <1>1, <1>9, LooseFew DEF BooksInv
<1>11. QED BY <1>4, <1>7, <1>10 DEF BooksInv

LEMMA FailedBooks ==
  ASSUME TypeOK, TypeOK', NumbersInv, BooksInv, OneCall', NEW h \in Handlers, Fails(h)
  PROVE  BooksInv'
<1>1. UNCHANGED bookings
  BY DEF Fails, Abort, tables
<1>2. Distinct'
  BY EndKnown, DistinctKept DEF BooksInv
<1>3. \A g \in Handlers : Owned(g)'
  BY <1>1, EndRows, EndKnown, OthersOwned
<1>4. Loose' \in SUBSET (Loose \cup {OwnBooking(h)})
  BY EndKnown
<1>5. Few(Loose', aborts + 1)
  BY <1>4, AbortsGrow, OneMoreFew DEF BooksInv
<1>6. Few(Loose, aborts)'
  BY <1>5, AbortsGrow DEF Few
<1>7. QED BY <1>2, <1>3, <1>6 DEF BooksInv

LEMMA FreedBooks ==
  ASSUME TypeOK, TypeOK', NumbersInv, BooksInv, OneCall', NEW h \in Handlers, Frees(h)
  PROVE  BooksInv'
<1> DEFINE own == OwnBooking(h)
           s == frame[h].seat
<1>1. \A g \in Handlers : /\ pc'[g] \in Selling => Kept(g)
                          /\ pc[g] \in Freed => Kept(g)
  BY FreeRows DEF OthersKept, Kept, Selling, Freed
<1>2. Known' \subseteq Known
  BY <1>1, SalesKept, FreeRows DEF Known
<1>3. /\ own \in bookings /\ own \in Known /\ ~Dropping(own)
      /\ own.seat = s /\ own.user = frame[h].user /\ own.id = frame[h].id
  BY FreeRows, OwnNotDropped DEF Known, OwnBooking
<1>4. \A g \in Handlers : Owned(g)'
  <2>1. OwnBooking(h)' = own
    BY FreeRows DEF OwnBooking
  <2>2. Owned(h)'
    BY <1>3, <2>1, FreeRows DEF Owned
  <2>3. QED BY <2>2, FreeRows, OthersOwned
<1>5. own \notin Loose'
  <2> SUFFICES ASSUME NEW b, b = own PROVE Dropping(b)'
    BY DEF Loose
  <2>1. /\ pc'[h] = "cancelDel" /\ frame'[h] = frame[h]
        /\ b.seat = s /\ b.user = frame[h].user /\ b.id = frame[h].id
    BY <1>3, FreeRows
  <2>2. QED BY <2>1 DEF Dropping
<1>6. ASSUME NEW b \in Loose', ~(Backed(b) /\ b.seat = s) PROVE b \in Loose \ {own}
  <2>1. b \in Known /\ ~Backed(b)' /\ ~Dropping(b)' /\ b # own
    BY <1>2, <1>5 DEF Loose
  <2>2. ~Dropping(b)
    BY <1>1, <2>1, DroppingKept
  <2>3. ASSUME Backed(b) PROVE FALSE
    <3>1. b.seat \in Seats \ {s}
      BY <1>6, <2>1, <2>3, KnownTypes
    <3>2. RowKept(b.seat)
      BY <3>1, FreeRows
    <3>3. QED BY <2>1, <2>3, <3>2, BackedKept
  <2>4. QED BY <2>1, <2>2, <2>3 DEF Loose
<1>7. \A b, c \in Known : Backed(b) /\ Backed(c) /\ b.seat = s /\ c.seat = s => b = c
  BY DEF BooksInv, Distinct, Backed, getSeat
<1>8. Few(Loose', aborts)
  <2>1. aborts \in Nat /\ Few(Loose, aborts)
    BY AbortsGrow DEF BooksInv
  <2>2. CASE \E c \in Known : Backed(c) /\ c.seat = s
    <3>1. PICK c \in Known : Backed(c) /\ c.seat = s
      BY <2>2
    <3>2. Loose' \in SUBSET ((Loose \ {own}) \cup {c})
      BY <1>2, <1>6, <1>7, <3>1 DEF Loose
    <3>3. CASE own \in Loose
      BY <2>1, <3>2, <3>3, SwappedFew
    <3>4. CASE own \notin Loose
      <4>1. own = c
        BY <1>3, <1>7, <3>1, <3>4 DEF Loose
      <4>2. Loose' \in SUBSET Loose
        BY <1>5, <3>2, <4>1
      <4>3. QED BY <2>1, <4>2, FewerFew
    <3>5. QED BY <3>3, <3>4
  <2>3. CASE ~\E c \in Known : Backed(c) /\ c.seat = s
    <3>1. Loose' \in SUBSET Loose
      BY <1>2, <1>6, <2>3 DEF Loose
    <3>2. QED BY <2>1, <3>1, FewerFew
  <2>4. QED BY <2>2, <2>3
<1>9. Few(Loose, aborts)'
  BY <1>8, FreeRows DEF Few
<1>10. Distinct'
  BY <1>2, DistinctKept DEF BooksInv
<1>11. QED BY <1>4, <1>9, <1>10 DEF BooksInv

LEMMA BooksHold == ASSUME OneRequestPerUser PROVE Spec => []BooksInv
<1>1. Init => BooksInv
  <2> SUFFICES ASSUME Init PROVE BooksInv
    OBVIOUS
  <2>1. Known = {} /\ Loose = {} /\ aborts = 0
    BY DEF Init, Known, Sales, Selling, Loose
  <2>2. OneCall /\ \A h \in Handlers : Owned(h)
    BY DEF Init, OneCall, NoFrame, Owned, Cancels, Freed
  <2>3. QED BY <2>1, <2>2, FS_EmptySet DEF BooksInv, Distinct, Few
<1>2. TypeOK /\ TypeOK' /\ SnapshotFresh /\ NumbersInv /\ BooksInv /\ [Next]_vars => BooksInv'
  <2> SUFFICES ASSUME TypeOK, TypeOK', SnapshotFresh, NumbersInv, BooksInv, [Next]_vars
               PROVE  BooksInv'
    OBVIOUS
  <2>1. OneCall'
    BY OneCallStep DEF BooksInv
  <2>2. QED BY <2>1, StepKind, QuietBooks, SoldBooks, BookedBooks, FreedBooks, DroppedBooks,
               FailedBooks
<1>3. QED BY TypeInvariant, FreshSnapshots, NumbersHold, <1>1, <1>2, PTL DEF Spec

(* A booking is good for its seat: the seat is sold to the booking's user   *)
(* by exactly this sale, or its own cancellation is under way               *)
(* (confirmBooking, cancelBooking), with or without the key uq_seat_once;   *)
(* but for as many bookings as calls have failed half way.                  *)
THEOREM BookingsBacked == ASSUME OneRequestPerUser PROVE Spec => []BookingBacked
<1>1. TypeOK /\ BooksInv => BookingBacked
  <2> SUFFICES ASSUME TypeOK, BooksInv PROVE Cardinality(Astray) <= aborts
    BY DEF BookingBacked
  <2>1. Astray \in SUBSET Loose /\ aborts \in Nat
    BY BoundsAssumption DEF Astray, Loose, Known, TypeOK
  <2>2. QED BY <2>1, FewerFew DEF BooksInv, Few
<1>2. QED BY TypeInvariant, BooksHold, <1>1, PTL

(* Only the buyer's own cancellation takes a sold seat back, or that of a   *)
(* booking which a failure has left astray: but for those, what             *)
(* cancelBooking checks of the booking is true of the seat when it writes.  *)
THEOREM OwnersCancel == ASSUME OneRequestPerUser PROVE Spec => CancelledByOwner
<1> DEFINE Rightful(s) ==
      \E h \in Handlers :
        /\ pc[h] = "cancelCas" /\ pc'[h] = "cancelDel"
        /\ frame[h].seat = s
        /\ \/ frame[h].user = seats[s].owner
           \/ [user |-> frame[h].user, seat |-> s, id |-> frame[h].id] \in Astray
<1>1. TypeOK /\ SnapshotFresh /\ NumbersInv /\ BooksInv /\ [Next]_vars =>
        [\A s \in Seats : seats[s].state = "SOLD" /\ seats'[s] # seats[s] => Rightful(s)]_vars
  <2> SUFFICES ASSUME TypeOK, SnapshotFresh, NumbersInv, BooksInv, [Next]_vars,
                      NEW s \in Seats, seats[s].state = "SOLD", seats'[s] # seats[s]
               PROVE  Rightful(s)
    OBVIOUS
  <2>1. ~RowKept(s) /\ ~RowWritten(s)
    BY DEF NumbersInv, RowKept, RowWritten
  <2>2. ~Quiet
    BY <2>1 DEF Quiet
  <2>3. PICK h \in Handlers : Sells(h) \/ ConfirmInsert(h) \/ Frees(h) \/ CancelDrop(h)
                              \/ Fails(h)
    BY <2>2, StepKind
  <2>4. Frees(h) /\ frame[h].seat = s
    BY <2>1, <2>3, SellRows, EndRows, FreeRows
  <2>5. pc[h] = "cancelCas" /\ pc'[h] = "cancelDel"
    BY <2>4, FreeRows
  <2>6. OwnBooking(h) \in bookings /\ ~Dropping(OwnBooking(h))
    BY <2>5, OwnNotDropped
  <2>7. OwnBooking(h) = [user |-> frame[h].user, seat |-> s, id |-> frame[h].id]
    BY <2>4 DEF OwnBooking
  <2>8. CASE Backed(OwnBooking(h))
    <3>1. frame[h].user = seats[s].owner
      BY <2>7, <2>8 DEF Backed, getSeat
    <3>2. QED BY <2>4, <2>5, <3>1
  <2>9. CASE ~Backed(OwnBooking(h))
    BY <2>4, <2>5, <2>6, <2>7, <2>9 DEF Astray
  <2>10. QED BY <2>8, <2>9
<1>2. QED BY TypeInvariant, FreshSnapshots, NumbersHold, BooksHold, <1>1, PTL
             DEF Spec, CancelledByOwner

=============================================================================

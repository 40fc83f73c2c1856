------------------------------ MODULE SeatLock ------------------------------
(***************************************************************************)
(* services/seatLockService.ts over its two stores: the seats and bookings  *)
(* tables (db/store.ts) and the Redis lock keys (db/redis.ts), for the      *)
(* seats of one train.                                                      *)
(*                                                                          *)
(* Any number of backend processes serve requests; a Handler is one running *)
(* call of lockSeat, confirmBooking, cancelBooking or releaseSeat, in any   *)
(* process.  A Reaper is one running reapExpiredLocks: every process starts *)
(* one a second and does not wait for the one before.  Between two awaits   *)
(* the code runs alone, so a step here is: the effect of one call to a      *)
(* store, then the code up to the next await.  A handler's pc names the     *)
(* call it is about to make and its frame holds its local variables.        *)
(*                                                                          *)
(* A start of an operation that the code rejects at its first read changes  *)
(* nothing and is left out; later rejections are steps that end the call.   *)
(***************************************************************************)
EXTENDS Naturals, FiniteSets, Domain

CONSTANTS
  Users, Seats,
  None,               \* null: no owner, no user
  Handlers,           \* calls of the service that can be in flight at a time
  Reapers,            \* runs of reapExpiredLocks in flight at a time
  TTL,                \* lifetime of a lock, in steps of the clock
  UniqueSeat,         \* TRUE: MySqlStore and its key uq_seat_once
                      \* FALSE: InMemoryStore, which has no such key
  OneRequestPerUser,  \* TRUE: a user waits for an answer before it asks again
  MaxVersion,         \* bound: a seat is selected below this version only
  MaxAborts           \* bound: calls that fail half way

ASSUME UsersAssumption  == None \notin Users /\ None \notin Seats
ASSUME TTLAssumption    == TTL \in Nat \ {0}
ASSUME StoreAssumption  == UniqueSeat \in BOOLEAN /\ OneRequestPerUser \in BOOLEAN
ASSUME BoundsAssumption == MaxVersion \in Nat /\ MaxAborts \in Nat

VARIABLES
  seats,      \* table seats; expiresIn is the time left to lock_expires_at,
              \* 0 when that has passed or is null
  lock,       \* Redis key seat:lock:<train>:<seat>
  bookings,   \* table bookings
  pc, frame,  \* of each handler
  reap,       \* of each reaper: pc, rows still to look at, row at hand
  aborts      \* calls that failed half way so far

tables == <<seats, lock, bookings>>
calls  == <<pc, frame>>
vars   == <<seats, lock, bookings, pc, frame, reap, aborts>>

-----------------------------------------------------------------------------
(* Data *)

UserOrNone == Users \cup {None}
Row        == [state : SeatState, owner : UserOrNone, version : Nat,
               expiresIn : 0..TTL]
Snapshot   == [state : SeatState, owner : UserOrNone, version : Nat]
Lock       == [owner : UserOrNone, ttl : 0..TTL]

(* A booking is identified by a fresh random id.  The id here is the        *)
(* version its sale gave the seat, which no other booking of the seat has.  *)
Booking    == [user : Users, seat : Seats, id : Nat]

NoLock     == [owner |-> None, ttl |-> 0]
NoSnapshot == [state |-> "AVAILABLE", owner |-> None, version |-> 0]
NoFrame    == [user |-> None, seat |-> None, seen |-> NoSnapshot,
               expiresIn |-> 0, id |-> 0]
NoItem     == [seat |-> None, version |-> 0, expiresIn |-> 0]

Steps == {"idle", "lockGet", "lockSet", "lockCas", "lockUndo",
          "confirmGet", "confirmCas", "confirmDel", "confirmInsert",
          "cancelSeat", "cancelCas", "cancelDel", "cancelDrop",
          "releaseCas", "releaseDel"}

-----------------------------------------------------------------------------
(* The stores *)

getSeat(s) == [state |-> seats[s].state, owner |-> seats[s].owner,
               version |-> seats[s].version]

\* Mutated form: WHERE without the version.
VersionMatches_Unchecked(s, v) == TRUE
VersionMatches(s, v) == seats[s].version = v

\* Mutated form: SET without version = version + 1.
NextVersion_NotBumped(v) == v
NextVersion(v) == v + 1

(* The write half of updateSeatWithVersion. *)
SetSeat(s, st, u, left) ==
  seats' = [seats EXCEPT ![s] = [state |-> st, owner |-> u, expiresIn |-> left,
                                 version |-> NextVersion(seats[s].version)]]

\* Mutated form: owner_id is left out of the patch.
FreeSeat_KeepsOwner(s) == SetSeat(s, "AVAILABLE", seats[s].owner, 0)
FreeSeat(s) == SetSeat(s, "AVAILABLE", None, 0)

redisGet(s)      == lock[s].owner
redisSet(s, u)   == lock' = [lock EXCEPT ![s] = [owner |-> u, ttl |-> TTL]]
redisDel(s)      == lock' = [lock EXCEPT ![s] = NoLock]

(* uq_seat_once refuses a second booking of a seat; the Map has no such rule. *)
InsertRefused(s) == UniqueSeat /\ \E b \in bookings : b.seat = s

-----------------------------------------------------------------------------
(* Control of a handler *)

Goto(h, step) == pc' = [pc EXCEPT ![h] = step]

(* The call answers or throws; nothing of it remains. *)
Return(h) ==
  /\ pc' = [pc EXCEPT ![h] = "idle"]
  /\ frame' = [frame EXCEPT ![h] = NoFrame]

(* Whether user u may have one more call served, by the idle handler h. *)
MayCall(h, u) ==
  /\ pc[h] = "idle"
  /\ OneRequestPerUser => \A g \in Handlers : frame[g].user # u

Call(h, step, u, s, seen, id) ==
  /\ Goto(h, step)
  /\ frame' = [frame EXCEPT ![h] = [user |-> u, seat |-> s, seen |-> seen,
                                    expiresIn |-> 0, id |-> id]]

-----------------------------------------------------------------------------
(* lockSeat *)

LockStart(h, u, s) ==
  /\ MayCall(h, u)
  /\ seats[s].version < MaxVersion
  /\ seats[s].state # "SOLD"
  /\ Call(h, "lockGet", u, s, getSeat(s), 0)
  /\ UNCHANGED <<tables, reap, aborts>>

(* The guards between the read of the lock and its SET. *)
MayLock(u, seen, holder) ==
  /\ holder \in {None, u}
  /\ ~(seen.state = "LOCKED" /\ seen.owner # None /\ seen.owner # u)
  /\ canTransitionSeat(seen.state, "LOCKED") \/ seen.state = "LOCKED"

(* lockExpiresAt is computed here, before the SET is sent. *)
LockGet(h) ==
  LET f == frame[h] IN
  /\ pc[h] = "lockGet"
  /\ IF MayLock(f.user, f.seen, redisGet(f.seat))
     THEN /\ Goto(h, "lockSet")
          /\ frame' = [frame EXCEPT ![h].expiresIn = TTL]
     ELSE Return(h)
  /\ UNCHANGED <<tables, reap, aborts>>

LockSet(h) ==
  /\ pc[h] = "lockSet"
  /\ redisSet(frame[h].seat, frame[h].user)
  /\ Goto(h, "lockCas")
  /\ UNCHANGED <<seats, bookings, frame, reap, aborts>>

LockCas(h) ==
  LET f == frame[h] IN
  /\ pc[h] = "lockCas"
  /\ \/ /\ VersionMatches(f.seat, f.seen.version)
        /\ SetSeat(f.seat, "LOCKED", f.user, f.expiresIn)
        /\ Return(h)
     \/ /\ ~VersionMatches(f.seat, f.seen.version)
        /\ Goto(h, "lockUndo")
        /\ UNCHANGED <<seats, frame>>
  /\ UNCHANGED <<lock, bookings, reap, aborts>>

LockUndo(h) ==
  /\ pc[h] = "lockUndo"
  /\ redisDel(frame[h].seat)
  /\ Return(h)
  /\ UNCHANGED <<seats, bookings, reap, aborts>>

-----------------------------------------------------------------------------
(* confirmBooking *)

ConfirmStart(h, u, s) ==
  /\ MayCall(h, u)
  /\ seats[s].state # "SOLD"
  /\ seats[s].owner = u
  /\ Call(h, "confirmGet", u, s, getSeat(s), 0)
  /\ UNCHANGED <<tables, reap, aborts>>

ConfirmGet(h) ==
  LET f == frame[h] IN
  /\ pc[h] = "confirmGet"
  /\ IF redisGet(f.seat) = f.user /\ canTransitionSeat(f.seen.state, "SOLD")
     THEN Goto(h, "confirmCas") /\ UNCHANGED frame
     ELSE Return(h)
  /\ UNCHANGED <<tables, reap, aborts>>

ConfirmCas(h) ==
  LET f == frame[h] IN
  /\ pc[h] = "confirmCas"
  /\ \/ /\ VersionMatches(f.seat, f.seen.version)
        /\ SetSeat(f.seat, "SOLD", f.user, 0)
        /\ Goto(h, "confirmDel")
        /\ UNCHANGED frame
     \/ /\ ~VersionMatches(f.seat, f.seen.version)
        /\ Return(h)
        /\ UNCHANGED seats
  /\ UNCHANGED <<lock, bookings, reap, aborts>>

ConfirmDel(h) ==
  /\ pc[h] = "confirmDel"
  /\ redisDel(frame[h].seat)
  /\ Goto(h, "confirmInsert")
  /\ UNCHANGED <<seats, bookings, frame, reap, aborts>>

NewBooking(f) == [user |-> f.user, seat |-> f.seat, id |-> f.seen.version + 1]

(* A refused INSERT throws: the seat stays SOLD and no booking is recorded. *)
ConfirmInsert(h) ==
  /\ pc[h] = "confirmInsert"
  /\ bookings' = IF InsertRefused(frame[h].seat) THEN bookings
                 ELSE bookings \cup {NewBooking(frame[h])}
  /\ Return(h)
  /\ UNCHANGED <<seats, lock, reap, aborts>>

-----------------------------------------------------------------------------
(* cancelBooking *)

\* Mutated form: no comparison of the booking's user with the caller.
MayCancel_AnyUser(u, b) == TRUE
MayCancel(u, b) == b.user = u

CancelStart(h, u, b) ==
  /\ MayCall(h, u)
  /\ MayCancel(u, b)
  /\ Call(h, "cancelSeat", u, b.seat, NoSnapshot, b.id)
  /\ UNCHANGED <<tables, reap, aborts>>

(* The seat must be SOLD; that it is sold to this user is not asked. *)
CancelSeat(h) ==
  LET f == frame[h] IN
  /\ pc[h] = "cancelSeat"
  /\ IF seats[f.seat].state = "SOLD" /\ canTransitionSeat("SOLD", "AVAILABLE")
     THEN /\ Goto(h, "cancelCas")
          /\ frame' = [frame EXCEPT ![h].seen = getSeat(f.seat)]
     ELSE Return(h)
  /\ UNCHANGED <<tables, reap, aborts>>

CancelCas(h) ==
  LET f == frame[h] IN
  /\ pc[h] = "cancelCas"
  /\ \/ /\ VersionMatches(f.seat, f.seen.version)
        /\ FreeSeat(f.seat)
        /\ Goto(h, "cancelDel")
        /\ UNCHANGED frame
     \/ /\ ~VersionMatches(f.seat, f.seen.version)
        /\ Return(h)
        /\ UNCHANGED seats
  /\ UNCHANGED <<lock, bookings, reap, aborts>>

CancelDel(h) ==
  /\ pc[h] = "cancelDel"
  /\ redisDel(frame[h].seat)
  /\ Goto(h, "cancelDrop")
  /\ UNCHANGED <<seats, bookings, frame, reap, aborts>>

\* Mutated form: DELETE by seat and not by id.
deleteBooking_OfSeat(s, id) == {b \in bookings : b.seat # s}
deleteBooking(s, id) == {b \in bookings : ~(b.seat = s /\ b.id = id)}

CancelDrop(h) ==
  /\ pc[h] = "cancelDrop"
  /\ bookings' = deleteBooking(frame[h].seat, frame[h].id)
  /\ Return(h)
  /\ UNCHANGED <<seats, lock, reap, aborts>>

-----------------------------------------------------------------------------
(* releaseSeat: exported, though no route calls it. *)

ReleaseStart(h, u, s) ==
  /\ MayCall(h, u)
  /\ seats[s].state = "LOCKED"
  /\ seats[s].owner = u
  /\ Call(h, "releaseCas", u, s, getSeat(s), 0)
  /\ UNCHANGED <<tables, reap, aborts>>

ReleaseCas(h) ==
  LET f == frame[h] IN
  /\ pc[h] = "releaseCas"
  /\ \/ /\ VersionMatches(f.seat, f.seen.version)
        /\ FreeSeat(f.seat)
        /\ Goto(h, "releaseDel")
        /\ UNCHANGED frame
     \/ /\ ~VersionMatches(f.seat, f.seen.version)
        /\ Return(h)
        /\ UNCHANGED seats
  /\ UNCHANGED <<lock, bookings, reap, aborts>>

ReleaseDel(h) ==
  /\ pc[h] = "releaseDel"
  /\ redisDel(frame[h].seat)
  /\ Return(h)
  /\ UNCHANGED <<seats, bookings, reap, aborts>>

-----------------------------------------------------------------------------
(* reapExpiredLocks: one read of all rows, then one seat after the other.   *)
(* The order of the rows is the store's: any order is allowed here.         *)

\* Mutated form: every seat that is taken counts as locked.
LockedSeats_AnyTaken == {s \in Seats : seats[s].state # "AVAILABLE"}
\* Mutated form: the scan goes over the lock keys in Redis.
LockedSeats_OfKeys == {s \in Seats : seats[s].state = "LOCKED" /\ lock[s].owner # None}
LockedSeats == {s \in Seats : seats[s].state = "LOCKED"}

ReapScan(r) ==
  /\ reap[r].pc = "idle"
  /\ LockedSeats # {}
  /\ reap' = [reap EXCEPT ![r] =
       [pc   |-> "get",
        todo |-> {[seat |-> s, version |-> seats[s].version,
                   expiresIn |-> seats[s].expiresIn] : s \in LockedSeats},
        cur  |-> NoItem]]
  /\ UNCHANGED <<tables, calls, aborts>>

(* On to the next row, or done. *)
NextItem(r, rest) ==
  reap' = [reap EXCEPT ![r] = [pc   |-> IF rest = {} THEN "idle" ELSE "get",
                               todo |-> rest, cur |-> NoItem]]

ReapGet(r) ==
  /\ reap[r].pc = "get"
  /\ \E item \in reap[r].todo :
       LET rest == reap[r].todo \ {item} IN
       IF redisGet(item.seat) = None \/ item.expiresIn = 0
       THEN reap' = [reap EXCEPT ![r] = [pc |-> "cas", todo |-> rest, cur |-> item]]
       ELSE NextItem(r, rest)
  /\ UNCHANGED <<tables, calls, aborts>>

ReapCas(r) ==
  LET item == reap[r].cur IN
  /\ reap[r].pc = "cas"
  /\ \/ /\ VersionMatches(item.seat, item.version)
        /\ FreeSeat(item.seat)
        /\ reap' = [reap EXCEPT ![r].pc = "del"]
     \/ /\ ~VersionMatches(item.seat, item.version)
        /\ NextItem(r, reap[r].todo)
        /\ UNCHANGED seats
  /\ UNCHANGED <<lock, bookings, calls, aborts>>

ReapDel(r) ==
  /\ reap[r].pc = "del"
  /\ redisDel(reap[r].cur.seat)
  /\ NextItem(r, reap[r].todo)
  /\ UNCHANGED <<seats, bookings, calls, aborts>>

-----------------------------------------------------------------------------
(* Time, and calls that fail half way *)

Age(t) == IF t = 0 THEN 0 ELSE t - 1

AgeItem(item) == [item EXCEPT !.expiresIn = Age(@)]

(* One step of the clock: Redis drops the keys whose time is up, and every  *)
(* comparison with Date.now() sees the later time.                          *)
Elapse ==
  /\ seats' = [s \in Seats |-> [seats[s] EXCEPT !.expiresIn = Age(@)]]
  /\ lock'  = [s \in Seats |-> IF lock[s].ttl <= 1 THEN NoLock
                               ELSE [lock[s] EXCEPT !.ttl = Age(@)]]
  /\ frame' = [h \in Handlers |-> [frame[h] EXCEPT !.expiresIn = Age(@)]]
  /\ reap'  = [r \in Reapers |-> [reap[r] EXCEPT
                 !.todo = {AgeItem(item) : item \in @}, !.cur = AgeItem(@)]]
  /\ UNCHANGED <<bookings, pc, aborts>>

(* A call to a store throws, or the process dies: the handler goes no       *)
(* further and what it has written stays.                                   *)
Abort(h) ==
  /\ pc[h] # "idle"
  /\ aborts < MaxAborts
  /\ aborts' = aborts + 1
  /\ Return(h)
  /\ UNCHANGED <<tables, reap>>

ReapAbort(r) ==
  /\ reap[r].pc # "idle"
  /\ aborts < MaxAborts
  /\ aborts' = aborts + 1
  /\ NextItem(r, {})
  /\ UNCHANGED <<tables, calls>>

-----------------------------------------------------------------------------
Init ==
  /\ seats = [s \in Seats |-> [state |-> "AVAILABLE", owner |-> None,
                               version |-> 0, expiresIn |-> 0]]
  /\ lock = [s \in Seats |-> NoLock]
  /\ bookings = {}
  /\ pc = [h \in Handlers |-> "idle"]
  /\ frame = [h \in Handlers |-> NoFrame]
  /\ reap = [r \in Reapers |-> [pc |-> "idle", todo |-> {}, cur |-> NoItem]]
  /\ aborts = 0

Request(h) ==
  \E u \in Users :
    \/ \E s \in Seats : LockStart(h, u, s) \/ ConfirmStart(h, u, s)
                          \/ ReleaseStart(h, u, s)
    \/ \E b \in bookings : CancelStart(h, u, b)

Serve(h) ==
  \/ LockGet(h) \/ LockSet(h) \/ LockCas(h) \/ LockUndo(h)
  \/ ConfirmGet(h) \/ ConfirmCas(h) \/ ConfirmDel(h) \/ ConfirmInsert(h)
  \/ CancelSeat(h) \/ CancelCas(h) \/ CancelDel(h) \/ CancelDrop(h)
  \/ ReleaseCas(h) \/ ReleaseDel(h)

ReapStep(r) == ReapScan(r) \/ ReapGet(r) \/ ReapCas(r) \/ ReapDel(r)

Next ==
  \/ \E h \in Handlers : Request(h) \/ Serve(h) \/ Abort(h)
  \/ \E r \in Reapers : ReapStep(r) \/ ReapAbort(r)
  \/ Elapse

Spec == Init /\ [][Next]_vars

(* Time passes, Node runs every continuation whose await is answered, and   *)
(* the scheduler starts a new pass every second.  Nothing obliges a user to *)
(* ask for anything.                                                        *)
Fairness ==
  /\ WF_vars(Elapse)
  /\ \A h \in Handlers : WF_vars(Serve(h))
  /\ \A r \in Reapers : WF_vars(ReapStep(r))

FairSpec == Spec /\ Fairness

-----------------------------------------------------------------------------
(* Properties *)

Item  == [seat : Seats, version : Nat, expiresIn : 0..TTL]
Frame == [user : UserOrNone, seat : Seats \cup {None}, seen : Snapshot,
          expiresIn : 0..TTL, id : Nat]
Reap  == [pc : {"idle", "get", "cas", "del"}, todo : SUBSET Item,
          cur : Item \cup {NoItem}]

(* The types; a row has an owner exactly when its seat is taken, a handler  *)
(* has a caller and a seat exactly when it is busy, a reaper a row at hand  *)
(* exactly between its decision to free the row and the end of that.        *)
TypeOK ==
  /\ seats \in [Seats -> Row]
  /\ \A s \in Seats : seats[s].owner = None <=> seats[s].state = "AVAILABLE"
  /\ lock \in [Seats -> Lock]
  /\ bookings \subseteq Booking
  /\ pc \in [Handlers -> Steps]
  /\ frame \in [Handlers -> Frame]
  /\ \A h \in Handlers : IF pc[h] = "idle" THEN frame[h] = NoFrame
                         ELSE frame[h].user \in Users /\ frame[h].seat \in Seats
  /\ reap \in [Reapers -> Reap]
  /\ \A r \in Reapers : reap[r].pc \in {"cas", "del"} <=> reap[r].cur # NoItem
  /\ aborts \in 0..MaxAborts

(* What a handler at step pc has checked of the row it read.                *)
Checked(step, u, seen) ==
  /\ step \in {"lockGet", "confirmGet"} => seen.state # "SOLD"
  /\ step = "lockGet" => ~(seen.state = "LOCKED" /\ seen.owner = None)
  /\ step \in {"lockSet", "lockCas"} =>
       \/ seen.state = "AVAILABLE"
       \/ seen.state = "LOCKED" /\ seen.owner = u
  /\ step \in {"confirmGet", "confirmCas", "releaseCas"} => seen.owner = u
  /\ step \in {"confirmCas", "releaseCas"} => seen.state = "LOCKED"
  /\ step = "cancelCas" => seen.state = "SOLD"

BeforeCas == {"lockGet", "lockSet", "lockCas", "confirmGet", "confirmCas",
              "cancelCas", "releaseCas"}

(* The row handler h read still is the row, if its version still is.        *)
HandlerFresh(h) ==
  LET f == frame[h] IN
  pc[h] \in BeforeCas =>
    /\ Checked(pc[h], f.user, f.seen)
    /\ f.seen.version <= seats[f.seat].version
    /\ f.seen.version = seats[f.seat].version => f.seen = getSeat(f.seat)

ItemFresh(item) ==
  /\ item.version <= seats[item.seat].version
  /\ item.version = seats[item.seat].version => seats[item.seat].state = "LOCKED"

(* The rows reaper r may still free.                                        *)
Pending(r) == reap[r].todo \cup IF reap[r].pc = "cas" THEN {reap[r].cur} ELSE {}

(* Every check of lockSeat, confirmBooking, cancelBooking and releaseSeat   *)
(* is made on a row read awaits before it is written.  As long as the row   *)
(* still has the version that was read, it still is the row that was read   *)
(* and checked, so the write guarded by the version overwrites nothing that *)
(* happened in between; the same for the rows a reaper goes through.        *)
SnapshotFresh ==
  /\ \A h \in Handlers : HandlerFresh(h)
  /\ \A r \in Reapers : \A item \in Pending(r) : ItemFresh(item)

(* The service implements the sale of seats of SeatSale: through any        *)
(* interleaving of lock, confirm, cancel, release and reaper in any number  *)
(* of processes, with calls that fail half way, a seat is only taken while  *)
(* free or by who holds it, bought by who holds it, and freed from a hold   *)
(* or a sale.  In particular no seat is sold twice.                         *)
saleOfSeats == [s \in Seats |-> [state |-> seats[s].state, owner |-> seats[s].owner]]
Sale == INSTANCE SeatSale WITH sale <- saleOfSeats
SaleSpec == Sale!Spec

(* The handler that has sold seat s at version v and not yet written the    *)
(* booking (confirmBooking between its UPDATE and its INSERT).              *)
Recording(s, u, v) ==
  \E h \in Handlers : /\ pc[h] \in {"confirmDel", "confirmInsert"}
                     /\ frame[h].seat = s
                     /\ frame[h].user = u
                     /\ frame[h].seen.version + 1 = v

HasBooking(s) ==
  \/ [user |-> seats[s].owner, seat |-> s, id |-> seats[s].version] \in bookings
  \/ Recording(s, seats[s].owner, seats[s].version)

(* A sold seat has the booking of exactly this sale, by its owner, or the   *)
(* confirmBooking that sold it is about to write it; but for one seat per   *)
(* call that failed half way, nobody is left with a seat that is SOLD and   *)
(* no ticket that could be shown or cancelled.                              *)
SoldHasBooking ==
  Cardinality({s \in Seats : seats[s].state = "SOLD" /\ ~HasBooking(s)}) <= aborts

(* The handler of cancelBooking that has freed the seat of booking b and    *)
(* not yet deleted b.                                                       *)
Dropping(b) ==
  \E h \in Handlers : /\ pc[h] \in {"cancelDel", "cancelDrop"}
                     /\ frame[h].user = b.user
                     /\ frame[h].seat = b.seat
                     /\ frame[h].id = b.id

(* The booking is good for its seat: sold to its user, by exactly this sale.*)
Backed(b) == getSeat(b.seat) = [state |-> "SOLD", owner |-> b.user, version |-> b.id]

(* The bookings that are good for nothing and yet not under cancellation.   *)
Astray == {b \in bookings : ~Backed(b) /\ ~Dropping(b)}

(* Every booking is good for its seat, or its own cancellation is under     *)
(* way, so that two bookings are never good for one seat; a call that fails *)
(* half way leaves at most one booking astray, and that booking, cancelled  *)
(* later, at most one other.                                                *)
BookingBacked == Cardinality(Astray) <= aborts

(* Only the buyer's own cancellation takes a sold seat back                 *)
(* (cancelBooking: "only the owner of the booking may cancel"), or that of  *)
(* a booking which a call that failed half way has left astray.             *)
CancelledByOwner ==
  [][\A s \in Seats :
       seats[s].state = "SOLD" /\ seats'[s] # seats[s] =>
         \E h \in Handlers :
           /\ pc[h] = "cancelCas" /\ pc'[h] = "cancelDel"
           /\ frame[h].seat = s
           /\ \/ frame[h].user = seats[s].owner
              \/ [user |-> frame[h].user, seat |-> s, id |-> frame[h].id] \in Astray]_vars

(* Every hold ends: it is renewed, turned into a sale, given up, or, if its *)
(* owner vanishes, ended by the reaper; a seat never stays LOCKED for good, *)
(* whatever races have done to its Redis key.                               *)
HoldEnds ==
  \A s \in Seats : \A v \in 0..MaxVersion :
    (seats[s].state = "LOCKED" /\ seats[s].version = v) ~> (seats[s].version # v)

(* The exclusive hold of five minutes: a hold with time left is ended only  *)
(* by its owner.                                                            *)
HoldLasts ==
  [][\A s \in Seats :
       seats[s].state = "LOCKED" /\ seats[s].expiresIn > 0
         /\ seats'[s].state = "AVAILABLE" =>
         \E h \in Handlers : /\ pc[h] = "releaseCas" /\ pc'[h] = "releaseDel"
                            /\ frame[h].seat = s]_vars

=============================================================================

# Verification of the train ticket booking service

This directory holds TLA+ models of the program in `src/ticket-booking`: the
waiting room, the seat locks and bookings, the request sequences that join
them, the way a waiting user learns that its turn has come, the pages on which a
seat is chosen and paid for, tokens, and the train catalogue. TLC checks the
models on small instances, and TLAPS proves every safety property that a run
checks for every size of the system: of seat locks and bookings, the waiting
room, request sequences, notices, tokens, the catalogue and the pages.
`PROJECT.json` maps each definition to the lines it models.

Paths below are relative to `src/ticket-booking/` unless they start with `src/`.

## 1. The system

A Next.js frontend talks to any number of identical Node processes (ECS tasks
behind a load balancer) by REST and by WebSocket. The processes share one Redis
and one MySQL database; `db/redis.ts` and `db/store.ts` also have in-memory
versions for development. A process runs one piece of code at a time and
changes over only at an `await`, so that every call to a store is a point where
other requests, in the same or another process, come in between.

| Component | State it keeps | Operations | Correct when |
|---|---|---|---|
| State machines `shared/types/domain.ts` | none | `canTransitionQueue`, `canTransitionSeat` | every stored change is in the tables |
| Seat locks and bookings `services/seatLockService.ts` | tables `seats` (with a version), `bookings`; Redis `seat:lock:*` with TTL | `lockSeat`, `confirmBooking`, `cancelBooking`, `releaseSeat`, `reapExpiredLocks` | a seat is sold once and only to its holder; sold seats and bookings match; a hold is exclusive while it lasts and ends |
| Waiting room `services/queueService.ts` | Redis `queue:entry:*`, `queue:counter:*`, `queue:processed:*`; table `queue_history` | `joinQueue`, `transition` (leave, processing, completed), `assertCanSelectSeat`, `tick` | numbers are unique; no more are let in than the limit, in order; the end of a turn is recorded once; who waits is served |
| Scheduler `scheduler.ts` | a timer in each process | each second: `tick`, notices, `reapExpiredLocks`; a run does not wait for the one before | runs may overlap without harm |
| Sessions `services/sessionService.ts` | Redis `session:<user>` | `createSession`, `updateSession`, `clearSession` | a session describes what its user has |
| Routes and messages `api/*.ts`, `websocket/server.ts` | none of their own | sequences of service calls | the services agree after each sequence, also after one that fails half way |
| Live updates `websocket/server.ts`, `hooks/useWebSocket.ts`, `app/queue`, `app/seats` | `clients` of each process; socket, timer and last event of each page | connect, reconnect, notices, render | who is let in finds out, nobody else is told so |
| Tokens `middleware/auth.ts`, `services/tokenService.ts`, `api/auth.ts` | Redis `token:invalidBefore:*` with TTL; the tokens are with the browsers | login, logout, the check before a request | a logout ends the tokens of before for good, and no later one |
| Catalogue `index.ts`, `data/seed.ts`, `services/trainService.ts`, `api/trains.ts`, `app/page.tsx` | the trains of each process, fixed when it boots; the rows of `seats`; Redis cache of searches | boot and seed, stop, dates, search | a train on offer has its seats; a wrong answer does not stay |
| Seats and payment pages `app/seats`, `app/payment`, `lib/api.ts` | the state of the page; `localStorage.seatId`; calls in flight | open, leave, choose, confirm, cancel | a ticket on the screen is a booking; no page stays loading |

**Interaction.** A REST request and a WebSocket message run the same sequence:
queue service, seat service, session, then a broadcast. The scheduler runs the
queue and seat services beside them. Nothing is rolled back when a later call
throws. The waiting room does not know of seats; `confirmBooking` does not look
at the waiting room.

**What is hard.** Rows and entries are read, checked and written in different
awaits; Redis and MySQL are written one after the other and a crash between
leaves one of them behind; locks expire while requests run; ticks and reapers
overlap; a promotion is told once, by one process, to the sockets open there
and then; reconnecting sockets of pages already left live on; two
`createSession` and `updateSession` write over each other; clocks of processes
differ and tokens count in seconds; processes that booted on different days share
one cache; answers reach a page that has moved on. The list, each with its line
and the properties that are about it, is `hazards` in `PROJECT.json`.

## 2. Modules

| Module | Models | Reads |
|---|---|---|
| `Domain` | the two transition tables and their guards | |
| `SeatSale` | abstract: what the sale of seats promises, without versions, locks, or awaits | |
| `SeatLock` | `seatLockService` over both stores, with the clock and the reaper | `Domain`; refines `SeatSale` |
| `SeatLockProofs` | theorems about `SeatLock` | `SeatLock`, `TLAPS` |
| `Room` | abstract: what a waiting room promises, without counters, keys or ticks | |
| `Queue` | `queueService` and its ticks | `Domain`; refines `Room` |
| `QueueProofs` | theorems about `Queue` that need no condition | `Queue`, `TLAPS` |
| `RoomProofs` | theorems about `Queue` where users wait: the limit, and, where ticks do not overlap, `Room` | `QueueProofs` |
| `QueueScreen` | the queue page, `useWebSocket`, `clients`, the scheduler's notices | |
| `QueueScreenProofs` | theorems about `QueueScreen` | `QueueScreen`, `TLAPS` |
| `Requests` | the sequences of `api/*.ts` and of the WebSocket messages, sessions | `Domain`; refines `SeatSale` |
| `RequestsProofs` | theorems about `Requests` | `Requests`, `TLAPS` |
| `Token` | login, logout and the check of a token | |
| `TokenProofs` | theorems about `Token` | `Token`, `TLAPS` |
| `Catalog` | processes that boot and stop, their trains and seats, the cached search, the search page | |
| `CatalogProofs` | theorems about `Catalog` | `Catalog`, `TLAPS` |
| `SeatScreen` | the seats and the payment page of one user and their calls | |
| `SeatScreenProofs` | theorems about `SeatScreen` | `SeatScreen`, `TLAPS` |
| `MC...` | the symmetry sets for TLC | |

`SeatLock` and `Queue` take each service apart to the single store call.
`Requests` joins them and treats one service call as one step; `QueueScreen` and
`SeatScreen` are the browser's side and treat one request as one step.

### SeatLock

A *handler* is one running call of the service; its `pc` names the store call it
is about to make, its `frame` holds its locals (the row it read, the expiry it
computed). A *reaper* is one running `reapExpiredLocks`: one read of all rows,
then get, update and delete for each. A step is the effect of one store call and
the code up to the next `await`. `updateSeatWithVersion` is one step: `UPDATE
... WHERE version = ?` in MySQL, synchronous code in memory.

- `seats` is the table; `expiresIn` is the time left to `lock_expires_at`, so
  that `Elapse` ages rows, keys, and the values that handlers and reapers hold.
- `UniqueSeat` chooses the store: MySQL's key `uq_seat_once` refuses a second
  booking of a seat, the in-memory map does not.
- `OneRequestPerUser` says whether users wait for answers (the buttons do, two
  tabs do not).
- `Abort` ends a call between any two steps (a store throws, the process dies).
- A booking's random id is the version its sale gave the seat: no two bookings
  of one seat share it.
- `releaseSeat` is exported and no route calls it; it is modelled as a service.

### Queue

A *handler* is a request that touches the queue, a *ticker* a running `tick`:
`KEYS`, one `GET` per key, then a save and a `processed` for each promotion, from
what was read. `transition` is load with guard, save, and the history row.
`Requests` names the requests of an instance, `Limit` is
`concurrentProcessingLimit`. `Room` sees of an entry only whether its user has
never joined, waits, is in, is done or has left (`placeOf`), and its number.

### QueueScreen

Each page that is opened has its own instance of `useWebSocket` (`hook`). Leaving
a page clears the timer and closes the socket, and the close event then arms a
new timer, so instances of left pages reconnect and stay until the browser
reloads. The ticket is seen from outside (WAITING, READY or given back), a
promotion (`Promote`) and its notice (`Tell`) are two steps. `JOIN_QUEUE` does not
appear: the page sends it in the effect in which its socket has just been made,
so `send` drops it. A leave is asked, served and answered in steps of its own: its
answer may be lost, and the page then stays with a ticket that was given back, or
come late, and it takes the user home from wherever it is. The seats page only
keeps its socket; payment is left out.

### Requests

A handler is a running request; service calls are steps; `getSession`,
`createSession`'s read and write, and the final write are steps of their own. A
tick is taken apart as well, into its reads of the entries and its saves, because
it saves READY over whatever an entry has become; which of those who wait come
first is left open, as there are no numbers here. Of a session only `bookingId` is kept. `OneRequestPerUser` is as in `SeatLock`, but the
`createSession` of a connecting socket, which nobody awaits, always runs beside
the user's requests. `Abort` ends a request between two services once for each user. Its
seats are `SeatSale`'s once the Redis keys are forgotten (`saleOfSeats`), which is
the specification `SeatLock` implements with single store calls.

### Token

`time` is in whole seconds, as `iat`, `exp` and the time of a logout are; any
number of steps may happen within one. A reading of a clock (`Readings`) is up to
`Skew` ahead, so that two processes, or a process and Redis, need not agree. A
login signs, creates the session and answers; a logout passes the check, reads
the time, sets it, clears the session; the session itself is in `Requests`. Other
requests change nothing here, and whether a token passes is `Admitted`:
`authMiddleware` verifies it when the clock reads `now`, and asks Redis about its
revocation up to `Delay` seconds after (`Verified`). `KeptAssumption` (the life of
a token and that delay together are no longer than Redis keeps the time of a
logout) holds for the default `JWT_EXPIRES_IN` of an hour and any delay below 23;
nothing in the program sees to it. `ended`
and `loggedOut` are history.

### Catalog

A process computes its trains from the day it boots on (`BOOT_BASE`), seeds the
rows of those trains batch by batch, and only then listens; it may stop at any
time and boot again another day. A search is a `GET` and a `SET` in Redis with
the process's trains between them; the entry is dropped at some time after. The
page asks for the dates once, after the login (`LogIn`, then `Meta` or `MetaFail`,
after which it stays without dates), and searches at each change of route or
date. `OnOffer` is what any process, cache entry, answer or page shows.

### SeatScreen

A call is asked, served or refused, and shown, with everything in between; it may
be lost on either way. `mounted` says whether the page that made a call is still
there: React drops what such an answer sets, but not what it writes to
`localStorage` or asks of the router. The seats of the backend change under the
page as others' requests and the reaper please; the user's own turn comes and
goes. `asked` is history.

## 3. Runs

All runs use 2 users unless noted, which is what every race in this code needs:
somebody, and somebody else. Versions, tickets, sales, losses and aborts are
bounded in guards; the bounds below let each of them happen in the middle of
the others.

| Run | Instance | Shows |
|---|---|---|
| `SeatLock_concurrent` | 1 seat, 2 handlers, 1 reaper, TTL 1, MySQL, version ≤ 3, 1 abort, fair | `TypeOK`; `SnapshotFresh`: as long as the version is the one read, the row is the row that was checked; `SaleSpec`: every behaviour is one of `SeatSale`, in particular no seat is sold twice or to one who does not hold it; `HoldEnds`: no seat stays LOCKED for good, whatever the races did to its Redis key |
| `SeatLock_polite` | same, TTL 2, version ≤ 5, in memory, users wait, 2 aborts | `SoldHasBooking` and `BookingBacked`: seats and bookings match, but within the request that is changing both, and but for one seat or booking per call that has failed half way; `CancelledByOwner`: a sale is taken back by its own booking, or by one that a failure has left astray |
| `SeatLock_early_release` | users wait | `HoldLasts` is violated (finding 1) |
| `SeatLock_double_cancel` | 3 handlers, in memory | `CancelledByOwner` is violated when one user's requests overlap (finding 2) |
| `Queue_concurrent` | 3 users, 2 handlers, 1 tick, limit 2, join and leave at any time, 2 tickets, 1 abort | `NumbersDistinct` wherever a ticket has been copied to; `ActiveLimit`; `ExitOnRecord`: no end of a turn is off the record but for an abort; `InOrder`: of those a tick has read as waiting none with a smaller number still waits when it lets the next one in |
| `Queue_polite` | join, select, complete, users wait, 3 tickets, fair, users go on | `RoomSpec`: every behaviour is one of `Room`; `ExitRecorded`: every end on record, once; `EventuallyServed` |
| `QueueScreen_reload` | 1 user, 3 hooks, 2 processes, 2 tickets, 1 loss (of a connection, a join or a leave), fair, user reloads | `NoFalseCall`: who is told to choose a seat has been let in with that very ticket; `Reconnects`; `Called`: who is let in gets to the seats page, or gives the ticket back |
| `QueueScreen_called` | 1 user, 1 process, no loss, fair | `Called` is violated when the user just waits (finding 3) |
| `Requests_polite` | 1 seat, 2 handlers, 1 tick, limit 2, 2 sales, users wait | `SaleSpec`; `SeatsInTurn`: no hold is taken or renewed by a user who is not PROCESSING, although the tick saves READY over what it has not read again; `CompletedBySale`; `SessionNamesBooking` |
| `Token_logout` | 1 user, 2 requests, clocks 1 s apart, tokens verified up to 1 s before Redis is asked, life 2 s, TTL 3 s, 5 s, 2 tokens | `EndedStays`: from the SET on a token of before is refused by every process, also when Redis has dropped the time and when logouts overlap, if it is earlier than each of them; `FreshLogin`: a token of after the last logout is let in until it expires |
| `Catalog_deploys` | 2 processes, 1 page, 1 search at a time, 2 bookable days, 1 midnight, fair | `OnOfferHasSeats`: every train on offer anywhere has its rows; `EmptyListGoes`: once only processes that know a train are left, the empty list cached for it goes for good |
| `SeatScreen_pages` | 1 user, 2 seats, 2 calls, 2 bookings, 1 loss, fair | `TypeOK`: the buttons are off exactly while a call of this very page is in flight; `TicketReal`: a ticket shown and not asked to be cancelled is a booking of the seat it names, and the seat is sold to the user; `ButtonsReturn` |

**Bounds.** One seat is enough for `SeatLock`: no step relates two seats, except
that a reaper goes on from one row to the next. Version 4 allows a hold, a sale,
a cancellation, and the next hold, version 5 its sale, so that a booking left
astray by one failure can end the next sale; version 3 ends with the cancellation.
A TTL of 1 lets a lock expire in the middle of a call, a TTL of 2 lets a renewed
lock outlive a stale one (and the safety properties of `SeatLock_concurrent` are
proved for every TTL). Two tickets are given out for certain, and joins that
overlap hand out one more, so that in `Queue_concurrent` three users may wait and a
tick may let in two, one after the other; three tickets in `Queue_polite` let one
user come back. In `Requests_polite` two places let a tick let in both users, or
one while the other is being served; with one seat they meet on it. One tick at a time is the bound under which `RoomSpec` holds, and under
which `ActiveLimit` says the limit itself: see section 5; for more ticks it is
proved, and was found to hold of three users, two ticks and a limit of 1. In
`Token_logout` five seconds let a login, a logout, the end of its key and another
login follow each other, with a token that expires while its request is on its
way; users do not meet, and one is enough. Three hooks are the
page, one left behind, and the one of a reload. In `Catalog_deploys` one midnight
and two days make a day both processes know, one that only the later knows, and
one that only the earlier knows.

**Deadlock** is checked except in the `QueueScreen` runs, where both users may
have gone and all tickets may be given out, and in `Token_logout`, where time
stops at its bound.

**Fairness.** `SeatLock`: time passes, Node runs every continuation whose await is
answered, the scheduler starts a pass each second. `Queue`: the same for handlers
and ticks. No user is obliged to do anything, except in `UsersSpec`
(`Queue_polite`), where a user who is let in goes on to book: without that
`EventuallyServed` is false, because nothing ever writes TIMEOUT. `QueueScreen`:
sockets, calls and rendering of a page proceed, each by itself, and notices are
told; `PatientSpec` adds a user who keeps reloading a page that says to wait.
`Catalog`: Redis ends what has a lifetime, and searches in flight are served; no
process need stop or boot. `SeatScreen`: requests are served or fail, and what has
come back is shown; the user need do nothing.

Each property of a passing run has a mutant in `PROJECT.json`: a plausible bug
(the mutated form stands in front of the definition it replaces) under which TLC
finds the property violated in the same run.

## 4. Findings

1. `seatLockService.ts:79`. Two users select a free seat. Both set the Redis key;
   the one who loses the version check deletes it, though it is the winner's. The
   reaper takes the row without a key for expired. `src/make.md:239` promises five
   exclusive minutes.
2. `seatLockService.ts:164`. A second cancellation of one booking, read before the
   first deleted it, finds the seat SOLD again, to somebody else, and frees it.
   Line 145 says that only the owner of a booking may cancel.
3. `websocket/server.ts:44`. A promotion is told once, to the sockets open in that
   process at that moment; the queue page does not ask again when its socket
   opens. `src/make.md:274` describes a broadcast every second.

## 5. Seen while modelling, without a run of their own

- On MySQL a cancellation frees the seat before it deletes the booking. A sale in
  between meets `uq_seat_once`: the seat is SOLD, the INSERT is refused, no ticket
  exists. This is why `SeatLock_polite` uses the in-memory store.
- A crash in `confirmBooking` between the update and the INSERT leaves a SOLD seat
  without a booking, for which there is no repair. One in `cancelBooking` before
  the DELETE leaves a booking of a free seat: its user may cancel it again when the
  seat has been sold to somebody else, who loses it. The properties count these:
  one for each failure, however long the service then runs.
- Two ticks at once (two processes, or one slow run) may each fill the same slots,
  so that twice `concurrentProcessingLimit` are let in; it never gets worse than
  the limit once for each tick that can be in flight (`NoMoreThanLimit`). Two
  requests of one user may bring it back to PROCESSING when a tick has already
  read it as gone; then even that fails.
- A tick also writes READY over an entry that was cancelled after it was read,
  without the guard `transition` uses; `DESIGN.md:30` says terminal states are
  never left. This is why nobody leaves in `Queue_polite`.
- The same write of a second tick meets users who are PROCESSING: the first has let
  the user in, the second, which has read it as WAITING, puts it back to READY
  between `markProcessing` and `lockSeat`, and the seat is locked for a user who is
  not PROCESSING. With two ticks TLC finds this in `Requests`, of users who wait for
  their answers, too; `SeatsInTurn` is therefore checked and proved for one.
- `joinQueue` takes a number before it saves the entry, so a later number may be
  let in first and `processed` may go back. `InOrder` is about what a tick read.
  Two joins at once take two numbers, and the user's first place is lost.
- The answer of `leaveQueue` may be lost: the page says that the user waits, with a
  ticket that is given back. A call that was sent before a leave is served reaches
  the page after it; `NoFalseCall` only says that the ticket had been let in.
- TIMEOUT is in the table and in the docs and is never written: an absent user
  keeps its slot.
- Leaving the queue does not release the seat (`src/make.md:301` says it does).
  A confirmation after that sells the seat, then `markCompleted` throws, and the
  user reads an error for a booking that stands.
- `README.md:54` says SOLD has no successor; the table and `cancelBooking` have one.
- Two tabs of one user, with the services taken as single steps: a leave between
  `markProcessing` and `lockSeat` lets a hold begin out of turn; a cancellation
  between `confirmBooking` and `markCompleted` completes a turn without a booking;
  the session update of a confirmation that comes after that of its cancellation
  names a booking that is gone. The sale of seats is not touched (`ImplementsSale`).
- After `clearSession`, the late write of a `createSession` may blank a session
  that a request has just filled.
- No client ever has a `trainId`, since `JOIN_QUEUE` is dropped and the seats page
  sends none, so `SEAT_STATUS` reaches nobody.
- Tokens: those issued earlier in the second of a logout survive it (the comparison
  is `<`). Two logouts of a user at once may set the time back, and the tokens
  between their two times are good again. A `JWT_EXPIRES_IN` above 24 hours would
  bring ended tokens back to life when Redis drops the time; one just below that, a
  token which was verified before and whose request reaches Redis after. A socket is checked
  when it opens, and `server.ts:74` does not ask about revocation. The frontend
  has no way to log out.
- Catalogue: when `trainsMeta` fails after a login, the page is logged in, shows no
  dates and does not ask again. The answers of two searches may come in the other order, and the page
  then lists trains of a route or date that is not selected. A process that booted
  before midnight caches an empty list for the new last day, for an hour.
  `BOOT_BASE` is fixed at boot, so after a week of uptime a process offers no
  train of the future.
- Pages: several seats may be chosen before the first answer comes, each of them
  is then held, and the answer that comes last names the one to be paid for, also
  from a page that was left. A late answer to a cancellation removes the id of a
  seat chosen since, and takes the user to the search page. When the answer to a
  confirmation is lost the page shows an error and, on the next try, another,
  though the booking stands; a ticket page that was left cannot be opened again.
- A refused `lockSeat` leaves the user PROCESSING, with its place in the room, until
  it chooses another seat or leaves.
- `confirmBooking` does not ask whether it is the user's turn: a hold that outlives
  the turn can be confirmed (`markCompleted` then refuses).

## 6. Proofs

Each theorem is about the `Spec` of its module, for any values of the constants
within the assumptions the module declares. `PROJECT.json` lists them with the
property each one states.

**`SeatLockProofs`**

- `TypeInvariant`: `[]TypeOK`, one lemma per group of actions.
- `FreshSnapshots`: `[]SnapshotFresh`. This is the inductive invariant of the
  whole argument: each handler and reaper either holds a row older than the
  table's, or holds the row itself with all its checks still true. It is inductive
  with `TypeOK` because a row changes only together with its version
  (`SetSeatMoves`, `ElapseMoves`): `HandlerStaysFresh` and `ItemStaysFresh` carry
  it over the steps of others, the lemmas per action over a process's own. It is
  needed because the guard of the write compares versions only, while what makes
  the write right (the state, the owner) was checked several awaits before.
- `ImplementsSale`: `SaleSpec`. The steps that write a row are guarded by the
  version; there `SnapshotFresh` says that what was checked is what is
  overwritten, and the step is one of `SeatSale`. All others stutter.
- The events that matter to seats and bookings together are five (`StepKind`):
  `confirmBooking`'s UPDATE (`Sells`) and INSERT, `cancelBooking`'s UPDATE (`Frees`)
  and DELETE, and a failure between two of them (`Fails`). Any other step is
  `Quiet`: it leaves the bookings and the sold rows as they are. What follows is
  proved once for `Quiet` steps and once for each event.
- `SoldHaveBookings`: `[]SoldHasBooking` without `uq_seat_once`, whatever overlaps
  and fails. `NumbersInv` holds of either store: the ids of bookings, of sales not
  recorded yet and of cancellations are versions their seat has had, so that no
  later sale meets them, and a sold row has no expiry for `Elapse` to age. A seat
  therefore comes to be sold without a booking only by a failure between the two
  writes, and those that are grow by at most one there (`Few`).
- `BookingsBacked` and `OwnersCancel`: `[]BookingBacked` and `CancelledByOwner`, if
  users wait for their answers; on either store and whatever fails. `BooksInv` says
  that a user has one call (`OneCall`), a sale one booking (`Distinct`), and a
  cancellation its booking until it deletes it (`Owned`); and that the bookings
  astray, counting those that a sale is about to write (`Loose`), are no more than
  the failures. The step that needs the count is `FreedBooks`: a cancellation of a
  booking astray ends somebody else's sale and so puts that one's booking astray,
  but its own is under cancellation from then on: one comes and one goes. Finding
  2 is what happens to `Owned` when one user's cancellations overlap.

**`QueueProofs`**, whatever overlaps or fails:

- `TypeInvariant`. The invariant adds that the history is finite, because the id of
  a new row is the number of rows before it.
- `DistinctNumbers`: `[]NumbersDistinct`. The invariant is inductive with `TypeOK`
  because it speaks of a ticket wherever it has been copied to: an entry, a
  request's locals, what a tick has read, a history row. Every step but INCR
  copies tickets or drops them (`ServeCopies`, `RequestCopies`, `AbortCopies`,
  `TickCopies`), and INCR adds one ticket above all others (`IncrAddsOne`). Without
  the copies it would fail: a tick writes back what it read although its user has
  rejoined with a later number.
- `EndsOnRecord`: `[]ExitOnRecord`. The users whose end is neither on record nor
  about to be are no more than the calls that have failed (`LostInv`).
- `ServesInOrder`: `InOrder`. Whoever comes before one that is chosen is chosen too
  (`ChosenFromFirst`), is let in first, and does not come to wait again under its
  number, because a number that `joinQueue` is about to save is nowhere else
  (`Unused`).

**`RoomProofs`**, under conditions each of which section 5 shows to be needed:

- `NoMoreThanLimit`: `[]ActiveLimit`, for any finite number of ticks that overlap as
  they please, if users wait for their answers or do not select (`Patient`). The
  users let in are shared out among the ticks (`Share`), and `LimitInv` says that
  each share is within the limit: a tick that reads has counted, or has yet to read,
  those it has let in itself; a tick that writes has chosen so few that they fit
  in beside its share. What other ticks and requests do in between only takes from
  the share. `SharesAddUp` numbers each share to bound the sum. `ChosenFew` counts the chosen: as numbers are
  distinct, the place among those who wait is an injection into the slots.
  `Patient` is needed because a stale select brings back a user whom a tick has
  read as gone.
- `ImplementsRoom`: `RoomSpec`, and `EndsRecordedOnce`: `[]ExitRecorded`, if ticks
  do not overlap, users wait, and nobody leaves (`Polite`). `RoomInv` says that
  what a request is about to do fits the entry it has loaded (`Fitting`), that
  what a tick has read as WAITING and not let in yet still waits (`Fresh`), and
  that tickets on record are over, and on record once (`Rows`).

**`RequestsProofs`**: `TypeInvariant`, `ImplementsSale`, `LocksInTurn`,
`CompletedSold` and `SessionsName` for `TypeOK`, `SaleSpec`, `SeatsInTurn`,
`CompletedBySale` and `SessionNamesBooking`. The first two hold however the
requests of one user and the ticks overlap: bookings are of different seats, each SOLD to its
user (`BookedSold`), so that a cancellation frees what was sold. The others are
for users who wait, and section 5 says how two tabs break each of them; their
invariant (`Inv`) adds that a user has one request at a time besides its
`createSession`s (`OneRequest`); what a request will write into a session names a booking
of its user (`PatchNamed`, `SeenNamed`), and so does the session, or else a
request that clears the name is on its way (`SessionNamed`). `LocksInTurn` needs
one tick at a time as well (`OneTick`): a user that the tick has read as waiting and
has not let in yet is not let in by anybody else, so that it still waits or has
left (`Pending`), and the save does not meet a user who is
PROCESSING; a request about to lock therefore finds its user so (`TurnInv`).

**`QueueScreenProofs`**: `TypeInvariant`, and `CallsTrue` for `NoFalseCall`. Each
instance of `useWebSocket`, also one of a page that was left, has been told of
nothing but promotions (`Told`) and is consistent by itself (`Sound`); a mounted
one is for the page its user is on, and is the only one (`Pages`); the waiting room
is READY, or tells, only for tickets that were let in (`Room`).

**`TokenProofs`**

- `TypeInvariant`.
- `FreshLogins`: `[]FreshLogin`. The invariant `MarksOfLogouts` bounds the time in
  Redis, and every time about to be set, by the user's last logout.
- `LogoutsLast`: `[]EndedStays`, also when logouts of a user overlap. `ended` takes at
  each SET the earliest time of the logouts in flight (`Pending`, `FirstEnds`), so
  that `EndedInv` can say of the time in Redis and of every time still to be set
  that it is not before `ended`; once Redis has dropped the time, whatever was
  signed before it had expired when it was verified (`KeptAssumption`).

**`CatalogProofs`**: `TypeInvariant`, and `OffersHaveSeats` for `OnOfferHasSeats`. The
trains of a process that is not down are seeded or still to be seeded by it
(`Seeds`), so that one that serves has seeded all; what a page, an answer or the
cache shows came from such a process (`Offered`). Typing needs that searches in
flight name a train (`Asked`) and that a page that waits for an answer has its dates (`Waiting`).

**`SeatScreenProofs`**: `TypeInvariant`, and `TicketsReal` for `TicketReal`. What an
answer in flight or the page says of a booking is true of the store unless the
user has asked to cancel it (`Answers`, `Shown`); bookings have ids and seats of
their own, which are sold (`Booked`); the calls whose page is mounted are those of
the open page, and the payment page has one at a time (`OfPage`), so that a late
answer cannot change what it shows; `Within` keeps ids within the bound.

**Only model-checked**: liveness (`HoldEnds`, `EventuallyServed`, `Reconnects`,
`Called`, `EmptyListGoes`, `ButtonsReturn`), which TLAPS does not reach, and the
runs that expect a violation. `SeatsInTurn` is proved for one tick at a time; `RoomSpec` and `ExitRecorded` are proved under the
conditions of `Queue_polite` and not beyond: section 5 says how a leave under a
running tick, a second tick, or a second request of one user breaks them.

## 7. Not modelled

- `SEAT_STATUS`: nothing is delivered, since no client has a `trainId`.
- The requests that only read (`GET /queue/status`, `GET /booking`).
- Requests that arrive after the browser has given them up as lost.
- `estimatedWaitTime` and `peopleAhead`, booking numbers, ticket text, error
  codes, forms and rendering: data that no property here depends on.
- Configuration, Terraform, the load tests in `dlt`.

## 8. Plan

The order is by importance; 1 to 10 are done.

1. `Domain`, `SeatSale`, `SeatLock` with runs and `SeatLockProofs`.
2. `Queue` with its runs.
3. `QueueScreen`: browser, sockets and notices.
4. `Requests`: composition and sessions.
5. `QueueProofs`: typing, `NumbersDistinct`, and later the history and the order.
6. `Room`, the abstract waiting room; `Requests` against `SeatSale`.
7. `Token`, `Catalog`, `SeatScreen`.
8. `TokenProofs`, `RequestsProofs`, `CatalogProofs`, `SeatScreenProofs`,
   `QueueScreenProofs`.
9. `RoomProofs`: the limit and the refinement of `Room`; in `SeatLockProofs` the
   agreement of seats and bookings.
10. Theorems freed of conditions: the limit for ticks that overlap, seats and
    bookings for calls that fail half way, logouts that overlap, the sale in
    `Requests` for users with several tabs.
11. `QueueScreen` related to `Room` instead of its own small copy.
12. What `SessionNamesBooking`, `SeatsInTurn` and `CompletedBySale` can still say of a
    user with two tabs.

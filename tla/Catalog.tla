------------------------------- MODULE Catalog -------------------------------
(***************************************************************************)
(* The trains on offer: index.ts boots a process, whose data/seed.ts fixes  *)
(* its trains for good, api/trains.ts and services/trainService.ts answer   *)
(* with them or with what another process has put into the Redis cache, and *)
(* frontend/app/page.tsx shows the answers.                                 *)
(*                                                                          *)
(* Processes boot on different days and stop at any time; the table of      *)
(* seats, the cache and the home pages outlive them.  A train stands for    *)
(* the 18 trains of a route and a date, a batch of seedSeats for the rows   *)
(* of one train.  Only the searches of the home page appear, which name     *)
(* route and date; a lifetime of an hour is one that ends at some time.     *)
(***************************************************************************)
EXTENDS Naturals, FiniteSets

CONSTANTS
  Processes, Browsers,
  Routes,
  Searches,       \* GET /trains in flight at a time
  None,           \* no process, no browser, no route
  BOOKABLE_DAYS,
  MaxDay          \* bound: days that pass

ASSUME NoneAssumption  == None \notin Processes \cup Browsers \cup Routes
ASSUME RouteAssumption == Routes # {}
ASSUME DayAssumption   == BOOKABLE_DAYS \in Nat \ {0} /\ MaxDay \in Nat

VARIABLES
  day,          \* today
  proc,         \* of each process: BOOT_BASE, and the trains still to seed
  seeded,       \* the trains that have rows in table seats
  cache,        \* trains:<from>:<to>:<date> in Redis
  home,         \* the home page of each browser
  pc, frame     \* of each search

searches == <<pc, frame>>
vars     == <<day, proc, seeded, cache, home, pc, frame>>

-----------------------------------------------------------------------------
(* Data *)

Dates  == 0..(MaxDay + BOOKABLE_DAYS - 1)
Trains == [route : Routes, date : Dates]

bookableDates(base) == base..(base + BOOKABLE_DAYS - 1)
generateTrains(base) == [route : Routes, date : bookableDates(base)]

(* The conditions of a search are those of a train: findTrains finds the    *)
(* trains of that route and date among the trains of the process.           *)
findTrains(base, key) == {t \in generateTrains(base) : t = key}

Down == [status |-> "down", base |-> 0, unseeded |-> {}]
Process == [status : {"down", "booting", "up"}, base : 0..MaxDay,
            unseeded : SUBSET Trains]

NoList == [there |-> FALSE, trains |-> {}, expires |-> FALSE]
Cached == [there : BOOLEAN, trains : SUBSET Trains, expires : BOOLEAN]

(* login is "meta" while trainsMeta is under way.  dates is empty until it   *)
(* has answered, and stays so if it fails.                                  *)
NoKey     == [route |-> None, date |-> 0]
LoginPage == [login |-> "out", dates |-> {}, selected |-> NoKey, trains |-> {},
              trainId |-> NoKey]
HomePage  == [login : {"out", "meta", "in"}, dates : SUBSET Dates,
              selected : Trains \cup {NoKey}, trains : SUBSET Trains,
              trainId : Trains \cup {NoKey}]

NoFrame == [browser |-> None, at |-> None, key |-> NoKey, trains |-> {}]
Frame   == [browser : Browsers \cup {None}, at : Processes \cup {None},
            key : Trains \cup {NoKey}, trains : SUBSET Trains]

Up(p) == proc[p].status = "up"

-----------------------------------------------------------------------------
(* main: migrate, seedSeats, then listen                                    *)

Boot(p) ==
  /\ proc[p].status = "down"
  /\ proc' = [proc EXCEPT ![p] = [status |-> "booting", base |-> day,
                                  unseeded |-> generateTrains(day)]]
  /\ UNCHANGED <<day, seeded, cache, home, searches>>

(* INSERT IGNORE: rows that are there stay as they are.  By date.           *)
SeedBatch(p) ==
  /\ proc[p].status = "booting"
  /\ \E t \in proc[p].unseeded :
       /\ \A o \in proc[p].unseeded : t.date <= o.date
       /\ seeded' = seeded \cup {t}
       /\ proc' = [proc EXCEPT ![p].unseeded = @ \ {t}]
  /\ UNCHANGED <<day, cache, home, searches>>

\* Mutated form: seedSeats is not awaited.
MayListen_Booting(p) == proc[p].status = "booting"
MayListen(p) == proc[p].status = "booting" /\ proc[p].unseeded = {}

Listen(p) ==
  /\ MayListen(p)
  /\ proc' = [proc EXCEPT ![p].status = "up", ![p].unseeded = {}]
  /\ UNCHANGED <<day, seeded, cache, home, searches>>

(* A deployment or a crash, also while it boots; its searches fail.         *)
Stop(p) ==
  /\ proc[p].status # "down"
  /\ proc' = [proc EXCEPT ![p] = Down]
  /\ pc' = [c \in Searches |-> IF frame[c].at = p THEN "idle" ELSE pc[c]]
  /\ frame' = [c \in Searches |-> IF frame[c].at = p THEN NoFrame ELSE frame[c]]
  /\ UNCHANGED <<day, seeded, cache, home>>

-----------------------------------------------------------------------------
(* The home page *)

Goto(c, step) == pc' = [pc EXCEPT ![c] = step]

Return(c) ==
  /\ Goto(c, "idle")
  /\ frame' = [frame EXCEPT ![c] = NoFrame]

(* The effect on a change of route or date.  Nothing cancels the search     *)
(* that is still in flight.                                                 *)
Search(c, b, key) ==
  /\ pc[c] = "idle"
  /\ Goto(c, "asked")
  /\ frame' = [frame EXCEPT ![c] = [NoFrame EXCEPT !.browser = b, !.key = key]]

(* GET /trains/meta: the days of the process, not of today.                 *)
trainsMeta(p) == bookableDates(proc[p].base)

(* handleLogin: the login, which is in Token, has been answered, and        *)
(* trainsMeta is called.  A login that fails changes nothing.               *)
LogIn(b) ==
  /\ \E p \in Processes : Up(p)
  /\ home[b].login = "out"
  /\ home' = [home EXCEPT ![b].login = "meta"]
  /\ UNCHANGED <<day, proc, seeded, cache, searches>>

(* Its answer selects the first route and the first date.                   *)
Meta(c, b, p) ==
  LET first == [route |-> CHOOSE r \in Routes : TRUE, date |-> proc[p].base] IN
  /\ Up(p)
  /\ home[b].login = "meta"
  /\ home' = [home EXCEPT ![b].login = "in", ![b].dates = trainsMeta(p),
                          ![b].selected = first]
  /\ Search(c, b, first)
  /\ UNCHANGED <<day, proc, seeded, cache>>

(* It fails: logged in, with nothing to choose from until a reload.         *)
MetaFail(b) ==
  /\ home[b].login = "meta"
  /\ home' = [home EXCEPT ![b].login = "in"]
  /\ UNCHANGED <<day, proc, seeded, cache, searches>>

Select(c, b, key) ==
  /\ key.date \in home[b].dates
  /\ key # home[b].selected
  /\ home' = [home EXCEPT ![b].selected = key]
  /\ Search(c, b, key)
  /\ UNCHANGED <<day, proc, seeded, cache>>

\* Mutated form: an answer goes to whatever the browser shows by then.
Left_Shared(b) == UNCHANGED frame

(* The page is left: what is still to be answered goes nowhere.             *)
Left(b) ==
  frame' = [c \in Searches |-> IF frame[c].browser = b
                               THEN [frame[c] EXCEPT !.browser = None] ELSE frame[c]]

(* To the queue with this train, and at some time back to the login.        *)
SelectTrain(b, t) ==
  /\ t \in home[b].trains
  /\ home' = [home EXCEPT ![b] = [LoginPage EXCEPT !.trainId = t]]
  /\ Left(b)
  /\ UNCHANGED <<day, proc, seeded, cache, pc>>

Reload(b) ==
  /\ home[b].login # "out"
  /\ home' = [home EXCEPT ![b] = [LoginPage EXCEPT !.trainId = home[b].trainId]]
  /\ Left(b)
  /\ UNCHANGED <<day, proc, seeded, cache, pc>>

-----------------------------------------------------------------------------
(* searchTrains at one of the processes                                     *)

SearchGet(c, p) ==
  LET hit == cache[frame[c].key] IN
  /\ pc[c] = "asked" /\ Up(p)
  /\ \/ /\ hit.there
        /\ Goto(c, "answered")
        /\ frame' = [frame EXCEPT ![c].at = p, ![c].trains = hit.trains]
     \/ /\ ~hit.there
        /\ Goto(c, "set")
        /\ frame' = [frame EXCEPT ![c].at = p,
                       ![c].trains = findTrains(proc[p].base, frame[c].key)]
  /\ UNCHANGED <<day, proc, seeded, cache, home>>

\* Mutated form: SET without a lifetime.
CacheEntry_Forever(found) == [there |-> TRUE, trains |-> found, expires |-> FALSE]
CacheEntry(found) == [there |-> TRUE, trains |-> found, expires |-> TRUE]

(* An empty list is kept like any other.                                    *)
SearchSet(c) ==
  /\ pc[c] = "set"
  /\ cache' = [cache EXCEPT ![frame[c].key] = CacheEntry(frame[c].trains)]
  /\ Goto(c, "answered")
  /\ UNCHANGED <<day, proc, seeded, home, frame>>

(* setTrains, whatever is selected by now.                                  *)
SearchAnswer(c) ==
  /\ pc[c] = "answered"
  /\ home' = [b \in Browsers |-> IF b = frame[c].browser
                THEN [home[b] EXCEPT !.trains = frame[c].trains] ELSE home[b]]
  /\ Return(c)
  /\ UNCHANGED <<day, proc, seeded, cache>>

(* A call to Redis throws, or the connection is lost: the page shows the    *)
(* error and keeps its list.                                                *)
SearchFail(c) ==
  /\ pc[c] # "idle"
  /\ Return(c)
  /\ UNCHANGED <<day, proc, seeded, cache, home>>

-----------------------------------------------------------------------------
Expire(key) ==
  /\ cache[key].there /\ cache[key].expires
  /\ cache' = [cache EXCEPT ![key] = NoList]
  /\ UNCHANGED <<day, proc, seeded, home, searches>>

Midnight ==
  /\ day < MaxDay
  /\ day' = day + 1
  /\ UNCHANGED <<proc, seeded, cache, home, searches>>

-----------------------------------------------------------------------------
Init ==
  /\ day = 0
  /\ proc = [p \in Processes |-> Down]
  /\ seeded = {}
  /\ cache = [key \in Trains |-> NoList]
  /\ home = [b \in Browsers |-> LoginPage]
  /\ pc = [c \in Searches |-> "idle"]
  /\ frame = [c \in Searches |-> NoFrame]

Run(p) == Boot(p) \/ SeedBatch(p) \/ Listen(p) \/ Stop(p)

Browse(b) ==
  \/ LogIn(b) \/ MetaFail(b)
  \/ \E c \in Searches : \/ \E p \in Processes : Meta(c, b, p)
                         \/ \E key \in Trains : Select(c, b, key)
  \/ \E t \in Trains : SelectTrain(b, t)
  \/ Reload(b)

Serve(c) == (\E p \in Processes : SearchGet(c, p)) \/ SearchSet(c) \/ SearchAnswer(c)

Next ==
  \/ \E p \in Processes : Run(p)
  \/ \E b \in Browsers : Browse(b)
  \/ \E c \in Searches : Serve(c) \/ SearchFail(c)
  \/ \E key \in Trains : Expire(key)
  \/ Midnight

Spec == Init /\ [][Next]_vars

(* Redis drops keys at the end of their lifetime, Node runs what it has     *)
(* begun.  Nobody has to search, and no process has to start or stop.       *)
Fairness ==
  /\ \A key \in Trains : WF_vars(Expire(key))
  /\ \A c \in Searches : WF_vars(Serve(c))

FairSpec == Spec /\ Fairness

-----------------------------------------------------------------------------
(* Properties *)

(* The types; a process that is up has seeded its trains, a search is at a  *)
(* process that is up from its GET to its answer, and a page shows trains   *)
(* only once it has its dates, and has these only once it is logged in.     *)
TypeOK ==
  /\ day \in 0..MaxDay
  /\ proc \in [Processes -> Process]
  /\ \A p \in Processes : proc[p].unseeded # {} => proc[p].status = "booting"
  /\ seeded \subseteq Trains
  /\ cache \in [Trains -> Cached]
  /\ home \in [Browsers -> HomePage]
  /\ \A b \in Browsers : /\ home[b].dates = {} => home[b].trains = {}
                         /\ home[b].dates # {} => home[b].login = "in"
  /\ pc \in [Searches -> {"idle", "asked", "set", "answered"}]
  /\ frame \in [Searches -> Frame]
  /\ \A c \in Searches : IF pc[c] \in {"set", "answered"}
                         THEN frame[c].at # None /\ Up(frame[c].at)
                         ELSE frame[c].at = None

(* The trains a user may come to: on its page, on the way to it, in the     *)
(* cache, and the one it has gone to the queue with.                        *)
OnOffer ==
  (UNION {home[b].trains : b \in Browsers})
    \cup (UNION {frame[c].trains : c \in Searches})
    \cup (UNION {cache[key].trains : key \in Trains})
    \cup ({home[b].trainId : b \in Browsers} \ {NoKey})

(* Every train on offer anywhere has its seats: also one from the cache of  *)
(* a process that has gone, shown by one that does not know the train.      *)
OnOfferHasSeats == OnOffer \subseteq seeded

(* A process booted before midnight does not know the last day that one     *)
(* booted after it offers, and caches an empty list for both.  Once only    *)
(* processes that know the train are left, the empty list goes for good.    *)
Knows(key) == \A p \in Processes : Up(p) => key \in generateTrains(proc[p].base)

EmptyListGoes ==
  \A key \in Trains :
    <>[]Knows(key) => <>[](cache[key].there => cache[key].trains # {})

=============================================================================

---------------------------- MODULE CatalogProofs ----------------------------
(***************************************************************************)
(* Theorems about Catalog, for any routes, processes, browsers, searches   *)
(* and number of days. A step keeps the parts of the state it assigns: the *)
(* processes (Running), the pages (Pages) and the searches (Calls), and    *)
(* each part has the lemmas of the actions that disturb it.                *)
(***************************************************************************)
EXTENDS Catalog, TLAPS

-----------------------------------------------------------------------------
(* Typing: TypeOK, and what it does not say and its own preservation needs *)

(* A search was taken by a process that is up from the read of the cache on. *)
InFlight ==
  \A c \in Searches : IF pc[c] \in {"set", "answered"}
                      THEN frame[c].at # None /\ Up(frame[c].at)
                      ELSE frame[c].at = None

(* A search in flight asks for a train of the timetable. *)
Asked == \A c \in Searches : pc[c] # "idle" => frame[c].key \in Trains

(* A page that waits for an answer has its dates. *)
Waiting == \A c \in Searches, b \in Browsers : frame[c].browser = b => home[b].dates # {}

Types == TypeOK /\ Asked

(* The days and the trains of a process started on day base. *)
LEMMA Days ==
  ASSUME NEW base \in 0..MaxDay
  PROVE  /\ bookableDates(base) \subseteq Dates /\ bookableDates(base) # {}
         /\ generateTrains(base) \subseteq Trains
         /\ \A r \in Routes : [route |-> r, date |-> base] \in Trains
         /\ \A key : findTrains(base, key) \subseteq generateTrains(base)
<1>1. bookableDates(base) \subseteq Dates /\ base \in bookableDates(base)
  BY DayAssumption DEF bookableDates, Dates
<1>2. QED BY <1>1 DEF generateTrains, Trains, findTrains

(* The constant records. *)
LEMMA Records ==
  /\ Down \in Process /\ Down.status = "down" /\ Down.unseeded = {}
  /\ NoList \in Cached /\ NoList.trains = {}
  /\ NoFrame \in Frame /\ NoFrame.at = None /\ NoFrame.trains = {} /\ NoFrame.browser = None
  /\ LoginPage \in HomePage /\ LoginPage.dates = {} /\ LoginPage.trains = {}
  /\ LoginPage.login = "out"
  /\ LoginPage.trainId = NoKey
<1>1. 0 \in 0..MaxDay
  BY DayAssumption
<1>2. QED BY <1>1 DEF Down, Process, NoList, Cached, NoFrame, Frame, LoginPage, HomePage

(* What the updates of a search and of a process do. *)
LEMMA FrameRecords ==
  ASSUME NEW f \in Frame
  PROVE  /\ \A b \in Browsers, key \in Trains :
              LET g == [NoFrame EXCEPT !.browser = b, !.key = key] IN
              g \in Frame /\ g.at = None /\ g.trains = {} /\ g.browser = b /\ g.key = key
         /\ \A p \in Processes, ts \in SUBSET Trains :
              LET g == [f EXCEPT !.at = p, !.trains = ts] IN
              g \in Frame /\ g.at = p /\ g.trains = ts /\ g.key = f.key
         /\ LET g == [f EXCEPT !.browser = None] IN
              g \in Frame /\ g.at = f.at /\ g.trains = f.trains /\ g.key = f.key
BY Records DEF Frame, NoFrame

LEMMA ProcessRecords ==
  ASSUME NEW q \in Process
  PROVE  /\ \A ts \in SUBSET Trains :
              LET g == [q EXCEPT !.unseeded = ts] IN
              g \in Process /\ g.status = q.status /\ g.base = q.base /\ g.unseeded = ts
         /\ LET g == [q EXCEPT !.status = "up", !.unseeded = {}] IN
              g \in Process /\ g.status = "up" /\ g.base = q.base /\ g.unseeded = {}
BY DEF Process

LEMMA InitTypes == Init => TypeOK
BY Records, DayAssumption DEF Init, TypeOK

(* The parts of Types that an action disturbs one by one. *)
Pages ==
  /\ home \in [Browsers -> HomePage]
  /\ \A b \in Browsers : /\ home[b].dates = {} => home[b].trains = {}
                         /\ home[b].dates # {} => home[b].login = "in"

Running ==
  /\ proc \in [Processes -> Process]
  /\ \A p \in Processes : proc[p].unseeded # {} => proc[p].status = "booting"

Calls ==
  /\ pc \in [Searches -> {"idle", "asked", "set", "answered"}]
  /\ frame \in [Searches -> Frame]
  /\ InFlight /\ Asked

LEMMA Parts ==
  Types <=> /\ day \in 0..MaxDay /\ seeded \subseteq Trains
             /\ cache \in [Trains -> Cached]
             /\ Running /\ Pages /\ Calls
BY DEF Types, TypeOK, Running, Pages, Calls, InFlight

LEMMA ReturnTypes ==
  ASSUME Calls, NEW c \in Searches, Return(c), UNCHANGED proc
  PROVE  Calls'
BY Records DEF Return, Goto, Calls, InFlight, Asked, Up

LEMMA SearchTypes ==
  ASSUME Calls, NEW c \in Searches, NEW b \in Browsers, NEW key \in Trains,
         Search(c, b, key), UNCHANGED proc
  PROVE  Calls'
<1> DEFINE g == [NoFrame EXCEPT !.browser = b, !.key = key]
<1>1. g \in Frame /\ g.at = None /\ g.key = key
  BY NoneAssumption DEF NoFrame, Frame
<1>2. frame' = [frame EXCEPT ![c] = g] /\ pc' = [pc EXCEPT ![c] = "asked"]
  BY DEF Search, Goto
<1> HIDE DEF g
<1>3. QED BY <1>1, <1>2 DEF Calls, InFlight, Asked, Up

LEMMA LeftTypes ==
  ASSUME Calls, NEW b \in Browsers, Left(b), UNCHANGED <<pc, proc>>
  PROVE  /\ Calls'
         /\ \A c \in Searches : frame'[c].trains = frame[c].trains
<1>1. ASSUME NEW c \in Searches
      PROVE  frame'[c] \in Frame /\ frame'[c].at = frame[c].at /\ frame'[c].key = frame[c].key
             /\ frame'[c].trains = frame[c].trains
  <2>1. CASE frame[c].browser = b
    BY <2>1, FrameRecords DEF Left, Calls
  <2>2. CASE frame[c].browser # b
    BY <2>2 DEF Left, Calls
  <2>3. QED BY <2>1, <2>2
<1>2. frame' \in [Searches -> Frame]
  BY <1>1 DEF Left
<1>3. QED BY <1>1, <1>2 DEF Calls, InFlight, Asked, Up

LEMMA RunTypes ==
  ASSUME Types, NEW p \in Processes, Run(p)
  PROVE  Types'
<1>1. CASE Boot(p)
  <2> DEFINE q == [status |-> "booting", base |-> day, unseeded |-> generateTrains(day)]
  <2>1. q \in Process /\ q.status = "booting"
    BY Days DEF Types, TypeOK, Process
  <2>2. proc' = [proc EXCEPT ![p] = q]
    BY <1>1 DEF Boot
  <2> HIDE DEF q
  <2>3. Running'
    BY <2>1, <2>2 DEF Types, TypeOK, Running
  <2>4. Calls'
    BY <1>1, <2>2 DEF Boot, searches, Types, TypeOK, Calls, InFlight, Asked, Up, Frame
  <2>5. QED BY <1>1, <2>3, <2>4
               DEF Boot, Types, TypeOK, Pages, Running, Calls, InFlight, Asked
<1>2. CASE SeedBatch(p)
  <2>1. PICK t \in proc[p].unseeded :
          /\ seeded' = seeded \cup {t}
          /\ proc' = [proc EXCEPT ![p].unseeded = @ \ {t}]
    BY <1>2 DEF SeedBatch
  <2> DEFINE q == [proc[p] EXCEPT !.unseeded = proc[p].unseeded \ {t}]
  <2>2. q \in Process /\ q.status = proc[p].status /\ proc[p].status = "booting"
        /\ t \in Trains
    <3>1. proc[p] \in Process /\ proc[p].unseeded \subseteq Trains
      BY DEF Types, TypeOK, Process
    <3>2. QED BY <1>2, <3>1, ProcessRecords DEF SeedBatch
  <2>3. proc' = [proc EXCEPT ![p] = q]
    BY <2>1
  <2> HIDE DEF q
  <2>4. Running'
    BY <2>2, <2>3 DEF Types, TypeOK, Running
  <2>5. Calls'
    BY <1>2, <2>2, <2>3
       DEF SeedBatch, searches, Types, TypeOK, Calls, InFlight, Asked, Up, Frame
  <2>6. seeded' \subseteq Trains
    BY <2>1, <2>2 DEF Types, TypeOK
  <2>7. QED BY <1>2, <2>4, <2>5, <2>6
               DEF SeedBatch, Types, TypeOK, Pages, Running, Calls, InFlight, Asked
<1>3. CASE Listen(p)
  <2> DEFINE q == [proc[p] EXCEPT !.status = "up", !.unseeded = {}]
  <2>1. q \in Process /\ q.status = "up" /\ q.unseeded = {}
    BY ProcessRecords DEF Types, TypeOK
  <2>2. proc' = [proc EXCEPT ![p] = q]
    BY <1>3 DEF Listen
  <2> HIDE DEF q
  <2>3. Running'
    BY <2>1, <2>2 DEF Types, TypeOK, Running
  <2>4. Calls'
    BY <1>3, <2>1, <2>2
       DEF Listen, searches, Types, TypeOK, Calls, InFlight, Asked, Up, Frame
  <2>5. QED BY <1>3, <2>3, <2>4
               DEF Listen, Types, TypeOK, Pages, Running, Calls, InFlight, Asked
<1>4. CASE Stop(p)
  <2>1. Running'
    BY <1>4, Records DEF Stop, Types, TypeOK, Running
  <2>2. Calls'
    BY <1>4, Records DEF Stop, Types, TypeOK, Calls, InFlight, Asked, Up, Frame
  <2>3. QED BY <1>4, <2>1, <2>2
               DEF Stop, Types, TypeOK, Pages, Running, Calls, InFlight, Asked
<1>5. QED BY <1>1, <1>2, <1>3, <1>4 DEF Run

(* What trainsMeta reads of the process that answers it. *)
LEMMA FirstTrain ==
  ASSUME Types, NEW p \in Processes
  PROVE  /\ [route |-> CHOOSE r \in Routes : TRUE, date |-> proc[p].base] \in Trains
         /\ trainsMeta(p) \subseteq Dates /\ trainsMeta(p) # {}
<1>1. proc[p].base \in 0..MaxDay
  BY DEF Types, TypeOK, Process
<1>2. (CHOOSE r \in Routes : TRUE) \in Routes
  BY RouteAssumption
<1>3. QED BY <1>1, <1>2, Days DEF trainsMeta

LEMMA BrowseTypes ==
  ASSUME Types, NEW b \in Browsers, Browse(b)
  PROVE  Types'
<1>0. home[b] \in HomePage /\ home[b].trains \subseteq Trains
      /\ home[b].trainId \in Trains \cup {NoKey}
  BY DEF Types, TypeOK, HomePage
<1>1. ASSUME NEW c \in Searches, NEW p \in Processes, Meta(c, b, p)
      PROVE  Types'
  <2> DEFINE first == [route |-> CHOOSE r \in Routes : TRUE, date |-> proc[p].base]
             h == [home[b] EXCEPT !.login = "in", !.dates = trainsMeta(p), !.selected = first]
  <2>1. first \in Trains /\ trainsMeta(p) \subseteq Dates
    BY FirstTrain
  <2>2. home' = [home EXCEPT ![b] = h] /\ Search(c, b, first)
    BY <1>1 DEF Meta
  <2>3. h \in HomePage /\ h.login = "in" /\ h.dates # {}
    <3> HIDE DEF first
    <3>1. QED BY <1>0, <2>1, FirstTrain DEF HomePage
  <2> HIDE DEF first, h
  <2>4. Pages'
    BY <2>2, <2>3 DEF Types, TypeOK, Pages
  <2>5. Calls'
    BY <1>1, <2>1, <2>2, SearchTypes, Parts DEF Meta
  <2>6. QED BY <1>1, <2>4, <2>5
               DEF Meta, Running, Types, TypeOK, Pages, Calls, InFlight, Asked
<1>7. ASSUME LogIn(b) \/ MetaFail(b)
      PROVE  Types'
  <2>1. home[b].dates = {}
    BY <1>7 DEF LogIn, MetaFail, Types, TypeOK
  <2>2. PICK step \in {"meta", "in"} : home' = [home EXCEPT ![b].login = step]
    BY <1>7 DEF LogIn, MetaFail
  <2> DEFINE h == [home[b] EXCEPT !.login = step]
  <2>3. h \in HomePage /\ h.dates = home[b].dates /\ h.trains = home[b].trains
    BY <1>0 DEF HomePage
  <2>4. home' = [home EXCEPT ![b] = h]
    BY <2>2
  <2> HIDE DEF h
  <2>5. Pages'
    BY <2>1, <2>3, <2>4 DEF Types, TypeOK, Pages
  <2>6. QED BY <1>7, <2>5
               DEF LogIn, MetaFail, searches, Running, Types, TypeOK, Pages, Asked, Up
<1>2. ASSUME NEW c \in Searches, NEW key \in Trains, Select(c, b, key)
      PROVE  Types'
  <2> DEFINE h == [home[b] EXCEPT !.selected = key]
  <2>1. /\ h \in HomePage /\ h.dates = home[b].dates /\ h.trains = home[b].trains
        /\ h.login = home[b].login
    BY <1>0 DEF HomePage
  <2>2. home' = [home EXCEPT ![b] = h]
    BY <1>2 DEF Select
  <2> HIDE DEF h
  <2>3. Pages'
    BY <2>1, <2>2 DEF Types, TypeOK, Pages
  <2>4. Calls'
    BY <1>2, SearchTypes, Parts DEF Select
  <2>5. QED BY <1>2, <2>3, <2>4
               DEF Select, Running, Types, TypeOK, Pages, Calls, InFlight, Asked
<1>3. ASSUME NEW t \in Trains \cup {NoKey},
             home' = [home EXCEPT ![b] = [LoginPage EXCEPT !.trainId = t]],
             Left(b), UNCHANGED <<day, proc, seeded, cache, pc>>
      PROVE  Types'
  <2> DEFINE h == [LoginPage EXCEPT !.trainId = t]
  <2>1. h \in HomePage /\ h.trains = {} /\ h.dates = {}
    BY Records DEF HomePage, LoginPage
  <2>2. home' = [home EXCEPT ![b] = h]
    BY <1>3
  <2> HIDE DEF h
  <2>3. Pages'
    BY <2>1, <2>2 DEF Types, TypeOK, Pages
  <2>4. Calls'
    BY <1>3, LeftTypes, Parts
  <2>5. QED BY <1>3, <2>3, <2>4
               DEF Running, Types, TypeOK, Pages, Calls, InFlight, Asked
<1>4. ASSUME NEW t \in Trains, SelectTrain(b, t)
      PROVE  Types'
  BY <1>3, <1>4 DEF SelectTrain
<1>5. ASSUME Reload(b)
      PROVE  Types'
  BY <1>0, <1>3, <1>5 DEF Reload
<1>6. QED BY <1>1, <1>2, <1>4, <1>5, <1>7 DEF Browse

LEMMA ServeTypes ==
  ASSUME Types, Waiting, NEW c \in Searches, Serve(c) \/ SearchFail(c)
  PROVE  Types'
<1>0. frame[c] \in Frame /\ frame[c].trains \in SUBSET Trains /\ frame[c].key \in Trains
  BY DEF Types, TypeOK, Asked, Frame, Serve, SearchGet, SearchSet, SearchAnswer,
         SearchFail
<1>1. ASSUME NEW p \in Processes, SearchGet(c, p)
      PROVE  Types'
  <2> DEFINE key == frame[c].key
  <2>1. /\ cache[key].trains \in SUBSET Trains
        /\ findTrains(proc[p].base, key) \in SUBSET Trains
    BY <1>0, Days DEF Types, TypeOK, Cached, Process
  <2>2. PICK found \in SUBSET Trains, step \in {"set", "answered"} :
          /\ frame' = [frame EXCEPT ![c].at = p, ![c].trains = found]
          /\ Goto(c, step)
    BY <1>1, <2>1 DEF SearchGet
  <2> DEFINE g == [frame[c] EXCEPT !.at = p, !.trains = found]
  <2>3. g \in Frame /\ g.at = p /\ g.key = key
    BY <1>0 DEF Frame
  <2>4. frame' = [frame EXCEPT ![c] = g]
    BY <2>2 DEF Types, TypeOK
  <2> HIDE DEF g
  <2>5. Calls'
    BY <1>1, <1>0, <2>2, <2>3, <2>4, NoneAssumption
       DEF SearchGet, Goto, Types, TypeOK, Calls, InFlight, Asked, Up
  <2>6. QED BY <1>1, <2>5
               DEF SearchGet, Types, TypeOK, Running, Pages, Calls, InFlight, Asked
<1>2. CASE SearchSet(c)
  <2>1. CacheEntry(frame[c].trains) \in Cached
    BY <1>0 DEF CacheEntry, Cached
  <2>2. cache' \in [Trains -> Cached]
    BY <1>2, <2>1 DEF SearchSet, Types, TypeOK
  <2>3. Calls'
    BY <1>2 DEF SearchSet, Goto, Types, TypeOK, Calls, InFlight, Asked, Up
  <2>4. QED BY <1>2, <2>2, <2>3
            DEF SearchSet, Types, TypeOK, Running, Pages, Calls, InFlight, Asked
<1>3. CASE SearchAnswer(c)
  <2>1. ASSUME NEW b \in Browsers
        PROVE  /\ home'[b] \in HomePage
               /\ home'[b].dates = {} => home'[b].trains = {}
               /\ home'[b].dates # {} => home'[b].login = "in"
    <3> DEFINE h == [home[b] EXCEPT !.trains = frame[c].trains]
    <3>1. h \in HomePage /\ h.dates = home[b].dates /\ h.login = home[b].login
      BY <1>0 DEF Types, TypeOK, HomePage
    <3>2. home'[b] = IF b = frame[c].browser THEN h ELSE home[b]
      BY <1>3 DEF SearchAnswer
    <3> HIDE DEF h
    <3>3. QED BY <3>1, <3>2 DEF Types, TypeOK, Waiting
  <2>2. Calls'
    BY <1>3, ReturnTypes, Parts DEF SearchAnswer
  <2>3. QED BY <1>3, <2>1, <2>2
            DEF SearchAnswer, Types, TypeOK, Running, Pages, Calls, InFlight, Asked
<1>4. CASE SearchFail(c)
  <2>1. Calls'
    BY <1>4, ReturnTypes, Parts DEF SearchFail
  <2>2. QED BY <1>4, <2>1
            DEF SearchFail, Types, TypeOK, Running, Pages, Calls, InFlight, Asked
<1>5. QED BY <1>1, <1>2, <1>3, <1>4 DEF Serve

LEMMA OtherTypes ==
  ASSUME Types, (\E key \in Trains : Expire(key)) \/ Midnight
  PROVE  Types'
<1>1. ASSUME NEW key \in Trains, Expire(key)
      PROVE  Types'
  BY <1>1, Records DEF Expire, searches, Types, TypeOK, Asked, Up
<1>2. CASE Midnight
  BY <1>2, DayAssumption DEF Midnight, searches, Types, TypeOK, Asked, Up
<1>3. QED BY <1>1, <1>2

LEMMA TypesStep ==
  ASSUME Types, Waiting, [Next]_vars
  PROVE  Types'
<1>1. CASE UNCHANGED vars
  BY <1>1 DEF vars, searches, Types, TypeOK, Asked, Up
<1>2. CASE Next
  BY <1>2, RunTypes, BrowseTypes, ServeTypes, OtherTypes DEF Next
<1>3. QED BY <1>1, <1>2

-----------------------------------------------------------------------------
(* Who waits for an answer *)

LEMMA WaitingStep ==
  ASSUME Types, Waiting, [Next]_vars
  PROVE  Waiting'
<1>0. \A b \in Browsers : b # None
  BY NoneAssumption
<1>1. ASSUME NEW p \in Processes, Run(p)
      PROVE  Waiting'
  BY <1>0, <1>1, Records
     DEF Run, Boot, SeedBatch, Listen, Stop, searches, Waiting, Types, TypeOK
<1>0a. ASSUME NEW b \in Browsers, LogIn(b) \/ MetaFail(b)
       PROVE  Waiting'
  <2>1. \A a \in Browsers : home'[a].dates = home[a].dates
    BY <1>0a DEF LogIn, MetaFail, Types, TypeOK, HomePage
  <2>2. QED BY <1>0a, <2>1 DEF LogIn, MetaFail, searches, Waiting
<1>2. ASSUME NEW b \in Browsers, NEW c \in Searches, NEW p \in Processes, Meta(c, b, p)
      PROVE  Waiting'
  <2>1. \A a \in Browsers : home[a].dates # {} => home'[a].dates # {}
    BY <1>2, FirstTrain DEF Meta, Types, TypeOK, HomePage
  <2>2. home'[b].dates # {}
    BY <1>2, FirstTrain DEF Meta, Types, TypeOK, HomePage
  <2>3. \A d \in Searches : frame'[d].browser \in {b, frame[d].browser}
    BY <1>2 DEF Meta, Search, Types, TypeOK, NoFrame
  <2>4. QED BY <2>1, <2>2, <2>3 DEF Waiting
<1>3. ASSUME NEW b \in Browsers, NEW c \in Searches, NEW key \in Trains, Select(c, b, key)
      PROVE  Waiting'
  <2>1. \A a \in Browsers : home'[a].dates = home[a].dates
    BY <1>3 DEF Select, Types, TypeOK, HomePage
  <2>2. home[b].dates # {}
    BY <1>3 DEF Select
  <2>3. \A d \in Searches : frame'[d].browser \in {b, frame[d].browser}
    BY <1>3 DEF Select, Search, Types, TypeOK, NoFrame
  <2>4. QED BY <2>1, <2>2, <2>3 DEF Waiting
<1>4. ASSUME NEW b \in Browsers, Left(b),
             \A a \in Browsers \ {b} : home'[a] = home[a]
      PROVE  Waiting'
  <2>1. \A d \in Searches : frame'[d].browser = IF frame[d].browser = b THEN None
                                                ELSE frame[d].browser
    BY <1>4 DEF Left, Types, TypeOK, Frame
  <2>2. QED BY <1>0, <1>4, <2>1 DEF Waiting
<1>5. ASSUME NEW b \in Browsers, (\E t \in Trains : SelectTrain(b, t)) \/ Reload(b)
      PROVE  Waiting'
  BY <1>4, <1>5 DEF SelectTrain, Reload, Types, TypeOK
<1>6. ASSUME NEW c \in Searches, NEW p \in Processes, SearchGet(c, p)
      PROVE  Waiting'
  <2>1. \A d \in Searches : frame'[d].browser = frame[d].browser
    BY <1>6 DEF SearchGet, Types, TypeOK, Frame
  <2>2. QED BY <1>6, <2>1 DEF SearchGet, Waiting
<1>7. ASSUME NEW c \in Searches, SearchSet(c)
      PROVE  Waiting'
  BY <1>7 DEF SearchSet, Waiting
<1>8. ASSUME NEW c \in Searches, SearchAnswer(c)
      PROVE  Waiting'
  <2>1. \A a \in Browsers : home'[a].dates = home[a].dates
    BY <1>8 DEF SearchAnswer, Types, TypeOK, HomePage
  <2>2. QED BY <1>0, <1>8, <2>1, Records
               DEF SearchAnswer, Return, Waiting, Types, TypeOK
<1>9. ASSUME NEW c \in Searches, SearchFail(c)
      PROVE  Waiting'
  BY <1>0, <1>9, Records DEF SearchFail, Return, Waiting, Types, TypeOK
<1>10. ASSUME UNCHANGED <<home, frame>>
       PROVE  Waiting'
  BY <1>10 DEF Waiting
<1>11. QED
  BY <1>0a, <1>1, <1>2, <1>3, <1>5, <1>6, <1>7, <1>8, <1>9, <1>10
     DEF Next, Browse, Serve, Expire, Midnight, vars, searches

-----------------------------------------------------------------------------
(* Seeds and offers *)

(* What a running process sells is in the seat store or still to be seeded. *)
Seeds == \A p \in Processes : proc[p].status # "down" =>
           generateTrains(proc[p].base) \subseteq seeded \cup proc[p].unseeded

(* Every train in a page, in an answer on its way or in the cache is seeded. *)
Offered ==
  /\ \A b \in Browsers : home[b].trains \subseteq seeded
                        /\ home[b].trainId \in seeded \cup {NoKey}
  /\ \A c \in Searches : frame[c].trains \subseteq seeded
  /\ \A key \in Trains : cache[key].trains \subseteq seeded

LEMMA SeedsStep ==
  ASSUME Types, Seeds, [Next]_vars
  PROVE  Seeds' /\ seeded \subseteq seeded'
<1>1. ASSUME NEW p \in Processes, Boot(p)
      PROVE  Seeds'
  BY <1>1 DEF Boot, Seeds, Types, TypeOK, Process
<1>2. ASSUME NEW p \in Processes, SeedBatch(p)
      PROVE  Seeds'
  <2>1. PICK t \in proc[p].unseeded :
          /\ seeded' = seeded \cup {t}
          /\ proc' = [proc EXCEPT ![p].unseeded = @ \ {t}]
    BY <1>2 DEF SeedBatch
  <2>2. \A q \in Processes : /\ proc'[q].status = proc[q].status
                             /\ proc'[q].base = proc[q].base
                             /\ proc[q].unseeded \subseteq proc'[q].unseeded \cup {t}
    BY <2>1 DEF Types, TypeOK, Process
  <2>3. QED BY <2>1, <2>2 DEF Seeds
<1>3. ASSUME NEW p \in Processes, Listen(p)
      PROVE  Seeds'
  <2>1. \A q \in Processes : /\ proc'[q].status # "down" => proc[q].status # "down"
                             /\ proc'[q].base = proc[q].base
                             /\ proc'[q].unseeded = proc[q].unseeded
    BY <1>3 DEF Listen, MayListen, Types, TypeOK, Process
  <2>2. QED BY <1>3, <2>1 DEF Listen, Seeds
<1>4. ASSUME NEW p \in Processes, Stop(p)
      PROVE  Seeds'
  BY <1>4, Records DEF Stop, Seeds, Types, TypeOK
<1>5. ASSUME UNCHANGED <<proc, seeded>>
      PROVE  Seeds'
  BY <1>5 DEF Seeds
<1>6. seeded \subseteq seeded'
  BY DEF Next, Run, Boot, SeedBatch, Listen, Stop, Browse, LogIn, Meta, MetaFail, Select, SelectTrain,
         Reload,
         Serve, SearchGet, SearchSet, SearchAnswer, SearchFail, Expire, Midnight, vars
<1>7. QED
  BY <1>1, <1>2, <1>3, <1>4, <1>5, <1>6
     DEF Next, Run, Browse, LogIn, Meta, MetaFail, Select, SelectTrain, Reload,
         Serve, SearchGet, SearchSet, SearchAnswer, SearchFail, Expire, Midnight, vars

LEMMA OfferedStep ==
  ASSUME Types, Seeds, Offered, [Next]_vars
  PROVE  Offered'
<1>0. seeded \subseteq seeded'
  BY SeedsStep
<1>1. ASSUME NEW p \in Processes, Run(p)
      PROVE  Offered'
  BY <1>0, <1>1, Records
     DEF Run, Boot, SeedBatch, Listen, Stop, searches, Offered, Types, TypeOK
<1>2. ASSUME NEW b \in Browsers, NEW c \in Searches, NEW key \in Trains, Search(c, b, key),
             \A a \in Browsers : home'[a].trains = home[a].trains
                               /\ home'[a].trainId = home[a].trainId,
             UNCHANGED <<seeded, cache>>
      PROVE  Offered'
  <2>1. \A d \in Searches : frame'[d].trains \in {{}, frame[d].trains}
    BY <1>2 DEF Search, NoFrame, Types, TypeOK
  <2>2. QED BY <1>2, <2>1 DEF Offered
<1>13. ASSUME NEW b \in Browsers, LogIn(b) \/ MetaFail(b)
       PROVE  Offered'
  <2>1. \A a \in Browsers : home'[a].trains = home[a].trains
                          /\ home'[a].trainId = home[a].trainId
    BY <1>13 DEF LogIn, MetaFail, Types, TypeOK, HomePage
  <2>2. QED BY <1>13, <2>1 DEF LogIn, MetaFail, searches, Offered
<1>3. ASSUME NEW b \in Browsers, NEW c \in Searches, NEW p \in Processes, Meta(c, b, p)
      PROVE  Offered'
  <2>1. \A a \in Browsers : home'[a].trains = home[a].trains
                          /\ home'[a].trainId = home[a].trainId
    BY <1>3 DEF Meta, Types, TypeOK, HomePage
  <2>2. QED BY <1>2, <1>3, <2>1, FirstTrain DEF Meta
<1>4. ASSUME NEW b \in Browsers, NEW c \in Searches, NEW key \in Trains, Select(c, b, key)
      PROVE  Offered'
  <2>1. \A a \in Browsers : home'[a].trains = home[a].trains
                          /\ home'[a].trainId = home[a].trainId
    BY <1>4 DEF Select, Types, TypeOK, HomePage
  <2>2. QED BY <1>2, <1>4, <2>1 DEF Select
<1>5. ASSUME NEW b \in Browsers, NEW t \in seeded \cup {NoKey}, Left(b),
             home' = [home EXCEPT ![b] = [LoginPage EXCEPT !.trainId = t]],
             UNCHANGED <<seeded, cache, pc, proc>>
      PROVE  Offered'
  <2> DEFINE h == [LoginPage EXCEPT !.trainId = t]
  <2>0. h.trains = {} /\ h.trainId = t
    BY DEF LoginPage
  <2>1. \A a \in Browsers : home'[a] = IF a = b THEN h ELSE home[a]
    BY <1>5 DEF Types, TypeOK
  <2> HIDE DEF h
  <2>2. \A d \in Searches : frame'[d].trains = frame[d].trains
    BY <1>5, LeftTypes, Parts
  <2>3. QED BY <1>5, <2>0, <2>1, <2>2 DEF Offered
<1>6. ASSUME NEW b \in Browsers, (\E t \in Trains : SelectTrain(b, t)) \/ Reload(b)
      PROVE  Offered'
  BY <1>5, <1>6 DEF SelectTrain, Reload, Offered
<1>7. ASSUME NEW c \in Searches, NEW p \in Processes, SearchGet(c, p)
      PROVE  Offered'
  <2>1. frame[c].key \in Trains /\ proc[p].base \in 0..MaxDay
        /\ proc[p].status = "up" /\ proc[p].unseeded = {}
    BY <1>7 DEF SearchGet, Up, Types, TypeOK, Asked, Process
  <2>2. findTrains(proc[p].base, frame[c].key) \subseteq seeded
    BY <2>1, Days DEF Seeds
  <2>3. cache[frame[c].key].trains \subseteq seeded
    BY <2>1 DEF Offered
  <2>4. \A d \in Searches : frame'[d].trains \subseteq seeded
    <3>1. PICK found \in SUBSET seeded : frame' = [frame EXCEPT ![c].at = p, ![c].trains = found]
      BY <1>7, <2>2, <2>3 DEF SearchGet
    <3>2. QED BY <3>1 DEF Offered, Types, TypeOK, Frame
  <2>5. QED BY <1>7, <2>4 DEF SearchGet, Offered
<1>8. ASSUME NEW c \in Searches, SearchSet(c)
      PROVE  Offered'
  BY <1>8 DEF SearchSet, CacheEntry, Offered, Types, TypeOK
<1>9. ASSUME NEW c \in Searches, SearchAnswer(c) \/ SearchFail(c)
      PROVE  Offered'
  <2>1. \A a \in Browsers : /\ home'[a].trains \in {home[a].trains, frame[c].trains}
                          /\ home'[a].trainId = home[a].trainId
    BY <1>9 DEF SearchAnswer, SearchFail, Types, TypeOK, HomePage
  <2>2. \A d \in Searches : frame'[d].trains \in {{}, frame[d].trains}
    BY <1>9, Records DEF SearchAnswer, SearchFail, Return, Types, TypeOK
  <2>3. QED BY <1>9, <2>1, <2>2 DEF SearchAnswer, SearchFail, Offered
<1>10. ASSUME NEW key \in Trains, Expire(key)
       PROVE  Offered'
  BY <1>10, Records DEF Expire, searches, Offered, Types, TypeOK
<1>11. ASSUME UNCHANGED <<seeded, cache, home, frame>>
       PROVE  Offered'
  BY <1>11 DEF Offered
<1>12. QED
  BY <1>1, <1>3, <1>4, <1>6, <1>7, <1>8, <1>9, <1>10, <1>11, <1>13
     DEF Next, Browse, Serve, Midnight, vars, searches

-----------------------------------------------------------------------------
(* The theorems *)

(* The inductive invariant. *)
Inv == Types /\ Waiting /\ Seeds /\ Offered

LEMMA Invariant == Spec => []Inv
<1>1. Init => Inv
  BY Records, DayAssumption, NoneAssumption
     DEF Init, Inv, Types, TypeOK, Asked, Waiting, Seeds, Offered
<1>2. Inv /\ [Next]_vars => Inv'
  BY TypesStep, WaitingStep, SeedsStep, OfferedStep DEF Inv
<1>3. QED BY <1>1, <1>2, PTL DEF Spec

(***************************************************************************)
(* The state is well typed whatever the processes, the pages and the       *)
(* midnights do: only a booting process has trains left to seed, a search  *)
(* between its cache read and its answer belongs to a process that is up,  *)
(* and a page that is not logged in lists no train.                        *)
(***************************************************************************)
THEOREM TypeInvariant == Spec => []TypeOK
<1>1. Inv => TypeOK
  BY DEF Inv, Types
<1>2. QED BY Invariant, <1>1, PTL

(***************************************************************************)
(* Any train a page lists, an answer carries, the cache keeps or a user    *)
(* has chosen has its seats in the store. The cached lists outlive the     *)
(* process that found them (trainService.ts), so that this rests on start- *)
(* up: a process listens only when all it sells is seeded (index.ts), and  *)
(* seeded seats stay.                                                      *)
(***************************************************************************)
THEOREM OffersHaveSeats == Spec => []OnOfferHasSeats
<1>1. Inv => OnOfferHasSeats
  <2> SUFFICES ASSUME Inv, NEW t \in OnOffer
               PROVE  t \in seeded
    BY DEF OnOfferHasSeats
  <2>1. \/ \E b \in Browsers : t \in home[b].trains
        \/ \E c \in Searches : t \in frame[c].trains
        \/ \E key \in Trains : t \in cache[key].trains
        \/ \E b \in Browsers : t = home[b].trainId /\ t # NoKey
    BY DEF OnOffer
  <2>2. QED BY <2>1 DEF Inv, Offered
<1>2. QED BY Invariant, <1>1, PTL
=============================================================================

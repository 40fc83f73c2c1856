----------------------------- MODULE RoomProofs ------------------------------
(***************************************************************************)
(* Queue keeps to its limit, for any users, requests and bounds, with as   *)
(* many ticks in flight as there are; where ticks do not overlap and       *)
(* nobody leaves it implements Room. The types, the numbers and the        *)
(* history are in QueueProofs. A tick works on entries it read a while     *)
(* ago, so that what is proved of it is what it may still rely on:         *)
(* LimitInv for those let in, RoomInv for those who wait.                  *)
(***************************************************************************)
EXTENDS QueueProofs, FunctionTheorems

-----------------------------------------------------------------------------
(* The conditions *)

(* One backend, whose tick is over before the next begins.                  *)
OneTick == \E t : Tickers = {t}

(* A user waits for its answers, or at least does not select seats.         *)
Patient == OneRequestPerUser \/ "select" \notin Requests

(* Users wait for their answers, and nobody leaves.                         *)
Polite == OneTick /\ OneRequestPerUser /\ "leave" \notin Requests

-----------------------------------------------------------------------------
(* Counting *)

(* The users let in, the users of entries read, those read as let in.       *)
Inside == {u \in Users : Active(entry[u].state)}
UsersOf(S) == {e.user : e \in S}
ActiveIn(seen) == {e \in seen : Active(e.state)}
AtMostLimit(S) == IsFiniteSet(S) /\ Cardinality(S) <= Limit

OncePerUser(seen) == \A e, f \in seen : e.user = f.user => e = f

LEMMA FewerAtMost ==
  ASSUME NEW S, AtMostLimit(S), NEW T, T \subseteq S
  PROVE  AtMostLimit(T)
<1>1. IsFiniteSet(T) /\ Cardinality(T) <= Cardinality(S)
  BY FS_Subset DEF AtMostLimit
<1>2. Cardinality(T) \in Nat /\ Cardinality(S) \in Nat
  BY <1>1, FS_CardinalityType DEF AtMostLimit
<1>3. QED BY <1>1, <1>2, LimitAssumption DEF AtMostLimit

LEMMA FewUsers ==
  ASSUME NEW S, IsFiniteSet(S)
  PROVE  IsFiniteSet(UsersOf(S)) /\ Cardinality(UsersOf(S)) <= Cardinality(S)
<1> DEFINE f == [e \in S |-> e.user]
<1>1. f \in Surjection(S, UsersOf(S))
  BY DEF Surjection, UsersOf
<1> HIDE DEF f
<1>2. QED BY <1>1, FS_Surjection

LEMMA OneEach ==
  ASSUME NEW S, OncePerUser(S), IsFiniteSet(UsersOf(S))
  PROVE  IsFiniteSet(S) /\ Cardinality(S) <= Cardinality(UsersOf(S))
<1> DEFINE f == [e \in S |-> e.user]
<1>1. f \in [S -> UsersOf(S)] /\ \A d, e \in S : f[d] = f[e] => d = e
  BY DEF UsersOf, OncePerUser
<1>2. f \in Injection(S, UsersOf(S))
  BY <1>1 DEF Injection, IsInjective
<1> HIDE DEF f
<1>3. QED BY <1>2, FS_Injection

(* Numbers are distinct, so that the place of an entry among those that     *)
(* wait tells it from the others: a tick chooses no more than there are     *)
(* slots.                                                                   *)
LEMMA ChosenFew ==
  ASSUME NEW seen \in SUBSET Snapshot, IsFiniteSet(seen),
         \A e, f \in seen : e.number = f.number => e = f
  PROVE  IsFiniteSet(Chosen(seen)) /\ Cardinality(Chosen(seen)) <= Slots(seen)
<1> DEFINE below(e) == {f \in Waiting(seen) : Before(f, e)}
           rank == [e \in Chosen(seen) |-> Cardinality(below(e))]
           k == Slots(seen)
<1>1. k \in Nat
  <2>1. IsFiniteSet(ActiveIn(seen))
    BY FS_Subset DEF ActiveIn
  <2>2. Cardinality(ActiveIn(seen)) \in Nat
    BY <2>1, FS_CardinalityType
  <2>3. QED BY <2>2, LimitAssumption DEF Slots, ActiveIn
<1>2. Chosen(seen) \subseteq Waiting(seen) /\ Waiting(seen) \subseteq seen
  BY DEF Chosen, Waiting
<1>3. \A e \in seen : IsFiniteSet(below(e)) /\ Cardinality(below(e)) \in Nat
  <2> SUFFICES ASSUME NEW e \in seen
               PROVE  IsFiniteSet(below(e)) /\ Cardinality(below(e)) \in Nat
    OBVIOUS
  <2>1. below(e) \subseteq seen
    BY <1>2
  <2> HIDE DEF below
  <2>2. QED BY <2>1, FS_Subset, FS_CardinalityType
<1>4. rank \in [Chosen(seen) -> 0..(k - 1)]
  <2>1. \A e \in Chosen(seen) : Cardinality(below(e)) < k
    BY DEF Chosen
  <2> HIDE DEF below, k
  <2>2. QED BY <1>1, <1>2, <1>3, <2>1
<1>5. \A d, e \in Chosen(seen) : d.number < e.number => rank[d] # rank[e]
  <2> SUFFICES ASSUME NEW d \in Chosen(seen), NEW e \in Chosen(seen), d.number < e.number
               PROVE  Cardinality(below(d)) # Cardinality(below(e))
    OBVIOUS
  <2>1. d.number \in Nat /\ e.number \in Nat /\ \A f \in seen : f.number \in Nat
    BY <1>2 DEF Snapshot
  <2>2. below(d) \subseteq below(e) /\ d \in below(e) /\ d \notin below(d)
    BY <1>2, <2>1 DEF Before
  <2> HIDE DEF below
  <2>3. QED BY <1>2, <1>3, <2>2, FS_Subset
<1>6. \A d, e \in Chosen(seen) : rank[d] = rank[e] => d = e
  <2> SUFFICES ASSUME NEW d \in Chosen(seen), NEW e \in Chosen(seen), d # e
               PROVE  rank[d] # rank[e]
    OBVIOUS
  <2>1. d.number \in Nat /\ e.number \in Nat /\ d.number # e.number
    BY <1>2 DEF Snapshot
  <2>2. d.number < e.number \/ e.number < d.number
    BY <2>1
  <2> HIDE DEF rank
  <2>3. QED BY <1>5, <2>2
<1> HIDE DEF rank, below
<1>7. rank \in Injection(Chosen(seen), 0..(k - 1))
  BY <1>4, <1>6 DEF Injection, IsInjective
<1>8. IsFiniteSet(0..(k - 1)) /\ Cardinality(0..(k - 1)) = k
  BY <1>1, FS_Interval
<1>9. QED BY <1>7, <1>8, FS_Injection

(* Those a tick has read as let in and those it lets in are within the      *)
(* limit.                                                                   *)
LEMMA LetInAtMost ==
  ASSUME NEW seen \in SUBSET Snapshot, OncePerUser(seen), IsFiniteSet(seen),
         \A e, f \in seen : e.number = f.number => e = f,
         AtMostLimit(UsersOf(ActiveIn(seen)))
  PROVE  AtMostLimit(UsersOf(ActiveIn(seen) \cup Chosen(seen)))
<1> DEFINE A == ActiveIn(seen)
           C == Chosen(seen)
<1>1. IsFiniteSet(A) /\ Cardinality(A) <= Limit
  <2>1. OncePerUser(A) /\ A \subseteq seen
    BY DEF OncePerUser, ActiveIn
  <2>2. IsFiniteSet(A) /\ Cardinality(A) <= Cardinality(UsersOf(A))
    BY <2>1, OneEach DEF AtMostLimit
  <2>3. Cardinality(A) \in Nat /\ Cardinality(UsersOf(A)) \in Nat
    BY <2>2, FS_CardinalityType DEF AtMostLimit
  <2>4. QED BY <2>2, <2>3, LimitAssumption DEF AtMostLimit
<1>2. IsFiniteSet(C) /\ Cardinality(C) <= Slots(seen)
  BY ChosenFew
<1>3. Cardinality(A) \in Nat /\ Cardinality(C) \in Nat /\ Slots(seen) = Limit - Cardinality(A)
  <2>1. Cardinality(A) \in Nat /\ Cardinality(C) \in Nat
    BY <1>1, <1>2, FS_CardinalityType
  <2>2. QED BY <1>1, <2>1, LimitAssumption DEF Slots, ActiveIn
<1>4. /\ IsFiniteSet(A \cup C)
      /\ Cardinality(A \cup C) = Cardinality(A) + Cardinality(C) - Cardinality(A \cap C)
      /\ Cardinality(A \cap C) \in Nat
  <2>1. IsFiniteSet(A \cap C)
    BY <1>1, FS_Intersection
  <2> HIDE DEF A, C
  <2>2. QED BY <1>1, <1>2, <2>1, FS_Union, FS_CardinalityType
<1> HIDE DEF A, C
<1>5. Cardinality(A \cup C) \in Nat /\ Cardinality(A \cup C) <= Limit
  BY <1>2, <1>3, <1>4, LimitAssumption, FS_CardinalityType
<1>6. IsFiniteSet(UsersOf(A \cup C)) /\ Cardinality(UsersOf(A \cup C)) <= Cardinality(A \cup C)
  BY <1>4, FewUsers
<1>7. Cardinality(UsersOf(A \cup C)) \in Nat
  BY <1>6, FS_CardinalityType
<1>8. QED BY <1>5, <1>6, <1>7, LimitAssumption DEF AtMostLimit, A, C

-----------------------------------------------------------------------------
(* The limit *)

(* Requests in flight are of different users, or no user selects a seat.    *)
Apart ==
  IF OneRequestPerUser
  THEN \A g, h \in Handlers : frame[g].user = frame[h].user /\ frame[g].user # None => g = h
  ELSE \A h \in Handlers : frame[h].to # "PROCESSING"

(* No request lets its user in; it may only keep it in.                     *)
OwnSaves == \A h \in Handlers :
  /\ pc[h] \in {"selectLoad", "save"} => frame[h].to # "READY"
  /\ pc[h] = "save" /\ frame[h].to = "PROCESSING" => frame[h].user \in Inside

(* A tick reads every entry once.                                           *)
Reads(t) == t.pc = "get" =>
  /\ IsFiniteSet(t.seen) /\ OncePerUser(t.seen) /\ \A e \in t.seen : e.user \notin t.keys

(* by names, for each user, the tick that has let it in last.  Those that   *)
(* tick t has let in and who are still in:                                  *)
Share(by, t) == {u \in Inside : by[u] = t}

(* They are never more than the limit.  They are in when t begins, so that  *)
(* it has read them as let in or has yet to read them, whoever else lets    *)
(* users in or out meanwhile; and what it then chooses fits in beside them. *)
Sharing(by, t) ==
  /\ AtMostLimit(Share(by, t))
  /\ ticker[t].pc = "get" =>
       Share(by, t) \subseteq UsersOf(ActiveIn(ticker[t].seen)) \cup ticker[t].keys
  /\ ticker[t].pc \in {"save", "processed"} =>
       AtMostLimit(Share(by, t) \cup UsersOf(ticker[t].chosen))

Shared == \E by \in [Users -> Tickers] : \A t \in Tickers : Sharing(by, t)

(* The inductive invariant of the limit.                                    *)
LimitInv ==
  /\ Apart /\ OwnSaves
  /\ \A t \in Tickers : Reads(ticker[t])
  /\ Shared

(* Nobody comes in, and tick t does not move.                               *)
LEMMA SharingKept ==
  ASSUME NEW by, NEW t, Sharing(by, t), Inside' \subseteq Inside, ticker'[t] = ticker[t]
  PROVE  Sharing(by, t)'
<1>1. Share(by, t)' \subseteq Share(by, t)
  BY DEF Share
<1>2. AtMostLimit(Share(by, t)')
  BY <1>1, FewerAtMost DEF Sharing
<1>3. CASE ticker[t].pc = "get"
  BY <1>1, <1>2, <1>3 DEF Sharing, AtMostLimit
<1>4. CASE ticker[t].pc \in {"save", "processed"}
  <2> DEFINE C == UsersOf(ticker[t].chosen)
  <2>1. AtMostLimit(Share(by, t) \cup C) /\ Share(by, t)' \cup C \subseteq Share(by, t) \cup C
    BY <1>1, <1>4 DEF Sharing
  <2> HIDE DEF C
  <2>2. AtMostLimit(Share(by, t)' \cup C)
    BY <2>1, FewerAtMost
  <2>3. QED BY <1>2, <1>4, <2>2 DEF Sharing, AtMostLimit, C
<1>5. QED BY <1>2, <1>3, <1>4 DEF Sharing, AtMostLimit

(* Nobody comes in, and no tick moves.                                      *)
LEMMA NobodyIn ==
  ASSUME LimitInv, Inside' \subseteq Inside, UNCHANGED ticker
  PROVE  Shared' /\ \A t \in Tickers : Reads(ticker[t])'
<1>1. PICK by \in [Users -> Tickers] : \A t \in Tickers : Sharing(by, t)
  BY DEF LimitInv, Shared
<1>2. \A t \in Tickers : Sharing(by, t)'
  BY <1>1, SharingKept
<1>3. Shared'
  BY <1>2 DEF Shared
<1>4. QED BY <1>3 DEF LimitInv, Reads, OncePerUser

LEMMA InsideSave ==
  ASSUME TypeOK, NEW u \in Users, NEW st, NEW n, saveEntry(u, st, n)
  PROVE  /\ Active(st) => Inside' = Inside \cup {u}
         /\ ~Active(st) => Inside' = Inside \ {u}
BY DEF saveEntry, Inside, TypeOK

LEMMA RequestLimit ==
  ASSUME TypeOK, Patient, LimitInv, NEW h \in Handlers, Request(h)
  PROVE  LimitInv'
<1>1. PICK u \in Users : \/ JoinStart(h, u)   \/ LeaveStart(h, u)
                         \/ SelectStart(h, u) \/ CompleteStart(h, u)
  BY DEF Request
<1>2. UNCHANGED <<entry, ticker>> /\ Inside' = Inside
  BY <1>1 DEF JoinStart, LeaveStart, SelectStart, CompleteStart, redis, Inside
<1>3. /\ pc[h] = "idle" /\ frame'[h].user = u
      /\ OneRequestPerUser => \A g \in Handlers : frame[g].user # u
      /\ pc'[h] = "save" => frame'[h].to \in {"CANCELLED", "COMPLETED"}
      /\ frame'[h].to # "READY"
      /\ frame'[h].to = "PROCESSING" => "select" \in Requests
      /\ \A g \in Handlers \ {h} : pc'[g] = pc[g] /\ frame'[g] = frame[g]
  BY <1>1
     DEF JoinStart, LeaveStart, SelectStart, CompleteStart, MayCall, Call, Goto, TypeOK
<1>4. Apart'
  <2>1. CASE OneRequestPerUser
    BY <1>3, <2>1 DEF LimitInv, Apart
  <2>2. CASE ~OneRequestPerUser
    BY <1>3, <2>2 DEF LimitInv, Apart, Patient
  <2>3. QED BY <2>1, <2>2
<1>5. OwnSaves'
  BY <1>2, <1>3 DEF LimitInv, OwnSaves
<1>6. QED BY <1>2, <1>4, <1>5, NobodyIn DEF LimitInv

LEMMA NoFrameOK == NoFrame.user = None /\ NoFrame.to # "PROCESSING"
BY DEF NoFrame

LEMMA ReturnApart ==
  ASSUME TypeOK, NEW h \in Handlers, Return(h), Apart
  PROVE  Apart'
BY NoFrameOK DEF Return, Apart, TypeOK

(* Requests that go on, or return.                                          *)
LEMMA OwnSavesKept ==
  ASSUME TypeOK, LimitInv, Inside \subseteq Inside',
         \A g \in Handlers : pc'[g] \in {"selectLoad", "save"} =>
           pc'[g] = pc[g] /\ frame'[g] = frame[g]
  PROVE  OwnSaves'
BY DEF LimitInv, OwnSaves

LEMMA ServeLimit ==
  ASSUME TypeOK, LimitInv, NEW h \in Handlers, Serve(h) \/ Abort(h)
  PROVE  LimitInv'
<1>0. UNCHANGED ticker
  BY DEF Serve, JoinIncr, JoinSave, SelectLoad, Save, InsertHistory, Abort
<1>1. CASE JoinIncr(h)
  <2>1. Inside' = Inside
    BY <1>1 DEF JoinIncr, Inside
  <2>2. /\ \A g \in Handlers : frame'[g].user = frame[g].user /\ frame'[g].to = frame[g].to
        /\ \A g \in Handlers : pc'[g] \in {"selectLoad", "save"} => pc'[g] = pc[g]
    BY <1>1 DEF JoinIncr, Goto, TypeOK, Frame
  <2>3. Apart' /\ OwnSaves'
    BY <2>1, <2>2 DEF LimitInv, Apart, OwnSaves
  <2>4. QED BY <1>0, <2>1, <2>3, NobodyIn DEF LimitInv
<1>2. CASE JoinSave(h) \/ Save(h)
  <2>1. PICK u \in Users : u = frame[h].user
    BY <1>2 DEF JoinSave, Save, TypeOK
  <2>2. Inside' \subseteq Inside /\ Inside \ {u} \subseteq Inside'
    <3>1. CASE JoinSave(h)
      BY <2>1, <3>1, InsideSave DEF JoinSave, Active
    <3>2. CASE Save(h)
      <4>1. Active(frame[h].to) => u \in Inside
        BY <2>1, <3>2 DEF Save, Active, LimitInv, OwnSaves
      <4>2. saveEntry(u, frame[h].to, frame[h].number)
        BY <2>1, <3>2 DEF Save
      <4>3. QED BY <4>1, <4>2, InsideSave
    <3>3. QED BY <1>2, <3>1, <3>2
  <2>3. Apart'
    BY <1>2, ReturnApart DEF JoinSave, Save, LimitInv, Apart
  <2>4. ASSUME NEW g \in Handlers, pc'[g] \in {"selectLoad", "save"}
        PROVE  g # h /\ pc'[g] = pc[g] /\ frame'[g] = frame[g]
    BY <1>2, <2>4 DEF JoinSave, Save, Return, Goto, TypeOK
  <2>5. ASSUME NEW g \in Handlers \ {h}, frame[g].to = "PROCESSING"
        PROVE  frame[g].user # u
    BY <2>1, <2>5, UserAssumption DEF LimitInv, Apart
  <2>6. OwnSaves'
    BY <2>2, <2>4, <2>5 DEF LimitInv, OwnSaves
  <2>7. QED BY <1>0, <2>2, <2>3, <2>6, NobodyIn DEF LimitInv
<1>3. CASE SelectLoad(h)
  <2>1. Inside' = Inside
    BY <1>3 DEF SelectLoad, redis, Inside
  <2>2. CASE MayMove(frame[h].user, "PROCESSING")
    <3>1. /\ \A g \in Handlers : frame'[g].user = frame[g].user /\ frame'[g].to = frame[g].to
          /\ \A g \in Handlers \ {h} : pc'[g] = pc[g]
      BY <1>3, <2>2 DEF SelectLoad, Goto, TypeOK, Frame
    <3>2. frame[h].user \in Inside /\ pc[h] = "selectLoad"
      BY <1>3, <2>2
         DEF SelectLoad, MayMove, Allowed, canTransitionQueue, QUEUE_TRANSITIONS,
             Inside,
             Active, TypeOK
    <3>3. Apart' /\ OwnSaves'
      BY <2>1, <3>1, <3>2 DEF LimitInv, Apart, OwnSaves
    <3>4. QED BY <1>0, <2>1, <3>3, NobodyIn DEF LimitInv
  <2>3. CASE ~MayMove(frame[h].user, "PROCESSING")
    <3>1. Return(h)
      BY <1>3, <2>3 DEF SelectLoad
    <3>2. OwnSaves'
      BY <2>1, <3>1, OwnSavesKept DEF Return, TypeOK
    <3>3. QED BY <1>0, <2>1, <3>1, <3>2, ReturnApart, NobodyIn DEF LimitInv
  <2>4. QED BY <2>2, <2>3
<1>4. CASE InsertHistory(h) \/ Abort(h)
  <2>1. Inside' = Inside /\ Return(h)
    BY <1>4 DEF InsertHistory, Abort, redis, Inside
  <2>2. OwnSaves'
    BY <2>1, OwnSavesKept DEF Return, TypeOK
  <2>3. QED BY <1>0, <2>1, <2>2, ReturnApart, NobodyIn DEF LimitInv
<1>5. QED BY <1>1, <1>2, <1>3, <1>4 DEF Serve

(* One more entry is read: of another user, so under another number.        *)
LEMMA SeenDistinct ==
  ASSUME NumbersDistinct, NEW t \in Tickers, Reads(ticker[t]), ticker[t].pc = "get",
         NEW u \in ticker[t].keys, u \in Users, entry[u] # NoEntry
  PROVE  LET seen == ticker[t].seen \cup
               {[user |-> u, state |-> entry[u].state, number |-> entry[u].number]}
         IN  OncePerUser(seen) /\ \A f, g \in seen : f.number = g.number => f = g
<1> DEFINE e == [user |-> u, state |-> entry[u].state, number |-> entry[u].number]
           seen == ticker[t].seen \cup {e}
<1>1. OncePerUser(seen)
  BY DEF Reads, OncePerUser
<1>2. \A f \in seen : TicketOf(f.user, f.number) \in Tickets
  BY WhereTicketsAre DEF seen
<1> HIDE DEF seen
<1>3. \A f, g \in seen : f.number = g.number => f.user = g.user
  <2> SUFFICES ASSUME NEW f \in seen, NEW g \in seen, f.number = g.number
               PROVE  f.user = g.user
    OBVIOUS
  <2> DEFINE a == TicketOf(f.user, f.number)
             b == TicketOf(g.user, g.number)
  <2>1. a \in Tickets /\ b \in Tickets /\ a.number = b.number
    BY <1>2 DEF TicketOf
  <2>2. a.user = b.user
    BY <2>1 DEF NumbersDistinct
  <2>3. QED BY <2>2 DEF TicketOf
<1>4. \A f, g \in seen : f.number = g.number => f = g
  BY <1>1, <1>3 DEF OncePerUser
<1>5. QED BY <1>1, <1>4 DEF seen

(* The calls go on under a step of the tick that lets nobody out.           *)
LEMMA CallsKept ==
  ASSUME LimitInv, UNCHANGED calls, Inside \subseteq Inside'
  PROVE  Apart' /\ OwnSaves'
BY DEF LimitInv, Apart, OwnSaves, calls

(* A tick that chooses has room for those it chooses beside its share.      *)
LEMMA ChosenFit ==
  ASSUME NEW seen \in SUBSET Snapshot, OncePerUser(seen), IsFiniteSet(seen),
         \A e, f \in seen : e.number = f.number => e = f,
         NEW S, S \subseteq UsersOf(ActiveIn(seen)), Chosen(seen) # {}
  PROVE  AtMostLimit(S \cup UsersOf(Chosen(seen)))
<1>1. IsFiniteSet(ActiveIn(seen)) /\ Cardinality(ActiveIn(seen)) \in Nat
  BY FS_Subset, FS_CardinalityType DEF ActiveIn
<1>2. Cardinality(ActiveIn(seen)) < Limit
  <2>1. PICK e \in Chosen(seen) :
          Cardinality({f \in Waiting(seen) : Before(f, e)}) < Slots(seen)
    BY DEF Chosen
  <2>2. Cardinality({f \in Waiting(seen) : Before(f, e)}) \in Nat
    <3>1. IsFiniteSet({f \in Waiting(seen) : Before(f, e)})
      BY FS_Subset DEF Waiting
    <3>2. QED BY <3>1, FS_CardinalityType
  <2>3. Slots(seen) # 0
    BY <2>1, <2>2
  <2>4. QED BY <2>3 DEF Slots, ActiveIn
<1>3. AtMostLimit(UsersOf(ActiveIn(seen)))
  <2>1. /\ IsFiniteSet(UsersOf(ActiveIn(seen)))
        /\ Cardinality(UsersOf(ActiveIn(seen))) <= Cardinality(ActiveIn(seen))
        /\ Cardinality(UsersOf(ActiveIn(seen))) \in Nat
    BY <1>1, FewUsers, FS_CardinalityType
  <2>2. QED BY <1>1, <1>2, <2>1, LimitAssumption DEF AtMostLimit
<1>4. AtMostLimit(UsersOf(ActiveIn(seen) \cup Chosen(seen)))
  BY <1>3, LetInAtMost
<1>5. S \cup UsersOf(Chosen(seen)) \subseteq UsersOf(ActiveIn(seen) \cup Chosen(seen))
  BY DEF UsersOf
<1>6. QED BY <1>4, <1>5, FewerAtMost

LEMMA TickLimit ==
  ASSUME TypeOK, NumbersDistinct, LimitInv, NEW t \in Tickers, Tick(t) \/ TickAbort(t)
  PROVE  LimitInv'
<1> PICK by \in [Users -> Tickers] : \A s \in Tickers : Sharing(by, s)
  BY DEF LimitInv, Shared
<1>0. ticker[t] \in Ticker /\ Reads(ticker[t]) /\ Sharing(by, t)
  BY DEF TypeOK, LimitInv
<1>1. UNCHANGED calls /\ \A s \in Tickers \ {t} : ticker'[s] = ticker[s]
  BY DEF Tick, TickKeys, TickGet, TickSave, TickProcessed, TickAbort, TypeOK
<1>2. ASSUME Inside' = Inside, Reads(ticker[t])', Sharing(by, t)'
      PROVE  LimitInv'
  <2>1. \A s \in Tickers : Sharing(by, s)'
    BY <1>1, <1>2, SharingKept
  <2>2. \A s \in Tickers : Reads(ticker[s])'
    BY <1>1, <1>2 DEF LimitInv, Reads, OncePerUser
  <2>3. QED BY <1>1, <1>2, <2>1, <2>2, CallsKept DEF LimitInv, Shared
<1>3. CASE TickKeys(t)
  <2>1. ticker'[t] = [pc |-> "get", keys |-> redisKeys, seen |-> {}, chosen |-> {}]
        /\ Inside' = Inside
    BY <1>3 DEF TickKeys, redis, Inside, TypeOK
  <2>2. Share(by, t)' = Share(by, t) /\ Share(by, t) \subseteq redisKeys
    BY <2>1 DEF Share, Inside, redisKeys, Active, NoEntry
  <2>3. Sharing(by, t)' /\ Reads(ticker[t])'
    BY <1>0, <2>1, <2>2, FS_EmptySet DEF Sharing, AtMostLimit, Reads, OncePerUser
  <2>4. QED BY <1>2, <2>1, <2>3
<1>4. CASE TickAbort(t)
  <2>1. ticker'[t] = Resting /\ Inside' = Inside /\ Share(by, t)' = Share(by, t)
    BY <1>4 DEF TickAbort, redis, Inside, Share, TypeOK
  <2>2. QED BY <1>0, <1>2, <2>1 DEF Sharing, AtMostLimit, Reads, Resting
<1>5. CASE TickGet(t)
  <2>1. PICK u \in ticker[t].keys :
          LET seen == ticker[t].seen \cup
                        {[user |-> u, state |-> entry[u].state, number |-> entry[u].number]}
              keys == ticker[t].keys \ {u}
          IN ticker' = [ticker EXCEPT ![t] =
               IF keys = {} THEN Promoting(seen, Chosen(seen))
               ELSE [pc |-> "get", keys |-> keys, seen |-> seen, chosen |-> {}]]
    BY <1>5 DEF TickGet
  <2> DEFINE e == [user |-> u, state |-> entry[u].state, number |-> entry[u].number]
             seen == ticker[t].seen \cup {e}
             keys == ticker[t].keys \ {u}
  <2>2. /\ ticker[t].pc = "get" /\ Inside' = Inside /\ u \in Users /\ entry[u] # NoEntry
        /\ Share(by, t)' = Share(by, t)
    BY <1>0, <1>5 DEF TickGet, redis, Inside, Share, TypeOK, Ticker
  <2>3. ticker'[t] = IF keys = {} THEN Promoting(seen, Chosen(seen))
                     ELSE [pc |-> "get", keys |-> keys, seen |-> seen, chosen |-> {}]
    BY <2>1 DEF TypeOK
  <2>4. seen \in SUBSET Snapshot /\ e \in Snapshot
    BY <1>0, <2>2 DEF Ticker, Snapshot, Entry, TypeOK
  <2>5. IsFiniteSet(seen) /\ OncePerUser(seen) /\ \A f \in seen : f.user \notin keys
    <3>1. IsFiniteSet(seen)
      BY <1>0, <2>2, FS_AddElement DEF Reads
    <3>2. QED BY <1>0, <2>2, <3>1 DEF Reads, OncePerUser
  <2>6. Share(by, t) \subseteq UsersOf(ActiveIn(seen)) \cup keys
    <3>1. u \in Inside => u \in UsersOf(ActiveIn(seen))
      <4>1. e.user = u /\ e.state = entry[u].state /\ e \in seen
        OBVIOUS
      <4> HIDE DEF e, seen
      <4>2. QED BY <4>1 DEF Inside, UsersOf, ActiveIn
    <3>2. UsersOf(ActiveIn(ticker[t].seen)) \subseteq UsersOf(ActiveIn(seen))
      BY DEF UsersOf, ActiveIn
    <3>3. Share(by, t) \subseteq UsersOf(ActiveIn(ticker[t].seen)) \cup ticker[t].keys
      BY <1>0, <2>2 DEF Sharing
    <3>4. Share(by, t) \subseteq Inside
      BY DEF Share
    <3> HIDE DEF e, seen
    <3>5. QED BY <3>1, <3>2, <3>3, <3>4
  <2> HIDE DEF seen, keys
  <2>7. CASE keys # {}
    <3>1. /\ ticker'[t].pc = "get" /\ ticker'[t].keys = keys /\ ticker'[t].seen = seen
      BY <2>3, <2>7
    <3>2. Reads(ticker[t])' /\ Sharing(by, t)'
      BY <1>0, <2>2, <2>5, <2>6, <3>1 DEF Reads, Sharing, AtMostLimit, OncePerUser
    <3>3. QED BY <1>2, <2>2, <3>2
  <2>8. CASE keys = {}
    <3>1. \A f, g \in seen : f.number = g.number => f = g
      BY <1>0, <2>2, SeenDistinct DEF seen
    <3>2. ticker'[t] = Promoting(seen, Chosen(seen))
      BY <2>3, <2>8
    <3>3. CASE Chosen(seen) = {}
      <4>1. ticker'[t].pc = "idle"
        BY <3>2, <3>3 DEF Promoting, Resting
      <4>2. QED BY <1>0, <1>2, <2>2, <4>1 DEF Reads, Sharing, AtMostLimit
    <3>4. CASE Chosen(seen) # {}
      <4>1. ticker'[t].pc = "save" /\ ticker'[t].chosen = Chosen(seen)
        BY <3>2, <3>4 DEF Promoting
      <4>2. AtMostLimit(Share(by, t) \cup UsersOf(Chosen(seen)))
        BY <2>4, <2>5, <2>6, <2>8, <3>1, <3>4, ChosenFit
      <4>3. QED BY <1>0, <1>2, <2>2, <4>1, <4>2 DEF Reads, Sharing, AtMostLimit
    <3>5. QED BY <3>3, <3>4
  <2>9. QED BY <2>7, <2>8
<1>6. CASE TickSave(t)
  <2>1. PICK e \in ticker[t].chosen : saveEntry(e.user, "READY", e.number)
    BY <1>6 DEF TickSave
  <2>2. ticker[t].pc = "save" /\ e.user \in Users
    BY <1>0, <1>6 DEF TickSave, Ticker, Snapshot
  <2>3. Inside' = Inside \cup {e.user}
    BY <2>1, <2>2, InsideSave DEF Active
  <2>4. ticker'[t].pc = "processed" /\ ticker'[t].chosen = ticker[t].chosen
    BY <1>0, <1>6 DEF TickSave, TypeOK, Ticker
  <2> DEFINE by2 == [by EXCEPT ![e.user] = t]
             C   == UsersOf(ticker[t].chosen)
  <2>5. by2 \in [Users -> Tickers] /\ by2[e.user] = t
        /\ \A v \in Users \ {e.user} : by2[v] = by[v]
    BY <2>2
  <2> HIDE DEF by2
  <2>6. e.user \in C /\ AtMostLimit(Share(by, t) \cup C)
    BY <1>0, <2>2 DEF Sharing, UsersOf
  <2> HIDE DEF C
  <2>7. Share(by2, t)' \cup C \subseteq Share(by, t) \cup C
    BY <2>3, <2>5, <2>6 DEF Share, Inside
  <2>8. AtMostLimit(Share(by2, t)') /\ AtMostLimit(Share(by2, t)' \cup C)
    <3>1. Share(by2, t)' \subseteq Share(by, t) \cup C
      BY <2>7
    <3>2. QED BY <2>6, <2>7, <3>1, FewerAtMost
  <2>9. Sharing(by2, t)'
    BY <2>4, <2>8 DEF Sharing, AtMostLimit, C
  <2>10. ASSUME NEW s \in Tickers \ {t}
         PROVE  Sharing(by2, s)'
    <3>1. Share(by2, s)' \subseteq Share(by, s)
      BY <2>3, <2>5 DEF Share, Inside
    <3>2. ticker'[s] = ticker[s] /\ Sharing(by, s)
      BY <1>1
    <3>3. AtMostLimit(Share(by2, s)')
      BY <3>1, <3>2, FewerAtMost DEF Sharing
    <3> DEFINE D == UsersOf(ticker[s].chosen)
    <3>4. ticker[s].pc \in {"save", "processed"} => AtMostLimit(Share(by2, s)' \cup D)
      <4>1. ticker[s].pc \in {"save", "processed"} => AtMostLimit(Share(by, s) \cup D)
        BY <3>2 DEF Sharing
      <4> HIDE DEF D
      <4>2. Share(by2, s)' \cup D \subseteq Share(by, s) \cup D
        BY <3>1
      <4>3. QED BY <4>1, <4>2, FewerAtMost
    <3>5. QED BY <3>1, <3>2, <3>3, <3>4 DEF Sharing, AtMostLimit
  <2>11. Shared'
    BY <2>5, <2>9, <2>10 DEF Shared
  <2>12. \A s \in Tickers : Reads(ticker[s])'
    BY <1>1, <2>4 DEF LimitInv, Reads, OncePerUser
  <2>13. QED BY <1>1, <2>3, <2>11, <2>12, CallsKept DEF LimitInv
<1>7. CASE TickProcessed(t)
  <2>1. PICK e \in ticker[t].chosen :
          ticker' = [ticker EXCEPT ![t] =
                       Promoting(ticker[t].seen, ticker[t].chosen \ {e})]
    BY <1>7 DEF TickProcessed
  <2>2. /\ ticker'[t] = Promoting(ticker[t].seen, ticker[t].chosen \ {e})
        /\ ticker[t].pc = "processed" /\ Inside' = Inside /\ Share(by, t)' = Share(by, t)
    BY <1>7, <2>1 DEF TickProcessed, TypeOK, Inside, Share
  <2>3. CASE ticker[t].chosen \ {e} = {}
    BY <1>0, <1>2, <2>2, <2>3 DEF Promoting, Resting, Reads, Sharing, AtMostLimit
  <2>4. CASE ticker[t].chosen \ {e} # {}
    <3>1. ticker'[t].pc = "save" /\ ticker'[t].chosen = ticker[t].chosen \ {e}
      BY <2>2, <2>4 DEF Promoting
    <3> DEFINE C == UsersOf(ticker[t].chosen)
               D == UsersOf(ticker[t].chosen \ {e})
    <3>2. D \subseteq C /\ AtMostLimit(Share(by, t) \cup C)
      BY <1>0, <2>2 DEF UsersOf, Sharing
    <3> HIDE DEF C, D
    <3>3. AtMostLimit(Share(by, t) \cup D)
      <4>1. Share(by, t) \cup D \subseteq Share(by, t) \cup C
        BY <3>2
      <4>2. QED BY <3>2, <4>1, FewerAtMost
    <3>4. Sharing(by, t)' /\ Reads(ticker[t])'
      BY <1>0, <2>2, <3>1, <3>3 DEF Sharing, AtMostLimit, Reads, D
    <3>5. QED BY <1>2, <2>2, <3>4
  <2>5. QED BY <2>3, <2>4
<1>8. QED BY <1>3, <1>4, <1>5, <1>6, <1>7 DEF Tick

LEMMA LimitHolds ==
  ASSUME Patient, Tickers # {}
  PROVE  Spec => []LimitInv
<1>1. Init => LimitInv
  <2> SUFFICES ASSUME Init
               PROVE  LimitInv
    OBVIOUS
  <2>1. Inside = {}
    BY DEF Init, Inside, Active, NoEntry
  <2>2. AtMostLimit({})
    BY FS_EmptySet, LimitAssumption DEF AtMostLimit
  <2>3. PICK t \in Tickers : TRUE
    OBVIOUS
  <2> DEFINE by == [u \in Users |-> t]
  <2>4. by \in [Users -> Tickers] /\ \A s \in Tickers : Share(by, s) = {}
    BY <2>1 DEF Share
  <2> HIDE DEF by
  <2>5. \A s \in Tickers : ticker[s].pc = "idle"
    BY DEF Init, Resting
  <2>6. Shared
    BY <2>2, <2>4, <2>5 DEF Shared, Sharing
  <2>7. QED BY <2>1, <2>5, <2>6 DEF Init, LimitInv, Apart, OwnSaves, NoFrame, Reads
<1>2. TypeOK /\ NumbersDistinct /\ LimitInv /\ [Next]_vars => LimitInv'
  <2> SUFFICES ASSUME TypeOK, NumbersDistinct, LimitInv, [Next]_vars
               PROVE  LimitInv'
    OBVIOUS
  <2>1. CASE UNCHANGED vars
    <3>1. UNCHANGED <<entry, pc, frame, ticker>> /\ Inside' = Inside
      BY <2>1 DEF vars, Inside
    <3>2. Apart' /\ OwnSaves'
      BY <3>1 DEF LimitInv, Apart, OwnSaves
    <3>3. QED BY <3>1, <3>2, NobodyIn DEF LimitInv
  <2>2. QED BY <2>1, RequestLimit, ServeLimit, TickLimit DEF Next
<1>3. QED BY TypeInvariant, DistinctNumbers, <1>1, <1>2, PTL DEF Spec

(* As many ticks, each with a share within the limit.  Whoever is in has a  *)
(* place of its own: its tick, and its number within the share of the tick. *)
LEMMA SharesAddUp ==
  ASSUME IsFiniteSet(Tickers), NEW by \in [Users -> Tickers],
         \A t \in Tickers : AtMostLimit(Share(by, t))
  PROVE  Cardinality(Inside) <= Limit * Cardinality(Tickers)
<1> DEFINE Places == Tickers \X (1..Limit)
           numbering(t) == CHOOSE f : f \in Injection(Share(by, t), 1..Limit)
           place == [u \in Inside |-> <<by[u], numbering(by[u])[u]>>]
<1>1. ASSUME NEW t \in Tickers
      PROVE  numbering(t) \in Injection(Share(by, t), 1..Limit)
  <2> DEFINE n == Cardinality(Share(by, t))
  <2>1. IsFiniteSet(Share(by, t)) /\ n \in Nat /\ n <= Limit
    BY FS_CardinalityType DEF AtMostLimit
  <2>2. ExistsBijection(1..n, Share(by, t))
    BY <2>1, FS_CardinalityType
  <2> HIDE DEF n
  <2>3. PICK g \in Bijection(1..n, Share(by, t)) : TRUE
    BY <2>2 DEF ExistsBijection
  <2>4. PICK f : f \in Bijection(Share(by, t), 1..n)
    BY <2>3, Fun_BijInverse
  <2>5. 1..n \subseteq 1..Limit
    BY <2>1, LimitAssumption
  <2>6. f \in Injection(Share(by, t), 1..Limit)
    BY <2>4, <2>5 DEF Bijection, Injection, IsInjective
  <2>7. QED BY <2>6
<1> HIDE DEF numbering
<1>2. \A u \in Inside : u \in Users /\ by[u] \in Tickers /\ u \in Share(by, by[u])
  BY DEF Share, Inside
<1>3. ASSUME NEW u \in Inside
      PROVE  numbering(by[u])[u] \in 1..Limit
  <2>1. numbering(by[u]) \in [Share(by, by[u]) -> 1..Limit]
    BY <1>1, <1>2 DEF Injection
  <2>2. QED BY <1>2, <2>1
<1>4. place \in [Inside -> Places]
  BY <1>2, <1>3
<1>5. ASSUME NEW u \in Inside, NEW v \in Inside, place[u] = place[v]
      PROVE  u = v
  <2>1. by[u] = by[v] /\ numbering(by[u])[u] = numbering(by[v])[v]
    BY <1>5
  <2>2. \A a, b \in Share(by, by[u]) : numbering(by[u])[a] = numbering(by[u])[b] => a = b
    BY <1>1, <1>2 DEF Injection, IsInjective
  <2>3. QED BY <1>2, <2>1, <2>2
<1>6. place \in Injection(Inside, Places)
  BY <1>4, <1>5 DEF Injection, IsInjective
<1>7. /\ IsFiniteSet(Places) /\ Cardinality(Places) = Cardinality(Tickers) * Limit
      /\ Cardinality(Tickers) \in Nat
  <2>1. IsFiniteSet(1..Limit) /\ Cardinality(1..Limit) = Limit
    BY LimitAssumption, FS_Interval
  <2>2. QED BY <2>1, FS_Product, FS_CardinalityType
<1> HIDE DEF place, Places
<1>8. Cardinality(Inside) <= Cardinality(Tickers) * Limit
  BY <1>6, <1>7, FS_Injection
<1>9. QED BY <1>7, <1>8, LimitAssumption

(***************************************************************************)
(* No more users are let in than config.concurrentProcessingLimit for each *)
(* tick that can be in flight, whatever joins and leaves while a tick      *)
(* reads the entries one by one, however long it then takes to write what  *)
(* it has chosen, and whatever fails; provided no user selects a seat      *)
(* while another request of its own is in flight (tick, transition).       *)
(***************************************************************************)
THEOREM NoMoreThanLimit ==
  ASSUME Patient, IsFiniteSet(Tickers), Tickers # {}
  PROVE  Spec => []ActiveLimit
<1>1. LimitInv => ActiveLimit
  <2> SUFFICES ASSUME LimitInv
               PROVE  ActiveLimit
    OBVIOUS
  <2>1. PICK by \in [Users -> Tickers] : \A t \in Tickers : Sharing(by, t)
    BY DEF LimitInv, Shared
  <2>2. \A t \in Tickers : AtMostLimit(Share(by, t))
    BY <2>1 DEF Sharing
  <2>3. Cardinality(Inside) <= Limit * Cardinality(Tickers)
    BY <2>2, SharesAddUp
  <2>4. QED BY <2>3 DEF Inside, Active, ActiveLimit
<1>2. QED BY LimitHolds, <1>1, PTL

-----------------------------------------------------------------------------
(* The waiting room *)

RowOf(u, n) == \E r \in history : r.user = u /\ r.number = n

(* What a request is about to do still fits the entry it has loaded.        *)
Fitting(h) ==
  LET f == frame[h]
      e == entry[f.user]
  IN
  /\ pc[h] \in {"joinIncr", "joinSave"} => e = NoEntry \/ Terminal(e)
  /\ pc[h] = "joinSave" => e.number < f.number
  /\ pc[h] = "selectLoad" => f.to = "PROCESSING"
  /\ pc[h] = "save" =>
       f.to \in {"PROCESSING", "COMPLETED"} /\ Active(e.state) /\ e.number = f.number
  /\ pc[h] = "history" =>
       Terminal(e) /\ e.number = f.number /\ ~RowOf(f.user, f.number)

(* What a tick has read as WAITING and has not let in still waits.          *)
Fresh(t) ==
  /\ t.pc = "get" => \A e \in t.seen : e.state = "WAITING" => Waits(e)
  /\ t.pc = "save" => \A e \in t.chosen : Waits(e)
  /\ t.pc = "processed" => \A e \in t.chosen : First(t.chosen, e) \/ Waits(e)
  /\ t.pc \in {"save", "processed"} =>
       \A e, f \in t.chosen : e.number = f.number => e = f

(* A ticket on record is over, and is on record once.                       *)
Rows ==
  /\ \A r \in history : LET e == entry[r.user] IN
       r.number < e.number \/ (r.number = e.number /\ Terminal(e))
  /\ \A r, s \in history : r.user = s.user /\ r.number = s.number => r = s

(* The inductive invariant of the waiting room.                             *)
RoomInv ==
  /\ \A h \in Handlers : Fitting(h)
  /\ \A t \in Tickers : Fresh(ticker[t])
  /\ Rows

(* Requests in flight are of different users.                               *)
Alone == Apart /\ OneRequestPerUser

LEMMA Others ==
  ASSUME TypeOK, Alone, NEW h \in Handlers, pc[h] # "idle", NEW g \in Handlers \ {h}
  PROVE  frame[g].user # frame[h].user
BY UserAssumption DEF Alone, Apart, TypeOK

(* A handler's step that leaves what the rest relies on as it is.           *)
LEMMA FittingOther ==
  ASSUME TypeOK, NEW g \in Handlers, Fitting(g), pc'[g] = pc[g], frame'[g] = frame[g],
         entry'[frame[g].user] = entry[frame[g].user],
         \A r \in history' \ history : r.user # frame[g].user
  PROVE  Fitting(g)'
BY DEF Fitting, RowOf

LEMMA FittingIdle ==
  ASSUME NEW h \in Handlers, pc'[h] = "idle"
  PROVE  Fitting(h)'
BY DEF Fitting

LEMMA FreshKept ==
  ASSUME TypeOK, NEW t \in Tickers, Fresh(ticker[t]), UNCHANGED ticker,
         \A u \in Users : entry[u].state = "WAITING" => entry'[u] = entry[u]
  PROVE  Fresh(ticker[t])'
<1>1. \A e \in Snapshot : Waits(e) => Waits(e)'
  BY DEF Waits, Snapshot
<1>2. ticker[t].seen \subseteq Snapshot /\ ticker[t].chosen \subseteq Snapshot
  BY DEF TypeOK, Ticker
<1>3. QED BY <1>1, <1>2 DEF Fresh

LEMMA RowsKept ==
  ASSUME TypeOK, TypeOK', Rows, UNCHANGED history,
         \A u \in Users : \/ entry'[u] = entry[u]
                          \/ entry'[u].number > entry[u].number
                          \/ ~Terminal(entry[u]) /\ entry'[u].number = entry[u].number
  PROVE  Rows'
<1>1. \A u \in Users : entry[u].number \in Nat /\ entry'[u].number \in Nat
  BY DEF TypeOK, Entry, NoEntry
<1>2. \A r \in history : r.user \in Users /\ r.number \in Nat
  BY DEF TypeOK, HistoryRow
<1>3. ASSUME NEW r \in history
      PROVE  \/ r.number < entry'[r.user].number
             \/ r.number = entry'[r.user].number /\ Terminal(entry'[r.user])
  BY <1>1, <1>2 DEF Rows
<1>4. QED BY <1>3 DEF Rows, Terminal

LEMMA RequestRoom ==
  ASSUME TypeOK, Polite, Apart, RoomInv, NEW h \in Handlers, Request(h)
  PROVE  RoomInv'
<1>1. PICK u \in Users : JoinStart(h, u) \/ SelectStart(h, u) \/ CompleteStart(h, u)
  BY DEF Request, LeaveStart, MayCall, Polite
<1>2. /\ UNCHANGED <<entry, history, ticker>>
      /\ \A g \in Handlers \ {h} : pc'[g] = pc[g] /\ frame'[g] = frame[g]
  BY <1>1 DEF JoinStart, SelectStart, CompleteStart, Call, Goto, redis, TypeOK
<1>3. Fitting(h)'
  <2>1. CASE JoinStart(h, u)
    <3>1. pc'[h] = "joinIncr" /\ frame'[h].user = u /\ (entry[u] = NoEntry \/ Terminal(entry[u]))
      BY <2>1 DEF JoinStart, Call, Goto, TypeOK
    <3>2. QED BY <1>2, <3>1 DEF Fitting, Terminal
  <2>2. CASE SelectStart(h, u)
    <3>1. pc'[h] = "selectLoad" /\ frame'[h].to = "PROCESSING"
      BY <2>2 DEF SelectStart, Call, Goto, TypeOK
    <3>2. QED BY <3>1 DEF Fitting
  <2>3. CASE CompleteStart(h, u)
    <3>1. /\ pc'[h] = "save" /\ frame'[h].to = "COMPLETED" /\ frame'[h].user = u
          /\ frame'[h].number = entry[u].number
      BY <2>3 DEF CompleteStart, Call, Goto, TypeOK
    <3>2. Active(entry[u].state)
      BY <2>3
         DEF CompleteStart, MayMove, Allowed, canTransitionQueue, QUEUE_TRANSITIONS,
             Active
    <3>3. QED BY <1>2, <3>1, <3>2 DEF Fitting
  <2>4. QED BY <1>1, <2>1, <2>2, <2>3
<1>4. \A g \in Handlers : Fitting(g)'
  BY <1>2, <1>3, FittingOther DEF RoomInv
<1>5. QED BY <1>2, <1>4, FreshKept DEF RoomInv, Rows, Terminal

LEMMA ReturnFits ==
  ASSUME TypeOK, RoomInv, NEW h \in Handlers, Return(h), UNCHANGED <<entry, history>>
  PROVE  \A g \in Handlers : Fitting(g)'
<1>1. /\ pc'[h] = "idle"
      /\ \A g \in Handlers \ {h} : pc'[g] = pc[g] /\ frame'[g] = frame[g]
  BY DEF Return, TypeOK
<1>2. QED BY <1>1, FittingOther, FittingIdle DEF RoomInv

LEMMA ServeRoom ==
  ASSUME TypeOK, TypeOK', Polite, Apart, NumbersDistinct, RoomInv,
         NEW h \in Handlers, Serve(h) \/ Abort(h)
  PROVE  RoomInv'
<1>0. UNCHANGED ticker /\ Alone /\ Fitting(h)
  BY DEF Serve, JoinIncr, JoinSave, SelectLoad, Save, InsertHistory, Abort, Alone,
         Polite, RoomInv
<1>1. CASE JoinIncr(h)
  <2>1. /\ pc[h] = "joinIncr" /\ pc'[h] = "joinSave" /\ frame'[h].user = frame[h].user
        /\ frame'[h].number = counter + 1 /\ frame[h].user \in Users
        /\ UNCHANGED <<entry, history>>
        /\ \A g \in Handlers \ {h} : pc'[g] = pc[g] /\ frame'[g] = frame[g]
    BY <1>1 DEF JoinIncr, Incr, Goto, TypeOK, Frame
  <2>2. entry[frame[h].user].number < counter + 1
    <3>1. counter \in Nat /\ entry[frame[h].user].number \in Nat
      BY <2>1 DEF TypeOK, Entry, NoEntry
    <3>2. CASE entry[frame[h].user] = NoEntry
      BY <3>1, <3>2 DEF NoEntry
    <3>3. CASE entry[frame[h].user] # NoEntry
      <4>1. PICK a \in Tickets : a = TicketOf(frame[h].user, entry[frame[h].user].number)
        BY <2>1, <3>3, WhereTicketsAre
      <4>2. a.number <= counter /\ a.number = entry[frame[h].user].number
        BY <4>1 DEF NumbersDistinct, TicketOf
      <4>3. QED BY <3>1, <4>2
    <3>4. QED BY <3>2, <3>3
  <2>3. Fitting(h)'
    BY <1>0, <2>1, <2>2 DEF Fitting, Terminal
  <2>4. \A g \in Handlers : Fitting(g)'
    BY <2>1, <2>3, FittingOther DEF RoomInv
  <2>5. QED BY <1>0, <2>1, <2>4, FreshKept DEF RoomInv, Rows, Terminal
<1>2. CASE JoinSave(h) \/ Save(h)
  <2>1. PICK u \in Users : u = frame[h].user
    BY <1>2 DEF JoinSave, Save, TypeOK
  <2>2. /\ UNCHANGED history /\ pc[h] # "idle"
        /\ \A v \in Users \ {u} : entry'[v] = entry[v]
        /\ \A g \in Handlers \ {h} : pc'[g] = pc[g] /\ frame'[g] = frame[g]
    BY <1>2, <2>1 DEF JoinSave, Save, saveEntry, Return, Goto, TypeOK
  <2>3. /\ entry[u].state # "WAITING"
        /\ \/ entry'[u].number > entry[u].number
           \/ ~Terminal(entry[u]) /\ entry'[u].number = entry[u].number
    <3>1. entry'[u].number = frame[h].number
      BY <1>2, <2>1 DEF JoinSave, Save, saveEntry, TypeOK
    <3>2. CASE JoinSave(h)
      <4>1. entry[u].number < frame[h].number /\ (entry[u] = NoEntry \/ Terminal(entry[u]))
        BY <1>0, <2>1, <3>2 DEF JoinSave, Fitting
      <4>2. entry[u].number \in Nat /\ frame[h].number \in Nat
        BY DEF TypeOK, Entry, NoEntry, Frame
      <4>3. QED BY <3>1, <4>1, <4>2 DEF NoEntry, Terminal, QUEUE_TERMINAL_STATES
    <3>3. CASE Save(h)
      BY <1>0, <2>1, <3>1, <3>3
         DEF Save, Fitting, Terminal, QUEUE_TERMINAL_STATES, Active
    <3>4. QED BY <1>2, <3>2, <3>3
  <2>4. Rows'
    BY <2>2, <2>3, RowsKept DEF RoomInv
  <2>5. \A t \in Tickers : Fresh(ticker[t])'
    BY <1>0, <2>2, <2>3, FreshKept DEF RoomInv
  <2>6. Fitting(h)'
    <3>1. CASE pc'[h] = "idle"
      BY <3>1, FittingIdle
    <3>2. CASE pc'[h] # "idle"
      <4>1. /\ pc[h] = "save" /\ pc'[h] = "history" /\ frame'[h] = frame[h]
            /\ entry'[u] = [state |-> frame[h].to, number |-> frame[h].number]
            /\ Recorded(frame[h].to)
        BY <1>2, <2>1, <3>2 DEF JoinSave, Save, saveEntry, Return, Goto, TypeOK
      <4>2. ~RowOf(u, frame[h].number)
        <5>1. ~Terminal(entry[u]) /\ entry[u].number = frame[h].number /\ frame[h].number \in Nat
          BY <1>0, <2>1, <4>1
             DEF Fitting, Terminal, QUEUE_TERMINAL_STATES, Active, TypeOK, Frame
        <5>2. QED BY <5>1 DEF RoomInv, Rows, RowOf, TypeOK, HistoryRow
      <4>3. QED BY <2>1, <2>2, <4>1, <4>2 DEF Fitting, RowOf, Terminal, Recorded
    <3>3. QED BY <3>1, <3>2
  <2>7. ASSUME NEW g \in Handlers \ {h}
        PROVE  Fitting(g)'
    <3>1. frame[g].user # u
      BY <1>0, <2>1, <2>2, Others
    <3>2. CASE pc[g] = "idle"
      BY <2>2, <3>2, FittingIdle
    <3>3. CASE pc[g] # "idle"
      <4>1. entry'[frame[g].user] = entry[frame[g].user]
        BY <2>2, <3>1, <3>3 DEF TypeOK
      <4>2. Fitting(g) /\ history' \ history = {} /\ pc'[g] = pc[g] /\ frame'[g] = frame[g]
        BY <2>2 DEF RoomInv
      <4>3. QED BY <4>1, <4>2, FittingOther
    <3>4. QED BY <3>2, <3>3
  <2>8. QED BY <2>4, <2>5, <2>6, <2>7 DEF RoomInv
<1>3. CASE SelectLoad(h)
  <2>1. UNCHANGED <<entry, history>>
    BY <1>3 DEF SelectLoad, redis
  <2>2. \A g \in Handlers : Fitting(g)'
    <3>1. CASE MayMove(frame[h].user, "PROCESSING")
      <4>1. /\ pc[h] = "selectLoad" /\ pc'[h] = "save" /\ frame'[h].user = frame[h].user
            /\ frame'[h].to = frame[h].to /\ frame'[h].number = entry[frame[h].user].number
            /\ \A g \in Handlers \ {h} : pc'[g] = pc[g] /\ frame'[g] = frame[g]
        BY <1>3, <3>1 DEF SelectLoad, Goto, TypeOK, Frame
      <4>2. Active(entry[frame[h].user].state)
        BY <3>1 DEF MayMove, Allowed, canTransitionQueue, QUEUE_TRANSITIONS, Active
      <4>3. Fitting(h)'
        BY <1>0, <2>1, <4>1, <4>2 DEF Fitting
      <4>4. QED BY <2>1, <4>1, <4>3, FittingOther DEF RoomInv
    <3>2. CASE ~MayMove(frame[h].user, "PROCESSING")
      BY <1>3, <2>1, <3>2, ReturnFits DEF SelectLoad
    <3>3. QED BY <3>1, <3>2
  <2>3. QED BY <1>0, <2>1, <2>2, FreshKept DEF RoomInv, Rows, Terminal
<1>4. CASE InsertHistory(h)
  <2>1. /\ UNCHANGED entry /\ history' = history \cup {NewRow(frame[h])} /\ pc[h] = "history"
        /\ Return(h)
    BY <1>4 DEF InsertHistory, redis
  <2>2. PICK r : r = NewRow(frame[h])
    OBVIOUS
  <2>3. r.user = frame[h].user /\ r.number = frame[h].number
    BY <2>2 DEF NewRow
  <2>4. Rows'
    BY <1>0, <2>1, <2>2, <2>3 DEF RoomInv, Rows, Fitting, RowOf, Terminal
  <2>5. \A g \in Handlers \ {h} : Fitting(g)'
    <3>1. \A g \in Handlers \ {h} : /\ pc'[g] = pc[g] /\ frame'[g] = frame[g]
                                    /\ frame[g].user # r.user
      BY <1>0, <2>1, <2>3, Others DEF Return, TypeOK
    <3>2. QED BY <2>1, <2>2, <3>1, FittingOther DEF RoomInv
  <2>6. Fitting(h)'
    BY <2>1, FittingIdle DEF Return, TypeOK
  <2>7. QED BY <1>0, <2>1, <2>4, <2>5, <2>6, FreshKept DEF RoomInv
<1>5. CASE Abort(h)
  <2>1. UNCHANGED <<entry, history>> /\ Return(h)
    BY <1>5 DEF Abort, redis
  <2>2. QED BY <1>0, <2>1, ReturnFits, FreshKept DEF RoomInv, Rows, Terminal
<1>6. QED BY <1>1, <1>2, <1>3, <1>4, <1>5 DEF Serve

LEMMA TickRoom ==
  ASSUME TypeOK, TypeOK', Polite, NumbersDistinct, LimitInv, RoomInv,
         NEW t \in Tickers, Tick(t) \/ TickAbort(t)
  PROVE  RoomInv'
<1>0. /\ ticker[t] \in Ticker /\ Fresh(ticker[t]) /\ UNCHANGED <<pc, frame, history>>
      /\ ticker[t].chosen \subseteq ticker[t].seen
      /\ Reads(ticker[t])
  BY DEF Tick, TickKeys, TickGet, TickSave, TickProcessed, TickAbort, calls, RoomInv,
         TypeOK, LimitInv
<1>1. ASSUME UNCHANGED entry, Fresh(ticker[t])'
      PROVE  RoomInv'
  <2>1. \A h \in Handlers : Fitting(h)'
    BY <1>0, <1>1, FittingOther DEF RoomInv
  <2>2. QED BY <1>0, <1>1, <2>1 DEF Polite, OneTick, RoomInv, Rows, Terminal
<1>2. CASE TickKeys(t) \/ TickAbort(t)
  <2>1. UNCHANGED entry /\ ticker'[t].pc \in {"get", "idle"} /\ ticker'[t].seen = {}
    BY <1>2 DEF TickKeys, TickAbort, Resting, redis, TypeOK
  <2>2. QED BY <1>1, <2>1 DEF Fresh
<1>3. CASE TickGet(t)
  <2>1. PICK u \in ticker[t].keys :
          LET seen == ticker[t].seen \cup
                        {[user |-> u, state |-> entry[u].state, number |-> entry[u].number]}
              keys == ticker[t].keys \ {u}
          IN ticker' = [ticker EXCEPT ![t] =
               IF keys = {} THEN Promoting(seen, Chosen(seen))
               ELSE [pc |-> "get", keys |-> keys, seen |-> seen, chosen |-> {}]]
    BY <1>3 DEF TickGet
  <2> DEFINE e == [user |-> u, state |-> entry[u].state, number |-> entry[u].number]
             seen == ticker[t].seen \cup {e}
             keys == ticker[t].keys \ {u}
  <2>2. ticker[t].pc = "get" /\ UNCHANGED entry /\ u \in Users /\ entry[u] # NoEntry
    BY <1>0, <1>3 DEF TickGet, redis, TypeOK, Ticker
  <2>3. ticker'[t] = IF keys = {} THEN Promoting(seen, Chosen(seen))
                     ELSE [pc |-> "get", keys |-> keys, seen |-> seen, chosen |-> {}]
    BY <2>1 DEF TypeOK
  <2>4. \A f \in seen : f.state = "WAITING" => Waits(f)
    <3>1. entry[u] \in Entry
      BY <2>2 DEF TypeOK
    <3>2. e.state = "WAITING" => Waits(e)
      BY <3>1 DEF Waits, Entry
    <3>3. QED BY <1>0, <2>2, <3>2 DEF Fresh
  <2>5. \A f, g \in seen : f.number = g.number => f = g
    BY <1>0, <2>2, SeenDistinct
  <2> HIDE DEF seen, keys
  <2>6. Fresh(ticker[t])'
    <3>1. \A f \in seen : f.state = "WAITING" => Waits(f)'
      BY <2>2, <2>4 DEF Waits
    <3>2. QED BY <2>3, <2>5, <3>1, ChosenWaits DEF Fresh, Promoting, Resting
  <2>7. QED BY <1>1, <2>2, <2>6
<1>4. CASE TickSave(t)
  <2>1. PICK e \in ticker[t].chosen :
          First(ticker[t].chosen, e) /\ saveEntry(e.user, "READY", e.number)
    BY <1>4 DEF TickSave
  <2>2. /\ e.user \in Users /\ e.number \in Nat /\ Waits(e) /\ ticker[t].pc = "save"
        /\ entry' = [entry EXCEPT ![e.user] = [state |-> "READY", number |-> e.number]]
    BY <1>0, <1>4, <2>1 DEF TickSave, Ticker, Snapshot, Fresh, saveEntry
  <2>3. entry'[e.user] = [state |-> "READY", number |-> e.number]
        /\ \A v \in Users \ {e.user} : entry'[v] = entry[v]
    BY <2>2 DEF TypeOK
  <2>4. Rows'
    BY <1>0, <2>2, <2>3, RowsKept DEF RoomInv, Waits, Terminal, QUEUE_TERMINAL_STATES
  <2>5. ASSUME NEW h \in Handlers
        PROVE  Fitting(h)'
    <3>1. CASE pc[h] \in {"idle", "selectLoad"}
      BY <1>0, <3>1 DEF Fitting, RoomInv
    <3>2. CASE pc[h] \notin {"idle", "selectLoad"}
      <4>1. Fitting(h) /\ entry[frame[h].user].state # "WAITING"
        BY <3>2
           DEF RoomInv, Fitting, NoEntry, Terminal, QUEUE_TERMINAL_STATES, Active,
               TypeOK, Steps
      <4>2. frame[h].user \in Users /\ frame[h].user # e.user
        BY <2>2, <3>2, <4>1 DEF Waits, TypeOK
      <4>3. QED BY <1>0, <2>3, <4>1, <4>2, FittingOther
    <3>3. QED BY <3>1, <3>2
  <2>6. Fresh(ticker[t])'
    <3>1. /\ ticker[t].pc' = "processed" /\ ticker[t].seen' = ticker[t].seen
          /\ ticker[t].chosen' = ticker[t].chosen
      BY <1>0, <1>4 DEF TickSave, TypeOK, Ticker
    <3>2. \A f \in ticker[t].chosen : f = e \/ Waits(f)'
      <4> SUFFICES ASSUME NEW f \in ticker[t].chosen, f # e
                   PROVE  Waits(f)'
        OBVIOUS
      <4>1. f.number # e.number /\ Waits(f) /\ f.user \in Users
        <5>1. f \in Snapshot
          BY <1>0 DEF Ticker
        <5>2. QED BY <1>0, <2>2, <5>1 DEF Fresh, Snapshot
      <4>2. f.user # e.user
        BY <2>2, <4>1 DEF Waits
      <4>3. QED BY <2>3, <4>1, <4>2 DEF Waits
    <3>3. QED BY <1>0, <2>1, <2>2, <3>1, <3>2 DEF Fresh
  <2>7. QED BY <2>4, <2>5, <2>6 DEF Polite, OneTick, RoomInv
<1>5. CASE TickProcessed(t)
  <2>1. PICK e \in ticker[t].chosen :
          /\ First(ticker[t].chosen, e)
          /\ ticker' = [ticker EXCEPT ![t] =
                          Promoting(ticker[t].seen, ticker[t].chosen \ {e})]
    BY <1>5 DEF TickProcessed
  <2>2. ticker'[t] = Promoting(ticker[t].seen, ticker[t].chosen \ {e})
        /\ ticker[t].pc = "processed" /\ UNCHANGED entry
    BY <1>5, <2>1 DEF TickProcessed, TypeOK
  <2>3. \A f \in ticker[t].chosen \ {e} : Waits(f)
    <3> SUFFICES ASSUME NEW f \in ticker[t].chosen, f # e, First(ticker[t].chosen, f)
                 PROVE  FALSE
      BY <1>0, <2>2 DEF Fresh
    <3>1. f.number \in Nat /\ e.number \in Nat /\ f.number # e.number
      BY <1>0, <2>2 DEF Fresh, Ticker, Snapshot
    <3>2. QED BY <2>1, <3>1 DEF First
  <2>4. Fresh(ticker[t])'
    <3>1. \A f \in ticker[t].chosen \ {e} : Waits(f)'
      BY <2>2, <2>3 DEF Waits
    <3>2. QED BY <1>0, <2>2, <3>1 DEF Fresh, Promoting, Resting
  <2>5. QED BY <1>1, <2>2, <2>4
<1>6. QED BY <1>2, <1>3, <1>4, <1>5 DEF Tick

LEMMA RoomHolds ==
  ASSUME Polite
  PROVE  Spec => []RoomInv
<1>1. Init => RoomInv
  BY DEF Init, RoomInv, Fitting, Fresh, Rows, Resting
<1>2. ASSUME TypeOK, TypeOK', NumbersDistinct, LimitInv, RoomInv, [Next]_vars
      PROVE  RoomInv'
  <2>1. CASE UNCHANGED vars
    BY <1>2, <2>1, FittingOther, FreshKept DEF vars, RoomInv, Rows, Terminal
  <2>2. Apart
    BY <1>2 DEF LimitInv
  <2>3. QED BY <1>2, <2>1, <2>2, RequestRoom, ServeRoom, TickRoom DEF Next
<1>3. TypeOK /\ TypeOK' /\ NumbersDistinct /\ LimitInv /\ RoomInv /\ [Next]_vars => RoomInv'
  BY <1>2
<1>4. Patient /\ Tickers # {}
  BY DEF Polite, OneTick, Patient
<1>5. Spec => []LimitInv
  BY <1>4, LimitHolds
<1>6. QED BY TypeInvariant, DistinctNumbers, <1>1, <1>3, <1>5, PTL DEF Spec

-----------------------------------------------------------------------------
(* The refinement *)

(* The variables of Room, see RoomSpec.                                     *)
places  == [u \in Users |-> placeOf(entry[u])]
tickets == [u \in Users |-> entry[u].number]

LEMMA Places ==
  ASSUME TypeOK, NEW u \in Users
  PROVE  /\ places[u] = "in" <=> Active(entry[u].state)
         /\ places[u] = "waiting" <=> entry[u].state = "WAITING"
         /\ places[u] \in {"never", "done", "left"} <=> entry[u] = NoEntry \/ Terminal(entry[u])
         /\ tickets[u] = entry[u].number
<1>1. entry[u].state \in QueueState \cup {"NONE"} /\ (entry[u].state = "NONE" <=> entry[u] = NoEntry)
  BY DEF TypeOK, Entry, NoEntry, QueueState
<1>2. places[u] = placeOf(entry[u]) /\ tickets[u] = entry[u].number
  BY DEF places, tickets
<1>3. QED BY <1>1, <1>2
             DEF placeOf, Active, Terminal, QUEUE_TERMINAL_STATES, QueueState, NoEntry

LEMMA OneEntry ==
  ASSUME TypeOK, NEW u \in Users, NEW st \in QueueState, NEW n \in Nat, saveEntry(u, st, n)
  PROVE  /\ places' = [places EXCEPT ![u] = placeOf([state |-> st, number |-> n])]
         /\ tickets' = [tickets EXCEPT ![u] = n]
BY DEF saveEntry, places, tickets, TypeOK

LEMMA StepRoom ==
  ASSUME TypeOK, Polite, NumbersDistinct, LimitInv, RoomInv, [Next]_vars
  PROVE  [Room!Next]_<<places, tickets>>
<1>1. CASE UNCHANGED entry
  BY <1>1 DEF places, tickets
<1>2. ASSUME NEW h \in Handlers, JoinSave(h)
      PROVE  Room!Next
  <2>1. PICK u \in Users : u = frame[h].user
    BY <1>2 DEF JoinSave, TypeOK
  <2>2. PICK n \in Nat : n = frame[h].number
    BY DEF TypeOK, Frame
  <2>3. places' = [places EXCEPT ![u] = "waiting"] /\ tickets' = [tickets EXCEPT ![u] = n]
    BY <1>2, <2>1, <2>2, OneEntry DEF JoinSave, placeOf, QueueState
  <2>4. places[u] \in {"never", "done", "left"} /\ n > tickets[u]
    BY <1>2, <2>1, <2>2, Places DEF JoinSave, RoomInv, Fitting
  <2>5. \A v \in Users : tickets[v] \in Nat
    BY DEF tickets, TypeOK, Entry, NoEntry
  <2>6. ASSUME NEW v \in Users \ {u}
        PROVE  tickets'[v] = tickets[v] /\ n # tickets[v]
    <3>1. tickets'[v] = tickets[v]
      BY <2>3 DEF tickets
    <3>2. CASE entry[v] = NoEntry
      BY <2>2, <2>4, <2>5, <3>1, <3>2 DEF tickets, NoEntry
    <3>3. CASE entry[v] # NoEntry
      <4>1. PICK a \in Tickets : a = TicketOf(v, entry[v].number)
        BY <3>3, WhereTicketsAre
      <4>2. PICK b \in Tickets : b = TicketOf(u, n)
        BY <1>2, <2>1, <2>2, WhereTicketsAre DEF JoinSave, Copied
      <4>3. a.user # b.user
        BY <4>1, <4>2 DEF TicketOf
      <4>4. a.number # b.number
        BY <4>3 DEF NumbersDistinct
      <4>5. QED BY <3>1, <4>1, <4>2, <4>4 DEF TicketOf, tickets
    <3>4. QED BY <3>1, <3>2, <3>3
  <2>7. tickets' \in [Users -> Nat] /\ tickets'[u] = n
    BY <2>2, <2>3, <2>5 DEF tickets
  <2>8. Room!Join(u)
    BY <2>3, <2>4, <2>6, <2>7 DEF Room!Join, Room!MoveTo, Room!Out, places, tickets
  <2>9. QED BY <2>8 DEF Room!Next
<1>3. ASSUME NEW h \in Handlers, Save(h)
      PROVE  [Room!Next]_<<places, tickets>>
  <2>1. PICK u \in Users : u = frame[h].user
    BY <1>3 DEF Save, TypeOK
  <2>2. PICK to \in {"PROCESSING", "COMPLETED"}, n \in Nat : to = frame[h].to /\ n = frame[h].number
    BY <1>3 DEF Save, RoomInv, Fitting, TypeOK, Frame
  <2>3. places[u] = "in" /\ tickets[u] = n
    BY <1>3, <2>1, <2>2, Places DEF Save, RoomInv, Fitting
  <2>4. /\ places' = [places EXCEPT ![u] = placeOf([state |-> to, number |-> n])]
        /\ tickets' = tickets
    <3>1. tickets' = [tickets EXCEPT ![u] = n]
          /\ places' = [places EXCEPT ![u] = placeOf([state |-> to, number |-> n])]
      BY <1>3, <2>1, <2>2, OneEntry DEF Save, QueueState
    <3>2. QED BY <2>3, <3>1 DEF tickets
  <2>5. CASE to = "PROCESSING"
    BY <2>3, <2>4, <2>5 DEF placeOf, places
  <2>6. CASE to = "COMPLETED"
    <3>1. places' = [places EXCEPT ![u] = "done"]
      BY <2>4, <2>6 DEF placeOf
    <3>2. Room!Complete(u)
      BY <2>3, <2>4, <3>1 DEF Room!Complete, Room!MoveTo, places, tickets
    <3>3. QED BY <3>2 DEF Room!Next
  <2>7. QED BY <2>2, <2>5, <2>6
<1>4. ASSUME NEW t \in Tickers, TickSave(t)
      PROVE  Room!Next
  <2>1. PICK e \in ticker[t].chosen : saveEntry(e.user, "READY", e.number)
    BY <1>4 DEF TickSave
  <2>2. /\ ticker[t].pc = "save" /\ e \in ticker[t].chosen /\ Waits(e)
        /\ e.user \in Users /\ e.number \in Nat
    BY <1>4 DEF TickSave, TypeOK, Ticker, Snapshot, RoomInv, Fresh
  <2>3. PICK u \in Users : u = e.user
    BY <2>2
  <2>4. places[u] = "waiting" /\ tickets[u] = e.number
    BY <2>2, <2>3, Places DEF Waits
  <2>5. places' = [places EXCEPT ![u] = "in"] /\ tickets' = tickets
    <3>1. places' = [places EXCEPT ![u] = "in"] /\ tickets' = [tickets EXCEPT ![u] = e.number]
      BY <2>1, <2>2, <2>3, OneEntry DEF placeOf, QueueState
    <3>2. QED BY <2>4, <3>1 DEF tickets
  <2>6. Cardinality(Inside) < Limit
    <3>1. PICK by \in [Users -> Tickers] : Sharing(by, t)
      BY DEF LimitInv, Shared
    <3> DEFINE C == Share(by, t) \cup UsersOf(ticker[t].chosen)
    <3>2. Inside = Share(by, t)
      BY DEF Share, Inside, Polite, OneTick
    <3>3. u \in C /\ u \notin Inside /\ Inside \subseteq C /\ AtMostLimit(C)
      BY <2>2, <2>3, <3>1, <3>2 DEF Sharing, UsersOf, Inside, Waits, Active
    <3> HIDE DEF C
    <3>4. /\ IsFiniteSet(Inside) /\ Cardinality(Inside) <= Cardinality(C)
          /\ Cardinality(Inside) # Cardinality(C)
      BY <3>3, FS_Subset DEF AtMostLimit
    <3>5. Cardinality(Inside) \in Nat /\ Cardinality(C) \in Nat
      BY <3>3, <3>4, FS_CardinalityType DEF AtMostLimit
    <3>6. QED BY <3>3, <3>4, <3>5, LimitAssumption DEF AtMostLimit
  <2>7. Inside = Room!Inside
    BY Places DEF Inside, Room!Inside, places
  <2>8. Room!Cardinality(Room!Inside) = Cardinality(Inside)
    BY <2>7 DEF Room!Cardinality, Cardinality
  <2>9. Room!LetIn(u)
    BY <2>4, <2>5, <2>6, <2>7, <2>8 DEF Room!LetIn, Room!MoveTo, places, tickets
  <2>10. QED BY <2>9 DEF Room!Next
<1>5. QED
  BY <1>1, <1>2, <1>3, <1>4
     DEF Next, Request, JoinStart, LeaveStart, SelectStart, CompleteStart, Serve,
         JoinIncr,
         SelectLoad, InsertHistory, Tick, TickKeys, TickGet, TickProcessed, Abort, TickAbort,
         redis, vars

(***************************************************************************)
(* queueService implements the waiting room of Room while users wait for   *)
(* their answers, nobody leaves and ticks do not overlap: however long ago *)
(* a tick has read an entry, whom it lets in was waiting and there was     *)
(* room; who joins anew gets a later number than any it has had, and one   *)
(* that nobody else holds.                                                 *)
(***************************************************************************)
THEOREM ImplementsRoom ==
  ASSUME Polite
  PROVE  Spec => RoomSpec
<1>1. Init => Room!Init
  BY DEF Init, Room!Init, NoEntry, placeOf
<1>2. TypeOK /\ NumbersDistinct /\ LimitInv /\ RoomInv /\ [Next]_vars =>
        [Room!Next]_<<places, tickets>>
  BY StepRoom
<1>3. (Spec => []LimitInv) /\ (Spec => []RoomInv)
  BY LimitHolds, RoomHolds DEF Polite, Patient, OneTick
<1>4. QED BY TypeInvariant, DistinctNumbers, <1>1, <1>2, <1>3, PTL
          DEF Spec, RoomSpec, Room!Spec, places, tickets

(***************************************************************************)
(* In the same conditions no ticket has two rows in queue_history, and     *)
(* none that has ended goes without one but for a request that has failed  *)
(* half way.                                                               *)
(***************************************************************************)
THEOREM EndsRecordedOnce ==
  ASSUME Polite
  PROVE  Spec => []ExitRecorded
<1>1. RoomInv /\ ExitOnRecord => ExitRecorded
  BY DEF RoomInv, Rows, ExitRecorded
<1>2. QED BY RoomHolds, EndsOnRecord, <1>1, PTL

=============================================================================

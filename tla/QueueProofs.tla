---------------------------- MODULE QueueProofs ----------------------------
(***************************************************************************)
(* Theorems about Queue, for any users, requests, ticks, limit and bounds.  *)
(***************************************************************************)
EXTENDS Queue, FiniteSetTheorems, TLAPS

-----------------------------------------------------------------------------
(* Typing.  The ids of history rows are numbers because history is finite.  *)

TypeInv == TypeOK /\ IsFiniteSet(history)

LEMMA InitTypes == Init => TypeInv
BY UserAssumption, BoundAssumption, FS_EmptySet
   DEF Init, TypeInv, TypeOK, Entry, NoEntry, HistoryRow, Frame, NoFrame, Ticker,
       Resting, UserOrNone, Steps

LEMMA ReturnTypes ==
  ASSUME TypeOK, NEW h \in Handlers, Return(h)
  PROVE  /\ pc' \in [Handlers -> Steps]
         /\ frame' \in [Handlers -> Frame]
         /\ \A g \in Handlers : IF pc'[g] = "idle" THEN frame'[g] = NoFrame
                                ELSE frame'[g].user \in Users /\ frame'[g].to # "NONE"
BY DEF Return, TypeOK, Steps, Frame, NoFrame, UserOrNone

LEMMA CallTypes ==
  ASSUME TypeOK, NEW h \in Handlers, NEW step \in Steps \ {"idle"}, NEW u \in Users,
         NEW to \in QueueState, NEW number \in Nat, Call(h, step, u, to, number)
  PROVE  /\ pc' \in [Handlers -> Steps]
         /\ frame' \in [Handlers -> Frame]
         /\ \A g \in Handlers : IF pc'[g] = "idle" THEN frame'[g] = NoFrame
                                ELSE frame'[g].user \in Users /\ frame'[g].to # "NONE"
BY DEF Call, Goto, TypeOK, Steps, Frame, UserOrNone, QueueState

(* A saved entry is an entry, and nothing else of TypeOK looks at entries   *)
(* but for whether there is one.                                            *)
LEMMA SaveTypes ==
  ASSUME TypeOK, NEW u \in Users, NEW st \in QueueState, NEW n \in Nat,
         saveEntry(u, st, n)
  PROVE  /\ entry' \in [Users -> Entry \cup {NoEntry}]
         /\ \A v \in Users : entry[v] # NoEntry => entry'[v] # NoEntry
BY DEF saveEntry, TypeOK, Entry, NoEntry, QueueState

LEMMA RequestTypes ==
  ASSUME TypeInv, NEW h \in Handlers, Request(h)
  PROVE  TypeInv'
<1>0. UNCHANGED <<redis, history, ticker, aborts>>
  BY DEF Request, JoinStart, LeaveStart, SelectStart, CompleteStart
<1>1. PICK u \in Users, step \in {"joinIncr", "save", "selectLoad"}, to \in QueueState,
          number \in Nat : Call(h, step, u, to, number)
  <2>1. PICK u \in Users : \/ JoinStart(h, u)   \/ LeaveStart(h, u)
                           \/ SelectStart(h, u) \/ CompleteStart(h, u)
    BY DEF Request
  <2>2. entry[u] # NoEntry => entry[u].number \in Nat
    BY DEF TypeInv, TypeOK, Entry
  <2>3. QED
    BY <2>1, <2>2
       DEF JoinStart, LeaveStart, SelectStart, CompleteStart, MayMove, QueueState
<1>2. step \in Steps \ {"idle"}
  BY <1>1 DEF Steps
<1>3. /\ pc' \in [Handlers -> Steps]
      /\ frame' \in [Handlers -> Frame]
      /\ \A g \in Handlers : IF pc'[g] = "idle" THEN frame'[g] = NoFrame
                             ELSE frame'[g].user \in Users /\ frame'[g].to # "NONE"
  BY <1>1, <1>2, CallTypes DEF TypeInv
<1>4. QED BY <1>0, <1>3 DEF TypeInv, TypeOK, redis

LEMMA NewRowTypes ==
  ASSUME TypeInv, NEW h \in Handlers, pc[h] = "history"
  PROVE  NewRow(frame[h]) \in HistoryRow
<1>1. frame[h].user \in Users /\ frame[h].to \in QueueState /\ frame[h].number \in Nat
  BY DEF TypeInv, TypeOK, Frame
<1>2. Cardinality({r \in history : r.user = frame[h].user /\ r.number = frame[h].number
                                   /\ r.status = frame[h].to}) \in Nat
  BY FS_Subset, FS_CardinalityType DEF TypeInv
<1>3. QED BY <1>1, <1>2 DEF NewRow, HistoryRow

LEMMA ServeTypes ==
  ASSUME TypeInv, NEW h \in Handlers, Serve(h)
  PROVE  TypeInv'
<1>0. frame[h] \in Frame /\ (pc[h] # "idle" => frame[h].user \in Users
                                              /\ frame[h].to \in QueueState)
  BY DEF TypeInv, TypeOK, Frame
<1>1. CASE JoinIncr(h)
  <2>1. Incr(counter) \in Nat
    BY DEF Incr, TypeInv, TypeOK
  <2>2. frame'[h].user \in Users /\ frame'[h].to # "NONE" /\ frame' \in [Handlers -> Frame]
    BY <1>0, <1>1, <2>1 DEF JoinIncr, TypeInv, TypeOK, Frame, QueueState
  <2>3. pc' \in [Handlers -> Steps] /\ pc' = [pc EXCEPT ![h] = "joinSave"]
    BY <1>1 DEF JoinIncr, Goto, TypeInv, TypeOK, Steps
  <2>4. \A g \in Handlers : IF pc'[g] = "idle" THEN frame'[g] = NoFrame
                            ELSE frame'[g].user \in Users /\ frame'[g].to # "NONE"
    BY <1>1, <2>2, <2>3 DEF JoinIncr, TypeInv, TypeOK
  <2>5. QED BY <1>1, <2>1, <2>2, <2>3, <2>4 DEF JoinIncr, TypeInv, TypeOK
<1>2. CASE JoinSave(h)
  <2>1. frame[h].number \in Nat /\ "WAITING" \in QueueState
    BY <1>0 DEF Frame, QueueState
  <2>2. /\ entry' \in [Users -> Entry \cup {NoEntry}]
        /\ \A v \in Users : entry[v] # NoEntry => entry'[v] # NoEntry
    BY <1>0, <1>2, <2>1, SaveTypes DEF JoinSave, TypeInv
  <2>3. QED BY <1>2, <2>2, ReturnTypes DEF JoinSave, TypeInv, TypeOK, Ticker
<1>3. CASE SelectLoad(h)
  <2>1. CASE MayMove(frame[h].user, "PROCESSING")
    <3>1. entry[frame[h].user].number \in Nat
      BY <1>0, <1>3, <2>1 DEF SelectLoad, MayMove, TypeInv, TypeOK, Entry
    <3>2. frame'[h].user \in Users /\ frame'[h].to # "NONE" /\ frame' \in [Handlers -> Frame]
      BY <1>0, <1>3, <2>1, <3>1 DEF SelectLoad, TypeInv, TypeOK, Frame, QueueState
    <3>3. pc' \in [Handlers -> Steps] /\ pc' = [pc EXCEPT ![h] = "save"]
      BY <1>3, <2>1 DEF SelectLoad, Goto, TypeInv, TypeOK, Steps
    <3>4. \A g \in Handlers : IF pc'[g] = "idle" THEN frame'[g] = NoFrame
                              ELSE frame'[g].user \in Users /\ frame'[g].to # "NONE"
      BY <1>3, <2>1, <3>2, <3>3 DEF SelectLoad, TypeInv, TypeOK
    <3>5. QED BY <1>3, <3>2, <3>3, <3>4 DEF SelectLoad, TypeInv, TypeOK, redis
  <2>2. CASE ~MayMove(frame[h].user, "PROCESSING")
    BY <1>3, <2>2, ReturnTypes DEF SelectLoad, TypeInv, TypeOK, redis
  <2>3. QED BY <2>1, <2>2
<1>4. CASE Save(h)
  <2>1. /\ entry' \in [Users -> Entry \cup {NoEntry}]
        /\ \A v \in Users : entry[v] # NoEntry => entry'[v] # NoEntry
    BY <1>0, <1>4, SaveTypes DEF Save, TypeInv, Frame
  <2>2. /\ pc' \in [Handlers -> Steps]
        /\ frame' \in [Handlers -> Frame]
        /\ \A g \in Handlers : IF pc'[g] = "idle" THEN frame'[g] = NoFrame
                               ELSE frame'[g].user \in Users /\ frame'[g].to # "NONE"
    BY <1>0, <1>4, ReturnTypes DEF Save, Goto, TypeInv, TypeOK, Steps
  <2>3. QED BY <1>4, <2>1, <2>2 DEF Save, TypeInv, TypeOK, Ticker
<1>5. CASE InsertHistory(h)
  <2>1. history' \subseteq HistoryRow /\ IsFiniteSet(history')
    BY <1>5, NewRowTypes, FS_AddElement DEF InsertHistory, TypeInv, TypeOK
  <2>2. QED BY <1>5, <2>1, ReturnTypes DEF InsertHistory, TypeInv, TypeOK, redis
<1>6. QED BY <1>1, <1>2, <1>3, <1>4, <1>5 DEF Serve

(* The ticks.                                                               *)
LEMMA ChosenWaits ==
  ASSUME NEW seen
  PROVE  Chosen(seen) \subseteq seen /\ \A e \in Chosen(seen) : e.state = "WAITING"
BY DEF Chosen, Waiting

TickerOK(t) ==
  /\ t \in Ticker
  /\ t.chosen \subseteq t.seen
  /\ \A e \in t.chosen : e.state = "WAITING"
  /\ \A u \in t.keys : entry[u] # NoEntry

LEMMA PromotingOK ==
  ASSUME NEW seen \in SUBSET Snapshot, NEW chosen \in SUBSET seen,
         \A e \in chosen : e.state = "WAITING"
  PROVE  TickerOK(Promoting(seen, chosen))
BY DEF Promoting, TickerOK, Ticker, Resting

LEMMA GettingOK ==
  ASSUME NEW seen \in SUBSET Snapshot, NEW keys \in SUBSET Users,
         \A u \in keys : entry[u] # NoEntry
  PROVE  TickerOK([pc |-> "get", keys |-> keys, seen |-> seen, chosen |-> {}])
BY DEF TickerOK, Ticker

LEMMA OneTicker ==
  ASSUME TypeOK, NEW t \in Tickers, NEW new, ticker' = [ticker EXCEPT ![t] = new],
         TickerOK(new)
  PROVE  /\ ticker' \in [Tickers -> Ticker]
         /\ \A s \in Tickers : TickerOK(ticker'[s])
BY DEF TypeOK, TickerOK

LEMMA TickTypes ==
  ASSUME TypeInv, NEW t \in Tickers, Tick(t)
  PROVE  TypeInv'
<1>0. /\ ticker[t] \in Ticker /\ TickerOK(ticker[t])
      /\ ticker[t].seen \in SUBSET Snapshot /\ ticker[t].chosen \in SUBSET ticker[t].seen
  BY DEF TypeInv, TypeOK, TickerOK, Ticker
<1>1. CASE TickKeys(t)
  <2> DEFINE new == [pc |-> "get", keys |-> {u \in Users : entry[u] # NoEntry},
                     seen |-> {}, chosen |-> {}]
  <2>1. TickerOK(new)
    BY DEF TickerOK, Ticker
  <2>2. ticker' = [ticker EXCEPT ![t] = new]
    BY <1>1 DEF TickKeys, redisKeys
  <2> HIDE DEF new
  <2>3. QED BY <1>1, <2>1, <2>2, OneTicker
               DEF TickKeys, TypeInv, TypeOK, TickerOK, redis, calls
<1>2. CASE TickGet(t)
  <2>1. PICK u \in ticker[t].keys :
          LET seen == ticker[t].seen \cup
                        {[user |-> u, state |-> entry[u].state, number |-> entry[u].number]}
              keys == ticker[t].keys \ {u}
          IN ticker' = [ticker EXCEPT ![t] =
               IF keys = {} THEN Promoting(seen, Chosen(seen))
               ELSE [pc |-> "get", keys |-> keys, seen |-> seen, chosen |-> {}]]
    BY <1>2 DEF TickGet
  <2> DEFINE seen == ticker[t].seen \cup
                       {[user |-> u, state |-> entry[u].state, number |-> entry[u].number]}
             keys == ticker[t].keys \ {u}
             new  == IF keys = {} THEN Promoting(seen, Chosen(seen))
                     ELSE [pc |-> "get", keys |-> keys, seen |-> seen, chosen |-> {}]
  <2>2. u \in Users /\ entry[u] \in Entry
    BY <1>0 DEF TickerOK, Ticker, TypeInv, TypeOK
  <2>3. seen \in SUBSET Snapshot
    BY <1>0, <2>2 DEF Snapshot, Entry
  <2>4. keys \in SUBSET Users /\ \A v \in keys : entry[v] # NoEntry
    BY <1>0 DEF TickerOK, Ticker
  <2>5. /\ TickerOK(Promoting(seen, Chosen(seen)))
        /\ TickerOK([pc |-> "get", keys |-> keys, seen |-> seen, chosen |-> {}])
    <3> HIDE DEF seen, keys
    <3>1. QED BY <2>3, <2>4, ChosenWaits, PromotingOK, GettingOK
  <2>6. ticker' = [ticker EXCEPT ![t] = new] /\ TickerOK(new)
    <3>1. ticker' = [ticker EXCEPT ![t] = new]
      BY <2>1
    <3> HIDE DEF seen, keys
    <3>2. QED BY <2>5, <3>1
  <2> HIDE DEF new
  <2>7. QED BY <1>2, <2>6, OneTicker
               DEF TickGet, TypeInv, TypeOK, TickerOK, redis, calls
<1>3. CASE TickSave(t)
  <2>1. PICK e \in ticker[t].chosen : saveEntry(e.user, "READY", e.number)
    BY <1>3 DEF TickSave
  <2>2. e.user \in Users /\ e.number \in Nat /\ "READY" \in QueueState
    BY <1>0 DEF Snapshot, QueueState
  <2>3. /\ entry' \in [Users -> Entry \cup {NoEntry}]
        /\ \A v \in Users : entry[v] # NoEntry => entry'[v] # NoEntry
    BY <2>1, <2>2, SaveTypes DEF TypeInv
  <2>4. ticker' = [ticker EXCEPT ![t] = [ticker[t] EXCEPT !.pc = "processed"]]
    BY <1>3 DEF TickSave
  <2>5. TickerOK([ticker[t] EXCEPT !.pc = "processed"])
    BY <1>0 DEF TickerOK, Ticker
  <2>6. /\ ticker' \in [Tickers -> Ticker]
        /\ \A s \in Tickers : TickerOK(ticker'[s])
    BY <2>4, <2>5, OneTicker DEF TypeInv
  <2>7. QED BY <1>3, <2>3, <2>6 DEF TickSave, TypeInv, TypeOK, TickerOK, Ticker, calls
<1>4. CASE TickProcessed(t)
  <2>1. PICK e \in ticker[t].chosen :
          /\ processed' = e.number
          /\ ticker' = [ticker EXCEPT ![t] =
                          Promoting(ticker[t].seen, ticker[t].chosen \ {e})]
    BY <1>4 DEF TickProcessed
  <2> DEFINE rest == ticker[t].chosen \ {e}
  <2>2. rest \in SUBSET ticker[t].seen /\ \A f \in rest : f.state = "WAITING"
    BY <1>0 DEF TickerOK
  <2> HIDE DEF rest
  <2>3. TickerOK(Promoting(ticker[t].seen, rest))
    BY <1>0, <2>2, PromotingOK
  <2>4. e.number \in Nat
    BY <1>0 DEF Snapshot
  <2>5. /\ ticker' \in [Tickers -> Ticker]
        /\ \A s \in Tickers : TickerOK(ticker'[s])
    BY <2>1, <2>3, OneTicker DEF TypeInv, rest
  <2>6. QED BY <1>4, <2>1, <2>4, <2>5
               DEF TickProcessed, TypeInv, TypeOK, TickerOK, calls
<1>5. QED BY <1>1, <1>2, <1>3, <1>4 DEF Tick

(* Every reachable state is well typed.                                     *)
THEOREM TypesHold == Spec => []TypeInv
<1>1. TypeInv /\ [Next]_vars => TypeInv'
  <2> SUFFICES ASSUME TypeInv, [Next]_vars PROVE TypeInv'
    OBVIOUS
  <2>1. ASSUME NEW h \in Handlers, Request(h) PROVE TypeInv'
    BY <2>1, RequestTypes
  <2>2. ASSUME NEW h \in Handlers, Serve(h) PROVE TypeInv'
    BY <2>2, ServeTypes
  <2>3. ASSUME NEW h \in Handlers, Abort(h) PROVE TypeInv'
    BY <2>3, ReturnTypes, BoundAssumption DEF Abort, TypeInv, TypeOK, redis
  <2>4. ASSUME NEW t \in Tickers, Tick(t) PROVE TypeInv'
    BY <2>4, TickTypes
  <2>5. ASSUME NEW t \in Tickers, TickAbort(t) PROVE TypeInv'
    <3>1. TickerOK(Resting)
      BY DEF TickerOK, Ticker, Resting
    <3>2. QED
      BY <2>5, <3>1, OneTicker, BoundAssumption
         DEF TickAbort, TypeInv, TypeOK, TickerOK, redis, calls
  <2>6. CASE UNCHANGED vars
    BY <2>6 DEF vars, TypeInv, TypeOK
  <2>7. QED BY <2>1, <2>2, <2>3, <2>4, <2>5, <2>6 DEF Next
<1>2. QED BY InitTypes, <1>1, PTL DEF Spec

(* Every reachable state of the waiting room is well typed, whatever the    *)
(* numbers of users, requests and ticks in flight.                          *)
THEOREM TypeInvariant == Spec => []TypeOK
BY TypesHold, PTL DEF TypeInv

-----------------------------------------------------------------------------
(* Numbers.  INCR makes the only new ticket, with a number above all that   *)
(* exist; every other step copies tickets or drops them.                    *)

Copied == {"joinSave", "save", "history"}

TicketOf(u, n) == [user |-> u, number |-> n]

LEMMA WhereTicketsAre ==
  /\ \A u \in Users : entry[u] # NoEntry => TicketOf(u, entry[u].number) \in Tickets
  /\ \A h \in Handlers : pc[h] \in Copied =>
       TicketOf(frame[h].user, frame[h].number) \in Tickets
  /\ \A t \in Tickers : \A e \in ticker[t].seen : TicketOf(e.user, e.number) \in Tickets
  /\ \A r \in history : TicketOf(r.user, r.number) \in Tickets
BY DEF Tickets, TicketOf, Copied

(* The tickets of the next state are among T if those of each place are.    *)
LEMMA TicketsAmong ==
  ASSUME NEW STATE T,
         \A u \in Users : entry'[u] # NoEntry => TicketOf(u, entry'[u].number) \in T,
         \A h \in Handlers : pc'[h] \in Copied =>
           TicketOf(frame'[h].user, frame'[h].number) \in T,
         \A t \in Tickers : \A e \in ticker'[t].seen : TicketOf(e.user, e.number) \in T,
         \A r \in history' : TicketOf(r.user, r.number) \in T
  PROVE  Tickets' \subseteq T
BY DEF Tickets, TicketOf, Copied

LEMMA ServeCopies ==
  ASSUME TypeOK, NEW h \in Handlers,
         JoinSave(h) \/ SelectLoad(h) \/ Save(h) \/ InsertHistory(h)
  PROVE  Tickets' \subseteq Tickets
<1>0. /\ entry \in [Users -> Entry \cup {NoEntry}]
      /\ pc \in [Handlers -> Steps] /\ frame \in [Handlers -> Frame]
      /\ pc[h] # "idle" => frame[h].user \in Users
  BY DEF TypeOK
<1>1. CASE JoinSave(h) \/ Save(h)
  <2>1. TicketOf(frame[h].user, frame[h].number) \in Tickets /\ frame[h].user \in Users
    BY <1>0, <1>1, WhereTicketsAre DEF JoinSave, Save, Copied
  <2>2. \A u \in Users : entry'[u] # NoEntry => TicketOf(u, entry'[u].number) \in Tickets
    BY <1>0, <1>1, <2>1, WhereTicketsAre DEF JoinSave, Save, saveEntry
  <2>3. \A g \in Handlers : pc'[g] \in Copied =>
          pc[g] \in Copied /\ frame'[g] = frame[g]
    BY <1>0, <1>1 DEF JoinSave, Save, Return, Goto, Copied
  <2>4. UNCHANGED <<ticker, history>>
    BY <1>1 DEF JoinSave, Save
  <2>5. QED BY <2>2, <2>3, <2>4, WhereTicketsAre, TicketsAmong
<1>2. CASE SelectLoad(h)
  <2>1. \A g \in Handlers : pc'[g] \in Copied =>
          TicketOf(frame'[g].user, frame'[g].number) \in Tickets
    <3>1. ASSUME MayMove(frame[h].user, "PROCESSING")
          PROVE  TicketOf(frame[h].user, entry[frame[h].user].number) \in Tickets
      BY <1>0, <1>2, <3>1, WhereTicketsAre DEF SelectLoad, MayMove
    <3>2. QED
      BY <1>0, <1>2, <3>1, WhereTicketsAre DEF SelectLoad, Return, Goto, Copied, Frame
  <2>2. UNCHANGED <<entry, ticker, history>>
    BY <1>2 DEF SelectLoad, redis
  <2>3. QED BY <2>1, <2>2, WhereTicketsAre, TicketsAmong
<1>3. CASE InsertHistory(h)
  <2>1. \A r \in history' : TicketOf(r.user, r.number) \in Tickets
    BY <1>3, WhereTicketsAre DEF InsertHistory, NewRow, Copied
  <2>2. \A g \in Handlers : pc'[g] \in Copied =>
          pc[g] \in Copied /\ frame'[g] = frame[g]
    BY <1>0, <1>3 DEF InsertHistory, Return, Copied
  <2>3. UNCHANGED <<entry, ticker>>
    BY <1>3 DEF InsertHistory, redis
  <2>4. QED BY <2>1, <2>2, <2>3, WhereTicketsAre, TicketsAmong
<1>4. QED BY <1>1, <1>2, <1>3

LEMMA RequestCopies ==
  ASSUME TypeOK, NEW h \in Handlers, Request(h)
  PROVE  Tickets' \subseteq Tickets
<1>1. PICK u \in Users : \/ JoinStart(h, u)   \/ LeaveStart(h, u)
                         \/ SelectStart(h, u) \/ CompleteStart(h, u)
  BY DEF Request
<1>2. \A g \in Handlers : pc'[g] \in Copied =>
        TicketOf(frame'[g].user, frame'[g].number) \in Tickets
  BY <1>1, WhereTicketsAre
     DEF JoinStart, LeaveStart, SelectStart, CompleteStart, MayMove, Call, Goto, Copied,
         TypeOK
<1>3. UNCHANGED <<entry, ticker, history>>
  BY <1>1 DEF JoinStart, LeaveStart, SelectStart, CompleteStart, redis
<1>4. QED BY <1>2, <1>3, WhereTicketsAre, TicketsAmong

LEMMA AbortCopies ==
  ASSUME TypeOK, NEW h \in Handlers, Abort(h)
  PROVE  Tickets' \subseteq Tickets
<1>1. \A g \in Handlers : pc'[g] \in Copied => pc[g] \in Copied /\ frame'[g] = frame[g]
  BY DEF Abort, Return, Copied, TypeOK
<1>2. UNCHANGED <<entry, ticker, history>>
  BY DEF Abort, redis
<1>3. QED BY <1>1, <1>2, WhereTicketsAre, TicketsAmong

(* A tick that goes from what it has seen to less, or has read one more.    *)
LEMMA TickCopies ==
  ASSUME TypeOK, NEW t \in Tickers, Tick(t) \/ TickAbort(t)
  PROVE  Tickets' \subseteq Tickets
<1>0. ticker[t] \in Ticker /\ ticker[t].chosen \subseteq ticker[t].seen
  BY DEF TypeOK
<1>1. \A e \in ticker'[t].seen : TicketOf(e.user, e.number) \in Tickets
  <2>1. CASE TickKeys(t) \/ TickAbort(t)
    BY <2>1 DEF TickKeys, TickAbort, Resting, TypeOK
  <2>2. CASE TickGet(t)
    <3>1. PICK u \in ticker[t].keys : ticker'[t].seen \subseteq
            ticker[t].seen \cup
              {[user |-> u, state |-> entry[u].state, number |-> entry[u].number]}
      BY <2>2 DEF TickGet, Promoting, Resting, TypeOK
    <3>2. u \in Users /\ entry[u] # NoEntry
      BY <1>0 DEF TypeOK, Ticker
    <3>3. QED BY <3>1, <3>2, WhereTicketsAre
  <2>3. CASE TickSave(t) \/ TickProcessed(t)
    <3>1. ticker'[t].seen \subseteq ticker[t].seen
      BY <1>0, <2>3 DEF TickSave, TickProcessed, Promoting, Resting, TypeOK, Ticker
    <3>2. QED BY <3>1, WhereTicketsAre
  <2>4. QED BY <2>1, <2>2, <2>3 DEF Tick
<1>2. \A s \in Tickers : s # t => ticker'[s] = ticker[s]
  BY DEF Tick, TickKeys, TickGet, TickSave, TickProcessed, TickAbort, TypeOK
<1>3. \A u \in Users : entry'[u] # NoEntry => TicketOf(u, entry'[u].number) \in Tickets
  <2>1. CASE TickSave(t)
    <3>1. PICK e \in ticker[t].chosen : saveEntry(e.user, "READY", e.number)
      BY <2>1 DEF TickSave
    <3>2. TicketOf(e.user, e.number) \in Tickets
      BY <1>0, WhereTicketsAre
    <3>3. QED BY <3>1, <3>2, WhereTicketsAre DEF saveEntry, TypeOK
  <2>2. CASE UNCHANGED entry
    BY <2>2, WhereTicketsAre
  <2>3. QED BY <2>1, <2>2 DEF Tick, TickKeys, TickGet, TickProcessed, TickAbort, redis
<1>4. UNCHANGED <<pc, frame, history>>
  BY DEF Tick, TickKeys, TickGet, TickSave, TickProcessed, TickAbort, calls
<1>5. QED BY <1>1, <1>2, <1>3, <1>4, WhereTicketsAre, TicketsAmong

(* INCR.                                                                    *)
LEMMA IncrAddsOne ==
  ASSUME TypeOK, NEW h \in Handlers, JoinIncr(h)
  PROVE  /\ Tickets' \subseteq Tickets \cup {TicketOf(frame[h].user, counter + 1)}
         /\ counter' = counter + 1
<1> DEFINE T == Tickets \cup {TicketOf(frame[h].user, counter + 1)}
<1>1. \A g \in Handlers : pc'[g] \in Copied => TicketOf(frame'[g].user, frame'[g].number) \in T
  BY WhereTicketsAre DEF JoinIncr, Goto, Incr, TypeOK, Frame
<1>2. UNCHANGED <<entry, ticker, history>>
  BY DEF JoinIncr
<1>3. counter' = counter + 1
  BY DEF JoinIncr, Incr
<1>4. /\ \A u \in Users : entry'[u] # NoEntry => TicketOf(u, entry'[u].number) \in T
      /\ \A t \in Tickers : \A e \in ticker'[t].seen : TicketOf(e.user, e.number) \in T
      /\ \A r \in history' : TicketOf(r.user, r.number) \in T
  BY <1>2, WhereTicketsAre
<1> HIDE DEF T
<1>5. Tickets' \subseteq T
  BY <1>1, <1>4, TicketsAmong
<1>6. QED BY <1>3, <1>5 DEF T

LEMMA TicketTypes ==
  ASSUME TypeOK
  PROVE  \A a \in Tickets : a.number \in Nat
<1>1. \A u \in Users : entry[u].number \in Nat
  BY DEF TypeOK, Entry, NoEntry
<1>2. \A h \in Handlers : frame[h].number \in Nat
  BY DEF TypeOK, Frame
<1>3. \A t \in Tickers : \A e \in ticker[t].seen : e.number \in Nat
  BY DEF TypeOK, Ticker, Snapshot
<1>4. \A r \in history : r.number \in Nat
  BY DEF TypeOK, HistoryRow
<1>5. QED BY <1>1, <1>2, <1>3, <1>4 DEF Tickets

(* No two users ever wait, are let in or are on record under one number,    *)
(* whatever overlaps, is repeated or fails half way.                        *)
THEOREM DistinctNumbers == Spec => []NumbersDistinct
<1>1. Init => NumbersDistinct
  BY DEF Init, NumbersDistinct, Tickets, NoFrame, Resting
<1>2. TypeOK /\ NumbersDistinct /\ [Next]_vars => NumbersDistinct'
  <2> SUFFICES ASSUME TypeOK, NumbersDistinct, [Next]_vars PROVE NumbersDistinct'
    OBVIOUS
  <2>1. ASSUME NEW h \in Handlers, JoinIncr(h) PROVE NumbersDistinct'
    <3>1. \A a \in Tickets : a.number \in Nat /\ a.number <= counter /\ counter \in Nat
      BY TicketTypes DEF NumbersDistinct, TypeOK
    <3>2. QED BY <2>1, <3>1, IncrAddsOne DEF NumbersDistinct, TicketOf, TypeOK
  <2>2. CASE Tickets' \subseteq Tickets /\ UNCHANGED counter
    BY <2>2 DEF NumbersDistinct
  <2>3. ASSUME NEW h \in Handlers, Request(h) PROVE NumbersDistinct'
    BY <2>2, <2>3, RequestCopies
       DEF Request, JoinStart, LeaveStart, SelectStart, CompleteStart, redis
  <2>4. ASSUME NEW h \in Handlers, Serve(h) PROVE NumbersDistinct'
    BY <2>1, <2>2, <2>4, ServeCopies
       DEF Serve, JoinSave, SelectLoad, Save, InsertHistory, redis
  <2>5. ASSUME NEW h \in Handlers, Abort(h) PROVE NumbersDistinct'
    BY <2>2, <2>5, AbortCopies DEF Abort, redis
  <2>6. ASSUME NEW t \in Tickers, Tick(t) \/ TickAbort(t) PROVE NumbersDistinct'
    BY <2>2, <2>6, TickCopies
       DEF Tick, TickKeys, TickGet, TickSave, TickProcessed, TickAbort, redis
  <2>7. CASE UNCHANGED vars
    BY <2>7 DEF vars, NumbersDistinct, Tickets
  <2>8. QED BY <2>3, <2>4, <2>5, <2>6, <2>7 DEF Next
<1>3. QED BY TypeInvariant, <1>1, <1>2, PTL DEF Spec

-----------------------------------------------------------------------------
(* History.  A terminal state is saved by a transition that goes on to      *)
(* insert the row, and by nothing else.                                     *)

(* The users whose end is not on record, nor about to be.                   *)
Lost == {u \in Users : Terminal(entry[u]) /\ ~OnRecord(u)}

(* Each of them is a request that has failed half way.                      *)
LostInv == IsFiniteSet(Lost) /\ Cardinality(Lost) <= aborts

LEMMA FewerLost ==
  ASSUME TypeOK, LostInv, Lost' \subseteq Lost, aborts' = aborts
  PROVE  LostInv'
<1>1. IsFiniteSet(Lost') /\ Cardinality(Lost') <= Cardinality(Lost)
  BY FS_Subset DEF LostInv
<1>2. Cardinality(Lost') \in Nat /\ Cardinality(Lost) \in Nat
  BY <1>1, FS_CardinalityType DEF LostInv
<1>3. aborts \in Nat
  BY BoundAssumption DEF TypeOK
<1>4. QED BY <1>1, <1>2, <1>3 DEF LostInv

LEMMA OneMoreLost ==
  ASSUME TypeOK, LostInv, NEW u, Lost' \subseteq Lost \cup {u}, aborts' = aborts + 1
  PROVE  LostInv'
<1>0. Cardinality(Lost) \in Nat
  BY FS_CardinalityType DEF LostInv
<1>1. IsFiniteSet(Lost \cup {u}) /\ Cardinality(Lost \cup {u}) <= Cardinality(Lost) + 1
  BY <1>0, FS_AddElement DEF LostInv
<1>2. IsFiniteSet(Lost') /\ Cardinality(Lost') <= Cardinality(Lost \cup {u})
  BY <1>1, FS_Subset
<1>3. /\ Cardinality(Lost') \in Nat /\ Cardinality(Lost) \in Nat
      /\ Cardinality(Lost \cup {u}) \in Nat /\ aborts \in Nat
  BY <1>1, <1>2, FS_CardinalityType, BoundAssumption DEF LostInv, TypeOK
<1>4. QED BY <1>1, <1>2, <1>3 DEF LostInv

(* A user stays on record while its entry, the rows and the requests do.    *)
LEMMA StaysOnRecord ==
  ASSUME NEW u \in Users, entry'[u] = entry[u], history \subseteq history',
         \A h \in Handlers : pc[h] = "history" /\ frame[h].user = u =>
           \/ pc'[h] = "history" /\ frame'[h] = frame[h]
           \/ \E r \in history' : r.user = u /\ r.number = frame[h].number
                                    /\ r.status = frame[h].to,
         OnRecord(u)
  PROVE  OnRecord(u)'
<1>1. CASE \E r \in history : r.user = u /\ r.number = entry[u].number
                               /\ r.status = entry[u].state
  BY <1>1 DEF OnRecord
<1>2. CASE \E h \in Handlers : pc[h] = "history"
             /\ frame[h] = [user |-> u, to |-> entry[u].state, number |-> entry[u].number]
  BY <1>2 DEF OnRecord
<1>3. QED BY <1>1, <1>2 DEF OnRecord

LEMMA LostStep ==
  ASSUME TypeOK, LostInv, [Next]_vars
  PROVE  LostInv'
<1>1. ASSUME NEW h \in Handlers, Request(h)
      PROVE  LostInv'
  <2>1. /\ pc[h] = "idle" /\ UNCHANGED <<redis, history, aborts>>
        /\ \A g \in Handlers \ {h} : pc'[g] = pc[g] /\ frame'[g] = frame[g]
    BY <1>1
       DEF Request, JoinStart, LeaveStart, SelectStart, CompleteStart, MayCall, Call,
                Goto, TypeOK
  <2>2. Lost' \subseteq Lost
    BY <2>1, StaysOnRecord DEF Lost, Terminal, redis
  <2>3. QED BY <2>1, <2>2, FewerLost
<1>2. ASSUME NEW h \in Handlers, JoinSave(h) \/ Save(h)
      PROVE  LostInv'
  <2>0. PICK u \in Users : u = frame[h].user
    BY <1>2 DEF JoinSave, Save, TypeOK
  <2>1. /\ pc[h] \in {"joinSave", "save"} /\ frame[h] \in Frame
        /\ UNCHANGED <<history, aborts>>
        /\ \A g \in Handlers \ {h} : pc'[g] = pc[g] /\ frame'[g] = frame[g]
        /\ \A v \in Users \ {u} : entry'[v] = entry[v]
    BY <1>2, <2>0 DEF JoinSave, Save, saveEntry, Return, Goto, TypeOK
  <2>2. Terminal(entry'[u]) => OnRecord(u)'
    <3>1. CASE JoinSave(h)
      BY <2>0, <3>1 DEF JoinSave, saveEntry, Terminal, QUEUE_TERMINAL_STATES, TypeOK
    <3>2. CASE Save(h)
      <4>1. entry'[u] = [state |-> frame[h].to, number |-> frame[h].number]
        BY <2>0, <3>2 DEF Save, saveEntry, TypeOK
      <4>2. CASE Recorded(frame[h].to)
        <5>1. pc'[h] = "history" /\ frame'[h] = frame[h]
          BY <3>2, <4>2 DEF Save, Goto, TypeOK
        <5>2. frame[h] = [user |-> u, to |-> frame[h].to, number |-> frame[h].number]
          BY <2>0, <2>1 DEF Frame
        <5>3. frame'[h] = [user |-> u, to |-> entry'[u].state, number |-> entry'[u].number]
          BY <4>1, <5>1, <5>2
        <5>4. QED BY <5>1, <5>3 DEF OnRecord
      <4>3. CASE ~Recorded(frame[h].to)
        BY <4>1, <4>3 DEF Terminal, Recorded
      <4>4. QED BY <4>2, <4>3
    <3>3. QED BY <1>2, <3>1, <3>2
  <2>3. \A v \in Users \ {u} : OnRecord(v) => OnRecord(v)'
    BY <2>1, StaysOnRecord
  <2>4. Lost' \subseteq Lost
    BY <2>1, <2>2, <2>3 DEF Lost, Terminal
  <2>5. QED BY <2>1, <2>4, FewerLost
<1>3. ASSUME NEW h \in Handlers, JoinIncr(h) \/ SelectLoad(h)
      PROVE  LostInv'
  <2>1. /\ pc[h] \in {"joinIncr", "selectLoad"} /\ UNCHANGED <<entry, history, aborts>>
        /\ \A g \in Handlers \ {h} : pc'[g] = pc[g] /\ frame'[g] = frame[g]
    BY <1>3 DEF JoinIncr, SelectLoad, Goto, Return, redis, TypeOK
  <2>2. Lost' \subseteq Lost
    BY <2>1, StaysOnRecord DEF Lost, Terminal
  <2>3. QED BY <2>1, <2>2, FewerLost
<1>4. ASSUME NEW h \in Handlers, InsertHistory(h)
      PROVE  LostInv'
  <2>1. /\ UNCHANGED <<entry, aborts>> /\ history' = history \cup {NewRow(frame[h])}
        /\ \A g \in Handlers \ {h} : pc'[g] = pc[g] /\ frame'[g] = frame[g]
    BY <1>4 DEF InsertHistory, Return, redis, TypeOK
  <2>2. \E r \in history' : r.user = frame[h].user /\ r.number = frame[h].number
                            /\ r.status = frame[h].to
    <3> DEFINE r == NewRow(frame[h])
    <3>1. r.user = frame[h].user /\ r.number = frame[h].number /\ r.status = frame[h].to
      BY DEF NewRow
    <3>2. r \in history'
      BY <2>1
    <3> HIDE DEF r
    <3>3. QED BY <3>1, <3>2
  <2>3. Lost' \subseteq Lost
    BY <2>1, <2>2, StaysOnRecord DEF Lost, Terminal
  <2>4. QED BY <2>1, <2>3, FewerLost
<1>5. ASSUME NEW h \in Handlers, Abort(h)
      PROVE  LostInv'
  <2>1. /\ UNCHANGED <<entry, history>> /\ aborts' = aborts + 1
        /\ \A g \in Handlers \ {h} : pc'[g] = pc[g] /\ frame'[g] = frame[g]
    BY <1>5 DEF Abort, Return, redis, TypeOK
  <2>2. Lost' \subseteq Lost \cup {frame[h].user}
    BY <2>1, StaysOnRecord DEF Lost, Terminal
  <2>3. QED BY <2>1, <2>2, OneMoreLost
<1>6. ASSUME NEW t \in Tickers, TickSave(t)
      PROVE  LostInv'
  <2>1. PICK u \in Users : /\ entry'[u].state = "READY"
                           /\ \A v \in Users \ {u} : entry'[v] = entry[v]
    BY <1>6 DEF TickSave, saveEntry, TypeOK, Ticker, Snapshot
  <2>2. UNCHANGED <<history, pc, frame, aborts>>
    BY <1>6 DEF TickSave, calls
  <2>3. Lost' \subseteq Lost
    BY <2>1, <2>2, StaysOnRecord DEF Lost, Terminal, QUEUE_TERMINAL_STATES
  <2>4. QED BY <2>2, <2>3, FewerLost
<1>7. CASE UNCHANGED <<entry, history, pc, frame, aborts>>
  <2>1. Lost' \subseteq Lost
    BY <1>7, StaysOnRecord DEF Lost, Terminal
  <2>2. QED BY <1>7, <2>1, FewerLost
<1>8. ASSUME NEW t \in Tickers, TickAbort(t)
      PROVE  LostInv'
  <2>1. UNCHANGED <<entry, history, pc, frame>> /\ aborts' = aborts + 1
    BY <1>8 DEF TickAbort, redis, calls
  <2>2. Lost' \subseteq Lost \cup {0}
    BY <2>1, StaysOnRecord DEF Lost, Terminal
  <2>3. QED BY <2>1, <2>2, OneMoreLost
<1>9. QED
  BY <1>1, <1>2, <1>3, <1>4, <1>5, <1>6, <1>7, <1>8
     DEF Next, Serve, Tick, TickKeys, TickGet, TickProcessed, vars, redis, calls

(***************************************************************************)
(* Every ticket that ends has its row in queue_history, or a transition    *)
(* about to insert it, but for as many users as requests have failed half  *)
(* way: nothing that overlaps, however stale what it has read, makes a     *)
(* record be lost (transition).                                            *)
(***************************************************************************)
THEOREM EndsOnRecord == Spec => []ExitOnRecord
<1>1. Init => LostInv
  <2>1. Init => Lost = {}
    BY DEF Init, Lost, Terminal, NoEntry, QUEUE_TERMINAL_STATES
  <2>2. QED BY <2>1, FS_EmptySet DEF Init, LostInv
<1>2. TypeOK /\ LostInv /\ [Next]_vars => LostInv'
  BY LostStep
<1>3. LostInv => ExitOnRecord
  BY DEF LostInv, Lost, ExitOnRecord
<1>4. QED BY TypeInvariant, <1>1, <1>2, <1>3, PTL DEF Spec

-----------------------------------------------------------------------------
(* Order.  Whoever has been let in does not wait again under its number, as *)
(* a number that is about to be saved by joinQueue is nowhere else.         *)

(* The entry still is as it was read.                                       *)
Waits(e) == entry[e.user] = [state |-> "WAITING", number |-> e.number]

(* A number that is to be saved is in no entry, no other request and in     *)
(* nothing a tick has read; and nothing but joinQueue saves WAITING.        *)
Unused(h) ==
  /\ pc[h] = "joinSave" =>
       LET n == frame[h].number IN
       /\ \A u \in Users : entry[u] # NoEntry => entry[u].number # n
       /\ \A g \in Handlers \ {h} : pc[g] \in {"joinSave", "save"} => frame[g].number # n
       /\ \A t \in Tickers : \A e \in ticker[t].seen : e.number # n
  /\ pc[h] \in {"selectLoad", "save"} => frame[h].to # "WAITING"

(* Whoever comes before one that is chosen is chosen, or does not wait.     *)
InTurn(t) ==
  /\ IsFiniteSet(t.seen)
  /\ t.pc \in {"save", "processed"} =>
       \A e \in t.chosen, f \in Waiting(t.seen) :
         f.number < e.number => f \in t.chosen \/ ~Waits(f)
  /\ t.pc = "processed" => \A e \in t.chosen : First(t.chosen, e) => ~Waits(e)

(* The inductive invariant of the order.                                    *)
OrderInv ==
  /\ \A h \in Handlers : Unused(h)
  /\ \A t \in Tickers : InTurn(ticker[t])

(* A tick chooses from the smallest number on.                              *)
LEMMA ChosenFromFirst ==
  ASSUME NEW seen \in SUBSET Snapshot, IsFiniteSet(seen), NEW e \in Chosen(seen),
         NEW f \in Waiting(seen), f.number < e.number
  PROVE  f \in Chosen(seen)
<1> DEFINE below(d) == {c \in Waiting(seen) : Before(c, d)}
           active == {d \in seen : Active(d.state)}
<1>1. Slots(seen) \in Nat
  <2>1. IsFiniteSet(active)
    BY FS_Subset
  <2>2. Cardinality(active) \in Nat
    BY <2>1, FS_CardinalityType
  <2>3. QED BY <2>2, LimitAssumption DEF Slots
<1>2. e \in seen /\ f \in seen /\ Cardinality(below(e)) < Slots(seen)
  BY DEF Chosen, Waiting
<1>3. \A d \in seen : d.number \in Nat
  BY DEF Snapshot
<1>4. below(f) \subseteq below(e) /\ below(e) \subseteq seen
  BY <1>2, <1>3 DEF Before, Waiting
<1> HIDE DEF below
<1>5. /\ IsFiniteSet(below(e)) /\ IsFiniteSet(below(f))
      /\ Cardinality(below(f)) <= Cardinality(below(e))
  BY <1>4, FS_Subset
<1>6. Cardinality(below(f)) \in Nat /\ Cardinality(below(e)) \in Nat
  BY <1>5, FS_CardinalityType
<1>7. Cardinality(below(f)) < Slots(seen)
  BY <1>1, <1>2, <1>5, <1>6
<1>8. QED BY <1>7 DEF Chosen, below

(* What has been read is told apart by its number.                          *)
LEMMA SameNumber ==
  ASSUME TypeOK, NumbersDistinct, NEW t \in Tickers,
         NEW e \in ticker[t].chosen, NEW f \in ticker[t].chosen, e.number = f.number
  PROVE  e = f
<1>1. /\ e \in Snapshot /\ f \in Snapshot /\ e.state = "WAITING" /\ f.state = "WAITING"
      /\ e \in ticker[t].seen /\ f \in ticker[t].seen
  BY DEF TypeOK, Ticker
<1>2. TicketOf(e.user, e.number) \in Tickets /\ TicketOf(f.user, f.number) \in Tickets
  BY <1>1, WhereTicketsAre
<1>3. e.user = f.user
  BY <1>2 DEF NumbersDistinct, TicketOf
<1>4. QED BY <1>1, <1>3 DEF Snapshot

(* A step under which nobody that was read comes to wait again.             *)
LEMMA TurnKept ==
  ASSUME NEW t, InTurn(ticker[t]), ticker'[t] = ticker[t],
         ticker[t].chosen \subseteq ticker[t].seen,
         \A f \in ticker[t].seen : Waits(f)' => Waits(f)
  PROVE  InTurn(ticker[t])'
BY DEF InTurn, Waiting, First

LEMMA ServeOrder ==
  ASSUME TypeOK, NumbersDistinct, OrderInv, NEW h \in Handlers, Serve(h)
  PROVE  OrderInv'
<1>0. /\ pc \in [Handlers -> Steps] /\ frame \in [Handlers -> Frame]
      /\ entry \in [Users -> Entry \cup {NoEntry}]
      /\ pc[h] # "idle" => frame[h].user \in Users
      /\ \A t \in Tickers : ticker[t].chosen \subseteq ticker[t].seen
  BY DEF TypeOK
<1>a. \A g \in Handlers \ {h} : pc'[g] = pc[g] /\ frame'[g] = frame[g]
  BY <1>0 DEF Serve, JoinIncr, JoinSave, SelectLoad, Save, InsertHistory, Goto, Return
<1>b. UNCHANGED ticker
  BY DEF Serve, JoinIncr, JoinSave, SelectLoad, Save, InsertHistory
<1>c. ASSUME \A g \in Handlers : Unused(g)',
             \A t \in Tickers : \A f \in ticker[t].seen : Waits(f)' => Waits(f)
      PROVE  OrderInv'
  BY <1>0, <1>b, <1>c, TurnKept DEF OrderInv
<1>1. CASE JoinIncr(h)
  <2>1. /\ pc'[h] = "joinSave" /\ frame'[h].number = counter + 1 /\ UNCHANGED entry
        /\ pc[h] = "joinIncr"
    BY <1>0, <1>1 DEF JoinIncr, Goto, Incr, Frame
  <2>2. \A a \in Tickets : a.number # counter + 1
    BY TicketTypes DEF NumbersDistinct, TypeOK
  <2>3. Unused(h)'
    BY <1>a, <1>b, <2>1, <2>2, WhereTicketsAre DEF Unused, TicketOf, Copied
  <2>4. ASSUME NEW g \in Handlers \ {h} PROVE Unused(g)'
    <3>1. pc[g] = "joinSave" => frame[g].number # counter + 1
      BY <2>2, WhereTicketsAre DEF TicketOf, Copied
    <3>2. QED BY <1>a, <1>b, <2>1, <3>1 DEF OrderInv, Unused
  <2>5. QED BY <1>c, <2>1, <2>3, <2>4 DEF Waits
<1>2. CASE JoinSave(h)
  <2>1. /\ pc[h] = "joinSave" /\ pc'[h] = "idle"
        /\ entry' = [entry EXCEPT ![frame[h].user] =
                       [state |-> "WAITING", number |-> frame[h].number]]
    BY <1>0, <1>2 DEF JoinSave, saveEntry, Return
  <2>2. ASSUME NEW g \in Handlers \ {h} PROVE Unused(g)'
    BY <1>0, <1>a, <1>b, <2>1 DEF OrderInv, Unused
  <2>3. ASSUME NEW t \in Tickers, NEW f \in ticker[t].seen, Waits(f)' PROVE Waits(f)
    <3>1. f.number # frame[h].number
      BY <2>1 DEF OrderInv, Unused
    <3>2. QED BY <1>0, <2>1, <2>3, <3>1 DEF Waits
  <2>4. QED BY <1>c, <2>1, <2>2, <2>3 DEF Unused
<1>3. CASE SelectLoad(h)
  <2>1. /\ pc[h] = "selectLoad" /\ pc'[h] \in {"idle", "save"}
        /\ pc'[h] = "save" =>
             /\ frame'[h].to # "WAITING"
             /\ \E u \in Users : entry[u] # NoEntry /\ frame'[h].number = entry[u].number
    BY <1>0, <1>3 DEF SelectLoad, Goto, Return, redis, Frame, MayMove, OrderInv, Unused
  <2>2. UNCHANGED entry
    BY <1>3 DEF SelectLoad, redis
  <2>3. ASSUME NEW g \in Handlers \ {h} PROVE Unused(g)'
    BY <1>a, <1>b, <2>1, <2>2 DEF OrderInv, Unused
  <2>4. QED BY <1>c, <2>1, <2>2, <2>3 DEF Unused, Waits
<1>4. CASE Save(h)
  <2>1. /\ pc[h] = "save" /\ pc'[h] \in {"idle", "history"}
        /\ entry' = [entry EXCEPT ![frame[h].user] =
                       [state |-> frame[h].to, number |-> frame[h].number]]
    BY <1>0, <1>4 DEF Save, saveEntry, Goto, Return
  <2>2. frame[h].to # "WAITING"
    BY <2>1 DEF OrderInv, Unused
  <2>3. ASSUME NEW g \in Handlers \ {h} PROVE Unused(g)'
    BY <1>0, <1>a, <1>b, <2>1 DEF OrderInv, Unused
  <2>4. \A t \in Tickers : \A f \in ticker[t].seen : Waits(f)' => Waits(f)
    BY <1>0, <2>1, <2>2 DEF Waits
  <2>5. QED BY <1>c, <2>1, <2>3, <2>4 DEF Unused
<1>5. CASE InsertHistory(h)
  <2>1. UNCHANGED entry /\ pc'[h] = "idle"
    BY <1>0, <1>5 DEF InsertHistory, redis, Return
  <2>2. ASSUME NEW g \in Handlers \ {h} PROVE Unused(g)'
    BY <1>a, <1>b, <2>1 DEF OrderInv, Unused
  <2>3. QED BY <1>c, <2>1, <2>2 DEF Unused, Waits
<1>6. QED BY <1>1, <1>2, <1>3, <1>4, <1>5 DEF Serve

LEMMA RequestOrder ==
  ASSUME TypeOK, OrderInv, NEW h \in Handlers, Request(h) \/ Abort(h)
  PROVE  OrderInv'
<1>1. /\ UNCHANGED <<entry, ticker>>
      /\ \A g \in Handlers \ {h} : pc'[g] = pc[g] /\ frame'[g] = frame[g]
  BY DEF Request, JoinStart, LeaveStart, SelectStart, CompleteStart, Abort, Call, Goto,
         Return,
         redis, TypeOK
<1>2. /\ pc'[h] # "joinSave"
      /\ pc'[h] \in {"selectLoad", "save"} => frame'[h].to # "WAITING"
      /\ pc'[h] = "save" =>
           \E u \in Users : entry[u] # NoEntry /\ frame'[h].number = entry[u].number
  BY DEF Request, JoinStart, LeaveStart, SelectStart, CompleteStart, Abort, Call, Goto,
         Return,
         MayMove, TypeOK
<1>3. ASSUME NEW g \in Handlers PROVE Unused(g)'
  BY <1>1, <1>2 DEF OrderInv, Unused
<1>4. \A t \in Tickers : InTurn(ticker[t])'
  BY <1>1, TurnKept DEF OrderInv, Waits, TypeOK
<1>5. QED BY <1>3, <1>4 DEF OrderInv

(* The step of a tick: what it has read becomes less, or one entry more.    *)
LEMMA TickUnused ==
  ASSUME TypeOK, OrderInv, NEW t \in Tickers, Tick(t) \/ TickAbort(t)
  PROVE  \A h \in Handlers : Unused(h)'
<1>0. ticker[t] \in Ticker /\ ticker[t].chosen \subseteq ticker[t].seen
  BY DEF TypeOK
<1>1. \A e \in ticker'[t].seen : e \in ticker[t].seen \/ \E u \in Users :
        entry[u] # NoEntry /\ e.number = entry[u].number
  <2>1. CASE TickKeys(t) \/ TickAbort(t)
    BY <2>1 DEF TickKeys, TickAbort, Resting, TypeOK
  <2>2. CASE TickGet(t)
    <3>1. PICK u \in ticker[t].keys : ticker'[t].seen \subseteq
            ticker[t].seen \cup
              {[user |-> u, state |-> entry[u].state, number |-> entry[u].number]}
      BY <2>2 DEF TickGet, Promoting, Resting, TypeOK
    <3>2. u \in Users /\ entry[u] # NoEntry
      BY <1>0 DEF TypeOK, Ticker
    <3>3. QED BY <3>1, <3>2
  <2>3. CASE TickSave(t) \/ TickProcessed(t)
    BY <1>0, <2>3 DEF TickSave, TickProcessed, Promoting, Resting, TypeOK, Ticker
  <2>4. QED BY <2>1, <2>2, <2>3 DEF Tick
<1>2. \A s \in Tickers \ {t} : ticker'[s] = ticker[s]
  BY DEF Tick, TickKeys, TickGet, TickSave, TickProcessed, TickAbort, TypeOK
<1>3. UNCHANGED <<pc, frame>>
  BY DEF Tick, TickKeys, TickGet, TickSave, TickProcessed, TickAbort, calls
<1>4. \A u \in Users : entry'[u] # NoEntry =>
        \/ entry[u] # NoEntry /\ entry'[u].number = entry[u].number
        \/ \E e \in ticker[t].seen : entry'[u].number = e.number
  <2>1. CASE TickSave(t)
    <3>1. PICK e \in ticker[t].chosen : saveEntry(e.user, "READY", e.number)
      BY <2>1 DEF TickSave
    <3>2. QED BY <1>0, <3>1 DEF saveEntry, TypeOK
  <2>2. CASE UNCHANGED entry
    BY <2>2
  <2>3. QED BY <2>1, <2>2 DEF Tick, TickKeys, TickGet, TickProcessed, TickAbort, redis
<1>5. QED BY <1>1, <1>2, <1>3, <1>4 DEF OrderInv, Unused

LEMMA TickOrder ==
  ASSUME TypeOK, NumbersDistinct, OrderInv, NEW t \in Tickers, Tick(t) \/ TickAbort(t)
  PROVE  OrderInv'
<1>0. /\ ticker \in [Tickers -> Ticker] /\ entry \in [Users -> Entry \cup {NoEntry}]
      /\ \A s \in Tickers : ticker[s].chosen \subseteq ticker[s].seen
      /\ InTurn(ticker[t])
  BY DEF TypeOK, OrderInv
<1>1. \A h \in Handlers : Unused(h)'
  BY TickUnused
<1>2. \A s \in Tickers \ {t} : ticker'[s] = ticker[s]
  BY DEF Tick, TickKeys, TickGet, TickSave, TickProcessed, TickAbort, TypeOK
<1>3. ASSUME NEW f, f.user \in Users, Waits(f)' PROVE Waits(f)
  <2>1. CASE TickSave(t)
    <3>1. PICK e \in ticker[t].chosen : saveEntry(e.user, "READY", e.number)
      BY <2>1 DEF TickSave
    <3>2. QED BY <1>0, <1>3, <3>1 DEF saveEntry, Waits
  <2>2. CASE UNCHANGED entry
    BY <1>3, <2>2 DEF Waits
  <2>3. QED BY <2>1, <2>2 DEF Tick, TickKeys, TickGet, TickProcessed, TickAbort, redis
<1>4. \A s \in Tickers : \A f \in ticker[s].seen : f.user \in Users
  BY <1>0 DEF Ticker, Snapshot
<1>5. ASSUME NEW s \in Tickers \ {t} PROVE InTurn(ticker[s])'
  BY <1>0, <1>2, <1>3, <1>4, TurnKept DEF OrderInv
<1>6. InTurn(ticker[t])'
  <2>1. CASE TickKeys(t) \/ TickAbort(t)
    BY <1>0, <2>1, FS_EmptySet DEF TickKeys, TickAbort, Resting, InTurn
  <2>2. CASE TickGet(t)
    <3>1. PICK u \in ticker[t].keys :
            LET seen == ticker[t].seen \cup
                          {[user |-> u, state |-> entry[u].state, number |-> entry[u].number]}
                keys == ticker[t].keys \ {u}
            IN ticker' = [ticker EXCEPT ![t] =
                 IF keys = {} THEN Promoting(seen, Chosen(seen))
                 ELSE [pc |-> "get", keys |-> keys, seen |-> seen, chosen |-> {}]]
      BY <2>2 DEF TickGet
    <3> DEFINE e == [user |-> u, state |-> entry[u].state, number |-> entry[u].number]
               seen == ticker[t].seen \cup {e}
    <3>2. e \in Snapshot
      <4>1. u \in Users /\ entry[u] # NoEntry
        BY <1>0 DEF TypeOK, Ticker
      <4>2. QED BY <1>0, <4>1 DEF Entry, Snapshot
    <3>3. seen \in SUBSET Snapshot /\ IsFiniteSet(seen)
      <4>1. ticker[t].seen \in SUBSET Snapshot /\ IsFiniteSet(ticker[t].seen)
        BY <1>0 DEF Ticker, InTurn
      <4> HIDE DEF e
      <4>2. QED BY <3>2, <4>1, FS_AddElement
    <3>4. \/ ticker'[t] = Promoting(seen, Chosen(seen))
          \/ ticker'[t] = [pc |-> "get", keys |-> ticker[t].keys \ {u}, seen |-> seen,
                           chosen |-> {}]
      BY <1>0, <3>1
    <3> HIDE DEF seen
    <3>5. CASE ticker'[t].pc = "save"
      <4>1. ticker'[t].seen = seen /\ ticker'[t].chosen = Chosen(seen)
        BY <3>4, <3>5 DEF Promoting, Resting
      <4>2. QED BY <3>3, <3>5, <4>1, ChosenFromFirst DEF InTurn
    <3>6. CASE ticker'[t].pc # "save"
      <4>1. ticker'[t].pc \in {"get", "idle"} /\ ticker'[t].seen \in {seen, {}}
        BY <3>4, <3>6 DEF Promoting, Resting
      <4>2. QED BY <3>3, <4>1, FS_EmptySet DEF InTurn
    <3>7. QED BY <3>5, <3>6
  <2>3. CASE TickSave(t)
    <3>1. PICK e \in ticker[t].chosen :
            First(ticker[t].chosen, e) /\ saveEntry(e.user, "READY", e.number)
      BY <2>3 DEF TickSave
    <3>2. /\ ticker'[t].seen = ticker[t].seen /\ ticker'[t].chosen = ticker[t].chosen
          /\ ticker[t].pc = "save" /\ ticker'[t].pc = "processed"
      BY <1>0, <2>3 DEF TickSave, Ticker
    <3>3. ~Waits(e)'
      BY <1>0, <1>4, <3>1 DEF saveEntry, Waits
    <3>4. ASSUME NEW f \in ticker[t].chosen, First(ticker[t].chosen, f) PROVE f = e
      <4>1. e.number \in Nat /\ f.number \in Nat
        BY <1>0 DEF Ticker, Snapshot
      <4>2. e.number = f.number
        BY <3>1, <3>4, <4>1 DEF First
      <4>3. QED BY <4>2, SameNumber
    <3>5. \A f \in ticker[t].seen : Waits(f)' => Waits(f)
      BY <1>3, <1>4
    <3>6. QED BY <1>0, <3>2, <3>3, <3>4, <3>5 DEF InTurn, Waiting
  <2>4. CASE TickProcessed(t)
    <3>1. PICK e \in ticker[t].chosen :
            /\ First(ticker[t].chosen, e)
            /\ ticker' = [ticker EXCEPT ![t] =
                            Promoting(ticker[t].seen, ticker[t].chosen \ {e})]
      BY <2>4 DEF TickProcessed
    <3>2. ticker[t].pc = "processed" /\ ~Waits(e) /\ UNCHANGED entry
      BY <1>0, <2>4, <3>1 DEF TickProcessed, InTurn
    <3>3. CASE ticker[t].chosen \ {e} = {}
      BY <1>0, <3>1, <3>3, FS_EmptySet DEF Promoting, Resting, InTurn
    <3>4. CASE ticker[t].chosen \ {e} # {}
      <4>1. /\ ticker'[t].pc = "save" /\ ticker'[t].seen = ticker[t].seen
            /\ ticker'[t].chosen = ticker[t].chosen \ {e}
        BY <1>0, <3>1, <3>4 DEF Promoting
      <4>2. QED BY <1>0, <3>2, <4>1 DEF InTurn, Waiting, Waits
    <3>5. QED BY <3>3, <3>4
  <2>5. QED BY <2>1, <2>2, <2>3, <2>4 DEF Tick
<1>7. QED BY <1>1, <1>5, <1>6 DEF OrderInv

(***************************************************************************)
(* A tick lets users in by number: whoever it has read as WAITING with a   *)
(* smaller number is not WAITING with it any more when the next is let in, *)
(* however many ticks overlap and whatever fails half way (tick).          *)
(***************************************************************************)
THEOREM ServesInOrder == Spec => InOrder
<1>1. Init => OrderInv
  BY FS_EmptySet DEF Init, OrderInv, Unused, InTurn, Resting
<1>2. TypeOK /\ NumbersDistinct /\ OrderInv /\ [Next]_vars => OrderInv'
  <2> SUFFICES ASSUME TypeOK, NumbersDistinct, OrderInv, [Next]_vars PROVE OrderInv'
    OBVIOUS
  <2>1. ASSUME NEW h \in Handlers, Serve(h) PROVE OrderInv'
    BY <2>1, ServeOrder
  <2>2. ASSUME NEW h \in Handlers, Request(h) \/ Abort(h) PROVE OrderInv'
    BY <2>2, RequestOrder
  <2>3. ASSUME NEW t \in Tickers, Tick(t) \/ TickAbort(t) PROVE OrderInv'
    BY <2>3, TickOrder
  <2>4. CASE UNCHANGED vars
    BY <2>4 DEF vars, OrderInv, Unused, InTurn, Waits
  <2>5. QED BY <2>1, <2>2, <2>3, <2>4 DEF Next
<1>3. TypeOK /\ OrderInv /\ [Next]_vars =>
        [\A t \in Tickers : \A e \in ticker[t].chosen : \A f \in ticker[t].seen :
           ticker[t].pc = "save" /\ ticker'[t].pc = "processed" /\ First(ticker[t].chosen, e)
             /\ f.state = "WAITING" /\ f.number < e.number =>
             entry[f.user] # [state |-> "WAITING", number |-> f.number]]_vars
  <2> SUFFICES ASSUME TypeOK, OrderInv, NEW t \in Tickers, NEW e \in ticker[t].chosen,
                      NEW f \in ticker[t].seen, ticker[t].pc = "save",
                      First(ticker[t].chosen, e), f.state = "WAITING", f.number < e.number
               PROVE  ~Waits(f)
    BY DEF Waits
  <2>1. f.number \in Nat /\ e.number \in Nat
    BY DEF TypeOK, Ticker, Snapshot
  <2>2. f \notin ticker[t].chosen
    BY <2>1 DEF First
  <2>3. QED BY <2>2 DEF OrderInv, InTurn, Waiting
<1>4. QED BY TypeInvariant, DistinctNumbers, <1>1, <1>2, <1>3, PTL DEF Spec, InOrder

=============================================================================

-------------------------- MODULE QueueScreenProofs --------------------------
(***************************************************************************)
(* Theorems about QueueScreen, for any users, processes and bounds.        *)
(* Whatever changes an instance of useWebSocket keeps it sound and leaves  *)
(* it told of nothing but promotions; this is shown of each such change by *)
(* itself, and then carried over the steps.                                *)
(***************************************************************************)
EXTENDS QueueScreen, TLAPS, SequenceTheorems

-----------------------------------------------------------------------------
(* The invariant *)

(* An instance by itself.                                                  *)

Sound(k) ==
  /\ k \in Hook
  /\ k.at # None => k.sock = "open"
  /\ k.sock = "closing" => ~k.mounted

(* What it has been told, of the tickets lets of user u.                   *)
Told(u, k, lets) ==
  /\ \A n \in DOMAIN k.inbox : <<u, k.inbox[n]>> \in lets
  /\ k.lastEvent # 0 => <<u, k.lastEvent>> \in lets
  /\ k.info.state = "READY" => <<u, k.info.number>> \in lets
  /\ k.answer.state = "READY" => <<u, k.answer.number>> \in lets

Browsers ==
  /\ hook \in [Hooks -> Hook]
  /\ \A i \in Hooks : Sound(hook[i]) /\ Told(user(i), hook[i], letIn)

(* Which page an instance is mounted for.                                  *)
Pages ==
  /\ page \in [Users -> {"home", "queue", "seats"}]
  /\ \A i \in Hooks : hook[i].mounted => hook[i].on = page[user(i)]
  /\ \A i, j \in Hooks : hook[i].mounted /\ hook[j].mounted /\ user(i) = user(j) => i = j

(* Who is on the seats page has been let in.                               *)
Seated == \A u \in Users : page[u] = "seats" => \E n \in 1..MaxTickets : <<u, n>> \in letIn

(* The waiting room: a ticket is READY, or told of, when it was let in.    *)
Room ==
  /\ entry \in [Users -> Ticket]
  /\ counter \in 0..MaxTickets
  /\ letIn \subseteq Users \X (1..MaxTickets)
  /\ telling \subseteq [from : Processes, user : Users, number : 1..MaxTickets]
  /\ leave \in [Users -> {"none", "asked", "served"}]
  /\ losses \in 0..MaxLosses
  /\ \A u \in Users : /\ entry[u].state = "WAITING" => entry[u].number # 0
                      /\ entry[u].state = "READY" => <<u, entry[u].number>> \in letIn
  /\ \A t \in telling : <<t.user, t.number>> \in letIn

(* The inductive invariant.                                                *)
Inv == Browsers /\ Pages /\ Seated /\ Room

-----------------------------------------------------------------------------
(* Instances *)

LEMMA UserOfHook == \A i \in Hooks : user(i) \in Users
BY DEF Hooks, user

LEMMA Tickets ==
  /\ NoInfo \in Ticket /\ NoInfo.state = "NONE"
  /\ Initial \in Ticket /\ Initial.state = "WAITING"
BY BoundAssumption DEF NoInfo, Initial, Ticket

LEMMA NoHookSound ==
  /\ Sound(NoHook) /\ ~NoHook.mounted
  /\ \A u, lets : Told(u, NoHook, lets)
<1>1. <<>> \in Seq(1..MaxTickets) /\ DOMAIN <<>> = {}
  OBVIOUS
<1>2. QED BY <1>1, Tickets, BoundAssumption DEF NoHook, Sound, Hook, Told

LEMMA MountedSound ==
  ASSUME NEW on \in {"queue", "seats"}
  PROVE  /\ Sound(Mounted(on)) /\ Mounted(on).mounted /\ Mounted(on).on = on
         /\ \A u, lets : Told(u, Mounted(on), lets)
<1> DEFINE r == IF on = "queue" THEN "asked" ELSE "none"
<1>1. Mounted(on) = [NoHook EXCEPT !.on = on, !.mounted = TRUE, !.sock = "connecting",
                                   !.rest = r]
  BY DEF Mounted
<1>2. r \in {"none", "asked", "answered"} /\ NoHook \in Hook /\ NoHook.at = None
  BY NoHookSound DEF NoHook, Sound
<1> HIDE DEF r
<1>3. Sound(Mounted(on)) /\ Mounted(on).mounted /\ Mounted(on).on = on
  BY <1>1, <1>2 DEF Sound, Hook
<1>4. /\ Mounted(on).inbox = NoHook.inbox /\ Mounted(on).lastEvent = NoHook.lastEvent
      /\ Mounted(on).info = NoHook.info /\ Mounted(on).answer = NoHook.answer
  BY <1>1, <1>2 DEF Hook
<1>5. QED BY <1>3, <1>4, NoHookSound DEF Told

LEMMA UnmountedSound ==
  ASSUME NEW k
  PROVE  /\ Sound(Unmounted(k)) /\ ~Unmounted(k).mounted
         /\ \A u, lets : Told(u, Unmounted(k), lets)
<1> DEFINE s == IF k.sock \in {"connecting", "open"} THEN "closing" ELSE "none"
           r == IF k.rest = "asked" THEN "asked" ELSE "none"
<1>1. Unmounted(k) = [NoHook EXCEPT !.sock = s, !.rest = r]
  BY DEF Unmounted
<1>2. s \in {"closing", "none"} /\ r \in {"asked", "none"}
      /\ NoHook \in Hook /\ NoHook.at = None /\ ~NoHook.mounted
  BY NoHookSound DEF NoHook, Sound
<1> HIDE DEF s, r
<1>3. Sound(Unmounted(k)) /\ ~Unmounted(k).mounted
  BY <1>1, <1>2 DEF Sound, Hook
<1>4. /\ Unmounted(k).inbox = NoHook.inbox /\ Unmounted(k).lastEvent = NoHook.lastEvent
      /\ Unmounted(k).info = NoHook.info /\ Unmounted(k).answer = NoHook.answer
  BY <1>1, <1>2 DEF Hook
<1>5. QED BY <1>3, <1>4, NoHookSound DEF Told

(* One instance changes, on its page.                                      *)
LEMMA OneHook ==
  ASSUME Browsers, Pages, NEW i \in Hooks, NEW g, Sound(g), Told(user(i), g, letIn),
         g.mounted = hook[i].mounted, g.on = hook[i].on,
         hook' = [hook EXCEPT ![i] = g], UNCHANGED <<letIn, page>>
  PROVE  Browsers' /\ Pages'
BY DEF Browsers, Pages, Sound

(* The user goes to another page.                                          *)
LEMMA GotoStep ==
  ASSUME Browsers, Pages, NEW u \in Users, NEW to \in {"home", "queue", "seats"},
         Goto(u, to), letIn' = letIn
  PROVE  Browsers' /\ Pages'
<1> DEFINE Left(j) == IF user(j) = u /\ hook[j].mounted THEN Unmounted(hook[j]) ELSE hook[j]
<1>1. ASSUME NEW j \in Hooks
      PROVE  /\ Sound(Left(j)) /\ Told(user(j), Left(j), letIn) /\ Left(j) \in Hook
             /\ Left(j).mounted => user(j) # u /\ Left(j) = hook[j]
  BY UnmountedSound DEF Browsers, Sound
<1>2. page' = [page EXCEPT ![u] = to]
  BY DEF Goto
<1>3. CASE to = "home"
  <2>1. hook' = [j \in Hooks |-> Left(j)]
    BY <1>3 DEF Goto
  <2> HIDE DEF Left
  <2>2. QED BY <1>1, <1>2, <2>1 DEF Browsers, Pages
<1>4. CASE to # "home"
  <2>1. PICK i \in Hooks : /\ user(i) = u
                           /\ hook' = [j \in Hooks |-> IF j = i THEN Mounted(to) ELSE Left(j)]
    BY <1>4 DEF Goto
  <2>2. /\ Sound(Mounted(to)) /\ Mounted(to).mounted /\ Mounted(to).on = to
        /\ Mounted(to) \in Hook /\ Told(u, Mounted(to), letIn)
    BY <1>4, MountedSound DEF Sound
  <2> HIDE DEF Left
  <2>3. QED BY <1>1, <1>2, <2>1, <2>2 DEF Browsers, Pages
<1>5. QED BY <1>3, <1>4

-----------------------------------------------------------------------------
(* The steps of the user, the browser and the backend *)

LEMMA UserStep ==
  ASSUME Inv, NEW u \in Users, OpenQueue(u) \/ Reload(u)
  PROVE  Inv'
<1>1. CASE OpenQueue(u)
  <2>1. Browsers' /\ Pages'
    BY <1>1, GotoStep DEF OpenQueue, queue, Inv
  <2>2. Room'
    BY <1>1 DEF OpenQueue, queue, Inv, Room
  <2>3. Seated'
    BY <1>1 DEF OpenQueue, Goto, queue, Inv, Pages, Seated
  <2>4. QED BY <2>1, <2>2, <2>3 DEF Inv
<1>2. CASE Reload(u)
  <2>1. /\ \A j \in Hooks : hook'[j] = IF user(j) # u THEN hook[j]
                                       ELSE IF j[2] = 1 THEN Mounted("queue") ELSE NoHook
        /\ DOMAIN hook' = Hooks
        /\ hook' = [j \in Hooks |-> hook'[j]]
    BY <1>2 DEF Reload
  <2>2. /\ Sound(Mounted("queue")) /\ Mounted("queue").mounted /\ Mounted("queue").on = "queue"
        /\ \A v : Told(v, Mounted("queue"), letIn)
    BY MountedSound
  <2>3. page[u] = "queue"
    BY <1>2 DEF Reload, Inv, Pages
  <2>4. \A j \in Hooks : Sound(hook'[j]) /\ Told(user(j), hook'[j], letIn)
    BY <2>1, <2>2, NoHookSound DEF Inv, Browsers
  <2>5. hook' \in [Hooks -> Hook]
    BY <2>1, <2>4 DEF Sound
  <2>6. \A i, j \in Hooks : user(i) = user(j) /\ i[2] = j[2] => i = j
    BY DEF Hooks, user
  <2>7. Pages'
    BY <1>2, <2>1, <2>2, <2>3, <2>6, NoHookSound DEF Reload, Inv, Pages
  <2>8. QED BY <1>2, <2>4, <2>5, <2>7 DEF Reload, queue, Inv, Browsers, Seated, Room
<1>3. QED BY <1>1, <1>2

LEMMA LeaveStep ==
  ASSUME Inv, NEW u \in Users, AskLeave(u) \/ Leave(u) \/ LoseLeave(u)
  PROVE  Inv'
<1>1. CASE AskLeave(u) \/ LoseLeave(u)
  BY <1>1, BoundAssumption
     DEF AskLeave, LoseLeave, queue, Inv, Browsers, Pages, Seated, Room
<1>2. CASE ServeLeave(u)
  <2>1. Browsers' /\ Pages' /\ Seated'
    BY <1>2 DEF ServeLeave, Inv, Browsers, Pages, Seated
  <2>2. CASE UNCHANGED entry
    BY <1>2, <2>1, <2>2 DEF ServeLeave, Inv, Room
  <2>3. CASE ~UNCHANGED entry
    <3> DEFINE e == [entry[u] EXCEPT !.state = "CANCELLED"]
    <3>1. e \in Ticket /\ e.state = "CANCELLED"
      BY DEF Inv, Room, Ticket
    <3>2. entry' = [entry EXCEPT ![u] = e] /\ leave' = [leave EXCEPT ![u] = "served"]
      BY <1>2, <2>3 DEF ServeLeave
    <3> HIDE DEF e
    <3>3. QED BY <1>2, <2>1, <3>1, <3>2 DEF ServeLeave, Inv, Room
  <2>4. QED BY <2>2, <2>3
<1>3. CASE LeaveAnswer(u)
  <2>1. Browsers' /\ Pages'
    BY <1>3, GotoStep DEF LeaveAnswer, queue, Inv
  <2>2. Room'
    BY <1>3 DEF LeaveAnswer, queue, Inv, Room
  <2>3. Seated'
    BY <1>3 DEF LeaveAnswer, Goto, queue, Inv, Pages, Seated
  <2>4. QED BY <2>1, <2>2, <2>3 DEF Inv
<1>4. QED BY <1>1, <1>2, <1>3 DEF Leave

LEMMA JoinStep ==
  ASSUME Inv, NEW i \in Hooks, Join(i) \/ LoseJoin(i)
  PROVE  Inv'
<1>0. hook[i] \in Hook /\ Sound(hook[i]) /\ Told(user(i), hook[i], letIn) /\ user(i) \in Users
  BY UserOfHook DEF Inv, Browsers
<1>1. ASSUME NEW e \in Ticket, NEW r \in {"none", "answered"},
             e.state = "READY" => <<user(i), e.number>> \in letIn,
             hook' = [hook EXCEPT ![i] = [hook[i] EXCEPT !.rest = r, !.answer = e]],
             UNCHANGED <<letIn, page>>
      PROVE  Browsers' /\ Pages' /\ Seated'
  <2> DEFINE g == [hook[i] EXCEPT !.rest = r, !.answer = e]
  <2>1. /\ Sound(g) /\ Told(user(i), g, letIn)
        /\ g.mounted = hook[i].mounted /\ g.on = hook[i].on
    BY <1>0, <1>1 DEF Sound, Hook, Told
  <2>2. hook' = [hook EXCEPT ![i] = g]
    BY <1>1
  <2> HIDE DEF g
  <2>3. QED BY <1>1, <2>1, <2>2, OneHook DEF Inv, Seated
<1>2. ASSUME NEW e \in Ticket, e.state = "READY" => <<user(i), e.number>> \in letIn,
             hook[i].rest = "asked",
             hook' = [hook EXCEPT ![i] = WithAnswer(hook[i], e)], UNCHANGED <<letIn, page>>
      PROVE  Browsers' /\ Pages' /\ Seated'
  <2>1. CASE hook[i].mounted
    BY <1>1, <1>2, <2>1 DEF WithAnswer
  <2>2. CASE ~hook[i].mounted
    <3>1. WithAnswer(hook[i], e) =
            [hook[i] EXCEPT !.rest = "none", !.answer = hook[i].answer]
      BY <1>0, <2>2 DEF WithAnswer, Hook
    <3>2. hook[i].answer \in Ticket
      BY <1>0 DEF Hook
    <3>3. QED BY <1>0, <1>1, <1>2, <3>1, <3>2 DEF Told
  <2>3. QED BY <2>1, <2>2
<1>3. CASE ServeJoin(i)
  <2>1. CASE entry[user(i)].state \in {"WAITING", "READY"}
    <3>1. /\ hook' = [hook EXCEPT ![i] = WithAnswer(hook[i], entry[user(i)])]
          /\ hook[i].rest = "asked"
          /\ UNCHANGED <<entry, counter, letIn, telling, page, leave, losses>>
      BY <1>3, <2>1 DEF ServeJoin
    <3>2. entry[user(i)] \in Ticket
      BY <1>0 DEF Inv, Room
    <3>3. Browsers' /\ Pages' /\ Seated'
      BY <1>0, <1>2, <3>1, <3>2 DEF Inv, Room
    <3>4. QED BY <3>1, <3>3 DEF Inv, Room
  <2>2. CASE entry[user(i)].state \notin {"WAITING", "READY"}
    <3> DEFINE new == [state |-> "WAITING", number |-> counter + 1]
    <3>1. /\ hook' = [hook EXCEPT ![i] = WithAnswer(hook[i], new)]
          /\ hook[i].rest = "asked"
          /\ counter < MaxTickets /\ counter' = counter + 1
          /\ entry' = [entry EXCEPT ![user(i)] = new]
          /\ UNCHANGED <<letIn, telling, page, leave, losses>>
      BY <1>3, <2>2 DEF ServeJoin
    <3>2. new \in Ticket /\ new.state = "WAITING" /\ new.number # 0
          /\ counter + 1 \in 0..MaxTickets
      BY <3>1, BoundAssumption DEF Inv, Room, Ticket
    <3> HIDE DEF new
    <3>3. Browsers' /\ Pages' /\ Seated'
      BY <1>2, <3>1, <3>2
    <3>4. Room'
      BY <1>0, <3>1, <3>2 DEF Inv, Room
    <3>5. QED BY <3>3, <3>4 DEF Inv
  <2>3. QED BY <2>1, <2>2
<1>4. CASE JoinAnswer(i)
  <2> DEFINE g == Answered(hook[i])
  <2>1. /\ Sound(g) /\ Told(user(i), g, letIn)
        /\ g.mounted = hook[i].mounted /\ g.on = hook[i].on
    BY <1>0, Tickets DEF Answered, Sound, Hook, Told
  <2>2. hook' = [hook EXCEPT ![i] = g] /\ UNCHANGED <<letIn, page>>
    BY <1>4 DEF JoinAnswer, queue
  <2> HIDE DEF g
  <2>3. Browsers' /\ Pages'
    BY <2>1, <2>2, OneHook DEF Inv
  <2>4. QED BY <1>4, <2>3 DEF JoinAnswer, queue, Inv, Seated, Room
<1>5. CASE LoseJoin(i)
  <2>1. hook' = [hook EXCEPT ![i] = [hook[i] EXCEPT !.rest = "none", !.answer = NoInfo]]
    BY <1>5 DEF LoseJoin
  <2>2. Browsers' /\ Pages' /\ Seated'
    BY <1>1, <1>5, <2>1, Tickets DEF LoseJoin, queue
  <2>3. QED BY <1>5, <2>2, BoundAssumption DEF LoseJoin, queue, Inv, Room
<1>6. QED BY <1>3, <1>4, <1>5 DEF Join

LEMMA SocketStep ==
  ASSUME Inv, NEW i \in Hooks, Socket(i) \/ Lose(i)
  PROVE  Inv'
<1>0. hook[i] \in Hook /\ Sound(hook[i]) /\ Told(user(i), hook[i], letIn)
  BY DEF Inv, Browsers
<1>1. ASSUME NEW g, hook' = [hook EXCEPT ![i] = g],
             Sound(g), Told(user(i), g, letIn),
             g.mounted = hook[i].mounted, g.on = hook[i].on,
             losses' \in 0..MaxLosses, UNCHANGED <<queue, telling, page, leave>>
      PROVE  Inv'
  <2>1. Browsers' /\ Pages'
    BY <1>1, OneHook DEF Inv, queue
  <2>2. QED BY <1>1, <2>1 DEF Inv, queue, Seated, Room
<1>2. ASSUME NEW p \in Processes, Accept(i, p)
      PROVE  Inv'
  <2> DEFINE at == IF hook[i].mounted THEN p ELSE None
             g == [hook[i] EXCEPT !.sock = "open", !.at = at]
  <2>0. at \in Processes \cup {None}
    OBVIOUS
  <2> HIDE DEF at
  <2>1. Sound(g) /\ Told(user(i), g, letIn) /\ g.mounted = hook[i].mounted /\ g.on = hook[i].on
    BY <1>0, <2>0 DEF Sound, Hook, Told
  <2>2. hook' = [hook EXCEPT ![i] = g]
    BY <1>2 DEF Accept, at
  <2> HIDE DEF g
  <2>3. QED BY <1>1, <1>2, <2>1, <2>2 DEF Accept, Inv, Room
<1>3. CASE Lose(i) \/ Close(i)
  <2> DEFINE g == onclose(hook[i])
  <2>1. <<>> \in Seq(1..MaxTickets) /\ DOMAIN <<>> = {}
    OBVIOUS
  <2>2. Sound(g) /\ Told(user(i), g, letIn) /\ g.mounted = hook[i].mounted /\ g.on = hook[i].on
    BY <1>0, <2>1 DEF onclose, Sound, Hook, Told
  <2>3. hook' = [hook EXCEPT ![i] = g]
    BY <1>3 DEF Lose, Close
  <2> HIDE DEF g
  <2>4. losses' \in 0..MaxLosses
    BY <1>3, BoundAssumption DEF Lose, Close, Inv, Room
  <2>5. QED BY <1>1, <1>3, <2>2, <2>3, <2>4 DEF Lose, Close
<1>4. CASE Reconnect(i)
  <2> DEFINE g == [hook[i] EXCEPT !.sock = "connecting"]
  <2>1. Sound(g) /\ Told(user(i), g, letIn) /\ g.mounted = hook[i].mounted /\ g.on = hook[i].on
    BY <1>0, <1>4 DEF Reconnect, Sound, Hook, Told
  <2>2. hook' = [hook EXCEPT ![i] = g]
    BY <1>4 DEF Reconnect
  <2> HIDE DEF g
  <2>3. QED BY <1>1, <1>4, <2>1, <2>2 DEF Reconnect, Inv, Room
<1>5. QED BY <1>2, <1>3, <1>4 DEF Socket

LEMMA DisplayStep ==
  ASSUME Inv, NEW i \in Hooks, Display(i)
  PROVE  Inv'
<1>0. hook[i] \in Hook /\ Sound(hook[i]) /\ Told(user(i), hook[i], letIn) /\ user(i) \in Users
  BY UserOfHook DEF Inv, Browsers
<1>1. ASSUME NEW g, hook' = [hook EXCEPT ![i] = g],
             Sound(g), Told(user(i), g, letIn),
             g.mounted = hook[i].mounted, g.on = hook[i].on,
             UNCHANGED <<queue, telling, page, leave, losses>>
      PROVE  Inv'
  <2>1. Browsers' /\ Pages'
    BY <1>1, OneHook DEF Inv, queue
  <2>2. QED BY <1>1, <2>1 DEF Inv, queue, Seated, Room
<1>2. CASE Receive(i)
  <2> DEFINE box == hook[i].inbox
             event == Head(box)
             g == [hook[i] EXCEPT !.inbox = Tail(box), !.lastEvent = event]
  <2>1. box \in Seq(1..MaxTickets) /\ box # <<>>
    BY <1>0, <1>2 DEF Receive, Hook
  <2>2. /\ Tail(box) \in Seq(1..MaxTickets)
        /\ \A n \in DOMAIN Tail(box) : n + 1 \in DOMAIN box /\ Tail(box)[n] = box[n + 1]
        /\ 1 \in DOMAIN box /\ Head(box) = box[1] /\ Head(box) \in 1..MaxTickets
    <3> HIDE DEF box
    <3>1. /\ Tail(box) \in Seq(1..MaxTickets) /\ Len(Tail(box)) = Len(box) - 1
          /\ \A n \in 1..Len(Tail(box)) : Tail(box)[n] = box[n + 1]
          /\ Head(box) \in 1..MaxTickets
      BY <2>1, HeadTailProperties
    <3>2. Len(box) \in Nat /\ Len(box) # 0 /\ DOMAIN box = 1..Len(box)
      BY <2>1, EmptySeq
    <3>3. DOMAIN Tail(box) = 1..Len(Tail(box))
      BY <3>1
    <3>4. Head(box) = box[1]
      BY <2>1
    <3>5. QED BY <3>1, <3>2, <3>3, <3>4
  <2>3. hook' = [hook EXCEPT ![i] = g]
    BY <1>2 DEF Receive
  <2>4. g.inbox = Tail(box) /\ g.lastEvent = event /\ g \in Hook /\ Sound(g)
        /\ g.mounted = hook[i].mounted /\ g.on = hook[i].on
        /\ g.info = hook[i].info /\ g.answer = hook[i].answer
    <3>1. Tail(box) \in Seq(1..MaxTickets) /\ event \in 0..MaxTickets
      BY <2>2, BoundAssumption
    <3> HIDE DEF box, event
    <3>2. QED BY <1>0, <3>1 DEF Sound, Hook
  <2>5. Told(user(i), g, letIn)
    <3>1. \A n \in DOMAIN Tail(box) : <<user(i), Tail(box)[n]>> \in letIn
      BY <1>0, <2>2 DEF Told
    <3>2. event # 0 => <<user(i), event>> \in letIn
      BY <1>0, <2>2 DEF Told
    <3> HIDE DEF g, event, box
    <3>3. QED BY <1>0, <2>4, <3>1, <3>2 DEF Told
  <2> HIDE DEF g
  <2>6. QED BY <1>1, <1>2, <2>3, <2>4, <2>5 DEF Receive
<1>3. CASE Render(i)
  <2> DEFINE ready == [state |-> "READY", number |-> hook[i].lastEvent]
             info == IF hook[i].on = "queue" THEN ready ELSE hook[i].info
             g == [hook[i] EXCEPT !.lastEvent = 0, !.info = info]
  <2>1. ready \in Ticket /\ hook[i].info \in Ticket
    BY <1>0 DEF Hook, Ticket
  <2>2. /\ info \in Ticket
        /\ info.state = "READY" => <<user(i), info.number>> \in letIn
    BY <1>0, <1>3, <2>1 DEF Render, Told
  <2>3. hook' = [hook EXCEPT ![i] = g]
    BY <1>3 DEF Render
  <2> HIDE DEF ready, info
  <2>4. /\ Sound(g) /\ g.mounted = hook[i].mounted /\ g.on = hook[i].on
        /\ g.inbox = hook[i].inbox /\ g.lastEvent = 0 /\ g.info = info
        /\ g.answer = hook[i].answer
    <3>1. 0 \in 0..MaxTickets
      BY BoundAssumption
    <3>2. g \in Hook
      BY <1>0, <2>2, <3>1 DEF Hook
    <3>3. /\ g.mounted = hook[i].mounted /\ g.on = hook[i].on /\ g.at = hook[i].at
          /\ g.sock = hook[i].sock /\ g.inbox = hook[i].inbox /\ g.lastEvent = 0
          /\ g.info = info /\ g.answer = hook[i].answer
      BY <1>0 DEF Hook
    <3> HIDE DEF g
    <3>4. QED BY <1>0, <3>2, <3>3 DEF Sound
  <2>5. Told(user(i), g, letIn)
    BY <1>0, <2>2, <2>4 DEF Told
  <2> HIDE DEF g
  <2>6. QED BY <1>1, <1>3, <2>3, <2>4, <2>5 DEF Render
<1>4. CASE Proceed(i)
  <2>1. Browsers' /\ Pages'
    BY <1>0, <1>4, GotoStep DEF Proceed, queue, Inv
  <2>2. <<user(i), hook[i].info.number>> \in letIn /\ page' = [page EXCEPT ![user(i)] = "seats"]
    BY <1>0, <1>4 DEF Proceed, Goto, Told
  <2>3. \E n \in 1..MaxTickets : <<user(i), n>> \in letIn
    BY <2>2 DEF Inv, Room
  <2>4. Seated'
    BY <1>4, <2>2, <2>3 DEF Proceed, queue, Inv, Pages, Seated
  <2>5. QED BY <1>4, <2>1, <2>4 DEF Proceed, queue, Inv, Room
<1>5. QED BY <1>2, <1>3, <1>4 DEF Display

LEMMA PromoteStep ==
  ASSUME Inv, NEW p \in Processes, NEW u \in Users, Promote(p, u)
  PROVE  Inv'
<1> DEFINE n == entry[u].number
           e == [entry[u] EXCEPT !.state = "READY"]
           t == [from |-> p, user |-> u, number |-> n]
<1>1. n \in 1..MaxTickets /\ e \in Ticket /\ e.state = "READY" /\ e.number = n
  <2>1. entry[u] \in Ticket /\ n # 0
    BY DEF Promote, Inv, Room
  <2>2. QED BY <2>1, BoundAssumption DEF Ticket
<1>2. t \in [from : Processes, user : Users, number : 1..MaxTickets]
      /\ t.user = u /\ t.number = n
  BY <1>1
<1>3. /\ entry' = [entry EXCEPT ![u] = e] /\ letIn' = letIn \cup {<<u, n>>}
      /\ telling' = telling \cup {t} /\ UNCHANGED <<counter, page, hook, leave, losses>>
  BY DEF Promote, browser
<1> HIDE DEF n, e, t
<1>4. Room'
  BY <1>1, <1>2, <1>3 DEF Inv, Room
<1>5. Browsers'
  BY <1>3 DEF Inv, Browsers, Told
<1>6. QED BY <1>3, <1>4, <1>5 DEF Inv, Pages, Seated

LEMMA TellStep ==
  ASSUME Inv, NEW t \in telling, Tell(t)
  PROVE  Inv'
<1>1. t.number \in 1..MaxTickets /\ <<t.user, t.number>> \in letIn
  BY DEF Inv, Room
<1>2. ASSUME NEW i \in Hooks
      PROVE  /\ Sound(hook'[i]) /\ Told(user(i), hook'[i], letIn)
             /\ hook'[i].mounted = hook[i].mounted /\ hook'[i].on = hook[i].on
  <2>0. hook[i] \in Hook /\ Sound(hook[i]) /\ Told(user(i), hook[i], letIn)
    BY DEF Inv, Browsers
  <2>1. CASE ~Addressed(i, t.from, t.user)
    BY <2>0, <2>1 DEF Tell
  <2>2. CASE Addressed(i, t.from, t.user)
    <3> DEFINE box == Append(hook[i].inbox, t.number)
    <3>1. user(i) = t.user /\ hook'[i] = [hook[i] EXCEPT !.inbox = box]
      BY <2>2 DEF Addressed, Tell, Notice
    <3>2. hook[i].inbox \in Seq(1..MaxTickets)
      BY <2>0 DEF Hook
    <3>3. /\ box \in Seq(1..MaxTickets)
          /\ \A n \in DOMAIN box : \/ n \in DOMAIN hook[i].inbox /\ box[n] = hook[i].inbox[n]
                                   \/ box[n] = t.number
      BY <1>1, <3>2
    <3>4. \A n \in DOMAIN box : <<user(i), box[n]>> \in letIn
      BY <1>1, <2>0, <3>1, <3>3 DEF Told
    <3> HIDE DEF box
    <3>5. QED BY <2>0, <3>1, <3>3, <3>4 DEF Sound, Hook, Told
  <2>3. QED BY <2>1, <2>2
<1>3. hook' \in [Hooks -> Hook]
  BY <1>2 DEF Tell, Sound
<1>4. Browsers' /\ Pages'
  BY <1>2, <1>3 DEF Tell, queue, Inv, Browsers, Pages
<1>5. QED BY <1>4 DEF Tell, queue, Inv, Seated, Room

-----------------------------------------------------------------------------
(* The theorems *)

LEMMA Invariant == Spec => []Inv
<1>1. Init => Inv
  BY NoHookSound, Tickets, BoundAssumption
     DEF Init, Inv, Browsers, Pages, Seated, Room, Sound
<1>2. Inv /\ [Next]_vars => Inv'
  <2> SUFFICES ASSUME Inv, [Next]_vars PROVE Inv'
    OBVIOUS
  <2>1. CASE UNCHANGED vars
    BY <2>1 DEF vars, Inv, Browsers, Pages, Seated, Room
  <2>2. CASE Next
    BY <2>2, UserStep, LeaveStep, SocketStep, JoinStep, DisplayStep, PromoteStep, TellStep DEF Next
  <2>3. QED BY <2>1, <2>2
<1>3. QED BY <1>1, <1>2, PTL DEF Spec

(***************************************************************************)
(* The state is well typed however often pages are left, reopened and      *)
(* reloaded and connections lost; in particular one instance at most is    *)
(* mounted in a browser, for the page the user is on, and a process keeps  *)
(* no socket in clients that is not open.                                  *)
(***************************************************************************)
THEOREM TypeInvariant == Spec => []TypeOK
<1>1. Inv => TypeOK
  BY DEF Inv, Browsers, Pages, Room, Sound, TypeOK
<1>2. QED BY Invariant, <1>1, PTL

(***************************************************************************)
(* No notice, answer or page calls a user that no tick has let in, and     *)
(* nobody is on the seats page who was not: a notice carries the number    *)
(* the tick promoted (scheduler.ts), not what the queue holds when it is   *)
(* sent, and a socket is of one user.                                      *)
(***************************************************************************)
THEOREM CallsTrue == Spec => []NoFalseCall
<1>1. Inv => NoFalseCall
  BY DEF Inv, Browsers, Told, Seated, NoFalseCall, Calls
<1>2. QED BY Invariant, <1>1, PTL
=============================================================================

----------------------------- MODULE QueueScreen -----------------------------
(***************************************************************************)
(* How a user learns that it may choose a seat: frontend/app/queue/page.tsx *)
(* over frontend/hooks/useWebSocket.ts in the browser, websocket/server.ts  *)
(* and the notices of scheduler.ts in the backend processes.                *)
(*                                                                          *)
(* Every page that a user opens runs its own instance of useWebSocket, here *)
(* one of the user's Hooks, with one socket at a time.  When a page is left *)
(* its instance closes the socket, but the close event then arms the timer  *)
(* of the reconnection, so that the instance lives on, unmounted, until the *)
(* browser reloads.  The load balancer may connect a socket to any process, *)
(* and only the process that promotes a user tells it.                      *)
(*                                                                          *)
(* The waiting room is Queue seen from outside: a ticket is WAITING, then   *)
(* READY or given back; one call of queueService is one step.  The token is *)
(* valid throughout.  JOIN_QUEUE does not appear: the page sends it in the  *)
(* effect that has just created the socket, when it is still connecting,    *)
(* and send drops it.  The length of the backoff is left out.               *)
(***************************************************************************)
EXTENDS Naturals, Sequences, FiniteSets

CONSTANTS
  Users, Processes,
  None,         \* no process
  MaxHooks,     \* bound: instances of useWebSocket in a browser
  MaxTickets,   \* bound: numbers given out
  MaxLosses     \* bound: connections and answers lost

ASSUME ProcessAssumption == None \notin Processes
ASSUME BoundAssumption   == /\ MaxHooks \in Nat \ {0}
                            /\ MaxTickets \in Nat /\ MaxLosses \in Nat

Hooks == Users \X (1..MaxHooks)

VARIABLES
  entry,    \* of each user, in Redis: the state and number of its ticket
  counter,  \* queue:counter
  letIn,    \* history: the tickets that ticks have promoted
  telling,  \* promotions the processes have not told yet
  page,     \* the page each user is on
  hook,     \* every instance of useWebSocket, with what its page shows
  leave,    \* of each user, its call of leaveQueue; bound: one at a time
  losses    \* connections and answers lost so far

queue   == <<entry, counter, letIn>>
browser == <<page, hook, leave>>
vars    == <<entry, counter, letIn, telling, page, hook, leave, losses>>

-----------------------------------------------------------------------------
(* Data *)

Ticket  == [state : {"NONE", "WAITING", "READY", "CANCELLED"}, number : 0..MaxTickets]
NoInfo  == [state |-> "NONE", number |-> 0]

(* info, the state of the queue page, before any answer.                    *)
Initial == [state |-> "WAITING", number |-> 0]

(* at is the process whose clients map holds the socket of a page shown;    *)
(* inbox the messages on their way to the browser, lastEvent the one not    *)
(* rendered yet (numbers of QUEUE_UPDATEs; 0: none), rest the call of       *)
(* joinQueue.                                                               *)
NoHook == [on |-> "none", mounted |-> FALSE, sock |-> "none", at |-> None,
           inbox |-> <<>>, lastEvent |-> 0, rest |-> "none",
           answer |-> NoInfo, info |-> Initial]

Hook == [on : {"none", "queue", "seats"}, mounted : BOOLEAN,
         sock : {"none", "connecting", "open", "closing", "retry"},
         at : Processes \cup {None}, inbox : Seq(1..MaxTickets),
         lastEvent : 0..MaxTickets, rest : {"none", "asked", "answered"},
         answer : Ticket, info : Ticket]

user(i) == i[1]

-----------------------------------------------------------------------------
(* A page is left and another one opened, in one browser.                   *)

(* The cleanup of useWebSocket: the timer is cleared, the socket closed.    *)
(* What the page showed is gone, and nobody reads what the socket receives  *)
(* or the answer of joinQueue; a call not yet served goes on.               *)
Unmounted(k) ==
  [NoHook EXCEPT !.sock = IF k.sock \in {"connecting", "open"} THEN "closing" ELSE "none",
                 !.rest = IF k.rest = "asked" THEN "asked" ELSE "none"]

(* The effects of a page's first render: connect, and on the queue page the *)
(* REST call that joins.                                                    *)
Mounted(on) ==
  [NoHook EXCEPT !.on = on, !.mounted = TRUE, !.sock = "connecting",
                 !.rest = IF on = "queue" THEN "asked" ELSE "none"]

(* The instances the page to come may be given: the next one is the first.  *)
Finished(k) == ~k.mounted /\ k.sock = "none" /\ k.rest = "none"
Unused(u)   == {i \in Hooks : user(i) = u /\ Finished(hook[i])}
IsNext(i)   == i \in Unused(user(i)) /\ \A j \in Unused(user(i)) : i[2] <= j[2]

Goto(u, to) ==
  /\ page' = [page EXCEPT ![u] = to]
  /\ \/ /\ to = "home"
        /\ hook' = [j \in Hooks |-> IF user(j) = u /\ hook[j].mounted
                                    THEN Unmounted(hook[j]) ELSE hook[j]]
     \/ /\ to # "home"
        /\ \E i \in Hooks :
             /\ user(i) = u /\ IsNext(i)
             /\ hook' = [j \in Hooks |->
                  IF j = i THEN Mounted(to)
                  ELSE IF user(j) = u /\ hook[j].mounted THEN Unmounted(hook[j])
                  ELSE hook[j]]

(* A train is chosen on the home page; "back" on the seats page.  An        *)
(* instance is kept for the seats page.                                     *)
OpenQueue(u) ==
  /\ page[u] \in {"home", "seats"}
  /\ Cardinality(Unused(u)) >= 2
  /\ Goto(u, "queue")
  /\ UNCHANGED <<queue, telling, leave, losses>>

(* The effect of the queue page on a state that allows to choose a seat.    *)
Proceed(i) ==
  /\ hook[i].mounted /\ hook[i].on = "queue"
  /\ hook[i].info.state = "READY"
  /\ Goto(user(i), "seats")
  /\ UNCHANGED <<queue, telling, leave, losses>>

(* The browser reloads the queue page: all its instances and sockets go.    *)
(* The user does so only when the page has had its answer and says to wait. *)
Reload(u) ==
  /\ \E i \in Hooks : /\ user(i) = u /\ hook[i].mounted /\ hook[i].on = "queue"
                      /\ hook[i].info.state # "READY"
  /\ leave[u] = "none"
  /\ \A i \in Hooks : user(i) = u => hook[i].rest = "none"
  /\ hook' = [j \in Hooks |-> IF user(j) # u THEN hook[j]
                              ELSE IF j[2] = 1 THEN Mounted("queue") ELSE NoHook]
  /\ UNCHANGED <<queue, telling, page, leave, losses>>

-----------------------------------------------------------------------------
(* POST /queue/join.  A page that has been left still has its call served.  *)

WithAnswer(k, e) == IF k.mounted THEN [k EXCEPT !.rest = "answered", !.answer = e]
                    ELSE [k EXCEPT !.rest = "none"]

ServeJoin(i) ==
  LET e == entry[user(i)]
      new == [state |-> "WAITING", number |-> counter + 1]
  IN
  /\ hook[i].rest = "asked"
  /\ \/ /\ e.state \in {"WAITING", "READY"}
        /\ hook' = [hook EXCEPT ![i] = WithAnswer(@, e)]
        /\ UNCHANGED <<entry, counter>>
     \/ /\ e.state \in {"NONE", "CANCELLED"}
        /\ counter < MaxTickets
        /\ counter' = counter + 1
        /\ entry' = [entry EXCEPT ![user(i)] = new]
        /\ hook' = [hook EXCEPT ![i] = WithAnswer(@, new)]
  /\ UNCHANGED <<letIn, telling, page, leave, losses>>

\* Mutated form: the answer of the join does not set the state.
Answered_NumberOnly(k) == [k EXCEPT !.rest = "none", !.answer = NoInfo,
                                    !.info.number = k.answer.number]
Answered(k) == [k EXCEPT !.rest = "none", !.answer = NoInfo, !.info = k.answer]

JoinAnswer(i) ==
  /\ hook[i].rest = "answered"
  /\ hook' = [hook EXCEPT ![i] = Answered(@)]
  /\ UNCHANGED <<queue, telling, page, leave, losses>>

(* The call or its answer is lost: the page shows an error and stays.       *)
LoseJoin(i) ==
  /\ hook[i].rest # "none"
  /\ losses < MaxLosses
  /\ losses' = losses + 1
  /\ hook' = [hook EXCEPT ![i].rest = "none", ![i].answer = NoInfo]
  /\ UNCHANGED <<queue, telling, page, leave>>

-----------------------------------------------------------------------------
(* DELETE /queue/leave, the button of the queue page                        *)

AskLeave(u) ==
  /\ page[u] = "queue"
  /\ leave[u] = "none"
  /\ leave' = [leave EXCEPT ![u] = "asked"]
  /\ UNCHANGED <<queue, telling, page, hook, losses>>

(* leaveQueue finds no entry and throws, whereupon the page shows an error  *)
(* and stays; or the entry is CANCELLED, now or before.                     *)
ServeLeave(u) ==
  /\ leave[u] = "asked"
  /\ \/ /\ entry[u].state = "NONE"
        /\ leave' = [leave EXCEPT ![u] = "none"]
        /\ UNCHANGED entry
     \/ /\ entry[u].state # "NONE"
        /\ leave' = [leave EXCEPT ![u] = "served"]
        /\ entry' = [entry EXCEPT ![u].state = "CANCELLED"]
  /\ UNCHANGED <<counter, letIn, telling, page, hook, losses>>

(* The answer takes the user home from whatever page it has come to.        *)
LeaveAnswer(u) ==
  /\ leave[u] = "served"
  /\ leave' = [leave EXCEPT ![u] = "none"]
  /\ Goto(u, "home")
  /\ UNCHANGED <<queue, telling, losses>>

(* The call is lost before it is served, or its answer after: the page      *)
(* shows an error and stays, the second time with a ticket given back.      *)
LoseLeave(u) ==
  /\ leave[u] # "none"
  /\ losses < MaxLosses
  /\ losses' = losses + 1
  /\ leave' = [leave EXCEPT ![u] = "none"]
  /\ UNCHANGED <<queue, telling, page, hook>>

-----------------------------------------------------------------------------
(* The socket *)

(* The connection is accepted, the process puts it into clients; what it    *)
(* sends to an instance whose page has been left is ignored there.          *)
Accept(i, p) ==
  /\ hook[i].sock = "connecting"
  /\ hook' = [hook EXCEPT ![i].sock = "open", ![i].at = IF hook[i].mounted THEN p ELSE None]
  /\ UNCHANGED <<queue, telling, page, leave, losses>>

\* Mutated form: no timer is armed.
onclose_NoTimer(k) == [k EXCEPT !.sock = "none", !.at = None, !.inbox = <<>>]
\* Mutated form: the process does not take it out of clients.
onclose_StaysInClients(k) == [k EXCEPT !.sock = "retry", !.inbox = <<>>]
onclose(k) == [k EXCEPT !.sock = "retry", !.at = None, !.inbox = <<>>]

(* The connection fails or breaks, and with it whatever was under way.      *)
Lose(i) ==
  /\ hook[i].sock \in {"connecting", "open"}
  /\ losses < MaxLosses
  /\ losses' = losses + 1
  /\ hook' = [hook EXCEPT ![i] = onclose(@)]
  /\ UNCHANGED <<queue, telling, page, leave>>

(* The close that the cleanup asked for has happened.                       *)
Close(i) ==
  /\ hook[i].sock = "closing"
  /\ hook' = [hook EXCEPT ![i] = onclose(@)]
  /\ UNCHANGED <<queue, telling, page, leave, losses>>

(* The timer fires.                                                         *)
Reconnect(i) ==
  /\ hook[i].sock = "retry"
  /\ hook' = [hook EXCEPT ![i].sock = "connecting"]
  /\ UNCHANGED <<queue, telling, page, leave, losses>>

(* setLastEvent.                                                            *)
Receive(i) ==
  /\ hook[i].sock = "open"
  /\ hook[i].inbox # <<>>
  /\ hook' = [hook EXCEPT ![i].inbox = Tail(@), ![i].lastEvent = Head(hook[i].inbox)]
  /\ UNCHANGED <<queue, telling, page, leave, losses>>

(* The effect on lastEvent.  The seats page ignores a QUEUE_UPDATE.         *)
Render(i) ==
  LET k == hook[i] IN
  /\ k.lastEvent # 0
  /\ hook' = [hook EXCEPT ![i].lastEvent = 0,
                ![i].info = IF k.on = "queue"
                            THEN [state |-> "READY", number |-> k.lastEvent] ELSE @]
  /\ UNCHANGED <<queue, telling, page, leave, losses>>

-----------------------------------------------------------------------------
(* runTick of process p: a promotion, and later the notice of it            *)

Promote(p, u) ==
  /\ entry[u].state = "WAITING"
  /\ entry' = [entry EXCEPT ![u].state = "READY"]
  /\ letIn' = letIn \cup {<<u, entry[u].number>>}
  /\ telling' = telling \cup {[from |-> p, user |-> u, number |-> entry[u].number]}
  /\ UNCHANGED <<counter, browser, losses>>

Addressed(i, p, u) == hook[i].sock = "open" /\ hook[i].at = p /\ user(i) = u

\* Mutated form: the entry is read once more for the notice.
Notice_Reread(t) == entry[t.user].number
Notice(t) == t.number

(* sendToUser: a notice for nobody is gone.                                 *)
Tell(t) ==
  /\ t \in telling
  /\ telling' = telling \ {t}
  /\ hook' = [i \in Hooks |-> IF Addressed(i, t.from, t.user)
                              THEN [hook[i] EXCEPT !.inbox = Append(@, Notice(t))]
                              ELSE hook[i]]
  /\ UNCHANGED <<queue, page, leave, losses>>

-----------------------------------------------------------------------------
Init ==
  /\ entry = [u \in Users |-> NoInfo]
  /\ counter = 0
  /\ letIn = {}
  /\ telling = {}
  /\ page = [u \in Users |-> "home"]
  /\ hook = [i \in Hooks |-> NoHook]
  /\ leave = [u \in Users |-> "none"]
  /\ losses = 0

(* What the browser and the backend do by themselves for one instance: its  *)
(* socket, its call of joinQueue, its page; and for a call of leaveQueue.   *)
Socket(i)  == Close(i) \/ Reconnect(i) \/ \E p \in Processes : Accept(i, p)
Join(i)    == ServeJoin(i) \/ JoinAnswer(i)
Display(i) == Receive(i) \/ Render(i) \/ Proceed(i)
Leave(u)   == ServeLeave(u) \/ LeaveAnswer(u)

Next ==
  \/ \E u \in Users : OpenQueue(u) \/ Reload(u) \/ AskLeave(u) \/ Leave(u) \/ LoseLeave(u)
  \/ \E i \in Hooks : Socket(i) \/ Join(i) \/ Display(i) \/ LoseJoin(i) \/ Lose(i)
  \/ \E p \in Processes : \E u \in Users : Promote(p, u)
  \/ \E t \in telling : Tell(t)

Spec == Init /\ [][Next]_vars

(* Browsers go on, connections are accepted and promotions told.  Nobody    *)
(* has to be promoted, and users do what they like.                         *)
Fairness ==
  /\ \A i \in Hooks : WF_vars(Socket(i)) /\ WF_vars(Join(i)) /\ WF_vars(Display(i))
  /\ \A u \in Users : WF_vars(Leave(u))
  /\ WF_vars(\E t \in telling : Tell(t))

FairSpec == Spec /\ Fairness

(* Beyond the program: users who keep reloading a page that says to wait.   *)
PatientSpec == FairSpec /\ \A u \in Users : WF_vars(Reload(u))

-----------------------------------------------------------------------------
(* Properties *)

(* The types; an instance is mounted for the page the user is on and for no *)
(* other; only an open socket is in the clients of a process.               *)
TypeOK ==
  /\ entry \in [Users -> Ticket]
  /\ counter \in 0..MaxTickets
  /\ letIn \subseteq Users \X (1..MaxTickets)
  /\ telling \subseteq [from : Processes, user : Users, number : 1..MaxTickets]
  /\ page \in [Users -> {"home", "queue", "seats"}]
  /\ hook \in [Hooks -> Hook]
  /\ \A i \in Hooks : /\ hook[i].mounted => hook[i].on = page[user(i)]
                      /\ hook[i].at # None => hook[i].sock = "open"
  /\ leave \in [Users -> {"none", "asked", "served"}]
  /\ \A i, j \in Hooks : hook[i].mounted /\ hook[j].mounted /\ user(i) = user(j) => i = j
  /\ losses \in 0..MaxLosses

(* What the browser of user u has been told: everything on its way to it,   *)
(* and what the page shows.                                                 *)
Calls(i) ==
  {hook[i].inbox[n] : n \in DOMAIN hook[i].inbox} \cup
  (IF hook[i].lastEvent = 0 THEN {} ELSE {hook[i].lastEvent}) \cup
  (IF hook[i].info.state = "READY" THEN {hook[i].info.number} ELSE {}) \cup
  (IF hook[i].answer.state = "READY" THEN {hook[i].answer.number} ELSE {})

(* Nobody is called who has not been let in: whatever has been lost, left,  *)
(* reopened or is still on its way, a call to choose a seat names a ticket  *)
(* of this user that a tick has promoted, and nobody is on the seats page   *)
(* without one.                                                             *)
NoFalseCall ==
  /\ \A i \in Hooks : \A n \in Calls(i) : <<user(i), n>> \in letIn
  /\ \A u \in Users : page[u] = "seats" => \E n \in 1..MaxTickets : <<u, n>> \in letIn

(* A page that stays open has a working connection again and again.         *)
Reconnects ==
  \A u \in Users : \A on \in {"queue", "seats"} :
    (page[u] = on)
      ~> (page[u] # on \/ \E i \in Hooks : user(i) = u /\ hook[i].mounted
                                             /\ hook[i].sock = "open")

(* Who waits on the queue page and is let in is called to the seats page,   *)
(* or gives the ticket back before that; also if it never learns that it    *)
(* has, because the answer of leaveQueue is lost.                           *)
Called ==
  \A u \in Users : (entry[u].state = "READY" /\ page[u] = "queue")
                     ~> (page[u] # "queue" \/ entry[u].state = "CANCELLED")

=============================================================================

-------------------------------- MODULE Token --------------------------------
(***************************************************************************)
(* Tokens: the login and the logout of api/auth.ts, authMiddleware of       *)
(* middleware/auth.ts, and services/tokenService.ts, which keeps for each   *)
(* user who has logged out a time in Redis before which tokens are void.    *)
(*                                                                          *)
(* iat, exp and that time are whole seconds, so that time advances here by  *)
(* the second and much may happen within one.  The processes' clocks agree  *)
(* up to Skew: every reading of a clock is one of Readings.  A step is the  *)
(* effect of one call to Redis with the code around it.                     *)
(*                                                                          *)
(* An ordinary request that passes authMiddleware changes nothing here:     *)
(* whether it passes is the predicate Admitted, of the reading of the clock *)
(* at which the token was verified, up to Delay seconds ago, and of what    *)
(* Redis answers now.  The session that login creates and logout clears is  *)
(* in Requests.                                                             *)
(***************************************************************************)
EXTENDS Integers, FiniteSets

CONSTANTS
  Users,
  None,         \* no user
  Handlers,     \* logins and logouts in flight at a time
  Life,         \* JWT_EXPIRES_IN, in seconds
  TTL_SECONDS,  \* how long Redis keeps the time of a logout
  Skew,         \* by how much the clocks of two processes may differ
  Delay,        \* how long a request may be under way to Redis
  MaxTime,      \* bound: seconds that pass
  MaxTokens     \* bound: no login starts when there are so many tokens

ASSUME UserAssumption  == None \notin Users
ASSUME ClockAssumption == Life \in Nat /\ Skew \in Nat /\ Delay \in Nat
ASSUME BoundAssumption == MaxTime \in Nat /\ MaxTokens \in Nat

(* "Kept longer than the longest life of a token is enough": a token may    *)
(* expire while the request it comes with is on its way to Redis.  Life     *)
(* comes from the environment and TTL_SECONDS does not, so that nothing in  *)
(* the program sees to this.                                                *)
ASSUME KeptAssumption  == TTL_SECONDS \in Nat /\ Life + Delay <= TTL_SECONDS

VARIABLES
  time,           \* in seconds
  tokens,         \* the tokens that browsers have been given
  invalidBefore,  \* token:invalidBefore:<user> in Redis
  pc, frame,      \* of each handler
  ended,          \* history: the second before which the user's logouts have
                  \* ended its tokens
  loggedOut       \* history: when a logout of the user last read the time

calls == <<pc, frame>>
vars  == <<time, tokens, invalidBefore, pc, frame, ended, loggedOut>>

-----------------------------------------------------------------------------
(* Data *)

(* iat is what the token says, at (history) when it was signed.             *)
Token == [user : Users, iat : Nat, at : Nat]

NoMark == [there |-> FALSE, second |-> 0, until |-> 0]
Mark   == [there : BOOLEAN, second : Nat, until : Nat]

(* second is the iat that a login has signed or the time a logout has read, *)
(* at when it did.                                                          *)
NoFrame == [user |-> None, second |-> 0, at |-> 0]

Steps == {"idle", "create", "read", "set", "clear"}

(* What Math.floor(Date.now() / 1000) may be in some process.               *)
Readings == time..(time + Skew)

-----------------------------------------------------------------------------
(* Control of a request *)

Call(h, step, u, second) ==
  /\ pc' = [pc EXCEPT ![h] = step]
  /\ frame' = [frame EXCEPT ![h] = [user |-> u, second |-> second, at |-> time]]

Return(h) ==
  /\ pc' = [pc EXCEPT ![h] = "idle"]
  /\ frame' = [frame EXCEPT ![h] = NoFrame]

-----------------------------------------------------------------------------
(* authMiddleware *)

(* jwt.verify in a process whose clock reads now.                           *)
verifyTokenWithIat(k, now) == now < k.iat + Life

\* Mutated form: tokens of the second of the logout are void as well.
isTokenRevoked_SameSecond(k) ==
  invalidBefore[k.user].there /\ k.iat <= invalidBefore[k.user].second
isTokenRevoked(k) ==
  invalidBefore[k.user].there /\ k.iat < invalidBefore[k.user].second

(* What the clock may have read when the token was verified, for a request  *)
(* that comes to Redis now.                                                 *)
Verified(k) == {now \in (time - Delay)..(time + Skew) : k.at <= now}

(* The token verified when the clock read now, the time in Redis read now.  *)
Admitted(k, now) == verifyTokenWithIat(k, now) /\ ~isTokenRevoked(k)

-----------------------------------------------------------------------------
(* POST /auth/login: signToken, then createSession, then the answer         *)

LoginSign(h, u) ==
  /\ pc[h] = "idle"
  /\ Cardinality(tokens) < MaxTokens
  /\ \E now \in Readings : Call(h, "create", u, now)
  /\ UNCHANGED <<time, tokens, invalidBefore, ended, loggedOut>>

LoginAnswer(h) ==
  /\ pc[h] = "create"
  /\ tokens' = tokens \cup {[user |-> frame[h].user, iat |-> frame[h].second,
                             at |-> frame[h].at]}
  /\ Return(h)
  /\ UNCHANGED <<time, invalidBefore, ended, loggedOut>>

-----------------------------------------------------------------------------
(* POST /auth/logout: authMiddleware, invalidateUserTokens, clearSession    *)

(* Redis is asked for a token that is let in.                               *)
LogoutAdmit(h, k) ==
  /\ pc[h] = "idle"
  /\ \E now \in Verified(k) : Admitted(k, now)
  /\ Call(h, "read", k.user, time)
  /\ UNCHANGED <<time, tokens, invalidBefore, ended, loggedOut>>

(* Its answer has come, and the time is read that is to be set.             *)
LogoutStart(h) ==
  /\ pc[h] = "read"
  /\ \E now \in Readings : Call(h, "set", frame[h].user, now)
  /\ loggedOut' = [loggedOut EXCEPT ![frame[h].user] = time]
  /\ UNCHANGED <<time, tokens, invalidBefore, ended>>

\* Mutated form: the lifetime counts from the time that is set.
Until_FromSecond(second) == second + TTL_SECONDS
Until(second) == time + TTL_SECONDS

\* Mutated form: SET NX, a time that is there already stays.
SetMark_IfAbsent(u, second) ==
  IF invalidBefore[u].there THEN invalidBefore[u]
  ELSE [there |-> TRUE, second |-> second, until |-> Until(second)]
SetMark(u, second) ==
  [there |-> TRUE, second |-> second, until |-> Until(second)]

Later(s, t) == IF s < t THEN t ELSE s

(* The times that logouts of the user have read and not set yet.            *)
Pending(u) == {frame[h].second : h \in {g \in Handlers : pc[g] = "set" /\ frame[g].user = u}}

(* Of the logouts in flight any may set its time last, so that the user's   *)
(* tokens are ended from the earliest of their times on only.               *)
LogoutSet(h) ==
  LET u == frame[h].user IN
  /\ pc[h] = "set"
  /\ invalidBefore' = [invalidBefore EXCEPT ![u] = SetMark(u, frame[h].second)]
  /\ \E first \in Pending(u) :
       /\ \A second \in Pending(u) : first <= second
       /\ ended' = [ended EXCEPT ![u] = Later(@, first)]
  /\ pc' = [pc EXCEPT ![h] = "clear"]
  /\ UNCHANGED <<time, tokens, frame, loggedOut>>

LogoutClear(h) ==
  /\ pc[h] = "clear"
  /\ Return(h)
  /\ UNCHANGED <<time, tokens, invalidBefore, ended, loggedOut>>

(* A call to Redis throws, or the process dies.                             *)
Abort(h) ==
  /\ pc[h] # "idle"
  /\ Return(h)
  /\ UNCHANGED <<time, tokens, invalidBefore, ended, loggedOut>>

-----------------------------------------------------------------------------
(* Time *)

(* Redis drops a key within the second in which its lifetime ends.          *)
Expire(u) ==
  /\ invalidBefore[u].there
  /\ invalidBefore[u].until = time
  /\ invalidBefore' = [invalidBefore EXCEPT ![u] = NoMark]
  /\ UNCHANGED <<time, tokens, calls, ended, loggedOut>>

Elapse ==
  /\ time < MaxTime
  /\ \A u \in Users : invalidBefore[u].there => time < invalidBefore[u].until
  /\ time' = time + 1
  /\ UNCHANGED <<tokens, invalidBefore, calls, ended, loggedOut>>

-----------------------------------------------------------------------------
Init ==
  /\ time = 0
  /\ tokens = {}
  /\ invalidBefore = [u \in Users |-> NoMark]
  /\ pc = [h \in Handlers |-> "idle"]
  /\ frame = [h \in Handlers |-> NoFrame]
  /\ ended = [u \in Users |-> 0]
  /\ loggedOut = [u \in Users |-> 0]

Next ==
  \/ \E h \in Handlers : \/ \E u \in Users : LoginSign(h, u)
                         \/ \E k \in tokens : LogoutAdmit(h, k)
                         \/ LoginAnswer(h) \/ LogoutStart(h) \/ LogoutSet(h)
                         \/ LogoutClear(h)
                         \/ Abort(h)
  \/ \E u \in Users : Expire(u)
  \/ Elapse

Spec == Init /\ [][Next]_vars

-----------------------------------------------------------------------------
(* Properties *)

(* The types; a clock is ahead by at most Skew, and Redis keeps the time of *)
(* a logout for TTL_SECONDS and no longer, whatever the clocks say.         *)
TypeOK ==
  /\ time \in Nat
  /\ tokens \subseteq Token
  /\ \A k \in tokens : k.iat \in k.at..(k.at + Skew) /\ k.at <= time
  /\ invalidBefore \in [Users -> Mark]
  /\ \A u \in Users : invalidBefore[u].there =>
       invalidBefore[u].until \in time..(time + TTL_SECONDS)
  /\ pc \in [Handlers -> Steps]
  /\ frame \in [Handlers -> [user : Users \cup {None}, second : Nat, at : Nat]]
  /\ \A h \in Handlers :
       IF pc[h] = "idle" THEN frame[h] = NoFrame
       ELSE /\ frame[h].user \in Users
            /\ frame[h].at <= time
            /\ frame[h].second \in frame[h].at..(frame[h].at + Skew)
  /\ ended \in [Users -> Nat]
  /\ loggedOut \in [Users -> Nat]

(* A logout lasts: a token of an earlier second than a logout of its user   *)
(* (by more than the clocks differ) is refused from the SET on by every     *)
(* process, also when the user has logged out again since, when Redis has   *)
(* dropped the time of the logout, and when the token was verified before   *)
(* it expired and before all that.  Where logouts of the user overlap   *)
(* this holds of the tokens earlier than each of them, and not of those     *)
(* between: the one that read its clock first may set its time last.        *)
EndedStays ==
  \A k \in tokens : k.iat + Skew < ended[k.user] =>
    \A now \in Verified(k) : ~Admitted(k, now)

(* A login works: a token signed since the user last logged out (by more    *)
(* than the clocks differ), in the same second too, is let in by every      *)
(* process until it expires, whatever late writes of other logouts come in  *)
(* between.                                                                 *)
FreshLogin ==
  \A k \in tokens : k.at >= loggedOut[k.user] + Skew =>
    \A now \in Verified(k) : now < k.iat + Life => Admitted(k, now)

=============================================================================

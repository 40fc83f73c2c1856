----------------------------- MODULE TokenProofs -----------------------------
(***************************************************************************)
(* Theorems about Token, for any users, requests, lifetimes, difference of  *)
(* the clocks and bounds.                                                   *)
(***************************************************************************)
EXTENDS Token, TLAPS

-----------------------------------------------------------------------------
(* Typing *)

TypedFrame(h) ==
  IF pc[h] = "idle" THEN frame[h] = NoFrame
  ELSE /\ frame[h].user \in Users
       /\ frame[h].at <= time
       /\ frame[h].second \in frame[h].at..(frame[h].at + Skew)

TypedFrames ==
  /\ pc \in [Handlers -> Steps]
  /\ frame \in [Handlers -> [user : Users \cup {None}, second : Nat, at : Nat]]
  /\ \A h \in Handlers : TypedFrame(h)

LEMMA ReturnTypes ==
  ASSUME TypeOK, NEW h \in Handlers, Return(h), UNCHANGED time
  PROVE  TypedFrames'
BY DEF Return, TypeOK, TypedFrames, TypedFrame, Steps, NoFrame

LEMMA CallTypes ==
  ASSUME TypeOK, NEW h \in Handlers, NEW u \in Users, NEW now \in Readings,
         NEW step \in {"create", "read", "set"}, Call(h, step, u, now), UNCHANGED time
  PROVE  TypedFrames'
<1>1. now \in Nat /\ now \in time..(time + Skew)
  BY ClockAssumption DEF Readings, TypeOK
<1>2. QED BY <1>1 DEF Call, TypeOK, TypedFrames, TypedFrame, Steps, NoFrame

LEMMA InitTypes == Init => TypeOK
BY UserAssumption, ClockAssumption, KeptAssumption
   DEF Init, TypeOK, NoMark, Mark, NoFrame, Steps

LEMMA LoginTypes ==
  ASSUME TypeOK, NEW h \in Handlers, (\E u \in Users : LoginSign(h, u)) \/ LoginAnswer(h)
  PROVE  TypeOK'
<1>1. CASE \E u \in Users : LoginSign(h, u)
  <2>1. TypedFrames'
    BY <1>1, CallTypes DEF LoginSign
  <2>2. QED BY <1>1, <2>1 DEF LoginSign, TypeOK, TypedFrames, TypedFrame
<1>2. CASE LoginAnswer(h)
  <2>1. TypedFrames'
    BY <1>2, ReturnTypes DEF LoginAnswer
  <2>2. /\ frame[h].user \in Users /\ frame[h].second \in Nat /\ frame[h].at \in Nat
        /\ frame[h].at <= time
        /\ frame[h].second \in frame[h].at..(frame[h].at + Skew)
    BY <1>2 DEF LoginAnswer, TypeOK
  <2>3. tokens' \subseteq Token /\ \A k \in tokens' : k.iat \in k.at..(k.at + Skew) /\ k.at <= time
    BY <1>2, <2>2 DEF LoginAnswer, TypeOK, Token
  <2>4. QED BY <1>2, <2>1, <2>3 DEF LoginAnswer, TypeOK, TypedFrames, TypedFrame
<1>3. QED BY <1>1, <1>2

LEMMA LogoutTypes ==
  ASSUME TypeOK, NEW h \in Handlers,
         \/ \E k \in tokens : LogoutAdmit(h, k)
         \/ LogoutStart(h) \/ LogoutSet(h) \/ LogoutClear(h)
  PROVE  TypeOK'
<1>0. CASE \E k \in tokens : LogoutAdmit(h, k)
  <2>1. PICK k \in tokens : LogoutAdmit(h, k)
    BY <1>0
  <2>2. k.user \in Users /\ time \in Readings
    BY <2>1, ClockAssumption DEF TypeOK, Token, Readings
  <2>3. TypedFrames'
    BY <2>1, <2>2, CallTypes DEF LogoutAdmit
  <2>4. QED BY <2>1, <2>3 DEF LogoutAdmit, TypeOK, TypedFrames, TypedFrame
<1>1. CASE LogoutStart(h)
  <2>1. frame[h].user \in Users
    BY <1>1 DEF LogoutStart, TypeOK
  <2>2. TypedFrames'
    BY <1>1, <2>1, CallTypes DEF LogoutStart
  <2>3. QED BY <1>1, <2>1, <2>2 DEF LogoutStart, TypeOK, TypedFrames, TypedFrame
<1>2. CASE LogoutSet(h)
  <2>1. frame[h].user \in Users /\ frame[h].second \in Nat
    BY <1>2 DEF LogoutSet, TypeOK
  <2>2. /\ invalidBefore' \in [Users -> Mark]
        /\ \A u \in Users : invalidBefore'[u].there =>
             invalidBefore'[u].until \in time..(time + TTL_SECONDS)
    BY <1>2, <2>1, KeptAssumption DEF LogoutSet, SetMark, Until, TypeOK, Mark
  <2>3. ended' \in [Users -> Nat]
    <3>1. PICK first \in Pending(frame[h].user) :
            ended' = [ended EXCEPT ![frame[h].user] = Later(@, first)]
      BY <1>2 DEF LogoutSet
    <3>2. first \in Nat
      BY DEF Pending, TypeOK
    <3>3. QED BY <2>1, <3>1, <3>2 DEF Later, TypeOK
  <2>4. pc' \in [Handlers -> Steps] /\ \A g \in Handlers : pc'[g] = "idle" <=> pc[g] = "idle"
    BY <1>2 DEF LogoutSet, TypeOK, Steps
  <2>5. QED BY <1>2, <2>2, <2>3, <2>4 DEF LogoutSet, TypeOK
<1>3. CASE LogoutClear(h)
  <2>1. TypedFrames'
    BY <1>3, ReturnTypes DEF LogoutClear
  <2>2. QED BY <1>3, <2>1 DEF LogoutClear, TypeOK, TypedFrames, TypedFrame
<1>4. QED BY <1>0, <1>1, <1>2, <1>3

LEMMA AbortTypes ==
  ASSUME TypeOK, NEW h \in Handlers, Abort(h)
  PROVE  TypeOK'
<1>1. TypedFrames'
  BY ReturnTypes DEF Abort
<1>2. QED BY <1>1 DEF Abort, TypeOK, TypedFrames, TypedFrame

LEMMA TimeTypes ==
  ASSUME TypeOK, (\E u \in Users : Expire(u)) \/ Elapse
  PROVE  TypeOK'
<1>1. CASE \E u \in Users : Expire(u)
  BY <1>1 DEF Expire, calls, TypeOK, NoMark, Mark
<1>2. CASE Elapse
  <2>1. time' = time + 1 /\ time \in Nat /\ UNCHANGED <<tokens, invalidBefore, calls, ended, loggedOut>>
    BY <1>2 DEF Elapse, TypeOK
  <2>2. \A u \in Users : invalidBefore[u].there =>
          invalidBefore[u].until \in (time + 1)..(time + 1 + TTL_SECONDS)
    BY <1>2, KeptAssumption DEF Elapse, TypeOK
  <2>3. \A k \in tokens : k.at <= time + 1
    BY <2>1 DEF TypeOK, Token
  <2>4. \A h \in Handlers : frame[h].at \in Nat /\ (frame[h].at <= time => frame[h].at <= time + 1)
    BY <2>1 DEF TypeOK
  <2>5. QED BY <2>1, <2>2, <2>3, <2>4 DEF TypeOK, calls
<1>3. QED BY <1>1, <1>2

(* Every reachable state is well typed; in particular no clock runs ahead   *)
(* by more than Skew and no time of a logout is kept beyond its lifetime.   *)
THEOREM TypeInvariant == Spec => []TypeOK
<1>1. TypeOK /\ [Next]_vars => TypeOK'
  <2> SUFFICES ASSUME TypeOK, [Next]_vars PROVE TypeOK'
    OBVIOUS
  <2>1. CASE UNCHANGED vars
    BY <2>1 DEF vars, calls, TypeOK
  <2>2. CASE Next
    BY <2>2, LoginTypes, LogoutTypes, AbortTypes, TimeTypes DEF Next
  <2>3. QED BY <2>1, <2>2
<1>2. QED BY InitTypes, <1>1, PTL DEF Spec

-----------------------------------------------------------------------------
(* A login works                                                            *)

(* What is set, or is about to be, was read no later than the user's last   *)
(* logout was let in, up to the difference of the clocks.                   *)
MarksOfLogouts ==
  /\ \A u \in Users : loggedOut[u] <= time
  /\ \A u \in Users : invalidBefore[u].there =>
       invalidBefore[u].second <= loggedOut[u] + Skew
  /\ \A h \in Handlers : pc[h] \in {"set", "clear"} =>
       frame[h].second <= loggedOut[frame[h].user] + Skew

LEMMA MarksInit == Init => MarksOfLogouts
BY DEF Init, MarksOfLogouts, NoMark

LEMMA MarksStep ==
  ASSUME TypeOK, MarksOfLogouts, [Next]_vars
  PROVE  MarksOfLogouts'
<1>1. CASE UNCHANGED vars
  BY <1>1 DEF vars, calls, MarksOfLogouts
<1>2. ASSUME NEW h \in Handlers, NEW u \in Users, LoginSign(h, u)
      PROVE  MarksOfLogouts'
  BY <1>2 DEF LoginSign, Call, TypeOK, MarksOfLogouts
<1>0. ASSUME NEW h \in Handlers, NEW k \in tokens, LogoutAdmit(h, k)
      PROVE  MarksOfLogouts'
  BY <1>0 DEF LogoutAdmit, Call, TypeOK, MarksOfLogouts
<1>3. ASSUME NEW h \in Handlers, LogoutStart(h)
      PROVE  MarksOfLogouts'
  <2> DEFINE u == frame[h].user
  <2>1. u \in Users
    BY <1>3 DEF LogoutStart, TypeOK
  <2>2. PICK now \in Readings : Call(h, "set", u, now)
    BY <1>3 DEF LogoutStart
  <2>3. now \in Nat /\ now <= time + Skew
    BY ClockAssumption DEF Readings, TypeOK
  <2>4. \A v \in Users : loggedOut'[v] <= time /\ loggedOut'[v] >= loggedOut[v]
                         /\ loggedOut'[v] \in Nat
    BY <1>3, <2>1 DEF LogoutStart, TypeOK, MarksOfLogouts
  <2>5. loggedOut'[u] = time
    BY <1>3, <2>1 DEF LogoutStart, TypeOK
  <2>6. ASSUME NEW g \in Handlers, pc'[g] \in {"set", "clear"}
        PROVE  frame'[g].second <= loggedOut'[frame'[g].user] + Skew
    <3>1. CASE g = h
      BY <2>2, <2>3, <2>5, <3>1 DEF Call, TypeOK
    <3>2. CASE g # h
      <4>1. pc'[g] = pc[g] /\ frame'[g] = frame[g]
        BY <2>2, <3>2 DEF Call, TypeOK
      <4>2. frame[g].user \in Users /\ frame[g].second \in Nat
            /\ loggedOut[frame[g].user] \in Nat
        BY <2>6, <4>1 DEF TypeOK
      <4>3. QED BY <2>4, <2>6, <4>1, <4>2, ClockAssumption DEF MarksOfLogouts
    <3>3. QED BY <3>1, <3>2
  <2>7. \A v \in Users : invalidBefore[v].there =>
          invalidBefore[v].second <= loggedOut'[v] + Skew
    BY <2>4, ClockAssumption DEF MarksOfLogouts, TypeOK, Mark
  <2>8. QED BY <1>3, <2>4, <2>6, <2>7 DEF LogoutStart, MarksOfLogouts
<1>4. ASSUME NEW h \in Handlers, LogoutSet(h)
      PROVE  MarksOfLogouts'
  <2>1. frame[h].user \in Users
    BY <1>4 DEF LogoutSet, TypeOK
  <2>2. \A u \in Users : invalidBefore'[u].there =>
          invalidBefore'[u].second <= loggedOut[u] + Skew
    BY <1>4, <2>1 DEF LogoutSet, SetMark, TypeOK, MarksOfLogouts
  <2>3. \A g \in Handlers : pc'[g] \in {"set", "clear"} => pc[g] \in {"set", "clear"}
    BY <1>4 DEF LogoutSet, TypeOK
  <2>4. QED BY <1>4, <2>2, <2>3 DEF LogoutSet, MarksOfLogouts
<1>5. ASSUME NEW h \in Handlers, LoginAnswer(h) \/ LogoutClear(h) \/ Abort(h)
      PROVE  MarksOfLogouts'
  <2>1. Return(h) /\ UNCHANGED <<time, invalidBefore, loggedOut>>
    BY <1>5 DEF LoginAnswer, LogoutClear, Abort
  <2>2. QED BY <2>1 DEF Return, TypeOK, MarksOfLogouts
<1>6. ASSUME NEW u \in Users, Expire(u)
      PROVE  MarksOfLogouts'
  BY <1>6 DEF Expire, calls, NoMark, TypeOK, MarksOfLogouts
<1>7. ASSUME Elapse
      PROVE  MarksOfLogouts'
  BY <1>7 DEF Elapse, calls, TypeOK, MarksOfLogouts
<1>8. QED BY <1>0, <1>1, <1>2, <1>3, <1>4, <1>5, <1>6, <1>7 DEF Next

LEMMA MarksAdmitFresh == TypeOK /\ MarksOfLogouts => FreshLogin
<1> SUFFICES ASSUME TypeOK, MarksOfLogouts, NEW k \in tokens,
                    k.at >= loggedOut[k.user] + Skew,
                    NEW now \in Verified(k), now < k.iat + Life
             PROVE  Admitted(k, now)
  BY DEF FreshLogin
<1>1. k.user \in Users /\ k.iat \in Nat /\ k.at \in Nat /\ k.iat >= k.at
  BY ClockAssumption DEF TypeOK, Token
<1>2. invalidBefore[k.user].there =>
        invalidBefore[k.user].second \in Nat /\ invalidBefore[k.user].second <= k.iat
  BY <1>1, ClockAssumption DEF MarksOfLogouts, TypeOK, Mark
<1>3. QED BY <1>1, <1>2 DEF Admitted, isTokenRevoked, verifyTokenWithIat

(* A token signed since its user's last logout is let in until it expires,  *)
(* in every process, also when logouts of the user overlap.                 *)
THEOREM FreshLogins == Spec => []FreshLogin
<1>1. Init => TypeOK /\ MarksOfLogouts
  BY InitTypes, MarksInit
<1>2. TypeOK /\ MarksOfLogouts /\ TypeOK' /\ [Next]_vars => MarksOfLogouts'
  BY MarksStep
<1>3. QED BY TypeInvariant, <1>1, <1>2, MarksAdmitFresh, PTL DEF Spec

-----------------------------------------------------------------------------
(* A logout lasts                                                           *)

(* The time in Redis is never far behind the one that the user's tokens are *)
(* ended from, nor is what a logout is yet to SET over it; and when Redis   *)
(* has dropped the time every token of before has expired.                  *)
EndedInv ==
  /\ \A u \in Users : ended[u] <= time + Skew
  /\ \A h \in Handlers : pc[h] = "set" => ended[frame[h].user] <= frame[h].second + Skew
  /\ \A u \in Users :
       IF invalidBefore[u].there
       THEN /\ ended[u] <= invalidBefore[u].second + Skew
            /\ ended[u] + TTL_SECONDS <= invalidBefore[u].until + Skew
       ELSE ended[u] = 0 \/ ended[u] + TTL_SECONDS <= time + Skew

LEMMA EndedInit == Init => EndedInv
BY ClockAssumption DEF Init, EndedInv, NoMark

(* What is set ends the tokens from a time on that is not later than the    *)
(* one that is set, nor than any that is yet to be set.                     *)
LEMMA FirstEnds ==
  ASSUME TypeOK, NEW h \in Handlers, LogoutSet(h)
  PROVE  \E first \in Nat :
           /\ \A g \in Handlers : pc[g] = "set" /\ frame[g].user = frame[h].user
                                  => first <= frame[g].second
           /\ ended' = [ended EXCEPT ![frame[h].user] = Later(@, first)]
<1>1. PICK first \in Pending(frame[h].user) :
        /\ \A second \in Pending(frame[h].user) : first <= second
        /\ ended' = [ended EXCEPT ![frame[h].user] = Later(@, first)]
  BY DEF LogoutSet
<1>2. first \in Nat
  BY DEF Pending, TypeOK
<1>3. \A g \in Handlers : pc[g] = "set" /\ frame[g].user = frame[h].user
                          => first <= frame[g].second
  BY <1>1 DEF Pending
<1>4. QED BY <1>1, <1>2, <1>3

LEMMA EndedStep ==
  ASSUME TypeOK, EndedInv, [Next]_vars
  PROVE  EndedInv'
<1>1. CASE UNCHANGED vars
  BY <1>1 DEF vars, calls, EndedInv
<1>2. ASSUME NEW h \in Handlers, NEW u \in Users, LoginSign(h, u)
      PROVE  EndedInv'
  BY <1>2 DEF LoginSign, Call, TypeOK, EndedInv
<1>0. ASSUME NEW h \in Handlers, NEW k \in tokens, LogoutAdmit(h, k)
      PROVE  EndedInv'
  BY <1>0 DEF LogoutAdmit, Call, TypeOK, EndedInv
<1>3. ASSUME NEW h \in Handlers, LogoutStart(h)
      PROVE  EndedInv'
  <2> DEFINE u == frame[h].user
  <2>1. u \in Users /\ ended[u] \in Nat /\ time \in Nat
    BY <1>3 DEF LogoutStart, TypeOK
  <2>2. PICK now \in Readings : Call(h, "set", u, now)
    BY <1>3 DEF LogoutStart
  <2>3. now \in Nat /\ time <= now
    BY ClockAssumption DEF Readings, TypeOK
  <2>4. \A g \in Handlers \ {h} : pc'[g] = pc[g] /\ frame'[g] = frame[g]
    BY <2>2 DEF Call, TypeOK
  <2>5. frame'[h].user = u /\ frame'[h].second = now
    BY <2>2 DEF Call, TypeOK
  <2>6. ended[u] <= now + Skew
    BY <2>1, <2>3, ClockAssumption DEF EndedInv
  <2>7. \A g \in Handlers : pc'[g] = "set" => ended[frame'[g].user] <= frame'[g].second + Skew
    BY <2>4, <2>5, <2>6 DEF EndedInv
  <2>8. QED BY <1>3, <2>7 DEF LogoutStart, EndedInv
<1>4. ASSUME NEW h \in Handlers, LogoutSet(h)
      PROVE  EndedInv'
  <2> DEFINE u == frame[h].user
  <2>1. /\ u \in Users /\ pc[h] = "set" /\ time \in Nat
        /\ frame[h].second \in Nat /\ frame[h].second <= time + Skew
        /\ ended[u] \in Nat /\ ended[u] <= frame[h].second + Skew
    BY <1>4, ClockAssumption DEF LogoutSet, TypeOK, EndedInv
  <2>2. PICK first \in Nat :
          /\ \A g \in Handlers : pc[g] = "set" /\ frame[g].user = u => first <= frame[g].second
          /\ ended' = [ended EXCEPT ![u] = Later(@, first)]
    BY <1>4, FirstEnds
  <2>3. /\ ended'[u] = Later(ended[u], first)
        /\ \A v \in Users \ {u} : ended'[v] = ended[v] /\ invalidBefore'[v] = invalidBefore[v]
        /\ invalidBefore'[u] = [there |-> TRUE, second |-> frame[h].second,
                                 until |-> time + TTL_SECONDS]
        /\ frame' = frame /\ time' = time
        /\ pc'[h] = "clear" /\ \A g \in Handlers \ {h} : pc'[g] = pc[g]
    BY <1>4, <2>1, <2>2 DEF LogoutSet, SetMark, Until, TypeOK
  <2>4. /\ ended'[u] \in Nat /\ ended'[u] <= frame[h].second + Skew
        /\ ended'[u] <= time + Skew
    BY <2>1, <2>2, <2>3, ClockAssumption DEF Later, EndedInv
  <2>5. ASSUME NEW g \in Handlers, pc'[g] = "set"
        PROVE  ended'[frame'[g].user] <= frame'[g].second + Skew
    <3>1. g # h /\ pc[g] = "set" /\ frame[g].user \in Users /\ frame[g].second \in Nat
      BY <2>3, <2>5 DEF TypeOK
    <3>2. ended[frame[g].user] <= frame[g].second + Skew
      BY <3>1 DEF EndedInv
    <3>3. CASE frame[g].user = u
      BY <2>1, <2>2, <2>3, <3>1, <3>2, <3>3, ClockAssumption DEF Later
    <3>4. CASE frame[g].user # u
      BY <2>3, <3>1, <3>2, <3>4
    <3>5. QED BY <3>3, <3>4
  <2>6. ASSUME NEW v \in Users
        PROVE  IF invalidBefore'[v].there
               THEN /\ ended'[v] <= invalidBefore'[v].second + Skew
                    /\ ended'[v] + TTL_SECONDS <= invalidBefore'[v].until + Skew
               ELSE ended'[v] = 0 \/ ended'[v] + TTL_SECONDS <= time + Skew
    <3>1. CASE v = u
      BY <2>1, <2>3, <2>4, <3>1, ClockAssumption, KeptAssumption
    <3>2. CASE v # u
      BY <2>3, <3>2 DEF EndedInv
    <3>3. QED BY <3>1, <3>2
  <2>7. \A v \in Users : ended'[v] <= time' + Skew
    BY <2>3, <2>4 DEF EndedInv
  <2>8. QED BY <2>3, <2>5, <2>6, <2>7 DEF EndedInv
<1>5. ASSUME NEW h \in Handlers, LoginAnswer(h) \/ LogoutClear(h) \/ Abort(h)
      PROVE  EndedInv'
  <2>1. Return(h) /\ UNCHANGED <<time, invalidBefore, ended>>
    BY <1>5 DEF LoginAnswer, LogoutClear, Abort
  <2>2. QED BY <2>1 DEF Return, TypeOK, EndedInv
<1>6. ASSUME NEW u \in Users, Expire(u)
      PROVE  EndedInv'
  BY <1>6 DEF Expire, calls, NoMark, TypeOK, EndedInv
<1>7. ASSUME Elapse
      PROVE  EndedInv'
  <2>1. time \in Nat /\ ended \in [Users -> Nat]
    BY DEF TypeOK
  <2>2. QED BY <1>7, <2>1, ClockAssumption, KeptAssumption DEF Elapse, calls, EndedInv
<1>8. QED BY <1>0, <1>1, <1>2, <1>3, <1>4, <1>5, <1>6, <1>7 DEF Next

LEMMA EndedRefused == TypeOK /\ EndedInv => EndedStays
<1> SUFFICES ASSUME TypeOK, EndedInv, NEW k \in tokens, k.iat + Skew < ended[k.user],
                    NEW now \in Verified(k)
             PROVE  ~Admitted(k, now)
  BY DEF EndedStays
<1>1. k.user \in Users /\ k.iat \in Nat /\ ended[k.user] \in Nat /\ time \in Nat
      /\ now \in Int /\ now + Delay >= time
  BY ClockAssumption DEF TypeOK, Token, Verified
<1>2. CASE invalidBefore[k.user].there
  <2>1. invalidBefore[k.user].second \in Nat /\ k.iat < invalidBefore[k.user].second
    BY <1>1, <1>2, ClockAssumption DEF EndedInv, TypeOK, Mark
  <2>2. QED BY <1>2, <2>1 DEF Admitted, isTokenRevoked
<1>3. CASE ~invalidBefore[k.user].there
  <2>1. k.iat + TTL_SECONDS < time
    BY <1>1, <1>3, ClockAssumption, KeptAssumption DEF EndedInv
  <2>2. QED BY <1>1, <2>1, ClockAssumption, KeptAssumption DEF Admitted, verifyTokenWithIat
<1>4. QED BY <1>2, <1>3

(* A token of before a logout is refused from the SET on, for good, by      *)
(* every process; where logouts of the user overlap, one of before them all.*)
THEOREM LogoutsLast == Spec => []EndedStays
<1>1. Init => EndedInv
  BY EndedInit
<1>2. TypeOK /\ EndedInv /\ [Next]_vars => EndedInv'
  BY EndedStep
<1>3. QED BY TypeInvariant, <1>1, <1>2, EndedRefused, PTL DEF Spec

=============================================================================

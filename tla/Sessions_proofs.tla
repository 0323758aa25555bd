--------------------------- MODULE Sessions_proofs ---------------------------
(* Proofs about Sessions, for any number of servers, requests, players and *)
(* sessions, overlapping and dying as they like; in the last sections, on  *)
(* where playtime arrives, as far as the requests are in turn.             *)
EXTENDS Sessions, TLAPS

USE NoSessionAssumption, NoPlayerAssumption, NoDocAssumption

LEMMA NewPlayerType == NewPlayer \in Profile
BY DEF NewPlayer, Profile

LEMMA CountType ==
  ASSUME NEW d \in Profile, NEW x \in SessionId
  PROVE  /\ Count(d, x) \in Profile
         /\ Count(d, x).last = d.last /\ Count(d, x).longest = d.longest
         /\ \A y \in SessionId \ {x} : Count(d, x).counted[y] = d.counted[y]
         /\ d.counted[x] = 0 => Count(d, x).counted[x] = 1
BY DEF Count, OneMore, Profile

LEMMA SessionsOpen == \A x \in SessionId : Active(x) => session[x] # NoDoc
BY DEF Active

-----------------------------------------------------------------------------
(* Type correctness.                                                       *)

LEMMA TypeInit == Init => TypeOK
BY DEF Init, TypeOK, RequestTypeOK, Pc

LEMMA TypeReturn ==
  ASSUME TypeOK, NEW t \in Request, Return(t),
         UNCHANGED <<mode, session, board>>,
         stored' \in [Player -> Profile \cup {NoDoc}],
         cached' \in [Player -> Profile \cup {NoDoc}]
  PROVE  TypeOK'
BY DEF Return, Goto, TypeOK, RequestTypeOK, Pc

LEMMA SameMode == [Next]_vars => UNCHANGED mode
BY DEF Next, vars

LEMMA ModeType ==
  ASSUME TypeOK
  PROVE  mode.players \subseteq Player /\ (\A t \in Request : ServerOf(t) \in Server)
BY ModeAssumption DEF TypeOK, Mode, ServerOf

LEMMA TypeStep == TypeOK /\ [Next]_vars => TypeOK'
<1> SUFFICES ASSUME TypeOK, [Next]_vars PROVE TypeOK'
  OBVIOUS
<1>0. UNCHANGED mode /\ mode.players \subseteq Player
  BY SameMode, ModeType
<1> USE <1>0
<1>1. ASSUME NEW t \in Request, Prelogin(t) \/ Login(t) PROVE TypeOK'
  <2>1. PICK kind \in {"prelogin", "login"}, at \in {"lookup", "get"} :
          /\ pc[t] = "idle" /\ pc' = [pc EXCEPT ![t] = at]
          /\ op' = [op EXCEPT ![t] = kind]
          /\ kind = "prelogin" => at = "lookup"
          /\ kind = "login" => at = "get"
          /\ UNCHANGED <<stores, sid, prof, hanging, todo, writes>>
    BY <1>1 DEF Prelogin, Login, Begin, Goto
  <2>2. PICK p \in Player : who' = [who EXCEPT ![t] = p]
    BY <1>1 DEF Prelogin, Login
  <2>3. ASSUME NEW u \in Request PROVE RequestTypeOK(u)'
    BY <2>1, <2>2, SMTT(30) DEF stores, TypeOK, RequestTypeOK, Pc, Kind
  <2> QED BY <2>1, <2>2, <2>3 DEF stores, TypeOK, Pc, Kind
<1>2. ASSUME NEW t \in Request, Logout(t) PROVE TypeOK'
  BY <1>2 DEF Logout, Begin, Goto, stores, TypeOK, RequestTypeOK, Pc, Kind, Session
<1>3. ASSUME NEW t \in Request, Startup(t) PROVE TypeOK'
  BY <1>3 DEF Startup, Begin, Goto, stores, TypeOK, RequestTypeOK, Pc, Kind
<1>4. ASSUME NEW t \in Request, LookUp(t) PROVE TypeOK'
  BY <1>4, NewPlayerType DEF LookUp, Goto, stores, TypeOK, RequestTypeOK, Pc
<1>5. ASSUME NEW t \in Request, NEW d \in Profile, Have(t, d), pc[t] \in {"get", "find"},
             UNCHANGED <<stores, op, who, sid, hanging, todo>>
      PROVE  TypeOK'
  <2>1. CASE op[t] = "startup"
    <3>1. sid[t] \in SessionId /\ who[t] \in Player
      BY <1>5, <2>1 DEF TypeOK, RequestTypeOK
    <3>2. [player |-> who[t], doc |-> Count(d, sid[t])] \in [player : Player, doc : Profile]
      BY <1>5, <3>1, CountType
    <3>3. /\ writes' = [writes EXCEPT ![t] = @ \cup {[player |-> who[t], doc |-> Count(d, sid[t])]}]
          /\ pc' = [pc EXCEPT ![t] = "gather"] /\ prof' = prof
      BY <1>5, <2>1 DEF Have, Goto
    <3> QED BY <1>5, <3>2, <3>3 DEF stores, TypeOK, RequestTypeOK, Pc
  <2>2. CASE op[t] # "startup"
    BY <1>5, <2>2 DEF Have, Goto, stores, TypeOK, RequestTypeOK, Pc
  <2> QED BY <2>1, <2>2
<1>6. ASSUME NEW t \in Request, GetPlayer(t) PROVE TypeOK'
  <2>0. pc[t] = "get" /\ who[t] \in Player
    BY <1>6 DEF GetPlayer, TypeOK, RequestTypeOK
  <2>1. CASE Have(t, cached[who[t]]) /\ cached[who[t]] # NoDoc
    BY <1>5, <1>6, <2>0, <2>1 DEF GetPlayer, TypeOK
  <2>2. CASE Goto(t, "find") /\ UNCHANGED <<prof, writes>>
    BY <1>6, <2>0, <2>2 DEF GetPlayer, Goto, stores, TypeOK, RequestTypeOK, Pc
  <2> QED BY <1>6, <2>1, <2>2 DEF GetPlayer
<1>7. ASSUME NEW t \in Request, FindPlayer(t) PROVE TypeOK'
  <2>0. pc[t] = "find" /\ who[t] \in Player /\ UNCHANGED stores
    BY <1>7 DEF FindPlayer, TypeOK, RequestTypeOK
  <2>1. CASE stored[who[t]] # NoDoc
    BY <1>5, <1>7, <2>0, <2>1 DEF FindPlayer, TypeOK
  <2>2. CASE stored[who[t]] = NoDoc /\ op[t] = "startup"
    BY <1>7, <2>0, <2>2 DEF FindPlayer, Goto, stores, memory, TypeOK, RequestTypeOK, Pc
  <2>3. CASE stored[who[t]] = NoDoc /\ op[t] # "startup"
    BY <1>7, <2>0, <2>3, TypeReturn DEF FindPlayer, stores, TypeOK
  <2> QED BY <2>1, <2>2, <2>3
<1>8. ASSUME NEW t \in Request, OpenSession(t) PROVE TypeOK'
  <2>1. PICK x \in SessionId :
          /\ session[x] = NoDoc
          /\ session' = [session EXCEPT ![x] =
               [player |-> who[t], server |-> ServerOf(t), ended |-> FALSE]]
          /\ sid' = [sid EXCEPT ![t] = x]
          /\ prof' = [prof EXCEPT ![t].last = x]
    BY <1>8 DEF OpenSession
  <2>2. /\ pc[t] = "open" /\ pc' = [pc EXCEPT ![t] = "persist"]
        /\ UNCHANGED <<stored, cached, board, op, who, hanging, todo, writes>>
    BY <1>8 DEF OpenSession, Goto
  <2>3. /\ who[t] \in Player /\ prof[t] \in Profile
        /\ [player |-> who[t], server |-> ServerOf(t), ended |-> FALSE] \in Session
    BY <2>2, ModeType DEF TypeOK, RequestTypeOK, Session
  <2>4. [prof[t] EXCEPT !.last = x] \in Profile
    BY <2>3 DEF Profile
  <2>5. prof' = [prof EXCEPT ![t] = [prof[t] EXCEPT !.last = x]]
    BY <2>1
  <2>6. /\ session' \in [SessionId -> Session \cup {NoDoc}]
        /\ \A y \in SessionId : session[y] # NoDoc => session'[y] # NoDoc
    BY <2>1, <2>3 DEF TypeOK
  <2>7. ASSUME NEW u \in Request PROVE RequestTypeOK(u)'
    <3>1. RequestTypeOK(u)
      BY DEF TypeOK
    <3>2. CASE u = t
      <4>1. /\ pc'[t] = "persist" /\ who'[t] = who[t] /\ sid'[t] = x /\ op'[t] = op[t]
            /\ prof'[t] \in Profile
            /\ hanging'[t] = hanging[t] /\ todo'[t] = todo[t] /\ writes'[t] = writes[t]
        BY <2>1, <2>2, <2>4, <2>5 DEF TypeOK
      <4> QED BY <2>3, <2>6, <3>1, <3>2, <4>1, SMTT(30) DEF RequestTypeOK, Pc
    <3>3. CASE u # t
      BY <2>1, <2>2, <2>5, <2>6, <3>1, <3>3 DEF TypeOK, RequestTypeOK
    <3> QED BY <3>2, <3>3
  <2> QED BY <2>1, <2>2, <2>4, <2>5, <2>6, <2>7 DEF TypeOK, Pc
<1>9. ASSUME NEW t \in Request, CheckSession(t) PROVE TypeOK'
  <2>0. pc[t] = "session" /\ sid[t] \in SessionId /\ prof[t] \in Profile /\ UNCHANGED stores
    BY <1>9 DEF CheckSession, TypeOK, RequestTypeOK
  <2>1. CASE Active(sid[t]) /\ session[sid[t]].player = who[t]
    <3>1. PICK longest \in {prof[t].longest, sid[t]} \ {NoSession} :
            prof' = [prof EXCEPT ![t] = [Count(@, sid[t]) EXCEPT !.longest = longest]]
      BY <1>9, <2>1 DEF CheckSession
    <3>2. [Count(prof[t], sid[t]) EXCEPT !.longest = longest] \in Profile
      <4>1. Count(prof[t], sid[t]) \in Profile
        BY <2>0, CountType
      <4> QED BY <2>0, <3>1, <4>1 DEF Profile
    <3>3. session[sid[t]] # NoDoc
      BY <2>0, <2>1, SessionsOpen
    <3>4. /\ pc' = [pc EXCEPT ![t] = "board"]
          /\ UNCHANGED <<op, who, sid, hanging, todo, writes>>
      BY <1>9, <2>1 DEF CheckSession, Goto
    <3>5. ASSUME NEW u \in Request PROVE RequestTypeOK(u)'
      <4>1. RequestTypeOK(u)
        BY DEF TypeOK
      <4>2. CASE u = t
        <5>1. /\ pc'[t] = "board" /\ prof'[t] \in Profile /\ session' = session
              /\ op'[t] = op[t] /\ who'[t] = who[t] /\ sid'[t] = sid[t]
              /\ hanging'[t] = hanging[t] /\ todo'[t] = todo[t] /\ writes'[t] = writes[t]
          BY <2>0, <3>1, <3>2, <3>4 DEF stores, TypeOK
        <5> QED BY <2>0, <3>3, <4>1, <4>2, <5>1 DEF RequestTypeOK, Pc
      <4>3. CASE u # t
        <5>1. /\ pc'[u] = pc[u] /\ prof'[u] = prof[u] /\ session' = session
              /\ op' = op /\ who' = who /\ sid' = sid
              /\ hanging' = hanging /\ todo' = todo /\ writes' = writes
          BY <2>0, <3>1, <3>4, <4>3 DEF stores, TypeOK
        <5> QED BY <4>1, <5>1 DEF RequestTypeOK
      <4> QED BY <4>2, <4>3
    <3>6. pc' \in [Request -> Pc] /\ prof' \in [Request -> Profile \cup {NoDoc}]
      BY <3>1, <3>2, <3>4 DEF TypeOK, Pc
    <3> QED BY <2>0, <3>4, <3>5, <3>6 DEF stores, TypeOK
  <2>2. CASE ~(Active(sid[t]) /\ session[sid[t]].player = who[t])
    BY <1>9, <2>0, <2>2, TypeReturn DEF CheckSession, stores, TypeOK
  <2> QED BY <2>1, <2>2
<1>10. ASSUME NEW t \in Request, IncrementBoard(t) PROVE TypeOK'
  BY <1>10 DEF IncrementBoard, OneMore, Goto, memory, TypeOK, RequestTypeOK, Pc
<1>11. ASSUME NEW t \in Request, CloseSession(t) PROVE TypeOK'
  <2>1. sid[t] \in SessionId /\ session[sid[t]] \in Session
    BY <1>11 DEF CloseSession, TypeOK, RequestTypeOK
  <2>2. [session[sid[t]] EXCEPT !.ended = TRUE] \in Session
    BY <2>1 DEF Session
  <2>3. /\ pc[t] = "close" /\ pc' = [pc EXCEPT ![t] = "persist"]
        /\ session' = [session EXCEPT ![sid[t]] = [session[sid[t]] EXCEPT !.ended = TRUE]]
        /\ UNCHANGED <<stored, cached, board, op, who, sid, prof, hanging, todo, writes>>
    BY <1>11 DEF CloseSession, Goto, memory
  <2>4. /\ session' \in [SessionId -> Session \cup {NoDoc}]
        /\ \A y \in SessionId : session[y] # NoDoc => session'[y] # NoDoc
    BY <2>1, <2>2, <2>3 DEF TypeOK
  <2>5. ASSUME NEW u \in Request PROVE RequestTypeOK(u)'
    <3>1. RequestTypeOK(u)
      BY DEF TypeOK
    <3>2. pc'[u] = IF u = t THEN "persist" ELSE pc[u]
      BY <2>3 DEF TypeOK
    <3> QED BY <2>3, <2>4, <3>1, <3>2 DEF RequestTypeOK, Pc
  <2> QED BY <2>3, <2>4, <2>5 DEF TypeOK, Pc
<1>12. ASSUME NEW t \in Request, PersistPlayer(t) PROVE TypeOK'
  BY <1>12 DEF PersistPlayer, Goto, memory, TypeOK, RequestTypeOK, Pc
<1>13. ASSUME NEW t \in Request, CachePlayer(t) PROVE TypeOK'
  <2>1. cached' \in [Player -> Profile \cup {NoDoc}]
    BY <1>13 DEF CachePlayer, TypeOK, RequestTypeOK
  <2> QED BY <1>13, <2>1, TypeReturn DEF CachePlayer, TypeOK
<1>14. ASSUME NEW t \in Request, FindHanging(t) PROVE TypeOK'
  BY <1>14, SessionsOpen DEF FindHanging, Goto, stores, TypeOK, RequestTypeOK, Pc
<1>15. ASSUME NEW t \in Request, NextHanging(t) PROVE TypeOK'
  BY <1>15 DEF NextHanging, Goto, stores, TypeOK, RequestTypeOK, Pc, Session
<1>16. ASSUME NEW t \in Request, Gathered(t) \/ PlayersReplaced(t) PROVE TypeOK'
  BY <1>16 DEF Gathered, PlayersReplaced, Goto, stores, memory, TypeOK, RequestTypeOK, Pc
<1>17. ASSUME NEW t \in Request, ReplacePlayer(t) PROVE TypeOK'
  BY <1>17 DEF ReplacePlayer, TypeOK, RequestTypeOK, Pc
<1>18. ASSUME NEW t \in Request, ReplaceSession(t) PROVE TypeOK'
  <2>1. PICK x \in hanging[t] : /\ session' = [session EXCEPT ![x].ended = TRUE]
                                /\ hanging' = [hanging EXCEPT ![t] = @ \ {x}]
    BY <1>18 DEF ReplaceSession
  <2>2. x \in SessionId /\ session[x] \in Session
    BY <2>1 DEF TypeOK, RequestTypeOK
  <2>3. [session[x] EXCEPT !.ended = TRUE] \in Session
    BY <2>2 DEF Session
  <2>4. /\ session' \in [SessionId -> Session \cup {NoDoc}]
        /\ \A y \in SessionId : session[y] # NoDoc => session'[y] # NoDoc
    BY <2>1, <2>2, <2>3 DEF TypeOK
  <2>5. /\ pc[t] = "sessions"
        /\ UNCHANGED <<stored, cached, board, pc, op, who, sid, prof, todo, writes>>
    BY <1>18 DEF ReplaceSession
  <2>6. ASSUME NEW u \in Request PROVE RequestTypeOK(u)'
    <3>1. /\ RequestTypeOK(u) /\ hanging'[u] \subseteq hanging[u]
          /\ u # t => hanging'[u] = hanging[u]
      BY <2>1 DEF TypeOK
    <3>2. todo[u] \subseteq hanging'[u]
      BY <2>5, <3>1 DEF RequestTypeOK
    <3>3. hanging'[u] \subseteq {y \in SessionId : session'[y] # NoDoc}
      BY <2>4, <3>1 DEF RequestTypeOK
    <3>4. pc[u] \in {"board", "close"} => session'[sid[u]] # NoDoc
      BY <2>4, <3>1 DEF RequestTypeOK
    <3> QED BY <2>5, <3>1, <3>2, <3>3, <3>4 DEF RequestTypeOK
  <2> QED BY <2>1, <2>4, <2>5, <2>6 DEF TypeOK
<1>19. ASSUME NEW t \in Request, SessionsReplaced(t) \/ Die(t) PROVE TypeOK'
  BY <1>19, TypeReturn DEF SessionsReplaced, Die, stores, TypeOK
<1>20. CASE UNCHANGED vars
  BY <1>20 DEF vars, stores, memory, TypeOK, RequestTypeOK
<1> QED
  BY <1>1, <1>2, <1>3, <1>4, <1>6, <1>7, <1>8, <1>9, <1>10, <1>11, <1>12, <1>13,
     <1>14, <1>15, <1>16, <1>17, <1>18, <1>19, <1>20
     DEF Next, Receive, Step

\* The stores and the memory of every request keep their types: a request
\* never goes on with a player or a session that it did not find.
THEOREM TypeCorrect == Spec => []TypeOK
BY TypeInit, TypeStep, PTL DEF Spec

-----------------------------------------------------------------------------
(* Sessions are kept.                                                      *)

\* What a step may do to the sessions that exist.
Kept == \A x \in SessionId : session[x] # NoDoc =>
          /\ session'[x] # NoDoc
          /\ session'[x].player = session[x].player
          /\ session[x].ended => session'[x].ended

LEMMA SessionsKept == TypeOK /\ [Next]_vars => Kept
<1> SUFFICES ASSUME TypeOK, [Next]_vars PROVE Kept
  OBVIOUS
<1>1. ASSUME NEW x \in SessionId, session[x] # NoDoc,
             session' = [session EXCEPT ![x].ended = TRUE]
      PROVE  Kept
  <2>1. session[x] \in Session
    BY <1>1 DEF TypeOK
  <2>2. [session[x] EXCEPT !.ended = TRUE] \in Session
    BY <2>1 DEF Session
  <2>3. [session[x] EXCEPT !.ended = TRUE].player = session[x].player
    BY <2>1 DEF Session
  <2>4. [session[x] EXCEPT !.ended = TRUE].ended
    BY <2>1 DEF Session
  <2>5. /\ session'[x] = [session[x] EXCEPT !.ended = TRUE]
        /\ \A y \in SessionId \ {x} : session'[y] = session[y]
    BY <1>1 DEF TypeOK
  <2> QED BY <2>2, <2>3, <2>4, <2>5 DEF Kept
<1>2. ASSUME NEW t \in Request, OpenSession(t) PROVE Kept
  BY <1>2 DEF OpenSession, Kept, TypeOK
<1>3. ASSUME NEW t \in Request, CloseSession(t) PROVE Kept
  BY <1>1, <1>3 DEF CloseSession, TypeOK, RequestTypeOK
<1>4. ASSUME NEW t \in Request, ReplaceSession(t) PROVE Kept
  <2>1. PICK x \in hanging[t] : session' = [session EXCEPT ![x].ended = TRUE]
    BY <1>4 DEF ReplaceSession
  <2>2. x \in SessionId /\ session[x] # NoDoc
    BY DEF TypeOK, RequestTypeOK
  <2> QED BY <1>1, <2>1, <2>2
<1>5. ASSUME UNCHANGED session PROVE Kept
  BY <1>5 DEF Kept
<1>6. ASSUME NEW t \in Request, Receive(t) \/ Die(t) PROVE UNCHANGED session
  BY <1>6 DEF Receive, Prelogin, Login, Logout, Startup, Begin, Die, stores
<1>7. ASSUME NEW t \in Request, Step(t),
             ~(OpenSession(t) \/ CloseSession(t) \/ ReplaceSession(t))
      PROVE  UNCHANGED session
  BY <1>7, SMTT(30) DEF Step, LookUp, GetPlayer, FindPlayer, CheckSession, IncrementBoard,
     PersistPlayer, CachePlayer, FindHanging, NextHanging, Gathered, ReplacePlayer,
     PlayersReplaced, SessionsReplaced, stores
<1> QED BY <1>2, <1>3, <1>4, <1>5, <1>6, <1>7 DEF Next, vars, stores

\* No request opens a session again that has ended, or gives it to another
\* player, although login, logout and startup all write whole documents.
THEOREM SessionsEndForGood == Spec => EndedForGood
<1>1. TypeOK /\ [Next]_vars =>
        [\A x \in SessionId : session[x] # NoDoc =>
           /\ session'[x] # NoDoc
           /\ session'[x].player = session[x].player
           /\ session[x].ended => session'[x].ended]_session
  BY SessionsKept DEF Kept
<1> QED BY <1>1, TypeCorrect, PTL DEF Spec, EndedForGood

-----------------------------------------------------------------------------
(* Logins and logouts, when no startup interferes.                         *)
(*                                                                         *)
(* The argument.  A profile that counts a session is written only after    *)
(* that session has ended.  A logout takes its copy of the profile before  *)
(* it looks at the session; if the session is still active then, the copy  *)
(* does not count it yet.  So the copies in the two stores and in the      *)
(* hands of the requests all count ended sessions, each at most once; only *)
(* a logout about to close its session has one more in hand (InHand).      *)

\* Profile d of player p counts and refers to what it should, session x,
\* which is about to be closed, aside.
Sound(p, d, x) ==
  /\ \A y \in SessionId : /\ d.counted[y] <= 1
                          /\ d.counted[y] > 0 /\ y # x => Ended(y)
  /\ d.last # NoSession => session[d.last] # NoDoc /\ session[d.last].player = p
  /\ d.longest # NoSession /\ d.longest # x => Ended(d.longest)

InHand(t) == IF pc[t] \in {"board", "close"} THEN sid[t] ELSE NoSession

NoStartup(t) ==
  /\ op[t] # "startup"
  /\ pc[t] \notin {"hanging", "gather", "players", "sessions"}

LogoutOK ==
  /\ \A p \in Player : \A d \in Documents(p) : Sound(p, d, NoSession)
  /\ \A t \in Request : prof[t] # NoDoc => Sound(who[t], prof[t], InHand(t))
  /\ \A t \in Request : pc[t] = "idle" => prof[t] = NoDoc
  /\ \A t \in Request : NoStartup(t)

LogoutInv == TypeOK /\ LogoutOK

LEMMA LogoutInit == Init => LogoutOK
BY DEF Init, LogoutOK, NoStartup, Documents

\* What is sound stays sound, because ended sessions stay ended.
LEMMA SoundKept ==
  ASSUME Kept, NEW p \in Player, NEW d \in Profile,
         NEW x \in SessionId \cup {NoSession}, Sound(p, d, x)
  PROVE  Sound(p, d, x)'
BY DEF Kept, Sound, Ended, Profile

\* A request that hands no document to a store and moves on with a profile
\* that is sound, or with none.
LEMMA LogoutMove ==
  ASSUME LogoutInv, Kept, NEW t \in Request, UNCHANGED <<stored, cached>>,
         NEW at \in Pc \ {"hanging", "gather", "players", "sessions"}, Goto(t, at),
         \A u \in Request \ {t} : /\ op'[u] = op[u] /\ who'[u] = who[u]
                                  /\ sid'[u] = sid[u] /\ prof'[u] = prof[u],
         op'[t] # "startup",
         at = "idle" => prof'[t] = NoDoc,
         prof'[t] # NoDoc => Sound(who[t], prof[t], InHand(t))'
  PROVE  LogoutOK'
<1>1. ASSUME NEW p \in Player, NEW d \in Documents(p)' PROVE Sound(p, d, NoSession)'
  <2>1. d \in Documents(p) /\ d \in Profile
    BY <1>1 DEF Documents, LogoutInv, TypeOK
  <2> QED BY <2>1, SoundKept DEF LogoutInv, LogoutOK
<1>2. pc' = [pc EXCEPT ![t] = at]
  BY DEF Goto
<1>3. ASSUME NEW u \in Request \ {t}, prof'[u] # NoDoc
      PROVE  Sound(who[u], prof[u], InHand(u))'
  <2>1. /\ pc'[u] = pc[u] /\ sid'[u] = sid[u] /\ who'[u] = who[u] /\ prof'[u] = prof[u]
    BY <1>2, <1>3 DEF LogoutInv, TypeOK
  <2>2. Sound(who[u], prof[u], InHand(u))
    BY <1>3, <2>1 DEF LogoutInv, LogoutOK
  <2>3. prof[u] \in Profile
    BY <1>3, <2>1 DEF LogoutInv, TypeOK
  <2> QED BY <2>1, <2>2, <2>3 DEF Kept, Sound, InHand, Ended, Profile
<1>4. ASSUME NEW u \in Request PROVE NoStartup(u)'
  BY <1>2 DEF NoStartup, LogoutInv, LogoutOK, TypeOK
<1>5. ASSUME NEW u \in Request, pc'[u] = "idle" PROVE prof'[u] = NoDoc
  BY <1>2, <1>5 DEF LogoutInv, LogoutOK, TypeOK
<1> QED BY <1>1, <1>3, <1>4, <1>5 DEF LogoutOK

LEMMA LogoutReturn ==
  ASSUME LogoutInv, Kept, NEW t \in Request, Return(t), UNCHANGED <<stored, cached>>
  PROVE  LogoutOK'
<1>1. /\ Goto(t, "idle") /\ op'[t] = "none" /\ prof'[t] = NoDoc
      /\ \A u \in Request \ {t} : /\ op'[u] = op[u] /\ who'[u] = who[u]
                                  /\ sid'[u] = sid[u] /\ prof'[u] = prof[u]
  BY DEF Return, LogoutInv, TypeOK
<1> QED BY <1>1, LogoutMove DEF Pc

\* Any document that is in a store is sound in the hands of its request.
LEMMA LogoutHave ==
  ASSUME LogoutInv, Kept, NEW t \in Request, NEW d \in Documents(who[t]),
         pc[t] \in {"get", "find"}, Have(t, d),
         UNCHANGED <<stores, op, who, sid>>
  PROVE  LogoutOK'
<1>1. op[t] # "startup" /\ who[t] \in Player
  BY DEF LogoutInv, LogoutOK, NoStartup, TypeOK, RequestTypeOK
<1>2. PICK at \in {"open", "session"} : Goto(t, at)
  BY <1>1 DEF Have
<1>3. prof' = [prof EXCEPT ![t] = d]
  BY <1>1 DEF Have
<1>4. Sound(who[t], d, NoSession) /\ d \in Profile
  BY <1>1 DEF LogoutInv, LogoutOK, Documents, TypeOK
<1>5. Sound(who[t], prof[t], InHand(t))'
  BY <1>2, <1>3, <1>4 DEF Goto, InHand, Sound, Ended, stores, LogoutInv, TypeOK
<1> QED BY <1>1, <1>2, <1>3, <1>5, LogoutMove DEF stores, Pc, LogoutInv, TypeOK

LEMMA LogoutStep ==
  ASSUME LogoutsOnly
  PROVE  LogoutInv /\ [Next]_vars => LogoutInv'
<1> SUFFICES ASSUME LogoutInv, [Next]_vars PROVE LogoutOK'
  BY TypeStep DEF LogoutInv
<1> USE DEF LogoutInv
<1>0. Kept
  BY SessionsKept
<1>1. ASSUME NEW t \in Request, Prelogin(t) \/ Login(t) \/ Logout(t) PROVE LogoutOK'
  <2>1. PICK kind \in Kind \ {"startup"}, at \in {"lookup", "get"} : Begin(t, kind, at)
    BY <1>1 DEF Prelogin, Login, Logout, Kind
  <2>2. \A u \in Request \ {t} : /\ op'[u] = op[u] /\ who'[u] = who[u]
                                 /\ sid'[u] = sid[u] /\ prof'[u] = prof[u]
    BY <1>1, <2>1 DEF Prelogin, Login, Logout, Begin, TypeOK
  <2>3. /\ pc[t] = "idle" /\ Goto(t, at) /\ op'[t] = kind /\ prof' = prof
        /\ UNCHANGED <<stored, cached>>
    BY <2>1 DEF Begin, stores, TypeOK
  <2>4. prof'[t] = NoDoc
    BY <2>3 DEF LogoutOK
  <2> QED BY <1>0, <2>2, <2>3, <2>4, LogoutMove DEF Pc
<1>2. ASSUME NEW t \in Request, Startup(t) PROVE LogoutOK'
  BY <1>2 DEF Startup, Begin, LogoutsOnly
<1>3. ASSUME NEW t \in Request, LookUp(t) PROVE LogoutOK'
  <2>1. /\ who[t] \in Player /\ op[t] # "startup"
        /\ UNCHANGED <<stores, op, who, sid>> /\ Goto(t, "persist")
        /\ pc' = [pc EXCEPT ![t] = "persist"]
    BY <1>3 DEF LookUp, Goto, LogoutOK, NoStartup, TypeOK, RequestTypeOK
  <2>2. PICK d \in Profile : /\ prof' = [prof EXCEPT ![t] = d]
                             /\ d = NewPlayer \/ d \in Documents(who[t])
    BY <1>3, <2>1, NewPlayerType DEF LookUp, Documents, TypeOK
  <2>3. Sound(who[t], d, NoSession)
    BY <2>1, <2>2 DEF LogoutOK, NewPlayer, Sound
  <2>4. Sound(who[t], prof[t], InHand(t))'
    BY <2>1, <2>2, <2>3 DEF InHand, Sound, Ended, stores, TypeOK
  <2> QED BY <1>0, <2>1, <2>2, <2>4, LogoutMove DEF stores, Pc, TypeOK
<1>4. ASSUME NEW t \in Request, GetPlayer(t) PROVE LogoutOK'
  <2>1. /\ pc[t] = "get" /\ who[t] \in Player /\ op[t] # "startup"
        /\ UNCHANGED <<stores, op, who, sid>>
    BY <1>4 DEF GetPlayer, LogoutOK, NoStartup, TypeOK, RequestTypeOK
  <2>2. CASE Have(t, cached[who[t]]) /\ cached[who[t]] # NoDoc
    BY <1>0, <2>1, <2>2, LogoutHave DEF Documents
  <2>3. CASE Goto(t, "find") /\ UNCHANGED <<prof, writes>>
    <3>1. pc' = [pc EXCEPT ![t] = "find"] /\ UNCHANGED <<session, stored, cached>>
      BY <2>1, <2>3 DEF Goto, stores
    <3>2. InHand(t)' = InHand(t)
      BY <2>1, <3>1 DEF InHand, TypeOK
    <3>3. prof'[t] # NoDoc => Sound(who[t], prof[t], InHand(t))'
      BY <2>1, <2>3, <3>1, <3>2 DEF LogoutOK, Sound, Ended
    <3> QED BY <1>0, <2>1, <2>3, <3>1, <3>3, LogoutMove DEF Pc
  <2> QED BY <1>4, <2>2, <2>3 DEF GetPlayer
<1>5. ASSUME NEW t \in Request, FindPlayer(t) PROVE LogoutOK'
  <2>1. /\ pc[t] = "find" /\ who[t] \in Player /\ op[t] # "startup" /\ UNCHANGED stores
    BY <1>5 DEF FindPlayer, LogoutOK, NoStartup, TypeOK, RequestTypeOK
  <2>2. CASE stored[who[t]] # NoDoc
    BY <1>0, <1>5, <2>1, <2>2, LogoutHave DEF FindPlayer, Documents
  <2>3. CASE stored[who[t]] = NoDoc
    BY <1>0, <1>5, <2>1, <2>3, LogoutReturn DEF FindPlayer, stores
  <2> QED BY <2>2, <2>3
<1>6. ASSUME NEW t \in Request, OpenSession(t) PROVE LogoutOK'
  <2>1. PICK x \in SessionId :
          /\ session[x] = NoDoc
          /\ session' = [session EXCEPT ![x] =
               [player |-> who[t], server |-> ServerOf(t), ended |-> FALSE]]
          /\ sid' = [sid EXCEPT ![t] = x]
          /\ prof' = [prof EXCEPT ![t].last = x]
    BY <1>6 DEF OpenSession
  <2>2. /\ pc[t] = "open" /\ pc' = [pc EXCEPT ![t] = "persist"] /\ Goto(t, "persist")
        /\ UNCHANGED <<stored, cached, op, who>> /\ op[t] # "startup"
    BY <1>6 DEF OpenSession, Goto, LogoutOK, NoStartup
  <2>3. /\ prof[t] \in Profile /\ who[t] \in Player
        /\ Sound(who[t], prof[t], NoSession)
    BY <2>2 DEF LogoutOK, InHand, TypeOK, RequestTypeOK
  <2>4. Sound(who[t], prof[t], NoSession)'
    <3>1. /\ prof'[t].last = x /\ prof'[t].longest = prof[t].longest
          /\ prof'[t].counted = prof[t].counted
      BY <2>1, <2>3 DEF Profile, TypeOK
    <3>2. session'[x] # NoDoc /\ session'[x].player = who[t]
      <4> DEFINE new == [player |-> who[t], server |-> ServerOf(t), ended |-> FALSE]
      <4>1. new \in Session /\ new.player = who[t]
        BY <2>3, ModeType DEF Session
      <4>2. session'[x] = new
        BY <2>1 DEF TypeOK
      <4> QED BY <4>1, <4>2
    <3>3. \A y \in SessionId : Ended(y) => Ended(y)'
      BY <1>0 DEF Kept, Ended
    <3> QED BY <2>1, <2>2, <2>3, <3>1, <3>2, <3>3 DEF Sound, Profile
  <2>5. InHand(t)' = NoSession
    BY <2>2 DEF InHand, TypeOK
  <2>6. Sound(who[t], prof[t], InHand(t))'
    BY <2>4, <2>5
  <2> QED BY <1>0, <2>1, <2>2, <2>6, LogoutMove DEF Pc, TypeOK
<1>7. ASSUME NEW t \in Request, CheckSession(t) PROVE LogoutOK'
  <2>1. /\ pc[t] = "session" /\ sid[t] \in SessionId /\ prof[t] \in Profile
        /\ who[t] \in Player /\ UNCHANGED stores
        /\ Sound(who[t], prof[t], NoSession)
    BY <1>7 DEF CheckSession, LogoutOK, InHand, TypeOK, RequestTypeOK
  <2>2. CASE Active(sid[t]) /\ session[sid[t]].player = who[t]
    <3>1. PICK longest \in {prof[t].longest, sid[t]} \ {NoSession} :
            prof' = [prof EXCEPT ![t] = [Count(@, sid[t]) EXCEPT !.longest = longest]]
      BY <1>7, <2>2 DEF CheckSession
    <3>2. /\ pc' = [pc EXCEPT ![t] = "board"] /\ Goto(t, "board")
          /\ UNCHANGED <<op, who, sid>> /\ op[t] # "startup"
      BY <1>7, <2>2 DEF CheckSession, Goto, LogoutOK, NoStartup
    <3>3. prof[t].counted[sid[t]] = 0
      <4>1. ~Ended(sid[t])
        BY <2>2 DEF Active, Ended
      <4>2. prof[t].counted[sid[t]] \in 0..2
        BY <2>1 DEF Profile
      <4> QED BY <2>1, <4>1, <4>2 DEF Sound
    <3>4. /\ prof'[t].counted[sid[t]] = 1
          /\ \A y \in SessionId \ {sid[t]} : prof'[t].counted[y] = prof[t].counted[y]
          /\ prof'[t].last = prof[t].last
          /\ prof'[t].longest = longest
      <4>1. prof'[t] = [Count(prof[t], sid[t]) EXCEPT !.longest = longest]
        BY <3>1 DEF TypeOK
      <4>2. Count(prof[t], sid[t]) \in Profile
        BY <2>1, CountType
      <4>3. /\ prof'[t].counted = Count(prof[t], sid[t]).counted
            /\ prof'[t].last = Count(prof[t], sid[t]).last
            /\ prof'[t].longest = longest
        BY <4>1, <4>2 DEF Profile
      <4> QED BY <2>1, <3>3, <4>3, CountType
    <3>5. Sound(who[t], prof[t], sid[t])'
      BY <2>1, <3>1, <3>2, <3>4 DEF Sound, Ended, stores
    <3>6. InHand(t)' = sid'[t]
      BY <3>2 DEF InHand, TypeOK
    <3>7. Sound(who[t], prof[t], InHand(t))'
      BY <3>5, <3>6 DEF Sound, Ended
    <3> QED BY <1>0, <2>1, <3>1, <3>2, <3>7, LogoutMove DEF stores, Pc, TypeOK
  <2>3. CASE ~(Active(sid[t]) /\ session[sid[t]].player = who[t])
    BY <1>0, <1>7, <2>1, <2>3, LogoutReturn DEF CheckSession, stores
  <2> QED BY <2>2, <2>3
<1>8. ASSUME NEW t \in Request, IncrementBoard(t) PROVE LogoutOK'
  <2>1. /\ pc[t] = "board" /\ pc' = [pc EXCEPT ![t] = "close"] /\ Goto(t, "close")
        /\ UNCHANGED <<session, stored, cached, op, who, sid, prof>> /\ op[t] # "startup"
    BY <1>8 DEF IncrementBoard, Goto, memory, LogoutOK, NoStartup
  <2>2. InHand(t)' = InHand(t)
    BY <2>1 DEF InHand, TypeOK
  <2>3. prof'[t] # NoDoc => Sound(who[t], prof[t], InHand(t))'
    BY <2>1, <2>2 DEF LogoutOK, Sound, Ended
  <2> QED BY <1>0, <2>1, <2>3, LogoutMove DEF Pc
<1>9. ASSUME NEW t \in Request, CloseSession(t) PROVE LogoutOK'
  <2>1. /\ pc[t] = "close" /\ pc' = [pc EXCEPT ![t] = "persist"] /\ Goto(t, "persist")
        /\ session' = [session EXCEPT ![sid[t]].ended = TRUE]
        /\ UNCHANGED <<stored, cached, op, who, sid, prof>> /\ op[t] # "startup"
    BY <1>9 DEF CloseSession, Goto, memory, LogoutOK, NoStartup
  <2>2. /\ sid[t] \in SessionId /\ prof[t] \in Profile /\ who[t] \in Player
        /\ session[sid[t]] \in Session /\ session[sid[t]] # NoDoc
    BY <2>1 DEF TypeOK, RequestTypeOK
  <2>3. Sound(who[t], prof[t], sid[t])
    BY <2>1, <2>2 DEF LogoutOK, InHand
  <2>4. Ended(sid[t])'
    BY <1>0, <2>1, <2>2 DEF Kept, Ended, TypeOK, Session
  <2>5. Sound(who[t], prof[t], sid[t])'
    BY <1>0, <2>1, <2>2, <2>3, SoundKept DEF Sound, Ended, Kept, Profile
  <2>6. Sound(who[t], prof[t], NoSession)'
    BY <2>1, <2>4, <2>5 DEF Sound
  <2>7. InHand(t)' = NoSession
    BY <2>1 DEF InHand, TypeOK
  <2>8. Sound(who[t], prof[t], InHand(t))'
    BY <2>6, <2>7
  <2> QED BY <1>0, <2>1, <2>8, LogoutMove DEF Pc
<1>10. ASSUME NEW t \in Request, PersistPlayer(t) \/ CachePlayer(t) PROVE LogoutOK'
  <2>1. /\ pc[t] \in {"persist", "cache"} /\ who[t] \in Player /\ prof[t] \in Profile
        /\ op[t] # "startup" /\ UNCHANGED session
    BY <1>10 DEF PersistPlayer, CachePlayer, LogoutOK, NoStartup, TypeOK, RequestTypeOK
  <2>2. Sound(who[t], prof[t], NoSession)
    BY <2>1 DEF LogoutOK, InHand
  <2>3. ASSUME NEW p \in Player, NEW d \in Documents(p)' PROVE Sound(p, d, NoSession)'
    <3>1. d \in Documents(p) \/ (p = who[t] /\ d = prof[t])
      BY <1>10, <2>1, <2>3 DEF PersistPlayer, CachePlayer, Documents, TypeOK
    <3>2. Sound(p, d, NoSession)
      BY <2>2, <3>1 DEF LogoutOK
    <3> QED BY <2>1, <3>2 DEF Sound, Ended
  <2>4. PICK at \in {"cache", "idle"} :
          /\ pc' = [pc EXCEPT ![t] = at]
          /\ at = "idle" => prof'[t] = NoDoc /\ op'[t] = "none"
          /\ at = "cache" => UNCHANGED <<op, who, sid, prof>>
          /\ \A u \in Request \ {t} : /\ op'[u] = op[u] /\ who'[u] = who[u]
                                      /\ sid'[u] = sid[u] /\ prof'[u] = prof[u]
    BY <1>10 DEF PersistPlayer, CachePlayer, Return, Goto, memory, TypeOK
  <2>5. ASSUME NEW u \in Request, prof'[u] # NoDoc
        PROVE  Sound(who[u], prof[u], InHand(u))'
    <3>1. /\ who'[u] = who[u] /\ prof'[u] = prof[u]
      BY <2>4, <2>5
    <3>2. InHand(u)' = InHand(u)
      BY <2>1, <2>4, <2>5 DEF InHand, TypeOK
    <3> QED BY <2>1, <2>5, <3>1, <3>2 DEF LogoutOK, Sound, Ended
  <2>6. ASSUME NEW u \in Request
        PROVE  NoStartup(u)' /\ (pc'[u] = "idle" => prof'[u] = NoDoc)
    BY <2>1, <2>4 DEF NoStartup, LogoutOK, TypeOK
  <2> QED BY <2>3, <2>5, <2>6 DEF LogoutOK
<1>11. ASSUME NEW t \in Request,
              \/ FindHanging(t) \/ NextHanging(t) \/ Gathered(t) \/ ReplacePlayer(t)
              \/ PlayersReplaced(t) \/ ReplaceSession(t) \/ SessionsReplaced(t)
       PROVE  LogoutOK'
  BY <1>11 DEF FindHanging, NextHanging, Gathered, ReplacePlayer, PlayersReplaced,
               ReplaceSession, SessionsReplaced, LogoutOK, NoStartup
<1>12. ASSUME NEW t \in Request, Die(t) PROVE LogoutOK'
  BY <1>0, <1>12, LogoutReturn DEF Die, stores
<1>13. CASE UNCHANGED vars
  BY <1>13 DEF vars, stores, memory, LogoutOK, NoStartup, Documents, Sound, Ended, InHand
<1> QED
  BY <1>1, <1>2, <1>3, <1>4, <1>5, <1>6, <1>7, <1>8, <1>9, <1>10, <1>11, <1>12, <1>13
     DEF Next, Receive, Step

\* The circumstances do not change, so this is an invariant of every behaviour.
LogoutsInv == TypeOK /\ (LogoutsOnly => LogoutOK)

LEMMA LogoutInvariant == Spec => []LogoutsInv
<1>1. Init => LogoutsInv
  BY TypeInit, LogoutInit DEF LogoutsInv
<1>2. LogoutsInv /\ [Next]_vars => LogoutsInv'
  <2> SUFFICES ASSUME LogoutsInv, [Next]_vars PROVE LogoutsInv'
    OBVIOUS
  <2>1. TypeOK'
    BY TypeStep DEF LogoutsInv
  <2>2. LogoutsOnly' => LogoutsOnly
    BY SameMode DEF LogoutsOnly
  <2>3. LogoutsOnly => LogoutOK'
    BY LogoutStep DEF LogoutsInv, LogoutInv
  <2> QED BY <2>1, <2>2, <2>3 DEF LogoutsInv
<1> QED BY <1>1, <1>2, PTL DEF Spec

\* As long as no startup closes sessions, no playtime is added to a player
\* twice: the reads and writes of logout are in an order that makes it safe to
\* send a logout again, at any time, whatever the first one came to.
THEOREM LogoutCountsOnce == Spec => []CountedOnce
<1>1. LogoutsInv => CountedOnce
  BY DEF LogoutsInv, LogoutOK, Sound, CountedOnce, AllOnce
<1> QED BY <1>1, LogoutInvariant, PTL

\* As long as no startup closes sessions, the last session of a player exists
\* and the session of the record has ended, in both stores.
THEOREM LogoutKeepsReferences == Spec => []ReferencesSound
<1>1. LogoutsInv => ReferencesSound
  BY DEF LogoutsInv, LogoutOK, Sound, ReferencesSound
<1> QED BY <1>1, LogoutInvariant, PTL

-----------------------------------------------------------------------------
(* The leaderboard and the profiles, when no startup interferes and Redis  *)
(* does what it is told.                                                   *)
(*                                                                         *)
(* The argument.  What a copy of a profile counts is on the leaderboard:   *)
(* only a logout counts a session, its next step is to increment the       *)
(* leaderboard, and it shows its copy to nobody before that.               *)

\* What profile d counts, session y aside, is on the leaderboard.
Covered(d, y) == \A x \in SessionId : d.counted[x] > 0 /\ x # y => board[x] > 0

ToIncrement(t) == IF pc[t] = "board" THEN sid[t] ELSE NoSession

BoardOK ==
  /\ \A p \in Player : \A d \in Documents(p) : Covered(d, NoSession)
  /\ \A t \in Request : prof[t] # NoDoc => Covered(prof[t], ToIncrement(t))

BoardInv == LogoutsInv /\ (LogoutsOnly /\ mode.faulty = {} => BoardOK)

LEMMA BoardMove ==
  ASSUME TypeOK, BoardOK, NEW t \in Request, UNCHANGED <<stored, cached>>,
         \A x \in SessionId : board[x] > 0 => board'[x] > 0,
         \A u \in Request \ {t} : pc'[u] = pc[u] /\ sid'[u] = sid[u] /\ prof'[u] = prof[u],
         prof'[t] # NoDoc => Covered(prof[t], ToIncrement(t))'
  PROVE  BoardOK'
<1>1. ASSUME NEW p \in Player, NEW d \in Documents(p)' PROVE Covered(d, NoSession)'
  BY <1>1 DEF BoardOK, Covered, Documents
<1>2. ASSUME NEW u \in Request, prof'[u] # NoDoc PROVE Covered(prof[u], ToIncrement(u))'
  BY <1>2 DEF BoardOK, Covered, ToIncrement
<1> QED BY <1>1, <1>2 DEF BoardOK

\* A document that a store has is covered in anybody's hands.
LEMMA BoardHave ==
  ASSUME TypeOK, BoardOK, NEW t \in Request, NEW d \in Documents(who[t]), who[t] \in Player,
         op[t] # "startup", Have(t, d), UNCHANGED <<stores, sid>>
  PROVE  BoardOK'
<1>1. pc' \in {[pc EXCEPT ![t] = "open"], [pc EXCEPT ![t] = "session"]}
      /\ prof' = [prof EXCEPT ![t] = d]
  BY DEF Have, Goto
<1>2. prof'[t] = d /\ Covered(d, NoSession) /\ pc'[t] # "board"
  BY <1>1 DEF BoardOK, TypeOK
<1>3. Covered(prof[t], ToIncrement(t))'
  BY <1>2 DEF Covered, ToIncrement, stores
<1> QED BY <1>1, <1>3, BoardMove DEF stores, TypeOK

LEMMA BoardStep ==
  ASSUME LogoutsOnly, mode.faulty = {}, LogoutInv, BoardOK, [Next]_vars
  PROVE  BoardOK'
<1> USE DEF LogoutInv
<1>0. \A t \in Request : NoStartup(t) /\ (pc[t] = "idle" => prof[t] = NoDoc)
  BY DEF LogoutOK
\* A request that leaves the stores alone and moves on with the same counts
<1>1. ASSUME NEW t \in Request, NEW at \in Pc \ {"board"}, pc[t] # "board", Goto(t, at),
             UNCHANGED <<stored, cached, board>>,
             \A u \in Request \ {t} : sid'[u] = sid[u] /\ prof'[u] = prof[u],
             prof'[t] # NoDoc => prof[t] # NoDoc /\ prof'[t].counted = prof[t].counted
      PROVE  BoardOK'
  <2>1. pc' = [pc EXCEPT ![t] = at]
    BY <1>1 DEF Goto
  <2>2. prof'[t] # NoDoc => Covered(prof[t], ToIncrement(t))'
    BY <1>1, <2>1 DEF BoardOK, Covered, ToIncrement, TypeOK
  <2> QED BY <1>1, <2>1, <2>2, BoardMove DEF TypeOK
<1>2. ASSUME NEW t \in Request, Return(t), UNCHANGED <<stored, cached, board>> PROVE BoardOK'
  BY <1>2, BoardMove DEF Return, Goto, TypeOK
<1>3. ASSUME NEW t \in Request, Prelogin(t) \/ Login(t) \/ Logout(t) PROVE BoardOK'
  <2>1. /\ pc[t] = "idle" /\ UNCHANGED <<stores, prof>>
        /\ \E at \in {"lookup", "get"} : Goto(t, at)
        /\ \A u \in Request \ {t} : sid'[u] = sid[u]
    BY <1>3 DEF Prelogin, Login, Logout, Begin, TypeOK
  <2> QED BY <1>1, <2>1 DEF stores, Pc
<1>4. ASSUME NEW t \in Request, Startup(t) PROVE BoardOK'
  BY <1>4 DEF Startup, Begin, LogoutsOnly
<1>5. ASSUME NEW t \in Request, LookUp(t) PROVE BoardOK'
  <2>0. who[t] \in Player
    BY <1>5 DEF LookUp, TypeOK, RequestTypeOK
  <2>1. PICK d \in Profile : /\ prof' = [prof EXCEPT ![t] = d]
                             /\ d = NewPlayer \/ d \in Documents(who[t])
    <3>1. CASE stored[who[t]] = NoDoc
      BY <1>5, <3>1, NewPlayerType DEF LookUp
    <3>2. CASE stored[who[t]] # NoDoc
      BY <1>5, <2>0, <3>2 DEF LookUp, Documents, TypeOK
    <3> QED BY <3>1, <3>2
  <2>2. Covered(d, NoSession)
    BY <2>0, <2>1 DEF BoardOK, Covered, NewPlayer
  <2>3. pc' = [pc EXCEPT ![t] = "persist"] /\ UNCHANGED <<stores, sid>>
    BY <1>5 DEF LookUp, Goto
  <2>4. Covered(prof[t], ToIncrement(t))'
    BY <2>1, <2>2, <2>3 DEF Covered, ToIncrement, stores, TypeOK
  <2> QED BY <2>1, <2>3, <2>4, BoardMove DEF stores, TypeOK
<1>6. ASSUME NEW t \in Request, GetPlayer(t) \/ FindPlayer(t) PROVE BoardOK'
  <2>1. /\ pc[t] \in {"get", "find"} /\ who[t] \in Player /\ op[t] # "startup"
        /\ UNCHANGED stores
    BY <1>0, <1>6 DEF GetPlayer, FindPlayer, NoStartup, TypeOK, RequestTypeOK
  <2>2. ASSUME NEW d \in Documents(who[t]), Have(t, d), UNCHANGED sid PROVE BoardOK'
    BY <2>1, <2>2, BoardHave
  <2>3. ASSUME Goto(t, "find"), UNCHANGED <<prof, sid>> PROVE BoardOK'
    BY <1>1, <2>1, <2>3 DEF stores, Pc
  <2> QED BY <1>2, <1>6, <2>1, <2>2, <2>3 DEF GetPlayer, FindPlayer, Documents, stores
<1>7. ASSUME NEW t \in Request, OpenSession(t) PROVE BoardOK'
  <2>1. PICK x \in SessionId : /\ sid' = [sid EXCEPT ![t] = x]
                               /\ prof' = [prof EXCEPT ![t] = [prof[t] EXCEPT !.last = x]]
    BY <1>7 DEF OpenSession
  <2>2. /\ pc[t] = "open" /\ Goto(t, "persist") /\ UNCHANGED <<stored, cached, board>>
        /\ prof[t] \in Profile
    BY <1>7 DEF OpenSession, TypeOK, RequestTypeOK
  <2>3. prof'[t].counted = prof[t].counted
    BY <2>1, <2>2 DEF Profile, TypeOK
  <2> QED BY <1>1, <2>1, <2>2, <2>3 DEF Pc, TypeOK
<1>8. ASSUME NEW t \in Request, CheckSession(t) PROVE BoardOK'
  <2>1. /\ pc[t] = "session" /\ sid[t] \in SessionId /\ prof[t] \in Profile /\ UNCHANGED stores
    BY <1>8 DEF CheckSession, TypeOK, RequestTypeOK
  <2>2. CASE Active(sid[t]) /\ session[sid[t]].player = who[t]
    <3>1. PICK longest \in {prof[t].longest, sid[t]} \ {NoSession} :
            prof' = [prof EXCEPT ![t] = [Count(prof[t], sid[t]) EXCEPT !.longest = longest]]
      BY <1>8, <2>2 DEF CheckSession
    <3>2. pc' = [pc EXCEPT ![t] = "board"] /\ UNCHANGED sid
      BY <1>8, <2>2 DEF CheckSession, Goto
    <3>3. \A y \in SessionId \ {sid[t]} : prof'[t].counted[y] = prof[t].counted[y]
      <4>1. Count(prof[t], sid[t]) \in Profile
        BY <2>1, CountType
      <4>2. prof'[t].counted = Count(prof[t], sid[t]).counted
        BY <3>1, <4>1 DEF Profile, TypeOK
      <4> QED BY <2>1, <4>2, CountType
    <3>4. Covered(prof[t], NoSession)
      BY <2>1 DEF BoardOK, ToIncrement, TypeOK, RequestTypeOK
    <3>5. Covered(prof[t], ToIncrement(t))'
      BY <2>1, <3>2, <3>3, <3>4 DEF Covered, ToIncrement, stores, TypeOK
    <3> QED BY <2>1, <3>1, <3>2, <3>5, BoardMove DEF stores, TypeOK
  <2>3. CASE ~(Active(sid[t]) /\ session[sid[t]].player = who[t])
    BY <1>2, <1>8, <2>1, <2>3 DEF CheckSession, stores
  <2> QED BY <2>2, <2>3
<1>9. ASSUME NEW t \in Request, IncrementBoard(t) PROVE BoardOK'
  <2>1. /\ pc[t] = "board" /\ pc' = [pc EXCEPT ![t] = "close"] /\ sid[t] \in SessionId
        /\ board' = [board EXCEPT ![sid[t]] = OneMore(board[sid[t]])]
        /\ UNCHANGED <<stored, cached, sid, prof>> /\ prof[t] # NoDoc
    BY <1>9 DEF IncrementBoard, Goto, memory, TypeOK, RequestTypeOK
  <2>2. \A x \in SessionId : (board[x] > 0 \/ x = sid[t]) => board'[x] > 0
    BY <2>1 DEF OneMore, TypeOK
  <2>3. Covered(prof[t], ToIncrement(t))'
    BY <2>1, <2>2 DEF BoardOK, Covered, ToIncrement, TypeOK
  <2> QED BY <2>1, <2>2, <2>3, BoardMove DEF TypeOK
<1>10. ASSUME NEW t \in Request, CloseSession(t) PROVE BoardOK'
  BY <1>1, <1>10 DEF CloseSession, memory, Pc
<1>11. ASSUME NEW t \in Request, PersistPlayer(t) \/ CachePlayer(t) PROVE BoardOK'
  <2>1. /\ pc[t] \in {"persist", "cache"} /\ who[t] \in Player /\ prof[t] \in Profile
        /\ UNCHANGED board
    BY <1>11 DEF PersistPlayer, CachePlayer, TypeOK, RequestTypeOK
  <2>2. Covered(prof[t], NoSession)
    BY <2>1 DEF BoardOK, ToIncrement
  <2>3. ASSUME NEW p \in Player, NEW d \in Documents(p)' PROVE Covered(d, NoSession)'
    <3>1. d \in Documents(p) \/ d = prof[t]
      BY <1>11, <2>1, <2>3 DEF PersistPlayer, CachePlayer, Documents, TypeOK
    <3> QED BY <2>1, <2>2, <3>1 DEF BoardOK, Covered
  <2>4. PICK at \in {"cache", "idle"} :
          /\ pc' = [pc EXCEPT ![t] = at]
          /\ prof'[t] # NoDoc => prof'[t] = prof[t]
          /\ \A u \in Request \ {t} : sid'[u] = sid[u] /\ prof'[u] = prof[u]
    BY <1>11 DEF PersistPlayer, CachePlayer, Return, Goto, memory, TypeOK
  <2>5. ASSUME NEW u \in Request, prof'[u] # NoDoc PROVE Covered(prof[u], ToIncrement(u))'
    BY <2>1, <2>2, <2>4, <2>5 DEF BoardOK, Covered, ToIncrement, TypeOK
  <2> QED BY <2>3, <2>5 DEF BoardOK
<1>12. ASSUME NEW t \in Request,
              \/ FindHanging(t) \/ NextHanging(t) \/ Gathered(t) \/ ReplacePlayer(t)
              \/ PlayersReplaced(t) \/ ReplaceSession(t) \/ SessionsReplaced(t)
       PROVE  BoardOK'
  BY <1>0, <1>12 DEF FindHanging, NextHanging, Gathered, ReplacePlayer, PlayersReplaced,
     ReplaceSession, SessionsReplaced, NoStartup
<1>13. ASSUME NEW t \in Request, Die(t) PROVE BoardOK'
  BY <1>2, <1>13 DEF Die, stores
<1>14. CASE UNCHANGED vars
  BY <1>14 DEF vars, stores, memory, BoardOK, Covered, ToIncrement, Documents
<1> QED
  BY <1>3, <1>4, <1>5, <1>6, <1>7, <1>8, <1>9, <1>10, <1>11, <1>12, <1>13, <1>14
     DEF Next, Receive, Step

LEMMA BoardInvariant == Spec => []BoardInv
<1>1. Init => BoardOK
  BY DEF Init, BoardOK, Documents
<1>2. Init => LogoutsInv
  BY TypeInit, LogoutInit DEF LogoutsInv
<1>3. BoardInv /\ LogoutsInv' /\ [Next]_vars => BoardInv'
  <2> SUFFICES ASSUME BoardInv, LogoutsInv', [Next]_vars, (LogoutsOnly /\ mode.faulty = {})'
               PROVE  BoardOK'
    BY DEF BoardInv
  <2>1. LogoutsOnly /\ mode.faulty = {}
    BY SameMode DEF LogoutsOnly
  <2> QED BY <2>1, BoardStep DEF BoardInv, LogoutsInv, LogoutInv
<1> QED BY <1>1, <1>2, <1>3, LogoutInvariant, PTL DEF BoardInv, Spec

LEMMA BoardIsAhead == BoardInv => BoardCoversProfile
BY DEF BoardInv, BoardOK, Covered, BoardCoversProfile

-----------------------------------------------------------------------------
(* Nothing is lost when logins and logouts follow one another.             *)
(*                                                                         *)
(* The argument.  The only request that is being served has read its copy  *)
(* of a profile after every write of the requests before it, so the copy   *)
(* counts every session of its player that has ended.  Both stores do as   *)
(* well, unless they wait for the copy that the request is about to write. *)

OneByOne ==
  LogoutsOnly /\ ~mode.overlap /\ ~mode.mayDie /\ mode.faulty = {} /\ SameServer

\* Document d of player p counts every session of the player that has ended.
Credits(d, p) ==
  \A x \in SessionId : Ended(x) /\ session[x].player = p => d # NoDoc /\ d.counted[x] = 1

\* The logout has counted a session of its player that is still open.
ClosingOK(t) ==
  Active(sid[t]) /\ session[sid[t]].player = who[t] /\ prof[t].counted[sid[t]] = 1

CompleteOK ==
  /\ \A t, u \in Request : pc[t] # "idle" /\ pc[u] # "idle" => t = u
  /\ \A t \in Request : prof[t] # NoDoc => Credits(prof[t], who[t])
  /\ \A t \in Request : pc[t] \in {"board", "close"} => ClosingOK(t)
  /\ \A p \in Player :
       Credits(stored[p], p) \/ \E t \in Request : pc[t] = "persist" /\ who[t] = p
  /\ \A p \in Player :
       Credits(cached[p], p) \/ \E t \in Request : pc[t] \in {"persist", "cache"} /\ who[t] = p

CompleteInv == LogoutsInv /\ (OneByOne => CompleteOK)

LEMMA CompleteInit == Init => CompleteOK
BY DEF Init, CompleteOK, Credits, Ended

\* A step of the only request that is being served
LEMMA CompleteMove ==
  ASSUME LogoutInv, CompleteOK, NEW t \in Request, NEW at \in Pc, pc' = [pc EXCEPT ![t] = at],
         \A u \in Request \ {t} : pc[u] = "idle" /\ prof'[u] = prof[u],
         prof'[t] # NoDoc => Credits(prof[t], who[t])',
         at \in {"board", "close"} => ClosingOK(t)',
         \A p \in Player : Credits(stored[p], p)' \/ (at = "persist" /\ who'[t] = p),
         \A p \in Player : Credits(cached[p], p)' \/ (at \in {"persist", "cache"} /\ who'[t] = p)
  PROVE  CompleteOK'
<1>1. \A u \in Request \ {t} : pc'[u] = "idle" /\ prof'[u] = NoDoc
  BY DEF LogoutInv, LogoutOK, TypeOK
<1>2. pc'[t] = at
  BY DEF LogoutInv, TypeOK
<1> QED BY <1>1, <1>2 DEF CompleteOK

\* No more sessions have ended.
SameEnds == \A x \in SessionId : Ended(x)' => Ended(x) /\ session'[x].player = session[x].player

\* A step that leaves the stores alone and ends no session
LEMMA CompleteQuiet ==
  ASSUME LogoutInv, CompleteOK, NEW t \in Request, NEW at \in Pc, Goto(t, at),
         SameEnds, UNCHANGED <<stored, cached>>, pc[t] \notin {"persist", "cache"},
         \A u \in Request \ {t} : pc[u] = "idle" /\ prof'[u] = prof[u],
         prof'[t] # NoDoc => Credits(prof[t], who[t])',
         at \in {"board", "close"} => ClosingOK(t)'
  PROVE  CompleteOK'
<1>1. \A p \in Player : Credits(stored[p], p) /\ Credits(cached[p], p)
  BY DEF CompleteOK
<1>2. \A p \in Player : Credits(stored[p], p)' /\ Credits(cached[p], p)'
  BY <1>1 DEF SameEnds, Credits
<1> QED BY <1>2, CompleteMove DEF Goto

LEMMA CompleteReturn ==
  ASSUME LogoutInv, CompleteOK, NEW t \in Request, Return(t), UNCHANGED stores,
         pc[t] \notin {"persist", "cache"},
         \A u \in Request \ {t} : pc[u] = "idle"
  PROVE  CompleteOK'
<1>1. /\ Goto(t, "idle") /\ prof'[t] = NoDoc /\ SameEnds
      /\ \A u \in Request \ {t} : prof'[u] = prof[u]
  BY DEF Return, SameEnds, Ended, stores, LogoutInv, TypeOK
<1> QED BY <1>1, CompleteQuiet DEF Pc, stores

LEMMA CompleteHave ==
  ASSUME LogoutInv, CompleteOK, NEW t \in Request, NEW d \in Documents(who[t]),
         pc[t] \in {"get", "find"}, Have(t, d), UNCHANGED <<stores, op, who, sid>>,
         \A u \in Request \ {t} : pc[u] = "idle"
  PROVE  CompleteOK'
<1>1. op[t] # "startup" /\ who[t] \in Player
  BY DEF LogoutInv, LogoutOK, NoStartup, TypeOK, RequestTypeOK
<1>2. PICK at \in {"open", "session"} : Goto(t, at)
  BY <1>1 DEF Have
<1>3. prof' = [prof EXCEPT ![t] = d]
  BY <1>1 DEF Have
<1>4. Credits(d, who[t])
  BY <1>1 DEF CompleteOK, Documents
<1>5. Credits(prof[t], who[t])'
  BY <1>3, <1>4 DEF Credits, Ended, stores, LogoutInv, TypeOK
<1> QED BY <1>1, <1>2, <1>3, <1>5, CompleteQuiet DEF stores, Pc, LogoutInv, TypeOK, SameEnds, Ended

LEMMA CompleteStep ==
  ASSUME OneByOne, LogoutInv, CompleteOK, [Next]_vars
  PROVE  CompleteOK'
<1> USE DEF LogoutInv
<1>0. /\ \A t \in Request : NoStartup(t) /\ (pc[t] = "idle" => prof[t] = NoDoc)
      /\ \A t, u \in Request : pc[t] # "idle" => u = t \/ pc[u] = "idle"
      /\ UNCHANGED session => SameEnds
  BY DEF LogoutOK, CompleteOK, SameEnds, Ended
<1>1. ASSUME NEW t \in Request, Prelogin(t) \/ Login(t) \/ Logout(t) PROVE CompleteOK'
  <2>1. /\ pc[t] = "idle" /\ UNCHANGED <<stores, prof>>
        /\ \E at \in {"lookup", "get"} : Goto(t, at)
        /\ \A u \in Request : pc[u] = "idle"
    BY <1>1 DEF Prelogin, Login, Logout, Begin, OneByOne, SameServer
  <2>2. prof'[t] = NoDoc
    BY <1>0, <2>1
  <2> QED BY <1>0, <2>1, <2>2, CompleteQuiet DEF stores, Pc
<1>2. ASSUME NEW t \in Request, Startup(t) PROVE CompleteOK'
  BY <1>2 DEF Startup, Begin, OneByOne, LogoutsOnly
<1>3. ASSUME NEW t \in Request, LookUp(t) PROVE CompleteOK'
  <2>1. /\ who[t] \in Player /\ UNCHANGED <<stores, who>> /\ Goto(t, "persist")
        /\ pc[t] = "lookup"
    BY <1>3 DEF LookUp, TypeOK, RequestTypeOK
  <2>2. Credits(stored[who[t]], who[t])
    BY <1>0, <2>1 DEF CompleteOK
  <2>3. prof' = [prof EXCEPT ![t] = IF stored[who[t]] = NoDoc THEN NewPlayer ELSE stored[who[t]]]
    BY <1>3 DEF LookUp
  <2>4. Credits(prof[t], who[t])'
    BY <2>1, <2>2, <2>3, NewPlayerType DEF Credits, Ended, stores, TypeOK
  <2> QED BY <1>0, <2>1, <2>3, <2>4, CompleteQuiet DEF stores, Pc, TypeOK
<1>4. ASSUME NEW t \in Request, GetPlayer(t) PROVE CompleteOK'
  <2>1. /\ pc[t] = "get" /\ who[t] \in Player /\ UNCHANGED <<stores, op, who, sid>>
    BY <1>4 DEF GetPlayer, TypeOK, RequestTypeOK
  <2>2. CASE Have(t, cached[who[t]]) /\ cached[who[t]] # NoDoc
    BY <1>0, <2>1, <2>2, CompleteHave DEF Documents
  <2>3. CASE Goto(t, "find") /\ UNCHANGED <<prof, writes>>
    <3>1. prof'[t] # NoDoc => Credits(prof[t], who[t])'
      BY <2>1, <2>3 DEF CompleteOK, Credits, Ended, stores
    <3> QED BY <1>0, <2>1, <2>3, <3>1, CompleteQuiet DEF stores, Pc
  <2> QED BY <1>4, <2>2, <2>3 DEF GetPlayer
<1>5. ASSUME NEW t \in Request, FindPlayer(t) PROVE CompleteOK'
  <2>1. /\ pc[t] = "find" /\ who[t] \in Player /\ op[t] # "startup" /\ UNCHANGED stores
    BY <1>0, <1>5 DEF FindPlayer, NoStartup, TypeOK, RequestTypeOK
  <2>2. CASE stored[who[t]] # NoDoc
    BY <1>0, <1>5, <2>1, <2>2, CompleteHave DEF FindPlayer, Documents
  <2>3. CASE stored[who[t]] = NoDoc
    BY <1>0, <1>5, <2>1, <2>3, CompleteReturn DEF FindPlayer
  <2> QED BY <2>2, <2>3
<1>6. ASSUME NEW t \in Request, OpenSession(t) PROVE CompleteOK'
  <2>1. PICK x \in SessionId :
          /\ session[x] = NoDoc
          /\ session' = [session EXCEPT ![x] =
               [player |-> who[t], server |-> ServerOf(t), ended |-> FALSE]]
          /\ prof' = [prof EXCEPT ![t] = [prof[t] EXCEPT !.last = x]]
    BY <1>6 DEF OpenSession
  <2>2. /\ pc[t] = "open" /\ Goto(t, "persist") /\ UNCHANGED <<stored, cached, who>>
        /\ prof[t] \in Profile
    BY <1>6 DEF OpenSession, TypeOK, RequestTypeOK
  <2>3. SameEnds
    <3>1. session'[x] = [player |-> who[t], server |-> ServerOf(t), ended |-> FALSE]
      BY <2>1 DEF TypeOK
    <3>2. ~session'[x].ended
      BY <3>1
    <3>3. \A y \in SessionId \ {x} : session'[y] = session[y]
      BY <2>1 DEF TypeOK
    <3> QED BY <3>2, <3>3 DEF SameEnds, Ended
  <2>4. prof'[t] # NoDoc /\ prof'[t].counted = prof[t].counted
    <3>1. [prof[t] EXCEPT !.last = x] \in Profile
      BY <2>2 DEF Profile
    <3>2. [prof[t] EXCEPT !.last = x].counted = prof[t].counted
      BY <2>2 DEF Profile
    <3> QED BY <2>1, <3>1, <3>2 DEF TypeOK
  <2>5. Credits(prof[t], who[t])
    BY <2>2 DEF CompleteOK
  <2>6. Credits(prof[t], who[t])'
    BY <2>2, <2>3, <2>4, <2>5 DEF Credits, SameEnds
  <2> QED BY <1>0, <2>1, <2>2, <2>3, <2>6, CompleteQuiet DEF Pc, TypeOK
<1>7. ASSUME NEW t \in Request, CheckSession(t) PROVE CompleteOK'
  <2>1. /\ pc[t] = "session" /\ sid[t] \in SessionId /\ prof[t] \in Profile /\ UNCHANGED stores
    BY <1>7 DEF CheckSession, TypeOK, RequestTypeOK
  <2>2. CASE Active(sid[t]) /\ session[sid[t]].player = who[t]
    <3>1. PICK longest \in {prof[t].longest, sid[t]} \ {NoSession} :
            prof' = [prof EXCEPT ![t] = [Count(prof[t], sid[t]) EXCEPT !.longest = longest]]
      BY <1>7, <2>2 DEF CheckSession
    <3>2. Goto(t, "board") /\ UNCHANGED <<who, sid>>
      BY <1>7, <2>2 DEF CheckSession
    <3>3. prof[t].counted[sid[t]] = 0
      <4>1. ~Ended(sid[t])
        BY <2>2 DEF Active, Ended
      <4>2. prof[t].counted[sid[t]] \in 0..2
        BY <2>1 DEF Profile
      <4>3. Sound(who[t], prof[t], NoSession)
        BY <2>1 DEF LogoutOK, InHand
      <4> QED BY <2>1, <4>1, <4>2, <4>3 DEF Sound
    <3>4. /\ prof'[t] # NoDoc /\ prof'[t].counted[sid[t]] = 1
          /\ \A y \in SessionId \ {sid[t]} : prof'[t].counted[y] = prof[t].counted[y]
      <4>1. Count(prof[t], sid[t]) \in Profile
        BY <2>1, CountType
      <4>2. /\ [Count(prof[t], sid[t]) EXCEPT !.longest = longest] \in Profile
            /\ [Count(prof[t], sid[t]) EXCEPT !.longest = longest].counted
                 = Count(prof[t], sid[t]).counted
        BY <2>1, <3>1, <4>1 DEF Profile
      <4>3. prof'[t] # NoDoc /\ prof'[t].counted = Count(prof[t], sid[t]).counted
        BY <3>1, <4>2 DEF TypeOK
      <4> QED BY <2>1, <3>3, <4>3, CountType
    <3>5. Credits(prof[t], who[t])
      BY <2>1 DEF CompleteOK
    <3>6. Credits(prof[t], who[t])'
      BY <2>1, <2>2, <3>2, <3>4, <3>5 DEF Credits, Ended, Active, stores
    <3>7. ClosingOK(t)'
      BY <2>1, <2>2, <3>2, <3>4 DEF ClosingOK, Active, stores
    <3> QED BY <1>0, <2>1, <3>1, <3>2, <3>6, <3>7, CompleteQuiet DEF stores, Pc, TypeOK
  <2>3. CASE ~(Active(sid[t]) /\ session[sid[t]].player = who[t])
    BY <1>0, <1>7, <2>1, <2>3, CompleteReturn DEF CheckSession
  <2> QED BY <2>2, <2>3
<1>8. ASSUME NEW t \in Request, IncrementBoard(t) PROVE CompleteOK'
  <2>1. /\ pc[t] = "board" /\ Goto(t, "close") /\ prof[t] # NoDoc
        /\ UNCHANGED <<session, stored, cached, who, sid, prof>>
    BY <1>8 DEF IncrementBoard, memory, TypeOK, RequestTypeOK
  <2>2. Credits(prof[t], who[t])' /\ ClosingOK(t)'
    BY <2>1 DEF CompleteOK, Credits, ClosingOK, Active, Ended
  <2> QED BY <1>0, <2>1, <2>2, CompleteQuiet DEF Pc
<1>9. ASSUME NEW t \in Request, CloseSession(t) PROVE CompleteOK'
  <2>1. /\ pc[t] = "close" /\ pc' = [pc EXCEPT ![t] = "persist"]
        /\ session' = [session EXCEPT ![sid[t]] = [session[sid[t]] EXCEPT !.ended = TRUE]]
        /\ UNCHANGED <<stored, cached, who, sid, prof>>
        /\ sid[t] \in SessionId /\ prof[t] # NoDoc
    BY <1>9 DEF CloseSession, Goto, memory, TypeOK, RequestTypeOK
  <2>2. ClosingOK(t) /\ Credits(prof[t], who[t]) /\ session[sid[t]] \in Session
    BY <2>1 DEF CompleteOK, TypeOK, RequestTypeOK
  <2>3. /\ session'[sid[t]].player = who[t]
        /\ \A x \in SessionId \ {sid[t]} : session'[x] = session[x]
    BY <2>1, <2>2 DEF ClosingOK, TypeOK, Session
  <2>4. Credits(prof[t], who[t])'
    BY <2>1, <2>2, <2>3 DEF Credits, ClosingOK, Ended
  <2>5. ASSUME NEW p \in Player, p # who[t]
        PROVE  Credits(stored[p], p)' /\ Credits(cached[p], p)'
    <3>1. Credits(stored[p], p) /\ Credits(cached[p], p)
      BY <1>0, <2>1 DEF CompleteOK
    <3> QED BY <2>1, <2>3, <2>5, <3>1 DEF Credits, Ended
  <2> QED BY <1>0, <2>1, <2>4, <2>5, CompleteMove DEF Pc
<1>10. ASSUME NEW t \in Request, PersistPlayer(t) PROVE CompleteOK'
  <2>1. /\ pc[t] = "persist" /\ pc' = [pc EXCEPT ![t] = "cache"] /\ who[t] \in Player
        /\ stored' = [stored EXCEPT ![who[t]] = prof[t]]
        /\ UNCHANGED <<session, cached, who, prof>> /\ prof[t] # NoDoc
    BY <1>10 DEF PersistPlayer, Goto, memory, TypeOK, RequestTypeOK
  <2>2. Credits(prof[t], who[t]) /\ Credits(prof[t], who[t])'
    BY <2>1 DEF CompleteOK, Credits, Ended
  <2>3. ASSUME NEW p \in Player PROVE Credits(stored[p], p)'
    <3>1. CASE p = who[t]
      BY <2>1, <2>2, <3>1 DEF Credits, Ended, TypeOK
    <3>2. CASE p # who[t]
      <4>1. Credits(stored[p], p)
        BY <1>0, <2>1, <3>2 DEF CompleteOK
      <4> QED BY <2>1, <3>2, <4>1 DEF Credits, Ended, TypeOK
    <3> QED BY <3>1, <3>2
  <2>4. ASSUME NEW p \in Player, p # who[t] PROVE Credits(cached[p], p)'
    BY <1>0, <2>1, <2>4 DEF CompleteOK, Credits, Ended
  <2>5. \A p \in Player : Credits(cached[p], p)' \/ who'[t] = p
    BY <2>1, <2>4
  <2>6. /\ "cache" \in Pc /\ "cache" \notin {"board", "close"}
        /\ \A u \in Request \ {t} : pc[u] = "idle" /\ prof'[u] = prof[u]
    BY <1>0, <2>1 DEF Pc
  <2> QED BY <2>1, <2>2, <2>3, <2>5, <2>6, CompleteMove
<1>11. ASSUME NEW t \in Request, CachePlayer(t) PROVE CompleteOK'
  <2>1. /\ pc[t] = "cache" /\ pc' = [pc EXCEPT ![t] = "idle"] /\ who[t] \in Player
        /\ cached' = [cached EXCEPT ![who[t]] = prof[t]] /\ prof'[t] = NoDoc
        /\ \A u \in Request \ {t} : prof'[u] = prof[u]
        /\ UNCHANGED <<session, stored>> /\ prof[t] # NoDoc
    BY <1>11 DEF CachePlayer, OneByOne, Return, Goto, TypeOK, RequestTypeOK
  <2>2. Credits(prof[t], who[t])
    BY <2>1 DEF CompleteOK
  <2>3. ASSUME NEW p \in Player PROVE Credits(stored[p], p)'
    BY <1>0, <2>1 DEF CompleteOK, Credits, Ended
  <2>4. ASSUME NEW p \in Player PROVE Credits(cached[p], p)'
    <3>1. CASE p = who[t]
      BY <2>1, <2>2, <3>1 DEF Credits, Ended, TypeOK
    <3>2. CASE p # who[t]
      <4>1. Credits(cached[p], p)
        BY <1>0, <2>1, <3>2 DEF CompleteOK
      <4> QED BY <2>1, <3>2, <4>1 DEF Credits, Ended, TypeOK
    <3> QED BY <3>1, <3>2
  <2> QED BY <1>0, <2>1, <2>3, <2>4, CompleteMove DEF Pc
<1>12. ASSUME NEW t \in Request,
              \/ FindHanging(t) \/ NextHanging(t) \/ Gathered(t) \/ ReplacePlayer(t)
              \/ PlayersReplaced(t) \/ ReplaceSession(t) \/ SessionsReplaced(t)
       PROVE  CompleteOK'
  BY <1>0, <1>12 DEF FindHanging, NextHanging, Gathered, ReplacePlayer, PlayersReplaced,
     ReplaceSession, SessionsReplaced, NoStartup
<1>13. ASSUME NEW t \in Request, Die(t) PROVE CompleteOK'
  BY <1>13 DEF Die, OneByOne
<1>14. CASE UNCHANGED vars
  BY <1>14 DEF vars, stores, memory, CompleteOK, Credits, ClosingOK, Active, Ended
<1> QED
  BY <1>1, <1>2, <1>3, <1>4, <1>5, <1>6, <1>7, <1>8, <1>9, <1>10, <1>11, <1>12, <1>13, <1>14
     DEF Next, Receive, Step

LEMMA CompleteInvariant == Spec => []CompleteInv
<1>1. Init => CompleteOK /\ LogoutsInv
  BY TypeInit, LogoutInit, CompleteInit DEF LogoutsInv
<1>2. CompleteInv /\ LogoutsInv' /\ [Next]_vars => CompleteInv'
  <2> SUFFICES ASSUME CompleteInv, LogoutsInv', [Next]_vars, OneByOne' PROVE CompleteOK'
    BY DEF CompleteInv
  <2>1. OneByOne
    BY SameMode DEF OneByOne, LogoutsOnly, SameServer, ServerOf
  <2> QED BY <2>1, CompleteStep DEF CompleteInv, LogoutsInv, LogoutInv, OneByOne
<1> QED BY <1>1, <1>2, LogoutInvariant, PTL DEF CompleteInv, Spec

LEMMA ProfilesEndUpComplete == CompleteInv => ProfilesComplete
<1> SUFFICES ASSUME CompleteInv, OneByOne, \A t \in Request : pc[t] = "idle",
                    NEW x \in SessionId, Ended(x),
                    NEW d \in {stored[session[x].player], cached[session[x].player]}
             PROVE  d # NoDoc /\ d.counted[x] = 1
  BY DEF ProfilesComplete, OneByOne
<1>1. session[x].player \in Player
  BY DEF CompleteInv, LogoutsInv, TypeOK, Ended, Session
<1> QED BY <1>1 DEF CompleteInv, CompleteOK, Credits

-----------------------------------------------------------------------------
(* Logouts and startups together, when the requests of a server follow one *)
(* another.                                                                *)
(*                                                                         *)
(* The argument.  A session belongs to one server, and one request of that *)
(* server is being served, so only that request closes the session.  From  *)
(* the moment that a document counts the session to the moment that it has *)
(* ended, the request is on its way to ending it (Settled); it counts the  *)
(* session once in that time, and nobody else can.                         *)

\* What a request does to a session of its server
WorkOK(t) ==
  /\ pc[t] = "idle" => op[t] = "none"
  /\ pc[t] \in {"get", "find"} => op[t] \in {"login", "logout", "startup"}
  /\ pc[t] \in {"session", "board", "close"} => op[t] = "logout"
  /\ op[t] = "startup" => pc[t] \in {"hanging", "gather", "get", "find", "players", "sessions"}
  /\ pc[t] = "hanging" => op[t] = "startup"
  /\ op[t] # "startup" \/ pc[t] = "hanging" => hanging[t] = {}
  /\ op[t] = "startup" /\ pc[t] \in {"get", "find"} => sid[t] \in hanging[t] \ todo[t]
  /\ \A x \in hanging[t] : Active(x) /\ session[x].server = ServerOf(t)
  /\ op[t] = "logout" /\ pc[t] \in {"get", "find", "session", "board", "close"} =>
       session[sid[t]] # NoDoc /\ session[sid[t]].server = ServerOf(t)

\* Request t is the one of its server that is being served.
Serves(t) ==
  \A u \in Request \ {t} : ServerOf(u) = ServerOf(t) => pc[u] = "idle"

ServiceOK ==
  /\ \A t \in Request : pc[t] # "idle" => Serves(t)
  /\ \A t \in Request : WorkOK(t)

LEMMA OthersRest ==
  ASSUME TypeOK, NEW t \in Request, Receive(t) \/ Step(t) \/ Die(t), NEW u \in Request \ {t}
  PROVE  /\ pc'[u] = pc[u] /\ op'[u] = op[u] /\ sid'[u] = sid[u] /\ prof'[u] = prof[u]
         /\ hanging'[u] = hanging[u] /\ todo'[u] = todo[u] /\ writes'[u] = writes[u]
<1>1. CASE Receive(t)
  BY <1>1 DEF Receive, Prelogin, Login, Logout, Startup, Begin, Goto, TypeOK
<1>2. CASE Die(t)
  BY <1>2 DEF Die, Return, Goto, TypeOK
<1>3. CASE LookUp(t) \/ GetPlayer(t) \/ FindPlayer(t)
  BY <1>3 DEF LookUp, GetPlayer, FindPlayer, Have, Return, Goto, memory, TypeOK
<1>4. CASE OpenSession(t) \/ CheckSession(t)
  BY <1>4 DEF OpenSession, CheckSession, Return, Goto, TypeOK
<1>5. CASE IncrementBoard(t) \/ CloseSession(t) \/ PersistPlayer(t) \/ CachePlayer(t)
  BY <1>5 DEF IncrementBoard, CloseSession, PersistPlayer, CachePlayer, Return, Goto, memory,
     TypeOK
<1>6. CASE FindHanging(t) \/ NextHanging(t) \/ Gathered(t) \/ ReplacePlayer(t)
  BY <1>6 DEF FindHanging, NextHanging, Gathered, ReplacePlayer, Goto, memory, TypeOK
<1>7. CASE PlayersReplaced(t) \/ ReplaceSession(t) \/ SessionsReplaced(t)
  BY <1>7 DEF PlayersReplaced, ReplaceSession, SessionsReplaced, Return, Goto, memory, TypeOK
<1> QED BY <1>1, <1>2, <1>3, <1>4, <1>5, <1>6, <1>7 DEF Step

\* A step of the request that its server waits for
LEMMA ServiceMove ==
  ASSUME TypeOK, ServiceOK, NEW t \in Request, Receive(t) \/ Step(t) \/ Die(t), UNCHANGED mode,
         Serves(t), WorkOK(t)',
         \A x \in SessionId :
           session[x] # NoDoc /\ session[x].server # ServerOf(t) => session'[x] = session[x]
  PROVE  ServiceOK'
<1>1. \A u \in Request : ServerOf(u)' = ServerOf(u)
  BY DEF ServerOf
<1>2. ASSUME NEW u \in Request, pc'[u] # "idle" PROVE Serves(u)'
  <2>1. ASSUME NEW v \in Request \ {u}, ServerOf(v) = ServerOf(u) PROVE pc'[v] = "idle"
    <3>1. CASE u = t
      BY <2>1, <3>1, OthersRest DEF Serves
    <3>2. CASE u # t
      <4>1. pc[u] # "idle" /\ Serves(u) /\ v # t
        BY <1>2, <2>1, <3>2, OthersRest DEF ServiceOK, Serves
      <4> QED BY <2>1, <4>1, OthersRest DEF Serves
    <3> QED BY <3>1, <3>2
  <2> QED BY <1>1, <2>1 DEF Serves
<1>3. ASSUME NEW u \in Request \ {t} PROVE WorkOK(u)'
  <2>1. WorkOK(u) /\ hanging[u] \subseteq SessionId
    BY DEF ServiceOK, TypeOK
  <2>2. /\ pc'[u] = pc[u] /\ op'[u] = op[u] /\ sid'[u] = sid[u]
        /\ hanging'[u] = hanging[u] /\ todo'[u] = todo[u]
    BY OthersRest
  <2>3. pc[u] # "idle" => ServerOf(u) # ServerOf(t)
    BY DEF Serves
  <2>4. ASSUME NEW x \in hanging[u] PROVE session'[x] = session[x]
    BY <2>1, <2>3, <2>4 DEF WorkOK, Active
  <2>5. ASSUME op[u] = "logout", pc[u] \in {"get", "find", "session", "board", "close"}
        PROVE  session'[sid[u]] = session[sid[u]]
    <3>1. sid[u] \in SessionId
      BY <2>5 DEF TypeOK, RequestTypeOK
    <3> QED BY <2>1, <2>3, <2>5, <3>1 DEF WorkOK
  <2> QED BY <1>1, <2>1, <2>2, <2>4, <2>5 DEF WorkOK, Active
<1> QED BY <1>2, <1>3 DEF ServiceOK

LEMMA ServiceInit == Init => ServiceOK
BY DEF Init, ServiceOK, Serves, WorkOK

LEMMA ServiceStep ==
  ASSUME ~mode.overlap, TypeOK, ServiceOK, [Next]_vars
  PROVE  ServiceOK'
<1>0. UNCHANGED mode /\ (\A t \in Request : ServerOf(t)' = ServerOf(t))
  BY SameMode DEF ServerOf
<1>1. ASSUME NEW t \in Request, Receive(t) PROVE ServiceOK'
  <2>1. Serves(t) /\ UNCHANGED session /\ pc[t] = "idle"
    BY <1>1 DEF Receive, Prelogin, Login, Logout, Startup, Begin, Serves, stores
  <2>2. WorkOK(t) /\ hanging[t] = {}
    BY <2>1 DEF ServiceOK, WorkOK
  <2>3. /\ hanging'[t] = {}
        /\ \/ op'[t] = "prelogin" /\ pc'[t] = "lookup"
           \/ op'[t] = "login" /\ pc'[t] = "get"
           \/ /\ op'[t] = "logout" /\ pc'[t] = "get"
              /\ session[sid'[t]] # NoDoc /\ session[sid'[t]].server = ServerOf(t)
           \/ op'[t] = "startup" /\ pc'[t] = "hanging"
    BY <1>1, <2>2 DEF Receive, Prelogin, Login, Logout, Startup, Begin, Goto, TypeOK
  <2>4. WorkOK(t)'
    BY <1>0, <2>1, <2>3 DEF WorkOK
  <2> QED BY <1>0, <1>1, <2>1, <2>4, ServiceMove
<1>2. ASSUME NEW t \in Request, Return(t), pc[t] # "idle", UNCHANGED session, Step(t) \/ Die(t)
      PROVE  ServiceOK'
  <2>1. Serves(t)
    BY <1>2 DEF ServiceOK
  <2>2. pc'[t] = "idle" /\ op'[t] = "none" /\ hanging'[t] = {}
    BY <1>2 DEF Return, Goto, TypeOK
  <2>3. WorkOK(t)'
    BY <2>2 DEF WorkOK
  <2> QED BY <1>0, <1>2, <2>1, <2>3, ServiceMove
\* Any other step
<1>3. ASSUME NEW t \in Request, Step(t), pc[t] # "idle", WorkOK(t)',
             \A x \in SessionId :
               session[x] # NoDoc /\ session[x].server # ServerOf(t) => session'[x] = session[x]
      PROVE  ServiceOK'
  BY <1>0, <1>3, ServiceMove DEF ServiceOK
<1>4. ASSUME NEW t \in Request PROVE WorkOK(t)
  BY DEF ServiceOK
<1>5. ASSUME NEW t \in Request, LookUp(t) \/ IncrementBoard(t) \/ PersistPlayer(t)
      PROVE  ServiceOK'
  <2>1. /\ UNCHANGED <<session, op, sid, hanging, todo>>
        /\ \/ pc[t] = "lookup" /\ pc'[t] = "persist"
           \/ pc[t] = "board" /\ pc'[t] = "close"
           \/ pc[t] = "persist" /\ pc'[t] = "cache"
    BY <1>5 DEF LookUp, IncrementBoard, PersistPlayer, Goto, stores, memory, TypeOK
  <2>2. WorkOK(t)'
    BY <1>0, <1>4, <2>1 DEF WorkOK, Active
  <2> QED BY <1>3, <1>5, <2>1, <2>2 DEF Step
<1>6. ASSUME NEW t \in Request, GetPlayer(t) \/ FindPlayer(t) PROVE ServiceOK'
  <2>1. pc[t] \in {"get", "find"} /\ UNCHANGED stores /\ Step(t)
    BY <1>6 DEF GetPlayer, FindPlayer, Step
  <2>2. CASE Return(t)
    BY <1>2, <2>1, <2>2 DEF stores
  <2>3. CASE ~Return(t)
    <3>1. /\ UNCHANGED <<op, sid, hanging, todo>>
          /\ pc'[t] = "find" \/ (op[t] = "startup" /\ pc'[t] = "gather")
               \/ (op[t] = "login" /\ pc'[t] = "open")
               \/ (op[t] \notin {"startup", "login"} /\ pc'[t] = "session")
      BY <1>6, <2>3 DEF GetPlayer, FindPlayer, Have, Goto, memory, TypeOK
    <3>2. WorkOK(t)'
      BY <1>0, <1>4, <2>1, <3>1 DEF WorkOK, Active, stores
    <3> QED BY <1>3, <2>1, <3>2 DEF stores
  <2> QED BY <2>2, <2>3
<1>7. ASSUME NEW t \in Request, OpenSession(t) PROVE ServiceOK'
  <2>1. /\ pc[t] = "open" /\ pc'[t] = "persist" /\ UNCHANGED <<op, hanging, todo>> /\ Step(t)
        /\ \A x \in SessionId : session[x] # NoDoc => session'[x] = session[x]
    BY <1>7 DEF OpenSession, Goto, Step, TypeOK
  <2>2. hanging'[t] = {} /\ op'[t] # "startup"
    BY <1>4, <2>1 DEF WorkOK
  <2>3. WorkOK(t)'
    BY <2>1, <2>2 DEF WorkOK
  <2> QED BY <1>3, <2>1, <2>3
<1>8. ASSUME NEW t \in Request, CheckSession(t) PROVE ServiceOK'
  <2>1. pc[t] = "session" /\ UNCHANGED stores /\ Step(t)
    BY <1>8 DEF CheckSession, Step
  <2>2. CASE Return(t)
    BY <1>2, <2>1, <2>2 DEF stores
  <2>3. CASE ~Return(t)
    <3>1. pc'[t] = "board" /\ UNCHANGED <<op, sid, hanging, todo>>
      BY <1>8, <2>3 DEF CheckSession, Goto, TypeOK
    <3>2. WorkOK(t)'
      BY <1>0, <1>4, <2>1, <3>1 DEF WorkOK, Active, stores
    <3> QED BY <1>3, <2>1, <3>2 DEF stores
  <2> QED BY <2>2, <2>3
<1>9. ASSUME NEW t \in Request, CloseSession(t) PROVE ServiceOK'
  <2>1. /\ pc[t] = "close" /\ pc'[t] = "persist" /\ UNCHANGED <<op, hanging, todo>> /\ Step(t)
        /\ \A x \in SessionId \ {sid[t]} : session'[x] = session[x]
    BY <1>9 DEF CloseSession, Goto, memory, Step, TypeOK
  <2>2. hanging'[t] = {} /\ op'[t] # "startup" /\ session[sid[t]].server = ServerOf(t)
    BY <1>4, <2>1 DEF WorkOK
  <2>3. WorkOK(t)'
    BY <2>1, <2>2 DEF WorkOK
  <2> QED BY <1>3, <2>1, <2>2, <2>3
<1>10. ASSUME NEW t \in Request, CachePlayer(t) \/ SessionsReplaced(t) PROVE ServiceOK'
  BY <1>2, <1>10 DEF CachePlayer, SessionsReplaced, stores, Step
<1>11. ASSUME NEW t \in Request, Die(t) PROVE ServiceOK'
  BY <1>2, <1>11 DEF Die, stores
<1>12. ASSUME NEW t \in Request, FindHanging(t) PROVE ServiceOK'
  <2>1. /\ pc[t] = "hanging" /\ pc'[t] = "gather" /\ UNCHANGED <<session, op>> /\ Step(t)
        /\ hanging'[t] = {x \in SessionId : Active(x) /\ session[x].server = ServerOf(t)}
    BY <1>12 DEF FindHanging, Goto, stores, Step, TypeOK
  <2>2. WorkOK(t)'
    <3>1. op[t] = "startup"
      BY <1>4, <2>1 DEF WorkOK
    <3> QED BY <1>0, <1>4, <2>1, <3>1 DEF WorkOK, Active
  <2> QED BY <1>3, <2>1, <2>2
<1>13. ASSUME NEW t \in Request, NextHanging(t) PROVE ServiceOK'
  <2>1. PICK x \in todo[t] : /\ todo' = [todo EXCEPT ![t] = todo[t] \ {x}]
                             /\ sid' = [sid EXCEPT ![t] = x]
    BY <1>13 DEF NextHanging
  <2>2. /\ pc[t] = "gather" /\ pc'[t] = "get" /\ UNCHANGED <<session, op, hanging>> /\ Step(t)
        /\ x \in hanging[t] /\ sid'[t] = x /\ todo'[t] = todo[t] \ {x}
    <3>1. pc[t] = "gather" /\ pc'[t] = "get" /\ UNCHANGED <<session, op, hanging>> /\ Step(t)
      BY <1>13 DEF NextHanging, Goto, stores, Step, TypeOK
    <3>2. x \in hanging[t]
      BY DEF TypeOK, RequestTypeOK
    <3> QED BY <2>1, <3>1, <3>2 DEF TypeOK
  <2>3. op[t] = "startup" /\ pc'[t] # "hanging"
    BY <1>4, <2>2 DEF WorkOK
  <2>4. WorkOK(t)'
    BY <1>0, <1>4, <2>2, <2>3 DEF WorkOK, Active
  <2> QED BY <1>3, <2>2, <2>4
<1>14. ASSUME NEW t \in Request, Gathered(t) \/ ReplacePlayer(t) \/ PlayersReplaced(t)
       PROVE  ServiceOK'
  <2>1. /\ UNCHANGED <<session, op, sid, hanging, todo>> /\ Step(t)
        /\ pc[t] \in {"gather", "players"} /\ pc'[t] \in {"players", "sessions"}
    BY <1>14 DEF Gathered, ReplacePlayer, PlayersReplaced, Goto, stores, memory, Step, TypeOK
  <2>2. WorkOK(t)'
    BY <1>0, <1>4, <2>1 DEF WorkOK, Active
  <2> QED BY <1>3, <2>1, <2>2
<1>15. ASSUME NEW t \in Request, ReplaceSession(t) PROVE ServiceOK'
  <2>1. PICK x \in hanging[t] : /\ session' = [session EXCEPT ![x].ended = TRUE]
                                /\ hanging' = [hanging EXCEPT ![t] = hanging[t] \ {x}]
    BY <1>15 DEF ReplaceSession
  <2>2. /\ pc[t] = "sessions" /\ UNCHANGED <<pc, op>> /\ Step(t)
        /\ \A y \in SessionId \ {x} : session'[y] = session[y]
        /\ hanging'[t] = hanging[t] \ {x} /\ hanging[t] \subseteq SessionId
    BY <1>15, <2>1 DEF ReplaceSession, Step, TypeOK
  <2>3. session[x].server = ServerOf(t)
    BY <1>4 DEF WorkOK
  <2>4. WorkOK(t)'
    BY <1>0, <1>4, <2>2 DEF WorkOK, Active
  <2> QED BY <1>3, <2>2, <2>3, <2>4
<1>16. CASE UNCHANGED vars
  BY <1>16 DEF vars, stores, memory, ServiceOK, Serves, WorkOK, Active, ServerOf
<1> QED
  BY <1>1, <1>5, <1>6, <1>7, <1>8, <1>9, <1>10, <1>11, <1>12, <1>13, <1>14, <1>15, <1>16
     DEF Next, Step

\* Request t has counted session x, or given it up, and is about to end it.
Counting(x, t) ==
  \/ op[t] = "logout" /\ sid[t] = x /\ pc[t] \in {"board", "close"}
  \/ /\ op[t] = "startup" /\ x \in hanging[t] \ todo[t]
     /\ ~(pc[t] \in {"get", "find"} /\ sid[t] = x)

Settled(x) == Ended(x) \/ \E t \in Request : Counting(x, t)

Fresh(d) == \A x \in SessionId : d.counted[x] <= 1 /\ (d.counted[x] > 0 => Settled(x))

\* d is in a store, or a request may yet write it.
InUse(d) ==
  \/ \E p \in Player : d \in Documents(p)
  \/ \E t \in Request : d = prof[t]
  \/ \E t \in Request : \E w \in writes[t] : d = w.doc

CountOK == \A d \in Profile : InUse(d) => Fresh(d)

InTurn == ~mode.overlap /\ ~mode.mayDie

CountInv == TypeOK /\ (InTurn => ServiceOK /\ CountOK)

LEMMA CountInit == Init => CountOK
BY DEF Init, CountOK, InUse, Documents, Profile

LEMMA SettledStays ==
  ASSUME InTurn, TypeOK, ServiceOK, [Next]_vars, NEW x \in SessionId, Settled(x)
  PROVE  Settled(x)'
<1>1. CASE Ended(x)
  BY <1>1, SessionsKept DEF Kept, Ended, Settled
<1>2. ASSUME NEW u \in Request, Counting(x, u) PROVE Settled(x)'
  <2>1. CASE UNCHANGED vars
    BY <1>2, <2>1 DEF vars, memory, Counting, Settled
  <2>2. ASSUME NEW t \in Request, Receive(t) \/ Step(t) \/ Die(t), t # u PROVE Settled(x)'
    BY <1>2, <2>2, OthersRest DEF Counting, Settled
  <2>3. ASSUME Receive(u) \/ Step(u) \/ Die(u) PROVE Settled(x)'
    <3>1. WorkOK(u) /\ RequestTypeOK(u)
      BY DEF ServiceOK, TypeOK
    <3>2. Step(u)
      BY <1>2, <2>3, <3>1 DEF InTurn, Die, Receive, Prelogin, Login, Logout, Startup, Begin,
         Counting, WorkOK
    <3>3. CASE op[u] = "logout"
      <4>1. sid[u] = x /\ pc[u] \in {"board", "close"}
        BY <1>2, <3>3 DEF Counting
      <4>2. CASE IncrementBoard(u)
        BY <3>3, <4>1, <4>2 DEF IncrementBoard, Goto, memory, Settled, Counting, TypeOK
      <4>3. CASE CloseSession(u)
        <5>1. session'[x] = [session[x] EXCEPT !.ended = TRUE] /\ session[x] \in Session
          BY <3>1, <4>1, <4>3 DEF CloseSession, TypeOK, RequestTypeOK
        <5>2. session'[x].ended
          BY <5>1 DEF Session
        <5>3. session'[x] # NoDoc
          BY <3>1, <4>1, <4>3, SessionsKept DEF Kept, CloseSession, RequestTypeOK
        <5> QED BY <5>2, <5>3 DEF Settled, Ended
      <4> QED
        BY <3>2, <4>1, <4>2, <4>3 DEF Step, LookUp, GetPlayer, FindPlayer, OpenSession,
           CheckSession, PersistPlayer, CachePlayer, FindHanging, NextHanging, Gathered,
           ReplacePlayer, PlayersReplaced, ReplaceSession, SessionsReplaced
    <3>4. CASE op[u] = "startup"
      <4>1. /\ x \in hanging[u] \ todo[u] /\ ~(pc[u] \in {"get", "find"} /\ sid[u] = x)
            /\ pc[u] \in {"gather", "get", "find", "players", "sessions"}
        BY <1>2, <3>1, <3>4 DEF Counting, WorkOK
      <4>2. CASE GetPlayer(u) \/ FindPlayer(u)
        <5>1. /\ UNCHANGED <<op, sid, hanging, todo>>
              /\ pc[u] \in {"get", "find"} /\ pc'[u] \in {"find", "gather"}
          BY <3>4, <4>2 DEF GetPlayer, FindPlayer, Have, Goto, memory, TypeOK
        <5> QED BY <3>4, <4>1, <5>1 DEF Settled, Counting
      <4>3. CASE NextHanging(u)
        <5>1. PICK y \in todo[u] : /\ todo' = [todo EXCEPT ![u] = todo[u] \ {y}]
                                   /\ sid' = [sid EXCEPT ![u] = y]
          BY <4>3 DEF NextHanging
        <5>2. /\ UNCHANGED <<op, hanging>> /\ sid'[u] = y /\ todo'[u] = todo[u] \ {y}
          BY <4>3, <5>1 DEF NextHanging, TypeOK
        <5> QED BY <3>4, <4>1, <5>2 DEF Settled, Counting
      <4>4. CASE Gathered(u) \/ ReplacePlayer(u) \/ PlayersReplaced(u)
        <5>1. /\ UNCHANGED <<op, sid, hanging, todo>> /\ pc'[u] \in {"players", "sessions"}
          BY <4>4 DEF Gathered, ReplacePlayer, PlayersReplaced, Goto, memory, TypeOK
        <5> QED BY <3>4, <4>1, <5>1 DEF Settled, Counting
      <4>5. CASE ReplaceSession(u)
        <5>1. PICK y \in hanging[u] : /\ session' = [session EXCEPT ![y].ended = TRUE]
                                      /\ hanging' = [hanging EXCEPT ![u] = hanging[u] \ {y}]
          BY <4>5 DEF ReplaceSession
        <5>2. /\ UNCHANGED <<pc, op, sid, todo>> /\ hanging'[u] = hanging[u] \ {y}
          BY <4>5, <5>1 DEF ReplaceSession, TypeOK
        <5>3. CASE y = x
          <6>1. session[x] \in Session /\ session[x] # NoDoc
            BY <3>1, <5>3 DEF TypeOK, RequestTypeOK
          <6>2. session'[x] = [session[x] EXCEPT !.ended = TRUE]
            BY <5>1, <5>3 DEF TypeOK
          <6>3. session'[x].ended
            BY <6>1, <6>2 DEF Session
          <6>4. session'[x] # NoDoc
            BY <6>1, SessionsKept DEF Kept
          <6> QED BY <6>3, <6>4 DEF Settled, Ended
        <5>4. CASE y # x
          BY <3>4, <4>1, <5>2, <5>4 DEF Settled, Counting
        <5> QED BY <5>3, <5>4
      <4>6. ~SessionsReplaced(u)
        BY <4>1 DEF SessionsReplaced
      <4> QED
        BY <3>2, <4>1, <4>2, <4>3, <4>4, <4>5, <4>6 DEF Step, LookUp, OpenSession,
           CheckSession, IncrementBoard, CloseSession, PersistPlayer, CachePlayer, FindHanging
    <3> QED BY <1>2, <3>3, <3>4 DEF Counting
  <2> QED BY <2>1, <2>2, <2>3 DEF Next
<1> QED BY <1>1, <1>2 DEF Settled

\* The session that a request finds open is counted nowhere yet.
LEMMA OpenIsUncounted ==
  ASSUME TypeOK, ServiceOK, NEW t \in Request, pc[t] # "idle", NEW x \in SessionId,
         session[x] # NoDoc, ~session[x].ended, session[x].server = ServerOf(t),
         ~Counting(x, t), NEW d \in Profile, Fresh(d)
  PROVE  d.counted[x] = 0
<1>1. ASSUME NEW u \in Request, Counting(x, u) PROVE FALSE
  <2>1. WorkOK(u) /\ u # t
    BY <1>1 DEF ServiceOK
  <2>2. session[x].server = ServerOf(u) /\ pc[u] # "idle"
    BY <1>1, <2>1 DEF Counting, WorkOK
  <2> QED BY <2>1, <2>2 DEF ServiceOK, Serves
<1>2. ~Settled(x)
  BY <1>1 DEF Settled, Ended
<1>3. d.counted[x] \in 0..2
  BY DEF Profile
<1> QED BY <1>2, <1>3 DEF Fresh

\* The document that counts one session more is fresh when the session is settled.
LEMMA CountedIsFresh ==
  ASSUME NEW d \in Profile, NEW x \in SessionId, d.counted[x] = 0, Settled(x)', Fresh(d)',
         NEW e \in Profile, e.counted = Count(d, x).counted
  PROVE  Fresh(e)'
BY CountType DEF Fresh

LEMMA CountStep ==
  ASSUME InTurn, TypeOK, ServiceOK, CountOK, [Next]_vars
  PROVE  CountOK'
<1>0. TypeOK' /\ (\A t \in Request : ServerOf(t)' = ServerOf(t))
  BY TypeStep, SameMode DEF ServerOf
<1>1. ASSUME NEW d \in Profile, Fresh(d) PROVE Fresh(d)'
  BY <1>1, SettledStays DEF Fresh
\* Every document in use was in use before, or is fresh.
<1>2. ASSUME \A d \in Profile : InUse(d)' => InUse(d) \/ Fresh(d)' PROVE CountOK'
  BY <1>1, <1>2 DEF CountOK
<1>3. ASSUME NEW t \in Request, UNCHANGED <<stored, cached>>,
             NEW e \in Profile, InUse(e) \/ Fresh(e)',
             \A u \in Request \ {t} : prof'[u] = prof[u] /\ writes'[u] = writes[u],
             prof'[t] \in {NoDoc, prof[t], e}, \A w \in writes'[t] : w \in writes[t] \/ w.doc = e
      PROVE  CountOK'
  <2>1. ASSUME NEW d \in Profile, InUse(d)' PROVE InUse(d) \/ d = e
    <3>1. CASE \E p \in Player : d \in Documents(p)'
      BY <1>3, <3>1 DEF InUse, Documents
    <3>2. ASSUME NEW u \in Request, d = prof'[u] PROVE InUse(d) \/ d = e
      BY <1>3, <3>2 DEF InUse
    <3>3. ASSUME NEW u \in Request, NEW w \in writes'[u], d = w.doc PROVE InUse(d) \/ d = e
      BY <1>3, <3>3 DEF InUse
    <3> QED BY <2>1, <3>1, <3>2, <3>3 DEF InUse
  <2> QED BY <1>2, <1>3, <2>1
\* A step that makes no document
<1>4. ASSUME NEW t \in Request, UNCHANGED <<stored, cached>>,
             \A u \in Request \ {t} : prof'[u] = prof[u] /\ writes'[u] = writes[u],
             prof'[t] \in {NoDoc, prof[t]}, writes'[t] \subseteq writes[t]
      PROVE  CountOK'
  <2>1. ASSUME NEW d \in Profile, InUse(d)' PROVE InUse(d)
    <3>1. CASE \E p \in Player : d \in Documents(p)'
      BY <1>4, <3>1 DEF InUse, Documents
    <3>2. ASSUME NEW u \in Request, d = prof'[u] PROVE InUse(d)
      BY <1>4, <3>2 DEF InUse
    <3>3. ASSUME NEW u \in Request, NEW w \in writes'[u], d = w.doc PROVE InUse(d)
      BY <1>4, <3>3 DEF InUse
    <3> QED BY <2>1, <3>1, <3>2, <3>3 DEF InUse
  <2> QED BY <1>2, <2>1
<1>5. ASSUME NEW t \in Request, Return(t), UNCHANGED stores PROVE CountOK'
  BY <1>4, <1>5 DEF Return, stores, TypeOK
<1>6. ASSUME NEW t \in Request, Receive(t) PROVE CountOK'
  BY <1>4, <1>6 DEF Receive, Prelogin, Login, Logout, Startup, Begin, stores
<1>7. ASSUME NEW t \in Request, LookUp(t) PROVE CountOK'
  <2>1. who[t] \in Player /\ UNCHANGED <<stores, writes>>
    BY <1>7 DEF LookUp, TypeOK, RequestTypeOK
  <2>2. PICK e \in Profile : /\ prof' = [prof EXCEPT ![t] = e]
                             /\ e = NewPlayer \/ e \in Documents(who[t])
    <3>1. CASE stored[who[t]] = NoDoc
      BY <1>7, <3>1, NewPlayerType DEF LookUp
    <3>2. CASE stored[who[t]] # NoDoc
      BY <1>7, <2>1, <3>2 DEF LookUp, Documents, TypeOK
    <3> QED BY <3>1, <3>2
  <2>3. InUse(e) \/ Fresh(e)'
    BY <2>1, <2>2 DEF InUse, Fresh, NewPlayer
  <2> QED BY <1>3, <2>1, <2>2, <2>3 DEF stores, TypeOK
<1>8. ASSUME NEW t \in Request, NEW d \in Documents(who[t]), Have(t, d), who[t] \in Player,
             pc[t] \in {"get", "find"}, UNCHANGED <<stores, op, who, sid, hanging, todo>>
      PROVE  CountOK'
  <2>1. d \in Profile /\ InUse(d) /\ Fresh(d)
    BY <1>8 DEF Documents, InUse, CountOK, TypeOK
  <2>2. CASE op[t] = "startup"
    <3>1. /\ sid[t] \in SessionId /\ sid[t] \in hanging[t] \ todo[t]
          /\ session[sid[t]] # NoDoc /\ ~session[sid[t]].ended
          /\ session[sid[t]].server = ServerOf(t)
      BY <1>8, <2>2 DEF ServiceOK, WorkOK, Active, TypeOK, RequestTypeOK
    <3>2. ~Counting(sid[t], t)
      BY <1>8, <2>2 DEF Counting
    <3>3. d.counted[sid[t]] = 0
      BY <1>8, <2>1, <3>1, <3>2, OpenIsUncounted
    <3>4. PICK e \in Profile : e = Count(d, sid[t])
      BY <2>1, <3>1, CountType
    <3>5. /\ prof' = prof /\ pc'[t] = "gather"
          /\ writes' = [writes EXCEPT ![t] = writes[t] \cup {[player |-> who[t], doc |-> e]}]
      BY <1>8, <2>2, <3>4 DEF Have, Goto, TypeOK
    <3>6. Settled(sid[t])'
      <4>1. Counting(sid[t], t)'
        BY <1>8, <2>2, <3>1, <3>5 DEF Counting
      <4> QED BY <4>1 DEF Settled
    <3>7. PICK x \in SessionId : x = sid[t]
      BY <3>1
    <3>8. Settled(x)'
      BY <1>8, <3>6, <3>7 DEF Settled, Ended, Counting
    <3>9. Fresh(e)'
      BY <1>1, <2>1, <3>3, <3>4, <3>7, <3>8, CountedIsFresh
    <3> QED BY <1>3, <1>8, <3>5, <3>9 DEF stores, TypeOK
  <2>3. CASE op[t] # "startup"
    <3>1. prof' = [prof EXCEPT ![t] = d] /\ UNCHANGED writes
      BY <1>8, <2>3 DEF Have
    <3> QED BY <1>3, <1>8, <2>1, <3>1 DEF stores, TypeOK
  <2> QED BY <2>2, <2>3
<1>9. ASSUME NEW t \in Request, GetPlayer(t) PROVE CountOK'
  <2>1. /\ pc[t] = "get" /\ who[t] \in Player
        /\ UNCHANGED <<stores, op, who, sid, hanging, todo>>
    BY <1>9 DEF GetPlayer, TypeOK, RequestTypeOK
  <2>2. CASE Have(t, cached[who[t]]) /\ cached[who[t]] # NoDoc
    BY <1>8, <2>1, <2>2 DEF Documents
  <2>3. CASE UNCHANGED <<prof, writes>>
    BY <1>4, <2>1, <2>3 DEF stores
  <2> QED BY <1>9, <2>2, <2>3 DEF GetPlayer
<1>10. ASSUME NEW t \in Request, FindPlayer(t) PROVE CountOK'
  <2>1. pc[t] = "find" /\ who[t] \in Player /\ UNCHANGED stores
    BY <1>10 DEF FindPlayer, TypeOK, RequestTypeOK
  <2>2. CASE stored[who[t]] # NoDoc
    BY <1>8, <1>10, <2>1, <2>2 DEF FindPlayer, Documents
  <2>3. CASE stored[who[t]] = NoDoc /\ op[t] = "startup"
    BY <1>4, <1>10, <2>1, <2>3 DEF FindPlayer, memory, stores
  <2>4. CASE stored[who[t]] = NoDoc /\ op[t] # "startup"
    BY <1>5, <1>10, <2>1, <2>4 DEF FindPlayer
  <2> QED BY <2>2, <2>3, <2>4
<1>11. ASSUME NEW t \in Request, OpenSession(t) PROVE CountOK'
  <2>1. PICK x \in SessionId : prof' = [prof EXCEPT ![t] = [prof[t] EXCEPT !.last = x]]
    BY <1>11 DEF OpenSession
  <2>2. prof[t] \in Profile /\ UNCHANGED <<stored, cached, writes>>
    BY <1>11 DEF OpenSession, TypeOK, RequestTypeOK
  <2>3. PICK e \in Profile : e = [prof[t] EXCEPT !.last = x]
    BY <2>2 DEF Profile
  <2>4. PICK d \in Profile : d = prof[t]
    BY <2>2
  <2>5. Fresh(d)'
    BY <1>1, <2>4 DEF CountOK, InUse
  <2>6. Fresh(e)'
    BY <2>2, <2>3, <2>4, <2>5 DEF Fresh, Profile
  <2> QED BY <1>3, <2>1, <2>2, <2>3, <2>6 DEF TypeOK
<1>12. ASSUME NEW t \in Request, CheckSession(t) PROVE CountOK'
  <2>1. /\ pc[t] = "session" /\ sid[t] \in SessionId /\ prof[t] \in Profile /\ UNCHANGED stores
    BY <1>12 DEF CheckSession, TypeOK, RequestTypeOK
  <2>2. CASE Active(sid[t]) /\ session[sid[t]].player = who[t]
    <3>1. PICK longest \in {prof[t].longest, sid[t]} \ {NoSession} :
            prof' = [prof EXCEPT ![t] = [Count(prof[t], sid[t]) EXCEPT !.longest = longest]]
      BY <1>12, <2>2 DEF CheckSession
    <3>2. pc'[t] = "board" /\ UNCHANGED <<op, sid, writes>>
      BY <1>12, <2>2 DEF CheckSession, Goto, TypeOK
    <3>3. op[t] = "logout" /\ session[sid[t]].server = ServerOf(t)
      BY <2>1 DEF ServiceOK, WorkOK
    <3>4. PICK d \in Profile : d = prof[t]
      BY <2>1
    <3>5. PICK x \in SessionId : x = sid[t]
      BY <2>1
    <3>6. Fresh(d) /\ Fresh(d)'
      BY <1>1, <3>4 DEF CountOK, InUse
    <3>7. ~Counting(x, t)
      BY <2>1, <3>3 DEF Counting
    <3>8. d.counted[x] = 0
      BY <2>1, <2>2, <3>3, <3>5, <3>6, <3>7, OpenIsUncounted DEF Active
    <3>9. Settled(x)'
      <4>1. Counting(x, t)'
        BY <3>2, <3>3, <3>5 DEF Counting
      <4> QED BY <4>1 DEF Settled
    <3>10. Count(d, x) \in Profile
      BY CountType
    <3>11. PICK e \in Profile : e = [Count(d, x) EXCEPT !.longest = longest]
      BY <2>1, <3>1, <3>10 DEF Profile
    <3>12. e.counted = Count(d, x).counted
      BY <3>10, <3>11 DEF Profile
    <3>13. Fresh(e)'
      BY <3>6, <3>8, <3>9, <3>12, CountedIsFresh
    <3> QED BY <1>3, <2>1, <3>1, <3>2, <3>4, <3>5, <3>11, <3>13 DEF stores, TypeOK
  <2>3. CASE ~(Active(sid[t]) /\ session[sid[t]].player = who[t])
    BY <1>5, <1>12, <2>1, <2>3 DEF CheckSession
  <2> QED BY <2>2, <2>3
<1>13. ASSUME NEW t \in Request, PersistPlayer(t) \/ CachePlayer(t) PROVE CountOK'
  <2>1. /\ who[t] \in Player /\ prof[t] \in Profile
        /\ \A p \in Player : Documents(p)' \subseteq Documents(p) \cup {prof[t]}
    BY <1>13 DEF PersistPlayer, CachePlayer, Documents, TypeOK, RequestTypeOK
  <2>2. /\ \A u \in Request : prof'[u] \in {NoDoc, prof[u]} /\ writes'[u] \subseteq writes[u]
    BY <1>13 DEF PersistPlayer, CachePlayer, Return, memory, TypeOK
  <2>3. ASSUME NEW d \in Profile, InUse(d)' PROVE InUse(d)
    <3>1. CASE \E p \in Player : d \in Documents(p)'
      BY <2>1, <3>1 DEF InUse
    <3>2. CASE \E u \in Request : d = prof'[u]
      BY <2>2, <3>2 DEF InUse
    <3>3. CASE \E u \in Request : \E w \in writes'[u] : d = w.doc
      BY <2>2, <3>3 DEF InUse
    <3> QED BY <2>3, <3>1, <3>2, <3>3 DEF InUse
  <2> QED BY <1>2, <2>3
<1>14. ASSUME NEW t \in Request,
              \/ IncrementBoard(t) \/ CloseSession(t) \/ FindHanging(t) \/ NextHanging(t)
              \/ Gathered(t) \/ PlayersReplaced(t) \/ ReplaceSession(t)
       PROVE  CountOK'
  BY <1>4, <1>14 DEF IncrementBoard, CloseSession, FindHanging, NextHanging, Gathered,
     PlayersReplaced, ReplaceSession, stores, memory
<1>15. ASSUME NEW t \in Request, ReplacePlayer(t) PROVE CountOK'
  <2>1. PICK v \in writes[t] :
          /\ stored' = [stored EXCEPT ![v.player] = IF @ = NoDoc THEN NoDoc ELSE v.doc]
          /\ writes' = [writes EXCEPT ![t] = writes[t] \ {v}]
          /\ UNCHANGED <<cached, prof>>
    BY <1>15 DEF ReplacePlayer
  <2>2. v \in [player : Player, doc : Profile]
    BY DEF TypeOK, RequestTypeOK
  <2>3. ASSUME NEW d \in Profile, InUse(d)' PROVE InUse(d)
    <3>1. CASE \E p \in Player : d \in Documents(p)'
      BY <2>1, <2>2, <3>1 DEF InUse, Documents, TypeOK
    <3>2. CASE \E u \in Request : d = prof'[u]
      BY <2>1, <3>2 DEF InUse
    <3>3. CASE \E u \in Request : \E w \in writes'[u] : d = w.doc
      BY <2>1, <3>3 DEF InUse, TypeOK
    <3> QED BY <2>3, <3>1, <3>2, <3>3 DEF InUse
  <2> QED BY <1>2, <2>3
<1>16. ASSUME NEW t \in Request, SessionsReplaced(t) \/ Die(t) PROVE CountOK'
  BY <1>5, <1>16 DEF SessionsReplaced, Die
<1>17. CASE UNCHANGED vars
  BY <1>2, <1>17 DEF vars, stores, memory, InUse, Documents
<1> QED
  BY <1>6, <1>7, <1>9, <1>10, <1>11, <1>12, <1>13, <1>14, <1>15, <1>16, <1>17 DEF Next, Step

LEMMA CountInvariant == Spec => []CountInv
<1>1. Init => CountInv
  BY TypeInit, ServiceInit, CountInit DEF CountInv
<1>2. CountInv /\ [Next]_vars => CountInv'
  <2> SUFFICES ASSUME CountInv, [Next]_vars PROVE CountInv'
    OBVIOUS
  <2>1. InTurn' => InTurn
    BY SameMode DEF InTurn
  <2> QED BY <2>1, TypeStep, ServiceStep, CountStep DEF CountInv, InTurn
<1> QED BY <1>1, <1>2, PTL DEF Spec

LEMMA CountedInTurn == CountInv => StartupCountsOnce
BY DEF CountInv, CountOK, InTurn, InUse, Fresh, Documents, TypeOK, StartupCountsOnce, AllOnce

\* Playtime arrives where it should: what a profile counts is on the
\* leaderboard before; a session is counted at most once, whether a logout or
\* a startup ends it, while the requests of a server follow one another; and
\* when all requests do, every session that has ended is counted in the end.
THEOREM PlaytimeIsCounted == Spec => []PlaytimeArrives
<1>1. CountInv /\ BoardInv /\ CompleteInv => PlaytimeArrives
  BY CountedInTurn, BoardIsAhead, ProfilesEndUpComplete DEF PlaytimeArrives
<1> QED BY <1>1, CountInvariant, BoardInvariant, CompleteInvariant, PTL
=============================================================================

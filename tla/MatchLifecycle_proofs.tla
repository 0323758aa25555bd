----------------------- MODULE MatchLifecycle_proofs -----------------------
(* Theorems about MatchLifecycle, for every value of its constants. *)
EXTENDS MatchLifecycle, FiniteSetTheorems, TLAPS

USE DEF redis, stores, memory

-----------------------------------------------------------------------------
(* Type correctness.                                                       *)

LEMMA NewMatchType == NewMatch \in Doc
BY DEF NewMatch, Doc

\* A read returns the value that is stored, or the absent value.
LEMMA RedisGetBounds ==
  ASSUME NEW value, NEW absent, NEW got \in RedisGet(value, absent)
  PROVE  got = value \/ got = absent
BY DEF RedisGet

\* A document that was read and is not absent is the one in the cache.
LEMMA FetchedType ==
  ASSUME TypeOK, NEW t \in Task, mid[t] # NoMatch,
         NEW d \in Fetched(t), d # NoDoc
  PROVE  d \in Doc /\ d = cache[mid[t]] /\ mid[t] \in MatchId
BY RedisGetBounds DEF Fetched, TypeOK

LEMMA DocEdits ==
  ASSUME NEW d \in Doc, NEW ps \in SUBSET Player
  PROVE  /\ SaveParticipants(d, ps) \in Doc
         /\ Started(d) \in Doc
         /\ Ended(d) \in Doc
         /\ Emptied(d) \in Doc
BY DEF Doc, SaveParticipants, Started, Ended, Emptied

\* Three ways to leave the await at which a match was read.
LEMMA WorkType ==
  ASSUME TypeOK, NEW t \in Task, pc[t] = "match",
         NEW d \in Doc, NEW at \in {"interim", "final", "persist"}, Work(t, d, at),
         UNCHANGED mode
  PROVE  TypeOK'
BY NoDocAssumption DEF Work, Goto, TypeOK, TaskTypeOK, Pc

LEMMA NothingToDoType ==
  ASSUME TypeOK, NEW t \in Task, NothingToDo(t), UNCHANGED mode
  PROVE  TypeOK'
BY DEF NothingToDo, Goto, TypeOK, TaskTypeOK, Pc

LEMMA PanicType ==
  ASSUME TypeOK, NEW t \in Task, Panic(t), UNCHANGED mode
  PROVE  TypeOK'
BY DEF Panic, Return, Goto, TypeOK, TaskTypeOK, Pc, Op

LEMMA TypeInit == Init => TypeOK
BY NoDocAssumption, NoMatchAssumption, TasksAssumption
   DEF Init, TypeOK, TaskTypeOK, Pc, Op, SocketOps, TouchOps

LEMMA ModeType ==
  ASSUME TypeOK
  PROVE  mode.players \subseteq Player /\ mode.matches \subseteq MatchId
BY ModeAssumption DEF TypeOK, Mode

LEMMA SameMode == [Next]_vars => UNCHANGED mode
BY DEF Next, vars

LEMMA TypeStep == TypeOK /\ [Next]_vars => TypeOK'
<1> SUFFICES ASSUME TypeOK, [Next]_vars PROVE TypeOK'
  OBVIOUS
<1>0. UNCHANGED mode /\ mode.players \subseteq Player /\ mode.matches \subseteq MatchId
  BY SameMode, ModeType
<1> USE <1>0
<1> USE NoDocAssumption, NoMatchAssumption, TasksAssumption
<1>1. ASSUME NEW t \in Task, OnMatchLoad(t) PROVE TypeOK'
  <2>1. CASE Goto(t, "alive") /\ UNCHANGED <<issued, mid, doc>>
    BY <1>1, <2>1 DEF OnMatchLoad, Goto, TypeOK, TaskTypeOK, Pc, Op, SocketOps
  <2>2. ASSUME NEW m \in mode.matches \ issued, issued' = issued \cup {m},
               mid' = [mid EXCEPT ![t] = m], doc' = [doc EXCEPT ![t] = NewMatch],
               Goto(t, "persist")
        PROVE  TypeOK'
    BY <1>1, <2>2, NewMatchType DEF OnMatchLoad, Goto, TypeOK, TaskTypeOK, Pc, Op, SocketOps
  <2> QED BY <1>1, <2>1, <2>2 DEF OnMatchLoad
<1>2. ASSUME NEW t \in Task, NEW o \in mode.events, OnMessage(t, o) PROVE TypeOK'
  BY <1>2, ModeAssumption DEF Mode, OnMessage, MayBegin, Goto, TypeOK, TaskTypeOK, Pc, Op
<1>3. ASSUME NEW t \in Task, Startup(t) PROVE TypeOK'
  BY <1>3 DEF Startup, MayBegin, Goto, TypeOK, TaskTypeOK, Pc, Op
<1>4. ASSUME NEW t \in Task, GetCurrentMatchId(t) PROVE TypeOK'
  <2> PICK m \in RedisGet(pointer[ServerOf[t]], NoMatch) :
             IF m # NoMatch
             THEN /\ Goto(t, "match")
                  /\ mid' = [mid EXCEPT ![t] = m]
                  /\ UNCHANGED <<op, doc, rest>>
             ELSE IF op[t] = "startup"
                  THEN Return(t)
                  ELSE Goto(t, "alive") /\ UNCHANGED memory
    BY <1>4 DEF GetCurrentMatchId
  <2>1. m \in issued \cup {NoMatch}
    BY RedisGetBounds DEF TypeOK
  <2>2. CASE m # NoMatch
    <3>1. /\ pc[t] = "pointer"
          /\ pc' = [pc EXCEPT ![t] = "match"]
          /\ mid' = [mid EXCEPT ![t] = m]
          /\ UNCHANGED <<stores, issued, op, doc, rest>>
      BY <1>4, <2>2 DEF GetCurrentMatchId, Goto
    <3>2. m \in MatchId
      BY <2>1, <2>2 DEF TypeOK
    <3> QED BY <2>1, <2>2, <3>1, <3>2 DEF TypeOK, TaskTypeOK, Pc
  <2>3. CASE m = NoMatch /\ op[t] = "startup"
    BY <1>4, <2>3, PanicType DEF GetCurrentMatchId, Panic
  <2>4. CASE m = NoMatch /\ op[t] # "startup"
    BY <1>4, <2>4, NothingToDoType DEF GetCurrentMatchId, NothingToDo
  <2> QED BY <2>2, <2>3, <2>4
<1>5. ASSUME NEW t \in Task, OnMatchStart(t) PROVE TypeOK'
  BY <1>5, FetchedType, DocEdits, WorkType, NothingToDoType
     DEF OnMatchStart, InState, ForceMatchEnd, TypeOK, TaskTypeOK
<1>6. ASSUME NEW t \in Task, OnMatchEnd(t) PROVE TypeOK'
  <2> PICK d \in Fetched(t) :
             IF InState(d, "InProgress")
             THEN /\ Goto(t, "settle")
                  /\ doc' = [doc EXCEPT ![t] = Emptied(Ended(d))]
                  /\ rest' = [rest EXCEPT ![t] = d.roster]
                  /\ UNCHANGED <<stores, issued, op, mid>>
             ELSE ForceMatchEnd(t)
    BY <1>6 DEF OnMatchEnd
  <2>1. CASE InState(d, "InProgress")
    <3>1. d \in Doc
      BY <1>6, <2>1, FetchedType DEF OnMatchEnd, InState, TypeOK, TaskTypeOK
    <3>2. Emptied(Ended(d)) \in Doc /\ d.roster \in SUBSET Player
      BY <3>1, DocEdits DEF Doc
    <3> DEFINE emptied == Emptied(Ended(d))
    <3>3. /\ pc[t] = "match"
          /\ pc' = [pc EXCEPT ![t] = "settle"]
          /\ doc' = [doc EXCEPT ![t] = emptied]
          /\ rest' = [rest EXCEPT ![t] = d.roster]
          /\ UNCHANGED <<stores, issued, op, mid>>
      BY <1>6, <2>1 DEF OnMatchEnd, Goto
    <3>4. emptied \in Doc
      BY <3>2
    <3> HIDE DEF emptied
    <3> QED BY <3>2, <3>3, <3>4 DEF TypeOK, TaskTypeOK, Pc
  <2>2. CASE ~InState(d, "InProgress")
    BY <2>2, NothingToDoType DEF ForceMatchEnd
  <2> QED BY <2>1, <2>2
<1>7. ASSUME NEW t \in Task, OnPartyJoin(t) PROVE TypeOK'
  BY <1>7, FetchedType, DocEdits, WorkType, NothingToDoType
     DEF OnPartyJoin, InState, ForceMatchEnd, TypeOK, TaskTypeOK
<1>8. ASSUME NEW t \in Task, OnMatchEvent(t) PROVE TypeOK'
  BY <1>8, FetchedType, WorkType, NothingToDoType, PanicType
     DEF OnMatchEvent, InState, ForceMatchEnd, TypeOK, TaskTypeOK
<1>9. ASSUME NEW t \in Task, OnStartupMatch(t) PROVE TypeOK'
  BY <1>9, FetchedType, DocEdits, WorkType, NothingToDoType
     DEF OnStartupMatch, TypeOK, TaskTypeOK
<1>10. ASSUME NEW t \in Task, InterimWrite(t) \/ FinalWrite(t) PROVE TypeOK'
  BY <1>10 DEF InterimWrite, FinalWrite, CacheSet, Goto, TypeOK, TaskTypeOK, Pc
<1>11. ASSUME NEW t \in Task, SettleParticipant(t) PROVE TypeOK'
  <2> PICK p \in rest[t] : doc' = [doc EXCEPT ![t] = SaveParticipants(doc[t], {p})]
    BY <1>11 DEF SettleParticipant
  <2> DEFINE saved == SaveParticipants(doc[t], {p})
  <2>1. saved \in Doc /\ doc[t] \in Doc
    BY <1>11, DocEdits DEF SettleParticipant, TypeOK, TaskTypeOK
  <2>2. doc' = [doc EXCEPT ![t] = saved]
    OBVIOUS
  <2>3. /\ pc[t] = "settle"
        /\ CacheSet(mid[t], doc[t], FALSE)
        /\ pc' = [pc EXCEPT ![t] = "credit"]
        /\ UNCHANGED <<pointer, lastAlive, mongo, credits, issued, op, mid, rest>>
    BY <1>11 DEF SettleParticipant, Goto
  <2>4. mid[t] \in MatchId
    BY <2>3 DEF TypeOK, TaskTypeOK
  <2> HIDE DEF saved
  <2>5. /\ cache' \in [MatchId -> Doc \cup {NoDoc}]
        /\ expiring' \subseteq {m \in MatchId : cache'[m] # NoDoc}
    BY <2>1, <2>3, <2>4 DEF CacheSet, TypeOK
  <2>6. ASSUME NEW u \in Task PROVE TaskTypeOK(u)'
    BY <2>1, <2>2, <2>3 DEF TypeOK, TaskTypeOK, Pc
  <2>7. pc' \in [Task -> Pc] /\ doc' \in [Task -> Doc \cup {NoDoc}]
    BY <2>1, <2>2, <2>3 DEF TypeOK, Pc
  <2> QED BY <2>3, <2>5, <2>6, <2>7 DEF TypeOK
<1>12. ASSUME NEW t \in Task, CreditPlayer(t) PROVE TypeOK'
  <2>1. PICK p \in rest[t] :
          /\ credits' = [credits EXCEPT ![mid[t]][p] = OneMore(@)]
          /\ rest' = [rest EXCEPT ![t] = @ \ {p}]
    BY <1>12 DEF CreditPlayer
  <2>2. /\ pc[t] = "credit" /\ pc' = [pc EXCEPT ![t] = "settle"]
        /\ UNCHANGED <<redis, mongo, issued, op, mid, doc>>
    BY <1>12 DEF CreditPlayer, Goto
  <2>3. mid[t] \in MatchId /\ p \in Player
    BY <2>1, <2>2 DEF TypeOK, TaskTypeOK
  <2>4. credits' \in [MatchId -> [Player -> 0..2]]
    BY <2>1, <2>3 DEF OneMore, TypeOK
  <2>5. ASSUME NEW u \in Task PROVE TaskTypeOK(u)'
    BY <2>1, <2>2 DEF TypeOK, TaskTypeOK, Pc
  <2> QED BY <2>1, <2>2, <2>4, <2>5 DEF TypeOK, Pc
<1>13. ASSUME NEW t \in Task, EverybodySettled(t) \/ Persist(t) PROVE TypeOK'
  <2>1. PICK at \in {"persist", "cache"} : pc' = [pc EXCEPT ![t] = at]
    BY <1>13 DEF EverybodySettled, Persist, Goto
  <2>2. /\ pc[t] \in {"settle", "persist"}
        /\ mongo' \in {mongo, [mongo EXCEPT ![mid[t]] = doc[t]]}
        /\ UNCHANGED <<redis, credits, issued, memory>>
    BY <1>13 DEF EverybodySettled, Persist, MongoSave
  <2>3. mongo' \in [MatchId -> Doc \cup {NoDoc}]
    BY <2>2 DEF TypeOK, TaskTypeOK
  <2>4. ASSUME NEW u \in Task PROVE TaskTypeOK(u)'
    BY <2>1, <2>2 DEF TypeOK, TaskTypeOK, Pc
  <2> QED BY <2>1, <2>2, <2>3, <2>4 DEF TypeOK, Pc
<1>14. ASSUME NEW t \in Task, CacheAfterPersist(t) PROVE TypeOK'
  <2>1. PICK at \in {"point", "alive"} : pc' = [pc EXCEPT ![t] = at]
    BY <1>14 DEF CacheAfterPersist, Goto
  <2>2. /\ pc[t] = "cache" /\ CacheSet(mid[t], doc[t], op[t] # "load")
        /\ UNCHANGED <<pointer, lastAlive, mongo, credits, issued, memory>>
    BY <1>14 DEF CacheAfterPersist
  <2>3. /\ cache' \in [MatchId -> Doc \cup {NoDoc}]
        /\ expiring' \subseteq {m \in MatchId : cache'[m] # NoDoc}
    <3>1. mid[t] \in MatchId /\ doc[t] \in Doc
      BY <2>2 DEF TypeOK, TaskTypeOK
    <3>2. mid[t] \in MatchId /\ doc[t] # NoDoc
      BY <2>2, <3>1 DEF TypeOK, TaskTypeOK
    <3>3. CASE UNCHANGED <<cache, expiring>>
      BY <3>3 DEF TypeOK
    <3>4. CASE /\ cache' = [cache EXCEPT ![mid[t]] = doc[t]]
               /\ expiring' \in {expiring \cup {mid[t]}, expiring \ {mid[t]}}
      BY <3>1, <3>2, <3>4 DEF TypeOK
    <3> QED BY <2>2, <3>3, <3>4 DEF CacheSet
  <2>4. ASSUME NEW u \in Task PROVE TaskTypeOK(u)'
    BY <2>1, <2>2 DEF TypeOK, TaskTypeOK, Pc
  <2> QED BY <2>1, <2>2, <2>3, <2>4 DEF TypeOK, Pc
<1>15. ASSUME NEW t \in Task, SetCurrentMatchId(t) PROVE TypeOK'
  <2>1. /\ pc[t] = "point" /\ pc' = [pc EXCEPT ![t] = "alive"]
        /\ pointer' \in {pointer, [pointer EXCEPT ![ServerOf[t]] = mid[t]]}
        /\ UNCHANGED <<lastAlive, cache, expiring, mongo, credits, issued, memory>>
    BY <1>15 DEF SetCurrentMatchId, Goto
  <2>2. pointer' \in [Server -> issued \cup {NoMatch}]
    BY <2>1 DEF TypeOK, TaskTypeOK
  <2>3. ASSUME NEW u \in Task PROVE TaskTypeOK(u)'
    BY <2>1 DEF TypeOK, TaskTypeOK, Pc
  <2> QED BY <2>1, <2>2, <2>3 DEF TypeOK, Pc
<1>16. ASSUME NEW t \in Task, SetLastTimeAlive(t) PROVE TypeOK'
  <2>1. lastAlive' \in [Server -> BOOLEAN]
    BY <1>16 DEF SetLastTimeAlive, TypeOK
  <2>2. Return(t) /\ UNCHANGED <<pointer, cache, expiring, mongo, credits, issued>>
    BY <1>16 DEF SetLastTimeAlive
  <2>3. ASSUME NEW u \in Task PROVE TaskTypeOK(u)'
    BY <2>2 DEF Return, Goto, TypeOK, TaskTypeOK, Pc, Op
  <2> QED BY <2>1, <2>2, <2>3 DEF Return, Goto, TypeOK, Pc, Op
<1>17. ASSUME NEW t \in Task, Die(t) PROVE TypeOK'
  BY <1>17, PanicType DEF Die
<1>18. ASSUME NEW m \in MatchId, Expire(m) PROVE TypeOK'
  BY <1>18 DEF Expire, TypeOK, TaskTypeOK
<1>19. CASE UNCHANGED vars
  BY <1>19 DEF vars, TypeOK, TaskTypeOK
<1> QED
  BY <1>1, <1>2, <1>3, <1>4, <1>5, <1>6, <1>7, <1>8, <1>9, <1>10, <1>11, <1>12,
     <1>13, <1>14, <1>15, <1>16, <1>17, <1>18, <1>19
     DEF Next, Receive, Step, Task

\* The stores and the memory of every task keep their types, whatever tasks
\* overlap, die or lose their writes.
THEOREM TypeCorrect == Spec => []TypeOK
BY TypeInit, TypeStep, PTL DEF Spec

-----------------------------------------------------------------------------
(* The record in Mongo, with any number of overlapping tasks, deaths and   *)
(* faulty stores.                                                          *)
(*                                                                         *)
(* The argument.  Only three kinds of task save a match.  A load saves a   *)
(* match that nobody else can know yet: its id is new, no server points to *)
(* it and no task holds it (LoadOK).  A match end and a startup save a     *)
(* document that has ended.  So a save either creates a record or writes   *)
(* an ended one, and a server only points to a match after its save.  When *)
(* Mongo may lose the save, all of this stays true but its success.        *)

\* What the steps up to a save rely on, for one task.
LoadOK(t) ==
  /\ op[t] = "load" => pc[t] \in {"persist", "cache", "point", "alive"}
  /\ pc[t] = "point" => op[t] = "load"
  /\ "mongo" \notin mode.faulty /\ pc[t] \in {"cache", "point"} => mongo[mid[t]] # NoDoc
  /\ op[t] = "load" /\ pc[t] = "persist" =>
       /\ mongo[mid[t]] = NoDoc
       /\ \A s \in Server : pointer[s] # mid[t]
       /\ \A u \in Task \ {t} : mid[u] # mid[t]
  /\ op[t] # "load" /\ pc[t] \in {"settle", "credit", "persist", "cache"} =>
       doc[t].ended

RecordOK ==
  /\ CurrentMatchIsRecorded
  /\ OnlyEndedExpire
  /\ \A m \in MatchId \ issued : mongo[m] = NoDoc
  /\ \A t \in Task : LoadOK(t)

RecordInv == TypeOK /\ RecordOK

LEMMA RecordInit == Init => RecordOK
BY DEF Init, RecordOK, LoadOK, CurrentMatchIsRecorded, OnlyEndedExpire

\* A task that moves on with an ended document, or to an await that needs
\* none, and leaves what others rely on alone.
LEMMA RecordMove ==
  ASSUME RecordInv, NEW t \in Task, op[t] # "load",
         NEW at \in Pc \ {"point", "cache"}, NEW d \in Doc \cup {NoDoc},
         at \in {"settle", "credit", "persist"} => d.ended,
         Goto(t, at), doc' = [doc EXCEPT ![t] = d],
         UNCHANGED <<mode, stores, issued, op, mid>>
  PROVE  RecordOK'
BY DEF RecordInv, RecordOK, LoadOK, CurrentMatchIsRecorded, OnlyEndedExpire, Goto,
       TypeOK, TaskTypeOK

\* A task that returns early or at last.
LEMMA RecordReturn ==
  ASSUME RecordInv, NEW t \in Task, Return(t),
         UNCHANGED <<mode, pointer, cache, expiring, mongo, issued>>
  PROVE  RecordOK'
BY NoMatchAssumption, SMTT(30)
   DEF RecordInv, RecordOK, LoadOK, CurrentMatchIsRecorded, OnlyEndedExpire, Return, Goto,
       TypeOK, TaskTypeOK

LEMMA RecordNothing ==
  ASSUME RecordInv, NEW t \in Task, NothingToDo(t), UNCHANGED mode
  PROVE  RecordOK'
BY DEF RecordInv, RecordOK, LoadOK, CurrentMatchIsRecorded, OnlyEndedExpire, NothingToDo, Goto,
       TypeOK, TaskTypeOK

\* A plain SET clears the time to live, so it cannot leave a match that
\* expires while it is played.
LEMMA RecordPlainSet ==
  ASSUME RecordInv, NEW m \in MatchId, NEW d \in Doc, NEW px \in BOOLEAN,
         px => d.ended, CacheSet(m, d, px)
  PROVE  OnlyEndedExpire'
BY DEF RecordInv, RecordOK, OnlyEndedExpire, CacheSet, TypeOK

LEMMA RecordStep == RecordInv /\ [Next]_vars => RecordInv'
<1> SUFFICES ASSUME RecordInv, [Next]_vars PROVE RecordOK'
  BY TypeStep DEF RecordInv
<1>0. UNCHANGED mode /\ mode.players \subseteq Player /\ mode.matches \subseteq MatchId
  BY SameMode, ModeType DEF RecordInv
<1> USE <1>0 DEF RecordInv
<1>1. ASSUME NEW t \in Task, OnMatchLoad(t) PROVE RecordOK'
  <2>1. CASE Goto(t, "alive") /\ UNCHANGED <<issued, mid, doc>>
    BY <1>1, <2>1
       DEF OnMatchLoad, MayBegin, Goto, RecordOK, LoadOK, CurrentMatchIsRecorded, OnlyEndedExpire, TypeOK
  <2>2. ASSUME NEW m \in mode.matches \ issued, issued' = issued \cup {m},
               mid' = [mid EXCEPT ![t] = m], doc' = [doc EXCEPT ![t] = NewMatch],
               Goto(t, "persist")
        PROVE  RecordOK'
    <3>1. m # NoMatch /\ \A u \in Task : mid[u] # m
      BY NoMatchAssumption DEF TypeOK, TaskTypeOK
    <3>2. \A s \in Server : pointer[s] # m
      BY NoMatchAssumption DEF TypeOK
    <3>3. mongo[m] = NoDoc
      BY DEF RecordOK
    <3>4. UNCHANGED <<stores, rest>> /\ op' = [op EXCEPT ![t] = "load"]
      BY <1>1 DEF OnMatchLoad
    <3>5. pc' = [pc EXCEPT ![t] = "persist"]
      BY <2>2 DEF Goto
    <3>6. ASSUME NEW u \in Task PROVE LoadOK(u)'
      BY <2>2, <3>1, <3>2, <3>3, <3>4, <3>5 DEF RecordOK, LoadOK, TypeOK
    <3> QED BY <2>2, <3>4, <3>6 DEF RecordOK, CurrentMatchIsRecorded, OnlyEndedExpire
  <2> QED BY <1>1, <2>1, <2>2 DEF OnMatchLoad
<1>2. ASSUME NEW t \in Task, NEW o \in mode.events \ {"load"}, OnMessage(t, o) PROVE RecordOK'
  BY <1>2 DEF OnMessage, MayBegin, Goto, RecordOK, LoadOK, CurrentMatchIsRecorded,
              OnlyEndedExpire, TypeOK
<1>3. ASSUME NEW t \in Task, Startup(t) PROVE RecordOK'
  BY <1>3 DEF Startup, MayBegin, Goto, RecordOK, LoadOK, CurrentMatchIsRecorded,
              OnlyEndedExpire, TypeOK
<1>4. ASSUME NEW t \in Task, GetCurrentMatchId(t) PROVE RecordOK'
  <2> PICK m \in RedisGet(pointer[ServerOf[t]], NoMatch) :
             IF m # NoMatch
             THEN /\ Goto(t, "match")
                  /\ mid' = [mid EXCEPT ![t] = m]
                  /\ UNCHANGED <<op, doc, rest>>
             ELSE IF op[t] = "startup"
                  THEN Return(t)
                  ELSE Goto(t, "alive") /\ UNCHANGED memory
    BY <1>4 DEF GetCurrentMatchId
  <2>1. m = pointer[ServerOf[t]] \/ m = NoMatch
    BY RedisGetBounds
  <2>2. CASE m # NoMatch
    <3>1. /\ pc[t] = "pointer"
          /\ pc' = [pc EXCEPT ![t] = "match"]
          /\ mid' = [mid EXCEPT ![t] = m]
          /\ UNCHANGED <<stores, issued, op, doc, rest>>
      BY <1>4, <2>2 DEF GetCurrentMatchId, Goto
    <3>2. ServerOf[t] \in Server
      BY TasksAssumption
    <3>3. ASSUME NEW u \in Task PROVE LoadOK(u)'
      BY <2>1, <2>2, <3>1, <3>2 DEF RecordOK, LoadOK, TypeOK
    <3> QED BY <3>1, <3>3 DEF RecordOK, CurrentMatchIsRecorded, OnlyEndedExpire
  <2>3. CASE m = NoMatch /\ op[t] = "startup"
    BY <1>4, <2>3, RecordReturn DEF GetCurrentMatchId
  <2>4. CASE m = NoMatch /\ op[t] # "startup"
    BY <1>4, <2>4, RecordNothing DEF GetCurrentMatchId, NothingToDo
  <2> QED BY <2>2, <2>3, <2>4
<1>5. ASSUME NEW t \in Task,
             \/ OnMatchStart(t) \/ OnPartyJoin(t) \/ OnMatchEvent(t) \/ OnStartupMatch(t)
      PROVE  RecordOK'
  <2>1. CASE NothingToDo(t)
    BY <2>1, RecordNothing
  <2>2. CASE Panic(t)
    BY <2>2, RecordReturn DEF Panic
  <2>3. ASSUME NEW d \in Doc, NEW at \in {"interim", "final"}, Work(t, d, at)
        PROVE  RecordOK'
    BY <1>5, <2>3, RecordMove
       DEF OnMatchStart, OnPartyJoin, OnMatchEvent, OnStartupMatch, Work, Pc, RecordOK, LoadOK
  <2>4. ASSUME NEW d \in Doc, Work(t, Ended(d), "persist")
        PROVE  RecordOK'
    <3>1. Ended(d) \in Doc /\ Ended(d).ended
      BY DEF Ended, Doc
    <3> QED
      BY <1>5, <2>4, <3>1, RecordMove
         DEF OnMatchStart, OnPartyJoin, OnMatchEvent, OnStartupMatch, Work, Pc, RecordOK, LoadOK
  <2>5. mid[t] # NoMatch
    BY <1>5 DEF OnMatchStart, OnPartyJoin, OnMatchEvent, OnStartupMatch, TypeOK, TaskTypeOK
  <2>6. CASE OnMatchStart(t)
    BY <2>1, <2>3, <2>5, <2>6, FetchedType, DocEdits DEF OnMatchStart, InState, ForceMatchEnd
  <2>7. CASE OnPartyJoin(t)
    BY <2>1, <2>3, <2>5, <2>7, FetchedType, DocEdits DEF OnPartyJoin, InState, ForceMatchEnd
  <2>8. CASE OnMatchEvent(t)
    BY <2>1, <2>2, <2>3, <2>5, <2>8, FetchedType DEF OnMatchEvent, InState, ForceMatchEnd
  <2>9. CASE OnStartupMatch(t)
    BY <2>1, <2>4, <2>5, <2>9, FetchedType DEF OnStartupMatch
  <2> QED BY <1>5, <2>6, <2>7, <2>8, <2>9
<1>6. ASSUME NEW t \in Task, OnMatchEnd(t) PROVE RecordOK'
  <2> PICK d \in Fetched(t) :
             IF InState(d, "InProgress")
             THEN /\ Goto(t, "settle")
                  /\ doc' = [doc EXCEPT ![t] = Emptied(Ended(d))]
                  /\ rest' = [rest EXCEPT ![t] = d.roster]
                  /\ UNCHANGED <<stores, issued, op, mid>>
             ELSE ForceMatchEnd(t)
    BY <1>6 DEF OnMatchEnd
  <2>1. CASE InState(d, "InProgress")
    <3>1. d \in Doc
      BY <1>6, <2>1, FetchedType DEF OnMatchEnd, InState, TypeOK, TaskTypeOK
    <3>2. Emptied(Ended(d)) \in Doc /\ Emptied(Ended(d)).ended
      BY <3>1 DEF Emptied, Ended, Doc
    <3> QED BY <1>6, <2>1, <3>2, RecordMove DEF OnMatchEnd, Pc
  <2>2. CASE ~InState(d, "InProgress")
    BY <2>2, RecordNothing DEF ForceMatchEnd
  <2> QED BY <2>1, <2>2
<1>7. ASSUME NEW t \in Task, InterimWrite(t) \/ FinalWrite(t) PROVE RecordOK'
  <2>1. OnlyEndedExpire'
    BY <1>7, RecordPlainSet DEF InterimWrite, FinalWrite, TypeOK, TaskTypeOK
  <2>2. PICK at \in {"final", "alive"} : pc' = [pc EXCEPT ![t] = at]
    BY <1>7 DEF InterimWrite, FinalWrite, Goto
  <2>3. /\ pc[t] \in {"interim", "final"}
        /\ UNCHANGED <<pointer, mongo, issued, memory>>
    BY <1>7 DEF InterimWrite, FinalWrite
  <2>4. op[t] # "load"
    BY <2>3 DEF RecordOK, LoadOK
  <2>5. ASSUME NEW u \in Task PROVE LoadOK(u)'
    BY <2>2, <2>3, <2>4 DEF RecordOK, LoadOK, TypeOK
  <2> QED BY <2>1, <2>3, <2>5 DEF RecordOK, CurrentMatchIsRecorded
<1>8. ASSUME NEW t \in Task, SettleParticipant(t) PROVE RecordOK'
  <2>1. OnlyEndedExpire'
    BY <1>8, RecordPlainSet DEF SettleParticipant, TypeOK, TaskTypeOK
  <2> PICK p \in rest[t] : doc' = [doc EXCEPT ![t] = SaveParticipants(doc[t], {p})]
    BY <1>8 DEF SettleParticipant
  <2>2. doc[t] \in Doc /\ doc[t].ended /\ op[t] # "load"
    BY <1>8 DEF SettleParticipant, RecordOK, LoadOK, TypeOK, TaskTypeOK
  <2>3. SaveParticipants(doc[t], {p}).ended
    BY <2>2 DEF SaveParticipants, Doc
  <2>4. ASSUME NEW u \in Task PROVE LoadOK(u)'
    BY <1>8, <2>2, <2>3 DEF SettleParticipant, Goto, RecordOK, LoadOK, TypeOK
  <2> QED BY <1>8, <2>1, <2>4 DEF SettleParticipant, RecordOK, CurrentMatchIsRecorded
<1>9. ASSUME NEW t \in Task, CreditPlayer(t) PROVE RecordOK'
  BY <1>9 DEF CreditPlayer, Goto, RecordOK, LoadOK, CurrentMatchIsRecorded, OnlyEndedExpire, TypeOK
<1>10. ASSUME NEW t \in Task, EverybodySettled(t) PROVE RecordOK'
  BY <1>10 DEF EverybodySettled, Goto, RecordOK, LoadOK, CurrentMatchIsRecorded, OnlyEndedExpire, TypeOK
<1>11. ASSUME NEW t \in Task, Persist(t) PROVE RecordOK'
  <2>1. /\ pc[t] = "persist" /\ pc' = [pc EXCEPT ![t] = "cache"]
        /\ \/ mongo' = [mongo EXCEPT ![mid[t]] = doc[t]]
           \/ "mongo" \in mode.faulty /\ UNCHANGED mongo
        /\ UNCHANGED <<redis, credits, issued, memory>>
    BY <1>11 DEF Persist, MongoSave, Goto
  <2>2. doc[t] # NoDoc /\ mid[t] \in issued /\ mid[t] \in MatchId
    BY <2>1 DEF TypeOK, TaskTypeOK
  <2>3. CASE UNCHANGED mongo
    <3>1. "mongo" \in mode.faulty \/ mongo[mid[t]] # NoDoc
      BY <2>1, <2>2, <2>3 DEF TypeOK
    <3>2. ASSUME NEW u \in Task PROVE LoadOK(u)'
      BY <2>1, <2>3, <3>1 DEF RecordOK, LoadOK, TypeOK
    <3> QED BY <2>1, <2>3, <3>2 DEF RecordOK, CurrentMatchIsRecorded, OnlyEndedExpire
  <2>4. CASE mongo' = [mongo EXCEPT ![mid[t]] = doc[t]]
    <3>1. ASSUME NEW u \in Task PROVE LoadOK(u)'
      BY <2>1, <2>2, <2>4 DEF RecordOK, LoadOK, TypeOK
    <3> QED BY <2>1, <2>2, <2>4, <3>1 DEF RecordOK, CurrentMatchIsRecorded, OnlyEndedExpire, TypeOK
  <2> QED BY <2>1, <2>3, <2>4
<1>12. ASSUME NEW t \in Task, CacheAfterPersist(t) PROVE RecordOK'
  <2>1. OnlyEndedExpire'
    BY <1>12, RecordPlainSet DEF CacheAfterPersist, RecordOK, LoadOK, TypeOK, TaskTypeOK
  <2>2. ASSUME NEW u \in Task PROVE LoadOK(u)'
    BY <1>12 DEF CacheAfterPersist, Goto, RecordOK, LoadOK, TypeOK
  <2> QED BY <1>12, <2>1, <2>2 DEF CacheAfterPersist, RecordOK, CurrentMatchIsRecorded
<1>13. ASSUME NEW t \in Task, SetCurrentMatchId(t) PROVE RecordOK'
  <2>1. /\ pc[t] = "point" /\ pc' = [pc EXCEPT ![t] = "alive"]
        /\ pointer' = [pointer EXCEPT ![ServerOf[t]] = mid[t]] \/ pointer' = pointer
        /\ UNCHANGED <<lastAlive, cache, expiring, mongo, credits, issued, memory>>
    BY <1>13 DEF SetCurrentMatchId, Goto
  <2>2. "mongo" \notin mode.faulty => mongo[mid[t]] # NoDoc
    BY <2>1 DEF RecordOK, LoadOK
  <2>3. CurrentMatchIsRecorded'
    BY <2>1, <2>2 DEF RecordOK, CurrentMatchIsRecorded, TypeOK
  <2>4. ASSUME NEW u \in Task PROVE LoadOK(u)'
    BY <2>1, <2>2 DEF RecordOK, LoadOK, TypeOK
  <2> QED BY <2>1, <2>3, <2>4 DEF RecordOK, OnlyEndedExpire
<1>14. ASSUME NEW t \in Task, SetLastTimeAlive(t) \/ Die(t) PROVE RecordOK'
  BY <1>14, RecordReturn DEF SetLastTimeAlive, Die, Panic
<1>15. ASSUME NEW m \in MatchId, Expire(m) PROVE RecordOK'
  BY <1>15 DEF Expire, RecordOK, LoadOK, CurrentMatchIsRecorded, OnlyEndedExpire, TypeOK
<1>16. CASE UNCHANGED vars
  BY <1>16 DEF vars, RecordOK, LoadOK, CurrentMatchIsRecorded, OnlyEndedExpire
<1> QED
  BY <1>1, <1>2, <1>3, <1>4, <1>5, <1>6, <1>7, <1>8, <1>9, <1>10, <1>11, <1>12,
     <1>13, <1>14, <1>15, <1>16
     DEF Next, Receive, Step, Task

\* The record, as an invariant of the system.
LEMMA RecordInvariant == Spec => []RecordInv
<1>1. Init => RecordInv
  BY TypeInit, RecordInit DEF RecordInv
<1>2. RecordInv /\ [Next]_vars => RecordInv'
  BY RecordStep
<1> QED BY <1>1, <1>2, PTL DEF Spec

\* Unless a write to Mongo fails, the match that a server points to is in
\* Mongo (the order of on_load's writes), whatever tasks overlap, wherever
\* they die and whatever Redis drops.
THEOREM CurrentMatchRecorded == Spec => []CurrentMatchIsRecorded
<1>1. RecordInv => CurrentMatchIsRecorded
  BY DEF RecordInv, RecordOK
<1> QED BY <1>1, RecordInvariant, PTL

\* Only ended matches are given a time to live in Redis (the expiry that
\* on_match_end and startup pass and on_load does not), whatever stale copies
\* are written over them and whatever operations the stores lose.
THEOREM OnlyEndedMatchesExpire == Spec => []OnlyEndedExpire
<1>1. RecordInv => OnlyEndedExpire
  BY DEF RecordInv, RecordOK
<1> QED BY <1>1, RecordInvariant, PTL

\* No step takes back the end of a match in the record: the handlers that save
\* a match either create it (on_load) or have ended it (on_match_end, startup).
THEOREM RecordKeepsTheEnd == Spec => RecordStaysEnded
<1> DEFINE Kept == \A m \in MatchId : mongo[m] # NoDoc =>
                     mongo'[m] # NoDoc /\ (mongo[m].ended => mongo'[m].ended)
<1>1. ASSUME RecordInv, [Next]_vars PROVE [Kept]_mongo
  <2>1. ASSUME NEW t \in Task, Persist(t) PROVE Kept
    <3>1. /\ pc[t] = "persist" /\ mongo' \in {mongo, [mongo EXCEPT ![mid[t]] = doc[t]]}
          /\ mid[t] \in MatchId /\ doc[t] # NoDoc
      BY <1>1, <2>1, NoMatchAssumption DEF Persist, MongoSave, RecordInv, TypeOK, TaskTypeOK
    <3>2. op[t] = "load" => mongo[mid[t]] = NoDoc
      BY <1>1, <3>1 DEF RecordInv, RecordOK, LoadOK
    <3>3. op[t] # "load" => doc[t].ended
      BY <1>1, <3>1 DEF RecordInv, RecordOK, LoadOK
    <3> QED BY <1>1, <3>1, <3>2, <3>3 DEF RecordInv, TypeOK
  <2>2. ASSUME NEW t \in Task, Receive(t) \/ Startup(t) PROVE UNCHANGED mongo
    BY <2>2 DEF Receive, OnMatchLoad, OnMessage, Startup, stores
  <2>3. ASSUME NEW t \in Task,
               \/ GetCurrentMatchId(t) \/ OnMatchStart(t) \/ OnMatchEnd(t)
               \/ OnPartyJoin(t) \/ OnMatchEvent(t) \/ OnStartupMatch(t)
        PROVE  UNCHANGED mongo
    BY <2>3 DEF GetCurrentMatchId, OnMatchStart, OnMatchEnd, OnPartyJoin, OnMatchEvent,
       OnStartupMatch, Panic, Work, NothingToDo, ForceMatchEnd, stores
  <2>4. ASSUME NEW t \in Task,
               \/ InterimWrite(t) \/ FinalWrite(t) \/ SettleParticipant(t)
               \/ CreditPlayer(t) \/ EverybodySettled(t) \/ CacheAfterPersist(t)
               \/ SetCurrentMatchId(t) \/ SetLastTimeAlive(t)
        PROVE  UNCHANGED mongo
    BY <2>4 DEF InterimWrite, FinalWrite, SettleParticipant, CreditPlayer,
       EverybodySettled, CacheAfterPersist, SetCurrentMatchId, SetLastTimeAlive, stores
  <2>5. ASSUME (\E t \in Task : Die(t)) \/ (\E m \in MatchId : Expire(m)) PROVE UNCHANGED mongo
    BY <2>5 DEF Die, Panic, Expire, stores
  <2>6. CASE UNCHANGED vars
    BY <2>6 DEF vars, stores
  <2> QED BY <1>1, <2>1, <2>2, <2>3, <2>4, <2>5, <2>6 DEF Next, Step, Task
<1>2. RecordInv /\ [Next]_vars => [Kept]_mongo
  BY <1>1
<1> QED BY <1>2, RecordInvariant, PTL DEF Spec, RecordStaysEnded

-----------------------------------------------------------------------------
(* The working copy and the credits, with a plugin that waits.             *)
(*                                                                         *)
(* The argument.  When a server has one task at a time (Alone), a match is *)
(* in the hands of one task only: a load holds a match to which no server  *)
(* points, and every other task the match to which its own server points,  *)
(* to which no other server does (HoldsOK).  So what a task has read stays *)
(* as it was read until it writes, but for an expiry (DataOK), and every   *)
(* write agrees with the results that were credited (TrueTo): all of its   *)
(* participants have them, all but one of those who have them are in it.   *)

AtMostOne(S) == \A a, b \in S : a = b

\* Document d says of m's result what the profiles say.
TrueTo(m, d) ==
  Credited(m) # {} =>
    /\ State(d) = "Post"
    /\ d.roster \subseteq Credited(m)
    /\ AtMostOne(Credited(m) \ d.roster)

\* Match m is in Redis, or was, has ended and has expired.
Loaded(m) == cache[m] # NoDoc \/ (mongo[m] # NoDoc /\ mongo[m].ended)

Fresh(m) == cache[m] = NoDoc /\ mongo[m] = NoDoc /\ Credited(m) = {}

Loading(t) == op[t] = "load" /\ pc[t] # "alive"

Alone ==
  /\ \A t, u \in Task : ServerOf[t] = ServerOf[u] /\ pc[t] # "idle" /\ pc[u] # "idle" => t = u
  /\ \A t, u \in Task : mid[t] = mid[u] /\ mid[t] # NoMatch => t = u
  /\ \A s, z \in Server : pointer[s] = pointer[z] /\ pointer[s] # NoMatch => s = z

HoldsOK(t) ==
  /\ pc[t] \in {"idle", "pointer"} => mid[t] = NoMatch
  /\ mid[t] # NoMatch =>
       IF Loading(t) THEN \A s \in Server : pointer[s] # mid[t]
       ELSE pointer[ServerOf[t]] = mid[t]

MatchOK(m) ==
  /\ \A p \in Player : credits[m][p] <= 1
  /\ cache[m] # NoDoc => TrueTo(m, cache[m])
  /\ m \in expiring => cache[m] = mongo[m]
  /\ m \notin issued => Fresh(m)
  /\ \A s \in Server : pointer[s] = m => Loaded(m)

\* What a task t knows of its match m: while it loads the match, ...
LoadingOK(t, m) ==
  Loading(t) =>
    /\ doc[t] = NewMatch /\ Credited(m) = {} /\ m \notin expiring
    /\ mongo[m] = IF pc[t] = "persist" THEN NoDoc ELSE NewMatch
    /\ cache[m] = IF pc[t] = "point" THEN NewMatch ELSE NoDoc

\* ... while it edits the match, which can have expired but not changed, ...
EditOK(t, m) ==
  pc[t] \in {"interim", "final"} =>
    /\ TrueTo(m, doc[t])
    /\ IF cache[m] = NoDoc THEN doc[t].ended
       ELSE /\ doc[t].ended = cache[m].ended
            /\ cache[m].started => doc[t].started
            /\ cache[m].roster \subseteq doc[t].roster

\* ... while it settles the participants, those put back being those credited
\* but for the one at hand, ...
SettleOK(t, m) ==
  pc[t] \in {"settle", "credit"} =>
    /\ State(doc[t]) = "Post" /\ cache[m] # NoDoc /\ m \notin expiring
    /\ rest[t] \cap Credited(m) = {}
    /\ pc[t] = "settle" => doc[t].roster = Credited(m)
    /\ pc[t] = "credit" =>
         /\ State(cache[m]) = "Post" /\ cache[m].roster = Credited(m)
         /\ \E p \in rest[t] : doc[t].roster = Credited(m) \cup {p}

\* ... and while it saves a match that has ended.
EndOK(t, m) ==
  op[t] # "load" /\ pc[t] \in {"persist", "cache"} =>
    /\ TrueTo(m, doc[t])
    /\ m \in expiring => doc[t] = cache[m]
    /\ pc[t] = "cache" => mongo[m] = doc[t]

DataOK(t, m) == LoadingOK(t, m) /\ EditOK(t, m) /\ SettleOK(t, m) /\ EndOK(t, m)

SerialOK ==
  /\ Alone
  /\ \A m \in MatchId : MatchOK(m)
  /\ \A t \in Task : HoldsOK(t) /\ \A m \in MatchId : mid[t] = m => DataOK(t, m)

SerialInv == RecordInv /\ (Serial => SerialOK)

\* A step that leaves match m alone
SameStores(m) ==
  /\ cache'[m] = cache[m] /\ mongo'[m] = mongo[m] /\ credits'[m] = credits[m]
  /\ m \in expiring' <=> m \in expiring

LEMMA SameCredited ==
  ASSUME NEW m, credits'[m] = credits[m]
  PROVE  Credited(m)' = Credited(m)
BY DEF Credited

LEMMA CreditedNobody ==
  ASSUME NEW m, \A p \in Player : credits[m][p] = 0
  PROVE  Credited(m) = {}
BY DEF Credited

LEMMA SameMatch ==
  ASSUME NEW m \in MatchId, MatchOK(m), SameStores(m), UNCHANGED <<pointer, issued>>
  PROVE  MatchOK(m)'
BY SameCredited DEF MatchOK, SameStores, TrueTo, Fresh, Loaded

LEMMA SameData ==
  ASSUME NEW t \in Task, NEW m \in MatchId, DataOK(t, m), SameStores(m),
         pc'[t] = pc[t], op'[t] = op[t], doc'[t] = doc[t], rest'[t] = rest[t]
  PROVE  DataOK(t, m)'
BY SameCredited DEF DataOK, LoadingOK, EditOK, SettleOK, EndOK, Loading, SameStores, TrueTo

\* A step of a task that holds match m and touches no other is judged by what
\* it leaves of m and knows of it.
LEMMA HolderStep ==
  ASSUME TypeOK, SerialOK, NEW t \in Task, NEW m \in MatchId, mid[t] = m,
         NEW at \in Pc \ {"idle", "pointer"}, Goto(t, at), pc[t] # "alive",
         at = "alive" => op[t] # "load",
         UNCHANGED <<pointer, issued, op, mid>>,
         \A u \in Task \ {t} : doc'[u] = doc[u] /\ rest'[u] = rest[u],
         \A n \in MatchId \ {m} : SameStores(n),
         MatchOK(m)', DataOK(t, m)'
  PROVE  SerialOK'
<1>0. m # NoMatch /\ pc[t] # "idle" /\ pc' = [pc EXCEPT ![t] = at] /\ pc \in [Task -> Pc]
  BY NoMatchAssumption DEF SerialOK, HoldsOK, Goto, TypeOK
<1>1. Alone'
  BY <1>0 DEF SerialOK, Alone
<1>2. ASSUME NEW n \in MatchId PROVE MatchOK(n)'
  BY SameMatch DEF SerialOK
<1>3. ASSUME NEW u \in Task PROVE HoldsOK(u)'
  BY <1>0 DEF SerialOK, HoldsOK, Loading
<1>4. ASSUME NEW u \in Task, NEW n \in MatchId, mid'[u] = n PROVE DataOK(u, n)'
  <2>1. CASE u = t
    BY <1>4, <2>1
  <2>2. CASE u # t
    <3>1. n # m
      BY <1>0, <1>4, <2>2 DEF SerialOK, Alone
    <3>2. DataOK(u, n) /\ pc'[u] = pc[u] /\ op'[u] = op[u] /\ doc'[u] = doc[u] /\ rest'[u] = rest[u]
      BY <1>0, <1>4, <2>2 DEF SerialOK
    <3> QED BY <3>1, <3>2, SameData
  <2> QED BY <2>1, <2>2
<1> QED BY <1>1, <1>2, <1>3, <1>4 DEF SerialOK

\* A task that lets go of its match, if it had one, or is yet to find it
LEMMA NobodysStep ==
  ASSUME TypeOK, SerialOK, NEW t \in Task, NEW at \in Pc, mid'[t] = NoMatch,
         Goto(t, at), at # "idle" => \A u \in Task \ {t} : ServerOf[u] = ServerOf[t] => pc[u] = "idle",
         UNCHANGED <<pointer, issued>>,
         \A u \in Task \ {t} : /\ op'[u] = op[u] /\ mid'[u] = mid[u]
                               /\ doc'[u] = doc[u] /\ rest'[u] = rest[u],
         \A n \in MatchId : SameStores(n)
  PROVE  SerialOK'
<1>0. pc' = [pc EXCEPT ![t] = at] /\ pc \in [Task -> Pc]
  BY DEF Goto, TypeOK
<1>1. Alone'
  BY <1>0 DEF SerialOK, Alone
<1>2. ASSUME NEW n \in MatchId PROVE MatchOK(n)'
  BY SameMatch DEF SerialOK
<1>3. ASSUME NEW u \in Task PROVE HoldsOK(u)'
  BY <1>0 DEF SerialOK, HoldsOK, Loading
<1>4. ASSUME NEW u \in Task, NEW n \in MatchId, mid'[u] = n PROVE DataOK(u, n)'
  <2>1. u # t
    BY <1>4, NoMatchAssumption
  <2>2. DataOK(u, n) /\ pc'[u] = pc[u] /\ op'[u] = op[u] /\ doc'[u] = doc[u] /\ rest'[u] = rest[u]
    BY <1>0, <1>4, <2>1 DEF SerialOK
  <2> QED BY <2>2, SameData
<1> QED BY <1>1, <1>2, <1>3, <1>4 DEF SerialOK

LEMMA SerialInit == Init => SerialOK
<1> SUFFICES ASSUME Init PROVE SerialOK
  OBVIOUS
<1>1. \A m \in MatchId : Credited(m) = {}
  BY CreditedNobody DEF Init
<1>2. \A m \in MatchId : MatchOK(m)
  BY <1>1, NoMatchAssumption DEF Init, MatchOK, Fresh, Loaded
<1>3. Alone /\ \A t \in Task : HoldsOK(t)
  BY DEF Init, Alone, HoldsOK
<1> QED BY <1>2, <1>3, NoMatchAssumption DEF Init, SerialOK

\* Redis answers, and the servers of two busy tasks differ.
LEMMA Waiting ==
  ASSUME TypeOK, Serial, SerialOK, NEW t \in Task, pc[t] # "idle" \/ MayBegin(t)
  PROVE  /\ \A u \in Task \ {t} : ServerOf[u] = ServerOf[t] => pc[u] = "idle"
         /\ \A value, absent : RedisGet(value, absent) = {value}
BY DEF Serial, SerialOK, Alone, MayBegin, RedisGet

LEMMA SameStoresAll ==
  ASSUME UNCHANGED stores, NEW m
  PROVE  SameStores(m)
BY DEF SameStores

LEMMA SerialReturn ==
  ASSUME TypeOK, Serial, SerialOK, NEW t \in Task, Return(t),
         UNCHANGED <<pointer, cache, expiring, mongo, credits, issued>>
  PROVE  SerialOK'
BY NobodysStep DEF Return, Goto, SameStores, TypeOK, Pc

\* What SerialStep needs to know of a task that is past reading its match
LEMMA Holder ==
  ASSUME SerialInv, Serial, NEW t \in Task, pc[t] \notin {"idle", "pointer", "alive"}
  PROVE  \E m \in MatchId :
           /\ mid[t] = m /\ m # NoMatch /\ m \in issued
           /\ pc[t] # "match" => doc[t] \in Doc
           /\ MatchOK(m) /\ DataOK(t, m)
           /\ op[t] = "load" => pc[t] \in {"persist", "cache", "point"}
<1>1. mid[t] # NoMatch /\ mid[t] \in issued /\ mid[t] \in MatchId
  BY DEF SerialInv, RecordInv, TypeOK, TaskTypeOK
<1>2. pc[t] # "match" => doc[t] \in Doc
  BY DEF SerialInv, RecordInv, TypeOK, TaskTypeOK
<1>3. op[t] = "load" => pc[t] \in {"persist", "cache", "point"}
  BY DEF SerialInv, RecordInv, RecordOK, LoadOK
<1> QED BY <1>1, <1>2, <1>3 DEF SerialInv, SerialOK

\* A task that has read its match and returns without a write
LEMMA SerialNothing ==
  ASSUME SerialInv, Serial, NEW t \in Task, pc[t] = "match", NothingToDo(t)
  PROVE  SerialOK'
<1> PICK m \in MatchId : /\ mid[t] = m /\ MatchOK(m) /\ DataOK(t, m) /\ op[t] # "load"
  BY Holder
<1>1. MatchOK(m)'
  BY SameMatch, SameStoresAll DEF NothingToDo
<1>2. DataOK(t, m)'
  BY DEF SerialInv, RecordInv, NothingToDo, Goto, TypeOK, DataOK, LoadingOK, EditOK,
         SettleOK, EndOK, Loading
<1> QED BY <1>1, <1>2, HolderStep, SameStoresAll DEF SerialInv, RecordInv, NothingToDo, Pc

\* A task that has read its match and goes on to edit or to end it
LEMMA SerialWork ==
  ASSUME SerialInv, Serial, NEW t \in Task, pc[t] = "match",
         NEW m \in MatchId, mid[t] = m, NEW d \in Doc, NEW at \in {"interim", "final", "persist"},
         Work(t, d, at), TrueTo(m, d), cache[m] # NoDoc,
         at = "persist" => (m \in expiring => d = cache[m]),
         at # "persist" => /\ d.ended = cache[m].ended
                           /\ cache[m].started => d.started
                           /\ cache[m].roster \subseteq d.roster
  PROVE  SerialOK'
<1>0. MatchOK(m) /\ op[t] # "load"
  BY Holder
<1>1. MatchOK(m)'
  BY <1>0, SameMatch, SameStoresAll DEF Work
<1>2. /\ pc'[t] = at /\ doc'[t] = d /\ op'[t] = op[t]
      /\ UNCHANGED <<cache, mongo, expiring, credits>>
  BY DEF SerialInv, RecordInv, Work, Goto, TypeOK
<1>3. DataOK(t, m)'
  BY <1>0, <1>2, SameCredited DEF DataOK, LoadingOK, EditOK, SettleOK, EndOK, Loading, TrueTo
<1>4. \A u \in Task \ {t} : doc'[u] = doc[u] /\ rest'[u] = rest[u]
  BY DEF SerialInv, RecordInv, Work, TypeOK
<1>5. at \in Pc \ {"idle", "pointer"} /\ Goto(t, at) /\ UNCHANGED <<pointer, issued, op, mid>>
  BY DEF Work, Pc
<1>6. \A n \in MatchId : SameStores(n)
  BY SameStoresAll DEF Work
<1> QED BY <1>0, <1>1, <1>3, <1>4, <1>5, <1>6, HolderStep DEF SerialInv, RecordInv

LEMMA SerialStep == SerialInv /\ [Next]_vars => SerialInv'
<1> SUFFICES ASSUME SerialInv, [Next]_vars, Serial PROVE SerialOK'
  BY RecordStep, SameMode DEF SerialInv, Serial
<1>0. UNCHANGED mode /\ mode.players \subseteq Player /\ mode.matches \subseteq MatchId
  BY SameMode, ModeType DEF SerialInv, RecordInv
<1> USE <1>0
<1>00. TypeOK /\ SerialOK /\ mode.faulty = {}
  BY DEF SerialInv, RecordInv, Serial
<1>1. ASSUME NEW t \in Task, OnMatchLoad(t) PROVE SerialOK'
  <2>1. pc[t] = "idle" /\ mid[t] = NoMatch /\ op' = [op EXCEPT ![t] = "load"]
        /\ UNCHANGED <<stores, rest>>
    BY <1>1, <1>00 DEF OnMatchLoad, MayBegin, SerialOK, HoldsOK
  <2>2. CASE Goto(t, "alive") /\ UNCHANGED <<issued, mid, doc>>
    BY <1>1, <1>00, <2>1, <2>2, Waiting, NobodysStep, SameStoresAll DEF OnMatchLoad, TypeOK, Pc
  <2>3. ASSUME NEW m \in mode.matches \ issued, issued' = issued \cup {m},
               mid' = [mid EXCEPT ![t] = m], doc' = [doc EXCEPT ![t] = NewMatch],
               Goto(t, "persist")
        PROVE  SerialOK'
    <3>0. pc' = [pc EXCEPT ![t] = "persist"] /\ m \in MatchId /\ m # NoMatch
      BY <2>3, NoMatchAssumption DEF Goto
    <3>1. (\A u \in Task : mid[u] # m) /\ (\A s \in Server : pointer[s] # m) /\ m \notin expiring
      <4>1. MatchOK(m)
        BY <1>00, <3>0 DEF SerialOK
      <4> QED BY <1>00, <3>0, <4>1 DEF TypeOK, TaskTypeOK, MatchOK, Fresh
    <3>2. \A u \in Task \ {t} : ServerOf[u] = ServerOf[t] => pc[u] = "idle"
      BY <1>1, <1>00, Waiting DEF OnMatchLoad
    <3>3. Alone'
      BY <1>00, <2>1, <2>3, <3>0, <3>1, <3>2 DEF SerialOK, Alone, TypeOK
    <3>4. ASSUME NEW n \in MatchId PROVE MatchOK(n)'
      <4>1. MatchOK(n) /\ SameStores(n) /\ pointer' = pointer
        BY <1>00, <2>1, SameStoresAll DEF SerialOK
      <4> QED BY <2>3, <4>1, SameCredited DEF MatchOK, SameStores, TrueTo, Fresh, Loaded
    <3>5. ASSUME NEW u \in Task PROVE HoldsOK(u)'
      BY <1>00, <2>1, <2>3, <3>0, <3>1 DEF SerialOK, HoldsOK, Loading, TypeOK
    <3>6. ASSUME NEW u \in Task, NEW n \in MatchId, mid'[u] = n PROVE DataOK(u, n)'
      <4>1. CASE u # t
        <5>1. /\ mid[u] = n /\ pc'[u] = pc[u] /\ op'[u] = op[u] /\ doc'[u] = doc[u]
              /\ rest'[u] = rest[u]
          BY <1>00, <2>1, <2>3, <3>0, <3>6, <4>1 DEF TypeOK
        <5> QED BY <1>00, <2>1, <5>1, SameData, SameStoresAll DEF SerialOK
      <4>2. CASE u = t
        <5>1. n = m /\ doc'[t] = NewMatch /\ pc'[t] = "persist" /\ op'[t] = "load"
          BY <1>00, <2>1, <2>3, <3>0, <3>6, <4>2 DEF TypeOK
        <5>2. Fresh(m) /\ Credited(m)' = Credited(m)
          BY <1>00, <2>1, <3>0, SameCredited DEF SerialOK, MatchOK
        <5> QED BY <2>1, <3>1, <4>2, <5>1, <5>2
                DEF DataOK, LoadingOK, EditOK, SettleOK, EndOK, Loading, Fresh
      <4> QED BY <4>1, <4>2
    <3> QED BY <3>3, <3>4, <3>5, <3>6 DEF SerialOK
  <2> QED BY <1>1, <2>2, <2>3 DEF OnMatchLoad
<1>2. ASSUME NEW t \in Task, (\E o \in mode.events : OnMessage(t, o)) \/ Startup(t)
      PROVE  SerialOK'
  <2>1. pc[t] = "idle" /\ mid[t] = NoMatch
    BY <1>2, <1>00 DEF OnMessage, Startup, MayBegin, SerialOK, HoldsOK
  <2>2. \A u \in Task \ {t} : ServerOf[u] = ServerOf[t] => pc[u] = "idle"
    BY <1>2, <1>00, Waiting DEF OnMessage, Startup
  <2>3. \E at \in {"pointer", "alive"} : Goto(t, at)
    BY <1>2 DEF OnMessage, Startup
  <2>4. /\ UNCHANGED <<stores, issued, mid, doc, rest>>
        /\ \E o : op' = [op EXCEPT ![t] = o]
    BY <1>2 DEF OnMessage, Startup
  <2> QED BY <1>00, <2>1, <2>2, <2>3, <2>4, NobodysStep, SameStoresAll DEF TypeOK, Pc
<1>3. ASSUME NEW t \in Task, GetCurrentMatchId(t) PROVE SerialOK'
  <2> DEFINE m == pointer[ServerOf[t]]
  <2>1. /\ pc[t] = "pointer" /\ mid[t] = NoMatch /\ UNCHANGED <<stores, issued>>
        /\ RedisGet(m, NoMatch) = {m}
        /\ \A u \in Task \ {t} : ServerOf[u] = ServerOf[t] => pc[u] = "idle"
    BY <1>3, <1>00, Waiting DEF GetCurrentMatchId, SerialOK, HoldsOK
  <2>2. CASE m # NoMatch
    <3>1. /\ pc' = [pc EXCEPT ![t] = "match"] /\ mid' = [mid EXCEPT ![t] = m]
          /\ UNCHANGED <<op, doc, rest>>
      BY <1>3, <2>1, <2>2 DEF GetCurrentMatchId, Goto
    <3>2. ServerOf[t] \in Server /\ op[t] # "load"
      BY <2>1, TasksAssumption DEF SerialInv, RecordInv, RecordOK, LoadOK
    <3>3. Alone'
      <4>1. ASSUME NEW u \in Task, mid[u] = m PROVE FALSE
        BY <1>00, <2>1, <2>2, <3>2, <4>1, TasksAssumption DEF SerialOK, HoldsOK, Alone
      <4> HIDE DEF m
      <4> QED BY <1>00, <2>1, <3>1, <4>1 DEF SerialOK, Alone, TypeOK
    <3>4. ASSUME NEW n \in MatchId PROVE MatchOK(n)'
      BY <1>00, <2>1, SameMatch, SameStoresAll DEF SerialOK
    <3>5. ASSUME NEW u \in Task PROVE HoldsOK(u)'
      BY <1>00, <2>1, <3>1, <3>2 DEF SerialOK, HoldsOK, Loading, TypeOK
    <3>6. ASSUME NEW u \in Task, NEW n \in MatchId, mid'[u] = n PROVE DataOK(u, n)'
      <4>1. CASE u # t
        <5>1. mid[u] = n /\ pc'[u] = pc[u] /\ op'[u] = op[u] /\ doc'[u] = doc[u] /\ rest'[u] = rest[u]
          BY <1>00, <2>1, <3>1, <3>6, <4>1 DEF TypeOK
        <5> QED BY <1>00, <2>1, <5>1, SameData, SameStoresAll DEF SerialOK
      <4>2. CASE u = t
        <5>1. pc'[t] = "match" /\ op'[t] # "load"
          BY <1>00, <3>1, <3>2 DEF TypeOK
        <5> QED BY <4>2, <5>1 DEF DataOK, LoadingOK, EditOK, SettleOK, EndOK, Loading
      <4> QED BY <4>1, <4>2
    <3> QED BY <3>3, <3>4, <3>5, <3>6 DEF SerialOK
  <2>3. CASE m = NoMatch
    <3>1. \/ Return(t)
          \/ Goto(t, "alive") /\ UNCHANGED memory
      BY <1>3, <2>1, <2>3 DEF GetCurrentMatchId
    <3>2. CASE Return(t)
      BY <1>00, <2>1, <3>2, SerialReturn
    <3>3. CASE Goto(t, "alive") /\ UNCHANGED memory
      BY <1>00, <2>1, <3>3, NobodysStep, SameStoresAll DEF TypeOK, Pc
    <3> QED BY <3>1, <3>2, <3>3
  <2> QED BY <2>2, <2>3
<1>4. ASSUME NEW t \in Task,
             \/ OnMatchStart(t) \/ OnMatchEnd(t) \/ OnPartyJoin(t) \/ OnMatchEvent(t)
             \/ OnStartupMatch(t)
      PROVE  SerialOK'
  <2>0. pc[t] = "match"
    BY <1>4 DEF OnMatchStart, OnMatchEnd, OnPartyJoin, OnMatchEvent, OnStartupMatch
  <2> PICK m \in MatchId : mid[t] = m /\ MatchOK(m) /\ op[t] # "load"
    BY <2>0, Holder
  <2>1. CASE NothingToDo(t)
    BY <2>0, <2>1, SerialNothing
  <2>2. CASE Panic(t)
    BY <1>00, <2>2, SerialReturn DEF Panic
  <2> DEFINE d == cache[m]
  <2>3. Fetched(t) = {d} /\ d \in Doc \cup {NoDoc}
    BY <1>00, <2>0, Waiting DEF Fetched, TypeOK
  <2>4. d # NoDoc => TrueTo(m, d) /\ d \in Doc
    BY <2>3 DEF MatchOK
  <2>5. d # NoDoc /\ State(d) # "Post" => Credited(m) = {}
    BY <2>4 DEF TrueTo
  <2>6. d # NoDoc /\ m \in expiring => d.ended
    BY DEF SerialInv, RecordInv, RecordOK, OnlyEndedExpire
  <2> HIDE DEF d
  <2>7. CASE OnMatchStart(t)
    <3>1. CASE InState(d, "Pre")
      <4> PICK joining \in SUBSET mode.players :
                 Work(t, SaveParticipants(Started(d), joining), "final")
        BY <2>3, <2>7, <3>1 DEF OnMatchStart
      <4> DEFINE e == SaveParticipants(Started(d), joining)
      <4>1. d \in Doc /\ Credited(m) = {} /\ ~d.started
        BY <2>4, <2>5, <3>1 DEF InState, State
      <4>2. e \in Doc /\ e.ended = d.ended /\ d.roster \subseteq e.roster /\ TrueTo(m, e)
        BY <4>1 DEF SaveParticipants, Started, Doc, TrueTo
      <4> HIDE DEF e
      <4>3. Work(t, e, "final") /\ cache[m] = d /\ d # NoDoc
        BY <3>1 DEF e, d, InState
      <4> QED BY <2>0, <4>1, <4>2, <4>3, SerialWork
    <3>2. CASE ~InState(d, "Pre")
      BY <2>1, <2>3, <2>7, <3>2 DEF OnMatchStart, ForceMatchEnd
    <3> QED BY <3>1, <3>2
  <2>8. CASE OnMatchEnd(t)
    <3>1. CASE InState(d, "InProgress")
      <4> DEFINE e == Emptied(Ended(d))
      <4>1. d \in Doc /\ Credited(m) = {} /\ d.started /\ ~d.ended /\ m \notin expiring
        BY <2>4, <2>5, <2>6, <3>1 DEF InState, State
      <4>2. State(e) = "Post" /\ e.roster = {}
        BY <4>1 DEF Emptied, Ended, Doc, State
      <4> HIDE DEF e
      <4>3. /\ Goto(t, "settle") /\ doc' = [doc EXCEPT ![t] = e]
            /\ rest' = [rest EXCEPT ![t] = d.roster]
            /\ UNCHANGED <<stores, issued, op, mid>>
        BY <2>3, <2>8, <3>1 DEF OnMatchEnd, e
      <4>4. pc'[t] = "settle" /\ doc'[t] = e /\ Credited(m)' = {} /\ cache[m] # NoDoc
        BY <1>00, <3>1, <4>1, <4>3, SameCredited DEF Goto, TypeOK, InState, d
      <4>5. DataOK(t, m)'
        BY <4>1, <4>2, <4>3, <4>4 DEF DataOK, LoadingOK, EditOK, SettleOK, EndOK, Loading
      <4>6. MatchOK(m)'
        BY <4>3, SameMatch, SameStoresAll
      <4>7. \A u \in Task \ {t} : doc'[u] = doc[u] /\ rest'[u] = rest[u]
        BY <1>00, <4>3 DEF TypeOK
      <4>8. "settle" \in Pc \ {"idle", "pointer"} /\ \A n \in MatchId : SameStores(n)
        BY <4>3, SameStoresAll DEF Pc
      <4> QED BY <1>00, <2>0, <4>3, <4>5, <4>6, <4>7, <4>8, HolderStep
    <3>2. CASE ~InState(d, "InProgress")
      BY <2>1, <2>3, <2>8, <3>2 DEF OnMatchEnd, ForceMatchEnd
    <3> QED BY <3>1, <3>2
  <2>9. CASE OnPartyJoin(t)
    <3>1. CASE InState(d, "InProgress")
      <4> PICK p \in mode.players : Work(t, SaveParticipants(d, {p}), "final")
        BY <2>3, <2>9, <3>1 DEF OnPartyJoin
      <4> DEFINE e == SaveParticipants(d, {p})
      <4>1. d \in Doc /\ Credited(m) = {}
        BY <2>4, <2>5, <3>1 DEF InState, State
      <4>2. /\ e \in Doc /\ e.ended = d.ended /\ e.started = d.started
            /\ d.roster \subseteq e.roster /\ TrueTo(m, e)
        BY <4>1 DEF SaveParticipants, Doc, TrueTo
      <4> HIDE DEF e
      <4>3. Work(t, e, "final") /\ cache[m] = d /\ d # NoDoc
        BY <3>1 DEF e, d, InState
      <4> QED BY <2>0, <4>1, <4>2, <4>3, SerialWork
    <3>2. CASE ~InState(d, "InProgress")
      BY <2>1, <2>3, <2>9, <3>2 DEF OnPartyJoin, ForceMatchEnd
    <3> QED BY <3>1, <3>2
  <2>10. CASE OnMatchEvent(t)
    <3>1. ASSUME NEW at \in {"interim", "final"}, Work(t, d, at), d # NoDoc PROVE SerialOK'
      BY <2>0, <2>4, <3>1, SerialWork DEF d
    <3> QED BY <2>1, <2>2, <2>3, <2>10, <3>1 DEF OnMatchEvent, ForceMatchEnd
  <2>11. CASE OnStartupMatch(t)
    <3>1. CASE d # NoDoc
      <4> DEFINE e == Ended(d)
      <4>1. e \in Doc /\ (d.ended => e = d)
        BY <2>4, <3>1 DEF Ended, Doc
      <4>2. TrueTo(m, e)
        <5>1. Credited(m) # {} => d.ended
          BY <2>4, <3>1 DEF TrueTo, State
        <5> QED BY <2>4, <3>1, <4>1, <5>1 DEF TrueTo
      <4> HIDE DEF e
      <4>3. Work(t, e, "persist") /\ cache[m] = d
        BY <2>3, <2>11, <3>1 DEF e, d, OnStartupMatch
      <4> QED BY <2>0, <2>6, <3>1, <4>1, <4>2, <4>3, SerialWork
    <3>2. CASE d = NoDoc
      BY <2>1, <2>3, <2>11, <3>2 DEF OnStartupMatch
    <3> QED BY <3>1, <3>2
  <2> QED BY <1>4, <2>7, <2>8, <2>9, <2>10, <2>11
<1>5. ASSUME NEW t \in Task,
             \/ InterimWrite(t) \/ FinalWrite(t) \/ SettleParticipant(t) \/ CreditPlayer(t)
             \/ EverybodySettled(t) \/ Persist(t) \/ CacheAfterPersist(t)
      PROVE  SerialOK'
  <2> DEFINE awaits == {"interim", "final", "settle", "credit", "persist", "cache"}
  <2>0. pc[t] \in awaits
    BY <1>5 DEF InterimWrite, FinalWrite, SettleParticipant, CreditPlayer, EverybodySettled,
       Persist, CacheAfterPersist
  <2> PICK m \in MatchId : /\ mid[t] = m /\ m # NoMatch /\ m \in issued
                           /\ doc[t] \in Doc
                           /\ MatchOK(m) /\ DataOK(t, m)
                           /\ op[t] = "load" => pc[t] \in {"persist", "cache", "point"}
    BY <2>0, Holder
  <2> DEFINE d == doc[t]
  <2>01. \A e, px : CacheSet(m, e, px) =>
                /\ cache' = [cache EXCEPT ![m] = e]
                /\ expiring' = IF px THEN expiring \cup {m} ELSE expiring \ {m}
    BY <1>00 DEF CacheSet
  <2>02. \A e : MongoSave(m, e) => mongo' = [mongo EXCEPT ![m] = e]
    BY <1>00 DEF MongoSave
  <2>03. UNCHANGED <<issued, pointer, op, mid>>
    BY <1>5 DEF InterimWrite, FinalWrite, SettleParticipant, CreditPlayer, EverybodySettled,
       Persist, CacheAfterPersist
  <2>04. d # NoDoc
    BY NoDocAssumption
  \* It is enough to look at the match and the task.
  <2>05. ASSUME NEW at \in {"final", "alive", "settle", "credit", "persist", "cache", "point"},
                Goto(t, at), at = "alive" => op[t] # "load",
                \A u \in Task \ {t} : doc'[u] = doc[u] /\ rest'[u] = rest[u],
                \A n \in MatchId \ {m} : SameStores(n),
                MatchOK(m)', DataOK(t, m)'
         PROVE  SerialOK'
    BY <1>00, <2>0, <2>03, <2>05, HolderStep DEF Pc
  <2>1. CASE InterimWrite(t) \/ FinalWrite(t)
    <3> PICK at \in {"final", "alive"} : Goto(t, at)
      BY <2>1 DEF InterimWrite, FinalWrite
    <3>1. /\ pc[t] \in {"interim", "final"} /\ op[t] # "load"
          /\ cache' = [cache EXCEPT ![m] = d] /\ expiring' = expiring \ {m}
          /\ UNCHANGED <<mongo, credits, memory>>
      BY <2>01, <2>1 DEF InterimWrite, FinalWrite
    <3>2. TrueTo(m, d) /\ Credited(m)' = Credited(m)
      BY <3>1, SameCredited DEF DataOK, EditOK
    <3>3. MatchOK(m)'
      BY <1>00, <2>03, <2>04, <3>1, <3>2 DEF MatchOK, TrueTo, Fresh, Loaded, TypeOK
    <3>4. pc'[t] = at /\ cache'[m] = d
      BY <1>00, <3>1 DEF Goto, TypeOK
    <3>5. DataOK(t, m)'
      BY <2>03, <2>04, <3>1, <3>2, <3>4 DEF DataOK, LoadingOK, EditOK, SettleOK, EndOK, Loading, TrueTo
    <3>6. \A n \in MatchId \ {m} : SameStores(n)
      BY <1>00, <3>1 DEF SameStores, TypeOK
    <3> QED BY <2>05, <3>1, <3>3, <3>5, <3>6
  <2>2. CASE SettleParticipant(t)
    <3>1. PICK p \in rest[t] : doc' = [doc EXCEPT ![t] = SaveParticipants(d, {p})]
      BY <2>2 DEF SettleParticipant
    <3> DEFINE e == SaveParticipants(d, {p})
    <3>2. /\ pc[t] = "settle" /\ op[t] # "load" /\ Goto(t, "credit")
          /\ cache' = [cache EXCEPT ![m] = d] /\ expiring' = expiring \ {m}
          /\ UNCHANGED <<mongo, credits, rest>>
      BY <2>01, <2>2 DEF SettleParticipant
    <3>3. /\ State(d) = "Post" /\ d.roster = Credited(m)
          /\ rest[t] \cap Credited(m) = {} /\ Credited(m)' = Credited(m)
      BY <3>2, SameCredited DEF DataOK, SettleOK
    <3>4. e.roster = Credited(m) \cup {p} /\ State(e) = "Post"
      BY <3>3 DEF SaveParticipants, Doc, State
    <3>5. MatchOK(m)'
      BY <1>00, <2>03, <2>04, <3>2, <3>3 DEF MatchOK, TrueTo, AtMostOne, Fresh, Loaded, TypeOK
    <3> HIDE DEF e
    <3>6. pc'[t] = "credit" /\ cache'[m] = d /\ doc'[t] = e /\ rest'[t] = rest[t] /\ op'[t] # "load"
      BY <1>00, <2>03, <3>1, <3>2 DEF Goto, TypeOK, e
    <3>7. m \notin expiring'
      BY <3>2
    <3>8. DataOK(t, m)'
      BY <2>04, <3>3, <3>4, <3>6, <3>7 DEF DataOK, LoadingOK, EditOK, SettleOK, EndOK, Loading
    <3>9. \A n \in MatchId \ {m} : SameStores(n)
      BY <1>00, <3>2 DEF SameStores, TypeOK
    <3>10. \A u \in Task \ {t} : doc'[u] = doc[u] /\ rest'[u] = rest[u]
      BY <1>00, <3>1, <3>2 DEF TypeOK
    <3> QED BY <2>05, <3>2, <3>5, <3>8, <3>9, <3>10
  <2>3. CASE CreditPlayer(t)
    <3>1. PICK p \in rest[t] \cap d.roster :
            /\ credits' = [credits EXCEPT ![m][p] = OneMore(credits[m][p])]
            /\ rest' = [rest EXCEPT ![t] = rest[t] \ {p}]
      BY <2>3 DEF CreditPlayer
    <3>2. /\ pc[t] = "credit" /\ op[t] # "load" /\ Goto(t, "settle")
          /\ UNCHANGED <<cache, expiring, mongo, doc>>
      BY <2>3 DEF CreditPlayer
    <3>3. /\ State(d) = "Post" /\ m \notin expiring /\ rest[t] \cap Credited(m) = {}
          /\ cache[m] # NoDoc /\ State(cache[m]) = "Post" /\ cache[m].roster = Credited(m)
          /\ d.roster = Credited(m) \cup {p}
      <4>1. /\ State(d) = "Post" /\ m \notin expiring /\ rest[t] \cap Credited(m) = {}
            /\ cache[m] # NoDoc /\ State(cache[m]) = "Post" /\ cache[m].roster = Credited(m)
            /\ \E q \in rest[t] : d.roster = Credited(m) \cup {q}
        BY <3>2 DEF DataOK, SettleOK
      <4> QED BY <3>1, <4>1
    <3>4. p \in Player /\ credits[m][p] = 0
      BY <1>00, <3>1, <3>3 DEF TypeOK, Credited
    <3>5. credits'[m] = [credits[m] EXCEPT ![p] = 1]
      BY <1>00, <3>1, <3>4 DEF OneMore, TypeOK
    <3>6. Credited(m)' = d.roster /\ \A q \in Player : credits'[m][q] <= 1
      <4>1. \A q \in Player : credits'[m][q] = IF q = p THEN 1 ELSE credits[m][q]
        BY <1>00, <3>5 DEF TypeOK
      <4>2. Credited(m)' = Credited(m) \cup {p}
        BY <3>4, <4>1 DEF Credited
      <4> QED BY <3>3, <4>1, <4>2 DEF MatchOK
    <3>7. MatchOK(m)'
      BY <2>03, <3>2, <3>3, <3>6 DEF MatchOK, TrueTo, AtMostOne, Fresh, Loaded
    <3>8. pc'[t] = "settle" /\ rest'[t] = rest[t] \ {p} /\ op'[t] # "load"
      BY <1>00, <2>03, <3>1, <3>2 DEF Goto, TypeOK
    <3>9. DataOK(t, m)'
      <4>1. (rest[t] \ {p}) \cap d.roster = {}
        BY <3>3
      <4> QED BY <3>2, <3>3, <3>6, <3>8, <4>1
              DEF DataOK, LoadingOK, EditOK, SettleOK, EndOK, Loading
    <3>10. \A n \in MatchId \ {m} : SameStores(n)
      BY <1>00, <3>1, <3>2 DEF SameStores, TypeOK
    <3>11. \A u \in Task \ {t} : doc'[u] = doc[u] /\ rest'[u] = rest[u]
      BY <1>00, <3>1, <3>2 DEF TypeOK
    <3> QED BY <2>05, <3>2, <3>7, <3>9, <3>10, <3>11
  <2>4. CASE EverybodySettled(t)
    <3>1. /\ pc[t] = "settle" /\ op[t] # "load" /\ Goto(t, "persist")
          /\ UNCHANGED <<stores, memory>>
      BY <2>4 DEF EverybodySettled
    <3>2. TrueTo(m, d) /\ m \notin expiring /\ Credited(m)' = Credited(m)
      BY <3>1, SameCredited DEF DataOK, SettleOK, TrueTo, AtMostOne
    <3>3. pc'[t] = "persist"
      BY <1>00, <3>1 DEF Goto, TypeOK
    <3>4. DataOK(t, m)'
      BY <3>1, <3>2, <3>3 DEF DataOK, LoadingOK, EditOK, SettleOK, EndOK, Loading, TrueTo
    <3>5. MatchOK(m)' /\ \A n \in MatchId : SameStores(n)
      BY <2>03, <3>1, SameMatch, SameStoresAll
    <3> QED BY <2>05, <3>1, <3>4, <3>5
  <2>5. CASE Persist(t)
    <3>1. /\ pc[t] = "persist" /\ Goto(t, "cache") /\ mongo' = [mongo EXCEPT ![m] = d]
          /\ UNCHANGED <<redis, credits, memory>>
      BY <2>02, <2>5 DEF Persist
    <3>2. pc'[t] = "cache" /\ mongo'[m] = d /\ Credited(m)' = Credited(m)
      BY <1>00, <3>1, SameCredited DEF Goto, TypeOK
    <3>3. op[t] # "load" => d.ended
      BY <3>1 DEF SerialInv, RecordInv, RecordOK, LoadOK
    <3>4. op[t] = "load" => \A s \in Server : pointer[s] # m
      BY <1>00, <3>1 DEF SerialOK, HoldsOK, Loading
    <3>5. MatchOK(m)'
      <4>1. m \in expiring => cache[m] = d
        BY <3>1 DEF DataOK, LoadingOK, EndOK, Loading
      <4> QED BY <2>03, <2>04, <3>1, <3>2, <3>3, <3>4, <4>1 DEF MatchOK, TrueTo, Fresh, Loaded
    <3>6. DataOK(t, m)'
      BY <2>03, <3>1, <3>2 DEF DataOK, LoadingOK, EditOK, SettleOK, EndOK, Loading, TrueTo
    <3>7. \A n \in MatchId \ {m} : SameStores(n)
      BY <1>00, <3>1 DEF SameStores, TypeOK
    <3> QED BY <2>05, <3>1, <3>5, <3>6, <3>7
  <2>6. CASE CacheAfterPersist(t)
    <3> DEFINE at == IF op[t] = "load" THEN "point" ELSE "alive"
    <3>1. /\ pc[t] = "cache" /\ Goto(t, at) /\ cache' = [cache EXCEPT ![m] = d]
          /\ expiring' = IF op[t] # "load" THEN expiring \cup {m} ELSE expiring \ {m}
          /\ UNCHANGED <<mongo, credits, memory>>
      BY <2>01, <2>6 DEF CacheAfterPersist
    <3>2. pc'[t] = at /\ cache'[m] = d /\ Credited(m)' = Credited(m)
      BY <1>00, <3>1, SameCredited DEF Goto, TypeOK
    <3>3. /\ op[t] = "load" => d = NewMatch /\ Credited(m) = {} /\ mongo[m] = NewMatch
          /\ op[t] # "load" => TrueTo(m, d) /\ mongo[m] = d
      BY <3>1 DEF DataOK, LoadingOK, EndOK, Loading
    <3>4. MatchOK(m)'
      BY <2>03, <2>04, <3>1, <3>2, <3>3 DEF MatchOK, TrueTo, Fresh, Loaded
    <3>5. DataOK(t, m)'
      BY <2>03, <3>1, <3>2, <3>3 DEF DataOK, LoadingOK, EditOK, SettleOK, EndOK, Loading
    <3>6. \A n \in MatchId \ {m} : SameStores(n)
      BY <1>00, <3>1 DEF SameStores, TypeOK
    <3> QED BY <2>05, <3>1, <3>4, <3>5, <3>6
  <2> QED BY <1>5, <2>1, <2>2, <2>3, <2>4, <2>5, <2>6
<1>6. ASSUME NEW t \in Task, SetCurrentMatchId(t) PROVE SerialOK'
  <2> PICK m \in MatchId : /\ mid[t] = m /\ m # NoMatch /\ DataOK(t, m) /\ MatchOK(m)
    BY <1>6, Holder DEF SetCurrentMatchId
  <2>1. /\ pc[t] = "point" /\ pc' = [pc EXCEPT ![t] = "alive"]
        /\ pointer' = [pointer EXCEPT ![ServerOf[t]] = m]
        /\ UNCHANGED <<lastAlive, cache, expiring, mongo, credits, issued, memory>>
    BY <1>6, <1>00 DEF SetCurrentMatchId, Goto
  <2>2. op[t] = "load" /\ ServerOf[t] \in Server
    BY <2>1, TasksAssumption DEF SerialInv, RecordInv, RecordOK, LoadOK
  <2>3. (\A s \in Server : pointer[s] # m) /\ cache[m] = NewMatch /\ NewMatch # NoDoc
    BY <1>00, <2>1, <2>2, NoDocAssumption, NewMatchType
       DEF SerialOK, HoldsOK, Loading, DataOK, LoadingOK
  <2>4. \A s \in Server : pointer'[s] = IF s = ServerOf[t] THEN m ELSE pointer[s]
    BY <1>00, <2>1 DEF TypeOK
  <2>5. Alone'
    BY <1>00, <2>1, <2>3, <2>4 DEF SerialOK, Alone, TypeOK
  <2>6. ASSUME NEW n \in MatchId PROVE MatchOK(n)'
    <3>1. MatchOK(n) /\ Credited(n)' = Credited(n)
      BY <1>00, <2>1, SameCredited DEF SerialOK
    <3> QED BY <2>1, <2>3, <2>4, <3>1 DEF MatchOK, TrueTo, Fresh, Loaded
  <2>7. ASSUME NEW u \in Task PROVE HoldsOK(u)'
    <3>1. CASE u = t
      BY <1>00, <2>1, <2>2, <2>4, <3>1 DEF HoldsOK, Loading, TypeOK
    <3>2. CASE u # t
      <4>1. HoldsOK(u) /\ pc'[u] = pc[u] /\ op'[u] = op[u] /\ mid'[u] = mid[u]
        BY <1>00, <2>1, <3>2 DEF SerialOK, TypeOK
      <4>2. mid[u] # m
        BY <1>00, <3>2 DEF SerialOK, Alone
      <4>3. mid[u] # NoMatch => ServerOf[u] # ServerOf[t]
        BY <1>00, <2>1, <3>2, <4>1 DEF SerialOK, Alone, HoldsOK
      <4>4. ServerOf[u] \in Server
        BY TasksAssumption
      <4> QED BY <2>4, <4>1, <4>2, <4>3, <4>4 DEF HoldsOK, Loading
    <3> QED BY <3>1, <3>2
  <2>8. ASSUME NEW u \in Task, NEW n \in MatchId, mid'[u] = n PROVE DataOK(u, n)'
    <3>1. DataOK(u, n) /\ SameStores(n)
      BY <1>00, <2>1, <2>8 DEF SerialOK, SameStores
    <3>2. CASE u = t
      <4>1. pc'[t] = "alive"
        BY <1>00, <2>1 DEF TypeOK
      <4> QED BY <3>2, <4>1 DEF DataOK, LoadingOK, EditOK, SettleOK, EndOK, Loading
    <3>3. CASE u # t
      <4>1. pc'[u] = pc[u]
        BY <1>00, <2>1, <3>3 DEF TypeOK
      <4> QED BY <2>1, <3>1, <4>1, SameData
    <3> QED BY <3>2, <3>3
  <2> QED BY <2>5, <2>6, <2>7, <2>8 DEF SerialOK
<1>7. ASSUME NEW t \in Task, SetLastTimeAlive(t) \/ Die(t) PROVE SerialOK'
  BY <1>00, <1>7, SerialReturn DEF SetLastTimeAlive, Die, Panic
<1>8. ASSUME NEW m \in MatchId, Expire(m) PROVE SerialOK'
  <2>1. /\ m \in expiring /\ cache' = [cache EXCEPT ![m] = NoDoc] /\ expiring' = expiring \ {m}
        /\ UNCHANGED <<pointer, mongo, credits, issued, pc, memory>>
    BY <1>8 DEF Expire
  <2>2. cache[m] # NoDoc /\ mongo[m] = cache[m] /\ cache[m].ended /\ cache'[m] = NoDoc
    BY <1>00, <2>1 DEF SerialInv, RecordInv, RecordOK, OnlyEndedExpire, SerialOK, MatchOK, TypeOK
  <2>3. Alone' /\ \A u \in Task : HoldsOK(u)'
    BY <1>00, <2>1 DEF SerialOK, Alone, HoldsOK, Loading
  <2>4. ASSUME NEW n \in MatchId, n # m PROVE SameStores(n)
    BY <1>00, <2>1, <2>4 DEF SameStores, TypeOK
  <2>5. Credited(m)' = Credited(m)
    BY <2>1, SameCredited
  <2>6. ASSUME NEW n \in MatchId PROVE MatchOK(n)'
    <3>1. CASE n # m
      BY <1>00, <2>1, <2>4, <3>1, SameMatch DEF SerialOK
    <3>2. CASE n = m
      BY <1>00, <2>1, <2>2, <2>5, <3>2 DEF SerialOK, MatchOK, TrueTo, Fresh, Loaded
    <3> QED BY <3>1, <3>2
  <2>7. ASSUME NEW u \in Task, NEW n \in MatchId, mid'[u] = n PROVE DataOK(u, n)'
    <3>1. DataOK(u, n)
      BY <1>00, <2>1, <2>7 DEF SerialOK
    <3>2. CASE n # m
      BY <2>1, <2>4, <3>1, <3>2, SameData
    <3>3. CASE n = m
      <4>1. LoadingOK(u, m)'
        BY <2>1, <3>1, <3>3 DEF DataOK, LoadingOK, Loading
      <4>2. EditOK(u, m)'
        BY <2>1, <2>2, <2>5, <3>1, <3>3 DEF DataOK, EditOK, TrueTo
      <4>3. SettleOK(u, m)'
        BY <2>1, <3>1, <3>3 DEF DataOK, SettleOK
      <4>4. EndOK(u, m)'
        BY <2>1, <2>5, <3>1, <3>3 DEF DataOK, EndOK, TrueTo
      <4> QED BY <3>3, <4>1, <4>2, <4>3, <4>4 DEF DataOK
    <3> QED BY <3>2, <3>3
  <2> QED BY <2>3, <2>6, <2>7 DEF SerialOK
<1>9. CASE UNCHANGED vars
  <2>1. \A n \in MatchId : SameStores(n)
    BY <1>9, SameStoresAll DEF vars
  <2>2. UNCHANGED <<pointer, issued, pc, memory>>
    BY <1>9 DEF vars
  <2>3. Alone' /\ \A u \in Task : HoldsOK(u)'
    BY <1>00, <2>2 DEF SerialOK, Alone, HoldsOK, Loading
  <2> QED BY <1>00, <2>1, <2>2, <2>3, SameMatch, SameData DEF SerialOK
<1> QED
  BY <1>1, <1>2, <1>3, <1>4, <1>5, <1>6, <1>7, <1>8, <1>9 DEF Next, Receive, Step, Task

LEMMA SerialInvariant == Spec => []SerialInv
<1>1. Init => SerialInv
  BY TypeInit, RecordInit, SerialInit DEF SerialInv, RecordInv
<1> QED BY <1>1, SerialStep, PTL DEF Spec

LEMMA AtMostOneCounts ==
  ASSUME NEW S, AtMostOne(S)
  PROVE  Cardinality(S) <= 1
<1>1. CASE S = {}
  BY <1>1, FS_EmptySet
<1>2. ASSUME NEW a \in S PROVE Cardinality(S) <= 1
  <2>1. S = {a}
    BY <1>2 DEF AtMostOne
  <2>2. Cardinality(S) = 1
    BY <2>1, FS_Singleton
  <2> QED BY <2>2
<1> QED BY <1>1, <1>2

\* When a plugin waits and Redis answers, the result of a match is added to
\* each profile at most once and not before the match is over, however often
\* MatchEnd is sent and wherever its handler dies (on_match_end with the write
\* of MapRecordListener in its middle).
THEOREM ResultsAreCreditedSoundly == Spec => []CreditsSound
<1>1. SerialInv => CreditsSound
  BY DEF SerialInv, SerialOK, MatchOK, TrueTo, CreditsSound, CreditedOnce, CreditedWhenOver
<1> QED BY <1>1, SerialInvariant, PTL

\* And then a working copy, even one left by a match end that died, lists
\* nobody who was not credited and lacks at most one who was, and what Redis
\* may drop is what Mongo has (the order of the writes of set_with_expiry).
THEOREM WorkingCopiesAreSound == Spec => []WorkingCopySound
<1>1. ASSUME SerialInv, Serial, NEW m \in MatchId, cache[m] # NoDoc, Credited(m) # {}
      PROVE  /\ cache[m].roster \subseteq Credited(m)
             /\ Cardinality(Credited(m) \ cache[m].roster) <= 1
  BY <1>1, AtMostOneCounts DEF SerialInv, SerialOK, MatchOK, TrueTo
<1>2. ASSUME SerialInv, Serial, NEW m \in expiring PROVE cache[m] = mongo[m]
  BY <1>2 DEF SerialInv, RecordInv, TypeOK, SerialOK, MatchOK
<1>3. SerialInv => WorkingCopySound
  BY <1>1, <1>2 DEF WorkingCopySound, TornByAtMostOne, ExpiringIsRecorded
<1> QED BY <1>3, SerialInvariant, PTL

-----------------------------------------------------------------------------
(* The refinement of MatchPhases, step by step.                            *)

MovesOn(m) ==
  \/ PhaseOf(m)' = PhaseOf(m)
  \/ PhaseOf(m) = "Unloaded" /\ PhaseOf(m)' = "Pre"
  \/ PhaseOf(m) = "Pre" /\ PhaseOf(m)' = "InProgress"
  \/ PhaseOf(m) \in {"Pre", "InProgress"} /\ PhaseOf(m)' = "Post"

SettlesOne(m) ==
  /\ PhaseOf(m) = "Post" /\ PhaseOf(m)' = "Post"
  /\ \E p \in Player : /\ credits[m][p] = 0
                       /\ credits'[m] = [credits[m] EXCEPT ![p] = 1]

\* What a step may do to a match: nothing to the others, ...
Advances(m) ==
  /\ \A n \in MatchId \ {m} : SameStores(n)
  /\ (credits'[m] = credits[m] /\ MovesOn(m)) \/ SettlesOne(m)
  /\ /\ cache[m] # NoDoc /\ cache'[m] # NoDoc
     /\ State(cache[m]) = "InProgress" /\ State(cache'[m]) = "InProgress"
     => cache[m].roster \subseteq cache'[m].roster

LEMMA SamePhase ==
  ASSUME NEW m, SameStores(m)
  PROVE  PhaseOf(m)' = PhaseOf(m)
BY DEF SameStores, PhaseOf

LEMMA AdvanceStep ==
  ASSUME SerialInv, Serial, [Next]_vars
  PROVE  (\A m \in MatchId : SameStores(m)) \/ (\E m \in MatchId : Advances(m))
<1> DEFINE Fine == (\A m \in MatchId : SameStores(m)) \/ (\E m \in MatchId : Advances(m))
<1> SUFFICES Fine
  OBVIOUS
<1>0. TypeOK /\ SerialOK /\ mode.faulty = {}
  BY DEF SerialInv, RecordInv, Serial
<1>1. ASSUME NEW t \in Task, Receive(t) \/ Startup(t) PROVE Fine
  BY <1>1, SameStoresAll DEF Receive, OnMatchLoad, OnMessage, Startup
<1>2. ASSUME NEW t \in Task,
             \/ GetCurrentMatchId(t) \/ OnMatchStart(t) \/ OnMatchEnd(t)
             \/ OnPartyJoin(t) \/ OnMatchEvent(t) \/ OnStartupMatch(t)
             \/ EverybodySettled(t) \/ Die(t)
      PROVE  Fine
  <2>1. UNCHANGED stores
    BY <1>2 DEF GetCurrentMatchId, OnMatchStart, OnMatchEnd, OnPartyJoin, OnMatchEvent,
       OnStartupMatch, EverybodySettled, Die, Panic, Work, NothingToDo, ForceMatchEnd
  <2> QED BY <2>1, SameStoresAll
<1>3. ASSUME NEW t \in Task, SetCurrentMatchId(t) \/ SetLastTimeAlive(t) PROVE Fine
  BY <1>3 DEF SetCurrentMatchId, SetLastTimeAlive, SameStores
<1>4. ASSUME NEW t \in Task,
             \/ InterimWrite(t) \/ FinalWrite(t) \/ SettleParticipant(t) \/ CreditPlayer(t)
             \/ Persist(t) \/ CacheAfterPersist(t)
      PROVE  Fine
  <2>0. pc[t] \in {"interim", "final", "settle", "credit", "persist", "cache"}
    BY <1>4 DEF InterimWrite, FinalWrite, SettleParticipant, CreditPlayer, Persist, CacheAfterPersist
  <2> PICK m \in MatchId : /\ mid[t] = m /\ m # NoMatch /\ doc[t] \in Doc
                           /\ MatchOK(m) /\ DataOK(t, m)
                           /\ op[t] = "load" => pc[t] \in {"persist", "cache", "point"}
    BY <2>0, Holder
  <2> DEFINE d == doc[t]
  <2>1. \A e, px : CacheSet(m, e, px) =>
                /\ cache' = [cache EXCEPT ![m] = e]
                /\ expiring' = IF px THEN expiring \cup {m} ELSE expiring \ {m}
    BY <1>0 DEF CacheSet
  <2>2. \A e : MongoSave(m, e) => mongo' = [mongo EXCEPT ![m] = e]
    BY <1>0 DEF MongoSave
  <2>3. d # NoDoc
    BY NoDocAssumption
  <2>4. op[t] # "load" => Loaded(m)
    <3>1. op[t] # "load" => pointer[ServerOf[t]] = m
      BY <1>0 DEF SerialOK, HoldsOK, Loading
    <3> QED BY <3>1, TasksAssumption DEF MatchOK
  <2>5. CASE InterimWrite(t) \/ FinalWrite(t)
    <3>1. /\ pc[t] \in {"interim", "final"} /\ op[t] # "load"
          /\ cache' = [cache EXCEPT ![m] = d] /\ expiring' = expiring \ {m}
          /\ UNCHANGED <<mongo, credits>>
      BY <2>1, <2>5 DEF InterimWrite, FinalWrite
    <3>2. cache'[m] = d /\ EditOK(t, m) /\ Loaded(m)
      BY <1>0, <2>4, <3>1 DEF TypeOK, DataOK
    <3>3. MovesOn(m)
      BY <2>3, <3>1, <3>2 DEF EditOK, MovesOn, PhaseOf, State, Loaded
    <3>4. \A n \in MatchId \ {m} : SameStores(n)
      BY <1>0, <3>1 DEF SameStores, TypeOK
    <3>5. State(cache[m]) = "InProgress" /\ cache[m] # NoDoc => cache[m].roster \subseteq d.roster
      BY <3>1, <3>2 DEF EditOK
    <3> QED BY <3>1, <3>2, <3>3, <3>4, <3>5 DEF Advances
  <2>6. CASE SettleParticipant(t)
    <3>1. /\ pc[t] = "settle"
          /\ cache' = [cache EXCEPT ![m] = d] /\ expiring' = expiring \ {m}
          /\ UNCHANGED <<mongo, credits>>
      BY <2>1, <2>6 DEF SettleParticipant
    <3>2. cache'[m] = d /\ SettleOK(t, m)
      BY <1>0, <3>1 DEF TypeOK, DataOK
    <3>3. MovesOn(m) /\ State(cache'[m]) = "Post"
      BY <2>3, <3>1, <3>2 DEF SettleOK, MovesOn, PhaseOf, State
    <3>4. \A n \in MatchId \ {m} : SameStores(n)
      BY <1>0, <3>1 DEF SameStores, TypeOK
    <3> QED BY <3>1, <3>3, <3>4 DEF Advances
  <2>7. CASE CreditPlayer(t)
    <3>1. PICK p \in rest[t] \cap d.roster :
              credits' = [credits EXCEPT ![m][p] = OneMore(credits[m][p])]
      BY <2>7 DEF CreditPlayer
    <3>2. pc[t] = "credit" /\ UNCHANGED <<cache, expiring, mongo>>
      BY <2>7 DEF CreditPlayer
    <3>3. rest[t] \cap Credited(m) = {} /\ cache[m] # NoDoc /\ State(cache[m]) = "Post"
      BY <3>2 DEF DataOK, SettleOK
    <3>4. p \in Player /\ credits[m][p] = 0
      BY <1>0, <3>1, <3>3 DEF TypeOK, Credited
    <3>5. credits'[m] = [credits[m] EXCEPT ![p] = 1]
      BY <1>0, <3>1, <3>4 DEF OneMore, TypeOK
    <3>6. PhaseOf(m) = "Post" /\ PhaseOf(m)' = "Post"
      BY <3>2, <3>3 DEF PhaseOf, State
    <3>7. \A n \in MatchId \ {m} : SameStores(n)
      BY <1>0, <3>1, <3>2 DEF SameStores, TypeOK
    <3> QED BY <3>2, <3>4, <3>5, <3>6, <3>7 DEF Advances, SettlesOne
  <2>8. CASE Persist(t)
    <3>1. /\ pc[t] = "persist" /\ mongo' = [mongo EXCEPT ![m] = d] /\ UNCHANGED <<redis, credits>>
      BY <2>2, <2>8 DEF Persist
    <3>2. mongo'[m] = d
      BY <1>0, <3>1 DEF TypeOK
    <3>3. PhaseOf(m)' = PhaseOf(m)
      <4>1. CASE op[t] = "load"
        <5>1. cache[m] = NoDoc /\ mongo[m] = NoDoc /\ ~d.ended
          BY <3>1, <4>1 DEF DataOK, LoadingOK, Loading, NewMatch
        <5> QED BY <3>1, <3>2, <5>1 DEF PhaseOf
      <4>2. CASE op[t] # "load"
        <5>1. d.ended
          BY <3>1, <4>2 DEF SerialInv, RecordInv, RecordOK, LoadOK
        <5> QED BY <2>3, <2>4, <3>1, <3>2, <4>2, <5>1 DEF PhaseOf, Loaded
      <4> QED BY <4>1, <4>2
    <3>4. \A n \in MatchId \ {m} : SameStores(n)
      BY <1>0, <3>1 DEF SameStores, TypeOK
    <3> QED BY <3>1, <3>3, <3>4 DEF Advances, MovesOn
  <2>9. CASE CacheAfterPersist(t)
    <3>1. /\ pc[t] = "cache" /\ cache' = [cache EXCEPT ![m] = d]
          /\ expiring' = IF op[t] # "load" THEN expiring \cup {m} ELSE expiring \ {m}
          /\ UNCHANGED <<mongo, credits>>
      BY <2>1, <2>9 DEF CacheAfterPersist
    <3>2. cache'[m] = d
      BY <1>0, <3>1 DEF TypeOK
    <3>3. \A n \in MatchId \ {m} : SameStores(n)
      BY <1>0, <3>1 DEF SameStores, TypeOK
    <3>4. CASE op[t] = "load"
      <4>1. cache[m] = NoDoc /\ mongo[m] = NewMatch /\ d = NewMatch
        BY <3>1, <3>4 DEF DataOK, LoadingOK, Loading
      <4>2. MovesOn(m)
        BY <2>3, <3>1, <3>2, <4>1 DEF MovesOn, PhaseOf, State, NewMatch
      <4> QED BY <3>1, <3>3, <4>1, <4>2 DEF Advances
    <3>5. CASE op[t] # "load"
      <4>1. d.ended /\ mongo[m] = d
        BY <3>1, <3>5 DEF SerialInv, RecordInv, RecordOK, LoadOK, DataOK, EndOK
      <4>2. MovesOn(m) /\ State(cache'[m]) # "InProgress"
        BY <2>3, <3>1, <3>2, <4>1 DEF MovesOn, PhaseOf, State
      <4> QED BY <3>1, <3>3, <4>2 DEF Advances
    <3> QED BY <3>4, <3>5
  <2> QED BY <1>4, <2>5, <2>6, <2>7, <2>8, <2>9
<1>5. ASSUME NEW m \in MatchId, Expire(m) PROVE Fine
  <2>1. /\ m \in expiring /\ cache' = [cache EXCEPT ![m] = NoDoc] /\ expiring' = expiring \ {m}
        /\ UNCHANGED <<mongo, credits>>
    BY <1>5 DEF Expire
  <2>2. cache[m] # NoDoc /\ mongo[m] = cache[m] /\ cache[m].ended /\ cache'[m] = NoDoc
    BY <1>0, <2>1 DEF SerialInv, RecordInv, RecordOK, OnlyEndedExpire, SerialOK, MatchOK, TypeOK
  <2>3. \A n \in MatchId \ {m} : SameStores(n)
    BY <1>0, <2>1 DEF SameStores, TypeOK
  <2>4. PhaseOf(m)' = PhaseOf(m)
    BY <2>1, <2>2 DEF PhaseOf
  <2> QED BY <2>1, <2>2, <2>3, <2>4 DEF Advances, MovesOn
<1>6. CASE UNCHANGED vars
  BY <1>6, SameStoresAll DEF vars
<1> QED BY <1>1, <1>2, <1>3, <1>4, <1>5, <1>6 DEF Next, Step, Task

\* While a match is in progress, and its server's tasks come one at a time, no
\* write takes a participant out of its working copy: each is of the copy that
\* was read, with more in it.
THEOREM RostersOnlyGrow == Spec => RosterGrows
<1> DEFINE Grows == Serial => \A m \in MatchId :
                      /\ cache[m] # NoDoc /\ cache'[m] # NoDoc
                      /\ State(cache[m]) = "InProgress" /\ State(cache'[m]) = "InProgress"
                      => cache[m].roster \subseteq cache'[m].roster
<1>1. ASSUME SerialInv, [Next]_vars, Serial, NEW m \in MatchId,
             cache[m] # NoDoc, cache'[m] # NoDoc,
             State(cache[m]) = "InProgress", State(cache'[m]) = "InProgress"
      PROVE  cache[m].roster \subseteq cache'[m].roster
  BY <1>1, AdvanceStep DEF Advances, SameStores
<1>2. SerialInv /\ [Next]_vars => [Grows]_cache
  BY <1>1
<1> QED BY <1>2, SerialInvariant, PTL DEF Spec, RosterGrows

\* The stores, seen through PhaseOf, behave as MatchPhases: with a plugin that
\* waits and stores that answer, matches only move forward, and each player is
\* settled at most once, after the end, whatever handlers die on the way and
\* whatever expires.
THEOREM PhasesAreImplemented == Spec => ImplementsPhases
<1>1. Init => Phases!Init
  <2>1. ASSUME Init, NEW m \in MatchId PROVE PhaseOf(m) = "Unloaded"
    BY <2>1 DEF Init, PhaseOf
  <2> QED BY <2>1 DEF Init, Phases!Init
<1>2. SerialInv /\ [Next]_vars => [Phases!Next]_(Phases!absVars)
  <2> SUFFICES ASSUME SerialInv, [Next]_vars PROVE [Phases!Next]_(Phases!absVars)
    OBVIOUS
  <2>0. Serial' = Serial
    BY SameMode DEF Serial
  <2>1. CASE ~Serial
    BY <2>0, <2>1 DEF Phases!absVars
  <2>2. CASE Serial
    <3>1. CASE \A m \in MatchId : SameStores(m)
      <4>1. \A m \in MatchId : PhaseOf(m)' = PhaseOf(m) /\ credits'[m] = credits[m]
        BY <3>1, SamePhase DEF SameStores
      <4> QED BY <2>0, <2>2, <4>1 DEF Phases!absVars
    <3>2. ASSUME NEW m \in MatchId, Advances(m) PROVE [Phases!Next]_(Phases!absVars)
      <4>1. \A n \in MatchId \ {m} : PhaseOf(n)' = PhaseOf(n) /\ credits'[n] = credits[n]
        BY <3>2, SamePhase DEF Advances, SameStores
      <4>2. CASE credits'[m] = credits[m] /\ MovesOn(m)
        BY <2>0, <2>2, <4>1, <4>2
           DEF MovesOn, Phases!absVars, Phases!Next, Phases!Load, Phases!Start, Phases!Finish, Phases!Move
      <4>3. CASE SettlesOne(m)
        <5>1. PICK p \in Player : /\ credits[m][p] = 0
                                  /\ credits'[m] = [credits[m] EXCEPT ![p] = 1]
          BY <4>3 DEF SettlesOne
        <5>2. \A n \in MatchId : PhaseOf(n)' = PhaseOf(n)
          BY <4>1, <4>3 DEF SettlesOne
        <5>3. \A n \in MatchId, q \in Player :
                credits'[n][q] = IF n = m /\ q = p THEN 1 ELSE credits[n][q]
          BY <4>1, <5>1 DEF SerialInv, RecordInv, TypeOK
        <5> DEFINE settled == [n \in MatchId |-> [q \in Player |-> credits[n][q]]]
                   later == [n \in MatchId |-> [q \in Player |-> credits'[n][q]]]
        <5>4. later = [settled EXCEPT ![m][p] = 1]
          <6>1. \A n \in MatchId : later[n] = [settled EXCEPT ![m][p] = 1][n]
            BY <5>3
          <6> QED BY <6>1
        <5>5. Phases!Settle(m, p)
          BY <2>0, <2>2, <4>3, <5>1, <5>2, <5>4 DEF SettlesOne, Phases!Settle
        <5> QED BY <5>5 DEF Phases!Next
      <4> QED BY <3>2, <4>2, <4>3 DEF Advances
    <3> QED BY <2>2, <3>1, <3>2, AdvanceStep
  <2> QED BY <2>1, <2>2
<1> QED BY <1>1, <1>2, SerialInvariant, PTL DEF Spec, ImplementsPhases, Phases!Spec
=============================================================================

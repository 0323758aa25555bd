--------------------------- MODULE MatchLifecycle ---------------------------
(***************************************************************************)
(* The life of a match, from MatchLoad to MatchEnd, as the API processes   *)
(* it.  A match document lives in two stores: Redis (the working copy,     *)
(* key match:<id>) and Mongo (the record).  Nothing locks either of them:  *)
(* a handler GETs the document, changes its own copy across many awaits    *)
(* and SETs it back.  The tasks are                                        *)
(*   - one per websocket connection (accept_connection), which handles the *)
(*     messages of its server one after the other (SocketRouter), and      *)
(*   - one per HTTP request POST /mc/servers/<id>/startup.                 *)
(* An action is one step of a task from an await to the next.              *)
(*                                                                         *)
(* A document is abstracted to the two timestamps that get_state looks at  *)
(* (present or not) and to the set of its participants.  Statistics, map   *)
(* records, goals and parties are not represented; the profile of a player *)
(* is represented by what MatchEnd adds to it, once per match.             *)
(***************************************************************************)
EXTENDS Naturals, FiniteSets

CONSTANTS
  Server,      \* the Minecraft servers
  Conn,        \* websocket connection tasks
  Boot,        \* startup request tasks
  ServerOf,    \* ServerOf[t]: the server that task t works for
  MatchId,     \* the ids a match may be given (bounds the matches loaded)
  Player,      \* the players
  NoMatch,     \* the answer to GET when current_match_id is not set
  NoDoc,       \* the answer to GET when a match document is not there
  Modes        \* what a behaviour may be like, see Mode

Task == Conn \cup Boot
Doc == [started : BOOLEAN, ended : BOOLEAN, roster : SUBSET Player]

ASSUME TasksAssumption == /\ Conn \cap Boot = {}
                          /\ ServerOf \in [Task -> Server]
ASSUME NoMatchAssumption == NoMatch \notin MatchId
ASSUME NoDocAssumption == NoDoc \notin Doc

VARIABLES
  mode,        \* the mode of this behaviour: it never changes
  \* Redis
  pointer,     \* pointer[s]: server:<s>:current_match_id, or NoMatch
  lastAlive,   \* lastAlive[s]: is server:<s>:last_alive_time set?
  cache,       \* cache[m]: match:<m>, or NoDoc
  expiring,    \* the matches whose key match:<m> has a time to live
  \* Mongo
  mongo,       \* mongo[m]: the document in the collection matches, or NoDoc
  \* Redis and Mongo
  credits,     \* credits[m][p]: how often p's profile was given m's result
  \* ids given out by Uuid::new_v4
  issued,
  \* the tasks' memory
  pc,          \* pc[t]: the await that task t is at
  op,          \* op[t]: the event or request it is handling
  mid,         \* mid[t]: the id of the match it is working on
  doc,         \* doc[t]: its copy of the document (current_match)
  rest         \* rest[t]: participants that on_match_end has yet to credit

redis == <<pointer, lastAlive, cache, expiring>>
stores == <<redis, mongo, credits>>
memory == <<op, mid, doc, rest>>
vars == <<mode, stores, issued, pc, memory>>

-----------------------------------------------------------------------------
(* The events, by how their handlers treat the match they read.            *)

\* Handlers that answer InvalidMatchState unless the match is InProgress and
\* unwrap the participant they are about: killstreak, damage, pickup, drop
\* and defend of a goal, control point, party leave; "kill" also lets
\* MapRecordListener write the match on its way (on_player_death,
\* on_killstreak).
CheckedOps == {"kill", "checked"}
\* Handlers that never look at the state: flag and wool capture ("place",
\* with MapRecordListener's write), core leak, destroyable destroyed, flag
\* drop and chat.
UncheckedOps == {"place", "leak", "destroy", "drop", "chat"}
RecordOps == {"kill", "place"}
UnwrapOps == {"kill", "checked", "place", "leak"}
\* Handlers that may get to the end without any participant, because they
\* skip those they do not find or because their list of players is empty
\* (core leak and, among the checked ones, control point capture).
OptionalOps == {"destroy", "chat", "leak", "checked"}
TouchOps == CheckedOps \cup UncheckedOps
SocketOps == {"load", "start", "end", "join"} \cup TouchOps
Op == SocketOps \cup {"startup", "none"}

\* Who plays which matches, and what a connection receives (bounds of a
\* behaviour); may two tasks of one server be busy at the same time?; may a
\* task vanish at an await (panic, crash of the API)?; and the stores whose
\* operations may fail, silently.
Mode == [players : SUBSET Player, matches : SUBSET MatchId, events : SUBSET SocketOps,
         overlap : BOOLEAN, mayDie : BOOLEAN, faulty : SUBSET {"redis", "mongo"}]

ASSUME ModeAssumption == Modes \subseteq Mode

\* A plugin that waits for its answers, and stores that give them
Serial == ~mode.overlap /\ mode.faulty = {}

Pc == {"idle", "pointer", "match", "interim", "final", "settle", "credit",
       "persist", "cache", "point", "alive"}

\* Match::get_state
State(d) == IF ~d.started THEN "Pre"
            ELSE IF ~d.ended THEN "InProgress"
            ELSE "Post"

NewMatch == [started |-> FALSE, ended |-> FALSE, roster |-> {}]

\* What handlers do to their copy: Match::save_participants, and the setting
\* of started_at and ended_at.
SaveParticipants(d, ps) == [d EXCEPT !.roster = @ \cup ps]
Started(d) == [d EXCEPT !.started = TRUE]
Ended(d) == [d EXCEPT !.ended = TRUE]
\* the participants are moved out of the match (HashMap::new takes their place)
Emptied(d) == [d EXCEPT !.roster = {}]

-----------------------------------------------------------------------------
(* The stores.  Every error of Redis and of Mongo is dropped by the code:  *)
(* a failed read is an absent value, a failed write is no write.           *)

\* RedisAdapter::get_unchecked, or get(..).ok()
RedisGet(value, absent) == {value} \cup (IF "redis" \in mode.faulty THEN {absent} ELSE {})

\* Cache::set_with_expiry without persist: SET, or PSETEX when px
CacheSet(m, d, px) ==
  \/ /\ cache' = [cache EXCEPT ![m] = d]
     /\ expiring' = IF px THEN expiring \cup {m} ELSE expiring \ {m}
  \/ "redis" \in mode.faulty /\ UNCHANGED <<cache, expiring>>

\* Database::save of a match: update_one with upsert and $set of every field
MongoSave(m, d) ==
  \/ mongo' = [mongo EXCEPT ![m] = d]
  \/ "mongo" \in mode.faulty /\ UNCHANGED mongo

-----------------------------------------------------------------------------
(* Tasks.                                                                  *)

Goto(t, at) == pc' = [pc EXCEPT ![t] = at]

\* The task forgets its match and waits for its next message or request.
Return(t) ==
  /\ Goto(t, "idle")
  /\ op' = [op EXCEPT ![t] = "none"]
  /\ mid' = [mid EXCEPT ![t] = NoMatch]
  /\ doc' = [doc EXCEPT ![t] = NoDoc]
  /\ rest' = [rest EXCEPT ![t] = {}]

\* Mutant of MayBegin: a connection spawns a task for every message.
MayBeginAtOnce(t) == pc[t] = "idle"

\* A plugin that runs one process per server and waits for its last message
\* to be handled before it calls startup never has two tasks busy.  The API
\* itself lets it happen: mode.overlap drops the restriction.
MayBegin(t) ==
  /\ pc[t] = "idle"
  /\ mode.overlap \/ \A u \in Task : ServerOf[u] = ServerOf[t] => pc[u] = "idle"

\* Mutant of OnMatchLoad: the new match is cached with persist = false.
OnMatchLoadUnsaved(t) ==
  /\ MayBegin(t)
  /\ op' = [op EXCEPT ![t] = "load"]
  /\ \E m \in mode.matches \ issued :
       /\ issued' = issued \cup {m}
       /\ mid' = [mid EXCEPT ![t] = m]
       /\ doc' = [doc EXCEPT ![t] = NewMatch]
       /\ Goto(t, "cache")
  /\ UNCHANGED <<stores, rest>>

\* MatchPhaseListener::on_load, up to its first write.  A map that Mongo does
\* not know is answered ForceMatchEnd (the first disjunct).
OnMatchLoad(t) ==
  /\ MayBegin(t)
  /\ op' = [op EXCEPT ![t] = "load"]
  /\ \/ Goto(t, "alive") /\ UNCHANGED <<issued, mid, doc>>
     \/ \E m \in mode.matches \ issued :
          /\ issued' = issued \cup {m}
          /\ mid' = [mid EXCEPT ![t] = m]
          /\ doc' = [doc EXCEPT ![t] = NewMatch]
          /\ Goto(t, "persist")
  /\ UNCHANGED <<stores, rest>>

\* Any other event: the handler calls ServerContext::get_match.
OnMessage(t, o) ==
  /\ MayBegin(t)
  /\ op' = [op EXCEPT ![t] = o]
  /\ Goto(t, "pointer")
  /\ UNCHANGED <<stores, issued, mid, doc, rest>>

\* server_startup: a server that was never alive is marked alive, no more.
Startup(t) ==
  /\ MayBegin(t)
  /\ op' = [op EXCEPT ![t] = "startup"]
  /\ \E seen \in RedisGet(lastAlive[ServerOf[t]], FALSE) :
       Goto(t, IF seen THEN "pointer" ELSE "alive")
  /\ UNCHANGED <<stores, issued, mid, doc, rest>>

\* Mutant of GetCurrentMatchId: the answer is not looked at.
GetCurrentMatchIdUnchecked(t) ==
  /\ pc[t] = "pointer"
  /\ Goto(t, "match")
  /\ mid' = [mid EXCEPT ![t] = pointer[ServerOf[t]]]
  /\ UNCHANGED <<stores, issued, op, doc, rest>>

\* get_current_match_id.  Without an id the handler GETs match:null, which
\* is never set, and answers ForceMatchEnd; startup returns at once.
GetCurrentMatchId(t) ==
  /\ pc[t] = "pointer"
  /\ \E m \in RedisGet(pointer[ServerOf[t]], NoMatch) :
       IF m # NoMatch
       THEN /\ Goto(t, "match")
            /\ mid' = [mid EXCEPT ![t] = m]
            /\ UNCHANGED <<op, doc, rest>>
       ELSE IF op[t] = "startup"
            THEN Return(t)
            ELSE Goto(t, "alive") /\ UNCHANGED memory
  /\ UNCHANGED <<stores, issued>>

-----------------------------------------------------------------------------
(* What each handler does with the document that GET match:<id> returns,   *)
(* up to its next await.                                                   *)

InState(d, state) == d # NoDoc /\ State(d) = state

Fetched(t) == RedisGet(cache[mid[t]], NoDoc)

\* The handler goes on with document d in its hands.
Work(t, d, at) ==
  /\ Goto(t, at)
  /\ doc' = [doc EXCEPT ![t] = d]
  /\ UNCHANGED <<stores, issued, op, mid, rest>>

\* The handler returns without a write.
NothingToDo(t) ==
  /\ Goto(t, "alive")
  /\ UNCHANGED <<stores, issued, memory>>

\* SocketError::InvalidMatchState: route sends ForceMatchEnd to the plugin;
\* no store is touched and the message counts as handled.
ForceMatchEnd(t) == NothingToDo(t)

\* A panic unwinds the connection task: nothing more of the message is done,
\* last_alive_time included, and the plugin has to connect again.
Panic(t) == Return(t) /\ UNCHANGED <<stores, issued>>

\* on_match_start: the participants of the message join those of the match.
OnMatchStart(t) ==
  /\ pc[t] = "match" /\ op[t] = "start"
  /\ \E d \in Fetched(t) :
       IF InState(d, "Pre")
       THEN \E joining \in SUBSET mode.players :
              Work(t, SaveParticipants(Started(d), joining), "final")
       ELSE ForceMatchEnd(t)

\* Mutant of OnMatchEnd: the state of the match is not checked.
OnMatchEndAnyState(t) ==
  /\ pc[t] = "match" /\ op[t] = "end"
  /\ \E d \in Fetched(t) :
       IF d # NoDoc
       THEN /\ Goto(t, "settle")
            /\ doc' = [doc EXCEPT ![t] = Emptied(Ended(d))]
            /\ rest' = [rest EXCEPT ![t] = d.roster]
            /\ UNCHANGED <<stores, issued, op, mid>>
       ELSE ForceMatchEnd(t)

\* on_match_end: ended_at is set and the participants are moved out, to be
\* put back one by one.
OnMatchEnd(t) ==
  /\ pc[t] = "match" /\ op[t] = "end"
  /\ \E d \in Fetched(t) :
       IF InState(d, "InProgress")
       THEN /\ Goto(t, "settle")
            /\ doc' = [doc EXCEPT ![t] = Emptied(Ended(d))]
            /\ rest' = [rest EXCEPT ![t] = d.roster]
            /\ UNCHANGED <<stores, issued, op, mid>>
       ELSE ForceMatchEnd(t)

\* on_party_join: a player the match does not know becomes a participant.
OnPartyJoin(t) ==
  /\ pc[t] = "match" /\ op[t] = "join"
  /\ \E d \in Fetched(t) :
       IF InState(d, "InProgress")
       THEN \E p \in mode.players : Work(t, SaveParticipants(d, {p}), "final")
       ELSE ForceMatchEnd(t)

\* The handlers of everything that happens during a match, about player p:
\* write the match back, panic on an unwrap (of the participant, or in
\* party leave of a joined_party_at that an earlier leave has cleared), or
\* return early: a flag dropped by a stranger, a chat line of a player that
\* nobody knows, damage to a goal the map does not list.
OnMatchEvent(t) ==
  /\ pc[t] = "match" /\ op[t] \in TouchOps
  /\ \E d \in Fetched(t) :
       IF d = NoDoc \/ (op[t] \in CheckedOps /\ ~InState(d, "InProgress"))
       THEN ForceMatchEnd(t)
       ELSE \E p \in mode.players :
              \/ /\ p \in d.roster \/ op[t] \in OptionalOps
                 /\ Work(t, d, IF op[t] \in RecordOps THEN "interim" ELSE "final")
              \/ /\ op[t] \in UnwrapOps
                 /\ p \notin d.roster \/ op[t] = "checked"
                 /\ Panic(t)
              \/ /\ op[t] \in {"chat", "checked"} \/ (op[t] = "drop" /\ p \notin d.roster)
                 /\ NothingToDo(t)

\* server_startup: whatever the state of the match, it has now ended.
OnStartupMatch(t) ==
  /\ pc[t] = "match" /\ op[t] = "startup"
  /\ \E d \in Fetched(t) :
       IF d # NoDoc THEN Work(t, Ended(d), "persist")
       ELSE NothingToDo(t)

-----------------------------------------------------------------------------
(* Writing back.                                                           *)

\* MapRecordListener's write in the middle of a kill or a capture.  What may
\* follow instead of the final write, a panic on a victim who is no participant,
\* is one of the deaths of Die.
InterimWrite(t) ==
  /\ pc[t] = "interim"
  /\ CacheSet(mid[t], doc[t], FALSE)
  /\ Goto(t, "final")
  /\ UNCHANGED <<pointer, lastAlive, mongo, credits, issued, memory>>

\* Mutant of FinalWrite: every handler persists the match.
FinalWritePersists(t) ==
  /\ pc[t] = "final"
  /\ MongoSave(mid[t], doc[t])
  /\ CacheSet(mid[t], doc[t], FALSE)
  /\ Goto(t, "alive")
  /\ UNCHANGED <<pointer, lastAlive, credits, issued, memory>>

\* match_cache.set(.., false) at the end of a handler
FinalWrite(t) ==
  /\ pc[t] = "final"
  /\ CacheSet(mid[t], doc[t], FALSE)
  /\ Goto(t, "alive")
  /\ UNCHANGED <<pointer, lastAlive, mongo, credits, issued, memory>>

\* Mutant of SettleParticipant: no listener writes the match on the way.
SettleParticipantUnwritten(t) ==
  /\ pc[t] = "settle"
  /\ \E p \in rest[t] : doc' = [doc EXCEPT ![t] = SaveParticipants(@, {p})]
  /\ Goto(t, "credit")
  /\ UNCHANGED <<stores, issued, op, mid, rest>>

\* Mutant of SettleParticipant: put back first, listeners second.
SettleParticipantPutBackFirst(t) ==
  /\ pc[t] = "settle"
  /\ \E p \in rest[t] : doc' = [doc EXCEPT ![t] = SaveParticipants(@, {p})]
  /\ CacheSet(mid[t], doc'[t], FALSE)
  /\ Goto(t, "credit")
  /\ UNCHANGED <<pointer, lastAlive, mongo, credits, issued, op, mid, rest>>

\* on_match_end, one participant, in the order of a HashMap: the listeners
\* of the participant run first, and MapRecordListener writes the match, with
\* the participants put back so far; then the participant is put back.
SettleParticipant(t) ==
  /\ pc[t] = "settle"
  /\ \E p \in rest[t] : doc' = [doc EXCEPT ![t] = SaveParticipants(@, {p})]
  /\ CacheSet(mid[t], doc[t], FALSE)
  /\ Goto(t, "credit")
  /\ UNCHANGED <<pointer, lastAlive, mongo, credits, issued, op, mid, rest>>

\* 0, 1 and 2 stand for never, once and more than once.
OneMore(n) == IF n = 2 THEN 2 ELSE n + 1

\* on_match_end, the same participant (the one put back but still in rest):
\* its player is read, the player listeners add the result of the match, and
\* set_player stores the profile.
CreditPlayer(t) ==
  /\ pc[t] = "credit"
  /\ \E p \in rest[t] \cap doc[t].roster :
       /\ credits' = [credits EXCEPT ![mid[t]][p] = OneMore(@)]
       /\ rest' = [rest EXCEPT ![t] = @ \ {p}]
  /\ Goto(t, "settle")
  /\ UNCHANGED <<redis, mongo, issued, op, mid, doc>>

\* Mutant of EverybodySettled: the ended match is cached with persist = false.
EverybodySettledUnsaved(t) ==
  /\ pc[t] = "settle" /\ rest[t] = {}
  /\ Goto(t, "cache")
  /\ UNCHANGED <<stores, issued, memory>>

\* on_match_end: no participant is left; profiles and level are saved.
EverybodySettled(t) ==
  /\ pc[t] = "settle" /\ rest[t] = {}
  /\ Goto(t, "persist")
  /\ UNCHANGED <<stores, issued, memory>>

\* Cache::set_with_expiry with persist: Mongo first, ...
Persist(t) ==
  /\ pc[t] = "persist"
  /\ MongoSave(mid[t], doc[t])
  /\ Goto(t, "cache")
  /\ UNCHANGED <<redis, credits, issued, memory>>

\* Mutant of CacheAfterPersist: a loaded match gets the hour of an ended one.
CacheAfterPersistExpires(t) ==
  /\ pc[t] = "cache"
  /\ CacheSet(mid[t], doc[t], TRUE)
  /\ Goto(t, IF op[t] = "load" THEN "point" ELSE "alive")
  /\ UNCHANGED <<pointer, lastAlive, mongo, credits, issued, memory>>

\* ... then Redis, with the expiry that the end of a match gives (an hour)
\* and its load does not.
CacheAfterPersist(t) ==
  /\ pc[t] = "cache"
  /\ CacheSet(mid[t], doc[t], op[t] # "load")
  /\ Goto(t, IF op[t] = "load" THEN "point" ELSE "alive")
  /\ UNCHANGED <<pointer, lastAlive, mongo, credits, issued, memory>>

\* set_current_match_id, the last step of a load
SetCurrentMatchId(t) ==
  /\ pc[t] = "point"
  /\ \/ pointer' = [pointer EXCEPT ![ServerOf[t]] = mid[t]]
     \/ "redis" \in mode.faulty /\ UNCHANGED pointer
  /\ Goto(t, "alive")
  /\ UNCHANGED <<lastAlive, cache, expiring, mongo, credits, issued, memory>>

\* set_last_time_alive, after every message and at the end of startup
SetLastTimeAlive(t) ==
  /\ pc[t] = "alive"
  /\ \/ lastAlive' = [lastAlive EXCEPT ![ServerOf[t]] = TRUE]
     \/ "redis" \in mode.faulty /\ UNCHANGED lastAlive
  /\ Return(t)
  /\ UNCHANGED <<pointer, cache, expiring, mongo, credits, issued>>

-----------------------------------------------------------------------------
(* The environment.                                                        *)

\* A panic in a listener, a cancelled request or a crash of the API (which
\* is every task dying before any other step).  The stores stay.
Die(t) ==
  /\ mode.mayDie /\ pc[t] # "idle"
  /\ Panic(t)

\* Redis drops a key whose time has run out.
Expire(m) ==
  /\ m \in expiring
  /\ cache' = [cache EXCEPT ![m] = NoDoc]
  /\ expiring' = expiring \ {m}
  /\ UNCHANGED <<pointer, lastAlive, mongo, credits, issued, pc, memory>>

-----------------------------------------------------------------------------
Init ==
  /\ mode \in Modes
  /\ pointer = [s \in Server |-> NoMatch]
  /\ lastAlive = [s \in Server |-> FALSE]
  /\ cache = [m \in MatchId |-> NoDoc]
  /\ expiring = {}
  /\ mongo = [m \in MatchId |-> NoDoc]
  /\ credits = [m \in MatchId |-> [p \in Player |-> 0]]
  /\ issued = {}
  /\ pc = [t \in Task |-> "idle"]
  /\ op = [t \in Task |-> "none"]
  /\ mid = [t \in Task |-> NoMatch]
  /\ doc = [t \in Task |-> NoDoc]
  /\ rest = [t \in Task |-> {}]

\* accept_connection reads a frame, SocketRouter::route picks the handler.
Receive(t) == \/ "load" \in mode.events /\ OnMatchLoad(t)
              \/ \E o \in mode.events \ {"load"} : OnMessage(t, o)

\* One step of a task that is handling a message or a request.
Step(t) ==
  \/ GetCurrentMatchId(t)
  \/ OnMatchStart(t) \/ OnMatchEnd(t) \/ OnPartyJoin(t) \/ OnMatchEvent(t)
  \/ OnStartupMatch(t)
  \/ InterimWrite(t) \/ FinalWrite(t)
  \/ SettleParticipant(t) \/ CreditPlayer(t) \/ EverybodySettled(t)
  \/ Persist(t) \/ CacheAfterPersist(t) \/ SetCurrentMatchId(t)
  \/ SetLastTimeAlive(t)

Next ==
  /\ \/ \E t \in Conn : Receive(t)
     \/ \E t \in Boot : Startup(t)
     \/ \E t \in Task : Step(t) \/ Die(t)
     \/ \E m \in MatchId : Expire(m)
  /\ UNCHANGED mode

Spec == Init /\ [][Next]_vars

\* tokio polls every task that is ready and both drivers answer or time out,
\* so a handler that has begun goes on.  Nothing makes a plugin send.
FairSpec == Spec /\ \A t \in Task : WF_vars(Step(t) /\ UNCHANGED mode)

-----------------------------------------------------------------------------
(* Properties.                                                             *)

\* A task that has read its match works on a document of an issued match,
\* and owes credits only inside on_match_end.
TaskTypeOK(t) ==
  /\ pc[t] \in Pc
  /\ op[t] \in Op
  /\ mid[t] \in issued \cup {NoMatch}
  /\ doc[t] \in Doc \cup {NoDoc}
  /\ rest[t] \in SUBSET Player
  /\ pc[t] \notin {"idle", "pointer", "alive"} => mid[t] # NoMatch
  /\ pc[t] \notin {"idle", "pointer", "match", "alive"} => doc[t] # NoDoc

\* The type of every variable, and what a task at an await holds in memory.
TypeOK ==
  /\ mode \in Modes
  /\ pointer \in [Server -> issued \cup {NoMatch}]
  /\ lastAlive \in [Server -> BOOLEAN]
  /\ cache \in [MatchId -> Doc \cup {NoDoc}]
  /\ expiring \subseteq {m \in MatchId : cache[m] # NoDoc}
  /\ mongo \in [MatchId -> Doc \cup {NoDoc}]
  /\ credits \in [MatchId -> [Player -> 0..2]]
  /\ issued \subseteq MatchId
  /\ pc \in [Task -> Pc]
  /\ op \in [Task -> Op]
  /\ mid \in [Task -> MatchId \cup {NoMatch}]
  /\ doc \in [Task -> Doc \cup {NoDoc}]
  /\ rest \in [Task -> SUBSET Player]
  /\ \A t \in Task : TaskTypeOK(t)

Credited(m) == {p \in Player : credits[m][p] > 0}

\* The result of a match is added to a player's profile at most once, however
\* often MatchEnd is sent and wherever its handler dies: the write in the
\* middle of on_match_end (MapRecordListener) marks the match as ended before
\* the first profile is touched, so the next MatchEnd is turned away.
CreditedOnce == Serial => \A m \in MatchId, p \in Player : credits[m][p] <= 1

\* Nobody gets the result of a match that can still be played: once a profile
\* has it, the working copy says ended, or has expired.
CreditedWhenOver ==
  Serial =>
    \A m \in MatchId : Credited(m) # {} => cache[m] = NoDoc \/ State(cache[m]) = "Post"

\* Results are credited soundly: once for each player, and only when the match
\* is over.
CreditsSound == CreditedOnce /\ CreditedWhenOver

\* A match end that dies half way leaves a working copy (which startup may
\* later record) that lists only players who were credited, and lacks at most
\* one of those: the participants it had not come to are in neither place.
TornByAtMostOne ==
  Serial =>
    \A m \in MatchId :
      cache[m] # NoDoc /\ Credited(m) # {} =>
        /\ cache[m].roster \subseteq Credited(m)
        /\ Cardinality(Credited(m) \ cache[m].roster) <= 1

\* What Redis may drop, Mongo has: a document is given a time to live only
\* after the same document was saved, and whoever changes it later takes the
\* time to live away.
ExpiringIsRecorded == Serial => \A m \in expiring : cache[m] = mongo[m]

\* What a match end leaves in Redis, whole or torn, can be trusted: it agrees
\* with the credits, and with Mongo once it may expire.
WorkingCopySound == TornByAtMostOne /\ ExpiringIsRecorded

\* While a match is in progress no participant is lost from its working copy,
\* whatever handlers write it back.
RosterGrows ==
  [][Serial => \A m \in MatchId :
       /\ cache[m] # NoDoc /\ cache'[m] # NoDoc
       /\ State(cache[m]) = "InProgress" /\ State(cache'[m]) = "InProgress"
       => cache[m].roster \subseteq cache'[m].roster]_cache

\* The match a server points to is in Mongo: on_load saves it before anybody
\* can find it, so a handler can fall back on the record.  Overlapping tasks,
\* deaths and a failing Redis do not change that.
CurrentMatchIsRecorded ==
  "mongo" \notin mode.faulty =>
    \A s \in Server : pointer[s] # NoMatch => mongo[pointer[s]] # NoDoc

\* Only ended matches expire, in spite of stale copies: no match that is
\* being played vanishes from Redis because of an expiry set by another task.
OnlyEndedExpire == \A m \in expiring : cache[m].ended

\* The record never takes an end back.  Redis may (a handler that read the
\* match before startup ended it writes its copy back), Mongo may not: only
\* ended documents follow the first.
RecordStaysEnded ==
  [][\A m \in MatchId : mongo[m] # NoDoc =>
       mongo'[m] # NoDoc /\ (mongo[m].ended => mongo'[m].ended)]_mongo

\* The phase of match m, from the working copy or else the record.  A match
\* that startup ended before it began is over, although get_state says Pre
\* (and on_match_start would still accept it).
PhaseOf(m) ==
  LET over(d) == d # NoDoc /\ d.ended
  IN  IF over(cache[m]) \/ (cache[m] = NoDoc /\ over(mongo[m])) THEN "Post"
      ELSE IF cache[m] = NoDoc THEN "Unloaded"
      ELSE State(cache[m])

\* Without Serial matches do not count: the abstract matches stay unloaded.
Phases == INSTANCE MatchPhases WITH
  phase <- [m \in MatchId |-> IF Serial THEN PhaseOf(m) ELSE "Unloaded"],
  settled <- [m \in MatchId |-> [p \in Player |-> IF Serial THEN credits[m][p] ELSE 0]]

\* The stores, seen through PhaseOf, behave as MatchPhases: matches only move
\* forward and settle each player at most once, after the end.
ImplementsPhases == Phases!Spec

\* Liveness: unless tasks die or Mongo fails, a match whose end has begun is
\* recorded as ended in Mongo.
EndIsRecorded ==
  \A m \in MatchId :
    (/\ ~mode.mayDie /\ "mongo" \notin mode.faulty
     /\ \E t \in Conn : mid[t] = m /\ pc[t] = "settle")
      ~> (mongo[m] # NoDoc /\ mongo[m].ended)
=============================================================================

------------------------------ MODULE Sessions ------------------------------
(***************************************************************************)
(* Player sessions: POST prelogin, login, logout (http/player) and the     *)
(* part of POST startup (http/server) that closes the sessions a dead      *)
(* server left open.  A session lives in Mongo only.  A player document    *)
(* lives in Redis (player:<name>) and in Mongo; every request copies the   *)
(* whole document out of one of them, edits the copy and writes it back to *)
(* both, without a lock.  Requests of the web server run concurrently; an  *)
(* action is one step of a request from an await to the next.              *)
(*                                                                         *)
(* Of a player document the model keeps what sessions put there: whose     *)
(* playtime has been added, the last session and the longest one.  Names   *)
(* do not change, so a player has one key in Redis.  The match that        *)
(* startup ends first is the business of MatchLifecycle.                   *)
(***************************************************************************)
EXTENDS Naturals, FiniteSets

CONSTANTS
  Server,      \* the Minecraft servers
  Request,     \* the tasks that serve HTTP requests
  Player,      \* the players
  SessionId,   \* the ids that sessions may be given (bounds the logins)
  NoSession,   \* the Option<String> without a session id
  NoPlayer,    \* a request that has not named a player yet
  NoDoc,       \* the answer when a document is not there
  Modes        \* what a behaviour may be like, see Mode

Kind == {"prelogin", "login", "logout", "startup"}

Session == [player : Player, server : Server, ended : BOOLEAN]
\* counted[x]: how often the playtime of session x is in stats.server_playtime
\* (2 stands for more than once).
Profile == [counted : [SessionId -> 0..2],
            last    : SessionId \cup {NoSession},
            longest : SessionId \cup {NoSession}]

ASSUME NoSessionAssumption == NoSession \notin SessionId
ASSUME NoPlayerAssumption == NoPlayer \notin Player
ASSUME NoDocAssumption == NoDoc \notin Session \cup Profile

\* Which server each task serves, the players who come and the kinds of
\* requests that are sent (bounds of a behaviour); may two requests of one
\* server be served at the same time?; may a request vanish at an await
\* (disconnect, crash)?; {"redis"} if operations on Redis may fail, silently.
Mode == [serverOf : [Request -> Server], players : SUBSET Player,
         requests : SUBSET Kind, overlap : BOOLEAN, mayDie : BOOLEAN, faulty : SUBSET {"redis"}]

ASSUME ModeAssumption == Modes \subseteq Mode

VARIABLES
  mode,        \* the mode of this behaviour: it never changes
  session,     \* session[x]: Mongo's document of session x, or NoDoc
  stored,      \* stored[p]: Mongo's document of player p, or NoDoc
  cached,      \* cached[p]: Redis's document of player p, or NoDoc
  board,       \* board[x]: how often x is on the leaderboard SERVER_PLAYTIME
  pc,          \* pc[t]: the await that request t is at
  op,          \* op[t]: the kind of request
  who,         \* who[t]: the player whose document it is fetching or editing
  sid,         \* sid[t]: the session it is about
  prof,        \* prof[t]: its copy of the player document
  hanging,     \* hanging[t]: startup's sessions_to_write
  todo,        \* todo[t]: those whose player startup has yet to fetch
  writes       \* writes[t]: startup's players_to_write

stores == <<session, stored, cached, board>>
memory == <<op, who, sid, prof, hanging, todo, writes>>
vars == <<mode, stores, pc, memory>>

\* the server whose requests task t serves
ServerOf(t) == mode.serverOf[t]

Pc == {"idle", "lookup", "get", "find", "open", "session", "board", "close",
       "persist", "cache", "hanging", "gather", "players", "sessions"}

NewPlayer == [counted |-> [x \in SessionId |-> 0], last |-> NoSession, longest |-> NoSession]

\* 0, 1 and 2 stand for never, once and more than once.
OneMore(n) == IF n = 2 THEN 2 ELSE n + 1

\* stats.server_playtime += the playtime of session x
Count(d, x) == [d EXCEPT !.counted[x] = OneMore(@)]

Active(x) == session[x] # NoDoc /\ ~session[x].ended

-----------------------------------------------------------------------------
(* Requests come and go.                                                   *)

Goto(t, at) == pc' = [pc EXCEPT ![t] = at]

Return(t) ==
  /\ Goto(t, "idle")
  /\ op' = [op EXCEPT ![t] = "none"]
  /\ who' = [who EXCEPT ![t] = NoPlayer]
  /\ sid' = [sid EXCEPT ![t] = NoSession]
  /\ prof' = [prof EXCEPT ![t] = NoDoc]
  /\ hanging' = [hanging EXCEPT ![t] = {}]
  /\ todo' = [todo EXCEPT ![t] = {}]
  /\ writes' = [writes EXCEPT ![t] = {}]

\* A plugin that waits for each answer has one request of its server open.
\* The API does not insist: mode.overlap drops the restriction.
Begin(t, kind, at) ==
  /\ kind \in mode.requests
  /\ pc[t] = "idle"
  /\ mode.overlap \/ \A u \in Request : ServerOf(u) = ServerOf(t) => pc[u] = "idle"
  /\ op' = [op EXCEPT ![t] = kind]
  /\ Goto(t, at)
  /\ UNCHANGED <<stores, prof, hanging, todo, writes>>

Prelogin(t) == \E p \in mode.players :
  /\ Begin(t, "prelogin", "lookup")
  /\ who' = [who EXCEPT ![t] = p]
  /\ UNCHANGED sid

\* Every login that has begun finds a session id (SessionId bounds the logins).
EnoughIds ==
  Cardinality({x \in SessionId : session[x] = NoDoc}) >
    Cardinality({u \in Request : op[u] = "login" /\ pc[u] \in {"get", "find", "open"}})

Login(t) == \E p \in mode.players :
  /\ EnoughIds
  /\ Begin(t, "login", "get")
  /\ who' = [who EXCEPT ![t] = p]
  /\ UNCHANGED sid

\* A plugin logs out the sessions that its server opened, and may do so
\* again when no answer came.
Logout(t) == \E x \in SessionId :
  /\ session[x] # NoDoc /\ session[x].server = ServerOf(t)
  /\ Begin(t, "logout", "get")
  /\ who' = [who EXCEPT ![t] = session[x].player]
  /\ sid' = [sid EXCEPT ![t] = x]

Startup(t) ==
  /\ Begin(t, "startup", "hanging")
  /\ UNCHANGED <<who, sid>>

Die(t) ==
  /\ mode.mayDie /\ pc[t] # "idle"
  /\ Return(t)
  /\ UNCHANGED stores

-----------------------------------------------------------------------------
(* Reading.                                                                *)

\* prelogin asks Mongo by id, not Redis; an unknown player is made up.
LookUp(t) ==
  /\ pc[t] = "lookup"
  /\ prof' = [prof EXCEPT ![t] = IF stored[who[t]] = NoDoc THEN NewPlayer ELSE stored[who[t]]]
  /\ Goto(t, "persist")
  /\ UNCHANGED <<stores, op, who, sid, hanging, todo, writes>>

\* What a request does with the player document it fetched: login and logout
\* keep it; startup puts the edited copy on its list.
Have(t, d) ==
  IF op[t] = "startup"
  THEN /\ writes' = [writes EXCEPT ![t] = @ \cup {[player |-> who[t], doc |-> Count(d, sid[t])]}]
       /\ Goto(t, "gather")
       /\ UNCHANGED prof
  ELSE /\ prof' = [prof EXCEPT ![t] = d]
       /\ Goto(t, IF op[t] = "login" THEN "open" ELSE "session")
       /\ UNCHANGED writes

\* Cache::get, in Redis
GetPlayer(t) ==
  /\ pc[t] = "get"
  /\ \E d \in {cached[who[t]]} \cup (IF "redis" \in mode.faulty THEN {NoDoc} ELSE {}) :
       IF d # NoDoc THEN Have(t, d) ELSE Goto(t, "find") /\ UNCHANGED <<prof, writes>>
  /\ UNCHANGED <<stores, op, who, sid, hanging, todo>>

\* Mutant of FindPlayer: the player is taken to exist.
FindPlayerUnchecked(t) ==
  /\ pc[t] = "find"
  /\ prof' = [prof EXCEPT ![t] = stored[who[t]]]
  /\ Goto(t, IF op[t] = "login" THEN "open" ELSE "session")
  /\ UNCHANGED <<stores, op, who, sid, hanging, todo, writes>>

\* Cache::get, in Mongo after a miss.  Nobody of that name: login and logout
\* answer 404, startup goes on with the next session.
FindPlayer(t) ==
  /\ pc[t] = "find"
  /\ IF stored[who[t]] # NoDoc
     THEN Have(t, stored[who[t]]) /\ UNCHANGED <<op, who, sid, hanging, todo>>
     ELSE IF op[t] = "startup"
          THEN Goto(t, "gather") /\ UNCHANGED memory
          ELSE Return(t)
  /\ UNCHANGED stores

-----------------------------------------------------------------------------
(* Login and logout.                                                       *)

\* Mutant of OpenSession: a player who comes back resumes the last session.
OpenSessionAgain(t) ==
  /\ pc[t] = "open"
  /\ \E x \in SessionId :
       /\ session[x] = NoDoc \/ x = prof[t].last
       /\ session' = [session EXCEPT ![x] =
            [player |-> who[t], server |-> ServerOf(t), ended |-> FALSE]]
       /\ sid' = [sid EXCEPT ![t] = x]
       /\ prof' = [prof EXCEPT ![t].last = x]
  /\ Goto(t, "persist")
  /\ UNCHANGED <<stored, cached, board, op, who, hanging, todo, writes>>

\* Mutant of OpenSession: the session is not saved.
OpenSessionUnsaved(t) ==
  /\ pc[t] = "open"
  /\ \E x \in SessionId :
       /\ session[x] = NoDoc
       /\ sid' = [sid EXCEPT ![t] = x]
       /\ prof' = [prof EXCEPT ![t].last = x]
  /\ Goto(t, "persist")
  /\ UNCHANGED <<stores, op, who, hanging, todo, writes>>

\* login saves a session with a new id, then points the player to it.
OpenSession(t) ==
  /\ pc[t] = "open"
  /\ \E x \in SessionId :
       /\ session[x] = NoDoc
       /\ session' = [session EXCEPT ![x] =
            [player |-> who[t], server |-> ServerOf(t), ended |-> FALSE]]
       /\ sid' = [sid EXCEPT ![t] = x]
       /\ prof' = [prof EXCEPT ![t].last = x]
  /\ Goto(t, "persist")
  /\ UNCHANGED <<stored, cached, board, op, who, hanging, todo, writes>>

\* logout: find_session_for_player and is_active, then the edits: playtime is
\* added, and a playtime longer than the record (or the first) is the record.
CheckSession(t) ==
  /\ pc[t] = "session"
  /\ IF Active(sid[t]) /\ session[sid[t]].player = who[t]
     THEN /\ \E longest \in {prof[t].longest, sid[t]} \ {NoSession} :
               prof' = [prof EXCEPT ![t] = [Count(@, sid[t]) EXCEPT !.longest = longest]]
          /\ Goto(t, "board")
          /\ UNCHANGED <<op, who, sid, hanging, todo, writes>>
     ELSE Return(t)
  /\ UNCHANGED stores

\* Leaderboard::increment, all six periods on one connection
IncrementBoard(t) ==
  /\ pc[t] = "board"
  /\ \/ board' = [board EXCEPT ![sid[t]] = OneMore(@)]
     \/ "redis" \in mode.faulty /\ UNCHANGED board
  /\ Goto(t, "close")
  /\ UNCHANGED <<session, stored, cached, memory>>

\* Mutant of CloseSession: the session is not saved.
CloseSessionUnsaved(t) ==
  /\ pc[t] = "close"
  /\ Goto(t, "persist")
  /\ UNCHANGED <<stores, memory>>

\* logout saves the session with its ended_at before it saves the player.
CloseSession(t) ==
  /\ pc[t] = "close"
  /\ session' = [session EXCEPT ![sid[t]].ended = TRUE]
  /\ Goto(t, "persist")
  /\ UNCHANGED <<stored, cached, board, memory>>

\* player_cache.set(.., true): Mongo first, ...
PersistPlayer(t) ==
  /\ pc[t] = "persist"
  /\ stored' = [stored EXCEPT ![who[t]] = prof[t]]
  /\ Goto(t, "cache")
  /\ UNCHANGED <<session, cached, board, memory>>

\* ... then Redis.
CachePlayer(t) ==
  /\ pc[t] = "cache"
  /\ \/ cached' = [cached EXCEPT ![who[t]] = prof[t]]
     \/ "redis" \in mode.faulty /\ UNCHANGED cached
  /\ Return(t)
  /\ UNCHANGED <<session, stored, board>>

-----------------------------------------------------------------------------
(* Startup, after it has ended the match of the server.                    *)

\* Mutant of FindHanging: sessions that have ended are found as well.
FindHangingAll(t) ==
  LET found == {x \in SessionId : session[x] # NoDoc /\ session[x].server = ServerOf(t)}
  IN  /\ pc[t] = "hanging"
      /\ hanging' = [hanging EXCEPT ![t] = found]
      /\ todo' = [todo EXCEPT ![t] = found]
      /\ Goto(t, "gather")
      /\ UNCHANGED <<stores, op, who, sid, prof, writes>>

\* sessions.find({serverId, endedAt: null}).  A startup that returned before
\* (a server never seen alive, or without a match) has no effect on sessions
\* and is not represented.
FindHanging(t) ==
  LET found == {x \in SessionId : Active(x) /\ session[x].server = ServerOf(t)}
  IN  /\ pc[t] = "hanging"
      /\ hanging' = [hanging EXCEPT ![t] = found]
      /\ todo' = [todo EXCEPT ![t] = found]
      /\ Goto(t, "gather")
      /\ UNCHANGED <<stores, op, who, sid, prof, writes>>

\* The player of the next hanging session is fetched ...
NextHanging(t) ==
  /\ pc[t] = "gather"
  /\ \E x \in todo[t] :
       /\ todo' = [todo EXCEPT ![t] = @ \ {x}]
       /\ sid' = [sid EXCEPT ![t] = x]
       /\ who' = [who EXCEPT ![t] = session[x].player]
  /\ Goto(t, "get")
  /\ UNCHANGED <<stores, op, prof, hanging, writes>>

\* ... until there is none left.
Gathered(t) ==
  /\ pc[t] = "gather" /\ todo[t] = {}
  /\ Goto(t, "players")
  /\ UNCHANGED <<stores, memory>>

\* players.replace_one, all of them at once (join_all); Redis is not told.
ReplacePlayer(t) ==
  /\ pc[t] = "players"
  /\ \E w \in writes[t] :
       /\ stored' = [stored EXCEPT ![w.player] = IF @ = NoDoc THEN NoDoc ELSE w.doc]
       /\ writes' = [writes EXCEPT ![t] = @ \ {w}]
  /\ UNCHANGED <<session, cached, board, pc, op, who, sid, prof, hanging, todo>>

PlayersReplaced(t) ==
  /\ pc[t] = "players" /\ writes[t] = {}
  /\ Goto(t, "sessions")
  /\ UNCHANGED <<stores, memory>>

\* Mutant of ReplaceSession: only one of the sessions is written.
ReplaceSessionOnce(t) ==
  /\ pc[t] = "sessions"
  /\ \E x \in hanging[t] : session' = [session EXCEPT ![x].ended = TRUE]
  /\ hanging' = [hanging EXCEPT ![t] = {}]
  /\ UNCHANGED <<stored, cached, board, pc, op, who, sid, prof, todo, writes>>

\* sessions.replace_one, all of them at once, after every player
ReplaceSession(t) ==
  /\ pc[t] = "sessions"
  /\ \E x \in hanging[t] :
       /\ session' = [session EXCEPT ![x].ended = TRUE]
       /\ hanging' = [hanging EXCEPT ![t] = @ \ {x}]
  /\ UNCHANGED <<stored, cached, board, pc, op, who, sid, prof, todo, writes>>

SessionsReplaced(t) ==
  /\ pc[t] = "sessions" /\ hanging[t] = {}
  /\ Return(t)
  /\ UNCHANGED stores

-----------------------------------------------------------------------------
Init ==
  /\ mode \in Modes
  /\ session = [x \in SessionId |-> NoDoc]
  /\ stored = [p \in Player |-> NoDoc]
  /\ cached = [p \in Player |-> NoDoc]
  /\ board = [x \in SessionId |-> 0]
  /\ pc = [t \in Request |-> "idle"]
  /\ op = [t \in Request |-> "none"]
  /\ who = [t \in Request |-> NoPlayer]
  /\ sid = [t \in Request |-> NoSession]
  /\ prof = [t \in Request |-> NoDoc]
  /\ hanging = [t \in Request |-> {}]
  /\ todo = [t \in Request |-> {}]
  /\ writes = [t \in Request |-> {}]

Receive(t) == Prelogin(t) \/ Login(t) \/ Logout(t) \/ Startup(t)

Step(t) ==
  \/ LookUp(t) \/ GetPlayer(t) \/ FindPlayer(t)
  \/ OpenSession(t) \/ CheckSession(t) \/ IncrementBoard(t) \/ CloseSession(t)
  \/ PersistPlayer(t) \/ CachePlayer(t)
  \/ FindHanging(t) \/ NextHanging(t) \/ Gathered(t)
  \/ ReplacePlayer(t) \/ PlayersReplaced(t)
  \/ ReplaceSession(t) \/ SessionsReplaced(t)

Next ==
  /\ \E t \in Request : Receive(t) \/ Step(t) \/ Die(t)
  /\ UNCHANGED mode

Spec == Init /\ [][Next]_vars

\* A request that is being served goes on: tokio polls it, and both drivers
\* answer or time out.  Nothing makes a plugin send a request.
FairSpec == Spec /\ \A t \in Request : WF_vars(Step(t) /\ UNCHANGED mode)

-----------------------------------------------------------------------------
(* Properties.                                                             *)

\* What a request at an await holds in memory.
RequestTypeOK(t) ==
  /\ pc[t] \in Pc
  /\ op[t] \in Kind \cup {"none"}
  /\ who[t] \in Player \cup {NoPlayer}
  /\ sid[t] \in SessionId \cup {NoSession}
  /\ prof[t] \in Profile \cup {NoDoc}
  /\ hanging[t] \subseteq {x \in SessionId : session[x] # NoDoc}
  /\ todo[t] \subseteq hanging[t]
  /\ pc[t] \in {"players", "sessions"} => todo[t] = {}
  /\ writes[t] \subseteq [player : Player, doc : Profile]
  /\ pc[t] \notin {"idle", "hanging", "gather", "players", "sessions"} => who[t] # NoPlayer
  /\ pc[t] \in {"session", "board", "close"} => sid[t] # NoSession
  /\ pc[t] \in {"get", "find"} => op[t] = "login" \/ sid[t] # NoSession
  /\ pc[t] \in {"board", "close"} => session[sid[t]] # NoDoc
  /\ pc[t] \in {"open", "session", "board", "close", "persist", "cache"} => prof[t] # NoDoc

\* The type of every variable, and of what a request at an await holds: it
\* never goes on with a player or a session that was not found.
TypeOK ==
  /\ mode \in Modes
  /\ session \in [SessionId -> Session \cup {NoDoc}]
  /\ stored \in [Player -> Profile \cup {NoDoc}]
  /\ cached \in [Player -> Profile \cup {NoDoc}]
  /\ board \in [SessionId -> 0..2]
  /\ pc \in [Request -> Pc]
  /\ op \in [Request -> Kind \cup {"none"}]
  /\ who \in [Request -> Player \cup {NoPlayer}]
  /\ sid \in [Request -> SessionId \cup {NoSession}]
  /\ prof \in [Request -> Profile \cup {NoDoc}]
  /\ hanging \in [Request -> SUBSET SessionId]
  /\ todo \in [Request -> SUBSET SessionId]
  /\ writes \in [Request -> SUBSET [player : Player, doc : Profile]]
  /\ \A t \in Request : RequestTypeOK(t)

Ended(x) == session[x] # NoDoc /\ session[x].ended

\* The documents of player p, in either store
Documents(p) == {stored[p], cached[p]} \ {NoDoc}

AllOnce ==
  \A p \in Player : \A d \in Documents(p) : \A x \in SessionId : d.counted[x] <= 1

\* no startup that would close sessions
LogoutsOnly == "startup" \notin mode.requests

\* The playtime of a session is added to its player at most once, although a
\* logout may be sent twice, answered twice at the same time, or die between
\* its writes: a logout reads the player before it reads the session, and
\* saves the session before it saves the player.
CountedOnce == LogoutsOnly => AllOnce

\* Startups do not spoil that while requests of a server follow one another:
\* the sessions that a startup ends are not logged out any more.
StartupCountsOnce == ~mode.overlap /\ ~mode.mayDie => AllOnce

\* What a player document refers to is in Mongo, whatever copy was written
\* last: its last session exists and is the player's own, and the session that
\* holds the record is over.
ReferencesSound ==
  LogoutsOnly =>
    \A p \in Player : \A d \in Documents(p) :
      /\ d.last # NoSession => session[d.last] # NoDoc /\ session[d.last].player = p
      /\ d.longest # NoSession => Ended(d.longest)

\* No playtime is in a profile that the leaderboard never got to see, if
\* Redis does what it is told (startup forgets the leaderboard).
BoardCoversProfile ==
  LogoutsOnly /\ mode.faulty = {} =>
    \A p \in Player : \A d \in Documents(p) : \A x \in SessionId :
      d.counted[x] > 0 => board[x] > 0

\* A session that has ended is not opened again and does not change hands,
\* although requests write whole session documents that they read earlier.
EndedForGood ==
  [][\A x \in SessionId : session[x] # NoDoc =>
       /\ session'[x] # NoDoc
       /\ session'[x].player = session[x].player
       /\ session[x].ended => session'[x].ended]_session

SameServer == \A t, u \in Request : ServerOf(t) = ServerOf(u)

\* When the requests follow one another and none dies, nothing is lost: once
\* they are served, every ended session is counted in both stores.  It takes
\* more than each server's waiting for its own: a slow prelogin of one server
\* can undo the logout of another, writing the player as it was before.
ProfilesComplete ==
  /\ LogoutsOnly /\ ~mode.overlap /\ ~mode.mayDie /\ mode.faulty = {} /\ SameServer
  /\ \A t \in Request : pc[t] = "idle"
  =>
    \A x \in SessionId : Ended(x) =>
      \A d \in {stored[session[x].player], cached[session[x].player]} :
        d # NoDoc /\ d.counted[x] = 1

\* The playtime of a session arrives where it should and no more than once,
\* whether a logout or a startup ends it: on the leaderboard first, and in the
\* end in both copies of the player.
PlaytimeArrives == StartupCountsOnce /\ BoardCoversProfile /\ ProfilesComplete

\* Liveness: unless requests die, a startup ends every session that it found
\* hanging.
StartupEndsSessions ==
  \A x \in SessionId :
    (~mode.mayDie /\ \E t \in Request : x \in hanging[t]) ~> Ended(x)
=============================================================================

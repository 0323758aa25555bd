# Verification of the Mars API

The Mars API (a Rocket/tokio server in Rust) keeps the players, sessions, matches,
leaderboards, ranks and punishments of a network of Minecraft servers. Each Minecraft
server runs a plugin that talks to the API in two ways: HTTP requests (`src/src/http`)
and one websocket connection per server (`src/src/socket`). State lives in two stores,
Redis (`database/cache.rs`) and Mongo (`database/mod.rs`). The API has no locks and no
transactions: it reads a document, edits its own copy across many awaits and writes the
whole document back. What can go wrong is therefore almost always an *order* of reads and
writes, or a task that stops between two of them, and that is what these modules check.

Contents: 1 inventory; 2 modules; 3 runs and bounds; 4 fairness; 5 proofs;
6 what is not modelled; 7 plan.

## 1. Inventory

| component | state | operations | interacts with |
|---|---|---|---|
| Websocket connections (`socket_handler.rs`) | one task per connection | read a frame, call the router, `set_last_time_alive`; a panic ends the task | router, server context |
| Socket router and match lifecycle (`socket_router.rs`, `socket/match`) | the match document, Redis `match:<id>` and Mongo `matches` | one handler per event type; load, start, end, party join/leave, death, killstreak, objectives, chat | match cache, participants, player profiles, leaderboards |
| Server context (`server_context.rs`) | Redis `server:<id>:current_match_id`, `:last_alive_time`, `:events` | get and set each | router, startup |
| Map record listener (`map_record_listener.rs`) | records inside the level document; writes the match | kill, killstreak, capture, match end | router, Mongo |
| Cache and Redis adapter (`cache.rs`) | Redis | `get` (Mongo on a miss), `set`, `set_with_expiry` (Mongo first if `persist`) | everybody |
| Database (`database/mod.rs`) | Mongo collections | `save` (upsert of every field), finds | everybody |
| Startup, status, events (`http/server`) | - | `server_startup` ends the server's match and closes its sessions; xp multiplier | match cache, sessions, players |
| Player sessions (`http/player`) | sessions (Mongo), player documents (Redis and Mongo) | prelogin, login, logout | leaderboards |
| Player administration (`http/player`, `http/perks`) | player documents | notes, tags, active tag, ranks, join sounds | cache |
| Participants and parties (`socket/participant`) | participants inside the match | join, leave, playtime, per-match statistics | router |
| Player listeners (`socket/player`) | statistics, xp, records, gamemode statistics inside the player document | on kill, death, objective, match end | router, leaderboards |
| Player update listener (`socket/update`) | none | sends the plugin the copy of a player that a listener has changed | plugin |
| Leaderboards (`socket/leaderboard`, `http/leaderboard`) | Redis sorted sets, one per score and period | `set`, `increment`, `set_if_higher`, `fetch_top` | logout, player listeners |
| Ranks and tags, achievements (`http/rank`, `http/tag`, `http/achievements`) | Mongo collections | create, update, complete, delete with cascades over players | player documents |
| Punishments and ip identities (`http/punishment`, `http/player`) | Mongo collections | issue, revert; prelogin reads them and lists the player under its address | player documents |
| Maps (`http/map`) | Mongo collection `levels` | `add_maps` | matches, which take a copy of their level and save it |
| Read-only requests, migrations, process start, utilities | none, or run alone | | |

What is hard here:

* **Interleaving.** A connection handles one message at a time, but a reconnected server
  has two connections for a while, and HTTP requests of any server run beside them. All
  of them write whole documents.
* **Partial failure and crashes.** A listener that unwraps an absent value unwinds its
  connection task; a client that goes away cancels its request; the process can stop.
  Nothing undoes the writes already made.
* **Silent failure.** Errors of Redis and of Mongo are dropped: a failed read is an absent
  value and a failed write is no write.
* **Ordering across stores.** Mongo and Redis are written one after the other, sessions
  before players here and after them there.
* **Repetition.** A plugin that got no answer sends its logout, its startup or its match
  end again.

What makes the components correct:

* matches: they move forward only (loaded, started, ended); nobody is credited a match
  twice or while it can still be played; no participant is lost while it is played; what
  may vanish from Redis is in Mongo; the record in Mongo never loses its end;
* sessions: the playtime of a session counts at most once for a player, and exactly once
  when nothing goes wrong; an ended session stays ended; documents refer to sessions that
  exist; startup ends what a dead server left open;
* player documents: no update is lost when requests and handlers are serial; a stale copy
  in Mongo never replaces a newer one;
* participants: party membership and playtime agree; lengths are never negative;
* leaderboards: a score never goes down, all periods agree with the profile;
* administration: names are unique, deletion removes every reference.

Each group has a module; `PROJECT.json` lists every hazard at its line, with the properties
that cover it or the reason why none does.

## 2. Modules

| module | what it is |
|---|---|
| `MatchPhases` | abstract: the phases of a match and who was credited its result |
| `MatchLifecycle` | connections, router, server context, match documents in both stores, startup's end of a match; implements `MatchPhases` |
| `Sessions` | prelogin, login, logout and startup's closing of sessions, with player documents in both stores |
| `Statistics` | what the events of a match add up to: participant, player, gamemodes, leaderboards, records of the level, first blood, duels, xp and its multiplier, what the plugin is sent |
| `Participation` | parties, playtime and time away on a running clock; the result of a match and what four listeners make of it |
| `Leaderboards` | keys of the six periods, `increment` and `set_if_higher` command by command, `fetch_top` |
| `PlayerStore` | the player document under all its keys, and everybody who edits it |
| `Directory` | the collection of ranks, of tags or of achievements (`Collection`) |
| `Admission` | prelogin against punishments that are issued, reverted and expire; ip identities |
| `Levels` | `add_maps` against matches that load, change and save a level |
| `MC...` | instances of each for TLC: model values, symmetry, bounds |
| `..._proofs` | theorems about each of them; `Scores_proofs` has those about `Leaderboards` and `Participation`, whose names do not clash for that reason (`BoardsSpec`, `BoardsTypeOK`, ...) |

How they divide the system: every module has the same code around its own state, and leaves
the state of the others out. A killstreak, say, is a read, a check and a write of the match
in `MatchLifecycle`, an amount entered in five places in `Statistics`, two commands per
period in `Leaderboards`, a read, an edit and a write of the player in `PlayerStore`, and a
record of the level in `Levels`. What each takes from its neighbours is stated at its head:
`Statistics` and `Participation` have one connection at a time, because the races over the
documents that they write are those of `MatchLifecycle` and `PlayerStore`.

In the detailed modules a *task* is what the code runs sequentially (a connection, an HTTP
request), `pc[t]` (`command[t]` in `Leaderboards`) is the await it is at, the other task variables are its local variables,
and an action is what it does from one await to the next. Operators that begin with
"Mutant of" in their comment are slips in the code that the properties are known to catch;
they are not part of any specification. Variables called *history* record what happened for
the properties to refer to, and guard nothing.

Every detailed module has a variable `mode`, chosen from the constant `Modes` at the start
and never changed. A mode says what its callers do and what may go wrong (may two tasks
overlap? may they die at an await? may Redis lose operations?) and how much of everything
happens (which players, names and events; how many requests). It is no state of the
program: it lets a property say under which conditions it holds, and lets one run check
small instances that stress different things. The theorems hold for every set of modes.

### MatchLifecycle

| state | code |
|---|---|
| `pointer`, `lastAlive` | `server:<id>:current_match_id`, `server:<id>:last_alive_time` (set or not) |
| `cache`, `expiring` | Redis `match:<id>`, and which of these keys have a time to live |
| `mongo` | collection `matches` |
| `credits[m][p]` | how often the profile of `p` was given the result of `m` (0, once, more) |
| `mid`, `doc`, `rest` | the match a handler read, its copy, the participants `on_match_end` still has to handle |

A document is its two timestamps, present or absent, and its set of participants.
`OnMatchLoad` .. `OnStartupMatch` are the handlers up to their next await; handlers that
treat the document alike share one action (`OnMatchEvent`), with the sets `CheckedOps`,
`UncheckedOps`, `RecordOps`, `UnwrapOps` and `OptionalOps` saying which event checks the
state, writes on its way, unwraps or tolerates a missing participant. `on_match_end` is
split into `SettleParticipant` (the listeners of one participant, with the map record
listener's write of the half-emptied match), `CreditPlayer` (the profile) and
`EverybodySettled`; `Persist` and `CacheAfterPersist` are the two halves of
`set_with_expiry` with `persist`. `Die` is a panic, a cancelled request or a crash at any
await, and `Expire` is Redis dropping a key.

`PhaseOf` maps the stores to `MatchPhases`: the working copy decides, the record does once
the copy is gone, and a match that ended before it started is over (`get_state` says
`Pre`, because it looks at `started_at` first). `ImplementsPhases` is the refinement.

### Sessions

| state | code |
|---|---|
| `session` | collection `sessions` |
| `stored`, `cached` | player document in Mongo, and in Redis `player:<name>` |
| `board[x]` | how often the playtime of `x` went to the leaderboard SERVER_PLAYTIME |
| `who`, `sid`, `prof` | the player and session a request is about, its copy of the document |
| `hanging`, `todo`, `writes` | `sessions_to_write`, those still to visit, `players_to_write` in `server_startup` |

Of a player document the model keeps what sessions put there: how often each session's
playtime was added (0, once, more), `last_session_id` and the longest session. Playtime
itself is not a number: a session counts or it does not, and whether it beats the record is
open. The six periods of a leaderboard are one step, since `increment` issues them back to
back and nothing between them reads another store. Reading the cursor of
hanging sessions is one step. A player has one name and so one key (`PlayerStore` has
the others). `Logout` is sent only for a session
that the server opened and may be sent again at any time.

### Statistics

| state | code |
|---|---|
| `match`, `hand` | Redis `match:<id>` and the handler's copy: state, level, participants with their counters and duels, first blood, goals |
| `level[l]` | the records in collection `levels` |
| `profile[p]` | the player in Redis: `stats`, `gamemode_stats`, `stats.records` |
| `board`, `streak` | the leaderboards of all time |
| `told[p]` | the copy in the last `PLAYER_UPDATE` message |
| `past[p]` | history: what the working copies of tracked matches held at last |

An event is accepted (`Accept`, with the state check of its handler), queues the players it
concerns in the order in which the router serves them, and serves each: the participant in
the match, the boards, the listeners on the player (`ListenPlayer` applies
`PlayerStatListener`, `PlayerGamemodeStatListener`, `PlayerXPListener`,
`PlayerRecordListener` and `PlayerUpdateListener` in the router's order), `set_player`. `SetMatch`
writes the match. `ParticipantDoc`, `MatchDoc`, `PlayerDoc` and `Records` are the structs as
far as the module looks at them, and `Put` is `save_participants`. Distances, times and block counts are small numbers; the xp formulas are
those of the code, with its saturating subtractions.

### Participation

The clock `now` moves on by itself, also within a handler (`Restless`). A participant keeps
its party, when it first came, joined and left, its playtime and its time away.
`OnPartyJoin` and `OnPartyLeave` are the two listeners; `OnMatchEnd`, `ListenAsParticipant`,
`ListenAsBoard` and `ListenAsPlayer` end a match. The thresholds (a tenth of the match or a
minute, 20 s away) are the constants `Share`, `LongEnough` and `AwayLimit`. `Match` and
`Participant` are the structs as far as the module looks at them, and `Put` is
`save_participants`.

### Leaderboards

`total` is any board that adds up, `best` the one of killstreaks. `Key` is `get_today_id`:
the key of a period is made anew from the clock for each command, so midnight may fall
between two commands of one score, and boards of different dates may share a key (iso week
with calendar year; December in the winter that has ended). `WeekAssumption` says of a
calendar what holds of every calendar: a date is in one week. `ZIncrBy` is one command of
`increment`, `ZScore` and `ZAdd` the two of `set_if_higher`. `FetchTop` has `limit - 1` in
`Word` sized numbers.

### PlayerStore

`mongo` has one document per player, `redis` one for every name and id that was used as a
key. A document is its id, name, labels (tags, ranks, achievements), active tag, notes and
what was played (`events`). `Edits` is what a request makes of a document, `CacheKey` the
key it writes to: notes go to the key of the request, statistics to the name of the
participant, everything else to the name in the document. `Persist` and `CacheIt` are
`Cache::set` with and without `persist`. Deletions (`DeleteLabel`, `FindHolders`,
`NextHolder`) visit the holders in Mongo; `delete_rank` panics if there are two.
`ensure_player_name_uniqueness` is absent because Mongo refuses its query.

### Directory

`docs` is the collection, `issued` the ids ever given. `FindConflict`, `FindUpdated`,
`FindOther`, `FindCompleted`, `Save` and `Remove` are the awaits of creation, update,
completion and deletion. `Named` is a query for `nameLower`, a field that achievements do
not have.

### Admission

`players` has the addresses of each player, `redis` those in its copies under
`player:<name>` and `player:<id>`, `identity` the players of each address, `puns` the
punishments. `Prelogin` goes through `FindPlayer`, `FindPunishments` (the player's),
`FindIpPunishments` (those of the address), `SavePlayer` and `CachePlayer` (the two halves of
`Cache::set`), `ReadIdentity` and `SaveIdentity`, and the answer. Staff issue and revert in
between, and the clock lets bans expire.

Prelogin is the only one to add an address, but `Database::save` sets every field, so whoever
edits a player writes its addresses: `FindDocument` begins any other such request, and goes on
with `SavePlayer` and `CachePlayer`. `Edits` lists what there is: from which key the document
is read (`Found`: Redis, else Mongo), whether it is saved in Mongo, and under which key it is
cached. Notes write the key of the request, the other requests the name in the document,
handlers of a match Redis only, startup Mongo only; deletions read Mongo. The copy under an
id is refreshed only by notes by id, so it may be older than Mongo's. A name that a player had
before is such a key, too; players keep their names in this module, and name changes are in
`PlayerStore`.

### Levels

`levels` is the collection, `copy[m]` the level inside match `m`. `AddMaps`, `FindMap` and
`SaveMap` are `add_maps`, each lookup and each save a step of its own since `join_all` runs
them in any order. `OnLoad`, `Do` and `OnMatchEnd` are what a match does to its level; one
record where more is better stands for all.

## 3. Runs and bounds

| run | modes | what it shows |
|---|---|---|
| `match` | 1 server, 2 connections and a startup. (a) One busy at a time, 2 matches, 2 players, all events, deaths. (b) Overlapping, 1 match, 1 player, deaths, Redis or both stores lose operations | (a) From a load to the next match: matches move forward only, each player is credited at most once, nobody is lost. (b) A server points to a recorded match; only ended matches expire; the record keeps its end |
| `match_end_recorded` | overlapping, no deaths, fair | an end that has begun reaches Mongo |
| `sessions` | 2 sessions. (a) 1 server, 2 overlapping requests, of 1 player with deaths or of 2 players without. (b) The same one after the other. (c) 2 servers with one request each, startups included, Redis loses operations | (a) nothing counted twice, references sound, boards lead; (b) both stores count every ended session exactly once; (c) closing hanging sessions counts none twice |
| `sessions_startup_ends` | 2 servers, startups, fair, no deaths | startup ends what it found |
| `statistics` | 2 players. (a) Three kinds of death, killstreaks and chat over a tracked level and an arcade one, 2 matches of 3 events. (b) All flag, wool, destroyable, core and control point events, xp multiplied by 1 or 3. (c), (d) Handlers that die at any step, rosters with and without a player, a plugin that starts matches as it likes. (e) As (d), without deaths | (a) all books of one event agree; (b) the same, and the plugin is told what is saved; (c), (d) boards lead players, players lead matches; (e) boards agree with players also when events are about strangers; (a) to (e) one first blood per match; duels mirror each other |
| `participation` | 2 parties. (a) 2 players, 2 matches, ends that break off and are repeated. (b) 1 player, 5 moves in any order over 5 ticks, dying handlers. (c), (d) Parties left before others are joined; in (d) handlers take no time | (a) each match counts once; (b) nobody plays longer than they were there; (c), (d) no time is counted twice, none is lost; the listeners agree on the result |
| `boards` | (a) New Year's days that share a week, tasks die. (b) 2 players, 2 tasks, the end of a month, questions. (c) Midnight not within a score | (a) shorter periods lead, the highest streak of all time is kept; (b) all periods agree in the end, answers are the tops; (c) the periods nest |
| `players` | (a) 2 players, 3 names, requests by id, name changes, overlap, deaths. (b) 1 player, everything about tags, overlapping and dying. (c) All requests and events, one after the other. (d) 3 names for 2 players, one request after the other | (a) keys match documents, who is cached is stored; (b) the active tag is one of the player's; (c) deletions reach every copy, Mongo forgets nothing that was not deleted; (d) who is online is found by name |
| `directory` | ranks and tags with overlapping requests; ranks and achievements with requests one after the other; deaths | no more ranks of a name than requests at work, or one; deleted tags stay away; the first completion stays |
| `achievement_names` | achievements, one request after the other | **violation**: two achievements with one name, although there is an answer for that conflict (`util/error.rs:166`) |
| `admission` | (a) 1 player, 2 punishments and 2 prelogins, 1 tick. (b) 2 players, 2 addresses, 3 prelogins and an edit by any key, with overlap, deaths and a Redis that loses operations. (c), (d) 4 prelogins and 2 edits, one after the other; in (c) by name, in (d) by id, too | (a) banned players stay out, others come in; (b) listed players exist; (c) identities and players agree; (d) no copy of a player has an address that does not list it |
| `levels` | (a) 2 servers send maps that take over names, 2 matches at once, deaths. (b), (c) Maps sent while no match is on, with and without new names | (a) records in Mongo are of ended matches of that level; (b), (c) names stay unique, records and versions are not lost |

Most properties that a run checks are conjunctions of named parts, which the modules state
and explain one by one:

| property | parts |
|---|---|
| `CreditsSound` | `CreditedOnce`, `CreditedWhenOver` |
| `WorkingCopySound` | `TornByAtMostOne`, `ExpiringIsRecorded` |
| `PlaytimeArrives` | `StartupCountsOnce`, `BoardCoversProfile`, `ProfilesComplete` |
| `BooksBalance` | `LedgersAgree`, `GamemodesAccountFor`, `PluginInStep`, `LevelsCoverPlayers` |
| `BreaksLeaveOrder` | `BoardLeadsProfile`, `MessagesReachTheBoardLast`, `ProfileLeadsMatches`, `OneFirstBloodPerMatch`, `DuelsMirror` |
| `PeriodsInStep` | `ShorterPeriodsLead`, `PeriodsAgree`, `PeriodsNest` |
| `TimeSound` | `PlayersAreTimed`, `PlaytimeWithinMatch`, `TimeNotCountedTwice`, `TimeAccountedFor` |
| `ResultsSound` | `OutcomesAgree`, `ResultsAreOfMatches`, `BoardsLead`, `EachMatchCountsOnce` |
| `CopiesSound` | `KeysMatch`, `ActiveTagOwned`, `CachedAreStored` |
| `RequestsTakeEffect` | `OnlineFound`, `DeletedAreGone`, `DanglingRanksHaveTwoHolders` |
| `NothingForgotten` | `RecordKeepsWhatItHas`, `OnlyMongosCopyForgets` |
| `BansHold` | `BannedStayOut`, `RefusedForABan` |
| `AddressesSound` | `ListedAreStored`, `DocumentsAreListed`, `IdentitiesMatch` |
| `LevelsSound` | `RecordsAreOfEndedMatches`, `LevelNamesUnique` |

Each bound is the smallest at which the hazard exists. Two connections and one startup are
all the tasks one server can have (old connection, new one, restart); different servers
share no match, so one server is enough. Two players are needed for a match end that stops
half way; two matches for a pointer that moves from an ended match to the next. Two
requests race in every pairwise way; each request writes a document it read once, so a
third would repeat the second. Two sessions are needed for a player to have a last session
and an older one, or two hanging ones. `SessionId` and `MatchId` bound how many are ever
created (`EnoughIds` lets a login begin only if it will find an id). `OneMore` stops at 2,
which stands for "more than once". Three names let two players swap theirs; three ids let a
name be taken, freed and taken again; two levels can take over each other's names. The
events of a match do not look at each other's results except through the counters, the
first blood and the records, so that three events (six in two matches) have every event
before and after every other; goals are counted one by one, so two of them are enough.
Amounts are chosen on both sides of what the code compares with: `startXp` is 40 below a
level, `amounts` are below and above the flag's time bonus, `Crowd` is the size from which
a projectile record counts.

`overlap = FALSE` says that the plugin waits for an answer before it sends again and that
it closes an old connection first. It is a condition on the *plugin*, and properties that
need it are false of the code without it:

* `CreditedOnce`, `CreditedWhenOver`, `TornByAtMostOne`, `ExpiringIsRecorded`, `RosterGrows`
  and the refinement need one busy task per server and a reliable Redis (`Serial`): two
  connections that read the match before either writes both credit it, or undo each
  other's join. `CurrentMatchIsRecorded` needs a Mongo that does not lose writes.
* `ProfilesComplete` needs serial requests that do not die, and all of one server
  (`SameServer`): a prelogin of one server that has read a player before a logout of another
  counts a session writes that player back without it. Startup breaks it even alone:
  it writes players to Mongo only and adds each of two hanging sessions of a player to the
  same copy.
* `CountedOnce` and `ReferencesSound` are about the player's own requests (`LogoutsOnly`),
  and hold with overlap, deaths and losses. Where startups take part, `StartupCountsOnce`
  needs that none dies (it saves all players before any session, so a repeated one counts
  again) and that no logout overlaps a startup of its own server (the startup has found
  the session hanging and then reads a player that already counts it).

* `LedgersAgree` and `LevelsCoverPlayers` need a connection that does not die, as a death
  between two writes leaves them apart for good (`BreaksLeaveOrder` says how). That the
  players have what the matches had needs, besides, that everybody is in the match from its
  start (`mode.rosters`): the handlers that do not check the match (`flag_drop`, say) serve a
  player who is not in it and forget the participant. `LevelsCoverPlayers` is of matches that
  follow one another (`orderly`), and `GamemodesAccountFor` of levels that have a gamemode.

* `IdentitiesMatch` needs requests that follow one another and do not fail, players who keep
  their names, and nobody who edits a player by id (`keys`): a note by id after a prelogin
  from a new address saves the older copy under `player:<id>`, and the document loses the
  address while `ip_identity` still lists the player. Two prelogins and two notes do it, as
  run (d) would show without the condition. `DocumentsAreListed` holds in (d) as well, so a
  player who is looked up by an address that a document has is found.

The other modules have conditions of the same kind, each on what the callers do and each a
field of `mode` or follow from some: `serial`, `polite`, `calm`, `steady`, `overlap`. That
of `PlayerStore` (`Orderly`) is that requests by name follow one another, and that nothing is
deleted where players change names: a deletion finds the holders in Mongo and writes each
under the name that Mongo has, which another player may bear by now, while copies under
earlier names keep what was deleted. The properties that need a condition say so, and the hazards in `PROJECT.json` tell what the code does
without it: overlapping edits of a player lose one of them, overlapping creations of a rank
give it twice, overlapping completions replace the first, overlapping first visits from an
address lose a listing for good, notes by id take an address from a player again, maps sent during a match undo its records, overlapping
highest scores leave the lower one.

Deadlock is checked in the runs of `MatchLifecycle` and `Sessions`: an idle system can always
receive, and where ids are used up, requests that need none remain. The other runs stop
where the bounds of their mode (`requests`, `maxEvents`, `time`, ...) are used up, and so
they say `CHECK_DEADLOCK FALSE`.

## 4. Fairness

`MatchLifecycle` and `Sessions` have a `FairSpec`, which gives weak fairness to `Step(t)` of
each task and to nothing else. A handler that has begun is a future that tokio polls
whenever it is ready, and both drivers answer or fail within their time limits, so it goes
on. Nothing makes a plugin send a message, a task die, or Redis expire a key. The other
modules state safety only, and so no fairness.

## 5. Proofs

All theorems hold for any sets of servers, tasks, players, matches, sessions and modes, and
use only the named assumptions on constants (tasks of different kinds are disjoint, the
absent values are not documents or ids, the modes are modes, a date is in one week, tasks,
players of a match and gamemodes are finitely many). A
theorem about a property with a condition on the mode proves its inductive invariant under
that condition, which stays true since the mode does not change. Each invariant was checked
by TLC on the instance of the component's run before it was proved.

### MatchLifecycle_proofs

* `TypeCorrect`: `TypeOK`, which includes that a handler past its reads holds the document
  of a match that was issued.
* `CurrentMatchRecorded`, `OnlyEndedMatchesExpire`, `RecordKeepsTheEnd`, with overlap, deaths
  and failing stores. They are not inductive: a step that sets the pointer needs that the
  loader saved its match earlier, and a step that overwrites a record needs what the writer
  has in hand. `RecordInv` adds to `TypeOK` what each task owes at each await (`LoadOK`: a
  load works on a match nobody else can write to until it has been saved; a task about to
  persist, or to set an expiry, without loading holds an ended document).
* `ResultsAreCreditedSoundly`, `WorkingCopiesAreSound`, `RostersOnlyGrow` (`CreditsSound`,
  `WorkingCopySound`, `RosterGrows`), for plugins that wait and a reliable Redis, with
  deaths. None of them is inductive: that nobody is credited twice depends on what the
  handler of a match end has in hand, and that on what was in Redis when it read.
  `SerialInv` says that a match is in the hands of one task only (`HoldsOK`: the one of the
  server that points to it), that what this task read is what Redis still has, but for an
  expiry (`DataOK`), and that everything a task is about to write agrees with the credits
  (`TrueTo`), wherever between its writes it is or dies.
* `PhasesAreImplemented`: `MatchLifecycle` implements `MatchPhases` through `PhaseOf`. Under
  `SerialInv` each step is a load, a start, a credit or an end of one abstract match, or
  leaves all of them as they are; expiry, startup and every other handler stutter or end.

### Sessions_proofs

* `TypeCorrect`, and `SessionsEndForGood` (`EndedForGood`), startup included.
* `LogoutCountsOnce` and `LogoutKeepsReferences` (`CountedOnce`, `ReferencesSound`). The
  invariant `LogoutInv` (`LogoutsInv` is the same under the condition of the mode) says of
  every document, in a store or in the hands of a request, that it is *sound*: it counts a
  session once at most, and only if the session has ended or is the one this logout is
  closing (`InHand`). That is why the order in `player_logout` matters: the player is read
  before the session is checked, so a session found open cannot be counted in the copy read
  earlier; and the session is saved before the player, so a copy that counts a session gets
  out only after the session has ended.
* `PlaytimeIsCounted` (`PlaytimeArrives`), by three invariants, one for each part.
  `BoardInv`: what any copy counts is on the board, except in the hands of the logout whose
  next step puts it there. `CompleteInv`: of requests one after the other, the one at work
  read its copy after all earlier writes, so the copy counts every ended session of the
  player, and the stores do too unless this request is about to write to them. `CountInv`:
  with startups, a session belongs to one server and one request of that server is at work,
  so from the moment that a document counts the session until it has ended, that request is
  on its way to ending it.

### Scores_proofs: Leaderboards

* `BoardsTypeCorrect` (`BoardsTypeOK`).
* `HighestIsKept` and `NeverLower` (`HighestKept`, `BestNeverDecreases`), when scores of one
  player are not entered at the same time: between `ZSCORE` and `ZADD` the score of all time
  is still what was read, since the only other writer to that key for this player would be
  a second task. Midnight does not matter, because the key of all time has no date.
* `AnswersAreSound` (`AnswersAreTops`): boards stay finite, and the last rank that `fetch_top`
  asks for, in numbers that wrap around, is below the limit.
* `BestScoresNest` (`PeriodsNest`, a part of `PeriodsInStep`): keys are shared, but the dates
  of one day's key are in one week, month, season and year, so of each date the day is at
  most the longer period, except where the one task that works on this player has written
  the day and not yet come to the other (`Pending`). `NestOK` says so, and that what a task
  has read of a board is still there.
* `PeriodsStayInStep` (`PeriodsInStep`), which adds the boards that add up
  (`ShorterPeriodsLead`, `PeriodsAgree`). What a task is about to enter is `Waiting` for one
  period; what is on the boards of a period and waiting for them came off the period before,
  or was granted (`InStep`): exactly as much, unless tasks die, which only takes away from
  what is waiting. It holds of the sums, not of any one key, since midnight may part the keys
  of one score.

### Scores_proofs: Participation

* `TypeCorrect` and `TimesAreSound` (`TimeSound`). `TimeInv` says up to which moment a
  participant's times are settled (`Until`), and that they fit into the time from the first
  join to that moment (`SumsOK`): at most, or exactly where nothing can be lost. Between the
  two steps of a join or a leave the copy in hand is settled up to now and the moment not yet
  set, so the times of the subject are only promised of the clock; a handler that dies there
  leaves the match as it was. The end settles them up to the end of the match (`ClosedOK`).
* `ResultsAreSound` (`ResultsSound`), in two steps. `ResultInv` is about the boards:
  `OnceOK` says that the match in Redis is marked as ended (by the write of
  `MapRecordListener`, as the first participant is settled) before any result is counted, so
  whoever has still to be settled has one match less on the boards than were started, and a
  repeated end finds no match; `LeadOK`, that the boards are ahead by what the player is about
  to get. `AgreeInv` is about the player: a match that is still to come (`ToCome`) is not in
  the gamemodes yet (`PlayedOnce`), and the player's own counters and xp are the sums of those
  of the gamemodes (`AgreeOK`), since `get_match_result` and the thresholds come to the same
  in all three listeners (`SameResults`, `XpOfResults`).

### Statistics_proofs

* `TypeCorrect`: every listener makes a document out of a document (`ListenPlayerIs`,
  `ListenParticipantIs`, ...), and whom a handler serves at the boards is in its copy of the match.
* `BreaksOnlyLeaveOrder` (`BreaksLeaveOrder`) with connections that die anywhere, and
  `BooksAlwaysBalance` (`BooksBalance`), both from one invariant, `Books`. An amount that is
  entered in several places is on its way from the first to the last: `Paid` is what a
  player has or is about to be written with, `Due` what the event at hand has yet to add.
  `BoardInv` has the boards ahead by what is due from the await of the board on; `LedgerInv`
  has players and matches agree when what is due is added, with less in the matches if
  something broke off; `MessageInv` counts the messages that a match has yet to tell the
  boards. `BloodInv`: the mark of the first blood is in Redis before it is counted, so until
  then there is a match without one. `DuelInv`: the killer is served before the victim, so
  the copy at hand is one kill ahead in between, and `MapRecordListener`, which writes the
  match before it has the kill, writes one that is not.
  `GamemodeInv`: a player's counters are at most the sums of its gamemodes', also in hand.
  `PluginInv`: what was told is what Redis has, or is about to have. `LevelInv`, `Heard` and
  `RecordInv`: the records of a match are those of its level or better, `MapRecordListener`
  has heard an event before anybody is served, so whatever record a player takes is in the
  match or in its level already; both follow from the order in which the router calls its
  listeners.
* A step is classified first (`Steps`: a match starts, a handler begins, a listener takes its
  turn, the handler ends or dies), and `Shape` says which roles are queued and what is in hand
  at each await; each invariant is then shown step by step.

### PlayerStore_proofs

* `TypeCorrect` and `CopiesAreSound` (`CopiesSound`), with overlap and deaths. `IInv` carries
  what the tasks have in hand: whole documents, and a task that is about to write to Redis
  has a player that is stored. Wholeness includes that the notes of a document have a highest
  id (`Bounded`), which the next one follows.
* `RequestsHaveEffect` and `NothingIsForgotten` (`RequestsTakeEffect`, `NothingForgotten`), of
  requests that follow one another. `OrderInv` has, for any names: one request is at work; a
  document in Redis is under a name that its player has had; who is online is cached under
  the present name. `SteadyInv` is for players who keep their names: each has one key, its
  two copies differ only in what was played since (`CopyInStep`), and a label that was
  deleted is in no copy but those that the deletion at work still has to visit (`LabelGone`).
  Where names change nothing is deleted, and each label in use exists.

### Admission_proofs

* `TypeCorrect`, and `BansAreKept` (`BansHold`): what a prelogin has found out of the
  punishments stays true of them (`BansInv`), since reversions only lift, time only goes on,
  and what is issued later is of no concern.
* `ListedPlayersExist` (`ListedAreStored`), whatever overlaps and fails, and whoever writes
  older copies back.
* `AddressesAreListed` (`DocumentsAreListed`), of requests in turn, with edits by any key: what
  is in Mongo, in a copy in Redis or in the hands of a task is listed, but for the one address
  that the prelogin at work has yet to list (`ListInv`). Edits may lose an address, but bring
  back only what was in some copy, so they never bring one that is not listed.
* `IdentitiesMatchDocuments` (`IdentitiesMatch`), in turn and by name: the copy under the name
  is Mongo's except while a task is between its two writes (`Fresh`), so what is saved has all
  that it overwrites (`Current`), and whom an address lists has it (`ListedHave`, the other
  half). All three as `AddressesAreSound`.

### Levels_proofs

* `TypeCorrect`; `RecordsOfEndedMatches` (`RecordsAreOfEndedMatches`), whoever overwrites
  whom: every copy of a level, wherever it is, has a record of a match that has ended, or is
  the copy of the match that set it (`RecordsInv`). `NamesAreUnique` (`LevelNamesUnique`) and
  both as `LevelsAreSound`.
* `LevelsOnlyMoveForward` (`LevelsMoveForward`): in turn, what `add_maps` has read is what it
  replaces (`ForwardInv`).

### Directory_proofs

* `TypeCorrect`, for each collection.
* `TagsStayDeleted` (`OnlyCreationAdds`), for any overlap: by the time a task saves, its
  request is the one it began with (`OwnRequest`), and the update of a tag changes only what
  is there.
* `RankNames` (`RankNamesBounded`): requests that overlap give a name at most one rank per
  task, for any number of requests (`FewContend`: looking for a name finds all ranks that
  have it, so those in each other's way are what the tasks are about to save); requests
  that follow one another give it one.
* `FirstStays` (`FirstNeverChanges`) of requests that follow one another: one task is busy
  at most, so what it has read about the collection still holds when it saves
  (`OneAtATime`, `NamesDiffer`).

### Model-checked only

* `EndIsRecorded` and `StartupEndsSessions`: liveness under fairness is out of the prover's
  reach.

### Sums

`MapThenSumSet` is a fold over a set, and the library's induction over finite sets takes a
predicate as its parameter, which the provers cannot instantiate. `Scores_proofs` and
`Statistics_proofs` therefore argue by the least counterexample: a fold picks a function on
the subsets of the set (`Adds`); that there is one (`SumExists`) and how it changes with one of
the numbers (`SumsChange`) hold since there is neither a least number of elements nor a least
subset for which they do not. `TotalType`, `TotalChanges`, `TotalOfZeros` and `TotalGrows`
are what the invariants use.

## 6. What is not modelled, and why

* Reads for a response (`status`, `events`, profiles, matches, levels, `get_alts_for_player`,
  `get_position`), framing, compression, JSON, authorisation, configuration, logging,
  webhooks, reports and broadcasts: input and output without state of the API's own.
* `update_join_sound` (`http/perks`): one more read, edit and save of a player, about a field
  that nothing else looks at; what its save does to the addresses is in `Admission` (`ByName`).
* Migrations: run instead of the API, once and alone.
* The player update listener: when it sends which copy is in `Statistics`; which fields go
  into the message is not.
* Code that nothing calls: `persist_cached_value`, `Leaderboard::set`, `populate_all_time`.
* Time is a clock in `Participation`, `Admission` and `Leaderboards`; in `MatchLifecycle` and
  `Sessions` timestamps are present or absent. That startup may end a match at a
  `last_alive_time` before its start has no effect on lengths: `get_length` is only asked of
  matches that `on_match_end` has ended.
* Mongo may fail in `MatchLifecycle` (`mode.faulty`); in the other modules its operations succeed
  or the task dies.
* Names of weapons, roles of messages and the text of duels: their counts only.

What startup loses or counts again (`http/server/mod.rs:49`), the upsert that brings back a
deleted rank or achievement, the addresses that a save of an older copy takes away
(`http/player/mod.rs:379`), and the unchecked names of tags are losses that the code does
incur; a property that excludes them would be false, so the properties are stated without
these cases, and the notes of the hazards say so.

## 7. Plan

What could follow:

* The end of a match composed with `PlayerStore`: `on_match_end` for several participants
   against requests about the same players.

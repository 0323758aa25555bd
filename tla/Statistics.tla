----------------------------- MODULE Statistics -----------------------------
(***************************************************************************)
(* What the events of a match add up to.  One event is counted in five     *)
(* places: the participant inside the match, the player's statistics, the  *)
(* statistics of each gamemode, the leaderboards, and the copy of the      *)
(* player that the plugin is sent.  Each has a listener of its own, and    *)
(* between any two writes the connection may die.                          *)
(*                                                                         *)
(* One server and one connection at a time: MatchLifecycle has the races   *)
(* over the match document, PlayerStore those over the player document.    *)
(***************************************************************************)
EXTENDS Integers, FiniteSets, FiniteSetsExt

CONSTANTS
  Player,
  Gamemode,      \* what levels can be tagged with
  Levels,        \* the levels, each its set of gamemodes
  Modes,         \* the circumstances that a behaviour may have
  Crowd,         \* how many participants a projectile record takes (6)
  BreaksRequired,\* of the destroyable
  NoOne, NoMatch, NoDoc

Kind == {"death", "chat", "killstreak", "killstreak_end", "flag_place", "flag_pickup", "flag_drop",
         "flag_defend", "wool_place", "wool_pickup", "wool_drop", "wool_defend",
         "destroyable_damage", "destroyable_destroy", "core_leak", "control_point_capture",
         "party_join", "match_end"}

\* how somebody dies: PlayerDeathData::cause and distance
NoDistance == -1
Shot == [cause : {"FALL", "VOID", "OTHER"}, distance : Nat \cup {NoDistance}]

\* What a behaviour is about.  levels and rosters are what its matches may be
\* played on and start with, kinds the events that the plugin sends, shots the
\* deaths that happen, amounts the block counts, percentages, hold times,
\* streaks and delays; startXp is the xp that players bring along.
\* mayDie: may a connection die between two steps of a handler?
\* orderly: does the plugin end a match before the next one, and is it silent
\* in between?  The last two bound what it sends.
Mode == [levels : SUBSET Levels, rosters : SUBSET SUBSET Player, kinds : SUBSET Kind,
         shots : SUBSET Shot, amounts : SUBSET Nat, multipliers : SUBSET Nat, startXp : Nat,
         mayDie : BOOLEAN, orderly : BOOLEAN, maxEvents : Nat, maxRounds : Nat]

ASSUME StatisticsAssumption ==
  /\ Levels \subseteq SUBSET Gamemode
  /\ Modes \subseteq Mode
  /\ BreaksRequired \in Nat \ {0}
  /\ IsFiniteSet(Player) /\ IsFiniteSet(Gamemode)
  /\ NoOne \notin Player

VARIABLES
  mode,        \* the mode of this behaviour: it never changes
  match,       \* the working copy in Redis: key match:<id>
  level,       \* the records of each level in Mongo
  profile,     \* the players in Redis
  board,       \* the leaderboards of all time, but for the highest killstreak
  streak,      \* the leaderboard of highest killstreaks
  told,        \* the copy of each player that the plugin got last
  past,        \* what the working copies of earlier matches held at last
  multiplier,  \* key server:<id>:events
  pc,          \* the await that the handler is at
  ev,          \* the event it handles
  queue,       \* whom it has yet to serve, and in which role
  hand,        \* its copy of the match
  taken,       \* at the end of a match, the participants taken out of hand
  subject,     \* the one it serves
  prof,        \* its copy of the player
  rounds, events   \* how many matches were played and events sent

stores == <<match, level, profile, board, streak, told, past, multiplier, rounds>>
local == <<ev, queue, hand, taken, subject, prof>>
vars == <<mode, stores, pc, local, events>>

-----------------------------------------------------------------------------
(* Counters.                                                               *)

Flags == {"flag_captures", "flag_pickups", "flag_drops", "flag_defends", "flag_hold_time"}
Wools == {"wool_captures", "wool_pickups", "wool_drops", "wool_defends"}
Goals == {"core_leaks", "core_block_destroys", "destroyable_destroys",
          "destroyable_block_destroys", "control_point_captures"}

\* PlayerObjectiveStatistics
Objectives == Flags \cup Wools \cup Goals

\* PlayerStats and ParticipantStats.  The maps by weapon keep two keys,
\* PROJECTILE and a weapon; messages are counted whatever their channel and
\* killstreaks whatever their length.
Counter == Objectives \cup
  {"kills", "deaths", "void_kills", "void_deaths", "first_bloods", "first_bloods_suffered",
   "weapon_kills", "projectile_kills", "weapon_deaths", "projectile_deaths",
   "killstreaks", "killstreaks_ended", "messages", "xp"}

Zero == [c \in Counter |-> 0]
Add(f, g) == [c \in Counter |-> f[c] + g[c]]

\* One more of each of these, and n more of that
Tally(ones, many, n) ==
  [c \in Counter |-> (IF c \in ones THEN 1 ELSE 0) + (IF c = many THEN n ELSE 0)]

One(c) == Tally({c}, c, 0)

-----------------------------------------------------------------------------
(* What the listeners count.  An event e reaches a listener once for each  *)
(* of its subjects, in the role of the method that is called.              *)

\* PlayerStatListener counts the time a flag was held at either end.
CountFlag(e, role) ==
  CASE role = "flag_place" -> Tally({"flag_captures"}, "flag_hold_time", e.n)
    [] role = "flag_drop" -> Tally({"flag_drops"}, "flag_hold_time", e.n)
    [] role = "flag_pickup" -> One("flag_pickups")
    [] role = "flag_defend" -> One("flag_defends")
    [] OTHER -> Zero

CountWool(e, role) ==
  CASE role = "wool_place" -> One("wool_captures")
    [] role = "wool_drop" -> One("wool_drops")
    [] role = "wool_pickup" -> One("wool_pickups")
    [] role = "wool_defend" -> One("wool_defends")
    [] OTHER -> Zero

CountGoal(e, role) ==
  CASE role = "destroyable_damage" -> Tally({}, "destroyable_block_destroys", e.n)
    [] role = "destroyable_destroy" -> One("destroyable_destroys")
    [] role = "core_leak" -> Tally({"core_leaks"}, "core_block_destroys", e.n)
    [] role = "control_point_capture" -> One("control_point_captures")
    [] OTHER -> Zero

CountObjective(e, role) ==
  Add(CountGoal(e, role), Add(CountFlag(e, role), CountWool(e, role)))

\* PlayerDeathData::safe_weapon: whatever was shot, unless it fell, was killed
\* by a PROJECTILE.
Projectile(e) == e.distance # NoDistance /\ e.cause # "FALL"

\* PlayerDeathData::is_murder
Murder(e) == e.attacker # NoOne /\ e.attacker # e.player

Weapon(e, shot, other) == IF Projectile(e) THEN shot ELSE other

\* on_kill, on_death and the like of PlayerStatListener
CountCombat(e, role) ==
  CASE role = "kill" ->
         Tally({"kills", Weapon(e, "projectile_kills", "weapon_kills")}
                 \cup (IF e.cause = "VOID" THEN {"void_kills"} ELSE {})
                 \cup (IF e.blood THEN {"first_bloods"} ELSE {}), "none", 0)
    [] role = "death" ->
         Tally({"deaths"}
                 \cup (IF e.cause = "VOID" THEN {"void_deaths"} ELSE {})
                 \cup (IF e.blood THEN {"first_bloods_suffered"} ELSE {})
                 \cup (IF Murder(e) THEN {Weapon(e, "projectile_deaths", "weapon_deaths")}
                                   ELSE {}), "none", 0)
    [] role = "killstreak" -> One("killstreaks")
    [] role = "killstreak_end" -> One("killstreaks_ended")
    [] role = "chat" -> One("messages")
    [] OTHER -> Zero

PlayerStat(e, role) == Add(CountCombat(e, role), CountObjective(e, role))

\* ParticipantStatListener counts the same in every match, tracked or not,
\* except that it knows no first bloods.
ParticipantCombat(e, role) ==
  [CountCombat(e, role) EXCEPT !["first_bloods"] = 0, !["first_bloods_suffered"] = 0]

ParticipantObjective(e, role) == CountObjective(e, role)

ParticipantStat(e, role) == Add(ParticipantCombat(e, role), ParticipantObjective(e, role))

\* Mutant of GamemodeCombat: the gamemodes do not count falls into the void.
GamemodeCombatNoVoid(e, role) ==
  LET byHand == [e EXCEPT !.distance = NoDistance, !.cause = "OTHER"]
  IN  [CountCombat(byHand, role) EXCEPT !["messages"] = 0, !["killstreaks_ended"] = 0]

\* PlayerGamemodeStatListener has a weapon of its own: the one in the hand.
\* It does not count messages and killstreaks that end.
GamemodeCombat(e, role) ==
  LET byHand == [e EXCEPT !.distance = NoDistance]
  IN  [CountCombat(byHand, role) EXCEPT !["messages"] = 0, !["killstreaks_ended"] = 0]

GamemodeObjective(e, role) == CountObjective(e, role)

GamemodeStat(e, role) == Add(GamemodeCombat(e, role), GamemodeObjective(e, role))

\* LeaderboardListener
BoardFlags(e, role) == CountFlag(e, role)

BoardWools(e, role) == CountWool(e, role)

\* A core counts for one block, and the blocks of a destroyable count when it
\* is destroyed rather than when they are broken.
BoardGoals(e, role) ==
  CASE role = "destroyable_destroy" ->
         Tally({"destroyable_destroys"}, "destroyable_block_destroys", e.n)
    [] role = "core_leak" -> Tally({"core_leaks", "core_block_destroys"}, "none", 0)
    [] role = "control_point_capture" -> One("control_point_captures")
    [] OTHER -> Zero

\* Messages reach the board when the match ends, from the participant.
BoardCombat(e, role, stats) ==
  CASE role = "kill" -> Tally({"kills"} \cup (IF e.blood THEN {"first_bloods"} ELSE {}), "none", 0)
    [] role = "death" -> One("deaths")
    [] role = "match_end" -> Tally({}, "messages", stats["messages"])
    [] OTHER -> Zero

BoardTally(e, role, stats) ==
  Add(BoardCombat(e, role, stats),
      Add(BoardGoals(e, role), Add(BoardFlags(e, role), BoardWools(e, role))))

-----------------------------------------------------------------------------
(* Records and experience.                                                 *)

NoRecord == -1
NoRecords == [blood |-> NoRecord, projectile |-> NoRecord, wool |-> NoRecord,
              flag |-> NoRecord, streak |-> 0, kills |-> 0, deaths |-> 0]

Faster(old, new) == IF old = NoRecord \/ new < old THEN new ELSE old
Higher(old, new) == IF new > old THEN new ELSE old

\* MapRecordListener, in every match.  The time of the first blood is e.n.
MapRecords(r, e, role, crowd, stats) ==
  CASE role = "kill" ->
         [r EXCEPT !.blood = IF e.blood THEN Faster(@, e.n) ELSE @,
                   !.projectile = IF Projectile(e) /\ crowd >= Crowd
                                  THEN Higher(@, e.distance) ELSE @]
    [] role = "killstreak" -> [r EXCEPT !.streak = Higher(@, e.n)]
    [] role = "wool_place" -> [r EXCEPT !.wool = Faster(@, e.n)]
    [] role = "flag_place" -> [r EXCEPT !.flag = Faster(@, e.n)]
    [] role = "match_end"  -> [r EXCEPT !.kills = Higher(@, stats["kills"]),
                                        !.deaths = Higher(@, stats["deaths"])]
    [] OTHER -> r

\* PlayerRecordListener, in tracked matches; it has no record for streaks.
PlayerRecords(r, e, role, crowd, stats) ==
  [MapRecords(r, e, role, crowd, stats) EXCEPT !.streak = r.streak]

Greater(a, b) == IF a > b THEN a ELSE b

\* Mutant of RawXp: a death takes one away, if need be from nothing.
RawXpPenalty(e, role) == IF role = "death" THEN -1 ELSE 40

\* PlayerXPListener.  At the end of a match e.team has won; everybody played
\* long enough for the result to count.
RawXp(e, role) ==
  CASE role = "kill" -> 40
    [] role = "death" -> 1
    [] role = "killstreak" -> 10 * e.n
    [] role = "destroyable_damage" -> (200 \div BreaksRequired) * e.n
    [] role \in {"wool_place", "wool_pickup", "wool_defend"} -> 100
    [] role = "flag_place" -> 50 + Greater(100 - e.n \div 1000, 0)
    [] role \in {"flag_pickup", "flag_defend"} -> 50
    [] role = "control_point_capture" -> Greater(40 - 10 * (Cardinality(e.team) + 1), 20)
    [] role = "core_leak" -> 2 * e.n
    [] OTHER -> 0

\* PlayerStats::get_level, without use_exponential_exp
Level(xp) == (xp + 5000) \div 5000

Gain(raw, lvl) == raw * (IF lvl > 10 THEN 1 ELSE Greater(10 - lvl, 1))

\* Player::add_xp: what the player has afterwards
AddXp(xp, raw) == xp + Greater(Gain(raw, Level(xp)), raw * multiplier)

\* The first blood is worth 7 more, at the level that the kill led to.
Xp(e, role, p, xp) ==
  CASE role = "match_end" -> xp + multiplier * (IF p \in e.team THEN 200 ELSE 100)
    [] role = "kill" /\ e.blood -> AddXp(AddXp(xp, 40), 7)
    [] OTHER -> AddXp(xp, RawXp(e, role))

-----------------------------------------------------------------------------
(* The documents.                                                          *)

Tracking(m) == "ARCADE" \notin m.level
GamemodesOf(m) == IF Tracking(m) THEN m.level ELSE {"ARCADE"}

Statistic == [Counter -> Nat]

Time == Nat \cup {NoRecord}
Records == [blood : Time, projectile : Time, wool : Time, flag : Time,
            streak : Nat, kills : Nat, deaths : Nat]

ParticipantDoc ==
  [stats : Statistic, duel_kills : [Player -> Nat], duel_deaths : [Player -> Nat]]

MatchDoc(roster) ==
  [state : {"InProgress", "Post"}, level : Levels, records : Records, blood : BOOLEAN,
   participants : [roster -> ParticipantDoc]]

PlayerDoc == [stats : Statistic, gamemodes : [Gamemode -> Statistic], records : Records]

ASSUME NoDocAssumption ==
  /\ \A roster \in SUBSET Player : NoMatch \notin MatchDoc(roster)
  /\ NoDoc \notin PlayerDoc

NewParticipant == [stats |-> Zero, duel_kills |-> [p \in Player |-> 0],
                   duel_deaths |-> [p \in Player |-> 0]]

Put(participants, p, part) ==
  [q \in DOMAIN participants \cup {p} |-> IF q = p THEN part ELSE participants[q]]

Duel(part, e, role) ==
  CASE role = "kill" -> [part EXCEPT !.duel_kills[e.player] = @ + 1]
    [] role = "death" /\ Murder(e) -> [part EXCEPT !.duel_deaths[e.attacker] = @ + 1]
    [] OTHER -> part

\* The participant listeners that only touch the participant
ListenParticipant(part, e, role) ==
  Duel([part EXCEPT !.stats = Add(@, ParticipantStat(e, role))], e, role)

\* The player listeners but for the last: statistics, gamemodes, xp, records.
\* The match they see has the participant already.
ListenPlayer(d, m, p, e, role) ==
  LET crowd == Cardinality(DOMAIN m.participants)
      stats == IF p \in DOMAIN m.participants THEN m.participants[p].stats ELSE Zero
      counted == IF Tracking(m) THEN Add(d.stats, PlayerStat(e, role)) ELSE d.stats
  IN  [stats |-> [counted EXCEPT !["xp"] = Xp(e, role, p, @)],
       gamemodes |-> [g \in Gamemode |->
                        IF g \in GamemodesOf(m) THEN Add(d.gamemodes[g], GamemodeStat(e, role))
                                                ELSE d.gamemodes[g]],
       records |-> IF Tracking(m) THEN PlayerRecords(d.records, e, role, crowd, stats)
                                  ELSE d.records]

NewPlayer == [stats |-> [Zero EXCEPT !["xp"] = mode.startXp],
              gamemodes |-> [g \in Gamemode |-> Zero],
              records |-> NoRecords]

-----------------------------------------------------------------------------
(* The plugin.                                                             *)

NoEvent == [kind |-> "none", player |-> NoOne, attacker |-> NoOne, cause |-> "OTHER",
            distance |-> NoDistance, n |-> 0, team |-> {}, blood |-> FALSE]
Nobody == [role |-> "none", who |-> NoOne]

\* The handlers that do not ask whether the match is in progress
Unchecked == {"chat", "destroyable_destroy", "core_leak", "flag_place", "flag_drop", "wool_place"}

\* A checked event out of place makes the server send FORCE_MATCH_END.
Accept(kind) ==
  /\ pc = "idle"
  /\ kind \in mode.kinds
  /\ events < mode.maxEvents
  /\ match # NoMatch
  /\ mode.orderly \/ kind \in Unchecked \/ match.state = "InProgress"
  /\ mode.orderly => match.state = "InProgress"

Handle(e, roles) ==
  /\ ev' = e
  /\ queue' = roles
  /\ events' = events + 1
  /\ pc' = "next"
  /\ UNCHANGED <<stores, subject, prof>>

\* on_player_death: the first murder of a match is its first blood.
OnPlayerDeath(v, a, shot, n) ==
  LET said == [NoEvent EXCEPT !.kind = "death", !.player = v, !.attacker = a,
                              !.cause = shot.cause, !.distance = shot.distance, !.n = n]
      e == [said EXCEPT !.blood = ~match.blood /\ Murder(said)]
  IN  /\ Accept("death")
      /\ hand' = [match EXCEPT !.blood = @ \/ e.blood]
      /\ Handle(e, {[role |-> "death", who |-> v]}
                     \cup (IF Murder(e) THEN {[role |-> "kill", who |-> a]} ELSE {}))
      /\ UNCHANGED taken

\* The handlers of what one player does
OnDeed(kind, p, n) ==
  /\ Accept(kind)
  /\ kind \in {"chat", "killstreak", "killstreak_end", "destroyable_damage", "flag_place",
               "flag_pickup", "flag_drop", "flag_defend", "wool_place", "wool_pickup",
               "wool_drop", "wool_defend"}
  /\ hand' = match
  /\ Handle([NoEvent EXCEPT !.kind = kind, !.player = p, !.n = n], {[role |-> kind, who |-> p]})
  /\ UNCHANGED taken

\* The handlers of what several players did together, in the plugin's order
OnTeamDeed(kind, team, n) ==
  /\ Accept(kind)
  /\ kind \in {"destroyable_destroy", "core_leak", "control_point_capture"}
  /\ hand' = match
  /\ Handle([NoEvent EXCEPT !.kind = kind, !.n = n, !.team = team],
            {[role |-> kind, who |-> p] : p \in team})
  /\ UNCHANGED taken

\* Who joins late is made a participant.
OnPartyJoin(p) ==
  /\ Accept("party_join")
  /\ hand' = IF p \in DOMAIN match.participants THEN match
             ELSE [match EXCEPT !.participants = Put(@, p, NewParticipant)]
  /\ Handle([NoEvent EXCEPT !.kind = "party_join", !.player = p],
            {[role |-> "party_join", who |-> p]})
  /\ UNCHANGED taken

\* on_match_end takes the participants out, and puts them back one by one.
OnMatchEnd(winners) ==
  /\ Accept("match_end")
  /\ taken' = match.participants
  /\ hand' = [match EXCEPT !.state = "Post", !.participants = << >>]
  /\ Handle([NoEvent EXCEPT !.kind = "match_end", !.team = winners],
            {[role |-> "match_end", who |-> p] : p \in DOMAIN match.participants})

\* What tracked matches held of a player when they gave way to the next
Held(m, p) ==
  IF m # NoMatch /\ Tracking(m) /\ p \in DOMAIN m.participants THEN m.participants[p].stats
                                                               ELSE Zero

\* A match is loaded, with what Mongo knows of its level, and started.
OnMatchStart(lvl, roster) ==
  /\ pc = "idle"
  /\ rounds < mode.maxRounds
  /\ mode.orderly /\ match # NoMatch => match.state = "Post"
  /\ match' = [state |-> "InProgress", level |-> lvl, records |-> level[lvl], blood |-> FALSE,
               participants |-> [p \in roster |-> NewParticipant]]
  /\ past' = [p \in Player |-> Add(past[p], Held(match, p))]
  /\ rounds' = rounds + 1
  /\ UNCHANGED <<level, profile, board, streak, told, multiplier, pc, local, events>>

\* PUT events/xp_multiplier, at any time
SetXpMultiplier(n) ==
  /\ multiplier' = n
  /\ n # multiplier
  /\ UNCHANGED <<match, level, profile, board, streak, told, past, rounds, pc, local, events>>

-----------------------------------------------------------------------------
(* The handler.  An action goes from one write to the next; what a          *)
(* listener writes in one go (the increments of LeaderboardListener, the    *)
(* messages to the plugin) is one write.                                    *)

Forget ==
  /\ pc' = "idle"
  /\ ev' = NoEvent /\ queue' = {} /\ hand' = NoMatch /\ taken' = << >>
  /\ subject' = Nobody /\ prof' = NoDoc

\* The participant that a role is about
Present(p) == p \in DOMAIN (IF ev.kind = "match_end" THEN taken ELSE hand.participants)
Participant(p) == IF ev.kind = "match_end" THEN taken[p] ELSE hand.participants[p]

\* MapRecordListener writes the match to Redis in these methods.
InterimRoles == {"kill", "killstreak", "wool_place", "flag_place", "match_end"}

Upcoming(s) == s \in queue /\ (s.role = "death" => \A u \in queue : u.role # "kill")

\* Mutant of ListenAsParticipant: the match is written with the participant.
ListenAsParticipantSaved(s) ==
  LET part == ListenParticipant(Participant(s.who), ev, s.role)
      records == MapRecords(hand.records, ev, s.role, Cardinality(DOMAIN hand.participants),
                            part.stats)
      saved == [hand EXCEPT !.records = records, !.participants = Put(@, s.who, part)]
  IN  /\ pc = "next" /\ Upcoming(s) /\ Present(s.who)
      /\ match' = IF s.role \in InterimRoles THEN saved ELSE match
      /\ hand' = saved
      /\ queue' = queue \ {s}
      /\ subject' = s
      /\ pc' = "board"
      /\ UNCHANGED <<level, profile, board, streak, told, past, multiplier, rounds, events,
                     ev, taken, prof>>

\* ParticipantStatListener and MapRecordListener.  The match that the latter
\* writes does not have the participant's new statistics yet.
ListenAsParticipant(s) ==
  LET part == ListenParticipant(Participant(s.who), ev, s.role)
      records == MapRecords(hand.records, ev, s.role, Cardinality(DOMAIN hand.participants),
                            part.stats)
  IN  /\ pc = "next" /\ Upcoming(s) /\ Present(s.who)
      /\ match' = IF s.role \in InterimRoles THEN [hand EXCEPT !.records = records] ELSE match
      /\ hand' = [hand EXCEPT !.records = records, !.participants = Put(@, s.who, part)]
      /\ queue' = queue \ {s}
      /\ subject' = s
      /\ pc' = "board"
      /\ UNCHANGED <<level, profile, board, streak, told, past, multiplier, rounds, events,
                     ev, taken, prof>>

\* Who is not in the match is skipped, is no reason to go on, or makes the
\* handler panic.  Only what is said in the chat counts all the same.
ListenAsStranger(s) ==
  /\ pc = "next" /\ Upcoming(s) /\ ~Present(s.who)
  /\ CASE s.role = "chat" ->
            /\ subject' = s /\ queue' = queue \ {s} /\ pc' = "player"
            /\ UNCHANGED <<ev, hand, taken, prof>>
       [] s.role = "destroyable_destroy" ->
            /\ queue' = queue \ {s}
            /\ UNCHANGED <<pc, ev, hand, taken, subject, prof>>
       [] OTHER -> Forget
  /\ UNCHANGED <<stores, events>>

\* LeaderboardListener
ListenAsBoard ==
  LET p == subject.who
  IN  /\ pc = "board"
      /\ IF Tracking(hand)
         THEN /\ board' = [board EXCEPT ![p] =
                             Add(@, BoardTally(ev, subject.role, Participant(p).stats))]
              /\ streak' = IF subject.role = "killstreak"
                           THEN [streak EXCEPT ![p] = Higher(@, ev.n)] ELSE streak
         ELSE UNCHANGED <<board, streak>>
      /\ pc' = "player"
      /\ UNCHANGED <<match, level, profile, told, past, multiplier, rounds, events, local>>

\* PlayerUpdateListener: whatever happened, the plugin is sent the copy that
\* the listeners before it have edited.
Send(p, d) == told' = [told EXCEPT ![p] = d]

\* The player is read, the player listeners edit the copy, xp goes to the
\* board at once, and PlayerUpdateListener sends the copy to the plugin.
ListenAsPlayer ==
  LET p == subject.who
      new == ListenPlayer(profile[p], hand, p, ev, subject.role)
  IN  /\ pc = "player"
      /\ prof' = new
      /\ board' = [board EXCEPT ![p]["xp"] = @ + new.stats["xp"] - profile[p].stats["xp"]]
      /\ Send(p, new)
      /\ pc' = "save"
      /\ UNCHANGED <<match, level, profile, streak, past, multiplier, rounds, events,
                     ev, queue, hand, taken, subject>>

\* Participant::set_player, which is for Redis only
SetPlayer ==
  /\ pc = "save"
  /\ profile' = [profile EXCEPT ![subject.who] = prof]
  /\ prof' = NoDoc
  /\ pc' = "next"
  /\ UNCHANGED <<match, level, board, streak, told, past, multiplier, rounds, events,
                 ev, queue, hand, taken, subject>>

\* At the end of a match the level goes to Mongo with the records.
SaveLevel ==
  /\ pc = "next" /\ queue = {} /\ ev.kind = "match_end"
  /\ level' = [level EXCEPT ![hand.level] = hand.records]
  /\ pc' = "match"
  /\ UNCHANGED <<match, profile, board, streak, told, past, multiplier, rounds, events, local>>

\* The match is written when everybody is served.
SetMatch ==
  /\ \/ pc = "next" /\ queue = {} /\ ev.kind # "match_end"
     \/ pc = "match"
  /\ match' = hand
  /\ Forget
  /\ UNCHANGED <<level, profile, board, streak, told, past, multiplier, rounds, events>>

\* The connection breaks, or the process goes down.
Die ==
  /\ mode.mayDie /\ pc # "idle"
  /\ Forget
  /\ UNCHANGED <<stores, events>>

Init ==
  /\ mode \in Modes
  /\ match = NoMatch
  /\ level = [l \in Levels |-> NoRecords]
  /\ profile = [p \in Player |-> NewPlayer]
  /\ board = [p \in Player |-> [Zero EXCEPT !["xp"] = mode.startXp]]
  /\ streak = [p \in Player |-> 0]
  /\ told = [p \in Player |-> NewPlayer]
  /\ past = [p \in Player |-> Zero]
  /\ multiplier = 1
  /\ pc = "idle" /\ ev = NoEvent /\ queue = {} /\ hand = NoMatch /\ taken = << >>
  /\ subject = Nobody /\ prof = NoDoc
  /\ rounds = 0 /\ events = 0

Next ==
  /\ \/ \E l \in mode.levels, r \in mode.rosters : OnMatchStart(l, r)
     \/ \E v \in Player, a \in Player \cup {NoOne}, s \in mode.shots, n \in mode.amounts :
          OnPlayerDeath(v, a, s, n)
     \/ \E k \in mode.kinds, p \in Player, n \in mode.amounts : OnDeed(k, p, n)
     \/ \E k \in mode.kinds, t \in SUBSET Player \ {{}}, n \in mode.amounts : OnTeamDeed(k, t, n)
     \/ \E p \in Player : OnPartyJoin(p)
     \/ \E t \in SUBSET Player : OnMatchEnd(t)
     \/ \E n \in mode.multipliers : SetXpMultiplier(n)
     \/ \E s \in queue : ListenAsParticipant(s) \/ ListenAsStranger(s)
     \/ ListenAsBoard \/ ListenAsPlayer \/ SetPlayer \/ SaveLevel \/ SetMatch
     \/ Die
  /\ UNCHANGED mode

Spec == Init /\ [][Next]_vars

-----------------------------------------------------------------------------
(* Properties.                                                             *)

Event == [kind : Kind \cup {"none"}, player : Player \cup {NoOne}, attacker : Player \cup {NoOne},
          cause : {"FALL", "VOID", "OTHER"}, distance : Nat \cup {NoDistance}, n : Nat,
          team : SUBSET Player, blood : BOOLEAN]
Service == [role : Kind \cup {"kill"}, who : Player]

\* The documents and the handler's copies of them have the shape that the
\* structs give them; a handler at work has a match, one that is at the boards
\* serves somebody in it, and one that is about to write a player has the player.
TypeOK ==
  /\ mode \in Modes
  /\ match # NoMatch => \E roster \in SUBSET Player : match \in MatchDoc(roster)
  /\ hand # NoMatch => \E roster \in SUBSET Player : hand \in MatchDoc(roster)
  /\ \E roster \in SUBSET Player : taken \in [roster -> ParticipantDoc]
  /\ level \in [Levels -> Records]
  /\ profile \in [Player -> PlayerDoc] /\ told \in [Player -> PlayerDoc]
  /\ board \in [Player -> Statistic] /\ past \in [Player -> Statistic]
  /\ streak \in [Player -> Nat] /\ multiplier \in Nat
  /\ rounds \in Nat /\ events \in Nat
  /\ ev \in Event /\ queue \subseteq Service /\ subject \in Service \cup {Nobody}
  /\ prof \in PlayerDoc \cup {NoDoc}
  /\ pc \in {"idle", "next", "board", "player", "save", "match"}
  /\ pc # "idle" => match # NoMatch /\ hand # NoMatch /\ ev.kind # "none"
  /\ prof # NoDoc <=> pc = "save"
  /\ pc \in {"board", "player", "save"} => subject \in Service
  /\ pc = "board" => Present(subject.who)

\* Counters that a player and the leaderboards are to agree on.  Blocks they
\* count differently, and messages the boards get when the match ends.
Ranked == (Objectives \ {"core_block_destroys", "destroyable_block_destroys"})
            \cup {"kills", "deaths", "first_bloods", "xp"}

\* Whatever breaks off, and whenever: the boards are written before the
\* player, so a player never shows a score that a leaderboard has not heard
\* of (LeaderboardListener, add_xp and Participant::set_player).
BoardLeadsProfile ==
  \A p \in Player : \A c \in Ranked : board[p][c] >= profile[p].stats[c]

\* Messages are counted in the player at once and on the board when the match
\* ends, so there it is the other way round.
MessagesReachTheBoardLast ==
  \A p \in Player : board[p]["messages"] <= profile[p].stats["messages"]

\* The player is written before the match: what the participants of tracked
\* matches hold is in their players too, however often a handler breaks off.
ProfileLeadsMatches ==
  \A p \in Player : \A c \in Counter :
    profile[p].stats[c] >= past[p][c] + Held(match, p)[c]

\* When nothing breaks off, the boards agree with the players between two
\* events, and so do the participants when everybody is in the match: the
\* handler that meets a stranger forgets the participants.
LedgersAgree ==
  pc = "idle" /\ ~mode.mayDie =>
    \A p \in Player :
      /\ \A c \in Ranked : board[p][c] = profile[p].stats[c]
      /\ mode.rosters \subseteq {Player} =>
           \A c \in Counter \ {"first_bloods", "first_bloods_suffered", "xp"} :
             profile[p].stats[c] = past[p][c] + Held(match, p)[c]

\* In a player, the gamemodes other than Arcade account for the statistics of
\* tracked matches, if each level has a gamemode.
GamemodesAccountFor == {} \notin mode.levels =>
  \A p \in Player : \A c \in Counter \ {"xp", "messages", "killstreaks_ended", "weapon_kills",
                                        "weapon_deaths", "projectile_kills", "projectile_deaths"} :
    profile[p].stats[c] <=
      MapThenSumSet(LAMBDA g : profile[p].gamemodes[g][c], Gamemode \ {"ARCADE"})

\* The board of first bloods has one per match at most: a handler that breaks
\* off after it has counted one has marked the match before.
OneFirstBloodPerMatch ==
  MapThenSumSet(LAMBDA p : board[p]["first_bloods"], Player) <= rounds

\* In a match, the kills that one player claims over another are the deaths
\* that the other admits, also after a handler broke off between the two.
DuelsMirror ==
  match # NoMatch =>
    \A p, q \in DOMAIN match.participants :
      match.participants[p].duel_kills[q] = match.participants[q].duel_deaths[p]

\* Between two events the plugin has the players that Redis has, if nothing
\* breaks off: the copy that is sent is the one that is written.
PluginInStep == pc = "idle" /\ ~mode.mayDie => told = profile

\* A player's record in a tracked match is not better than the best of the
\* levels, once the match is over (records of a level reach Mongo when its
\* match ends, those of a player at once).
LevelsCoverPlayers ==
  pc = "idle" /\ ~mode.mayDie /\ mode.orderly /\ match # NoMatch /\ match.state = "Post" =>
    \A p \in Player :
      /\ \A r \in {"projectile", "kills", "deaths"} :
           \E l \in Levels : level[l][r] >= profile[p].records[r]
      /\ \A r \in {"blood", "wool", "flag"} :
           profile[p].records[r] # NoRecord =>
             \E l \in Levels : level[l][r] \in 0..profile[p].records[r]
      /\ \E l \in Levels : level[l].streak >= streak[p]

\* When handlers come to their end, what different listeners make of the same
\* events agrees: participants, players, gamemodes, boards, the records of
\* levels, and what the plugin was sent.
BooksBalance == LedgersAgree /\ GamemodesAccountFor /\ PluginInStep /\ LevelsCoverPlayers

\* When handlers break off, wherever that is, the books part only one way:
\* boards lead players, players lead matches, a first blood is given once, and
\* both sides of a duel agree.
BreaksLeaveOrder ==
  /\ BoardLeadsProfile
  /\ MessagesReachTheBoardLast
  /\ ProfileLeadsMatches
  /\ OneFirstBloodPerMatch
  /\ DuelsMirror
=============================================================================

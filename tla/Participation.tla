---------------------------- MODULE Participation ----------------------------
(***************************************************************************)
(* Who plays for how long, and what a match's result does to them.  A      *)
(* participant's playtime and time away are sums of differences between    *)
(* readings of a clock that moves on by itself; when the match ends, the   *)
(* playtime decides whether its result counts, and four listeners write it *)
(* down: into the player, the player's gamemodes, the player's xp, and the *)
(* leaderboards.                                                           *)
(*                                                                         *)
(* One connection at a time, as in Statistics; time runs in any unit.      *)
(***************************************************************************)
EXTENDS Integers, FiniteSets, FiniteSetsExt

CONSTANTS
  Player, Party,
  Gamemode,     \* the one gamemode of each level; "ARCADE" is not tracked
  Share,        \* a result counts after 1/Share of the match (10),
  LongEnough,   \* or after this time (60 000 ms)
  AwayLimit,    \* who was away less was there all the time (20 000 ms)
  NoParty, NoMatch, NoOne,
  Never,        \* the absent timestamp
  Modes         \* what a behaviour may be like, see Mode

\* Who plays which gamemodes; the parties, or none, that players can be in as a
\* match starts; may the connection die in the middle of a handler?; does the
\* clock move on while a handler runs?; do players leave one party before they
\* join another?; and bounds on the clock, the matches played, and the joins and
\* leaves in all.
Mode == [players : SUBSET Player, gamemodes : SUBSET Gamemode, seats : SUBSET (Party \cup {NoParty}),
         mayDie : BOOLEAN, restless : BOOLEAN, polite : BOOLEAN,
         time : Nat, rounds : Nat, moves : Nat]

Participant ==
  [party : Party \cup {NoParty}, first : Nat, joined : Nat \cup {Never}, left : Nat \cup {Never},
   playtime : Nat, away : Nat]
Match ==
  [gamemode : Gamemode, started : Nat, ended : Nat \cup {Never},
   participants : UNION {[present -> Participant] : present \in SUBSET Player}]

ASSUME ParticipationAssumption ==
  /\ Share \in Nat \ {0} /\ LongEnough \in Nat /\ AwayLimit \in Nat
  /\ NoParty \notin Party /\ NoOne \notin Player /\ NoMatch \notin Match
  /\ Never \notin Nat
  /\ IsFiniteSet(Gamemode)
  /\ Modes \subseteq Mode

VARIABLES
  mode,       \* the mode of this behaviour: it never changes
  now,        \* get_u64_time_millis
  match,      \* the match in Redis
  profile,    \* the book of each player: PlayerStats
  gamemodes,  \* their books by gamemode: GamemodeStats
  xp,         \* what they were given for results
  board,      \* the leaderboards of wins, losses, ties, matches, playtime
  pc,         \* the await the handler is at
  hand,       \* its copy of the match
  taken,      \* participants taken out of hand, still to be settled
  subject,    \* the participant it serves
  joining,    \* the party that the subject is to join
  winners,    \* the parties that have won
  rounds, moves   \* how many matches were started, parties joined and left

books == <<profile, gamemodes, xp, board>>
local == <<hand, taken, subject, joining, winners>>
vars == <<mode, now, match, books, pc, local, rounds, moves>>

Restless == mode.restless
Polite == mode.polite

-----------------------------------------------------------------------------
\* Match::save_participants, of one participant
Put(participants, p, part) ==
  [q \in DOMAIN participants \cup {p} |-> IF q = p THEN part ELSE participants[q]]

Result == {"wins", "losses", "ties"}
Entry == Result \cup {"matches", "present_start", "present_full", "present_end", "playtime"}

EmptyBook == [e \in Entry |-> 0]
Enter(book, lines) == [e \in Entry |-> book[e] + lines[e]]

\* Participant::from_simple: the clock starts whether or not there is a party.
FromSimple(party, t) ==
  [party |-> party, first |-> t, joined |-> t, left |-> Never, playtime |-> 0, away |-> 0]

\* Match::get_length, of a match that has ended; u64
Length(m) == m.ended - m.started

\* Playtime above a tenth of the match or above a minute
LongPlayed(part, m) ==
  Share * part.playtime > IF Length(m) < Share * LongEnough THEN Length(m) ELSE Share * LongEnough

Early(part, m) ==
  Share * (part.first - m.started)
    < IF Length(m) < Share * LongEnough THEN Length(m) ELSE Share * LongEnough

\* MatchEndData::is_tie
IsTie == winners = {} \/ Cardinality(winners) = Cardinality(Party)

\* Participant::get_match_result; {} is Intermediate
ResultOf(part) ==
  IF part.party = NoParty THEN {}
  ELSE IF IsTie THEN {"ties"}
  ELSE IF part.party \in winners THEN {"wins"} ELSE {"losses"}

One(b) == IF b THEN 1 ELSE 0

\* What PlayerStatListener adds to a player at the end of a match
Outcome(part, m) ==
  [e \in Entry |->
    CASE e \in Result -> One(LongPlayed(part, m) /\ e \in ResultOf(part))
      [] e = "matches" -> One(LongPlayed(part, m))
      [] e = "present_start" -> One(Early(part, m))
      [] e = "present_full" -> One(part.away < AwayLimit /\ part.party # NoParty)
      [] e = "present_end" -> One(part.party # NoParty)
      [] e = "playtime" -> part.playtime]

\* PlayerGamemodeStatListener computes all of it again, for the gamemode of
\* the level, with a subtraction of its own that does not stop at zero.
GamemodeOutcome(part, m) ==
  LET limit == IF Length(m) < Share * LongEnough THEN Length(m) ELSE Share * LongEnough
      counts == Share * part.playtime > limit
  IN  [e \in Entry |->
        CASE e \in Result -> One(counts /\ e \in ResultOf(part))
          [] e = "matches" -> One(counts)
          [] e = "present_start" -> One(Share * (part.first - m.started) < limit)
          [] e = "present_full" -> One(part.party # NoParty /\ part.away < AwayLimit)
          [] e = "present_end" -> One(part.party # NoParty)
          [] e = "playtime" -> part.playtime]

\* PlayerXPListener, at a multiplier of one
ResultXp(part, m) ==
  One(LongPlayed(part, m)) *
    (200 * One("wins" \in ResultOf(part)) + 100 * One("losses" \in ResultOf(part))
       + 150 * One("ties" \in ResultOf(part)))

\* LeaderboardListener does not ask how long one has played.
BoardOutcome(part, m) ==
  [e \in Entry |->
    CASE e \in Result -> One(e \in ResultOf(part))
      [] e = "matches" -> 1
      [] e = "playtime" -> part.playtime
      [] OTHER -> 0]

Tracking(m) == m.gamemode # "ARCADE"

-----------------------------------------------------------------------------
(* The clock and the handlers.                                             *)

Forget ==
  /\ pc' = "idle"
  /\ hand' = NoMatch /\ taken' = << >> /\ subject' = NoOne
  /\ joining' = NoParty /\ winners' = {}

Tick ==
  /\ now < mode.time
  /\ Restless \/ pc = "idle"
  /\ now' = now + 1
  /\ UNCHANGED <<match, books, pc, local, rounds, moves>>

InProgress == pc = "idle" /\ match # NoMatch /\ match.ended = Never

\* Mutant of OnMatchStart: the participants are made before the match starts.
OnMatchStartLate(gamemode, roster) ==
  /\ pc = "idle"
  /\ rounds < mode.rounds
  /\ \E t \in {now} \cup (IF Restless /\ now < mode.time THEN {now + 1} ELSE {}) :
       /\ now' = t
       /\ match' = [gamemode |-> gamemode, started |-> t, ended |-> Never,
                    participants |-> [p \in DOMAIN roster |-> FromSimple(roster[p], now)]]
  /\ rounds' = rounds + 1
  /\ UNCHANGED <<books, pc, local, moves>>

\* MatchPhaseListener::on_start, of a match that was loaded before: it reads
\* the clock for the match first and for the participants then.
OnMatchStart(gamemode, roster) ==
  /\ pc = "idle"
  /\ rounds < mode.rounds
  /\ \E t \in {now} \cup (IF Restless /\ now < mode.time THEN {now + 1} ELSE {}) :
       /\ now' = t
       /\ match' = [gamemode |-> gamemode, started |-> now, ended |-> Never,
                    participants |-> [p \in DOMAIN roster |-> FromSimple(roster[p], t)]]
  /\ rounds' = rounds + 1
  /\ UNCHANGED <<books, pc, local, moves>>

\* on_party_join: who is not a participant is made one, and
\* ParticipantStatListener adds the time since the last party was left, which
\* is never forgotten.
OnPartyJoin(p, party) ==
  LET member == p \in DOMAIN match.participants
      part == IF member THEN match.participants[p] ELSE FromSimple(party, now)
  IN  /\ InProgress
      /\ moves < mode.moves /\ moves' = moves + 1
      /\ Polite /\ member => part.party = NoParty
      /\ hand' = [match EXCEPT !.participants =
                    Put(@, p, [part EXCEPT !.away =
                                 IF part.left = Never THEN @ ELSE @ + (now - part.left)])]
      /\ subject' = p /\ joining' = party
      /\ pc' = "party_join"
      /\ UNCHANGED <<now, match, books, taken, winners, rounds>>

\* Mutant of JoinParty: the clock goes on from the last time.
JoinPartyAgain ==
  /\ pc = "party_join"
  /\ hand' = [hand EXCEPT !.participants[subject].party = joining,
                          !.participants[subject].joined = IF @ = Never THEN hand.started ELSE @]
  /\ pc' = "match"
  /\ UNCHANGED <<now, match, books, taken, subject, joining, winners, rounds, moves>>

\* ParticipantPartyListener::on_party_join reads the clock again.
JoinParty ==
  /\ pc = "party_join"
  /\ hand' = [hand EXCEPT !.participants[subject].party = joining,
                          !.participants[subject].joined = now]
  /\ pc' = "match"
  /\ UNCHANGED <<now, match, books, taken, subject, joining, winners, rounds, moves>>

\* on_party_leave of somebody whose clock runs; otherwise the handler panics
\* before it has changed anything.  ParticipantStatListener counts the time.
OnPartyLeave(p) ==
  /\ InProgress
  /\ moves < mode.moves /\ moves' = moves + 1
  /\ p \in DOMAIN match.participants
  /\ match.participants[p].joined # Never
  /\ Polite => match.participants[p].party # NoParty
  /\ hand' = [match EXCEPT !.participants[p].playtime =
                @ + (now - match.participants[p].joined)]
  /\ subject' = p
  /\ pc' = "party_leave"
  /\ UNCHANGED <<now, match, books, taken, joining, winners, rounds>>

\* ParticipantPartyListener::on_party_leave
LeaveParty ==
  /\ pc = "party_leave"
  /\ hand' = [hand EXCEPT !.participants[subject].party = NoParty,
                          !.participants[subject].left = now,
                          !.participants[subject].joined = Never]
  /\ pc' = "match"
  /\ UNCHANGED <<now, match, books, taken, subject, joining, winners, rounds, moves>>

\* on_match_end: MatchPhaseListener::on_end, and the participants are taken
\* out, to be settled and put back one by one.
OnMatchEnd(won) ==
  /\ InProgress
  /\ hand' = [match EXCEPT !.ended = now, !.participants = << >>]
  /\ taken' = match.participants
  /\ winners' = won
  /\ pc' = "settle"
  /\ UNCHANGED <<now, match, books, subject, joining, rounds, moves>>

Settled(part) ==
  IF part.party # NoParty /\ part.joined # Never
  THEN [part EXCEPT !.playtime = @ + (hand.ended - part.joined)] ELSE part

\* Mutant of ListenAsParticipant: MapRecordListener does not write the match.
ListenAsParticipantUnwritten(p) ==
  /\ pc = "settle" /\ p \in DOMAIN taken
  /\ taken' = [q \in DOMAIN taken \ {p} |-> taken[q]]
  /\ hand' = [hand EXCEPT !.participants = Put(@, p, Settled(taken[p]))]
  /\ subject' = p
  /\ pc' = "board"
  /\ UNCHANGED <<match, now, books, joining, winners, rounds, moves>>

\* ParticipantStatListener counts what was played since the last join, and
\* MapRecordListener writes the match, in which this participant is missing.
ListenAsParticipant(p) ==
  /\ pc = "settle" /\ p \in DOMAIN taken
  /\ match' = hand
  /\ taken' = [q \in DOMAIN taken \ {p} |-> taken[q]]
  /\ hand' = [hand EXCEPT !.participants = Put(@, p, Settled(taken[p]))]
  /\ subject' = p
  /\ pc' = "board"
  /\ UNCHANGED <<now, books, joining, winners, rounds, moves>>

Part == hand.participants[subject]

\* LeaderboardListener
ListenAsBoard ==
  /\ pc = "board"
  /\ board' = IF Tracking(hand)
              THEN [board EXCEPT ![subject] = Enter(@, BoardOutcome(Part, hand))] ELSE board
  /\ pc' = "player"
  /\ UNCHANGED <<now, match, profile, gamemodes, xp, local, rounds, moves>>

\* The player listeners edit a copy of the player, which is written as one.
ListenAsPlayer ==
  /\ pc = "player"
  /\ profile' = IF Tracking(hand)
                THEN [profile EXCEPT ![subject] = Enter(@, Outcome(Part, hand))] ELSE profile
  /\ gamemodes' = [gamemodes EXCEPT ![subject][hand.gamemode] =
                     Enter(@, GamemodeOutcome(Part, hand))]
  /\ xp' = [xp EXCEPT ![subject] = @ + ResultXp(Part, hand)]
  /\ subject' = NoOne
  /\ pc' = "settle"
  /\ UNCHANGED <<now, match, board, hand, taken, joining, winners, rounds, moves>>

SetMatch ==
  /\ pc = "match" \/ (pc = "settle" /\ taken = << >>)
  /\ match' = hand
  /\ Forget
  /\ UNCHANGED <<now, books, rounds, moves>>

Die ==
  /\ mode.mayDie /\ pc # "idle"
  /\ Forget
  /\ UNCHANGED <<now, match, books, rounds, moves>>

Init ==
  /\ mode \in Modes
  /\ now = 0
  /\ match = NoMatch
  /\ profile = [p \in Player |-> EmptyBook]
  /\ gamemodes = [p \in Player |-> [g \in Gamemode |-> EmptyBook]]
  /\ xp = [p \in Player |-> 0]
  /\ board = [p \in Player |-> EmptyBook]
  /\ pc = "idle" /\ hand = NoMatch /\ taken = << >> /\ subject = NoOne
  /\ joining = NoParty /\ winners = {}
  /\ rounds = 0 /\ moves = 0

Next ==
  /\ \/ Tick
     \/ \E g \in mode.gamemodes, present \in SUBSET mode.players :
          \E roster \in [present -> mode.seats] : OnMatchStart(g, roster)
     \/ \E p \in mode.players, party \in Party : OnPartyJoin(p, party)
     \/ \E p \in mode.players : OnPartyLeave(p)
     \/ \E won \in SUBSET Party : OnMatchEnd(won)
     \/ JoinParty \/ LeaveParty
     \/ \E p \in DOMAIN taken : ListenAsParticipant(p)
     \/ ListenAsBoard \/ ListenAsPlayer \/ SetMatch
     \/ Die
  /\ UNCHANGED mode

Spec == Init /\ [][Next]_vars

-----------------------------------------------------------------------------
(* Properties.                                                             *)

Time == 0..mode.time
Book == [Entry -> Nat]

\* Documents have the shape of their structs, and no difference of u64
\* timestamps is below zero: none of the subtractions of get_length,
\* on_party_join, on_match_end_v2 and the gamemode listener wraps around.
TypeOK ==
  /\ mode \in Modes
  /\ now \in Time
  /\ \A m \in {match, hand} \ {NoMatch} :
       /\ m.started \in Time /\ m.ended \in Time \cup {Never}
       /\ m.ended # Never => Length(m) >= 0
       /\ DOMAIN m.participants \subseteq Player
       /\ \A p \in DOMAIN m.participants :
            LET part == m.participants[p]
            IN  /\ part.party \in Party \cup {NoParty}
                /\ part.first \in m.started..now
                /\ part.joined \in m.started..now \cup {Never}
                /\ part.left \in m.started..now \cup {Never}
                /\ part.playtime \in Nat /\ part.away \in Nat
  /\ \A p \in Player : {profile[p], board[p]} \subseteq Book /\ xp[p] \in Nat
  /\ pc \in {"idle", "party_join", "party_leave", "settle", "board", "player", "match"}
  /\ (pc = "idle") <=> (hand = NoMatch)

\* Between two events a participant who is in a party has a running clock,
\* and one whose clock stands has left and is in no party: on_match_end_v2
\* never drops the playtime of somebody who plays to the end.
PlayersAreTimed ==
  match # NoMatch =>
    \A p \in DOMAIN match.participants :
      LET part == match.participants[p]
      IN  /\ part.party # NoParty => part.joined # Never
          /\ part.joined = Never => part.left # Never

Running(part) == IF match.ended = Never /\ part.party # NoParty THEN now - part.joined ELSE 0

\* Nobody has played in a match for longer than it is since they came to it,
\* in whatever order joins and leaves arrive and wherever handlers break off.
PlaytimeWithinMatch ==
  match # NoMatch =>
    \A p \in DOMAIN match.participants :
      match.participants[p].playtime + Running(match.participants[p])
        <= now - match.participants[p].first

\* If parties are left before others are joined, no time is counted twice,
\* as played and as away, even though the time of the last leave is kept.
TimeNotCountedTwice ==
  Polite /\ match # NoMatch =>
    \A p \in DOMAIN match.participants :
      match.participants[p].playtime + match.participants[p].away
        + Running(match.participants[p]) <= now - match.participants[p].first

\* And if handlers take no time and none breaks off, no time is lost either:
\* who came with a party has played or been away ever since.
TimeAccountedFor ==
  Polite /\ ~mode.mayDie /\ ~Restless /\ NoParty \notin mode.seats
      /\ pc = "idle" /\ match # NoMatch /\ match.ended = Never =>
    \A p \in DOMAIN match.participants :
      LET part == match.participants[p]
          gone == IF part.party = NoParty THEN now - part.left ELSE 0
      IN  part.playtime + Running(part) + part.away + gone = now - part.first

\* The thresholds of three listeners agree: xp was given for exactly the
\* results that the gamemodes show, and a player shows those of the tracked
\* gamemodes.  All three are of one document, so no break can part them.
OutcomesAgree ==
  \A p \in Player :
    /\ xp[p] = MapThenSumSet(LAMBDA g : 200 * gamemodes[p][g]["wins"]
                 + 100 * gamemodes[p][g]["losses"] + 150 * gamemodes[p][g]["ties"], Gamemode)
    /\ \A e \in Entry : profile[p][e] =
         MapThenSumSet(LAMBDA g : gamemodes[p][g][e], Gamemode \ {"ARCADE"})

\* A result is a result of a match that counts, and somebody who was there
\* from the start and has results has played that long.
ResultsAreOfMatches ==
  \A p \in Player :
    profile[p]["wins"] + profile[p]["losses"] + profile[p]["ties"] <= profile[p]["matches"]

\* The boards are written before the player and ask for less: a player never
\* shows a result, a match or playtime that a leaderboard has not.
BoardsLead ==
  \A p \in Player : \A e \in Result \cup {"matches", "playtime"} : board[p][e] >= profile[p][e]

\* However often the plugin repeats the end of a match that broke off, no
\* match counts twice for anybody, on the boards or in the player.
EachMatchCountsOnce ==
  \A p \in Player :
    /\ board[p]["matches"] <= rounds
    /\ board[p]["wins"] + board[p]["losses"] + board[p]["ties"] <= board[p]["matches"]
    /\ MapThenSumSet(LAMBDA g : gamemodes[p][g]["matches"], Gamemode) <= rounds

\* The time of a participant is counted, once at most, and never more than
\* there was, whatever the order of joins, leaves and breaks.
TimeSound == PlayersAreTimed /\ PlaytimeWithinMatch /\ TimeNotCountedTwice /\ TimeAccountedFor

\* The results of matches agree between the four listeners that count them,
\* and none counts twice, though a match end may break off and be repeated.
ResultsSound == OutcomesAgree /\ ResultsAreOfMatches /\ BoardsLead /\ EachMatchCountsOnce
=============================================================================

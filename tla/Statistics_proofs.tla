-------------------------- MODULE Statistics_proofs --------------------------
(***************************************************************************)
(* What the listeners write down of a match, for any number of players,    *)
(* levels and gamemodes, any events, and a connection that dies at any     *)
(* await.                                                                  *)
(*                                                                         *)
(* A step is a match that starts, the beginning of a handler (Begins), a   *)
(* listener at one of its awaits, the end of the handler, or its death     *)
(* (Steps); Shape says where a handler can be with which documents.        *)
(*                                                                         *)
(* The argument is one of accounts.  Between the two awaits at which an    *)
(* amount is entered, it is on its way: Paid is what a player has, or is   *)
(* about to be written with, and Due what the event at hand adds to it     *)
(* yet.  The boards have what is paid, and from the await of the board on  *)
(* what is due (BoardInv); paid and due together are what the matches hold,*)
(* or more, when something broke off (LedgerInv).  Messages go the other   *)
(* way, from the match to the board at its end, and what is untold is      *)
(* counted (MessageInv).  A match has its first blood marked before it is  *)
(* counted (BloodInv); the killer's half of a duel is entered first, and   *)
(* until the victim's half is, the copy at hand is one ahead (DuelInv).  A *)
(* player is written as a whole, so what it says by gamemode covers what it*)
(* says in all (GamemodeInv), and the plugin has it, or has what is about  *)
(* to be written (PluginInv).  MapRecordListener hears an event before any *)
(* player does (Heard), so whatever record a player takes is in the match  *)
(* or its level already (LevelInv, RecordInv).  None of them is inductive  *)
(* alone; Books is their conjunction.                                      *)
(***************************************************************************)
EXTENDS Statistics, FiniteSetTheorems, WellFoundedInduction, TLAPS

-----------------------------------------------------------------------------
(* What the listeners count.                                               *)

LEMMA TallyIs ==
  ASSUME NEW ones, NEW many, NEW n \in Nat
  PROVE  /\ Tally(ones, many, n) \in Statistic
         /\ \A c \in Counter : Tally(ones, many, n)[c]
              = (IF c \in ones THEN 1 ELSE 0) + (IF c = many THEN n ELSE 0)
  BY DEF Tally, Statistic

LEMMA OneIs ==
  ASSUME NEW d
  PROVE  /\ One(d) \in Statistic
         /\ \A c \in Counter : One(d)[c] = IF c = d THEN 1 ELSE 0
<1>1. \A c \in Counter : One(d)[c] = (IF c \in {d} THEN 1 ELSE 0) + (IF c = d THEN 0 ELSE 0)
  BY TallyIs DEF One
<1> QED BY <1>1, TallyIs DEF One

LEMMA ZeroIs == /\ Zero \in Statistic
                /\ \A c \in Counter : Zero[c] = 0
  BY DEF Zero, Statistic

LEMMA AddIs ==
  ASSUME NEW f \in Statistic, NEW g \in Statistic
  PROVE  /\ Add(f, g) \in Statistic
         /\ \A c \in Counter : Add(f, g)[c] = f[c] + g[c]
  BY DEF Add, Statistic

LEMMA AddZero == ASSUME NEW f \in Statistic PROVE Add(f, Zero) = f
  BY DEF Add, Zero, Statistic

LEMMA CountTypes ==
  ASSUME NEW e, e.n \in Nat, NEW role
  PROVE  /\ CountFlag(e, role) \in Statistic /\ CountWool(e, role) \in Statistic
         /\ CountGoal(e, role) \in Statistic /\ CountCombat(e, role) \in Statistic
<1>1. CountFlag(e, role) \in Statistic  BY TallyIs, OneIs, ZeroIs DEF CountFlag
<1>2. CountWool(e, role) \in Statistic  BY OneIs, ZeroIs DEF CountWool
<1>3. CountGoal(e, role) \in Statistic  BY TallyIs, OneIs, ZeroIs DEF CountGoal
<1>4. CountCombat(e, role) \in Statistic  BY TallyIs, OneIs, ZeroIs DEF CountCombat
<1> QED BY <1>1, <1>2, <1>3, <1>4

LEMMA ObjectiveIs ==
  ASSUME NEW e, e.n \in Nat, NEW role
  PROVE  /\ CountObjective(e, role) \in Statistic
         /\ \A c \in Counter : CountObjective(e, role)[c]
              = CountGoal(e, role)[c] + (CountFlag(e, role)[c] + CountWool(e, role)[c])
  BY CountTypes, AddIs DEF CountObjective

LEMMA PlayerStatIs ==
  ASSUME NEW e, e.n \in Nat, NEW role
  PROVE  /\ PlayerStat(e, role) \in Statistic
         /\ \A c \in Counter : PlayerStat(e, role)[c]
              = CountCombat(e, role)[c] + CountObjective(e, role)[c]
  BY CountTypes, ObjectiveIs, AddIs DEF PlayerStat

LEMMA CounterHas ==
  /\ Objectives \subseteq Counter
  /\ {"kills", "deaths", "void_kills", "void_deaths", "first_bloods", "first_bloods_suffered",
      "weapon_kills", "projectile_kills", "weapon_deaths", "projectile_deaths",
      "killstreaks", "killstreaks_ended", "messages", "xp"} \subseteq Counter
  BY DEF Counter

\* Combat and objectives count different things.
LEMMA ObjectivesApart ==
  /\ Objectives \cap {"kills", "deaths", "void_kills", "void_deaths", "first_bloods",
      "first_bloods_suffered", "weapon_kills", "projectile_kills", "weapon_deaths",
      "projectile_deaths", "killstreaks", "killstreaks_ended", "messages", "xp", "none"} = {}
  BY DEF Objectives, Flags, Wools, Goals

LEMMA CombatApart ==
  ASSUME NEW e, e.n \in Nat, NEW role
  PROVE  /\ \A c \in Objectives : CountCombat(e, role)[c] = 0
         /\ CountCombat(e, role)["xp"] = 0
<1> DEFINE all == {"kills", "deaths", "void_kills", "void_deaths", "first_bloods", "first_bloods_suffered",
      "weapon_kills", "projectile_kills", "weapon_deaths", "projectile_deaths",
      "killstreaks", "killstreaks_ended", "messages"}
<1>1. \A c \in Counter \ all : c # "none" => CountCombat(e, role)[c] = 0
  <2> SUFFICES ASSUME NEW c \in Counter \ all, c # "none" PROVE CountCombat(e, role)[c] = 0
    OBVIOUS
  <2>1. \A ones \in SUBSET all : Tally(ones, "none", 0)[c] = 0
    <3> HIDE DEF all
    <3> QED BY TallyIs
  <2>2. \A d \in all : One(d)[c] = 0  BY OneIs
  <2>3. Zero[c] = 0  BY ZeroIs
  <2>4. CASE role = "kill"
    BY <2>1, <2>4 DEF CountCombat, Weapon
  <2>5. CASE role = "death"
    BY <2>1, <2>5 DEF CountCombat, Weapon
  <2> QED BY <2>2, <2>3, <2>4, <2>5 DEF CountCombat
<1> QED BY <1>1, CounterHas, ObjectivesApart

LEMMA ObjectiveApart ==
  ASSUME NEW e, e.n \in Nat, NEW role
  PROVE  \A c \in Counter \ Objectives : CountObjective(e, role)[c] = 0
<1> SUFFICES ASSUME NEW c \in Counter, c \notin Objectives PROVE CountObjective(e, role)[c] = 0
  OBVIOUS
<1>0. c \notin Flags /\ c \notin Wools /\ c \notin Goals  BY DEF Objectives
<1>1. CountFlag(e, role)[c] = 0
  BY <1>0, TallyIs, OneIs, ZeroIs DEF CountFlag, Flags
<1>2. CountWool(e, role)[c] = 0  BY <1>0, OneIs, ZeroIs DEF CountWool, Wools
<1>3. CountGoal(e, role)[c] = 0
  BY <1>0, TallyIs, OneIs, ZeroIs DEF CountGoal, Goals
<1> QED BY <1>1, <1>2, <1>3, ObjectiveIs

\* Nothing is counted twice: what a player is told is what combat or the
\* objectives say.
LEMMA PlayerStatApart ==
  ASSUME NEW e, e.n \in Nat, NEW role
  PROVE  /\ \A c \in Objectives : PlayerStat(e, role)[c] = CountObjective(e, role)[c]
         /\ \A c \in Counter \ Objectives : PlayerStat(e, role)[c] = CountCombat(e, role)[c]
         /\ PlayerStat(e, role)["xp"] = 0
<1>1. \A c \in Counter : CountObjective(e, role)[c] \in Nat /\ CountCombat(e, role)[c] \in Nat
  BY CountTypes, ObjectiveIs DEF Statistic
<1> QED BY <1>1, PlayerStatIs, CombatApart, ObjectiveApart, CounterHas, ObjectivesApart

LEMMA BoardGoalsAre ==
  ASSUME NEW e, e.n \in Nat, NEW role
  PROVE  /\ BoardGoals(e, role) \in Statistic
         /\ \A c \in Counter \ Objectives : BoardGoals(e, role)[c] = 0
         /\ \A c \in Counter \ {"core_block_destroys", "destroyable_block_destroys"} :
              BoardGoals(e, role)[c] = CountGoal(e, role)[c]
<1>1. BoardGoals(e, role) \in Statistic  BY TallyIs, OneIs, ZeroIs DEF BoardGoals
<1>2. ASSUME NEW c \in Counter, c \notin Objectives PROVE BoardGoals(e, role)[c] = 0
  <2>1. c \notin Goals  BY <1>2 DEF Objectives
  <2> QED BY <2>1, ObjectivesApart, <1>2, TallyIs, OneIs, ZeroIs DEF BoardGoals, Goals
<1>3. ASSUME NEW c \in Counter, c \notin {"core_block_destroys", "destroyable_block_destroys"}
      PROVE  BoardGoals(e, role)[c] = CountGoal(e, role)[c]
  BY <1>3, TallyIs, OneIs, ZeroIs DEF BoardGoals, CountGoal
<1> QED BY <1>1, <1>2, <1>3

LEMMA BoardCombatIs ==
  ASSUME NEW e, NEW role, NEW stats \in Statistic
  PROVE  /\ BoardCombat(e, role, stats) \in Statistic
         /\ \A c \in Counter \ {"kills", "first_bloods", "deaths", "messages", "none"} :
              BoardCombat(e, role, stats)[c] = 0
         /\ BoardCombat(e, role, stats)["messages"]
              = IF role = "match_end" THEN stats["messages"] ELSE 0
         /\ BoardCombat(e, role, stats)["first_bloods"]
              = IF role = "kill" /\ e.blood THEN 1 ELSE 0
         /\ BoardCombat(e, role, stats)["kills"] = IF role = "kill" THEN 1 ELSE 0
         /\ BoardCombat(e, role, stats)["deaths"] = IF role = "death" THEN 1 ELSE 0
<1>0. stats["messages"] \in Nat  BY CounterHas DEF Statistic
<1>1. BoardCombat(e, role, stats) \in Statistic
  BY <1>0, TallyIs, OneIs, ZeroIs DEF BoardCombat
<1>2. ASSUME NEW c \in Counter \ {"kills", "first_bloods", "deaths", "messages", "none"}
      PROVE  BoardCombat(e, role, stats)[c] = 0
  BY <1>0, TallyIs, OneIs, ZeroIs DEF BoardCombat
<1>3. {"kills", "first_bloods", "deaths", "messages"} \subseteq Counter  BY CounterHas
<1>4. BoardCombat(e, role, stats)["messages"]
              = IF role = "match_end" THEN stats["messages"] ELSE 0
  BY <1>0, <1>3, TallyIs, OneIs, ZeroIs DEF BoardCombat
<1>5. BoardCombat(e, role, stats)["first_bloods"]
              = IF role = "kill" /\ e.blood THEN 1 ELSE 0
  BY <1>0, <1>3, TallyIs, OneIs, ZeroIs DEF BoardCombat
<1>6. BoardCombat(e, role, stats)["kills"] = IF role = "kill" THEN 1 ELSE 0
  BY <1>0, <1>3, TallyIs, OneIs, ZeroIs DEF BoardCombat
<1>7. BoardCombat(e, role, stats)["deaths"] = IF role = "death" THEN 1 ELSE 0
  BY <1>0, <1>3, TallyIs, OneIs, ZeroIs DEF BoardCombat
<1> QED BY <1>1, <1>2, <1>4, <1>5, <1>6, <1>7

LEMMA CombatIs ==
  ASSUME NEW e, NEW role
  PROVE  /\ CountCombat(e, role)["first_bloods"] = IF role = "kill" /\ e.blood THEN 1 ELSE 0
         /\ CountCombat(e, role)["kills"] = IF role = "kill" THEN 1 ELSE 0
         /\ CountCombat(e, role)["deaths"] = IF role = "death" THEN 1 ELSE 0
         /\ CountCombat(e, role)["messages"] = IF role = "chat" THEN 1 ELSE 0
<1> DEFINE C == {"first_bloods", "kills", "deaths", "messages"}
<1>1. C \subseteq Counter  BY CounterHas
<1>2. CASE role = "kill"
  BY <1>1, <1>2, TallyIs DEF CountCombat, Weapon
<1>3. CASE role = "death"
  BY <1>1, <1>3, TallyIs DEF CountCombat, Weapon
<1>4. CASE role \notin {"kill", "death"}
  BY <1>1, <1>4, OneIs, ZeroIs DEF CountCombat
<1> QED BY <1>2, <1>3, <1>4

\* LeaderboardListener and PlayerStatListener agree on what is ranked.
LEMMA BoardTallyIs ==
  ASSUME NEW e, e.n \in Nat, NEW role, NEW stats \in Statistic
  PROVE  /\ BoardTally(e, role, stats) \in Statistic
         /\ \A c \in Ranked \ {"xp"} : BoardTally(e, role, stats)[c] = PlayerStat(e, role)[c]
         /\ BoardTally(e, role, stats)["xp"] = 0
         /\ BoardTally(e, role, stats)["messages"]
              = IF role = "match_end" THEN stats["messages"] ELSE 0
         /\ BoardTally(e, role, stats)["first_bloods"]
              = IF role = "kill" /\ e.blood THEN 1 ELSE 0
<1> DEFINE b(c) == BoardCombat(e, role, stats)[c] + (BoardGoals(e, role)[c]
                     + (CountFlag(e, role)[c] + CountWool(e, role)[c]))
<1>1. BoardTally(e, role, stats) \in Statistic
      /\ \A c \in Counter : BoardTally(e, role, stats)[c] = b(c)
  <2>1. Add(CountFlag(e, role), CountWool(e, role)) \in Statistic
        /\ \A c \in Counter : Add(CountFlag(e, role), CountWool(e, role))[c]
             = CountFlag(e, role)[c] + CountWool(e, role)[c]
    BY CountTypes, AddIs
  <2> DEFINE f == Add(CountFlag(e, role), CountWool(e, role))
  <2> HIDE DEF f
  <2>2. Add(BoardGoals(e, role), f) \in Statistic
        /\ \A c \in Counter : Add(BoardGoals(e, role), f)[c] = BoardGoals(e, role)[c] + f[c]
    BY <2>1, BoardGoalsAre, AddIs DEF f
  <2> DEFINE g == Add(BoardGoals(e, role), f)
  <2> HIDE DEF g
  <2>3. Add(BoardCombat(e, role, stats), g) \in Statistic
        /\ \A c \in Counter : Add(BoardCombat(e, role, stats), g)[c]
                                = BoardCombat(e, role, stats)[c] + g[c]
    BY <2>2, BoardCombatIs, AddIs DEF g
  <2>4. BoardTally(e, role, stats) = Add(BoardCombat(e, role, stats), g)
    BY DEF BoardTally, BoardFlags, BoardWools, f, g
  <2> QED BY <2>1, <2>2, <2>3, <2>4 DEF f, g
<1>2. \A c \in Counter : /\ BoardGoals(e, role)[c] \in Nat /\ CountFlag(e, role)[c] \in Nat
                         /\ CountWool(e, role)[c] \in Nat /\ CountGoal(e, role)[c] \in Nat
                         /\ BoardCombat(e, role, stats)[c] \in Nat
  BY BoardGoalsAre, BoardCombatIs, CountTypes DEF Statistic
<1>3. \A c \in Counter \ Objectives : /\ BoardGoals(e, role)[c] = 0
                                      /\ CountFlag(e, role)[c] = 0 /\ CountWool(e, role)[c] = 0
  BY <1>2, BoardGoalsAre, ObjectiveIs, ObjectiveApart
<1>4. \A c \in Objectives : BoardCombat(e, role, stats)[c] = 0
  BY BoardCombatIs, ObjectivesApart, CounterHas
<1>5. ASSUME NEW c \in Objectives \ {"core_block_destroys", "destroyable_block_destroys"}
      PROVE  BoardTally(e, role, stats)[c] = PlayerStat(e, role)[c]
  BY <1>1, <1>2, <1>4, CounterHas, BoardGoalsAre, PlayerStatApart, ObjectiveIs
<1>6. \A c \in Counter \ Objectives : BoardTally(e, role, stats)[c] = BoardCombat(e, role, stats)[c]
  BY <1>1, <1>2, <1>3
<1>7. {"kills", "deaths", "first_bloods", "messages", "xp"} \cap Objectives = {}
      /\ {"kills", "deaths", "first_bloods", "messages", "xp"} \subseteq Counter
  BY ObjectivesApart, CounterHas
<1>8. \A c \in {"kills", "deaths", "first_bloods"} :
        BoardTally(e, role, stats)[c] = PlayerStat(e, role)[c]
  BY <1>6, <1>7, PlayerStatApart, CombatIs, BoardCombatIs
<1>9. \A c \in Ranked \ {"xp"} : BoardTally(e, role, stats)[c] = PlayerStat(e, role)[c]
  BY <1>5, <1>8 DEF Ranked
<1>10. BoardTally(e, role, stats)["xp"] = 0  BY <1>6, <1>7, BoardCombatIs
<1> QED BY <1>1, <1>6, <1>7, <1>9, <1>10, BoardCombatIs

LEMMA ParticipantStatIs ==
  ASSUME NEW e, e.n \in Nat, NEW role
  PROVE  /\ ParticipantStat(e, role) \in Statistic
         /\ \A c \in Counter \ {"first_bloods", "first_bloods_suffered"} :
              ParticipantStat(e, role)[c] = PlayerStat(e, role)[c]
         /\ \A c \in Counter : ParticipantStat(e, role)[c] <= PlayerStat(e, role)[c]
<1>1. CountCombat(e, role) \in Statistic  BY CountTypes
<1>2. ParticipantCombat(e, role) \in Statistic
      /\ \A c \in Counter : ParticipantCombat(e, role)[c]
           = IF c \in {"first_bloods", "first_bloods_suffered"} THEN 0 ELSE CountCombat(e, role)[c]
  BY <1>1 DEF ParticipantCombat, Statistic
<1>3. ParticipantStat(e, role) \in Statistic
      /\ \A c \in Counter : ParticipantStat(e, role)[c]
           = ParticipantCombat(e, role)[c] + CountObjective(e, role)[c]
  BY <1>2, ObjectiveIs, AddIs DEF ParticipantStat, ParticipantObjective
<1>4. \A c \in Counter : CountObjective(e, role)[c] \in Nat /\ CountCombat(e, role)[c] \in Nat
  BY <1>1, ObjectiveIs DEF Statistic
<1> QED BY <1>2, <1>3, <1>4, PlayerStatIs

\* Ends and late joins of a match are no statistics.
LEMMA NothingCounted ==
  ASSUME NEW e, e.n \in Nat, NEW role \in {"match_end", "party_join"}
  PROVE  /\ PlayerStat(e, role) = Zero /\ ParticipantStat(e, role) = Zero
<1>1. /\ CountFlag(e, role) = Zero /\ CountWool(e, role) = Zero /\ CountGoal(e, role) = Zero
      /\ CountCombat(e, role) = Zero
  BY DEF CountFlag, CountWool, CountGoal, CountCombat
<1>2. Add(Zero, Zero) = Zero  BY AddZero, ZeroIs
<1>3. CountObjective(e, role) = Zero  BY <1>1, <1>2 DEF CountObjective
<1>4. ParticipantCombat(e, role) = Zero
  BY <1>1 DEF ParticipantCombat, Zero
<1> QED BY <1>1, <1>2, <1>3, <1>4 DEF PlayerStat, ParticipantStat, ParticipantObjective

LEMMA ChatIsCounted ==
  ASSUME NEW e, e.n \in Nat, NEW role
  PROVE  PlayerStat(e, role)["messages"] = IF role = "chat" THEN 1 ELSE 0
  BY PlayerStatApart, CombatIs, CounterHas, ObjectivesApart

LEMMA GamemodeStatIs ==
  ASSUME NEW e \in Event, NEW role
  PROVE  /\ GamemodeStat(e, role) \in Statistic
         /\ \A c \in Counter \ {"messages", "killstreaks_ended", "weapon_kills", "weapon_deaths",
                                "projectile_kills", "projectile_deaths"} :
              GamemodeStat(e, role)[c] = PlayerStat(e, role)[c]
<1> DEFINE byHand == [e EXCEPT !.distance = NoDistance]
           byOther == {"messages", "killstreaks_ended", "weapon_kills", "weapon_deaths",
                       "projectile_kills", "projectile_deaths"}
<1>0. e.n \in Nat /\ byHand.n = e.n /\ byHand.blood = e.blood /\ byHand.cause = e.cause
      /\ byHand.attacker = e.attacker /\ byHand.player = e.player
  BY DEF Event
<1>m. Murder(byHand) = Murder(e)  BY <1>0 DEF Murder
<1> HIDE DEF byHand
<1>1. CountCombat(byHand, role) \in Statistic /\ CountCombat(e, role) \in Statistic
  BY <1>0, CountTypes
<1>2. GamemodeCombat(e, role) \in Statistic
      /\ \A c \in Counter \ byOther : GamemodeCombat(e, role)[c] = CountCombat(byHand, role)[c]
  BY <1>1 DEF GamemodeCombat, byHand, Statistic
<1>3. GamemodeStat(e, role) \in Statistic
      /\ \A c \in Counter : GamemodeStat(e, role)[c]
           = GamemodeCombat(e, role)[c] + CountObjective(e, role)[c]
  BY <1>0, <1>2, ObjectiveIs, AddIs DEF GamemodeStat, GamemodeObjective
<1>4. ASSUME NEW c \in Counter, c \notin byOther
      PROVE  CountCombat(byHand, role)[c] = CountCombat(e, role)[c]
  <2>1. CASE role = "kill"
    BY <1>0, <1>4, <2>1, TallyIs DEF CountCombat, Weapon
  <2>2. CASE role = "death"
    BY <1>0, <1>m, <1>4, <2>2, TallyIs DEF CountCombat, Weapon
  <2>3. CASE role \notin {"kill", "death"}
    BY <2>3 DEF CountCombat
  <2> QED BY <2>1, <2>2, <2>3
<1> QED BY <1>0, <1>2, <1>3, <1>4, PlayerStatIs

-----------------------------------------------------------------------------
(* Types of what the listeners make of the documents.                      *)

LEMMA RecordNames == DOMAIN NoRecords = {"blood", "projectile", "wool", "flag", "streak", "kills",
                                         "deaths"}
  BY DEF NoRecords

LEMMA NoRecordsType == NoRecords \in Records
  BY DEF NoRecords, NoRecord, Records, Time

\* The records that MapRecords changes one by one
LEMMA MapRecordsAre ==
  ASSUME NEW r \in Records, NEW e \in Event, NEW role, NEW crowd, NEW stats \in Statistic
  PROVE  LET new == MapRecords(r, e, role, crowd, stats)
         IN  /\ new \in Records
             /\ new.blood = IF role = "kill" /\ e.blood THEN Faster(r.blood, e.n) ELSE r.blood
             /\ new.projectile = IF role = "kill" /\ Projectile(e) /\ crowd >= Crowd
                                 THEN Higher(r.projectile, e.distance) ELSE r.projectile
             /\ new.streak = IF role = "killstreak" THEN Higher(r.streak, e.n) ELSE r.streak
             /\ new.wool = IF role = "wool_place" THEN Faster(r.wool, e.n) ELSE r.wool
             /\ new.flag = IF role = "flag_place" THEN Faster(r.flag, e.n) ELSE r.flag
             /\ new.kills = IF role = "match_end" THEN Higher(r.kills, stats["kills"]) ELSE r.kills
             /\ new.deaths = IF role = "match_end" THEN Higher(r.deaths, stats["deaths"])
                             ELSE r.deaths
<1> DEFINE new == MapRecords(r, e, role, crowd, stats)
<1>0. stats["kills"] \in Nat /\ stats["deaths"] \in Nat  BY CounterHas DEF Statistic
<1>1. e.n \in Nat /\ e.distance \in Time  BY DEF Event, Time, NoDistance, NoRecord
<1>2. CASE role = "kill"
  BY <1>1, <1>2 DEF MapRecords, Records, Time, Faster, Higher
<1>3. CASE role = "killstreak"
  BY <1>1, <1>3 DEF MapRecords, Records, Faster, Higher
<1>4. CASE role = "wool_place"
  BY <1>1, <1>4 DEF MapRecords, Records, Time, Faster, Higher
<1>5. CASE role = "flag_place"
  BY <1>1, <1>5 DEF MapRecords, Records, Time, Faster, Higher
<1>6. CASE role = "match_end"
  BY <1>0, <1>6 DEF MapRecords, Records, Faster, Higher
<1>7. CASE role \notin {"kill", "killstreak", "wool_place", "flag_place", "match_end"}
  BY <1>7 DEF MapRecords
<1> QED BY <1>2, <1>3, <1>4, <1>5, <1>6, <1>7

LEMMA PlayerRecordsAre ==
  ASSUME NEW r \in Records, NEW e \in Event, NEW role, NEW crowd, NEW stats \in Statistic
  PROVE  LET new == PlayerRecords(r, e, role, crowd, stats)
         IN  /\ new \in Records
             /\ \A n \in DOMAIN NoRecords \ {"streak"} :
                  new[n] = MapRecords(r, e, role, crowd, stats)[n]
<1> DEFINE m == MapRecords(r, e, role, crowd, stats)
<1>1. m \in Records  BY MapRecordsAre
<1> HIDE DEF m
<1>2. [m EXCEPT !.streak = r.streak] \in Records  BY <1>1 DEF Records
<1>3. \A n \in DOMAIN NoRecords \ {"streak"} : [m EXCEPT !.streak = r.streak][n] = m[n]
  BY <1>1, RecordNames DEF Records
<1> QED BY <1>2, <1>3 DEF PlayerRecords, m

LEMMA Product == \A a, b \in Nat : a * b \in Nat
  OBVIOUS

LEMMA Quotient == \A a \in Nat, b \in Nat \ {0} : a \div b \in Nat
  OBVIOUS

LEMMA RawXpType == ASSUME NEW e \in Event, NEW role PROVE RawXp(e, role) \in Nat
<1>1. e.n \in Nat /\ e.team \subseteq Player  BY DEF Event
<1>2. Cardinality(e.team) \in Nat
  BY <1>1, StatisticsAssumption, FS_Subset, FS_CardinalityType
<1>3. 200 \div BreaksRequired \in Nat  BY Quotient, StatisticsAssumption
<1>4. (200 \div BreaksRequired) * e.n \in Nat  BY <1>1, <1>3, Product
<1>5. e.n \div 1000 \in Nat  BY <1>1, Quotient
<1> QED BY <1>1, <1>2, <1>4, <1>5 DEF RawXp, Greater

LEMMA AddXpGrows ==
  ASSUME NEW xp \in Nat, NEW raw \in Nat, multiplier \in Nat
  PROVE  AddXp(xp, raw) \in Nat /\ AddXp(xp, raw) >= xp
<1>1. Level(xp) \in Nat  BY Quotient DEF Level
<1>2. (IF Level(xp) > 10 THEN 1 ELSE Greater(10 - Level(xp), 1)) \in Nat  BY <1>1 DEF Greater
<1>3. Gain(raw, Level(xp)) \in Nat  BY <1>2, Product DEF Gain
<1>4. raw * multiplier \in Nat  BY Product
<1> QED BY <1>3, <1>4 DEF AddXp, Greater

LEMMA XpGrows ==
  ASSUME NEW e \in Event, NEW role, NEW p, NEW xp \in Nat, multiplier \in Nat
  PROVE  Xp(e, role, p, xp) \in Nat /\ Xp(e, role, p, xp) >= xp
<1>1. CASE role = "match_end"
  <2>1. multiplier * (IF p \in e.team THEN 200 ELSE 100) \in Nat  BY Product
  <2> QED BY <1>1, <2>1 DEF Xp
<1>2. CASE role # "match_end" /\ role = "kill" /\ e.blood
  <2>1. AddXp(xp, 40) \in Nat /\ AddXp(xp, 40) >= xp  BY AddXpGrows
  <2>2. AddXp(AddXp(xp, 40), 7) \in Nat /\ AddXp(AddXp(xp, 40), 7) >= AddXp(xp, 40)
    BY <2>1, AddXpGrows
  <2> QED BY <1>2, <2>1, <2>2 DEF Xp
<1>3. CASE role # "match_end" /\ ~(role = "kill" /\ e.blood)
  <2>1. AddXp(xp, RawXp(e, role)) \in Nat /\ AddXp(xp, RawXp(e, role)) >= xp
    BY AddXpGrows, RawXpType
  <2> QED BY <1>3, <2>1 DEF Xp
<1> QED BY <1>1, <1>2, <1>3

\* What an event is worth to a player in a match
Worth(m, e, role, c) == IF Tracking(m) THEN PlayerStat(e, role)[c] ELSE 0

\* The copy of a player after the listeners: its statistics, and the rest of it
LEMMA StatsListened ==
  ASSUME NEW d \in PlayerDoc, NEW m, NEW p, NEW e \in Event, NEW role, multiplier \in Nat
  PROVE  LET new == ListenPlayer(d, m, p, e, role)
         IN  /\ new.stats \in Statistic
             /\ \A c \in Counter \ {"xp"} : new.stats[c] = d.stats[c] + Worth(m, e, role, c)
             /\ \A c \in Counter : new.stats[c] >= d.stats[c] + Worth(m, e, role, c)
<1> DEFINE new == ListenPlayer(d, m, p, e, role)
           counted == IF Tracking(m) THEN Add(d.stats, PlayerStat(e, role)) ELSE d.stats
<1>0. e.n \in Nat /\ d.stats \in Statistic  BY DEF Event, PlayerDoc
<1>1. counted \in Statistic
      /\ \A c \in Counter :
           counted[c] = d.stats[c] + Worth(m, e, role, c)
  <2>1. \A c \in Counter : d.stats[c] \in Nat  BY <1>0 DEF Statistic
  <2> QED BY <1>0, <2>1, PlayerStatIs, AddIs DEF Worth
<1>2. new.stats = [counted EXCEPT !["xp"] = Xp(e, role, p, @)]  BY DEF ListenPlayer
<1> HIDE DEF new, counted
<1>3. counted["xp"] \in Nat /\ Xp(e, role, p, counted["xp"]) \in Nat
      /\ Xp(e, role, p, counted["xp"]) >= counted["xp"]
  BY <1>1, CounterHas, XpGrows DEF Statistic
<1>4. /\ new.stats \in Statistic
      /\ \A c \in Counter \ {"xp"} : new.stats[c] = counted[c]
      /\ new.stats["xp"] = Xp(e, role, p, counted["xp"])
  BY <1>1, <1>2, <1>3, CounterHas DEF Statistic
<1>5. \A c \in Counter : counted[c] \in Nat  BY <1>1 DEF Statistic
<1>6. \A c \in Counter : new.stats[c] >= counted[c]
  <2>1. ASSUME NEW c \in Counter, c # "xp" PROVE new.stats[c] >= counted[c]
    BY <1>4, <1>5, <2>1
  <2>2. new.stats["xp"] >= counted["xp"]  BY <1>3, <1>4
  <2> QED BY <2>1, <2>2
<1> QED BY <1>1, <1>4, <1>6 DEF new

LEMMA ListenPlayerIs ==
  ASSUME NEW d \in PlayerDoc, NEW roster \in SUBSET Player, NEW m \in MatchDoc(roster), NEW p,
         NEW e \in Event, NEW role, multiplier \in Nat
  PROVE  LET new == ListenPlayer(d, m, p, e, role)
             crowd == Cardinality(DOMAIN m.participants)
             stats == IF p \in DOMAIN m.participants THEN m.participants[p].stats ELSE Zero
         IN  /\ new \in PlayerDoc
             /\ \A g \in Gamemode : new.gamemodes[g]
                  = IF g \in GamemodesOf(m) THEN Add(d.gamemodes[g], GamemodeStat(e, role))
                                            ELSE d.gamemodes[g]
             /\ stats \in Statistic
             /\ \A n \in DOMAIN NoRecords \ {"streak"} :
                  new.records[n] = IF Tracking(m) THEN MapRecords(d.records, e, role, crowd, stats)[n]
                                                  ELSE d.records[n]
<1> DEFINE new == ListenPlayer(d, m, p, e, role)
           crowd == Cardinality(DOMAIN m.participants)
           stats == IF p \in DOMAIN m.participants THEN m.participants[p].stats ELSE Zero
           modes == [g \in Gamemode |->
                        IF g \in GamemodesOf(m) THEN Add(d.gamemodes[g], GamemodeStat(e, role))
                                                ELSE d.gamemodes[g]]
           records == IF Tracking(m) THEN PlayerRecords(d.records, e, role, crowd, stats)
                                     ELSE d.records
<1>0. d.gamemodes \in [Gamemode -> Statistic] /\ d.records \in Records  BY DEF PlayerDoc
<1>1. stats \in Statistic
  <2>1. m.participants \in [roster -> ParticipantDoc]  BY DEF MatchDoc
  <2> QED BY <2>1, ZeroIs DEF ParticipantDoc
<1>2. modes \in [Gamemode -> Statistic]
  BY <1>0, GamemodeStatIs, AddIs
<1>3. records \in Records
  BY <1>0, <1>1, PlayerRecordsAre
<1>4. /\ new.gamemodes = modes /\ new.records = records
      /\ new = [stats |-> new.stats, gamemodes |-> new.gamemodes, records |-> new.records]
  BY DEF ListenPlayer
<1>5. new.stats \in Statistic  BY StatsListened
<1> HIDE DEF new, modes
<1>6. new \in PlayerDoc  BY <1>2, <1>3, <1>4, <1>5 DEF PlayerDoc
<1>7. \A n \in DOMAIN NoRecords \ {"streak"} :
          records[n] = IF Tracking(m) THEN MapRecords(d.records, e, role, crowd, stats)[n]
                                      ELSE d.records[n]
  BY <1>0, <1>1, PlayerRecordsAre
<1> QED BY <1>1, <1>4, <1>6, <1>7 DEF new, modes

\* The participant after the listeners
LEMMA ListenParticipantIs ==
  ASSUME NEW part \in ParticipantDoc, NEW e \in Event, NEW role
  PROVE  LET new == ListenParticipant(part, e, role)
         IN  /\ new \in ParticipantDoc
             /\ new.stats = Add(part.stats, ParticipantStat(e, role))
             /\ \A q \in Player : new.duel_kills[q]
                  = part.duel_kills[q] + (IF role = "kill" /\ q = e.player THEN 1 ELSE 0)
             /\ \A q \in Player : new.duel_deaths[q]
                  = part.duel_deaths[q]
                    + (IF role = "death" /\ Murder(e) /\ q = e.attacker THEN 1 ELSE 0)
<1> DEFINE new == ListenParticipant(part, e, role)
           counted == [part EXCEPT !.stats = Add(@, ParticipantStat(e, role))]
<1>0. e.n \in Nat  BY DEF Event
<1>1. Add(part.stats, ParticipantStat(e, role)) \in Statistic
  BY <1>0, ParticipantStatIs, AddIs DEF ParticipantDoc
<1>2. counted \in ParticipantDoc /\ counted.stats = Add(part.stats, ParticipantStat(e, role))
      /\ counted.duel_kills = part.duel_kills /\ counted.duel_deaths = part.duel_deaths
  BY <1>1 DEF ParticipantDoc
<1>3. new = Duel(counted, e, role)  BY DEF ListenParticipant
<1> HIDE DEF counted, new
<1>4. CASE role = "kill"
  <2>1. new = [counted EXCEPT !.duel_kills[e.player] = @ + 1]  BY <1>3, <1>4 DEF Duel
  <2>2. new \in ParticipantDoc /\ new.stats = counted.stats /\ new.duel_deaths = counted.duel_deaths
        /\ new.duel_kills = [counted.duel_kills EXCEPT ![e.player] = @ + 1]
    BY <1>2, <2>1 DEF ParticipantDoc
  <2>3. \A q \in Player : new.duel_kills[q] = counted.duel_kills[q] + (IF q = e.player THEN 1 ELSE 0)
    BY <1>2, <2>2 DEF ParticipantDoc
  <2>4. \A q \in Player : counted.duel_deaths[q] = counted.duel_deaths[q] + 0
    BY <1>2 DEF ParticipantDoc
  <2> QED BY <1>2, <1>4, <2>2, <2>3, <2>4 DEF new
<1>5. CASE role = "death" /\ Murder(e)
  <2>1. new = [counted EXCEPT !.duel_deaths[e.attacker] = @ + 1]  BY <1>3, <1>5 DEF Duel
  <2>2. new \in ParticipantDoc /\ new.stats = counted.stats /\ new.duel_kills = counted.duel_kills
        /\ new.duel_deaths = [counted.duel_deaths EXCEPT ![e.attacker] = @ + 1]
    BY <1>2, <2>1 DEF ParticipantDoc
  <2>3. \A q \in Player :
          new.duel_deaths[q] = counted.duel_deaths[q] + (IF q = e.attacker THEN 1 ELSE 0)
    BY <1>2, <2>2 DEF ParticipantDoc
  <2>4. \A q \in Player : counted.duel_kills[q] = counted.duel_kills[q] + 0
    BY <1>2 DEF ParticipantDoc
  <2> QED BY <1>2, <1>5, <2>2, <2>3, <2>4 DEF new
<1>6. CASE role # "kill" /\ ~(role = "death" /\ Murder(e))
  <2>1. new = counted  BY <1>3, <1>6 DEF Duel
  <2>2. \A q \in Player : counted.duel_kills[q] = counted.duel_kills[q] + 0
                           /\ counted.duel_deaths[q] = counted.duel_deaths[q] + 0
    BY <1>2 DEF ParticipantDoc
  <2> QED BY <1>2, <1>6, <2>1, <2>2 DEF new
<1> QED BY <1>4, <1>5, <1>6 DEF new

-----------------------------------------------------------------------------
(* The handler's copy of the match.                                        *)

LEMMA MatchDocIs ==
  ASSUME NEW roster \in SUBSET Player, NEW m \in MatchDoc(roster)
  PROVE  /\ DOMAIN m.participants = roster
         /\ m \in MatchDoc(DOMAIN m.participants)
         /\ m.state \in {"InProgress", "Post"} /\ m.level \in Levels /\ m.records \in Records
         /\ m.blood \in BOOLEAN /\ m.participants \in [roster -> ParticipantDoc]
         /\ \A p \in roster : m.participants[p] \in ParticipantDoc
  BY DEF MatchDoc

LEMMA MatchIs ==
  ASSUME TypeOK, match # NoMatch
  PROVE  /\ DOMAIN match.participants \in SUBSET Player
         /\ match \in MatchDoc(DOMAIN match.participants)
  BY MatchDocIs DEF TypeOK

LEMMA HandIs ==
  ASSUME TypeOK, hand # NoMatch
  PROVE  /\ DOMAIN hand.participants \in SUBSET Player
         /\ hand \in MatchDoc(DOMAIN hand.participants)
  BY MatchDocIs DEF TypeOK

LEMMA TakenIs ==
  ASSUME TypeOK
  PROVE  /\ DOMAIN taken \in SUBSET Player
         /\ taken \in [DOMAIN taken -> ParticipantDoc]
  BY DEF TypeOK

LEMMA PutIn ==
  ASSUME NEW roster \in SUBSET Player, NEW f \in [roster -> ParticipantDoc], NEW p \in Player,
         NEW d \in ParticipantDoc
  PROVE  Put(f, p, d) \in [roster \cup {p} -> ParticipantDoc]
  BY DEF Put

LEMMA NoneInIs == << >> \in [{} -> ParticipantDoc] /\ DOMAIN << >> = {}
  OBVIOUS

LEMMA NewParticipantType ==
  /\ NewParticipant \in ParticipantDoc /\ NewParticipant.stats = Zero
  /\ \A q \in Player : NewParticipant.duel_kills[q] = 0 /\ NewParticipant.duel_deaths[q] = 0
  BY ZeroIs DEF NewParticipant, ParticipantDoc

LEMMA NewPlayerType ==
  ASSUME mode.startXp \in Nat
  PROVE  /\ NewPlayer \in PlayerDoc
         /\ [Zero EXCEPT !["xp"] = mode.startXp] \in Statistic
<1>1. [Zero EXCEPT !["xp"] = mode.startXp] \in Statistic  BY ZeroIs DEF Statistic
<1> QED BY <1>1, ZeroIs, NoRecordsType DEF NewPlayer, PlayerDoc

LEMMA ModeFacts ==
  ASSUME mode \in Modes
  PROVE  /\ mode.levels \subseteq Levels /\ mode.rosters \subseteq SUBSET Player
         /\ mode.kinds \subseteq Kind /\ mode.shots \subseteq Shot /\ mode.amounts \subseteq Nat
         /\ mode.multipliers \subseteq Nat /\ mode.startXp \in Nat
  BY StatisticsAssumption DEF Mode

LEMMA NoEventType == NoEvent \in Event /\ NoEvent.kind = "none"
  BY DEF NoEvent, Event, NoDistance

LEMMA NobodyType == Nobody \notin Service
  BY StatisticsAssumption DEF Nobody, Service

LEMMA InitTypeOK == Init => TypeOK
<1> SUFFICES ASSUME Init PROVE TypeOK  OBVIOUS
<1>1. mode.startXp \in Nat  BY ModeFacts DEF Init
<1>2. NewPlayer \in PlayerDoc /\ [Zero EXCEPT !["xp"] = mode.startXp] \in Statistic
  BY <1>1, NewPlayerType
<1> QED BY <1>2, NoneInIs, NoEventType, ZeroIs, NoRecordsType DEF Init, TypeOK

\* The participant that a listener leaves
Listened(s) == ListenParticipant(Participant(s.who), ev, s.role)

LEMMA PresentIs ==
  ASSUME TypeOK, hand # NoMatch, NEW p, Present(p)
  PROVE  p \in Player /\ Participant(p) \in ParticipantDoc /\ Participant(p).stats \in Statistic
<1>1. hand.participants \in [DOMAIN hand.participants -> ParticipantDoc]
  BY HandIs, MatchDocIs
<1>2. p \in Player /\ Participant(p) \in ParticipantDoc
  BY <1>1, HandIs, TakenIs DEF Present, Participant
<1> QED BY <1>2 DEF ParticipantDoc

\* What ListenAsParticipant does to the match and to its copy
LEMMA Listening ==
  ASSUME TypeOK, NEW s \in queue, ListenAsParticipant(s)
  PROVE  /\ pc = "next" /\ pc' = "board" /\ s \in Service /\ subject' = s /\ hand # NoMatch
         /\ s.who \in Player /\ Present(s.who)
         /\ Participant(s.who) \in ParticipantDoc
         /\ Listened(s) \in ParticipantDoc
         /\ Listened(s).stats = Add(Participant(s.who).stats, ParticipantStat(ev, s.role))
         /\ DOMAIN hand'.participants = DOMAIN hand.participants \cup {s.who}
         /\ hand' \in MatchDoc(DOMAIN hand'.participants) /\ hand' # NoMatch
         /\ hand'.state = hand.state /\ hand'.level = hand.level /\ hand'.blood = hand.blood
         /\ hand'.participants[s.who] = Listened(s)
         /\ \A p \in DOMAIN hand.participants \ {s.who} :
              hand'.participants[p] = hand.participants[p]
         /\ hand'.records = MapRecords(hand.records, ev, s.role,
                                       Cardinality(DOMAIN hand.participants), Listened(s).stats)
         /\ s.role \notin InterimRoles => match' = match /\ hand'.records = hand.records
         /\ s.role \in InterimRoles =>
              /\ match' \in MatchDoc(DOMAIN hand.participants) /\ match' # NoMatch
              /\ match'.state = hand.state /\ match'.level = hand.level
              /\ match'.blood = hand.blood /\ match'.records = hand'.records
              /\ match'.participants = hand.participants
<1> DEFINE roster == DOMAIN hand.participants
           part == Listened(s)
           records == MapRecords(hand.records, ev, s.role, Cardinality(roster), part.stats)
<1>1. /\ pc = "next" /\ pc' = "board" /\ subject' = s /\ Present(s.who)
      /\ match' = IF s.role \in InterimRoles THEN [hand EXCEPT !.records = records] ELSE match
      /\ hand' = [hand EXCEPT !.records = records, !.participants = Put(@, s.who, part)]
  BY DEF ListenAsParticipant, Listened
<1>2. s \in Service /\ ev \in Event /\ hand # NoMatch  BY <1>1 DEF TypeOK
<1>3. roster \in SUBSET Player /\ hand \in MatchDoc(roster)  BY <1>2, HandIs
<1>4. s.who \in Player /\ Participant(s.who) \in ParticipantDoc  BY <1>1, <1>2, PresentIs
<1>5. part \in ParticipantDoc
      /\ part.stats = Add(Participant(s.who).stats, ParticipantStat(ev, s.role))
  BY <1>2, <1>4, ListenParticipantIs DEF Listened
<1>6. part.stats \in Statistic  BY <1>5 DEF ParticipantDoc
<1>7. /\ hand.state \in {"InProgress", "Post"} /\ hand.level \in Levels
      /\ hand.records \in Records /\ hand.blood \in BOOLEAN
      /\ hand.participants \in [roster -> ParticipantDoc]
  BY <1>3, MatchDocIs
<1>8. records \in Records  BY <1>2, <1>6, <1>7, MapRecordsAre
<1>9. /\ Put(hand.participants, s.who, part) \in [roster \cup {s.who} -> ParticipantDoc]
      /\ Put(hand.participants, s.who, part)[s.who] = part
      /\ \A q \in roster \ {s.who} :
           Put(hand.participants, s.who, part)[q] = hand.participants[q]
  <2>1. Put(hand.participants, s.who, part)[s.who] = part
        /\ \A q \in roster \ {s.who} :
             Put(hand.participants, s.who, part)[q] = hand.participants[q]
    BY DEF Put
  <2> HIDE DEF roster, part
  <2>2. Put(hand.participants, s.who, part) \in [roster \cup {s.who} -> ParticipantDoc]
    BY <1>3, <1>4, <1>5, <1>7, PutIn
  <2> QED BY <2>1, <2>2
<1> DEFINE parts == Put(hand.participants, s.who, part)
<1> HIDE DEF roster, part, records, parts
<1>10. /\ hand' \in MatchDoc(roster \cup {s.who})
       /\ hand'.state = hand.state /\ hand'.level = hand.level /\ hand'.blood = hand.blood
       /\ hand'.participants = parts /\ hand'.records = records
  <2>1. hand' = [hand EXCEPT !.records = records, !.participants = parts]  BY <1>1 DEF parts
  <2> QED BY <1>3, <1>8, <1>9, <2>1 DEF MatchDoc, parts
<1>11. roster \cup {s.who} \in SUBSET Player  BY <1>3, <1>4
<1>12. /\ DOMAIN hand'.participants = roster \cup {s.who}
       /\ hand' # NoMatch
  BY <1>10, <1>11, MatchDocIs, NoDocAssumption
<1>13. ASSUME s.role \in InterimRoles
       PROVE  /\ match' \in MatchDoc(roster) /\ match' # NoMatch
              /\ match'.state = hand.state /\ match'.level = hand.level
              /\ match'.blood = hand.blood /\ match'.records = records
              /\ match'.participants = hand.participants
  <2>1. match' = [hand EXCEPT !.records = records]  BY <1>1, <1>13
  <2>2. /\ match' \in MatchDoc(roster)
        /\ match'.state = hand.state /\ match'.level = hand.level
        /\ match'.blood = hand.blood /\ match'.records = records
        /\ match'.participants = hand.participants
    BY <1>3, <1>8, <2>1 DEF MatchDoc
  <2> QED BY <1>3, <2>2, NoDocAssumption
<1>14. ASSUME s.role \notin InterimRoles PROVE match' = match /\ records = hand.records
  <2>1. MapRecords(hand.records, ev, s.role, Cardinality(roster), part.stats) = hand.records
    BY <1>14 DEF MapRecords, InterimRoles
  <2> QED BY <1>1, <1>14, <2>1 DEF records
<1> QED BY <1>1, <1>2, <1>4, <1>5, <1>9, <1>10, <1>12, <1>13, <1>14 DEF roster, part, records, parts

LEMMA ForgetType ==
  ASSUME TypeOK, Forget, UNCHANGED <<mode, stores>>, events' \in Nat
  PROVE  TypeOK'
  BY NoneInIs, NoEventType DEF TypeOK, Forget, stores

\* The handlers that begin
LEMMA HandleType ==
  ASSUME TypeOK, pc = "idle", NEW e \in Event, e.kind # "none", NEW roles \in SUBSET Service,
         Handle(e, roles), UNCHANGED mode, match # NoMatch, hand' # NoMatch,
         \E roster \in SUBSET Player : hand' \in MatchDoc(roster),
         \E roster \in SUBSET Player : taken' \in [roster -> ParticipantDoc]
  PROVE  TypeOK'
  BY DEF TypeOK, Handle, stores

LEMMA OnPlayerDeathType ==
  ASSUME TypeOK, NEW v \in Player, NEW a \in Player \cup {NoOne}, NEW shot \in mode.shots,
         NEW n \in mode.amounts, OnPlayerDeath(v, a, shot, n), UNCHANGED mode
  PROVE  TypeOK'
<1> DEFINE said == [NoEvent EXCEPT !.kind = "death", !.player = v, !.attacker = a,
                              !.cause = shot.cause, !.distance = shot.distance, !.n = n]
           e == [said EXCEPT !.blood = ~match.blood /\ Murder(said)]
           roles == {[role |-> "death", who |-> v]}
                     \cup (IF Murder(e) THEN {[role |-> "kill", who |-> a]} ELSE {})
<1>0. shot \in Shot /\ n \in Nat  BY ModeFacts DEF TypeOK
<1>1. /\ said \in Event /\ said.kind = "death" /\ said.player = v /\ said.attacker = a
  <2>1. shot.cause \in {"FALL", "VOID", "OTHER"} /\ shot.distance \in Nat \cup {NoDistance}
    BY <1>0 DEF Shot
  <2>2. "death" \in Kind  BY DEF Kind
  <2> QED BY <1>0, <2>1, <2>2, NoEventType DEF Event
<1> HIDE DEF said
<1>2. (~match.blood /\ Murder(said)) \in BOOLEAN  OBVIOUS
<1>3. e \in Event /\ e.kind = "death" /\ e.attacker = a /\ e.player = v  BY <1>1, <1>2 DEF Event
<1>4. pc = "idle" /\ match # NoMatch /\ Handle(e, roles) /\ taken' = taken
      /\ hand' = [match EXCEPT !.blood = @ \/ e.blood]
  BY DEF OnPlayerDeath, Accept, said
<1> HIDE DEF e
<1>5. roles \in SUBSET Service
  BY <1>3 DEF Service, Kind, Murder
<1>6. (match.blood \/ e.blood) \in BOOLEAN  OBVIOUS
<1>7. hand' \in MatchDoc(DOMAIN match.participants)
  BY <1>4, <1>6, MatchIs DEF MatchDoc
<1>8. hand' # NoMatch  BY <1>4, <1>7, MatchIs, NoDocAssumption
<1> HIDE DEF roles
<1> QED BY <1>3, <1>4, <1>5, <1>7, <1>8, MatchIs, HandleType, TakenIs

LEMMA OnDeedType ==
  ASSUME TypeOK, NEW kind \in mode.kinds, NEW p \in Player, NEW n \in mode.amounts,
         OnDeed(kind, p, n), UNCHANGED mode
  PROVE  TypeOK'
<1> DEFINE e == [NoEvent EXCEPT !.kind = kind, !.player = p, !.n = n]
           roles == {[role |-> kind, who |-> p]}
<1>0. kind \in Kind /\ n \in Nat /\ kind # "none"  BY ModeFacts DEF TypeOK, Kind
<1>1. e \in Event /\ e.kind = kind  BY <1>0 DEF Event, NoEvent, NoDistance
<1>2. roles \in SUBSET Service  BY <1>0 DEF Service
<1>3. pc = "idle" /\ match # NoMatch /\ Handle(e, roles) /\ taken' = taken /\ hand' = match
  BY DEF OnDeed, Accept
<1> HIDE DEF e, roles
<1> QED BY <1>0, <1>1, <1>2, <1>3, MatchIs, HandleType, TakenIs

LEMMA OnTeamDeedType ==
  ASSUME TypeOK, NEW kind \in mode.kinds, NEW team \in SUBSET Player, NEW n \in mode.amounts,
         OnTeamDeed(kind, team, n), UNCHANGED mode
  PROVE  TypeOK'
<1> DEFINE e == [NoEvent EXCEPT !.kind = kind, !.n = n, !.team = team]
           roles == {[role |-> kind, who |-> p] : p \in team}
<1>0. kind \in Kind /\ n \in Nat /\ kind # "none"  BY ModeFacts DEF TypeOK, Kind
<1>1. e \in Event /\ e.kind = kind  BY <1>0 DEF Event, NoEvent, NoDistance
<1>2. roles \in SUBSET Service  BY <1>0 DEF Service
<1>3. pc = "idle" /\ match # NoMatch /\ Handle(e, roles) /\ taken' = taken /\ hand' = match
  BY DEF OnTeamDeed, Accept
<1> HIDE DEF e, roles
<1> QED BY <1>0, <1>1, <1>2, <1>3, MatchIs, HandleType, TakenIs

LEMMA OnPartyJoinType ==
  ASSUME TypeOK, NEW p \in Player, OnPartyJoin(p), UNCHANGED mode
  PROVE  TypeOK'
<1> DEFINE e == [NoEvent EXCEPT !.kind = "party_join", !.player = p]
           roles == {[role |-> "party_join", who |-> p]}
           roster == DOMAIN match.participants
<1>1. e \in Event /\ e.kind = "party_join"  BY DEF Event, NoEvent, NoDistance, Kind
<1>2. roles \in SUBSET Service  BY DEF Service, Kind
<1>3. pc = "idle" /\ match # NoMatch /\ Handle(e, roles) /\ taken' = taken
      /\ hand' = IF p \in roster THEN match
                 ELSE [match EXCEPT !.participants = Put(@, p, NewParticipant)]
  BY DEF OnPartyJoin, Accept
<1>4. roster \in SUBSET Player /\ match \in MatchDoc(roster)  BY <1>3, MatchIs
<1>5. Put(match.participants, p, NewParticipant) \in [roster \cup {p} -> ParticipantDoc]
  <2>1. match.participants \in [roster -> ParticipantDoc]  BY <1>4, MatchDocIs
  <2> HIDE DEF roster
  <2> QED BY <1>4, <2>1, NewParticipantType, PutIn
<1> HIDE DEF e, roles, roster
<1>6. CASE p \in roster  BY <1>1, <1>2, <1>3, <1>4, <1>6, HandleType, TakenIs
<1>7. CASE p \notin roster
  <2>1. hand' \in MatchDoc(roster \cup {p})  BY <1>3, <1>4, <1>5, <1>7 DEF MatchDoc
  <2>2. roster \cup {p} \in SUBSET Player  BY <1>4
  <2>3. hand' # NoMatch  BY <2>1, <2>2, NoDocAssumption
  <2> QED BY <1>1, <1>2, <1>3, <2>1, <2>2, <2>3, HandleType, TakenIs
<1> QED BY <1>6, <1>7

LEMMA OnMatchEndType ==
  ASSUME TypeOK, NEW winners \in SUBSET Player, OnMatchEnd(winners), UNCHANGED mode
  PROVE  TypeOK'
<1> DEFINE e == [NoEvent EXCEPT !.kind = "match_end", !.team = winners]
           roster == DOMAIN match.participants
           roles == {[role |-> "match_end", who |-> p] : p \in roster}
<1>1. e \in Event /\ e.kind = "match_end"  BY DEF Event, NoEvent, NoDistance, Kind
<1>3. pc = "idle" /\ match # NoMatch /\ Handle(e, roles) /\ taken' = match.participants
      /\ hand' = [match EXCEPT !.state = "Post", !.participants = << >>]
  BY DEF OnMatchEnd, Accept
<1>4. roster \in SUBSET Player /\ match \in MatchDoc(roster)  BY <1>3, MatchIs
<1>5. match.participants \in [roster -> ParticipantDoc]  BY <1>4, MatchDocIs
<1>2. roles \in SUBSET Service  BY <1>4 DEF Service, Kind
<1> HIDE DEF e, roles, roster
<1>6. hand' \in MatchDoc({})  BY <1>3, <1>4, NoneInIs DEF MatchDoc
<1>7. hand' # NoMatch  BY <1>6, NoDocAssumption
<1> QED BY <1>1, <1>2, <1>3, <1>4, <1>5, <1>6, <1>7, HandleType

LEMMA OnMatchStartType ==
  ASSUME TypeOK, NEW lvl \in mode.levels, NEW roster \in mode.rosters, OnMatchStart(lvl, roster),
         UNCHANGED mode
  PROVE  /\ TypeOK' /\ match' \in MatchDoc(roster) /\ match' # NoMatch
         /\ DOMAIN match'.participants = roster
         /\ match'.level = lvl /\ match'.state = "InProgress" /\ match'.blood = FALSE
         /\ match'.records = level[lvl]
         /\ \A p \in roster : match'.participants[p] = NewParticipant
<1> DEFINE parts == [p \in roster |-> NewParticipant]
<1>1. roster \in SUBSET Player /\ lvl \in Levels  BY ModeFacts DEF TypeOK
<1>2. /\ match' = [state |-> "InProgress", level |-> lvl, records |-> level[lvl],
                   blood |-> FALSE, participants |-> parts]
      /\ past' = [p \in Player |-> Add(past[p], Held(match, p))]
      /\ rounds' = rounds + 1 /\ pc = "idle"
      /\ UNCHANGED <<level, profile, board, streak, told, multiplier, pc, local, events>>
  BY DEF OnMatchStart
<1>3. parts \in [roster -> ParticipantDoc] /\ \A p \in roster : parts[p] = NewParticipant
  BY NewParticipantType
<1>4. level[lvl] \in Records  BY <1>1 DEF TypeOK
<1> HIDE DEF parts
<1>5. match' \in MatchDoc(roster)  BY <1>1, <1>2, <1>3, <1>4 DEF MatchDoc
<1>6. match' # NoMatch  BY <1>1, <1>5, NoDocAssumption
<1>7. past' \in [Player -> Statistic]
  <2> SUFFICES ASSUME NEW p \in Player PROVE Add(past[p], Held(match, p)) \in Statistic
    BY <1>2
  <2>1. past[p] \in Statistic  BY DEF TypeOK
  <2>2. Held(match, p) \in Statistic
    BY MatchIs, MatchDocIs, ZeroIs DEF Held, ParticipantDoc
  <2> QED BY <2>1, <2>2, AddIs
<1>8. TypeOK'
  BY <1>1, <1>2, <1>5, <1>6, <1>7 DEF TypeOK, local
<1> QED BY <1>1, <1>2, <1>3, <1>5, <1>6, <1>8, MatchDocIs

LEMMA ListenAsParticipantType ==
  ASSUME TypeOK, NEW s \in queue, ListenAsParticipant(s), UNCHANGED mode
  PROVE  TypeOK'
<1>0. /\ queue' = queue \ {s} /\ subject' = s /\ pc' = "board" /\ pc = "next"
      /\ UNCHANGED <<level, profile, board, streak, told, past, multiplier, rounds, events,
                     ev, taken, prof>>
  BY DEF ListenAsParticipant
<1> DEFINE old == DOMAIN hand.participants
           new == old \cup {s.who}
<1>1. old \in SUBSET Player /\ s.who \in Player /\ s \in Service
  BY Listening, HandIs
<1>2. hand' \in MatchDoc(new) /\ hand' # NoMatch /\ DOMAIN hand'.participants = new
  BY Listening
<1>3. new \in SUBSET Player  BY <1>1
<1>4. match' # NoMatch /\ \E roster \in SUBSET Player : match' \in MatchDoc(roster)
  <2>1. CASE s.role \in InterimRoles  BY <1>1, <2>1, Listening
  <2>2. CASE s.role \notin InterimRoles
    <3>1. match' = match  BY <2>2, Listening
    <3> QED BY <1>0, <3>1, MatchIs DEF TypeOK
  <2> QED BY <2>1, <2>2
<1>5. Present(s.who)'
  <2>1. CASE ev.kind = "match_end"
    <3>1. Present(s.who)  BY Listening
    <3> QED BY <1>0, <2>1, <3>1 DEF Present
  <2>2. CASE ev.kind # "match_end"
    BY <1>0, <1>2, <2>2 DEF Present
  <2> QED BY <2>1, <2>2
<1>6. Present(subject.who)'  BY <1>0, <1>5 DEF Present
<1> HIDE DEF old, new
<1> QED BY <1>0, <1>1, <1>2, <1>3, <1>4, <1>6 DEF TypeOK

LEMMA ListenAsStrangerType ==
  ASSUME TypeOK, NEW s \in queue, ListenAsStranger(s), UNCHANGED mode
  PROVE  TypeOK'
<1>0. pc = "next" /\ s \in Service /\ UNCHANGED <<stores, events>> /\ events \in Nat
  BY DEF ListenAsStranger, TypeOK
<1>1. CASE s.role = "chat"
  BY <1>0, <1>1 DEF ListenAsStranger, TypeOK, stores
<1>2. CASE s.role = "destroyable_destroy"
  <2>1. queue' = queue \ {s} /\ UNCHANGED <<pc, ev, hand, taken, subject, prof>>
    BY <1>2 DEF ListenAsStranger
  <2> QED BY <1>0, <2>1 DEF TypeOK, stores
<1>3. CASE s.role \notin {"chat", "destroyable_destroy"}
  BY <1>0, <1>3, ForgetType DEF ListenAsStranger
<1> QED BY <1>1, <1>2, <1>3

\* What LeaderboardListener does to the boards
LEMMA ListenAsBoardIs ==
  ASSUME TypeOK, ListenAsBoard
  PROVE  /\ pc = "board" /\ pc' = "player" /\ subject.who \in Player /\ hand # NoMatch
         /\ Participant(subject.who).stats \in Statistic
         /\ board' \in [Player -> Statistic] /\ streak' \in [Player -> Nat]
         /\ \A p \in Player \ {subject.who} : board'[p] = board[p] /\ streak'[p] = streak[p]
         /\ \A c \in Counter : board'[subject.who][c] = board[subject.who][c]
              + (IF Tracking(hand)
                 THEN BoardTally(ev, subject.role, Participant(subject.who).stats)[c] ELSE 0)
         /\ streak'[subject.who] = IF Tracking(hand) /\ subject.role = "killstreak"
                                   THEN Higher(streak[subject.who], ev.n)
                                   ELSE streak[subject.who]
<1> DEFINE p == subject.who
           stats == Participant(p).stats
           t == BoardTally(ev, subject.role, stats)
<1>1. pc = "board" /\ pc' = "player" /\ p \in Player /\ hand # NoMatch /\ ev \in Event
      /\ ev.n \in Nat
  BY DEF ListenAsBoard, TypeOK, Service, Event
<1>2. stats \in Statistic  BY <1>1, PresentIs DEF TypeOK
<1>3. t \in Statistic  BY <1>1, <1>2, BoardTallyIs
<1>4. board[p] \in Statistic /\ streak[p] \in Nat  BY <1>1 DEF TypeOK
<1>5. /\ Add(board[p], t) \in Statistic
      /\ \A c \in Counter : Add(board[p], t)[c] = board[p][c] + t[c]
  BY <1>3, <1>4, AddIs
<1>6. Higher(streak[p], ev.n) \in Nat  BY <1>1, <1>4 DEF Higher
<1>7. \A c \in Counter : board[p][c] = board[p][c] + 0  BY <1>4 DEF Statistic
<1>8. board \in [Player -> Statistic] /\ streak \in [Player -> Nat]  BY DEF TypeOK
<1>9. CASE Tracking(hand)
  <2>1. board' = [board EXCEPT ![p] = Add(@, t)]
        /\ streak' = IF subject.role = "killstreak"
                     THEN [streak EXCEPT ![p] = Higher(@, ev.n)] ELSE streak
    BY <1>9 DEF ListenAsBoard
  <2> HIDE DEF p, t, stats
  <2>2. board' \in [Player -> Statistic] /\ board'[p] = Add(board[p], t)
        /\ \A q \in Player \ {p} : board'[q] = board[q]
    BY <1>1, <1>5, <1>8, <2>1
  <2>3. /\ streak' \in [Player -> Nat] /\ \A q \in Player \ {p} : streak'[q] = streak[q]
    BY <1>1, <1>6, <1>8, <2>1
  <2>4. streak'[p] = IF subject.role = "killstreak" THEN Higher(streak[p], ev.n) ELSE streak[p]
    BY <1>1, <1>8, <2>1
  <2> QED BY <1>1, <1>2, <1>5, <1>9, <2>2, <2>3, <2>4 DEF p, t, stats
<1>10. CASE ~Tracking(hand)
  <2>1. board' = board /\ streak' = streak  BY <1>10 DEF ListenAsBoard
  <2> HIDE DEF t
  <2> QED BY <1>1, <1>2, <1>7, <1>8, <1>10, <2>1
<1> QED BY <1>9, <1>10

\* What the player listeners do
LEMMA ListenAsPlayerIs ==
  ASSUME TypeOK, ListenAsPlayer
  PROVE  LET p == subject.who
         IN  /\ pc = "player" /\ pc' = "save" /\ p \in Player /\ hand # NoMatch
             /\ prof' = ListenPlayer(profile[p], hand, p, ev, subject.role)
             /\ prof' \in PlayerDoc /\ prof' # NoDoc
             /\ board' \in [Player -> Statistic]
             /\ \A q \in Player \ {p} : board'[q] = board[q]
             /\ \A c \in Counter \ {"xp"} : board'[p][c] = board[p][c]
             /\ board'[p]["xp"] = board[p]["xp"] + prof'.stats["xp"] - profile[p].stats["xp"]
             /\ prof'.stats["xp"] >= profile[p].stats["xp"]
             /\ told' = [told EXCEPT ![p] = prof']
<1> DEFINE p == subject.who
           new == ListenPlayer(profile[p], hand, p, ev, subject.role)
<1>1. /\ pc = "player" /\ pc' = "save" /\ p \in Player /\ hand # NoMatch /\ ev \in Event
      /\ ev.n \in Nat /\ multiplier \in Nat /\ profile[p] \in PlayerDoc
      /\ board \in [Player -> Statistic] /\ board[p] \in Statistic
  BY DEF ListenAsPlayer, TypeOK, Service, Event
<1>2. DOMAIN hand.participants \in SUBSET Player /\ hand \in MatchDoc(DOMAIN hand.participants)
  BY <1>1, HandIs
<1>3. /\ new \in PlayerDoc
      /\ \A c \in Counter :
           new.stats[c] >= profile[p].stats[c] + Worth(hand, ev, subject.role, c)
  BY <1>1, <1>2, ListenPlayerIs, StatsListened
<1>4. /\ prof' = new /\ told' = [told EXCEPT ![p] = new]
      /\ board' = [board EXCEPT ![p]["xp"] = @ + new.stats["xp"] - profile[p].stats["xp"]]
  BY DEF ListenAsPlayer, Send
<1>5. Worth(hand, ev, subject.role, "xp") = 0  BY <1>1, PlayerStatApart DEF Worth
<1> HIDE DEF new
<1>6. /\ new.stats["xp"] \in Nat /\ profile[p].stats["xp"] \in Nat /\ board[p]["xp"] \in Nat
  BY <1>1, <1>3, CounterHas DEF PlayerDoc, Statistic
<1>7. new.stats["xp"] >= profile[p].stats["xp"]
  BY <1>3, <1>5, <1>6, CounterHas
<1> DEFINE gain == board[p]["xp"] + new.stats["xp"] - profile[p].stats["xp"]
<1>8. gain \in Nat  BY <1>6, <1>7
<1>9. board' = [board EXCEPT ![p] = [board[p] EXCEPT !["xp"] = gain]]
  BY <1>1, <1>4
<1> HIDE DEF p, gain
<1>10. /\ [board[p] EXCEPT !["xp"] = gain] \in Statistic
       /\ \A c \in Counter \ {"xp"} : [board[p] EXCEPT !["xp"] = gain][c] = board[p][c]
       /\ [board[p] EXCEPT !["xp"] = gain]["xp"] = gain
  BY <1>1, <1>8, CounterHas DEF Statistic
<1>11. /\ board' \in [Player -> Statistic] /\ board'[p] = [board[p] EXCEPT !["xp"] = gain]
       /\ \A q \in Player \ {p} : board'[q] = board[q]
  BY <1>1, <1>9, <1>10
<1>12. prof' # NoDoc  BY <1>3, <1>4, NoDocAssumption
<1> QED BY <1>1, <1>3, <1>4, <1>7, <1>10, <1>11, <1>12 DEF p, new, gain

LEMMA ListenAsBoardType == ASSUME TypeOK, ListenAsBoard, UNCHANGED mode PROVE TypeOK'
<1>1. /\ pc = "board" /\ pc' = "player"
      /\ UNCHANGED <<match, level, profile, told, past, multiplier, rounds, events, local>>
  BY DEF ListenAsBoard
<1>2. board' \in [Player -> Statistic] /\ streak' \in [Player -> Nat]  BY ListenAsBoardIs
<1> QED BY <1>1, <1>2 DEF TypeOK, local

LEMMA ListenAsPlayerType == ASSUME TypeOK, ListenAsPlayer, UNCHANGED mode PROVE TypeOK'
<1>1. /\ pc = "player" /\ pc' = "save"
      /\ UNCHANGED <<match, level, profile, streak, past, multiplier, rounds, events,
                     ev, queue, hand, taken, subject>>
  BY DEF ListenAsPlayer
<1>2. /\ board' \in [Player -> Statistic] /\ prof' \in PlayerDoc /\ prof' # NoDoc
      /\ told' = [told EXCEPT ![subject.who] = prof']
  BY ListenAsPlayerIs
<1>3. told' \in [Player -> PlayerDoc]  BY <1>2 DEF TypeOK
<1> QED BY <1>1, <1>2, <1>3 DEF TypeOK

LEMMA SetPlayerType == ASSUME TypeOK, SetPlayer, UNCHANGED mode PROVE TypeOK'
<1>1. /\ pc = "save" /\ pc' = "next" /\ prof' = NoDoc
      /\ profile' = [profile EXCEPT ![subject.who] = prof]
      /\ UNCHANGED <<match, level, board, streak, told, past, multiplier, rounds, events,
                 ev, queue, hand, taken, subject>>
  BY DEF SetPlayer
<1>2. prof \in PlayerDoc  BY <1>1 DEF TypeOK
<1>3. profile' \in [Player -> PlayerDoc]  BY <1>1, <1>2 DEF TypeOK
<1> QED BY <1>1, <1>3 DEF TypeOK

LEMMA SaveLevelType == ASSUME TypeOK, SaveLevel, UNCHANGED mode PROVE TypeOK'
<1>1. /\ pc = "next" /\ pc' = "match" /\ hand # NoMatch
      /\ level' = [level EXCEPT ![hand.level] = hand.records]
      /\ UNCHANGED <<match, profile, board, streak, told, past, multiplier, rounds, events, local>>
  BY DEF SaveLevel, TypeOK
<1>2. hand.records \in Records  BY <1>1, HandIs, MatchDocIs
<1>3. level' \in [Levels -> Records]  BY <1>1, <1>2 DEF TypeOK
<1> QED BY <1>1, <1>3 DEF TypeOK, local

LEMMA SetMatchType == ASSUME TypeOK, SetMatch, UNCHANGED mode PROVE TypeOK'
<1>1. /\ pc # "idle" /\ match' = hand /\ Forget
      /\ UNCHANGED <<level, profile, board, streak, told, past, multiplier, rounds, events>>
  BY DEF SetMatch
<1>2. hand # NoMatch  BY <1>1 DEF TypeOK
<1> QED BY <1>1, <1>2, HandIs, NoneInIs, NoEventType DEF TypeOK, Forget

LEMMA NextTypeOK == TypeOK /\ [Next]_vars => TypeOK'
<1> SUFFICES ASSUME TypeOK, [Next]_vars PROVE TypeOK'  OBVIOUS
<1>1. CASE UNCHANGED vars
  BY <1>1 DEF TypeOK, vars, stores, local, Present
<1>2. CASE Next
  <2>0. UNCHANGED mode  BY <1>2 DEF Next
  <2>1. ASSUME NEW l \in mode.levels, NEW r \in mode.rosters, OnMatchStart(l, r) PROVE TypeOK'
    BY <2>0, <2>1, OnMatchStartType
  <2>2. ASSUME NEW v \in Player, NEW a \in Player \cup {NoOne}, NEW s \in mode.shots,
               NEW n \in mode.amounts, OnPlayerDeath(v, a, s, n)
        PROVE  TypeOK'
    BY <2>0, <2>2, OnPlayerDeathType
  <2>3. ASSUME NEW k \in mode.kinds, NEW p \in Player, NEW n \in mode.amounts, OnDeed(k, p, n)
        PROVE  TypeOK'
    BY <2>0, <2>3, OnDeedType
  <2>4. ASSUME NEW k \in mode.kinds, NEW t \in SUBSET Player \ {{}}, NEW n \in mode.amounts,
               OnTeamDeed(k, t, n)
        PROVE  TypeOK'
    BY <2>0, <2>4, OnTeamDeedType
  <2>5. ASSUME NEW p \in Player, OnPartyJoin(p) PROVE TypeOK'  BY <2>0, <2>5, OnPartyJoinType
  <2>6. ASSUME NEW t \in SUBSET Player, OnMatchEnd(t) PROVE TypeOK'
    BY <2>0, <2>6, OnMatchEndType
  <2>7. ASSUME NEW n \in mode.multipliers, SetXpMultiplier(n) PROVE TypeOK'
    <3>1. n \in Nat  BY ModeFacts DEF TypeOK
    <3> QED BY <2>0, <2>7, <3>1 DEF TypeOK, SetXpMultiplier, local, Present
  <2>8. ASSUME NEW s \in queue, ListenAsParticipant(s) PROVE TypeOK'
    BY <2>0, <2>8, ListenAsParticipantType
  <2>9. ASSUME NEW s \in queue, ListenAsStranger(s) PROVE TypeOK'
    BY <2>0, <2>9, ListenAsStrangerType
  <2>10. ASSUME ListenAsBoard PROVE TypeOK'  BY <2>0, <2>10, ListenAsBoardType
  <2>11. ASSUME ListenAsPlayer PROVE TypeOK'  BY <2>0, <2>11, ListenAsPlayerType
  <2>12. ASSUME SetPlayer PROVE TypeOK'  BY <2>0, <2>12, SetPlayerType
  <2>13. ASSUME SaveLevel PROVE TypeOK'  BY <2>0, <2>13, SaveLevelType
  <2>14. ASSUME SetMatch PROVE TypeOK'  BY <2>0, <2>14, SetMatchType
  <2>15. ASSUME Die PROVE TypeOK'
    <3>1. Forget /\ UNCHANGED <<stores, events>> /\ events \in Nat  BY <2>15 DEF Die, TypeOK
    <3> QED BY <2>0, <3>1, ForgetType
  <2> QED BY <1>2, <2>1, <2>2, <2>3, <2>4, <2>5, <2>6, <2>7, <2>8, <2>9, <2>10, <2>11, <2>12,
             <2>13, <2>14, <2>15 DEF Next
<1> QED BY <1>1, <1>2

\* The documents and the handler's copies of them keep the shape of the structs,
\* whatever breaks off: no listener meets a document that is not there.
THEOREM TypeCorrect == Spec => []TypeOK
<1>1. TypeOK /\ [Next]_vars => TypeOK'  BY NextTypeOK
<1> QED BY InitTypeOK, <1>1, PTL DEF Spec

-----------------------------------------------------------------------------
(* The shape of the work.  Begins says what the handlers have in common when  *)
(* they take up an event, and a step is a start of a match, such a beginning, *)
(* one of the listeners, or the end of the handler.                         *)

Serving == {"board", "player", "save"}

\* May an event have this service done?
ServiceOf(s, e) ==
  \/ s.role = e.kind /\ (e.kind = "death" => s.who = e.player)
  \/ s.role = "kill" /\ e.kind = "death" /\ Murder(e) /\ s.who = e.attacker

\* What every event leaves of the participants in hand, but for late joins
Continues ==
  /\ taken' = taken /\ hand'.state = match.state
  /\ DOMAIN match.participants \subseteq DOMAIN hand'.participants
  /\ \A p \in DOMAIN match.participants : hand'.participants[p] = match.participants[p]
  /\ \A p \in DOMAIN hand'.participants \ DOMAIN match.participants :
       ev'.kind = "party_join" /\ hand'.participants[p] = NewParticipant

Begins ==
  /\ pc = "idle" /\ pc' = "next" /\ match # NoMatch
  /\ UNCHANGED <<mode, stores, subject, prof>>
  /\ ev' \in Event /\ ev'.kind \in Kind
  /\ ev'.kind \notin Unchecked \/ mode.orderly => match.state = "InProgress"
  /\ hand'.level = match.level /\ hand'.records = match.records
  /\ hand'.blood = (match.blood \/ ev'.blood)
  /\ ev'.blood => ~match.blood
  /\ ev'.kind # "match_end" => Continues
  /\ ev'.kind = "match_end" =>
       /\ taken' = match.participants /\ DOMAIN hand'.participants = {} /\ hand'.state = "Post"
       /\ \A p \in DOMAIN match.participants : [role |-> "match_end", who |-> p] \in queue'
       /\ \A s \in queue' : s.who \in DOMAIN match.participants
  /\ ev'.kind = "death" => [role |-> "death", who |-> ev'.player] \in queue'
  /\ ev'.kind = "death" /\ Murder(ev') => [role |-> "kill", who |-> ev'.attacker] \in queue'
  /\ \A s \in queue' : ServiceOf(s, ev')

LEMMA OnPlayerDeathBegins ==
  ASSUME TypeOK, NEW v \in Player, NEW a \in Player \cup {NoOne}, NEW shot \in mode.shots,
         NEW n \in mode.amounts, OnPlayerDeath(v, a, shot, n), UNCHANGED mode
  PROVE  Begins
<1> DEFINE said == [NoEvent EXCEPT !.kind = "death", !.player = v, !.attacker = a,
                              !.cause = shot.cause, !.distance = shot.distance, !.n = n]
           blood == ~match.blood /\ Murder(said)
           e == [said EXCEPT !.blood = blood]
           roles == {[role |-> "death", who |-> v]}
                     \cup (IF Murder(e) THEN {[role |-> "kill", who |-> a]} ELSE {})
<1>1. /\ pc = "idle" /\ match # NoMatch /\ Handle(e, roles) /\ taken' = taken
      /\ hand' = [match EXCEPT !.blood = @ \/ e.blood]
      /\ mode.orderly \/ "death" \in Unchecked \/ match.state = "InProgress"
      /\ mode.orderly => match.state = "InProgress"
  BY DEF OnPlayerDeath, Accept
<1>2. /\ e.kind = "death" /\ e.player = v /\ e.attacker = a /\ e.blood = blood
      /\ said.player = v /\ said.attacker = a
  BY DEF NoEvent
<1>3. match \in MatchDoc(DOMAIN match.participants)  BY <1>1, MatchIs
<1> HIDE DEF e, said
<1>4. /\ hand'.level = match.level /\ hand'.records = match.records
      /\ hand'.state = match.state /\ hand'.participants = match.participants
      /\ hand'.blood = (match.blood \/ e.blood)
  BY <1>1, <1>3 DEF MatchDoc
<1>5. blood => ~match.blood  OBVIOUS
<1>6. "death" \notin Unchecked /\ "death" \in Kind  BY DEF Unchecked, Kind
<1> HIDE DEF blood
<1>7. /\ ev' = e /\ queue' = roles /\ pc' = "next" /\ UNCHANGED <<stores, subject, prof>>
  BY <1>1 DEF Handle
<1>8. \A s \in roles : ServiceOf(s, e)
  BY <1>2 DEF ServiceOf
<1>9. /\ [role |-> "death", who |-> v] \in roles
      /\ Murder(e) => [role |-> "kill", who |-> a] \in roles
  OBVIOUS
<1>10. TypeOK'  BY OnPlayerDeathType
<1>11. ev' \in Event  BY <1>10 DEF TypeOK
<1> HIDE DEF roles
<1> QED BY <1>1, <1>2, <1>4, <1>5, <1>6, <1>7, <1>8, <1>9, <1>11 DEF Begins, Continues

LEMMA OnDeedBegins ==
  ASSUME TypeOK, NEW kind \in mode.kinds, NEW p \in Player, NEW n \in mode.amounts,
         OnDeed(kind, p, n), UNCHANGED mode
  PROVE  Begins
<1> DEFINE e == [NoEvent EXCEPT !.kind = kind, !.player = p, !.n = n]
           roles == {[role |-> kind, who |-> p]}
<1>1. /\ pc = "idle" /\ match # NoMatch /\ Handle(e, roles) /\ taken' = taken /\ hand' = match
      /\ mode.orderly \/ kind \in Unchecked \/ match.state = "InProgress"
      /\ mode.orderly => match.state = "InProgress"
      /\ kind \in {"chat", "killstreak", "killstreak_end", "destroyable_damage", "flag_place",
               "flag_pickup", "flag_drop", "flag_defend", "wool_place", "wool_pickup",
               "wool_drop", "wool_defend"}
  BY DEF OnDeed, Accept
<1>2. e.kind = kind /\ e.blood = FALSE  BY DEF NoEvent
<1>3. kind \notin {"match_end", "death"} /\ kind \in Kind  BY <1>1 DEF Kind
<1> HIDE DEF e
<1>4. /\ ev' = e /\ queue' = roles /\ pc' = "next" /\ UNCHANGED <<stores, subject, prof>>
  BY <1>1 DEF Handle
<1>5. \A s \in roles : ServiceOf(s, e)  BY <1>2, <1>3 DEF ServiceOf
<1>6. TypeOK'  BY OnDeedType
<1>7. ev' \in Event  BY <1>6 DEF TypeOK
<1>8. match.blood \in BOOLEAN  BY <1>1, MatchIs, MatchDocIs
<1> HIDE DEF roles
<1> QED BY <1>1, <1>2, <1>3, <1>4, <1>5, <1>7, <1>8 DEF Begins, Continues

LEMMA OnTeamDeedBegins ==
  ASSUME TypeOK, NEW kind \in mode.kinds, NEW team \in SUBSET Player, NEW n \in mode.amounts,
         OnTeamDeed(kind, team, n), UNCHANGED mode
  PROVE  Begins
<1> DEFINE e == [NoEvent EXCEPT !.kind = kind, !.n = n, !.team = team]
           roles == {[role |-> kind, who |-> p] : p \in team}
<1>1. /\ pc = "idle" /\ match # NoMatch /\ Handle(e, roles) /\ taken' = taken /\ hand' = match
      /\ mode.orderly \/ kind \in Unchecked \/ match.state = "InProgress"
      /\ mode.orderly => match.state = "InProgress"
      /\ kind \in {"destroyable_destroy", "core_leak", "control_point_capture"}
  BY DEF OnTeamDeed, Accept
<1>2. e.kind = kind /\ e.blood = FALSE  BY DEF NoEvent
<1>3. kind \notin {"match_end", "death"} /\ kind \in Kind  BY <1>1 DEF Kind
<1> HIDE DEF e
<1>4. /\ ev' = e /\ queue' = roles /\ pc' = "next" /\ UNCHANGED <<stores, subject, prof>>
  BY <1>1 DEF Handle
<1>5. \A s \in roles : ServiceOf(s, e)  BY <1>2, <1>3 DEF ServiceOf
<1>6. TypeOK'  BY OnTeamDeedType
<1>7. ev' \in Event  BY <1>6 DEF TypeOK
<1>8. match.blood \in BOOLEAN  BY <1>1, MatchIs, MatchDocIs
<1> HIDE DEF roles
<1> QED BY <1>1, <1>2, <1>3, <1>4, <1>5, <1>7, <1>8 DEF Begins, Continues

LEMMA OnPartyJoinBegins ==
  ASSUME TypeOK, NEW p \in Player, OnPartyJoin(p), UNCHANGED mode
  PROVE  Begins
<1> DEFINE e == [NoEvent EXCEPT !.kind = "party_join", !.player = p]
           roles == {[role |-> "party_join", who |-> p]}
           roster == DOMAIN match.participants
<1>1. /\ pc = "idle" /\ match # NoMatch /\ Handle(e, roles) /\ taken' = taken
      /\ hand' = IF p \in roster THEN match
                 ELSE [match EXCEPT !.participants = Put(@, p, NewParticipant)]
      /\ mode.orderly \/ "party_join" \in Unchecked \/ match.state = "InProgress"
      /\ mode.orderly => match.state = "InProgress"
  BY DEF OnPartyJoin, Accept
<1>2. e.kind = "party_join" /\ e.blood = FALSE  BY DEF NoEvent
<1>3. "party_join" \in Kind /\ "party_join" \notin Unchecked  BY DEF Kind, Unchecked
<1> HIDE DEF e
<1>4. /\ ev' = e /\ queue' = roles /\ pc' = "next" /\ UNCHANGED <<stores, subject, prof>>
  BY <1>1 DEF Handle
<1>5. \A s \in roles : ServiceOf(s, e)  BY <1>2, <1>3 DEF ServiceOf
<1>6. TypeOK'  BY OnPartyJoinType
<1>7. ev' \in Event  BY <1>6 DEF TypeOK
<1>8. match.blood \in BOOLEAN /\ match \in MatchDoc(roster)  BY <1>1, MatchIs, MatchDocIs
<1>9. /\ hand'.state = match.state /\ hand'.level = match.level /\ hand'.records = match.records
      /\ hand'.blood = match.blood
      /\ roster \subseteq DOMAIN hand'.participants
      /\ \A q \in roster : hand'.participants[q] = match.participants[q]
      /\ \A q \in DOMAIN hand'.participants \ roster : hand'.participants[q] = NewParticipant
  <2>1. CASE p \in roster  BY <1>1, <2>1
  <2>2. CASE p \notin roster
    <3> DEFINE parts == Put(match.participants, p, NewParticipant)
    <3>1. /\ DOMAIN parts = roster \cup {p} /\ parts[p] = NewParticipant
          /\ \A q \in roster \ {p} : parts[q] = match.participants[q]
      BY DEF Put
    <3>2. hand' = [match EXCEPT !.participants = parts]  BY <1>1, <2>2
    <3> HIDE DEF parts
    <3>3. /\ hand'.state = match.state /\ hand'.level = match.level
          /\ hand'.records = match.records
          /\ hand'.blood = match.blood /\ hand'.participants = parts
      BY <1>8, <3>2 DEF MatchDoc
    <3> QED BY <2>2, <3>1, <3>3
  <2> QED BY <2>1, <2>2
<1> HIDE DEF roles, roster
<1> QED BY <1>1, <1>2, <1>3, <1>4, <1>5, <1>7, <1>8, <1>9 DEF Begins, Continues, roster

LEMMA OnMatchEndBegins ==
  ASSUME TypeOK, NEW winners \in SUBSET Player, OnMatchEnd(winners), UNCHANGED mode
  PROVE  Begins
<1> DEFINE e == [NoEvent EXCEPT !.kind = "match_end", !.team = winners]
           roster == DOMAIN match.participants
           roles == {[role |-> "match_end", who |-> p] : p \in roster}
<1>1. /\ pc = "idle" /\ match # NoMatch /\ Handle(e, roles) /\ taken' = match.participants
      /\ hand' = [match EXCEPT !.state = "Post", !.participants = << >>]
      /\ mode.orderly \/ "match_end" \in Unchecked \/ match.state = "InProgress"
      /\ mode.orderly => match.state = "InProgress"
  BY DEF OnMatchEnd, Accept
<1>2. e.kind = "match_end" /\ e.blood = FALSE  BY DEF NoEvent
<1>3. "match_end" \in Kind /\ "match_end" \notin Unchecked  BY DEF Kind, Unchecked
<1> HIDE DEF e
<1>4. /\ ev' = e /\ queue' = roles /\ pc' = "next" /\ UNCHANGED <<stores, subject, prof>>
  BY <1>1 DEF Handle
<1>5. \A s \in roles : ServiceOf(s, e)  BY <1>2, <1>3 DEF ServiceOf
<1>6. TypeOK'  BY OnMatchEndType
<1>7. ev' \in Event  BY <1>6 DEF TypeOK
<1>8. match.blood \in BOOLEAN /\ match \in MatchDoc(roster)  BY <1>1, MatchIs, MatchDocIs
<1>9. /\ hand'.state = "Post" /\ hand'.level = match.level /\ hand'.records = match.records
      /\ hand'.blood = match.blood /\ DOMAIN hand'.participants = {}
  BY <1>1, <1>8, NoneInIs DEF MatchDoc
<1>10. /\ \A p \in roster : [role |-> "match_end", who |-> p] \in queue'
       /\ \A s \in queue' : s.who \in roster
  BY <1>4
<1> HIDE DEF roles
<1> QED BY <1>1, <1>2, <1>3, <1>4, <1>5, <1>7, <1>8, <1>9, <1>10 DEF Begins

\* Steps that leave the stores alone: somebody who is not in the match speaks
\* or is skipped, and the handler breaks off.
Speaks(s) ==
  /\ pc = "next" /\ s.role = "chat" /\ ~Present(s.who)
  /\ subject' = s /\ queue' = queue \ {s} /\ pc' = "player"
  /\ UNCHANGED <<mode, stores, ev, hand, taken, prof>>
Skips(s) ==
  /\ pc = "next" /\ s.role = "destroyable_destroy" /\ ~Present(s.who)
  /\ queue' = queue \ {s}
  /\ UNCHANGED <<mode, stores, pc, ev, hand, taken, subject, prof>>
BreaksOff ==
  /\ pc # "idle" /\ Forget /\ UNCHANGED <<mode, stores>>
  /\ mode.mayDie \/ (pc = "next" /\ \E s \in queue : ~Present(s.who))

\* A match starts, or only the multiplier is another.
Starts == /\ UNCHANGED mode
          /\ \E l \in mode.levels, r \in mode.rosters : OnMatchStart(l, r)
Multiplies == /\ UNCHANGED <<mode, match, level, profile, board, streak, told, past, rounds, pc, local>>

Listens ==
  /\ UNCHANGED mode
  /\ \/ \E s \in queue : ListenAsParticipant(s)
     \/ ListenAsBoard \/ ListenAsPlayer \/ SetPlayer \/ SaveLevel \/ SetMatch

LEMMA Steps ==
  ASSUME TypeOK, [Next]_vars
  PROVE  \/ UNCHANGED vars
         \/ Starts \/ Begins \/ Multiplies
         \/ \E s \in queue : Speaks(s) \/ Skips(s)
         \/ BreaksOff \/ Listens
<1>1. CASE UNCHANGED vars  BY <1>1
<1>2. CASE Next
  <2>0. UNCHANGED mode  BY <1>2 DEF Next
  <2>1. ASSUME NEW l \in mode.levels, NEW r \in mode.rosters, OnMatchStart(l, r) PROVE Starts
    BY <2>0, <2>1 DEF Starts
  <2>2. ASSUME NEW v \in Player, NEW a \in Player \cup {NoOne}, NEW s \in mode.shots,
               NEW n \in mode.amounts, OnPlayerDeath(v, a, s, n)
        PROVE  Begins
    BY <2>0, <2>2, OnPlayerDeathBegins
  <2>3. ASSUME NEW k \in mode.kinds, NEW p \in Player, NEW n \in mode.amounts, OnDeed(k, p, n)
        PROVE  Begins
    BY <2>0, <2>3, OnDeedBegins
  <2>4. ASSUME NEW k \in mode.kinds, NEW t \in SUBSET Player \ {{}}, NEW n \in mode.amounts,
               OnTeamDeed(k, t, n)
        PROVE  Begins
    BY <2>0, <2>4, OnTeamDeedBegins
  <2>5. ASSUME NEW p \in Player, OnPartyJoin(p) PROVE Begins  BY <2>0, <2>5, OnPartyJoinBegins
  <2>6. ASSUME NEW t \in SUBSET Player, OnMatchEnd(t) PROVE Begins
    BY <2>0, <2>6, OnMatchEndBegins
  <2>7. ASSUME NEW n \in mode.multipliers, SetXpMultiplier(n) PROVE Multiplies
    BY <2>0, <2>7 DEF SetXpMultiplier, Multiplies
  <2>8. ASSUME NEW s \in queue, ListenAsParticipant(s) PROVE Listens
    BY <2>0, <2>8 DEF Listens
  <2>9. ASSUME NEW s \in queue, ListenAsStranger(s) PROVE Speaks(s) \/ Skips(s) \/ BreaksOff
    <3>1. pc = "next" /\ ~Present(s.who) /\ UNCHANGED <<mode, stores>>
      BY <2>0, <2>9 DEF ListenAsStranger
    <3>2. CASE s.role = "chat"  BY <2>9, <3>1, <3>2 DEF ListenAsStranger, Speaks
    <3>3. CASE s.role = "destroyable_destroy"  BY <2>9, <3>1, <3>3 DEF ListenAsStranger, Skips
    <3>4. CASE s.role \notin {"chat", "destroyable_destroy"}
      BY <2>9, <3>1, <3>4 DEF ListenAsStranger, BreaksOff
    <3> QED BY <3>2, <3>3, <3>4
  <2>10. ASSUME ListenAsBoard \/ ListenAsPlayer \/ SetPlayer \/ SaveLevel \/ SetMatch PROVE Listens
    BY <2>0, <2>10 DEF Listens
  <2>11. ASSUME Die PROVE BreaksOff  BY <2>0, <2>11 DEF Die, BreaksOff
  <2> QED BY <1>2, <2>1, <2>2, <2>3, <2>4, <2>5, <2>6, <2>7, <2>8, <2>9, <2>10, <2>11 DEF Next
<1> QED BY <1>1, <1>2

\* At the end of a match those who were served are in hand again, as they were.
Ending ==
  /\ hand.state = "Post"
  /\ DOMAIN hand.participants \subseteq DOMAIN taken
  /\ \A p \in DOMAIN hand.participants : hand.participants[p] = taken[p]
  /\ \A s \in queue : s.who \in DOMAIN taken /\ s.who \notin DOMAIN hand.participants
  /\ \A p \in DOMAIN taken :
       p \in DOMAIN hand.participants \/ [role |-> "match_end", who |-> p] \in queue
  /\ pc \in Serving => match.state = "Post"

Shape ==
  /\ pc = "idle" => taken = << >>
  /\ pc # "idle" =>
       /\ hand.level = match.level /\ hand.records = match.records
       /\ \A s \in queue : ServiceOf(s, ev)
       /\ ev.kind = "match_end" => Ending
       /\ ev.kind # "match_end" => taken = << >> /\ hand.state = match.state
  /\ pc \in Serving =>
       /\ ServiceOf(subject, ev) /\ subject \notin queue
       /\ subject.who \in DOMAIN hand.participants \/ (pc # "board" /\ subject.role = "chat")
  /\ pc = "match" => queue = {} /\ ev.kind = "match_end"

LEMMA ListenedNothing ==
  ASSUME NEW part \in ParticipantDoc, NEW e \in Event, NEW role \in {"match_end", "party_join"}
  PROVE  ListenParticipant(part, e, role) = part
<1>1. e.n \in Nat  BY DEF Event
<1>2. Add(part.stats, ParticipantStat(e, role)) = part.stats
  BY <1>1, NothingCounted, AddZero DEF ParticipantDoc
<1>3. [part EXCEPT !.stats = Add(@, ParticipantStat(e, role))] = part
  BY <1>2 DEF ParticipantDoc
<1> QED BY <1>3 DEF ListenParticipant, Duel

LEMMA InitShape == Init => Shape
  BY DEF Init, Shape, Serving

LEMMA BeginsShape == ASSUME TypeOK, Shape, Begins PROVE Shape'
<1>1. pc = "idle" /\ pc' = "next" /\ match' = match /\ taken = << >>
  BY DEF Begins, Shape, stores
<1>2. ev'.kind = "match_end" => Ending'
  BY <1>1 DEF Begins, Ending, Serving
<1> QED BY <1>1, <1>2 DEF Begins, Continues, Shape, Serving

LEMMA ListensShape == ASSUME TypeOK, Shape, NEW s \in queue, ListenAsParticipant(s) PROVE Shape'
<1>1. /\ queue' = queue \ {s} /\ UNCHANGED <<ev, taken>> /\ pc = "next" /\ pc' = "board"
      /\ subject' = s
  BY DEF ListenAsParticipant
<1>2. ServiceOf(s, ev) /\ \A t \in queue : ServiceOf(t, ev)  BY <1>1 DEF Shape
<1>3. hand'.level = match'.level /\ hand'.records = match'.records
  <2>1. CASE s.role \in InterimRoles  BY <2>1, Listening
  <2>2. CASE s.role \notin InterimRoles  BY <1>1, <2>2, Listening DEF Shape
  <2> QED BY <2>1, <2>2
<1>4. ASSUME ev.kind # "match_end" PROVE hand'.state = match'.state
  <2>1. CASE s.role \in InterimRoles  BY <2>1, Listening
  <2>2. CASE s.role \notin InterimRoles  BY <1>1, <1>4, <2>2, Listening DEF Shape
  <2> QED BY <2>1, <2>2
<1>5. ASSUME ev.kind = "match_end" PROVE Ending'
  <2>1. s.role = "match_end" /\ s.role \in InterimRoles
    BY <1>2, <1>5 DEF ServiceOf, InterimRoles
  <2>2. Ending  BY <1>1, <1>5 DEF Shape
  <2>3. Listened(s) = taken[s.who]
    <3>1. Participant(s.who) = taken[s.who]  BY <1>5 DEF Participant
    <3>2. Participant(s.who) \in ParticipantDoc /\ ev \in Event  BY Listening DEF TypeOK
    <3> QED BY <2>1, <3>1, <3>2, ListenedNothing DEF Listened
  <2>4. /\ hand'.state = "Post" /\ match'.state = "Post"
        /\ DOMAIN hand'.participants = DOMAIN hand.participants \cup {s.who}
        /\ hand'.participants[s.who] = taken[s.who]
        /\ \A p \in DOMAIN hand.participants \ {s.who} :
             hand'.participants[p] = hand.participants[p]
    BY <2>1, <2>2, <2>3, Listening DEF Ending
  <2>5. \A t \in queue' : t.who # s.who
    <3> SUFFICES ASSUME NEW t \in queue, t # s PROVE t.who # s.who  BY <1>1
    <3>1. t.role = "match_end"  BY <1>2, <1>5 DEF ServiceOf
    <3>2. t \in Service /\ s \in Service  BY DEF TypeOK
    <3> QED BY <2>1, <3>1, <3>2 DEF Service
  <2>6. s.who \in DOMAIN taken  BY <2>2 DEF Ending
  <2>7. \A p \in DOMAIN taken : p \in DOMAIN hand'.participants
                                \/ [role |-> "match_end", who |-> p] \in queue'
    <3> SUFFICES ASSUME NEW p \in DOMAIN taken, p \notin DOMAIN hand'.participants
                 PROVE  [role |-> "match_end", who |-> p] \in queue'
      OBVIOUS
    <3>1. p # s.who /\ p \notin DOMAIN hand.participants  BY <2>4
    <3>2. [role |-> "match_end", who |-> p] \in queue  BY <2>2, <3>1 DEF Ending
    <3>3. [role |-> "match_end", who |-> p] # s  BY <3>1
    <3> QED BY <1>1, <3>2, <3>3
  <2> QED BY <1>1, <2>2, <2>4, <2>5, <2>6, <2>7 DEF Ending
<1>6. s.who \in DOMAIN hand'.participants  BY Listening
<1> QED BY <1>1, <1>2, <1>3, <1>4, <1>5, <1>6 DEF Shape, Serving

LEMMA NextShape == ASSUME TypeOK, Shape, [Next]_vars PROVE Shape'
<1>1. CASE UNCHANGED vars \/ Multiplies
  BY <1>1 DEF Shape, Ending, Multiplies, vars, stores, local
<1>2. CASE Starts
  <2>1. pc = "idle" /\ pc' = "idle" /\ taken' = taken  BY <1>2 DEF Starts, OnMatchStart, local
  <2> QED BY <2>1 DEF Shape, Serving
<1>3. CASE Begins  BY <1>3, BeginsShape
<1>4. ASSUME NEW s \in queue, Speaks(s) PROVE Shape'
  <2>1. ev.kind = "chat"
    BY <1>4 DEF Speaks, Shape, ServiceOf
  <2>2. ServiceOf(s, ev)  BY <1>4 DEF Speaks, Shape
  <2> QED BY <1>4, <2>1, <2>2 DEF Speaks, Shape, Serving, stores
<1>5. ASSUME NEW s \in queue, Skips(s) PROVE Shape'
  <2>1. ev.kind = "destroyable_destroy"
    BY <1>5 DEF Skips, Shape, ServiceOf
  <2> QED BY <1>5, <2>1 DEF Skips, Shape, Serving, stores
<1>6. CASE BreaksOff
  BY <1>6 DEF BreaksOff, Forget, Shape, Serving
<1>7. CASE Listens
  <2>1. ASSUME NEW s \in queue, ListenAsParticipant(s) PROVE Shape'  BY <2>1, ListensShape
  <2>2. CASE ListenAsBoard
    BY <2>2 DEF ListenAsBoard, Shape, Ending, Serving, local
  <2>3. CASE ListenAsPlayer
    BY <2>3 DEF ListenAsPlayer, Shape, Ending, Serving
  <2>4. CASE SetPlayer
    BY <2>4 DEF SetPlayer, Shape, Ending, Serving
  <2>5. CASE SaveLevel
    BY <2>5 DEF SaveLevel, Shape, Ending, Serving, local
  <2>6. CASE SetMatch
    BY <2>6 DEF SetMatch, Forget, Shape, Serving
  <2> QED BY <1>7, <2>1, <2>2, <2>3, <2>4, <2>5, <2>6 DEF Listens
<1> QED BY <1>1, <1>2, <1>3, <1>4, <1>5, <1>6, <1>7, Steps

-----------------------------------------------------------------------------
(* What is paid and what is due.                                           *)

\* The statistics that p is about to have, and what they lack of the event
Paid(p) == IF pc = "save" /\ subject.who = p THEN prof.stats ELSE profile[p].stats
Due(p, c) ==
  IF pc \in {"board", "player"} /\ subject.who = p /\ Tracking(hand)
  THEN PlayerStat(ev, subject.role)[c] ELSE 0

LEMMA BooksAre ==
  ASSUME TypeOK, NEW p \in Player
  PROVE  /\ profile[p].stats \in Statistic /\ board[p] \in Statistic /\ past[p] \in Statistic
         /\ Paid(p) \in Statistic /\ Held(match, p) \in Statistic
         /\ \A c \in Counter : /\ profile[p].stats[c] \in Nat /\ board[p][c] \in Nat
                               /\ past[p][c] \in Nat /\ Paid(p)[c] \in Nat /\ Due(p, c) \in Nat
                               /\ Held(match, p)[c] \in Nat
<1>1. profile[p].stats \in Statistic /\ board[p] \in Statistic /\ past[p] \in Statistic
  BY DEF TypeOK, PlayerDoc
<1>2. Paid(p) \in Statistic  BY <1>1 DEF Paid, TypeOK, PlayerDoc
<1>3. Held(match, p) \in Statistic  BY MatchIs, MatchDocIs, ZeroIs DEF Held, ParticipantDoc
<1>4. ev.n \in Nat  BY DEF TypeOK, Event
<1>5. ASSUME NEW c \in Counter PROVE Due(p, c) \in Nat
  BY <1>4, PlayerStatIs DEF Due, Statistic
<1> QED BY <1>1, <1>2, <1>3, <1>5 DEF Statistic

LEMMA Numbers == TypeOK => \A q \in Player : \A c \in Counter : Held(match, q)[c] \in Nat
  BY BooksAre

LEMMA NumbersNext == (TypeOK => \A q \in Player : \A c \in Counter : Held(match, q)[c] \in Nat)'
  BY Numbers, PTL

\* What the player listeners make of the statistics
LEMMA Grown ==
  ASSUME TypeOK, ListenAsPlayer
  PROVE  /\ subject.who \in Player /\ pc = "player" /\ pc' = "save" /\ prof' \in PlayerDoc
         /\ profile' = profile /\ subject' = subject
         /\ \A c \in Counter : prof'.stats[c] >= profile[subject.who].stats[c] + Due(subject.who, c)
         /\ \A c \in Counter \ {"xp"} :
              prof'.stats[c] = profile[subject.who].stats[c] + Due(subject.who, c)
<1> DEFINE p == subject.who
<1>1. /\ pc = "player" /\ pc' = "save" /\ p \in Player /\ hand # NoMatch /\ ev \in Event
      /\ multiplier \in Nat /\ profile[p] \in PlayerDoc /\ profile' = profile
      /\ prof' = ListenPlayer(profile[p], hand, p, ev, subject.role) /\ prof' \in PlayerDoc
      /\ subject' = subject
  BY ListenAsPlayerIs DEF ListenAsPlayer, TypeOK
<1> DEFINE new == ListenPlayer(profile[p], hand, p, ev, subject.role)
<1>3. /\ \A c \in Counter \ {"xp"} :
           new.stats[c] = profile[p].stats[c] + Worth(hand, ev, subject.role, c)
      /\ \A c \in Counter :
           new.stats[c] >= profile[p].stats[c] + Worth(hand, ev, subject.role, c)
  <2> DEFINE d == profile[p]
             role == subject.role
  <2>1. ev \in Event /\ multiplier \in Nat /\ d \in PlayerDoc  BY <1>1
  <2> HIDE DEF p, d, role
  <2>2. \A c \in Counter \ {"xp"} :
          ListenPlayer(d, hand, p, ev, role).stats[c] = d.stats[c] + Worth(hand, ev, role, c)
    BY <2>1, StatsListened
  <2>3. \A c \in Counter :
          ListenPlayer(d, hand, p, ev, role).stats[c] >= d.stats[c] + Worth(hand, ev, role, c)
    BY <2>1, StatsListened
  <2> QED BY <2>2, <2>3 DEF d, role
<1> HIDE DEF new
<1>4. \A c \in Counter : Due(p, c) = Worth(hand, ev, subject.role, c)
  BY <1>1 DEF Due, Worth
<1> QED BY <1>1, <1>3, <1>4 DEF new

\* A copy of a player that is about to be written has lost nothing.
PlayersGrow ==
  pc = "save" => \A c \in Counter : prof.stats[c] >= profile[subject.who].stats[c]

LEMMA InitPlayersGrow == Init => PlayersGrow
  BY DEF Init, PlayersGrow

LEMMA NextPlayersGrow ==
  ASSUME TypeOK, PlayersGrow, [Next]_vars
  PROVE  PlayersGrow'
<1>1. CASE UNCHANGED vars \/ Multiplies
  BY <1>1 DEF PlayersGrow, Multiplies, vars, stores, local
<1>2. CASE Starts
  BY <1>2 DEF PlayersGrow, Starts, OnMatchStart
<1>3. CASE Begins \/ BreaksOff \/ \E s \in queue : Speaks(s) \/ Skips(s)
  BY <1>3 DEF PlayersGrow, Begins, BreaksOff, Forget, Speaks, Skips
<1>4. CASE Listens
  <2>1. CASE ListenAsPlayer
    <3>1. subject.who \in Player  BY <2>1, Grown
    <3>2. \A c \in Counter : profile[subject.who].stats[c] \in Nat /\ Due(subject.who, c) \in Nat
      BY <3>1, BooksAre
    <3>3. \A c \in Counter : prof'.stats[c] \in Nat  BY <2>1, Grown DEF PlayerDoc, Statistic
    <3> QED BY <2>1, <3>2, <3>3, Grown DEF PlayersGrow
  <2>2. CASE ~ListenAsPlayer
    <3>1. pc' # "save"
      BY <1>4, <2>2 DEF Listens, ListenAsParticipant, ListenAsBoard, SetPlayer, SaveLevel,
                        SetMatch, Forget
    <3> QED BY <3>1 DEF PlayersGrow
  <2> QED BY <2>1, <2>2
<1> QED BY <1>1, <1>2, <1>3, <1>4, Steps

\* A board has what a player has, and what the player is about to have.
Announced(p, c) == Paid(p)[c] + (IF pc = "player" THEN Due(p, c) ELSE 0)

BoardInv ==
  \A p \in Player : \A c \in Ranked :
    /\ board[p][c] >= profile[p].stats[c]
    /\ board[p][c] >= Announced(p, c)
    /\ ~mode.mayDie => board[p][c] = Announced(p, c)

LEMMA RankedHas == Ranked \subseteq Counter /\ "xp" \in Ranked /\ "messages" \notin Ranked
  BY CounterHas, ObjectivesApart DEF Ranked

\* What is said in the chat is a message, and nothing else.
LEMMA ChatIs ==
  ASSUME NEW e, e.n \in Nat
  PROVE  \A c \in Counter \ {"messages"} : PlayerStat(e, "chat")[c] = 0
<1>1. /\ CountFlag(e, "chat") = Zero /\ CountWool(e, "chat") = Zero /\ CountGoal(e, "chat") = Zero
      /\ CountCombat(e, "chat") = One("messages")
  BY DEF CountFlag, CountWool, CountGoal, CountCombat
<1>2. CountObjective(e, "chat") = Zero  BY <1>1, AddZero, ZeroIs DEF CountObjective
<1> QED BY <1>1, <1>2, PlayerStatIs, OneIs, ZeroIs

\* Steps that touch neither boards nor players, and serve nobody
LEMMA StillBoardInv ==
  ASSUME TypeOK, BoardInv, UNCHANGED <<mode, board, profile>>,
         pc \notin {"player", "save"} \/ mode.mayDie, pc' \notin {"player", "save"}
  PROVE  BoardInv'
<1> SUFFICES ASSUME NEW p \in Player, NEW c \in Ranked
             PROVE  /\ board[p][c] >= profile[p].stats[c]
                    /\ board[p][c] >= Announced(p, c)'
                    /\ ~mode.mayDie => board[p][c] = Announced(p, c)'
  BY DEF BoardInv
<1>1. Announced(p, c)' = profile[p].stats[c]
  BY BooksAre, RankedHas DEF Announced, Paid
<1>2. pc \notin {"player", "save"} => Announced(p, c) = profile[p].stats[c]
  BY BooksAre, RankedHas DEF Announced, Paid
<1> QED BY <1>1, <1>2 DEF BoardInv

LEMMA InitBoardInv == Init => BoardInv
<1> SUFFICES ASSUME Init, NEW p \in Player, NEW c \in Ranked
             PROVE  /\ board[p][c] >= profile[p].stats[c]
                    /\ board[p][c] = Announced(p, c)
  BY BooksAre, InitTypeOK, RankedHas DEF BoardInv
<1>1. board[p][c] = profile[p].stats[c]  BY DEF Init, NewPlayer
<1>2. Announced(p, c) = profile[p].stats[c]
  BY BooksAre, InitTypeOK, RankedHas DEF Announced, Paid, Init
<1> QED BY <1>1, <1>2, BooksAre, InitTypeOK, RankedHas

LEMMA NextBoardInv ==
  ASSUME TypeOK, Shape, BoardInv, [Next]_vars
  PROVE  BoardInv'
<1>1. CASE UNCHANGED vars \/ Multiplies
  BY <1>1 DEF BoardInv, Announced, Paid, Due, Multiplies, vars, stores, local
<1>2. CASE \/ Starts \/ Begins \/ BreaksOff \/ \E s \in queue : Skips(s)
  BY <1>2, StillBoardInv DEF Starts, OnMatchStart, Begins, BreaksOff, Forget, Skips, stores
<1>3. ASSUME NEW s \in queue, Speaks(s) PROVE BoardInv'
  <2> SUFFICES ASSUME NEW p \in Player, NEW c \in Ranked
               PROVE  /\ board[p][c] >= profile[p].stats[c]
                      /\ board[p][c] >= Announced(p, c)'
                      /\ ~mode.mayDie => board[p][c] = Announced(p, c)'
    BY <1>3 DEF BoardInv, Speaks, stores
  <2>1. Announced(p, c) = profile[p].stats[c]
    BY <1>3, BooksAre, RankedHas DEF Announced, Paid, Speaks
  <2>2. Due(p, c)' = 0
    <3>1. ev.n \in Nat  BY DEF TypeOK, Event
    <3> QED BY <1>3, <3>1, ChatIs, RankedHas DEF Due, Speaks
  <2>3. Announced(p, c)' = profile[p].stats[c]
    BY <1>3, <2>2, BooksAre, RankedHas DEF Announced, Paid, Speaks, stores
  <2> QED BY <2>1, <2>3 DEF BoardInv
<1>4. ASSUME NEW s \in queue, ListenAsParticipant(s), UNCHANGED mode PROVE BoardInv'
  BY <1>4, StillBoardInv DEF ListenAsParticipant
<1>5. CASE (SaveLevel \/ SetMatch) /\ UNCHANGED mode
  BY <1>5, StillBoardInv DEF SaveLevel, SetMatch, Forget
<1>6. CASE ListenAsBoard /\ UNCHANGED mode
  <2> SUFFICES ASSUME NEW p \in Player, NEW c \in Ranked
               PROVE  /\ board'[p][c] >= profile[p].stats[c]
                      /\ board'[p][c] >= Announced(p, c)'
                      /\ ~mode.mayDie => board'[p][c] = Announced(p, c)'
    BY <1>6 DEF BoardInv, ListenAsBoard
  <2>1. /\ c \in Counter /\ board[p][c] \in Nat /\ profile[p].stats[c] \in Nat
        /\ Due(p, c) \in Nat
    BY BooksAre, RankedHas
  <2>2. /\ pc = "board" /\ pc' = "player"
        /\ UNCHANGED <<match, level, profile, told, past, multiplier, rounds, events, local>>
    BY <1>6 DEF ListenAsBoard
  <2>3. Announced(p, c) = profile[p].stats[c]  BY <2>1, <2>2 DEF Announced, Paid
  <2>4. Announced(p, c)' = profile[p].stats[c] + Due(p, c)
    BY <2>1, <2>2 DEF Announced, Paid, Due, local
  <2>5. board'[p][c] = board[p][c] + Due(p, c)
    <3>1. CASE p # subject.who
      <4>1. board'[p] = board[p]  BY <1>6, <3>1, ListenAsBoardIs
      <4>2. Due(p, c) = 0  BY <3>1 DEF Due
      <4> QED BY <2>1, <4>1, <4>2
    <3>2. CASE p = subject.who
      <4>1. ev.n \in Nat /\ Participant(p).stats \in Statistic
        BY <1>6, <3>2, ListenAsBoardIs DEF TypeOK, Event
      <4>2. BoardTally(ev, subject.role, Participant(p).stats)[c] = PlayerStat(ev, subject.role)[c]
        BY <4>1, BoardTallyIs, PlayerStatApart
      <4> QED BY <1>6, <2>1, <2>2, <3>2, <4>2, ListenAsBoardIs DEF Due
    <3> QED BY <3>1, <3>2
  <2> QED BY <2>1, <2>3, <2>4, <2>5 DEF BoardInv
<1>7. CASE ListenAsPlayer /\ UNCHANGED mode
  <2> SUFFICES ASSUME NEW p \in Player, NEW c \in Ranked
               PROVE  /\ board'[p][c] >= profile[p].stats[c]
                      /\ board'[p][c] >= Announced(p, c)'
                      /\ ~mode.mayDie => board'[p][c] = Announced(p, c)'
    BY <1>7 DEF BoardInv, ListenAsPlayer
  <2>1. /\ c \in Counter /\ board[p][c] \in Nat /\ profile[p].stats[c] \in Nat
        /\ Due(p, c) \in Nat
    BY BooksAre, RankedHas
  <2>2. /\ pc = "player" /\ pc' = "save" /\ subject' = subject /\ profile' = profile
        /\ prof' \in PlayerDoc
    BY <1>7, Grown
  <2>3. Announced(p, c) = profile[p].stats[c] + Due(p, c)  BY <2>2 DEF Announced, Paid
  <2>4. CASE p # subject.who
    <3>1. Announced(p, c)' = profile[p].stats[c]  BY <2>1, <2>2, <2>4 DEF Announced, Paid
    <3>2. board'[p] = board[p]  BY <1>7, <2>4, ListenAsPlayerIs
    <3>3. Due(p, c) = 0  BY <2>4 DEF Due
    <3> QED BY <2>1, <2>3, <3>1, <3>2, <3>3 DEF BoardInv
  <2>5. CASE p = subject.who
    <3>0. prof'.stats[c] \in Nat  BY <2>1, <2>2 DEF PlayerDoc, Statistic
    <3>1. Announced(p, c)' = prof'.stats[c]  BY <2>2, <2>5, <3>0 DEF Announced, Paid
    <3>2. CASE c # "xp"
      <4>1. board'[p][c] = board[p][c]  BY <1>7, <2>1, <2>5, <3>2, ListenAsPlayerIs
      <4>2. prof'.stats[c] = profile[p].stats[c] + Due(p, c)
        BY <1>7, <2>1, <2>5, <3>2, Grown
      <4> QED BY <2>1, <2>3, <3>1, <4>1, <4>2 DEF BoardInv
    <3>3. CASE c = "xp"
      <4>1. Due(p, c) = 0
        <5>1. ev.n \in Nat  BY DEF TypeOK, Event
        <5> QED BY <3>3, <5>1, PlayerStatApart DEF Due
      <4>2. /\ board'[p][c] = board[p][c] + prof'.stats[c] - profile[p].stats[c]
            /\ prof'.stats[c] >= profile[p].stats[c]
        BY <1>7, <2>5, <3>3, ListenAsPlayerIs
      <4> QED BY <2>1, <2>3, <3>0, <3>1, <4>1, <4>2 DEF BoardInv
    <3> QED BY <3>2, <3>3
  <2> QED BY <2>4, <2>5
<1>8. CASE SetPlayer /\ UNCHANGED mode
  <2> SUFFICES ASSUME NEW p \in Player, NEW c \in Ranked
               PROVE  /\ board[p][c] >= profile'[p].stats[c]
                      /\ board[p][c] >= Announced(p, c)'
                      /\ ~mode.mayDie => board[p][c] = Announced(p, c)'
    BY <1>8 DEF BoardInv, SetPlayer
  <2>1. pc = "save" /\ pc' = "next" /\ profile' = [profile EXCEPT ![subject.who] = prof]
    BY <1>8 DEF SetPlayer
  <2>2. profile'[p].stats = Paid(p)  BY <2>1 DEF Paid, TypeOK
  <2>3. Paid(p)[c] \in Nat  BY BooksAre, RankedHas
  <2>4. Announced(p, c) = Paid(p)[c]  BY <2>1, <2>3 DEF Announced
  <2>5. Announced(p, c)' = Paid(p)[c]  BY <2>1, <2>2, <2>3 DEF Announced, Paid
  <2> QED BY <2>2, <2>4, <2>5 DEF BoardInv
<1> QED BY <1>1, <1>2, <1>3, <1>4, <1>5, <1>6, <1>7, <1>8, Steps DEF Listens

-----------------------------------------------------------------------------
(* Participants and players.                                               *)

\* What the handler's copy of the match has of p, in it or taken out of it
Copied(p) ==
  IF p \in DOMAIN hand.participants THEN hand.participants[p].stats
  ELSE IF p \in DOMAIN taken THEN taken[p].stats ELSE Zero

\* What tracked matches are about to hold of p when the handler is done
Kept(p) ==
  IF pc = "idle" THEN Held(match, p) ELSE IF Tracking(hand) THEN Copied(p) ELSE Zero

\* Nothing breaks off, and everybody is in the match from its start.
Everybody == ~mode.mayDie /\ mode.rosters \subseteq {Player}

EverybodyInv ==
  Everybody => /\ pc # "idle" => DOMAIN hand.participants \cup DOMAIN taken = Player
               /\ pc = "idle" /\ match # NoMatch => DOMAIN match.participants = Player

LedgerInv ==
  \A p \in Player : \A c \in Counter :
    /\ profile[p].stats[c] >= past[p][c] + Held(match, p)[c]
    /\ Paid(p)[c] + Due(p, c) >= past[p][c] + Kept(p)[c]
    /\ Everybody /\ c \notin {"first_bloods", "first_bloods_suffered", "xp"} =>
         Paid(p)[c] + Due(p, c) = past[p][c] + Kept(p)[c]

LEMMA CopiedIs ==
  ASSUME TypeOK, pc # "idle", NEW p \in Player
  PROVE  Copied(p) \in Statistic
<1>1. hand # NoMatch  BY DEF TypeOK
<1>2. hand.participants \in [DOMAIN hand.participants -> ParticipantDoc]
  BY <1>1, HandIs, MatchDocIs
<1>3. taken \in [DOMAIN taken -> ParticipantDoc]  BY TakenIs
<1> QED BY <1>2, <1>3, ZeroIs DEF Copied, ParticipantDoc

LEMMA KeptIs ==
  ASSUME TypeOK, NEW p \in Player
  PROVE  Kept(p) \in Statistic /\ \A c \in Counter : Kept(p)[c] \in Nat
<1>1. Kept(p) \in Statistic  BY BooksAre, CopiedIs, ZeroIs DEF Kept
<1> QED BY <1>1 DEF Statistic

\* The handler has a copy of the match as it is.
LEMMA BeginsKept ==
  ASSUME TypeOK, Shape, Begins, NEW p \in Player
  PROVE  Kept(p)' = Kept(p)
<1>1. /\ pc = "idle" /\ pc' # "idle" /\ match # NoMatch /\ hand'.level = match.level
      /\ taken = << >>
  BY DEF Begins, Shape
<1>2. Tracking(hand') <=> Tracking(match)  BY <1>1 DEF Tracking
<1>3. Kept(p) = IF Tracking(match) /\ p \in DOMAIN match.participants
                THEN match.participants[p].stats ELSE Zero
  BY <1>1 DEF Kept, Held
<1>4. Kept(p)' = IF Tracking(hand') THEN Copied(p)' ELSE Zero  BY <1>1 DEF Kept
<1>5. Copied(p)' = IF p \in DOMAIN match.participants THEN match.participants[p].stats ELSE Zero
  <2>1. CASE ev'.kind = "match_end"
    BY <2>1 DEF Begins, Copied
  <2>2. CASE ev'.kind # "match_end"
    <3>1. Continues /\ taken' = << >>  BY <1>1, <2>2 DEF Begins, Continues
    <3>2. p \notin DOMAIN taken'  BY <3>1, NoneInIs
    <3> QED BY <3>1, <3>2, NewParticipantType DEF Continues, Copied
  <2> QED BY <2>1, <2>2
<1> QED BY <1>2, <1>3, <1>4, <1>5

\* The participant is served in the copy.
LEMMA ListensKept ==
  ASSUME TypeOK, Shape, NEW s \in queue, ListenAsParticipant(s), NEW p \in Player, NEW c \in Counter
  PROVE  /\ Kept(p)'[c] = Kept(p)[c] + (IF p = s.who /\ Tracking(hand)
                                        THEN ParticipantStat(ev, s.role)[c] ELSE 0)
         /\ Held(match, p)'[c] <= Held(match, p)[c] \/ Held(match, p)'[c] <= Kept(p)[c]
<1>1. /\ pc = "next" /\ pc' = "board" /\ UNCHANGED <<ev, taken>> /\ hand'.level = hand.level
      /\ s.who \in Player /\ hand # NoMatch
  BY Listening DEF ListenAsParticipant
<1>2. Tracking(hand') <=> Tracking(hand)  BY <1>1 DEF Tracking
<1>3. Kept(p) = IF Tracking(hand) THEN Copied(p) ELSE Zero  BY <1>1 DEF Kept
<1>4. Kept(p)' = IF Tracking(hand) THEN Copied(p)' ELSE Zero  BY <1>1, <1>2 DEF Kept
<1>5. Copied(p) \in Statistic /\ Zero[c] = 0  BY <1>1, CopiedIs, ZeroIs
<1>6. Copied(p)[c] \in Nat  BY <1>5 DEF Statistic
<1>7. ASSUME p # s.who PROVE Kept(p)'[c] = Kept(p)[c]
  <2>1. Copied(p)' = Copied(p)  BY <1>1, <1>7, Listening DEF Copied
  <2>2. Kept(p)' = Kept(p)  BY <1>3, <1>4, <2>1
  <2> QED BY <2>2
<1>8. ASSUME p = s.who
      PROVE  Kept(p)'[c] = Kept(p)[c] + (IF Tracking(hand)
                                         THEN ParticipantStat(ev, s.role)[c] ELSE 0)
  <2>1. Copied(p) = Participant(p).stats
    <3>1. CASE ev.kind = "match_end"
      <4>1. p \in DOMAIN taken /\ p \notin DOMAIN hand.participants
        BY <1>1, <1>8, <3>1 DEF Shape, Ending
      <4> QED BY <3>1, <4>1 DEF Copied, Participant
    <3>2. CASE ev.kind # "match_end"
      <4>1. p \in DOMAIN hand.participants  BY <1>8, <3>2, Listening DEF Present
      <4> QED BY <3>2, <4>1 DEF Copied, Participant
    <3> QED BY <3>1, <3>2
  <2>2. Copied(p)' = Add(Copied(p), ParticipantStat(ev, s.role))
    BY <1>8, <2>1, Listening DEF Copied
  <2>3. ev.n \in Nat  BY DEF TypeOK, Event
  <2>4. Copied(p)'[c] = Copied(p)[c] + ParticipantStat(ev, s.role)[c]
    BY <1>5, <2>2, <2>3, ParticipantStatIs, AddIs
  <2>5. CASE Tracking(hand)  BY <1>3, <1>4, <1>8, <2>4, <2>5
  <2>6. CASE ~Tracking(hand)  BY <1>3, <1>4, <1>5, <1>8, <2>6
  <2> QED BY <2>5, <2>6
<1>9. Held(match, p)'[c] <= Held(match, p)[c] \/ Held(match, p)'[c] <= Kept(p)[c]
  <2>1. CASE s.role \notin InterimRoles
    <3>1. match' = match  BY <2>1, Listening
    <3>2. Held(match, p)' = Held(match, p)  BY <3>1 DEF Held
    <3> QED BY <3>2, BooksAre
  <2>2. CASE s.role \in InterimRoles
    <3>1. match' # NoMatch /\ match'.level = hand.level
          /\ match'.participants = hand.participants
      BY <2>2, Listening
    <3>2. Tracking(match') <=> Tracking(hand)  BY <3>1 DEF Tracking
    <3>3. Held(match, p)' = IF Tracking(hand) /\ p \in DOMAIN hand.participants
                            THEN hand.participants[p].stats ELSE Zero
      BY <3>1, <3>2 DEF Held
    <3>4. CASE Tracking(hand) /\ p \in DOMAIN hand.participants
      <4>1. Held(match, p)' = Kept(p)  BY <1>3, <3>3, <3>4 DEF Copied
      <4> QED BY <4>1, KeptIs
    <3>5. CASE ~(Tracking(hand) /\ p \in DOMAIN hand.participants)
      <4>1. Held(match, p)' = Zero  BY <3>3, <3>5
      <4> QED BY <1>5, <4>1, KeptIs
    <3> QED BY <3>4, <3>5
  <2> QED BY <2>1, <2>2
<1>10. Kept(p)[c] \in Nat  BY KeptIs
<1> QED BY <1>7, <1>8, <1>9, <1>10

\* The match that is written is the handler's copy, with everybody in it.
LEMMA SetMatchKept ==
  ASSUME TypeOK, Shape, SetMatch, NEW p \in Player
  PROVE  Held(match, p)' = Kept(p) /\ Kept(p)' = Kept(p)
         /\ DOMAIN match'.participants = DOMAIN hand.participants \cup DOMAIN taken
<1>1. /\ pc \in {"next", "match"} /\ pc' = "idle" /\ match' = hand
      /\ pc = "next" => queue = {} /\ ev.kind # "match_end"
  BY DEF SetMatch, Forget
<1>2. hand # NoMatch  BY <1>1 DEF TypeOK
<1>3. DOMAIN taken \subseteq DOMAIN hand.participants
  <2>1. CASE pc = "match"
    <3>1. queue = {} /\ Ending  BY <2>1 DEF Shape
    <3> QED BY <3>1 DEF Ending
  <2>2. CASE pc = "next"
    <3>1. taken = << >>  BY <1>1, <2>2 DEF Shape
    <3> QED BY <3>1, NoneInIs
  <2> QED BY <1>1, <2>1, <2>2
<1>4. Held(match, p)' = Kept(p)
  BY <1>1, <1>2, <1>3 DEF Held, Kept, Copied
<1>5. Kept(p)' = Held(match, p)'  BY <1>1 DEF Kept
<1> QED BY <1>1, <1>3, <1>4, <1>5

\* Who is served is in the match, if everybody is.
LEMMA NobodyStrange ==
  ASSUME TypeOK, Shape, EverybodyInv, Everybody, pc = "next", NEW s \in queue
  PROVE  Present(s.who)
<1>1. DOMAIN hand.participants \cup DOMAIN taken = Player  BY DEF EverybodyInv
<1>2. s.who \in Player  BY DEF TypeOK, Service
<1>3. CASE ev.kind = "match_end"
  BY <1>3 DEF Shape, Ending, Present
<1>4. CASE ev.kind # "match_end"
  <2>1. taken = << >>  BY <1>4 DEF Shape
  <2> QED BY <1>1, <1>2, <1>4, <2>1, NoneInIs DEF Present
<1> QED BY <1>3, <1>4

LEMMA InitEverybodyInv == Init => EverybodyInv
  BY DEF Init, EverybodyInv

LEMMA NextEverybodyInv ==
  ASSUME TypeOK, Shape, EverybodyInv, [Next]_vars
  PROVE  EverybodyInv'
<1> SUFFICES ASSUME Everybody'
             PROVE  /\ pc' # "idle" => DOMAIN hand'.participants \cup DOMAIN taken' = Player
                    /\ pc' = "idle" /\ match' # NoMatch => DOMAIN match'.participants = Player
  BY DEF EverybodyInv
<1>0. mode' = mode
  BY Steps DEF vars, Starts, Begins, Multiplies, Speaks, Skips, BreaksOff, Listens
<1>e. Everybody  BY <1>0 DEF Everybody
<1>i. /\ pc # "idle" => DOMAIN hand.participants \cup DOMAIN taken = Player
      /\ pc = "idle" /\ match # NoMatch => DOMAIN match.participants = Player
  BY <1>e DEF EverybodyInv
<1>1. CASE UNCHANGED vars \/ Multiplies
  BY <1>1, <1>i DEF Multiplies, vars, stores, local
<1>2. CASE Starts
  <2> PICK l \in mode.levels, r \in mode.rosters : OnMatchStart(l, r)  BY <1>2 DEF Starts
  <2>1. r = Player  BY <1>e DEF Everybody
  <2>2. DOMAIN match'.participants = Player  BY <1>0, <2>1, OnMatchStartType
  <2>3. pc' = "idle"  BY DEF OnMatchStart
  <2> QED BY <2>2, <2>3
<1>3. CASE Begins
  <2>1. pc = "idle" /\ pc' = "next" /\ match # NoMatch  BY <1>3 DEF Begins
  <2>2. DOMAIN match.participants = Player  BY <1>i, <2>1
  <2>3. TypeOK'  BY NextTypeOK
  <2>4. hand' # NoMatch  BY <2>1, <2>3 DEF TypeOK
  <2>5. DOMAIN hand'.participants \subseteq Player /\ DOMAIN taken' \subseteq Player
    <3>1. (hand # NoMatch => DOMAIN hand.participants \in SUBSET Player)'
      BY <2>3, HandIs, PTL
    <3>2. (DOMAIN taken \in SUBSET Player)'  BY <2>3, TakenIs, PTL
    <3> QED BY <2>4, <3>1, <3>2
  <2>6. CASE ev'.kind = "match_end"  BY <1>3, <2>1, <2>2, <2>5, <2>6 DEF Begins
  <2>7. CASE ev'.kind # "match_end"  BY <1>3, <2>1, <2>2, <2>5, <2>7 DEF Begins, Continues
  <2> QED BY <2>6, <2>7
<1>4. CASE \E s \in queue : Speaks(s) \/ Skips(s)
  BY <1>4, <1>i DEF Speaks, Skips
<1>5. CASE BreaksOff
  <2>1. pc = "next" /\ \E s \in queue : ~Present(s.who)  BY <1>5, <1>e DEF BreaksOff, Everybody
  <2> QED BY <1>e, <2>1, NobodyStrange
<1>6. ASSUME NEW s \in queue, ListenAsParticipant(s)
      PROVE  pc' # "idle" /\ DOMAIN hand'.participants \cup DOMAIN taken' = Player
  <2>1. pc = "next" /\ pc' = "board" /\ taken' = taken  BY <1>6 DEF ListenAsParticipant
  <2>2. DOMAIN hand'.participants = DOMAIN hand.participants \cup {s.who} /\ s.who \in Player
    BY <1>6, Listening
  <2> QED BY <1>i, <2>1, <2>2
<1>7. CASE SetMatch
  <2>1. /\ pc' = "idle" /\ pc # "idle" BY <1>7 DEF SetMatch, Forget
  <2>2. DOMAIN match'.participants = DOMAIN hand.participants \cup DOMAIN taken
        \/ Player = {}
    BY <1>7, SetMatchKept
  <2>3. DOMAIN match'.participants \subseteq Player
    <3>1. (match # NoMatch => DOMAIN match.participants \in SUBSET Player)'
      BY NextTypeOK, MatchIs, PTL
    <3>2. match' # NoMatch  BY <1>7, <2>1 DEF SetMatch, TypeOK
    <3> QED BY <3>1, <3>2
  <2> QED BY <1>i, <2>1, <2>2, <2>3
<1>8. CASE ListenAsBoard \/ ListenAsPlayer \/ SetPlayer \/ SaveLevel
  BY <1>8, <1>i DEF ListenAsBoard, ListenAsPlayer, SetPlayer, SaveLevel, local
<1> QED BY <1>1, <1>2, <1>3, <1>4, <1>5, <1>6, <1>7, <1>8, Steps DEF Listens

LEMMA InitLedgerInv == Init => LedgerInv
<1> SUFFICES ASSUME Init, NEW p \in Player, NEW c \in Counter
             PROVE  /\ profile[p].stats[c] >= past[p][c] + Held(match, p)[c]
                    /\ Paid(p)[c] + Due(p, c) >= past[p][c] + Kept(p)[c]
                    /\ c # "xp" => Paid(p)[c] + Due(p, c) = past[p][c] + Kept(p)[c]
  BY DEF LedgerInv
<1>1. past[p] = Zero /\ Held(match, p) = Zero /\ Kept(p) = Zero /\ Zero[c] = 0
  BY ZeroIs DEF Init, Held, Kept
<1>2. profile[p].stats[c] \in Nat /\ Paid(p) = profile[p].stats /\ Due(p, c) = 0
  BY BooksAre, InitTypeOK DEF Init, Paid, Due
<1>3. c # "xp" => profile[p].stats[c] = 0  BY ZeroIs DEF Init, NewPlayer, Statistic
<1> QED BY <1>1, <1>2, <1>3

\* What a step does to the statistics of p, and to what the match has of p
LEMMA NextLedgerInv ==
  ASSUME TypeOK, Shape, PlayersGrow, EverybodyInv, LedgerInv, [Next]_vars
  PROVE  LedgerInv'
<1>0. mode' = mode
  BY Steps DEF vars, Starts, Begins, Multiplies, Speaks, Skips, BreaksOff, Listens
<1> SUFFICES ASSUME NEW p \in Player, NEW c \in Counter
             PROVE  /\ profile'[p].stats[c] >= past'[p][c] + Held(match, p)'[c]
                    /\ Paid(p)'[c] + Due(p, c)' >= past'[p][c] + Kept(p)'[c]
                    /\ Everybody /\ c \notin {"first_bloods", "first_bloods_suffered", "xp"} =>
                         Paid(p)'[c] + Due(p, c)' = past'[p][c] + Kept(p)'[c]
  BY <1>0 DEF LedgerInv, Everybody
<1>i. /\ profile[p].stats[c] >= past[p][c] + Held(match, p)[c]
      /\ Paid(p)[c] + Due(p, c) >= past[p][c] + Kept(p)[c]
      /\ Everybody /\ c \notin {"first_bloods", "first_bloods_suffered", "xp"} =>
           Paid(p)[c] + Due(p, c) = past[p][c] + Kept(p)[c]
  BY DEF LedgerInv
<1>t. /\ profile[p].stats[c] \in Nat /\ past[p][c] \in Nat /\ Held(match, p)[c] \in Nat
      /\ Paid(p)[c] \in Nat /\ Due(p, c) \in Nat /\ Kept(p)[c] \in Nat
  BY BooksAre, KeptIs
<1>n. ev.n \in Nat  BY DEF TypeOK, Event
<1>1. CASE UNCHANGED vars \/ Multiplies
  <2>1. UNCHANGED <<match, profile, past, pc, ev, queue, hand, taken, subject, prof>>
    BY <1>1 DEF Multiplies, vars, stores, local
  <2>2. /\ Paid(p)' = Paid(p) /\ Due(p, c)' = Due(p, c) /\ Kept(p)' = Kept(p)
        /\ Held(match, p)' = Held(match, p)
    BY <2>1 DEF Paid, Due, Kept, Copied, Held
  <2> QED BY <1>i, <2>1, <2>2
<1>2. CASE Starts
  <2> PICK l \in mode.levels, r \in mode.rosters : OnMatchStart(l, r)  BY <1>2 DEF Starts
  <2>1. /\ pc = "idle" /\ pc' = "idle" /\ profile' = profile
        /\ past' = [q \in Player |-> Add(past[q], Held(match, q))]
    BY DEF OnMatchStart
  <2>2. past'[p][c] = past[p][c] + Held(match, p)[c]
    <3>1. past'[p] = Add(past[p], Held(match, p))  BY <2>1
    <3> QED BY <3>1, BooksAre, AddIs
  <2>3. Held(match, p)' = Zero
    BY <1>0, OnMatchStartType, NewParticipantType DEF Held
  <2>4. /\ Kept(p) = Held(match, p) /\ Kept(p)' = Held(match, p)'
        /\ Paid(p) = profile[p].stats /\ Paid(p)' = profile[p].stats
        /\ Due(p, c) = 0 /\ Due(p, c)' = 0
    BY <2>1 DEF Kept, Paid, Due
  <2>5. Zero[c] = 0  BY ZeroIs
  <2> QED BY <1>i, <1>t, <2>1, <2>2, <2>3, <2>4, <2>5
<1>3. CASE Begins
  <2>1. pc = "idle" /\ pc' = "next" /\ UNCHANGED <<match, profile, past>>
    BY <1>3 DEF Begins, stores
  <2>2. /\ Paid(p) = profile[p].stats /\ Paid(p)' = profile[p].stats
        /\ Due(p, c) = 0 /\ Due(p, c)' = 0 /\ Held(match, p)' = Held(match, p)
    BY <2>1 DEF Paid, Due, Held
  <2>3. Kept(p)' = Kept(p)  BY <1>3, BeginsKept
  <2> QED BY <1>i, <2>1, <2>2, <2>3
<1>4. ASSUME NEW s \in queue, Speaks(s) \/ Skips(s)
      PROVE  /\ profile'[p].stats[c] >= past'[p][c] + Held(match, p)'[c]
             /\ Paid(p)'[c] + Due(p, c)' >= past'[p][c] + Kept(p)'[c]
             /\ Everybody /\ c \notin {"first_bloods", "first_bloods_suffered", "xp"} =>
                  Paid(p)'[c] + Due(p, c)' = past'[p][c] + Kept(p)'[c]
  <2>1. /\ pc = "next" /\ pc' \in {"next", "player"} /\ ~Present(s.who)
        /\ UNCHANGED <<match, profile, past, hand, taken, ev>>
    BY <1>4 DEF Speaks, Skips, stores
  <2>2. /\ Paid(p) = profile[p].stats /\ Paid(p)' = profile[p].stats /\ Due(p, c) = 0
        /\ Held(match, p)' = Held(match, p) /\ Kept(p)' = Kept(p)
    BY <2>1 DEF Paid, Due, Held, Kept, Copied
  <2>3. ~Everybody  BY <2>1, NobodyStrange
  <2>4. Due(p, c)' \in Nat
    BY <1>n, <2>1, PlayerStatIs DEF Due, Statistic
  <2> QED BY <1>i, <1>t, <2>1, <2>2, <2>3, <2>4
<1>5. CASE BreaksOff
  <2>1. pc # "idle" /\ pc' = "idle" /\ UNCHANGED <<match, profile, past>>
    BY <1>5 DEF BreaksOff, Forget, stores
  <2>2. /\ Paid(p)' = profile[p].stats /\ Due(p, c)' = 0
        /\ Held(match, p)' = Held(match, p) /\ Kept(p)' = Held(match, p)
    BY <2>1 DEF Paid, Due, Held, Kept
  <2>3. ~Everybody
    BY <1>5, NobodyStrange DEF BreaksOff, Everybody
  <2> QED BY <1>i, <1>t, <2>1, <2>2, <2>3
<1>6. ASSUME NEW s \in queue, ListenAsParticipant(s)
      PROVE  /\ profile'[p].stats[c] >= past'[p][c] + Held(match, p)'[c]
             /\ Paid(p)'[c] + Due(p, c)' >= past'[p][c] + Kept(p)'[c]
             /\ Everybody /\ c \notin {"first_bloods", "first_bloods_suffered", "xp"} =>
                  Paid(p)'[c] + Due(p, c)' = past'[p][c] + Kept(p)'[c]
  <2>1. /\ pc = "next" /\ pc' = "board" /\ subject' = s
        /\ UNCHANGED <<profile, past, ev>>
    BY <1>6 DEF ListenAsParticipant
  <2>2. Paid(p) = profile[p].stats /\ Paid(p)' = profile[p].stats /\ Due(p, c) = 0
    BY <2>1 DEF Paid, Due
  <2>3. /\ Kept(p)'[c] = Kept(p)[c] + (IF p = s.who /\ Tracking(hand)
                                        THEN ParticipantStat(ev, s.role)[c] ELSE 0)
        /\ Held(match, p)'[c] <= Held(match, p)[c] \/ Held(match, p)'[c] <= Kept(p)[c]
    BY <1>6, ListensKept
  <2>4. Tracking(hand') <=> Tracking(hand)  BY <1>6, Listening DEF Tracking
  <2>5. Due(p, c)' = IF p = s.who /\ Tracking(hand) THEN PlayerStat(ev, s.role)[c] ELSE 0
    BY <2>1, <2>4 DEF Due
  <2>6. /\ ParticipantStat(ev, s.role)[c] \in Nat /\ PlayerStat(ev, s.role)[c] \in Nat
        /\ ParticipantStat(ev, s.role)[c] <= PlayerStat(ev, s.role)[c]
        /\ c \notin {"first_bloods", "first_bloods_suffered"} =>
             ParticipantStat(ev, s.role)[c] = PlayerStat(ev, s.role)[c]
    BY <1>n, ParticipantStatIs, PlayerStatIs DEF Statistic
  <2>7. Held(match, p)'[c] \in Nat
    <3>1. TypeOK'  BY NextTypeOK
    <3> QED BY <3>1, NumbersNext
  <2> QED BY <1>i, <1>t, <2>1, <2>2, <2>3, <2>5, <2>6, <2>7
<1>7. CASE ListenAsBoard
  <2>1. /\ pc = "board" /\ pc' = "player"
        /\ UNCHANGED <<match, profile, past, ev, hand, taken, subject, prof>>
    BY <1>7 DEF ListenAsBoard, local
  <2>2. /\ Paid(p)' = Paid(p) /\ Due(p, c)' = Due(p, c) /\ Kept(p)' = Kept(p)
        /\ Held(match, p)' = Held(match, p)
    BY <2>1 DEF Paid, Due, Kept, Copied, Held
  <2> QED BY <1>i, <2>1, <2>2
<1>8. CASE ListenAsPlayer
  <2>1. /\ pc = "player" /\ pc' = "save" /\ subject.who \in Player /\ prof' \in PlayerDoc
        /\ UNCHANGED <<match, profile, past, ev, hand, taken, subject>>
    BY <1>8, Grown DEF ListenAsPlayer
  <2>2. Kept(p)' = Kept(p) /\ Held(match, p)' = Held(match, p) /\ Due(p, c)' = 0
        /\ Paid(p) = profile[p].stats
    BY <2>1 DEF Kept, Copied, Held, Paid, Due
  <2>3. CASE p # subject.who
    <3>1. Paid(p)' = profile[p].stats /\ Due(p, c) = 0  BY <2>1, <2>3 DEF Paid, Due
    <3> QED BY <1>i, <1>t, <2>1, <2>2, <3>1
  <2>4. CASE p = subject.who
    <3>1. Paid(p)' = prof'.stats  BY <2>1, <2>4 DEF Paid
    <3>2. /\ prof'.stats[c] >= profile[p].stats[c] + Due(p, c)
          /\ c # "xp" => prof'.stats[c] = profile[p].stats[c] + Due(p, c)
      BY <1>8, <2>4, Grown
    <3>3. prof'.stats[c] \in Nat  BY <2>1 DEF PlayerDoc, Statistic
    <3> QED BY <1>i, <1>t, <2>1, <2>2, <3>1, <3>2, <3>3
  <2> QED BY <2>3, <2>4
<1>9. CASE SetPlayer
  <2>1. /\ pc = "save" /\ pc' = "next" /\ profile' = [profile EXCEPT ![subject.who] = prof]
        /\ UNCHANGED <<match, past, ev, hand, taken, subject>>
    BY <1>9 DEF SetPlayer
  <2>2. profile'[p].stats = Paid(p) /\ Paid(p)' = Paid(p)  BY <2>1 DEF Paid, TypeOK
  <2>3. /\ Kept(p)' = Kept(p) /\ Held(match, p)' = Held(match, p)
        /\ Due(p, c) = 0 /\ Due(p, c)' = 0
    BY <2>1 DEF Kept, Copied, Held, Due
  <2>4. Paid(p)[c] >= profile[p].stats[c]
    <3>1. CASE p = subject.who  BY <2>1, <3>1 DEF PlayersGrow, Paid
    <3>2. CASE p # subject.who  BY <1>t, <3>2 DEF Paid
    <3> QED BY <3>1, <3>2
  <2> QED BY <1>i, <1>t, <2>1, <2>2, <2>3, <2>4
<1>10. CASE SaveLevel
  <2>1. /\ pc = "next" /\ pc' = "match"
        /\ UNCHANGED <<match, profile, past, ev, hand, taken, subject, prof>>
    BY <1>10 DEF SaveLevel, local
  <2>2. /\ Paid(p)' = Paid(p) /\ Due(p, c)' = Due(p, c) /\ Kept(p)' = Kept(p)
        /\ Held(match, p)' = Held(match, p)
    BY <2>1 DEF Paid, Due, Kept, Copied, Held
  <2> QED BY <1>i, <2>1, <2>2
<1>11. CASE SetMatch
  <2>1. /\ pc \in {"next", "match"} /\ pc' = "idle" /\ UNCHANGED <<profile, past>>
    BY <1>11 DEF SetMatch, Forget
  <2>2. /\ Paid(p) = profile[p].stats /\ Paid(p)' = profile[p].stats
        /\ Due(p, c) = 0 /\ Due(p, c)' = 0
    BY <2>1 DEF Paid, Due
  <2>3. Held(match, p)' = Kept(p) /\ Kept(p)' = Kept(p)  BY <1>11, SetMatchKept
  <2> QED BY <1>i, <1>t, <2>1, <2>2, <2>3
<1> QED BY <1>1, <1>2, <1>3, <1>4, <1>5, <1>6, <1>7, <1>8, <1>9, <1>10, <1>11, Steps DEF Listens

-----------------------------------------------------------------------------
(* Messages.                                                               *)

\* What the board lacks of p's messages while the match is in progress, and
\* what the handler will not have told it when it comes to its end
Owed(m, p) == IF m # NoMatch /\ m.state = "InProgress" THEN Held(m, p)["messages"] ELSE 0

Waiting(p) == [role |-> "match_end", who |-> p] \in queue \/ (pc = "board" /\ subject.who = p)

Untold(p) ==
  IF pc = "idle" \/ ~Tracking(hand) THEN 0
  ELSE IF ev.kind = "match_end" THEN IF Waiting(p) THEN Copied(p)["messages"] ELSE 0
  ELSE IF hand.state = "InProgress" THEN Copied(p)["messages"] ELSE 0

MessageInv ==
  \A p \in Player :
    /\ board[p]["messages"] + Owed(match, p) <= profile[p].stats["messages"]
    /\ board[p]["messages"] + Untold(p) <= Paid(p)["messages"] + Due(p, "messages")

LEMMA MessagesAre ==
  ASSUME TypeOK, NEW p \in Player
  PROVE  /\ board[p]["messages"] \in Nat /\ profile[p].stats["messages"] \in Nat
         /\ Owed(match, p) \in Nat /\ Untold(p) \in Nat /\ Paid(p)["messages"] \in Nat
         /\ Due(p, "messages") \in Nat /\ Held(match, p)["messages"] \in Nat
         /\ pc # "idle" => Copied(p)["messages"] \in Nat
<1>1. "messages" \in Counter  BY CounterHas
<1>2. pc # "idle" => Copied(p)["messages"] \in Nat  BY <1>1, CopiedIs DEF Statistic
<1> QED BY <1>1, <1>2, BooksAre DEF Owed, Untold

LEMMA MessageNumbers ==
  TypeOK => \A p \in Player : /\ Owed(match, p) \in Nat /\ Untold(p) \in Nat
                              /\ Due(p, "messages") \in Nat
  BY MessagesAre

LEMMA MessagesNext ==
  (TypeOK => \A p \in Player : /\ Owed(match, p) \in Nat /\ Untold(p) \in Nat
                               /\ Due(p, "messages") \in Nat)'
  BY MessageNumbers, PTL

\* A message in the chat is due, and nothing else is; the end of the match
\* is no message.
LEMMA MessageDue ==
  ASSUME TypeOK, NEW p \in Player
  PROVE  ev.kind = "match_end" /\ Shape => Due(p, "messages") = 0
<1>1. ev.n \in Nat  BY DEF TypeOK, Event
<1>2. ASSUME Shape, ev.kind = "match_end", pc \in {"board", "player"}
      PROVE  subject.role = "match_end"
  BY <1>2 DEF Shape, Serving, ServiceOf
<1> QED BY <1>1, <1>2, ChatIsCounted DEF Due

LEMMA InitMessageInv == Init => MessageInv
<1> SUFFICES ASSUME Init, NEW p \in Player
             PROVE  board[p]["messages"] = 0 /\ Owed(match, p) = 0 /\ Untold(p) = 0
  BY InitTypeOK, MessagesAre DEF MessageInv
<1> QED BY ZeroIs, CounterHas DEF Init, Owed, Untold, Statistic

\* The handler takes up an event: nothing is told, and nothing is owed yet.
LEMMA BeginsUntold ==
  ASSUME TypeOK, Shape, Begins, NEW p \in Player
  PROVE  Untold(p)' <= Owed(match, p)
<1>1. /\ pc = "idle" /\ pc' = "next" /\ match # NoMatch /\ hand'.level = match.level
      /\ taken = << >>
  BY DEF Begins, Shape
<1>2. Kept(p)' = Held(match, p)  BY <1>1, BeginsKept DEF Kept
<1>3. Tracking(hand') => Copied(p)' = Held(match, p)  BY <1>1, <1>2 DEF Kept
<1>4. Held(match, p)["messages"] \in Nat  BY MessagesAre
<1>5. CASE ev'.kind = "match_end"
  <2>1. match.state = "InProgress"  BY <1>5 DEF Begins, Unchecked
  <2>2. Owed(match, p) = Held(match, p)["messages"]  BY <1>1, <2>1 DEF Owed
  <2> QED BY <1>3, <1>4, <1>5, <2>2 DEF Untold
<1>6. CASE ev'.kind # "match_end"
  <2>1. hand'.state = match.state  BY <1>6 DEF Begins, Continues
  <2> QED BY <1>1, <1>3, <1>4, <1>6, <2>1 DEF Untold, Owed
<1> QED BY <1>5, <1>6

LEMMA ListensUntold ==
  ASSUME TypeOK, Shape, NEW s \in queue, ListenAsParticipant(s), NEW p \in Player
  PROVE  /\ Untold(p)' <= Untold(p) + Due(p, "messages")'
         /\ Owed(match, p)' <= Owed(match, p) \/ Owed(match, p)' <= Untold(p)
<1> DEFINE c == "messages"
<1>1. /\ pc = "next" /\ pc' = "board" /\ subject' = s /\ queue' = queue \ {s}
      /\ UNCHANGED <<ev, taken>> /\ hand'.level = hand.level /\ hand'.state = hand.state
      /\ s \in Service /\ hand # NoMatch
  BY Listening DEF ListenAsParticipant
<1>2. ev.n \in Nat /\ c \in Counter  BY CounterHas DEF TypeOK, Event
<1>3. Tracking(hand') <=> Tracking(hand)  BY <1>1 DEF Tracking
<1>4. Due(p, c)' = IF p = s.who /\ Tracking(hand) THEN PlayerStat(ev, s.role)[c] ELSE 0
  BY <1>1, <1>3 DEF Due
<1>5. Kept(p)'[c] = Kept(p)[c] + (IF p = s.who /\ Tracking(hand)
                                  THEN ParticipantStat(ev, s.role)[c] ELSE 0)
  BY <1>2, ListensKept
<1>6. /\ ParticipantStat(ev, s.role)[c] \in Nat /\ PlayerStat(ev, s.role)[c] \in Nat
      /\ ParticipantStat(ev, s.role)[c] <= PlayerStat(ev, s.role)[c]
  BY <1>2, ParticipantStatIs, PlayerStatIs DEF Statistic
<1>7. Kept(p)[c] \in Nat  BY <1>2, KeptIs
<1>8. Tracking(hand) => Kept(p)[c] = Copied(p)[c] /\ Kept(p)'[c] = Copied(p)'[c]
  BY <1>1, <1>3 DEF Kept
<1>9. Tracking(hand) => Copied(p)'[c] <= Copied(p)[c] + Due(p, c)' /\ Copied(p)[c] \in Nat
                        /\ Due(p, c)' \in Nat /\ Copied(p)'[c] \in Nat
  BY <1>4, <1>5, <1>6, <1>7, <1>8
<1>10. Due(p, c)' \in Nat  BY <1>4, <1>6
<1> HIDE DEF c
<1>11. Untold(p)' <= Untold(p) + Due(p, c)'
  <2>1. CASE ~Tracking(hand)
    BY <1>3, <1>10, <2>1 DEF Untold
  <2>2. CASE Tracking(hand) /\ ev.kind # "match_end"
    BY <1>1, <1>3, <1>9, <2>2 DEF Untold, c
  <2>3. CASE Tracking(hand) /\ ev.kind = "match_end"
    <3>1. s.role = "match_end"  BY <1>1, <2>3 DEF Shape, ServiceOf
    <3>2. s = [role |-> "match_end", who |-> s.who]  BY <1>1, <3>1 DEF Service
    <3>3. Waiting(p)' => Waiting(p)
      BY <1>1, <3>2 DEF Waiting
    <3> QED BY <1>1, <1>3, <1>9, <2>3, <3>3 DEF Untold, c
  <2> QED BY <2>1, <2>2, <2>3
<1>12. Owed(match, p)' <= Owed(match, p) \/ Owed(match, p)' <= Untold(p)
  <2>0. Owed(match, p) \in Nat /\ Untold(p) \in Nat  BY MessagesAre
  <2>1. CASE s.role \notin InterimRoles
    <3>1. match' = match  BY <2>1, Listening
    <3>2. Owed(match, p)' = Owed(match, p)  BY <3>1 DEF Owed, Held
    <3> QED BY <2>0, <3>2
  <2>2. CASE s.role \in InterimRoles
    <3>1. match' # NoMatch /\ match'.level = hand.level /\ match'.state = hand.state
          /\ match'.participants = hand.participants
      BY <2>2, Listening
    <3>2. Tracking(match') <=> Tracking(hand)  BY <3>1 DEF Tracking
    <3>3. Held(match, p)' = IF Tracking(hand) /\ p \in DOMAIN hand.participants
                            THEN hand.participants[p].stats ELSE Zero
      BY <3>1, <3>2 DEF Held
    <3>4. CASE hand.state = "InProgress" /\ Tracking(hand) /\ p \in DOMAIN hand.participants
      <4>1. ev.kind # "match_end"  BY <1>1, <3>4 DEF Shape, Ending
      <4>2. Untold(p) = hand.participants[p].stats["messages"]
        BY <1>1, <3>4, <4>1 DEF Untold, Copied
      <4>3. Owed(match, p)' = Untold(p)  BY <3>1, <3>3, <3>4, <4>2 DEF Owed
      <4> QED BY <2>0, <4>3
    <3>5. CASE ~(hand.state = "InProgress" /\ Tracking(hand) /\ p \in DOMAIN hand.participants)
      <4>1. Owed(match, p)' = 0  BY <3>1, <3>3, <3>5, ZeroIs, CounterHas DEF Owed
      <4> QED BY <2>0, <4>1
    <3> QED BY <3>4, <3>5
  <2> QED BY <2>1, <2>2
<1> QED BY <1>11, <1>12 DEF c

LEMMA NextMessageInv ==
  ASSUME TypeOK, Shape, PlayersGrow, MessageInv, [Next]_vars
  PROVE  MessageInv'
<1> SUFFICES ASSUME NEW p \in Player
             PROVE  /\ board'[p]["messages"] + Owed(match, p)' <= profile'[p].stats["messages"]
                    /\ board'[p]["messages"] + Untold(p)'
                         <= Paid(p)'["messages"] + Due(p, "messages")'
  BY DEF MessageInv
<1>i. /\ board[p]["messages"] + Owed(match, p) <= profile[p].stats["messages"]
      /\ board[p]["messages"] + Untold(p) <= Paid(p)["messages"] + Due(p, "messages")
  BY DEF MessageInv
<1>t. /\ board[p]["messages"] \in Nat /\ profile[p].stats["messages"] \in Nat
      /\ Owed(match, p) \in Nat /\ Untold(p) \in Nat /\ Paid(p)["messages"] \in Nat
      /\ Due(p, "messages") \in Nat
  BY MessagesAre
<1>u. Owed(match, p)' \in Nat /\ Untold(p)' \in Nat /\ Due(p, "messages")' \in Nat
  <2>1. TypeOK'  BY NextTypeOK
  <2> QED BY <2>1, MessagesNext
<1>c. "messages" \in Counter /\ "messages" # "xp"  BY CounterHas
<1>1. CASE UNCHANGED vars \/ Multiplies
  <2>1. UNCHANGED <<match, profile, board, pc, ev, queue, hand, taken, subject, prof>>
    BY <1>1 DEF Multiplies, vars, stores, local
  <2>2. /\ Paid(p)' = Paid(p) /\ Due(p, "messages")' = Due(p, "messages")
        /\ Owed(match, p)' = Owed(match, p) /\ Untold(p)' = Untold(p)
    BY <2>1 DEF Paid, Due, Owed, Held, Untold, Waiting, Copied
  <2> QED BY <1>i, <2>1, <2>2
<1>2. CASE Starts
  <2> PICK l \in mode.levels, r \in mode.rosters : OnMatchStart(l, r)  BY <1>2 DEF Starts
  <2>0. UNCHANGED mode  BY <1>2 DEF Starts
  <2>1. pc = "idle" /\ pc' = "idle" /\ UNCHANGED <<profile, board>>  BY DEF OnMatchStart
  <2>2. Held(match, p)' = Zero
    BY <2>0, OnMatchStartType, NewParticipantType DEF Held
  <2>3. Owed(match, p)' = 0  BY <1>c, <2>2, ZeroIs DEF Owed
  <2>4. /\ Paid(p)' = profile[p].stats /\ Due(p, "messages")' = 0 /\ Untold(p)' = 0
    BY <2>1 DEF Paid, Due, Untold
  <2> QED BY <1>i, <1>t, <2>1, <2>3, <2>4
<1>3. CASE Begins
  <2>1. pc = "idle" /\ pc' = "next" /\ UNCHANGED <<match, profile, board>>
    BY <1>3 DEF Begins, stores
  <2>2. /\ Paid(p)' = profile[p].stats /\ Due(p, "messages")' = 0
        /\ Owed(match, p)' = Owed(match, p)
    BY <2>1 DEF Paid, Due, Owed, Held
  <2>3. Untold(p)' <= Owed(match, p)  BY <1>3, BeginsUntold
  <2> QED BY <1>i, <1>t, <1>u, <2>1, <2>2, <2>3
<1>4. ASSUME NEW s \in queue, Speaks(s) \/ Skips(s)
      PROVE  /\ board'[p]["messages"] + Owed(match, p)' <= profile'[p].stats["messages"]
             /\ board'[p]["messages"] + Untold(p)' <= Paid(p)'["messages"] + Due(p, "messages")'
  <2>1. /\ pc = "next" /\ pc' \in {"next", "player"} /\ s.role # "match_end"
        /\ UNCHANGED <<match, profile, board, hand, taken, ev>>
    BY <1>4 DEF Speaks, Skips, stores
  <2>2. ev.kind # "match_end"  BY <2>1 DEF Shape, ServiceOf
  <2>3. /\ Paid(p) = profile[p].stats /\ Paid(p)' = profile[p].stats /\ Due(p, "messages") = 0
        /\ Owed(match, p)' = Owed(match, p) /\ Untold(p)' = Untold(p)
    BY <2>1, <2>2 DEF Paid, Due, Owed, Held, Untold, Copied
  <2> QED BY <1>i, <1>t, <1>u, <2>1, <2>3
<1>5. CASE BreaksOff
  <2>1. pc # "idle" /\ pc' = "idle" /\ UNCHANGED <<match, profile, board>>
    BY <1>5 DEF BreaksOff, Forget, stores
  <2>2. /\ Paid(p)' = profile[p].stats /\ Due(p, "messages")' = 0
        /\ Owed(match, p)' = Owed(match, p) /\ Untold(p)' = 0
    BY <2>1 DEF Paid, Due, Owed, Held, Untold
  <2> QED BY <1>i, <1>t, <2>1, <2>2
<1>6. ASSUME NEW s \in queue, ListenAsParticipant(s)
      PROVE  /\ board'[p]["messages"] + Owed(match, p)' <= profile'[p].stats["messages"]
             /\ board'[p]["messages"] + Untold(p)' <= Paid(p)'["messages"] + Due(p, "messages")'
  <2>1. /\ pc = "next" /\ pc' = "board" /\ UNCHANGED <<profile, board>>
    BY <1>6 DEF ListenAsParticipant
  <2>2. Paid(p) = profile[p].stats /\ Paid(p)' = profile[p].stats /\ Due(p, "messages") = 0
    BY <2>1 DEF Paid, Due
  <2>3. /\ Untold(p)' <= Untold(p) + Due(p, "messages")'
        /\ Owed(match, p)' <= Owed(match, p) \/ Owed(match, p)' <= Untold(p)
    BY <1>6, ListensUntold
  <2> QED BY <1>i, <1>t, <1>u, <2>1, <2>2, <2>3
<1>7. CASE ListenAsBoard
  <2>1. /\ pc = "board" /\ pc' = "player"
        /\ UNCHANGED <<match, profile, ev, queue, hand, taken, subject, prof>>
    BY <1>7 DEF ListenAsBoard, local
  <2>2. /\ Paid(p) = profile[p].stats /\ Paid(p)' = Paid(p)
        /\ Due(p, "messages")' = Due(p, "messages") /\ Owed(match, p)' = Owed(match, p)
    BY <2>1 DEF Paid, Due, Owed, Held
  <2>3. CASE p # subject.who
    <3>1. board'[p] = board[p]  BY <1>7, <2>3, ListenAsBoardIs
    <3>2. Untold(p)' = Untold(p)  BY <2>1, <2>3 DEF Untold, Waiting, Copied
    <3> QED BY <1>i, <2>1, <2>2, <3>1, <3>2
  <2>4. CASE p = subject.who
    <3>0. ev.n \in Nat /\ Participant(p).stats \in Statistic
      BY <1>7, <2>4, ListenAsBoardIs DEF TypeOK, Event
    <3>1. board'[p]["messages"] = board[p]["messages"]
            + (IF Tracking(hand) /\ subject.role = "match_end"
               THEN Participant(p).stats["messages"] ELSE 0)
      <4>1. board'[p]["messages"] = board[p]["messages"]
              + (IF Tracking(hand)
                 THEN BoardTally(ev, subject.role, Participant(p).stats)["messages"] ELSE 0)
        BY <1>7, <1>c, <2>4, ListenAsBoardIs
      <4>2. BoardTally(ev, subject.role, Participant(p).stats)["messages"]
              = IF subject.role = "match_end" THEN Participant(p).stats["messages"] ELSE 0
        BY <3>0, BoardTallyIs
      <4> QED BY <4>1, <4>2
    <3>2. subject.role = "match_end" <=> ev.kind = "match_end"
      BY <2>1 DEF Shape, Serving, ServiceOf
    <3>3. CASE ev.kind # "match_end"
      <4>1. Untold(p)' = Untold(p)  BY <2>1, <3>3 DEF Untold, Copied
      <4> QED BY <1>i, <1>t, <2>1, <2>2, <3>1, <3>2, <3>3, <4>1
    <3>4. CASE ev.kind = "match_end" /\ ~Tracking(hand)
      <4>1. Untold(p)' = Untold(p)  BY <2>1, <3>4 DEF Untold
      <4> QED BY <1>i, <1>t, <2>1, <2>2, <3>1, <3>4, <4>1
    <3>5. CASE ev.kind = "match_end" /\ Tracking(hand)
      <4>1. Ending /\ match.state = "Post" /\ subject \notin queue /\ subject \in Service
            /\ p \in DOMAIN hand.participants
        BY <2>1, <2>4, <3>5 DEF Shape, Ending, Serving, TypeOK
      <4>2. Copied(p) = Participant(p).stats  BY <3>5, <4>1 DEF Ending, Copied, Participant
      <4>3. Untold(p) = Participant(p).stats["messages"]
        BY <2>1, <2>4, <3>5, <4>2 DEF Untold, Waiting
      <4>4. subject = [role |-> "match_end", who |-> p]  BY <2>4, <3>2, <3>5, <4>1 DEF Service
      <4>5. Untold(p)' = 0  BY <2>1, <3>5, <4>1, <4>4 DEF Untold, Waiting
      <4>6. Owed(match, p) = 0  BY <4>1 DEF Owed
      <4>7. Due(p, "messages") = 0  BY <3>5, MessageDue
      <4> QED BY <1>i, <1>t, <2>1, <2>2, <3>1, <3>2, <3>5, <4>3, <4>5, <4>6, <4>7
    <3> QED BY <3>3, <3>4, <3>5
  <2> QED BY <2>3, <2>4
<1>8. CASE ListenAsPlayer
  <2>1. /\ pc = "player" /\ pc' = "save" /\ subject.who \in Player /\ prof' \in PlayerDoc
        /\ UNCHANGED <<match, profile, ev, queue, hand, taken, subject>>
    BY <1>8, Grown DEF ListenAsPlayer
  <2>2. /\ Owed(match, p)' = Owed(match, p) /\ Untold(p)' = Untold(p)
        /\ Due(p, "messages")' = 0 /\ Paid(p) = profile[p].stats
    BY <2>1 DEF Owed, Held, Untold, Waiting, Copied, Due, Paid
  <2>3. board'[p]["messages"] = board[p]["messages"]
    BY <1>8, <1>c, ListenAsPlayerIs
  <2>4. Paid(p)'["messages"] = profile[p].stats["messages"] + Due(p, "messages")
    <3>1. CASE p # subject.who
      <4>1. Paid(p)' = profile[p].stats /\ Due(p, "messages") = 0
        BY <2>1, <3>1 DEF Paid, Due
      <4> QED BY <1>t, <4>1
    <3>2. CASE p = subject.who
      <4>1. Paid(p)' = prof'.stats  BY <2>1, <3>2 DEF Paid
      <4> QED BY <1>8, <1>c, <3>2, <4>1, Grown
    <3> QED BY <3>1, <3>2
  <2> QED BY <1>i, <1>t, <2>1, <2>2, <2>3, <2>4
<1>9. CASE SetPlayer
  <2>1. /\ pc = "save" /\ pc' = "next" /\ profile' = [profile EXCEPT ![subject.who] = prof]
        /\ UNCHANGED <<match, board, ev, queue, hand, taken, subject>>
    BY <1>9 DEF SetPlayer
  <2>2. profile'[p].stats = Paid(p) /\ Paid(p)' = Paid(p)  BY <2>1 DEF Paid, TypeOK
  <2>3. /\ Owed(match, p)' = Owed(match, p) /\ Untold(p)' = Untold(p)
        /\ Due(p, "messages") = 0 /\ Due(p, "messages")' = 0
    BY <2>1 DEF Owed, Held, Untold, Waiting, Copied, Due
  <2>4. Paid(p)["messages"] >= profile[p].stats["messages"]
    <3>1. CASE p = subject.who  BY <1>c, <2>1, <3>1 DEF PlayersGrow, Paid
    <3>2. CASE p # subject.who  BY <1>t, <3>2 DEF Paid
    <3> QED BY <3>1, <3>2
  <2> QED BY <1>i, <1>t, <2>1, <2>2, <2>3, <2>4
<1>10. CASE SaveLevel
  <2>1. /\ pc = "next" /\ pc' = "match"
        /\ UNCHANGED <<match, profile, board, ev, queue, hand, taken, subject, prof>>
    BY <1>10 DEF SaveLevel, local
  <2>2. /\ Paid(p)' = Paid(p) /\ Due(p, "messages")' = Due(p, "messages")
        /\ Owed(match, p)' = Owed(match, p) /\ Untold(p)' = Untold(p)
    BY <2>1 DEF Paid, Due, Owed, Held, Untold, Waiting, Copied
  <2> QED BY <1>i, <2>1, <2>2
<1>11. CASE SetMatch
  <2>1. /\ pc \in {"next", "match"} /\ pc' = "idle" /\ match' = hand
        /\ UNCHANGED <<profile, board>>
        /\ pc = "next" => ev.kind # "match_end"
    BY <1>11 DEF SetMatch, Forget
  <2>2. /\ Paid(p) = profile[p].stats /\ Paid(p)' = profile[p].stats
        /\ Due(p, "messages") = 0 /\ Due(p, "messages")' = 0 /\ Untold(p)' = 0
    BY <2>1 DEF Paid, Due, Untold
  <2>3. Held(match, p)' = Kept(p)  BY <1>11, SetMatchKept
  <2>4. Owed(match, p)' <= Untold(p)
    <3>1. CASE hand.state # "InProgress"
      <4>1. Owed(match, p)' = 0  BY <2>1, <3>1 DEF Owed
      <4> QED BY <1>t, <4>1
    <3>2. CASE hand.state = "InProgress"
      <4>1. ev.kind # "match_end"  BY <2>1, <3>2 DEF Shape, Ending
      <4>2. hand # NoMatch  BY <2>1 DEF TypeOK
      <4>3. Owed(match, p)' = Kept(p)["messages"]  BY <2>1, <2>3, <3>2, <4>2 DEF Owed
      <4>4. Kept(p)["messages"] = Untold(p)
        BY <1>c, <2>1, <3>2, <4>1, ZeroIs DEF Kept, Untold
      <4> QED BY <1>t, <4>3, <4>4
    <3> QED BY <3>1, <3>2
  <2> QED BY <1>i, <1>t, <1>u, <2>1, <2>2, <2>4
<1> QED BY <1>1, <1>2, <1>3, <1>4, <1>5, <1>6, <1>7, <1>8, <1>9, <1>10, <1>11, Steps DEF Listens

-----------------------------------------------------------------------------
(* Duels.                                                                  *)

Mirror(parts) ==
  \A p, q \in DOMAIN parts : parts[p].duel_kills[q] = parts[q].duel_deaths[p]

\* Nobody has a duel with somebody who is not in the match.
Alone(parts) ==
  \A p \in DOMAIN parts : \A q \in Player \ DOMAIN parts :
    parts[p].duel_kills[q] = 0 /\ parts[p].duel_deaths[q] = 0

\* The kill is counted, and the death is not yet.
Lag(p, q) ==
  IF /\ ev.kind = "death" /\ Murder(ev) /\ p = ev.attacker /\ q = ev.player
     /\ [role |-> "kill", who |-> p] \notin queue /\ [role |-> "death", who |-> q] \in queue
  THEN 1 ELSE 0

Lagging(parts) ==
  \A p, q \in DOMAIN parts : parts[p].duel_kills[q] = parts[q].duel_deaths[p] + Lag(p, q)
LaggingAlone(parts) ==
  \A p \in DOMAIN parts : \A q \in Player \ DOMAIN parts :
    parts[p].duel_kills[q] = Lag(p, q) /\ parts[p].duel_deaths[q] = 0

\* The kill is served before the death, and whoever is served is in the match.
KillFirst ==
  pc # "idle" /\ ev.kind = "death" =>
    /\ \A s \in queue : s.role = "kill" => [role |-> "death", who |-> ev.player] \in queue
    /\ Murder(ev) => \/ [role |-> "kill", who |-> ev.attacker] \in queue
                     \/ ev.attacker \in DOMAIN hand.participants

MatchDuels ==
  match # NoMatch => /\ Mirror(match.participants)
                     /\ match.state = "InProgress" => Alone(match.participants)
HandDuels ==
  pc # "idle" =>
    /\ ev.kind = "match_end" => Mirror(taken)
    /\ ev.kind # "match_end" => /\ Lagging(hand.participants)
                                /\ hand.state = "InProgress" => LaggingAlone(hand.participants)

DuelInv == KillFirst /\ MatchDuels /\ HandDuels

LEMMA NextKillFirst ==
  ASSUME TypeOK, Shape, KillFirst, [Next]_vars
  PROVE  KillFirst'
<1>1. CASE UNCHANGED vars \/ Multiplies
  BY <1>1 DEF KillFirst, Multiplies, vars, stores, local, Murder
<1>2. CASE Starts \/ BreaksOff
  BY <1>2 DEF Starts, OnMatchStart, BreaksOff, Forget, KillFirst
<1>3. CASE Begins  BY <1>3 DEF Begins, KillFirst
<1>4. ASSUME NEW s \in queue, Speaks(s) \/ Skips(s) PROVE KillFirst'
  <2>1. ev' = ev /\ ev.kind # "death"
    BY <1>4 DEF Shape, ServiceOf, Speaks, Skips
  <2> QED BY <2>1 DEF KillFirst
<1>5. ASSUME NEW s \in queue, ListenAsParticipant(s) PROVE KillFirst'
  <2> SUFFICES ASSUME ev.kind = "death"
               PROVE  /\ \A t \in queue' : t.role = "kill" =>
                                           [role |-> "death", who |-> ev.player] \in queue'
                      /\ Murder(ev) => \/ [role |-> "kill", who |-> ev.attacker] \in queue'
                                       \/ ev.attacker \in DOMAIN hand'.participants
    BY <1>5 DEF ListenAsParticipant, KillFirst
  <2>1. /\ pc = "next" /\ queue' = queue \ {s} /\ ev' = ev /\ Upcoming(s) /\ ServiceOf(s, ev)
        /\ DOMAIN hand'.participants = DOMAIN hand.participants \cup {s.who}
    BY <1>5, Listening DEF ListenAsParticipant, Shape
  <2>2. ASSUME NEW t \in queue', t.role = "kill"
        PROVE  [role |-> "death", who |-> ev.player] \in queue'
    <3>1. t \in queue /\ s.role # "death"  BY <2>1, <2>2 DEF Upcoming
    <3>2. [role |-> "death", who |-> ev.player] \in queue  BY <2>1, <2>2, <3>1 DEF KillFirst
    <3>3. [role |-> "death", who |-> ev.player] # s  BY <3>1
    <3> QED BY <2>1, <3>2, <3>3
  <2>3. ASSUME Murder(ev)
        PROVE  \/ [role |-> "kill", who |-> ev.attacker] \in queue'
               \/ ev.attacker \in DOMAIN hand'.participants
    BY <2>1, <2>3 DEF KillFirst
  <2> QED BY <2>2, <2>3
<1>6. CASE SetMatch  BY <1>6 DEF SetMatch, Forget, KillFirst
<1>7. CASE ListenAsBoard \/ ListenAsPlayer \/ SetPlayer \/ SaveLevel
  <2>1. UNCHANGED <<ev, queue, hand>> /\ pc # "idle"
    BY <1>7 DEF ListenAsBoard, ListenAsPlayer, SetPlayer, SaveLevel, local
  <2> QED BY <2>1 DEF KillFirst, Murder
<1> QED BY <1>1, <1>2, <1>3, <1>4, <1>5, <1>6, <1>7, Steps DEF Listens

LEMMA InitDuelInv == Init => DuelInv
  BY DEF Init, DuelInv, KillFirst, MatchDuels, HandDuels

LEMMA DuelsAre ==
  ASSUME TypeOK, hand # NoMatch, NEW p \in DOMAIN hand.participants
  PROVE  /\ p \in Player /\ hand.participants[p] \in ParticipantDoc
         /\ \A q \in Player : /\ hand.participants[p].duel_kills[q] \in Nat
                              /\ hand.participants[p].duel_deaths[q] \in Nat
<1>1. hand.participants[p] \in ParticipantDoc /\ p \in Player
  BY HandIs, MatchDocIs
<1> QED BY <1>1 DEF ParticipantDoc

LEMMA DuelNumbers ==
  TypeOK /\ hand # NoMatch => \A p \in DOMAIN hand.participants :
    /\ p \in Player
    /\ \A q \in Player : /\ hand.participants[p].duel_kills[q] \in Nat
                         /\ hand.participants[p].duel_deaths[q] \in Nat
  BY DuelsAre

LEMMA DuelsNext ==
  (TypeOK /\ hand # NoMatch => \A p \in DOMAIN hand.participants :
     /\ p \in Player
     /\ \A q \in Player : /\ hand.participants[p].duel_kills[q] \in Nat
                          /\ hand.participants[p].duel_deaths[q] \in Nat)'
  BY DuelNumbers, PTL

LEMMA BeginsDuels ==
  ASSUME TypeOK, TypeOK', DuelInv, Begins
  PROVE  HandDuels'
<1>1. /\ pc = "idle" /\ pc' = "next" /\ match # NoMatch  BY DEF Begins
<1>2. Mirror(match.participants) /\ (match.state = "InProgress" => Alone(match.participants))
  BY <1>1 DEF DuelInv, MatchDuels
<1>3. \A p, q : Lag(p, q)' = 0
  BY DEF Begins, Lag
<1>4. CASE ev'.kind = "match_end"
  <2>1. taken' = match.participants  BY <1>4 DEF Begins
  <2> QED BY <1>2, <1>4, <2>1 DEF HandDuels, Mirror
<1>5. CASE ev'.kind # "match_end"
  <2> DEFINE old == match.participants
             new == hand'.participants
  <2>1. /\ DOMAIN old \subseteq DOMAIN new /\ \A p \in DOMAIN old : new[p] = old[p]
        /\ hand'.state = match.state
    BY <1>5 DEF Begins, Continues
  <2>2. \A p \in DOMAIN new \ DOMAIN old : new[p] = NewParticipant /\ match.state = "InProgress"
    BY <1>5 DEF Begins, Continues, Unchecked
  <2>3. DOMAIN new \subseteq Player /\ DOMAIN old \subseteq Player
    <3>1. hand' # NoMatch  BY <1>1 DEF TypeOK
    <3> QED BY <1>1, <3>1, DuelsNext, MatchIs
  <2> HIDE DEF old, new
  <2>4. \A p \in DOMAIN new \ DOMAIN old : \A q \in Player :
          new[p].duel_kills[q] = 0 /\ new[p].duel_deaths[q] = 0
    BY <2>2, NewParticipantType
  <2>5. Mirror(old) /\ (match.state = "InProgress" => Alone(old))  BY <1>2 DEF old
  <2>6. \A p, q \in DOMAIN new : new[p].duel_kills[q] = new[q].duel_deaths[p]
    <3> SUFFICES ASSUME NEW p \in DOMAIN new, NEW q \in DOMAIN new
                 PROVE  new[p].duel_kills[q] = new[q].duel_deaths[p]
      OBVIOUS
    <3>1. p \in Player /\ q \in Player  BY <2>3
    <3>2. CASE p \in DOMAIN old /\ q \in DOMAIN old  BY <2>1, <2>5, <3>2 DEF Mirror
    <3>3. CASE p \in DOMAIN old /\ q \notin DOMAIN old
      BY <2>1, <2>2, <2>4, <2>5, <3>1, <3>3 DEF Alone
    <3>4. CASE p \notin DOMAIN old /\ q \in DOMAIN old
      BY <2>1, <2>2, <2>4, <2>5, <3>1, <3>4 DEF Alone
    <3>5. CASE p \notin DOMAIN old /\ q \notin DOMAIN old  BY <2>4, <3>1, <3>5
    <3> QED BY <3>2, <3>3, <3>4, <3>5
  <2>7. match.state = "InProgress" =>
          \A p \in DOMAIN new : \A q \in Player \ DOMAIN new :
            new[p].duel_kills[q] = 0 /\ new[p].duel_deaths[q] = 0
    BY <2>1, <2>4, <2>5 DEF Alone
  <2>8. \A p, q \in DOMAIN new : new[q].duel_deaths[p] \in Nat
    <3>1. hand' # NoMatch  BY <1>1 DEF TypeOK
    <3> QED BY <2>3, <3>1, DuelsNext DEF new
  <2>9. Lagging(hand.participants)'
    BY <1>3, <2>6, <2>8 DEF Lagging, new
  <2>10. hand'.state = "InProgress" => LaggingAlone(hand.participants)'
    BY <1>3, <2>1, <2>7 DEF LaggingAlone, new
  <2> QED BY <1>5, <2>9, <2>10 DEF HandDuels
<1> QED BY <1>4, <1>5

LEMMA LagIs == \A p, q : Lag(p, q) \in {0, 1}
  BY DEF Lag

\* Nobody is between the kill and the death: the copy is a mirror.
LEMMA HandMirrors ==
  ASSUME TypeOK, Shape, HandDuels, pc # "idle",
         ev.kind # "match_end" => \A p, q : Lag(p, q) = 0
  PROVE  /\ Mirror(hand.participants)
         /\ hand.state = "InProgress" => Alone(hand.participants)
<1>1. hand # NoMatch  BY DEF TypeOK
<1>2. CASE ev.kind = "match_end"
  <2>1. Ending /\ Mirror(taken)  BY <1>2 DEF HandDuels, Shape
  <2> QED BY <2>1 DEF Ending, Mirror
<1>3. CASE ev.kind # "match_end"
  <2>1. \A p, q : Lag(p, q) = 0  BY <1>3
  <2>2. /\ Lagging(hand.participants)
        /\ hand.state = "InProgress" => LaggingAlone(hand.participants)
    BY <1>3 DEF HandDuels
  <2>3. Mirror(hand.participants)
    BY <1>1, <2>1, <2>2, DuelNumbers DEF Lagging, Mirror
  <2> QED BY <2>1, <2>2, <2>3 DEF LaggingAlone, Alone
<1> QED BY <1>2, <1>3

\* What a listener does to a duel: the kill and the death make up for each other.
LEMMA ListensDuels ==
  ASSUME TypeOK, Shape, DuelInv, NEW s \in queue, ListenAsParticipant(s), ev.kind # "match_end"
  PROVE  HandDuels'
<1> DEFINE old == hand.participants
           new == hand'.participants
           died(p, q) == ev.kind = "death" /\ Murder(ev) /\ p = ev.attacker /\ q = ev.player
<1>0. /\ pc = "next" /\ pc' = "board" /\ queue' = queue \ {s} /\ UNCHANGED <<ev, taken>>
      /\ Upcoming(s) /\ ServiceOf(s, ev) /\ hand # NoMatch /\ s \in Service /\ s.who \in Player
      /\ hand'.state = hand.state
  BY Listening DEF ListenAsParticipant, Shape
<1>1. /\ s.who \in DOMAIN old /\ DOMAIN new = DOMAIN old
      /\ \A p \in DOMAIN old \ {s.who} : new[p] = old[p]
  BY Listening DEF Present
<1>2. /\ \A q \in Player : new[s.who].duel_kills[q]
           = old[s.who].duel_kills[q] + (IF s.role = "kill" /\ q = ev.player THEN 1 ELSE 0)
      /\ \A q \in Player : new[s.who].duel_deaths[q]
           = old[s.who].duel_deaths[q]
             + (IF s.role = "death" /\ Murder(ev) /\ q = ev.attacker THEN 1 ELSE 0)
  <2>1. new[s.who] = ListenParticipant(old[s.who], ev, s.role)
    BY Listening DEF Listened, Participant
  <2>2. old[s.who] \in ParticipantDoc /\ ev \in Event  BY <1>0, <1>1, DuelsAre DEF TypeOK
  <2> QED BY <2>1, <2>2, ListenParticipantIs
<1>3. \A p \in DOMAIN old : /\ p \in Player
                            /\ \A q \in Player : /\ old[p].duel_kills[q] \in Nat
                                                 /\ old[p].duel_deaths[q] \in Nat
  BY <1>0, DuelNumbers
<1>4. Lagging(old) /\ (hand.state = "InProgress" => LaggingAlone(old))
  BY <1>0 DEF DuelInv, HandDuels
<1> HIDE DEF old, new
<1>5. CASE s.role \notin {"kill", "death"}
  <2>1. ev.kind # "death"  BY <1>0, <1>5 DEF ServiceOf
  <2>2. \A p, q : Lag(p, q) = 0 /\ Lag(p, q)' = 0  BY <1>0, <2>1 DEF Lag
  <2>3. \A p \in DOMAIN old : \A q \in Player : /\ new[p].duel_kills[q] = old[p].duel_kills[q]
                                                /\ new[p].duel_deaths[q] = old[p].duel_deaths[q]
    BY <1>1, <1>2, <1>3, <1>5
  <2>4. Lagging(hand.participants)' BY <1>1, <1>3, <1>4, <2>2, <2>3 DEF Lagging, new
  <2>5. hand.state = "InProgress" => LaggingAlone(hand.participants)'
    BY <1>1, <1>3, <1>4, <2>2, <2>3 DEF LaggingAlone, new
  <2> QED BY <1>0, <2>4, <2>5 DEF HandDuels, new
<1>6. CASE s.role = "kill"
  <2>1. ev.kind = "death" /\ Murder(ev) /\ s.who = ev.attacker /\ ev.attacker # ev.player
    <3>1. ev.kind # "kill"  BY DEF TypeOK, Event, Kind
    <3> QED BY <1>0, <1>6, <3>1 DEF ServiceOf, Murder
  <2>2. s = [role |-> "kill", who |-> ev.attacker]  BY <1>0, <1>6, <2>1 DEF Service
  <2>3. [role |-> "death", who |-> ev.player] \in queue'
    <3>1. [role |-> "death", who |-> ev.player] \in queue
      BY <1>0, <1>6, <2>1 DEF DuelInv, KillFirst
    <3>2. [role |-> "death", who |-> ev.player] # s  BY <1>6
    <3> QED BY <1>0, <3>1, <3>2
  <2>4. \A p, q : Lag(p, q) = 0  BY <2>2 DEF Lag
  <2>5. \A p, q : Lag(p, q)' = IF p = ev.attacker /\ q = ev.player THEN 1 ELSE 0
    <3>1. [role |-> "kill", who |-> ev.attacker] \notin queue'  BY <1>0, <2>2
    <3> QED BY <1>0, <2>1, <2>3, <3>1 DEF Lag, Murder
  <2>6. \A p \in DOMAIN old : \A q \in Player :
          /\ new[p].duel_kills[q] = old[p].duel_kills[q]
               + (IF p = ev.attacker /\ q = ev.player THEN 1 ELSE 0)
          /\ new[p].duel_deaths[q] = old[p].duel_deaths[q]
    BY <1>1, <1>2, <1>3, <1>6, <2>1
  <2>7. Lagging(hand.participants)'
    <3> SUFFICES ASSUME NEW p \in DOMAIN new, NEW q \in DOMAIN new
                 PROVE  new[p].duel_kills[q] = new[q].duel_deaths[p] + Lag(p, q)'
      BY DEF Lagging, new
    <3>1. old[p].duel_kills[q] = old[q].duel_deaths[p]
      BY <1>1, <1>3, <1>4, <2>4 DEF Lagging
    <3> QED BY <1>1, <1>3, <2>5, <2>6, <3>1
  <2>8. hand.state = "InProgress" => LaggingAlone(hand.participants)'
    <3> SUFFICES ASSUME hand.state = "InProgress", NEW p \in DOMAIN new,
                        NEW q \in Player \ DOMAIN new
                 PROVE  new[p].duel_kills[q] = Lag(p, q)' /\ new[p].duel_deaths[q] = 0
      BY DEF LaggingAlone, new
    <3>1. old[p].duel_kills[q] = 0 /\ old[p].duel_deaths[q] = 0
      BY <1>1, <1>3, <1>4, <2>4 DEF LaggingAlone
    <3> QED BY <1>1, <1>3, <2>5, <2>6, <3>1
  <2> QED BY <1>0, <2>7, <2>8 DEF HandDuels, new
<1>7. CASE s.role = "death"
  <2>1. ev.kind = "death" /\ s.who = ev.player  BY <1>0, <1>7 DEF ServiceOf
  <2>2. s = [role |-> "death", who |-> ev.player]  BY <1>0, <1>7, <2>1 DEF Service
  <2>3. \A p, q : Lag(p, q)' = 0  BY <1>0, <2>2 DEF Lag
  <2>4. [role |-> "kill", who |-> ev.attacker] \notin queue  BY <1>0, <1>7 DEF Upcoming
  <2>5. \A p, q : Lag(p, q)
                    = IF Murder(ev) /\ p = ev.attacker /\ q = ev.player THEN 1 ELSE 0
    BY <2>1, <2>2, <2>4 DEF Lag
  <2>6. Murder(ev) => ev.attacker \in DOMAIN old
    BY <1>0, <2>1, <2>4 DEF DuelInv, KillFirst, old
  <2>7. \A p \in DOMAIN old : \A q \in Player :
          /\ new[p].duel_deaths[q] = old[p].duel_deaths[q]
               + (IF Murder(ev) /\ q = ev.attacker /\ p = ev.player THEN 1 ELSE 0)
          /\ new[p].duel_kills[q] = old[p].duel_kills[q]
    BY <1>1, <1>2, <1>3, <1>7, <2>1
  <2>8. Lagging(hand.participants)'
    <3> SUFFICES ASSUME NEW p \in DOMAIN new, NEW q \in DOMAIN new
                 PROVE  new[p].duel_kills[q] = new[q].duel_deaths[p] + Lag(p, q)'
      BY DEF Lagging, new
    <3>1. old[p].duel_kills[q] = old[q].duel_deaths[p] + Lag(p, q)
      BY <1>1, <1>4 DEF Lagging
    <3> QED BY <1>1, <1>3, <2>3, <2>5, <2>7, <3>1
  <2>9. hand.state = "InProgress" => LaggingAlone(hand.participants)'
    <3> SUFFICES ASSUME hand.state = "InProgress", NEW p \in DOMAIN new,
                        NEW q \in Player \ DOMAIN new
                 PROVE  new[p].duel_kills[q] = Lag(p, q)' /\ new[p].duel_deaths[q] = 0
      BY DEF LaggingAlone, new
    <3>1. old[p].duel_kills[q] = Lag(p, q) /\ old[p].duel_deaths[q] = 0
      BY <1>1, <1>4 DEF LaggingAlone
    <3>2. q # ev.player  BY <1>1, <2>1
    <3>3. Murder(ev) => q # ev.attacker  BY <1>1, <2>6
    <3> QED BY <1>1, <1>3, <2>3, <2>5, <2>7, <3>1, <3>2, <3>3
  <2> QED BY <1>0, <2>8, <2>9 DEF HandDuels, new
<1> QED BY <1>5, <1>6, <1>7

LEMMA NextDuelInv ==
  ASSUME TypeOK, Shape, DuelInv, [Next]_vars
  PROVE  DuelInv'
<1> SUFFICES MatchDuels' /\ HandDuels'  BY NextKillFirst DEF DuelInv
<1>t. TypeOK'  BY NextTypeOK
<1>1. CASE UNCHANGED vars \/ Multiplies
  <2>1. UNCHANGED <<match, pc, ev, queue, hand, taken>>
    BY <1>1 DEF Multiplies, vars, stores, local
  <2>2. \A p, q : Lag(p, q)' = Lag(p, q)  BY <2>1 DEF Lag, Murder
  <2> QED BY <2>1, <2>2 DEF DuelInv, MatchDuels, HandDuels, Mirror, Alone, Lagging, LaggingAlone
<1>2. CASE Starts
  <2> PICK l \in mode.levels, r \in mode.rosters : OnMatchStart(l, r)  BY <1>2 DEF Starts
  <2>0. UNCHANGED mode  BY <1>2 DEF Starts
  <2>1. /\ DOMAIN match'.participants = r
        /\ \A p \in r : match'.participants[p] = NewParticipant
    BY <2>0, OnMatchStartType
  <2>2. r \subseteq Player /\ pc' = "idle"  BY ModeFacts DEF TypeOK, OnMatchStart
  <2> QED BY <2>1, <2>2, NewParticipantType DEF MatchDuels, HandDuels, Mirror, Alone
<1>3. CASE Begins
  <2>1. match' = match  BY <1>3 DEF Begins, stores
  <2> QED BY <1>3, <1>t, <2>1, BeginsDuels DEF DuelInv, MatchDuels, Mirror, Alone
<1>4. ASSUME NEW s \in queue, Speaks(s) \/ Skips(s) PROVE MatchDuels' /\ HandDuels'
  <2>1. UNCHANGED <<match, hand, taken, ev>> /\ ev.kind # "death" /\ pc # "idle"
    BY <1>4 DEF Speaks, Skips, stores, Shape, ServiceOf
  <2>2. \A p, q : Lag(p, q) = 0 /\ Lag(p, q)' = 0  BY <2>1 DEF Lag
  <2>3. HandDuels'
    BY <2>1, <2>2 DEF DuelInv, HandDuels, Mirror, Lagging, LaggingAlone
  <2> QED BY <2>1, <2>3 DEF DuelInv, MatchDuels, Mirror, Alone
<1>5. CASE BreaksOff
  <2>1. match' = match /\ pc' = "idle"  BY <1>5 DEF BreaksOff, Forget, stores
  <2> QED BY <2>1 DEF DuelInv, MatchDuels, HandDuels, Mirror, Alone
<1>6. ASSUME NEW s \in queue, ListenAsParticipant(s) PROVE MatchDuels' /\ HandDuels'
  <2>0. /\ pc = "next" /\ pc' = "board" /\ UNCHANGED <<ev, taken>> /\ ServiceOf(s, ev)
        /\ s \in Service
    BY <1>6, Listening DEF ListenAsParticipant, Shape
  <2>1. HandDuels'
    <3>1. CASE ev.kind = "match_end"
      BY <2>0, <3>1 DEF DuelInv, HandDuels, Mirror
    <3>2. CASE ev.kind # "match_end"  BY <1>6, <3>2, ListensDuels
    <3> QED BY <3>1, <3>2
  <2>2. MatchDuels'
    <3>1. CASE s.role \notin InterimRoles
      <4>1. match' = match  BY <1>6, <3>1, Listening
      <4> QED BY <4>1 DEF DuelInv, MatchDuels, Mirror, Alone
    <3>2. CASE s.role \in InterimRoles
      <4>1. /\ match'.participants = hand.participants /\ match'.state = hand.state
        BY <1>6, <3>2, Listening
      <4>2. \A p, q : Lag(p, q) = 0
        <5>1. CASE s.role = "kill"
          <6>1. s = [role |-> "kill", who |-> ev.attacker] /\ s \in queue
            <7>1. ev.kind # "kill"  BY DEF TypeOK, Event, Kind
            <7> QED BY <2>0, <5>1, <7>1 DEF ServiceOf, Service
          <6> QED BY <6>1 DEF Lag
        <5>2. CASE s.role # "kill"
          <6>1. ev.kind # "death"  BY <2>0, <3>2, <5>2 DEF ServiceOf, InterimRoles
          <6> QED BY <6>1 DEF Lag
        <5> QED BY <5>1, <5>2
      <4>3. Mirror(hand.participants) /\ (hand.state = "InProgress" => Alone(hand.participants))
        BY <2>0, <4>2, HandMirrors DEF DuelInv
      <4> QED BY <4>1, <4>3 DEF MatchDuels, Mirror, Alone
    <3> QED BY <3>1, <3>2
  <2> QED BY <2>1, <2>2
<1>7. CASE SetMatch
  <2>1. /\ pc # "idle" /\ pc' = "idle" /\ match' = hand
        /\ ev.kind = "match_end" \/ queue = {}
    BY <1>7 DEF SetMatch, Forget, Shape
  <2>2. ev.kind # "match_end" => \A p, q : Lag(p, q) = 0  BY <2>1 DEF Lag
  <2>3. Mirror(hand.participants) /\ (hand.state = "InProgress" => Alone(hand.participants))
    BY <2>1, <2>2, HandMirrors DEF DuelInv
  <2> QED BY <2>1, <2>3 DEF MatchDuels, HandDuels, Mirror, Alone
<1>8. CASE ListenAsBoard \/ ListenAsPlayer \/ SetPlayer \/ SaveLevel
  <2>1. UNCHANGED <<match, ev, queue, hand, taken>> /\ pc # "idle"
    BY <1>8 DEF ListenAsBoard, ListenAsPlayer, SetPlayer, SaveLevel, local
  <2>2. \A p, q : Lag(p, q)' = Lag(p, q)  BY <2>1 DEF Lag, Murder
  <2>3. MatchDuels'  BY <2>1 DEF DuelInv, MatchDuels, Mirror, Alone
  <2>4. HandDuels'  BY <2>1, <2>2 DEF DuelInv, HandDuels, Mirror, Lagging, LaggingAlone
  <2> QED BY <2>3, <2>4
<1> QED BY <1>1, <1>2, <1>3, <1>4, <1>5, <1>6, <1>7, <1>8, Steps DEF Listens

-----------------------------------------------------------------------------
(* The plugin.                                                             *)

PluginInv ==
  ~mode.mayDie => told = IF pc = "save" THEN [profile EXCEPT ![subject.who] = prof] ELSE profile

LEMMA InitPluginInv == Init => PluginInv
  BY DEF Init, PluginInv

LEMMA NextPluginInv ==
  ASSUME TypeOK, PluginInv, [Next]_vars
  PROVE  PluginInv'
<1>1. CASE UNCHANGED vars \/ Multiplies
  BY <1>1 DEF PluginInv, Multiplies, vars, stores, local
<1>2. CASE Starts \/ Begins \/ \E s \in queue : Speaks(s) \/ Skips(s)
  BY <1>2 DEF PluginInv, Starts, OnMatchStart, Begins, Speaks, Skips, stores
<1>3. CASE BreaksOff
  BY <1>3 DEF PluginInv, BreaksOff, Forget, stores
<1>4. CASE UNCHANGED mode /\ \E s \in queue : ListenAsParticipant(s)
  BY <1>4 DEF PluginInv, ListenAsParticipant
<1>5. CASE UNCHANGED mode /\ ListenAsPlayer
  BY <1>5, ListenAsPlayerIs DEF PluginInv, ListenAsPlayer
<1>6. CASE UNCHANGED mode /\ SetPlayer
  BY <1>6 DEF PluginInv, SetPlayer
<1>7. CASE UNCHANGED mode /\ (ListenAsBoard \/ SaveLevel \/ SetMatch)
  BY <1>7 DEF PluginInv, ListenAsBoard, SaveLevel, SetMatch, Forget
<1> QED BY <1>1, <1>2, <1>3, <1>4, <1>5, <1>6, <1>7, Steps DEF Listens
-----------------------------------------------------------------------------
(* Sums.  MapThenSumSet adds up a finite set by taking one element out     *)
(* after the other: it picks out a function on the subsets that says what  *)
(* each has in all.  That there is one, and how it depends on the numbers, *)
(* follows by considering the least subset, or the least number of         *)
(* elements, for which it is not so.                                       *)

Pick(s) == CHOOSE x \in s : TRUE

\* h adds up f over the subsets of S
Adds(h, f, S) ==
  h = [s \in SUBSET S |-> IF s = {} THEN 0 ELSE f[Pick(s)] + h[s \ {Pick(s)}]]

\* The sum of the numbers of f
Total(f) == (CHOOSE h : Adds(h, f, DOMAIN f))[DOMAIN f]

LEMMA Picked == \A s : s # {} => Pick(s) \in s
BY DEF Pick

\* Where a finite set has bad subsets, it has a least one.
LEMMA LeastSubset ==
  ASSUME NEW S, IsFiniteSet(S), NEW bad \in SUBSET (SUBSET S), bad # {}
  PROVE  \E s \in bad : \A r \in SUBSET s : r # s => r \notin bad
<1>1. FiniteSubsetsOf(S) = SUBSET S
  BY FS_FiniteSubsetsOfFinite
<1>2. IsWellFoundedOn(StrictSubsetOrdering(S), SUBSET S)
  BY <1>1, FS_StrictSubsetOrderingWellFounded
<1>3. PICK s \in bad : \A r \in bad : ~ (<<r, s>> \in StrictSubsetOrdering(S))
  BY <1>2, WFMin
<1>4. \A r \in bad : r \subseteq s => r = s
  BY <1>3 DEF StrictSubsetOrdering
<1> QED BY <1>4

LEMMA LeastNumber ==
  ASSUME NEW bad \in SUBSET Nat, bad # {}
  PROVE  \E n \in bad : \A i \in bad : n <= i
<1>1. PICK n \in bad : \A i \in bad : ~ (<<i, n>> \in OpToRel(<, Nat))
  BY NatLessThanWellFounded, WFMin
<1>2. \A i \in bad : ~ (i < n)
  BY <1>1 DEF OpToRel
<1> QED BY <1>2

UpTo(S, n) == {s \in SUBSET S : Cardinality(s) <= n}

AddsUpTo(h, f, S, n) ==
  /\ h \in [UpTo(S, n) -> Nat]
  /\ \A s \in UpTo(S, n) : h[s] = IF s = {} THEN 0 ELSE f[Pick(s)] + h[s \ {Pick(s)}]

LEMMA SumExists ==
  ASSUME NEW S, IsFiniteSet(S), NEW f \in [S -> Nat]
  PROVE  \E h : Adds(h, f, S)
<1>0. \A s \in SUBSET S : IsFiniteSet(s) /\ Cardinality(s) \in Nat
  BY FS_Subset, FS_CardinalityType
<1>1. \E h : AddsUpTo(h, f, S, 0)
  <2>1. UpTo(S, 0) = {{}}
    BY <1>0, FS_EmptySet DEF UpTo
  <2>2. AddsUpTo([s \in UpTo(S, 0) |-> 0], f, S, 0)
    BY <2>1 DEF AddsUpTo
  <2> QED BY <2>2
<1>2. ASSUME NEW n \in Nat, \E h : AddsUpTo(h, f, S, n)
      PROVE  \E h : AddsUpTo(h, f, S, n + 1)
  <2>1. PICK h : AddsUpTo(h, f, S, n)
    BY <1>2
  <2> DEFINE k == [s \in UpTo(S, n + 1) |->
                     IF s \in UpTo(S, n) THEN h[s] ELSE f[Pick(s)] + h[s \ {Pick(s)}]]
  <2>2. ASSUME NEW s \in UpTo(S, n + 1), s # {}
        PROVE  /\ Pick(s) \in S
               /\ s \ {Pick(s)} \in UpTo(S, n) /\ s \ {Pick(s)} \in UpTo(S, n + 1)
    <3>1. s \in SUBSET S /\ Pick(s) \in s /\ Cardinality(s) <= n + 1
      BY <2>2, Picked DEF UpTo
    <3>2. IsFiniteSet(s) /\ Cardinality(s) \in Nat
      BY <1>0, <3>1
    <3>3. Cardinality(s \ {Pick(s)}) = Cardinality(s) - 1
      BY <3>1, <3>2, FS_RemoveElement
    <3> QED BY <3>1, <3>2, <3>3 DEF UpTo
  <2>3. {} \in UpTo(S, n) /\ UpTo(S, n) \subseteq UpTo(S, n + 1)
    BY <1>0, FS_EmptySet DEF UpTo
  <2>4. ASSUME NEW s \in UpTo(S, n + 1)
        PROVE  k[s] \in Nat
    <3>1. CASE s \in UpTo(S, n)
      BY <2>1, <3>1 DEF AddsUpTo
    <3>2. CASE s \notin UpTo(S, n)
      <4>1. s # {} /\ k[s] = f[Pick(s)] + h[s \ {Pick(s)}]
        BY <2>3, <3>2
      <4> QED BY <2>1, <2>2, <4>1 DEF AddsUpTo
    <3> QED BY <3>1, <3>2
  <2>5. ASSUME NEW s \in UpTo(S, n + 1)
        PROVE  k[s] = IF s = {} THEN 0 ELSE f[Pick(s)] + k[s \ {Pick(s)}]
    <3>1. CASE s = {}
      BY <2>1, <2>3, <3>1 DEF AddsUpTo
    <3>2. CASE s # {}
      <4>1. k[s \ {Pick(s)}] = h[s \ {Pick(s)}]
        BY <2>2, <3>2
      <4>2. k[s] = f[Pick(s)] + h[s \ {Pick(s)}]
        BY <2>1, <3>2 DEF AddsUpTo
      <4> QED BY <3>2, <4>1, <4>2
    <3> QED BY <3>1, <3>2
  <2>6. k \in [UpTo(S, n + 1) -> Nat]
    BY <2>4
  <2> HIDE DEF k
  <2>7. AddsUpTo(k, f, S, n + 1)
    BY <2>5, <2>6 DEF AddsUpTo
  <2> QED BY <2>7
<1>3. \A n \in Nat : \E h : AddsUpTo(h, f, S, n)
  <2> DEFINE bad == {n \in Nat : ~ \E h : AddsUpTo(h, f, S, n)}
  <2>1. ASSUME bad # {} PROVE FALSE
    <3>1. PICK n \in bad : \A i \in bad : n <= i
      BY <2>1, LeastNumber
    <3>2. n # 0
      BY <1>1
    <3>3. n - 1 \in Nat /\ n - 1 \notin bad /\ (n - 1) + 1 = n
      BY <3>1, <3>2
    <3>4. \E h : AddsUpTo(h, f, S, n - 1)
      BY <3>3
    <3>5. \E h : AddsUpTo(h, f, S, (n - 1) + 1)
      BY <1>2, <3>3, <3>4
    <3> QED BY <3>3, <3>5
  <2> QED BY <2>1
<1>4. PICK h : AddsUpTo(h, f, S, Cardinality(S))
  <2>1. Cardinality(S) \in Nat
    BY FS_CardinalityType
  <2> QED BY <1>3, <2>1
<1>5. UpTo(S, Cardinality(S)) = SUBSET S
  BY FS_Subset DEF UpTo
<1>6. Adds(h, f, S)
  BY <1>4, <1>5 DEF AddsUpTo, Adds
<1> QED BY <1>6

\* What adds up numbers is a number.
LEMMA SumsAreNumbers ==
  ASSUME NEW S, IsFiniteSet(S), NEW f \in [S -> Nat], NEW h, Adds(h, f, S)
  PROVE  \A s \in SUBSET S : h[s] \in Nat
<1> DEFINE bad == {s \in SUBSET S : h[s] \notin Nat}
<1>1. ASSUME bad # {} PROVE FALSE
  <2>0. bad \in SUBSET (SUBSET S)
    OBVIOUS
  <2>1. PICK s \in bad : \A r \in SUBSET s : r # s => r \notin bad
    <3> HIDE DEF bad
    <3> QED BY <1>1, <2>0, LeastSubset
  <2>2. h[s] = IF s = {} THEN 0 ELSE f[Pick(s)] + h[s \ {Pick(s)}]
    BY DEF Adds
  <2>3. s # {}
    BY <2>2
  <2>4. Pick(s) \in s
    BY <2>3, Picked
  <2>5. h[s \ {Pick(s)}] \in Nat
    BY <2>1, <2>4
  <2> QED BY <2>2, <2>3, <2>4, <2>5
<1> QED BY <1>1

\* One number for another, and so the sums of the sets that have it
LEMMA SumsChange ==
  ASSUME NEW S, IsFiniteSet(S), NEW f \in [S -> Nat], NEW g \in [S -> Nat],
         NEW h, Adds(h, f, S), NEW k, Adds(k, g, S),
         NEW x \in S, \A y \in S \ {x} : g[y] = f[y]
  PROVE  \A s \in SUBSET S : k[s] = h[s] + (IF x \in s THEN g[x] - f[x] ELSE 0)
<1> DEFINE n == g[x] - f[x]
           bad == {s \in SUBSET S : k[s] # h[s] + (IF x \in s THEN n ELSE 0)}
<1>0. n \in Int /\ g[x] = f[x] + n
  OBVIOUS
<1> HIDE DEF n
<1>1. ASSUME bad # {} PROVE FALSE
  <2>0. bad \in SUBSET (SUBSET S)
    OBVIOUS
  <2>1. PICK s \in bad : \A r \in SUBSET s : r # s => r \notin bad
    <3> HIDE DEF bad
    <3> QED BY <1>1, <2>0, LeastSubset
  <2>2. /\ h[s] = IF s = {} THEN 0 ELSE f[Pick(s)] + h[s \ {Pick(s)}]
        /\ k[s] = IF s = {} THEN 0 ELSE g[Pick(s)] + k[s \ {Pick(s)}]
    BY DEF Adds
  <2>3. s # {}
    BY <2>2
  <2>4. Pick(s) \in s /\ Pick(s) \in S
    BY <2>3, Picked
  <2>5. k[s \ {Pick(s)}] = h[s \ {Pick(s)}] + (IF x \in s \ {Pick(s)} THEN n ELSE 0)
    BY <2>1, <2>4
  <2>6. h[s \ {Pick(s)}] \in Nat /\ f[Pick(s)] \in Nat
    BY <2>4, SumsAreNumbers
  <2>7. CASE Pick(s) = x
    BY <1>0, <2>2, <2>3, <2>4, <2>5, <2>6, <2>7
  <2>8. CASE Pick(s) # x
    <3>1. g[Pick(s)] = f[Pick(s)]
      BY <2>4, <2>8
    <3> QED BY <1>0, <2>2, <2>3, <2>4, <2>5, <2>6, <2>8, <3>1
  <2> QED BY <2>7, <2>8
<1> QED BY <1>1 DEF n

\* The sum of numbers is a number; it changes as one of them does; and it is 0
\* if they all are.
LEMMA TotalType ==
  ASSUME NEW S, IsFiniteSet(S), NEW f \in [S -> Nat]
  PROVE  Total(f) \in Nat
<1>1. DOMAIN f = S
  OBVIOUS
<1>2. Adds(CHOOSE h : Adds(h, f, S), f, S)
  BY SumExists
<1> QED BY <1>1, <1>2, SumsAreNumbers DEF Total

LEMMA TotalChanges ==
  ASSUME NEW S, IsFiniteSet(S), NEW f \in [S -> Nat], NEW g \in [S -> Nat],
         NEW x \in S, \A y \in S \ {x} : g[y] = f[y]
  PROVE  Total(g) = Total(f) + g[x] - f[x]
<1>1. DOMAIN f = S /\ DOMAIN g = S
  OBVIOUS
<1>2. PICK h : Adds(h, f, S) /\ Total(f) = h[S]
  BY <1>1, SumExists DEF Total
<1>3. PICK k : Adds(k, g, S) /\ Total(g) = k[S]
  BY <1>1, SumExists DEF Total
<1>4. k[S] = h[S] + (IF x \in S THEN g[x] - f[x] ELSE 0)
  BY <1>2, <1>3, SumsChange
<1>5. h[S] \in Nat /\ f[x] \in Nat /\ g[x] \in Nat
  BY <1>2, SumsAreNumbers
<1> QED BY <1>2, <1>3, <1>4, <1>5

LEMMA TotalOfZeros ==
  ASSUME NEW S, IsFiniteSet(S)
  PROVE  Total([x \in S |-> 0]) = 0
<1> DEFINE f == [x \in S |-> 0]
<1>0. DOMAIN f = S /\ f \in [S -> Nat]
  OBVIOUS
<1>1. PICK h : Adds(h, f, S) /\ Total(f) = h[S]
  BY <1>0, SumExists DEF Total
<1> DEFINE bad == {s \in SUBSET S : h[s] # 0}
<1>2. ASSUME bad # {} PROVE FALSE
  <2>0. bad \in SUBSET (SUBSET S)
    OBVIOUS
  <2>1. PICK s \in bad : \A r \in SUBSET s : r # s => r \notin bad
    <3> HIDE DEF bad
    <3> QED BY <1>2, <2>0, LeastSubset
  <2>2. h[s] = IF s = {} THEN 0 ELSE f[Pick(s)] + h[s \ {Pick(s)}]
    BY <1>1 DEF Adds
  <2>3. Pick(s) \in s /\ s # {}
    BY <2>2, Picked
  <2>4. h[s \ {Pick(s)}] = 0 /\ f[Pick(s)] = 0
    BY <2>1, <2>3
  <2> QED BY <2>2, <2>3, <2>4
<1> QED BY <1>1, <1>2


-----------------------------------------------------------------------------
(* First bloods.                                                           *)

\* The first bloods on the boards
Bloods == Total([p \in Player |-> board[p]["first_bloods"]])

LEMMA BloodsAre ==
  MapThenSumSet(LAMBDA p : board[p]["first_bloods"], Player) = Bloods
  BY ZenonT(60) DEF MapThenSumSet, MapThenFoldSet, Total, Bloods, Adds, Pick

LEMMA BloodsType == TypeOK => Bloods \in Nat
<1> SUFFICES ASSUME TypeOK PROVE Bloods \in Nat  OBVIOUS
<1>1. [p \in Player |-> board[p]["first_bloods"]] \in [Player -> Nat]
  BY BooksAre, CounterHas
<1> QED BY <1>1, TotalType, StatisticsAssumption DEF Bloods

LEMMA BloodsChange ==
  ASSUME TypeOK, TypeOK', NEW x \in Player, \A p \in Player \ {x} : board'[p] = board[p]
  PROVE  Bloods' = Bloods + board'[x]["first_bloods"] - board[x]["first_bloods"]
<1> DEFINE f == [p \in Player |-> board[p]["first_bloods"]]
           g == [p \in Player |-> board'[p]["first_bloods"]]
<1>1. \A p \in Player : board[p] \in Statistic /\ board'[p] \in Statistic  BY DEF TypeOK
<1>2. f \in [Player -> Nat] /\ g \in [Player -> Nat]  BY <1>1, CounterHas DEF Statistic
<1>3. /\ \A y \in Player \ {x} : g[y] = f[y]
      /\ f[x] = board[x]["first_bloods"] /\ g[x] = board'[x]["first_bloods"]
  OBVIOUS
<1>4. Bloods = Total(f) /\ Bloods' = Total(g)  BY DEF Bloods
<1> HIDE DEF f, g
<1>5. Total(g) = Total(f) + g[x] - f[x]  BY <1>2, <1>3, TotalChanges, StatisticsAssumption
<1> QED BY <1>3, <1>4, <1>5

\* The first blood is marked in the match before it is on a board: until it is,
\* there is a match without one.
BloodInv ==
  /\ Bloods + (IF match # NoMatch /\ ~match.blood THEN 1 ELSE 0) <= rounds
  /\ pc # "idle" => /\ match.blood \/ ev.blood => hand.blood
                    /\ ev.blood /\ (\E s \in queue : s.role = "kill") => ~match.blood
  /\ pc = "board" /\ subject.role = "kill" /\ ev.blood => match.blood /\ Bloods + 1 <= rounds

\* Only a death has a kill, and only one.
LEMMA KillIs ==
  ASSUME TypeOK, Shape, pc # "idle", NEW s \in queue, s.role = "kill"
  PROVE  s = [role |-> "kill", who |-> ev.attacker] /\ ev.kind = "death"
<1>1. ServiceOf(s, ev) /\ s \in Service /\ ev.kind # "kill"
  BY DEF Shape, TypeOK, Event, Kind
<1> QED BY <1>1 DEF ServiceOf, Service

LEMMA InitBloodInv == Init => BloodInv
<1> SUFFICES ASSUME Init PROVE BloodInv  OBVIOUS
<1>1. \A p \in Player : board[p]["first_bloods"] = 0
  BY CounterHas, ZeroIs DEF Init, Zero
<1>2. [p \in Player |-> board[p]["first_bloods"]] = [p \in Player |-> 0]  BY <1>1
<1>3. Bloods = 0  BY <1>2, TotalOfZeros, StatisticsAssumption DEF Bloods
<1> QED BY <1>3 DEF Init, BloodInv

LEMMA NextBloodInv ==
  ASSUME TypeOK, Shape, BloodInv, [Next]_vars
  PROVE  BloodInv'
<1>t. TypeOK'  BY NextTypeOK
<1>b. Bloods \in Nat /\ rounds \in Nat  BY BloodsType DEF TypeOK
<1>c. ASSUME board' = board PROVE Bloods' = Bloods  BY <1>c DEF Bloods
<1>1. CASE UNCHANGED vars \/ Multiplies
  <2>1. UNCHANGED <<match, board, rounds, pc, ev, queue, hand, subject>>
    BY <1>1 DEF Multiplies, vars, stores, local
  <2> QED BY <1>c, <2>1 DEF BloodInv
<1>2. CASE Starts
  <2> PICK l \in mode.levels, r \in mode.rosters : OnMatchStart(l, r)  BY <1>2 DEF Starts
  <2>1. /\ board' = board /\ rounds' = rounds + 1 /\ pc = "idle" /\ pc' = "idle"
    BY DEF OnMatchStart
  <2>2. Bloods <= rounds  BY <1>b DEF BloodInv
  <2> QED BY <1>b, <1>c, <2>1, <2>2 DEF BloodInv
<1>3. CASE Begins
  <2>1. UNCHANGED <<match, board, rounds>> /\ pc' = "next"  BY <1>3 DEF Begins, stores
  <2>2. hand'.blood = (match.blood \/ ev'.blood) /\ (ev'.blood => ~match.blood)
    BY <1>3 DEF Begins
  <2> QED BY <1>c, <2>1, <2>2 DEF BloodInv
<1>4. ASSUME NEW s \in queue, Speaks(s) \/ Skips(s) PROVE BloodInv'
  <2>1. UNCHANGED <<match, board, rounds, ev, hand>> /\ queue' = queue \ {s}
        /\ pc = "next" /\ pc' # "board"
    BY <1>4 DEF Speaks, Skips, stores
  <2> QED BY <1>c, <2>1 DEF BloodInv
<1>5. CASE BreaksOff
  <2>1. UNCHANGED <<match, board, rounds>> /\ pc' = "idle"
    BY <1>5 DEF BreaksOff, Forget, stores
  <2> QED BY <1>c, <2>1 DEF BloodInv
<1>6. ASSUME NEW s \in queue, ListenAsParticipant(s) PROVE BloodInv'
  <2>0. /\ pc = "next" /\ pc' = "board" /\ UNCHANGED <<board, rounds, ev>> /\ subject' = s
        /\ queue' = queue \ {s} /\ ServiceOf(s, ev) /\ hand'.blood = hand.blood
        /\ match # NoMatch
    BY <1>6, Listening DEF ListenAsParticipant, Shape, TypeOK
  <2>1. CASE s.role \notin InterimRoles
    <3>1. match' = match /\ s.role # "kill"  BY <1>6, <2>1, Listening DEF InterimRoles
    <3> QED BY <1>c, <2>0, <3>1 DEF BloodInv
  <2>2. CASE s.role \in InterimRoles
    <3>1. match' # NoMatch /\ match'.blood = hand.blood  BY <1>6, <2>2, Listening
    <3>2. match.blood => hand.blood  BY <2>0 DEF BloodInv
    <3>3. \A t \in queue' : t.role # "kill"
      <4> SUFFICES ASSUME NEW t \in queue, t # s, t.role = "kill" PROVE FALSE  BY <2>0
      <4>1. t = [role |-> "kill", who |-> ev.attacker] /\ ev.kind = "death"
        BY <2>0, KillIs
      <4>2. s.role = "kill"  BY <2>0, <2>2, <4>1 DEF ServiceOf, InterimRoles
      <4> QED BY <2>0, <4>1, <4>2, KillIs
    <3>4. Bloods + (IF match' # NoMatch /\ ~match'.blood THEN 1 ELSE 0) <= rounds
      BY <1>b, <2>0, <3>1, <3>2 DEF BloodInv
    <3>5. ASSUME s.role = "kill", ev.blood PROVE match'.blood /\ Bloods + 1 <= rounds
      <4>1. ~match.blood /\ hand.blood  BY <2>0, <3>5 DEF BloodInv
      <4> QED BY <2>0, <3>1, <4>1 DEF BloodInv
    <3>6. match'.blood \/ ev.blood => hand.blood  BY <2>0, <3>1 DEF BloodInv
    <3> QED BY <1>c, <2>0, <3>3, <3>4, <3>5, <3>6 DEF BloodInv
  <2> QED BY <2>1, <2>2
<1>7. CASE ListenAsBoard
  <2>0. /\ pc = "board" /\ pc' = "player"
        /\ UNCHANGED <<match, rounds, ev, queue, hand, subject>>
    BY <1>7 DEF ListenAsBoard, local
  <2>1. subject.who \in Player /\ \A p \in Player \ {subject.who} : board'[p] = board[p]
    BY <1>7, ListenAsBoardIs
  <2>2. Bloods' = Bloods + board'[subject.who]["first_bloods"] - board[subject.who]["first_bloods"]
    BY <1>t, <2>1, BloodsChange
  <2> DEFINE one == IF Tracking(hand) /\ subject.role = "kill" /\ ev.blood THEN 1 ELSE 0
  <2>3. board'[subject.who]["first_bloods"] = board[subject.who]["first_bloods"] + one
    <3>1. ev.n \in Nat /\ Participant(subject.who).stats \in Statistic
      BY <1>7, ListenAsBoardIs DEF TypeOK, Event
    <3>2. BoardTally(ev, subject.role, Participant(subject.who).stats)["first_bloods"]
            = IF subject.role = "kill" /\ ev.blood THEN 1 ELSE 0
      BY <3>1, BoardTallyIs
    <3> QED BY <1>7, <3>2, ListenAsBoardIs, CounterHas
  <2>4. board[subject.who]["first_bloods"] \in Nat  BY <2>1, BooksAre, CounterHas
  <2> HIDE DEF one
  <2>5. Bloods' = Bloods + one  BY <1>b, <2>2, <2>3, <2>4 DEF one
  <2>6. CASE one = 0
    <3>1. Bloods' = Bloods  BY <1>b, <2>5, <2>6
    <3> QED BY <2>0, <3>1 DEF BloodInv
  <2>7. CASE one # 0
    <3>1. one = 1 /\ subject.role = "kill" /\ ev.blood  BY <2>7 DEF one
    <3>2. match.blood /\ Bloods + 1 <= rounds  BY <2>0, <3>1 DEF BloodInv
    <3> QED BY <1>b, <2>0, <2>5, <3>1, <3>2 DEF BloodInv
  <2> QED BY <2>6, <2>7
<1>8. CASE ListenAsPlayer
  <2>0. /\ pc = "player" /\ pc' = "save" /\ UNCHANGED <<match, rounds, ev, queue, hand, subject>>
    BY <1>8 DEF ListenAsPlayer
  <2>1. \A p \in Player : board'[p]["first_bloods"] = board[p]["first_bloods"]
    BY <1>8, ListenAsPlayerIs, CounterHas
  <2>2. Bloods' = Bloods
    <3>1. [p \in Player |-> board'[p]["first_bloods"]] = [p \in Player |-> board[p]["first_bloods"]]
      BY <2>1
    <3> QED BY <3>1 DEF Bloods
  <2> QED BY <2>0, <2>2 DEF BloodInv
<1>9. CASE SetPlayer \/ SaveLevel
  <2>1. UNCHANGED <<match, board, rounds, ev, queue, hand, subject>> /\ pc # "idle" /\ pc' # "board"
    BY <1>9 DEF SetPlayer, SaveLevel, local
  <2> QED BY <1>c, <2>1 DEF BloodInv
<1>10. CASE SetMatch
  <2>1. UNCHANGED <<board, rounds>> /\ match' = hand /\ pc # "idle" /\ pc' = "idle"
        /\ match # NoMatch
    BY <1>10 DEF SetMatch, Forget, TypeOK
  <2>2. match.blood => hand.blood  BY <2>1 DEF BloodInv
  <2>3. Bloods + (IF match' # NoMatch /\ ~match'.blood THEN 1 ELSE 0) <= rounds
    BY <1>b, <2>1, <2>2 DEF BloodInv
  <2> QED BY <1>c, <2>1, <2>3 DEF BloodInv
<1> QED BY <1>1, <1>2, <1>3, <1>4, <1>5, <1>6, <1>7, <1>8, <1>9, <1>10, Steps DEF Listens

-----------------------------------------------------------------------------
(* Gamemodes.                                                              *)

\* Where no number is less than another's and one is more by n, so is the sum.
LEMMA SumsGrow ==
  ASSUME NEW S, IsFiniteSet(S), NEW f \in [S -> Nat], NEW g \in [S -> Nat],
         NEW h, Adds(h, f, S), NEW k, Adds(k, g, S), \A y \in S : g[y] >= f[y]
  PROVE  \A s \in SUBSET S : k[s] >= h[s]
<1> DEFINE bad == {s \in SUBSET S : ~ (k[s] >= h[s])}
<1>1. ASSUME bad # {} PROVE FALSE
  <2>0. bad \in SUBSET (SUBSET S)
    OBVIOUS
  <2>1. PICK s \in bad : \A r \in SUBSET s : r # s => r \notin bad
    <3> HIDE DEF bad
    <3> QED BY <1>1, <2>0, LeastSubset
  <2>2. /\ h[s] = IF s = {} THEN 0 ELSE f[Pick(s)] + h[s \ {Pick(s)}]
        /\ k[s] = IF s = {} THEN 0 ELSE g[Pick(s)] + k[s \ {Pick(s)}]
    BY DEF Adds
  <2>3. s # {}
    BY <2>2
  <2>4. Pick(s) \in s /\ Pick(s) \in S
    BY <2>3, Picked
  <2>5. k[s \ {Pick(s)}] >= h[s \ {Pick(s)}]
    BY <2>1, <2>4
  <2>6. /\ h[s \ {Pick(s)}] \in Nat /\ k[s \ {Pick(s)}] \in Nat
        /\ f[Pick(s)] \in Nat /\ g[Pick(s)] \in Nat
    BY <2>4, SumsAreNumbers
  <2>7. k[s] >= h[s]
    BY <2>2, <2>3, <2>4, <2>5, <2>6
  <2> QED BY <2>7
<1> QED BY <1>1

LEMMA TotalGrows ==
  ASSUME NEW S, IsFiniteSet(S), NEW f \in [S -> Nat], NEW g \in [S -> Nat],
         \A y \in S : g[y] >= f[y]
  PROVE  /\ Total(g) >= Total(f)
         /\ \A x \in S : Total(g) >= Total(f) + (g[x] - f[x])
<1>1. ASSUME NEW e \in [S -> Nat], \A y \in S : e[y] >= f[y] PROVE Total(e) >= Total(f)
  <2>1. DOMAIN f = S /\ DOMAIN e = S
    OBVIOUS
  <2>2. PICK h : Adds(h, f, S) /\ Total(f) = h[S]
    BY <2>1, SumExists DEF Total
  <2>3. PICK k : Adds(k, e, S) /\ Total(e) = k[S]
    BY <2>1, SumExists DEF Total
  <2> QED BY <1>1, <2>2, <2>3, SumsGrow
<1>2. ASSUME NEW x \in S PROVE Total(g) >= Total(f) + (g[x] - f[x])
  <2> DEFINE e == [g EXCEPT ![x] = f[x]]
  <2>1. /\ e \in [S -> Nat] /\ e[x] = f[x] /\ \A y \in S \ {x} : g[y] = e[y]
        /\ \A y \in S : e[y] >= f[y]
    OBVIOUS
  <2> HIDE DEF e
  <2>2. Total(g) = Total(e) + g[x] - e[x]  BY <2>1, TotalChanges
  <2>3. Total(e) >= Total(f)  BY <1>1, <2>1
  <2>4. Total(e) \in Nat /\ Total(f) \in Nat /\ g[x] \in Nat /\ f[x] \in Nat  BY <2>1, TotalType
  <2> QED BY <2>1, <2>2, <2>3, <2>4
<1> QED BY <1>1, <1>2

\* What gamemodes and players count alike, xp apart
Accounted == Counter \ {"xp", "messages", "killstreaks_ended", "weapon_kills",
                        "weapon_deaths", "projectile_kills", "projectile_deaths"}

Tracked == Gamemode \ {"ARCADE"}

Lines(d, c) == [g \in Tracked |-> d.gamemodes[g][c]]

Accounts(d) == \A c \in Accounted : d.stats[c] <= Total(Lines(d, c))

GamemodeInv ==
  /\ match # NoMatch => match.level \in mode.levels
  /\ {} \notin mode.levels => /\ \A p \in Player : Accounts(profile[p])
                              /\ pc = "save" => Accounts(prof)

LEMMA LinesAre ==
  ASSUME NEW d \in PlayerDoc, NEW c \in Counter
  PROVE  /\ Lines(d, c) \in [Tracked -> Nat] /\ Total(Lines(d, c)) \in Nat
         /\ IsFiniteSet(Tracked)
<1>1. IsFiniteSet(Tracked)
  BY StatisticsAssumption, FS_Subset DEF Tracked
<1>2. Lines(d, c) \in [Tracked -> Nat]  BY DEF Lines, Tracked, PlayerDoc, Statistic
<1> QED BY <1>1, <1>2, TotalType

\* An event counts in a gamemode of the match if it counts in the player.
LEMMA ListenedAccounts ==
  ASSUME NEW d \in PlayerDoc, Accounts(d), NEW roster \in SUBSET Player,
         NEW m \in MatchDoc(roster), m.level # {}, NEW p, NEW e \in Event, NEW role,
         multiplier \in Nat
  PROVE  Accounts(ListenPlayer(d, m, p, e, role))
<1> DEFINE new == ListenPlayer(d, m, p, e, role)
<1>1. /\ new \in PlayerDoc
      /\ \A g \in Gamemode : new.gamemodes[g]
           = IF g \in GamemodesOf(m) THEN Add(d.gamemodes[g], GamemodeStat(e, role))
                                     ELSE d.gamemodes[g]
      /\ \A c \in Counter \ {"xp"} : new.stats[c] = d.stats[c] + Worth(m, e, role, c)
  <2>1. \A c \in Counter \ {"xp"} : new.stats[c] = d.stats[c] + Worth(m, e, role, c)
    BY StatsListened
  <2>2. new \in PlayerDoc  BY ListenPlayerIs
  <2>3. \A g \in Gamemode : new.gamemodes[g]
          = IF g \in GamemodesOf(m) THEN Add(d.gamemodes[g], GamemodeStat(e, role))
                                    ELSE d.gamemodes[g]
    BY DEF ListenPlayer
  <2> QED BY <2>1, <2>2, <2>3
<1> HIDE DEF new
<1> SUFFICES ASSUME NEW c \in Accounted PROVE new.stats[c] <= Total(Lines(new, c))
  BY DEF Accounts, new
<1>2. c \in Counter \ {"xp"} /\ c \in Counter  BY DEF Accounted
<1>3. /\ GamemodeStat(e, role) \in Statistic
      /\ GamemodeStat(e, role)[c] = PlayerStat(e, role)[c]
  BY GamemodeStatIs DEF Accounted
<1>4. GamemodeStat(e, role)[c] \in Nat  BY <1>2, <1>3 DEF Statistic
<1>5. \A g \in Gamemode : /\ d.gamemodes[g] \in Statistic /\ d.gamemodes[g][c] \in Nat
                          /\ Add(d.gamemodes[g], GamemodeStat(e, role))[c]
                               = d.gamemodes[g][c] + GamemodeStat(e, role)[c]
  BY <1>2, <1>3, AddIs DEF PlayerDoc, Statistic
<1>6. \A g \in Tracked :
        /\ Lines(new, c)[g] >= Lines(d, c)[g]
        /\ g \in GamemodesOf(m) =>
             Lines(new, c)[g] - Lines(d, c)[g] = PlayerStat(e, role)[c]
  BY <1>1, <1>3, <1>4, <1>5 DEF Lines, Tracked
<1>7. /\ Lines(d, c) \in [Tracked -> Nat] /\ Lines(new, c) \in [Tracked -> Nat]
      /\ Total(Lines(d, c)) \in Nat /\ Total(Lines(new, c)) \in Nat /\ IsFiniteSet(Tracked)
  BY <1>1, <1>2, LinesAre
<1>8. d.stats[c] <= Total(Lines(d, c)) /\ d.stats[c] \in Nat
  BY <1>2 DEF Accounts, PlayerDoc, Statistic
<1>9. new.stats[c] = d.stats[c] + Worth(m, e, role, c)  BY <1>1, <1>2
<1>10. CASE Tracking(m)
  <2>1. PICK g : g \in m.level  OBVIOUS
  <2>2. g \in Tracked /\ g \in GamemodesOf(m)
    <3>1. m.level \in SUBSET Gamemode  BY StatisticsAssumption DEF MatchDoc
    <3> QED BY <1>10, <2>1, <3>1 DEF Tracking, Tracked, GamemodesOf
  <2>3. Lines(new, c)[g] - Lines(d, c)[g] = PlayerStat(e, role)[c]  BY <1>6, <2>2
  <2>4. Total(Lines(new, c)) >= Total(Lines(d, c)) + (Lines(new, c)[g] - Lines(d, c)[g])
    <3> DEFINE f == Lines(d, c)
               k == Lines(new, c)
    <3>1. f \in [Tracked -> Nat] /\ k \in [Tracked -> Nat] /\ \A y \in Tracked : k[y] >= f[y]
      BY <1>6, <1>7
    <3> HIDE DEF f, k
    <3>2. \A x \in Tracked : Total(k) >= Total(f) + (k[x] - f[x])  BY <1>7, <3>1, TotalGrows
    <3> QED BY <2>2, <3>2 DEF f, k
  <2>5. Worth(m, e, role, c) = PlayerStat(e, role)[c]  BY <1>10 DEF Worth
  <2> QED BY <1>3, <1>4, <1>7, <1>8, <1>9, <2>3, <2>4, <2>5
<1>11. CASE ~Tracking(m)
  <2>1. Total(Lines(new, c)) >= Total(Lines(d, c))
    <3> DEFINE f == Lines(d, c)
               k == Lines(new, c)
    <3>1. f \in [Tracked -> Nat] /\ k \in [Tracked -> Nat] /\ \A y \in Tracked : k[y] >= f[y]
      BY <1>6, <1>7
    <3> HIDE DEF f, k
    <3>2. Total(k) >= Total(f)  BY <1>7, <3>1, TotalGrows
    <3> QED BY <3>2 DEF f, k
  <2>2. Worth(m, e, role, c) = 0  BY <1>11 DEF Worth
  <2> QED BY <1>7, <1>8, <1>9, <2>1, <2>2
<1> QED BY <1>10, <1>11

LEMMA InitGamemodeInv == Init => GamemodeInv
<1> SUFFICES ASSUME Init PROVE \A p \in Player : Accounts(profile[p])
  BY DEF Init, GamemodeInv
<1> SUFFICES ASSUME NEW p \in Player, NEW c \in Accounted
             PROVE  profile[p].stats[c] <= Total(Lines(profile[p], c))
  BY DEF Accounts
<1>1. profile[p] \in PlayerDoc /\ c \in Counter /\ c # "xp"
  BY InitTypeOK DEF TypeOK, Accounted
<1>2. profile[p].stats[c] = 0
  BY <1>1, ZeroIs DEF Init, NewPlayer, Zero
<1>3. Total(Lines(profile[p], c)) \in Nat  BY <1>1, LinesAre
<1> QED BY <1>2, <1>3

LEMMA NextGamemodeInv ==
  ASSUME TypeOK, Shape, GamemodeInv, [Next]_vars
  PROVE  GamemodeInv'
<1>1. CASE UNCHANGED vars \/ Multiplies
  BY <1>1 DEF GamemodeInv, Accounts, Lines, Multiplies, vars, stores, local
<1>2. CASE Starts
  <2> PICK l \in mode.levels, r \in mode.rosters : OnMatchStart(l, r)  BY <1>2 DEF Starts
  <2>0. UNCHANGED mode  BY <1>2 DEF Starts
  <2>1. match'.level = l  BY <2>0, OnMatchStartType
  <2>2. profile' = profile /\ pc' = "idle"  BY DEF OnMatchStart
  <2> QED BY <2>0, <2>1, <2>2 DEF GamemodeInv, Accounts, Lines
<1>3. CASE Begins \/ BreaksOff \/ \E s \in queue : Speaks(s) \/ Skips(s)
  <2>1. UNCHANGED <<mode, match, profile>> /\ pc' # "save"
    BY <1>3 DEF Begins, BreaksOff, Forget, Speaks, Skips, stores
  <2> QED BY <2>1 DEF GamemodeInv, Accounts, Lines
<1>4. ASSUME NEW s \in queue, ListenAsParticipant(s), UNCHANGED mode PROVE GamemodeInv'
  <2>1. /\ profile' = profile /\ pc' = "board" /\ pc = "next" /\ match # NoMatch
    BY <1>4 DEF ListenAsParticipant, TypeOK
  <2>2. match'.level = match.level
    <3>1. CASE s.role \notin InterimRoles  BY <1>4, <3>1, Listening
    <3>2. CASE s.role \in InterimRoles
      <4>1. match'.level = hand.level  BY <1>4, <3>2, Listening
      <4>2. hand.level = match.level  BY <2>1 DEF Shape
      <4> QED BY <4>1, <4>2
    <3> QED BY <3>1, <3>2
  <2> QED BY <1>4, <2>1, <2>2 DEF GamemodeInv, Accounts, Lines
<1>5. CASE (ListenAsBoard \/ SaveLevel) /\ UNCHANGED mode
  <2>1. UNCHANGED <<match, profile>> /\ pc' # "save"
    BY <1>5 DEF ListenAsBoard, SaveLevel
  <2> QED BY <1>5, <2>1 DEF GamemodeInv, Accounts, Lines
<1>6. CASE ListenAsPlayer /\ UNCHANGED mode
  <2>0. UNCHANGED <<match, profile>>  BY <1>6 DEF ListenAsPlayer
  <2> DEFINE p == subject.who
             d == profile[p]
             role == subject.role
  <2>1. /\ p \in Player /\ hand # NoMatch /\ ev \in Event /\ multiplier \in Nat /\ d \in PlayerDoc
        /\ prof' = ListenPlayer(d, hand, p, ev, role) /\ match # NoMatch /\ pc # "idle"
    BY <1>6, ListenAsPlayerIs DEF TypeOK
  <2>2. hand \in MatchDoc(DOMAIN hand.participants) /\ DOMAIN hand.participants \in SUBSET Player
    BY <2>1, HandIs
  <2>3. hand.level = match.level  BY <2>1 DEF Shape
  <2>4. ASSUME {} \notin mode.levels PROVE Accounts(prof')
    <3>1. hand.level # {}  BY <2>1, <2>3, <2>4 DEF GamemodeInv
    <3>2. Accounts(d)  BY <2>1, <2>4 DEF GamemodeInv
    <3> HIDE DEF d, p, role
    <3> QED BY <2>1, <2>2, <3>1, <3>2, ListenedAccounts
  <2>5. Accounts(prof)' <=> Accounts(prof')  BY DEF Accounts, Lines
  <2>6. \A q \in Player : Accounts(profile[q])' <=> Accounts(profile[q])
    BY <2>0 DEF Accounts, Lines
  <2> QED BY <1>6, <2>0, <2>4, <2>5, <2>6 DEF GamemodeInv
<1>7. CASE SetPlayer /\ UNCHANGED mode
  <2>1. /\ match' = match /\ pc = "save" /\ pc' = "next"
        /\ profile' = [profile EXCEPT ![subject.who] = prof]
    BY <1>7 DEF SetPlayer
  <2>2. ASSUME NEW q \in Player, {} \notin mode.levels PROVE Accounts(profile[q])'
    <3>1. profile'[q] = profile[q] \/ profile'[q] = prof  BY <2>1 DEF TypeOK
    <3>2. Accounts(profile[q]) /\ Accounts(prof)  BY <2>1, <2>2 DEF GamemodeInv
    <3> QED BY <3>1, <3>2 DEF Accounts, Lines
  <2> QED BY <1>7, <2>1, <2>2 DEF GamemodeInv
<1>8. CASE SetMatch /\ UNCHANGED mode
  <2>1. match' = hand /\ profile' = profile /\ pc # "idle" /\ pc' = "idle" /\ match # NoMatch
    BY <1>8 DEF SetMatch, Forget, TypeOK
  <2>2. hand.level = match.level  BY <2>1 DEF Shape
  <2> QED BY <1>8, <2>1, <2>2 DEF GamemodeInv, Accounts, Lines
<1> QED BY <1>1, <1>2, <1>3, <1>4, <1>5, <1>6, <1>7, <1>8, Steps DEF Listens

-----------------------------------------------------------------------------
(* Records.                                                                *)

Timed == {"blood", "wool", "flag"}

\* Is the record best at least as good as x?
Meets(r, best, x) == IF r \in Timed THEN x # NoRecord => best \in 0 .. x ELSE best >= x

\* Are the records a at least as good as b?
Covers(a, b) == \A r \in DOMAIN NoRecords : Meets(r, a[r], b[r])

LEMMA RecordsAre ==
  ASSUME NEW a \in Records
  PROVE  /\ \A r \in DOMAIN NoRecords : a[r] \in Time
         /\ a.streak \in Nat /\ a.kills \in Nat /\ a.deaths \in Nat
         /\ a.blood \in Time /\ a.wool \in Time /\ a.flag \in Time /\ a.projectile \in Time
         /\ Covers(a, a) /\ Covers(a, NoRecords)
<1>1. /\ a.streak \in Nat /\ a.kills \in Nat /\ a.deaths \in Nat
      /\ a.blood \in Time /\ a.wool \in Time /\ a.flag \in Time /\ a.projectile \in Time
  BY DEF Records
<1>2. \A r \in DOMAIN NoRecords : a[r] \in Time  BY <1>1, RecordNames DEF Time
<1>3. Covers(a, a)
  BY <1>2 DEF Covers, Meets, Time, NoRecord
<1>4. Covers(a, NoRecords)
  BY <1>1 DEF Covers, Meets, Time, NoRecord, NoRecords, Timed
<1> QED BY <1>1, <1>2, <1>3, <1>4

LEMMA MeetsTransitive ==
  ASSUME NEW r, NEW a \in Time, NEW b \in Time, NEW c \in Time, Meets(r, a, b), Meets(r, b, c)
  PROVE  Meets(r, a, c)
  BY DEF Meets, Time, NoRecord

LEMMA RecordsEqual ==
  ASSUME NEW a \in Records, NEW b \in Records, \A r \in DOMAIN NoRecords : a[r] = b[r]
  PROVE  a = b
<1>1. /\ a.blood = b.blood /\ a.projectile = b.projectile /\ a.wool = b.wool /\ a.flag = b.flag
      /\ a.streak = b.streak /\ a.kills = b.kills /\ a.deaths = b.deaths
  BY RecordNames
<1> QED BY <1>1 DEF Records

\* What MapRecordListener makes of the records is no worse, and stays as it is
\* when it hears the event again.
LEMMA MapRecordsCover ==
  ASSUME NEW old \in Records, NEW e \in Event, NEW role, NEW crowd, NEW stats \in Statistic
  PROVE  LET new == MapRecords(old, e, role, crowd, stats)
         IN  /\ Covers(new, old)
             /\ MapRecords(new, e, role, crowd, stats) = new
<1> DEFINE new == MapRecords(old, e, role, crowd, stats)
           again == MapRecords(new, e, role, crowd, stats)
<1>0. /\ stats["kills"] \in Nat /\ stats["deaths"] \in Nat /\ e.n \in Nat /\ e.distance \in Time
  BY CounterHas DEF Statistic, Event, Time, NoDistance, NoRecord
<1>1. /\ new \in Records
      /\ new.blood = IF role = "kill" /\ e.blood THEN Faster(old.blood, e.n) ELSE old.blood
      /\ new.projectile = IF role = "kill" /\ Projectile(e) /\ crowd >= Crowd
                          THEN Higher(old.projectile, e.distance) ELSE old.projectile
      /\ new.streak = IF role = "killstreak" THEN Higher(old.streak, e.n) ELSE old.streak
      /\ new.wool = IF role = "wool_place" THEN Faster(old.wool, e.n) ELSE old.wool
      /\ new.flag = IF role = "flag_place" THEN Faster(old.flag, e.n) ELSE old.flag
      /\ new.kills = IF role = "match_end" THEN Higher(old.kills, stats["kills"]) ELSE old.kills
      /\ new.deaths = IF role = "match_end" THEN Higher(old.deaths, stats["deaths"])
                      ELSE old.deaths
  BY MapRecordsAre
<1> HIDE DEF new
<1>2. /\ again \in Records
      /\ again.blood = IF role = "kill" /\ e.blood THEN Faster(new.blood, e.n) ELSE new.blood
      /\ again.projectile = IF role = "kill" /\ Projectile(e) /\ crowd >= Crowd
                          THEN Higher(new.projectile, e.distance) ELSE new.projectile
      /\ again.streak = IF role = "killstreak" THEN Higher(new.streak, e.n) ELSE new.streak
      /\ again.wool = IF role = "wool_place" THEN Faster(new.wool, e.n) ELSE new.wool
      /\ again.flag = IF role = "flag_place" THEN Faster(new.flag, e.n) ELSE new.flag
      /\ again.kills = IF role = "match_end" THEN Higher(new.kills, stats["kills"]) ELSE new.kills
      /\ again.deaths = IF role = "match_end" THEN Higher(new.deaths, stats["deaths"])
                        ELSE new.deaths
  BY <1>1, MapRecordsAre
<1> HIDE DEF again
<1>3. /\ \A x \in Time, n \in Nat : /\ Faster(x, n) \in 0 .. n
                                    /\ x # NoRecord => Faster(x, n) \in 0 .. x
                                    /\ Faster(Faster(x, n), n) = Faster(x, n)
      /\ \A x \in Time, n \in Time : /\ Higher(x, n) >= x /\ Higher(x, n) >= n
                                     /\ Higher(Higher(x, n), n) = Higher(x, n)
  BY DEF Faster, Higher, Time, NoRecord
<1>4. Nat \subseteq Time  BY DEF Time
<1>5. /\ Meets("blood", new.blood, old.blood) /\ Meets("wool", new.wool, old.wool)
      /\ Meets("flag", new.flag, old.flag)
  <2>1. \A x \in Time : x # NoRecord => x \in 0 .. x  BY DEF Time, NoRecord
  <2> QED BY <1>0, <1>1, <1>3, <2>1, RecordsAre DEF Meets, Timed
<1>6. /\ new.projectile >= old.projectile /\ new.streak >= old.streak
      /\ new.kills >= old.kills /\ new.deaths >= old.deaths
  <2>1. \A x \in Time : x >= x  BY DEF Time, NoRecord
  <2>2. /\ \A x \in {old.projectile, old.streak, old.kills, old.deaths} : x \in Time
        /\ \A n \in {e.distance, e.n, stats["kills"], stats["deaths"]} : n \in Time
    BY <1>0, <1>4, RecordsAre
  <2>3. new.projectile >= old.projectile  BY <1>1, <1>3, <2>1, <2>2
  <2>4. new.streak >= old.streak  BY <1>1, <1>3, <2>1, <2>2
  <2>5. new.kills >= old.kills  BY <1>1, <1>3, <2>1, <2>2
  <2>6. new.deaths >= old.deaths  BY <1>1, <1>3, <2>1, <2>2
  <2> QED BY <2>3, <2>4, <2>5, <2>6
<1>7. Covers(new, old)
  BY <1>5, <1>6, RecordNames DEF Covers, Meets, Timed
<1>8. \A r \in DOMAIN NoRecords : again[r] = new[r]
  <2>1. /\ \A x \in {old.blood, old.wool, old.flag} : x \in Time
        /\ e.n \in Nat
    BY <1>0, RecordsAre
  <2>b. again.blood = new.blood  BY <1>1, <1>2, <1>3, <2>1
  <2>w. again.wool = new.wool  BY <1>1, <1>2, <1>3, <2>1
  <2>f. again.flag = new.flag  BY <1>1, <1>2, <1>3, <2>1
  <2>2. /\ \A x \in {old.projectile, old.streak, old.kills, old.deaths} : x \in Time
        /\ \A n \in {e.distance, e.n, stats["kills"], stats["deaths"]} : n \in Time
    BY <1>0, <1>4, RecordsAre
  <2>3. again.projectile = new.projectile  BY <1>1, <1>2, <1>3, <2>2
  <2>4. again.streak = new.streak  BY <1>1, <1>2, <1>3, <2>2
  <2>5. again.kills = new.kills  BY <1>1, <1>2, <1>3, <2>2
  <2>6. again.deaths = new.deaths  BY <1>1, <1>2, <1>3, <2>2
  <2> QED BY <2>b, <2>w, <2>f, <2>3, <2>4, <2>5, <2>6, RecordNames
<1>9. again = new  BY <1>1, <1>2, <1>8, RecordsEqual
<1> QED BY <1>7, <1>9 DEF new, again

\* Records that have heard an event meet what others make of it.
LEMMA HeardRecordsMeet ==
  ASSUME NEW best \in Records, NEW old \in Records, NEW e \in Event, NEW role, NEW crowd,
         NEW stats \in Statistic, MapRecords(best, e, role, crowd, stats) = best
  PROVE  \A r \in DOMAIN NoRecords :
           LET new == MapRecords(old, e, role, crowd, stats)
           IN  new[r] = old[r] \/ Meets(r, best[r], new[r])
<1> DEFINE new == MapRecords(old, e, role, crowd, stats)
<1>0. /\ stats["kills"] \in Nat /\ stats["deaths"] \in Nat /\ e.n \in Nat /\ e.distance \in Time
  BY CounterHas DEF Statistic, Event, Time, NoDistance, NoRecord
<1>1. /\ new \in Records
      /\ new.blood = IF role = "kill" /\ e.blood THEN Faster(old.blood, e.n) ELSE old.blood
      /\ new.projectile = IF role = "kill" /\ Projectile(e) /\ crowd >= Crowd
                          THEN Higher(old.projectile, e.distance) ELSE old.projectile
      /\ new.streak = IF role = "killstreak" THEN Higher(old.streak, e.n) ELSE old.streak
      /\ new.wool = IF role = "wool_place" THEN Faster(old.wool, e.n) ELSE old.wool
      /\ new.flag = IF role = "flag_place" THEN Faster(old.flag, e.n) ELSE old.flag
      /\ new.kills = IF role = "match_end" THEN Higher(old.kills, stats["kills"]) ELSE old.kills
      /\ new.deaths = IF role = "match_end" THEN Higher(old.deaths, stats["deaths"])
                      ELSE old.deaths
  BY MapRecordsAre
<1>2. /\ best.blood = IF role = "kill" /\ e.blood THEN Faster(best.blood, e.n) ELSE best.blood
      /\ best.projectile = IF role = "kill" /\ Projectile(e) /\ crowd >= Crowd
                          THEN Higher(best.projectile, e.distance) ELSE best.projectile
      /\ best.streak = IF role = "killstreak" THEN Higher(best.streak, e.n) ELSE best.streak
      /\ best.wool = IF role = "wool_place" THEN Faster(best.wool, e.n) ELSE best.wool
      /\ best.flag = IF role = "flag_place" THEN Faster(best.flag, e.n) ELSE best.flag
      /\ best.kills = IF role = "match_end" THEN Higher(best.kills, stats["kills"]) ELSE best.kills
      /\ best.deaths = IF role = "match_end" THEN Higher(best.deaths, stats["deaths"])
                       ELSE best.deaths
  BY MapRecordsAre
<1> HIDE DEF new
<1>3. /\ \A x \in Time, y \in Time, n \in Nat :
           y = Faster(y, n) => Faster(x, n) = x \/ y \in 0 .. Faster(x, n)
      /\ \A x \in Time, y \in Time, n \in Time :
           y = Higher(y, n) => Higher(x, n) = x \/ y >= Higher(x, n)
  BY DEF Faster, Higher, Time, NoRecord
<1>4. Nat \subseteq Time  BY DEF Time
<1>5. /\ new.blood = old.blood \/ Meets("blood", best.blood, new.blood)
      /\ new.wool = old.wool \/ Meets("wool", best.wool, new.wool)
      /\ new.flag = old.flag \/ Meets("flag", best.flag, new.flag)
  BY <1>0, <1>1, <1>2, <1>3, RecordsAre DEF Meets, Timed
<1>6. /\ new.projectile = old.projectile \/ Meets("projectile", best.projectile, new.projectile)
      /\ new.streak = old.streak \/ Meets("streak", best.streak, new.streak)
      /\ new.kills = old.kills \/ Meets("kills", best.kills, new.kills)
      /\ new.deaths = old.deaths \/ Meets("deaths", best.deaths, new.deaths)
  BY <1>0, <1>1, <1>2, <1>3, <1>4, RecordsAre DEF Meets, Timed
<1> QED BY <1>5, <1>6, RecordNames DEF new

\* A plugin that ends each match before the next, on a connection that holds
Quiet == ~mode.mayDie /\ mode.orderly

Playing == Quiet => (pc # "idle" /\ ev.kind # "match_end" => match.state = "InProgress")

LEMMA InitPlaying == Init => Playing
  BY DEF Init, Playing

LEMMA NextPlaying ==
  ASSUME TypeOK, Shape, Playing, [Next]_vars
  PROVE  Playing'
<1> SUFFICES ASSUME Quiet', pc' # "idle", ev'.kind # "match_end"
             PROVE  match'.state = "InProgress"
  BY DEF Playing
<1>q. Quiet  BY Steps DEF Quiet, Starts, Begins, Multiplies, Speaks, Skips, BreaksOff, Listens, vars
<1>1. CASE UNCHANGED vars \/ Multiplies
  BY <1>q, <1>1 DEF Playing, Multiplies, vars, stores, local
<1>2. CASE Starts \/ BreaksOff
  BY <1>2 DEF Starts, OnMatchStart, BreaksOff, Forget
<1>3. CASE Begins
  BY <1>q, <1>3 DEF Begins, Quiet, stores
<1>4. ASSUME NEW s \in queue, Speaks(s) \/ Skips(s) PROVE match'.state = "InProgress"
  BY <1>q, <1>4 DEF Speaks, Skips, stores, Playing
<1>5. ASSUME NEW s \in queue, ListenAsParticipant(s) PROVE match'.state = "InProgress"
  <2>1. pc = "next" /\ ev' = ev  BY <1>5 DEF ListenAsParticipant
  <2>2. match.state = "InProgress" /\ hand.state = match.state  BY <1>q, <2>1 DEF Playing, Shape
  <2> QED BY <1>5, <2>2, Listening
<1>6. CASE ListenAsBoard \/ ListenAsPlayer \/ SetPlayer \/ SaveLevel
  BY <1>q, <1>6 DEF ListenAsBoard, ListenAsPlayer, SetPlayer, SaveLevel, local, Playing
<1>7. CASE SetMatch  BY <1>7 DEF SetMatch, Forget
<1> QED BY <1>1, <1>2, <1>3, <1>4, <1>5, <1>6, <1>7, Steps DEF Listens

\* A match has the records of its level or better ones, which the level gets
\* when the match is over.
LevelInv ==
  Quiet =>
    /\ match # NoMatch => Covers(match.records, level[match.level])
    /\ match # NoMatch /\ match.state = "Post" /\ pc = "idle" =>
         level[match.level] = match.records
    /\ pc = "match" => level[match.level] = match.records

LEMMA InitLevelInv == Init => LevelInv
  BY DEF Init, LevelInv

\* The records are written with those of the new participant.
LEMMA ListensRecords ==
  ASSUME TypeOK, Shape, NEW s \in queue, ListenAsParticipant(s)
  PROVE  /\ match # NoMatch /\ match' # NoMatch
         /\ match'.level = match.level /\ match'.records = hand'.records
         /\ match.records \in Records /\ hand.records = match.records
         /\ Covers(match'.records, match.records)
<1>1. pc = "next" /\ hand # NoMatch /\ match # NoMatch  BY Listening DEF TypeOK
<1>2. hand.records = match.records /\ hand.level = match.level  BY <1>1 DEF Shape
<1>3. match.records \in Records  BY <1>1, MatchIs, MatchDocIs
<1>4. ev \in Event /\ Listened(s).stats \in Statistic  BY Listening DEF TypeOK, ParticipantDoc
<1>5. Covers(hand'.records, hand.records)
  BY <1>2, <1>3, <1>4, Listening, MapRecordsCover
<1>6. CASE s.role \in InterimRoles  BY <1>1, <1>2, <1>3, <1>5, <1>6, Listening
<1>7. CASE s.role \notin InterimRoles  BY <1>1, <1>2, <1>3, <1>5, <1>7, Listening
<1> QED BY <1>6, <1>7

LEMMA NextLevelInv ==
  ASSUME TypeOK, Shape, Playing, LevelInv, [Next]_vars
  PROVE  LevelInv'
<1> SUFFICES ASSUME Quiet' PROVE LevelInv'  BY DEF LevelInv
<1>q. Quiet /\ UNCHANGED mode
  BY Steps DEF Quiet, Starts, Begins, Multiplies, Speaks, Skips, BreaksOff, Listens, vars
<1>l. level \in [Levels -> Records]  BY DEF TypeOK
<1>1. CASE UNCHANGED vars \/ Multiplies
  BY <1>q, <1>1 DEF LevelInv, Multiplies, vars, stores, local
<1>2. CASE Starts
  <2> PICK l \in mode.levels, r \in mode.rosters : OnMatchStart(l, r)  BY <1>2 DEF Starts
  <2>1. match'.level = l /\ match'.records = level[l] /\ match'.state = "InProgress"
    BY <1>q, OnMatchStartType
  <2>2. level' = level /\ pc' = "idle"  BY DEF OnMatchStart
  <2>3. l \in Levels  BY ModeFacts DEF TypeOK
  <2>4. Covers(level[l], level[l])  BY <1>l, <2>3, RecordsAre
  <2> QED BY <2>1, <2>2, <2>4 DEF LevelInv
<1>3. CASE Begins
  BY <1>q, <1>3 DEF Begins, LevelInv, stores
<1>4. ASSUME NEW s \in queue, Speaks(s) \/ Skips(s) PROVE LevelInv'
  BY <1>q, <1>4 DEF Speaks, Skips, stores, LevelInv
<1>5. CASE BreaksOff
  <2>1. UNCHANGED <<match, level>> /\ pc' = "idle" /\ pc = "next"
        /\ \E s \in queue : ~Present(s.who)
    BY <1>q, <1>5 DEF BreaksOff, Forget, stores, Quiet
  <2>2. ev.kind # "match_end"  BY <2>1 DEF Shape, Ending, Present
  <2>3. match.state = "InProgress"  BY <1>q, <2>1, <2>2 DEF Playing
  <2> QED BY <1>q, <2>1, <2>3 DEF LevelInv
<1>6. ASSUME NEW s \in queue, ListenAsParticipant(s) PROVE LevelInv'
  <2>1. level' = level /\ pc' = "board"  BY <1>6 DEF ListenAsParticipant
  <2>2. /\ match # NoMatch /\ match'.level = match.level /\ match.records \in Records
        /\ Covers(match'.records, match.records) /\ match.level \in Levels
        /\ match'.records \in Records
    <3>1. match # NoMatch  BY <1>6, ListensRecords
    <3>2. match.level \in Levels  BY <3>1, MatchIs, MatchDocIs
    <3>3. hand'.records \in Records  BY <1>6, Listening DEF MatchDoc
    <3> QED BY <1>6, <3>2, <3>3, ListensRecords
  <2>3. Covers(match.records, level[match.level])  BY <1>q, <2>2 DEF LevelInv
  <2>4. Covers(match'.records, level[match.level])
    <3>1. level[match.level] \in Records  BY <1>l, <2>2
    <3> QED BY <2>2, <2>3, <3>1, RecordsAre, MeetsTransitive DEF Covers
  <2> QED BY <2>1, <2>2, <2>4 DEF LevelInv
<1>7. CASE ListenAsBoard \/ ListenAsPlayer \/ SetPlayer
  <2>1. UNCHANGED <<match, level>> /\ pc' \notin {"idle", "match"}
    BY <1>7 DEF ListenAsBoard, ListenAsPlayer, SetPlayer
  <2> QED BY <1>q, <2>1 DEF LevelInv
<1>8. CASE SaveLevel
  <2>1. /\ pc = "next" /\ pc' = "match" /\ match' = match /\ match # NoMatch /\ hand # NoMatch
        /\ level' = [level EXCEPT ![hand.level] = hand.records]
    BY <1>8 DEF SaveLevel, TypeOK
  <2>2. hand.level = match.level /\ hand.records = match.records  BY <2>1 DEF Shape
  <2>3. match.level \in Levels /\ match.records \in Records  BY <2>1, MatchIs, MatchDocIs
  <2>4. level'[match.level] = match.records  BY <1>l, <2>1, <2>2, <2>3
  <2> QED BY <2>1, <2>3, <2>4, RecordsAre DEF LevelInv
<1>9. CASE SetMatch
  <2>1. /\ match' = hand /\ level' = level /\ pc # "idle" /\ pc' = "idle" /\ match # NoMatch
        /\ pc = "match" \/ ev.kind # "match_end"
    BY <1>9 DEF SetMatch, Forget, TypeOK
  <2>2. hand.level = match.level /\ hand.records = match.records  BY <2>1 DEF Shape
  <2>3. ev.kind # "match_end" => hand.state = "InProgress"
    BY <1>q, <2>1 DEF Shape, Playing
  <2> QED BY <1>q, <2>1, <2>2, <2>3 DEF LevelInv
<1> QED BY <1>1, <1>2, <1>3, <1>4, <1>5, <1>6, <1>7, <1>8, <1>9, Steps DEF Listens

\* Those who serve somebody come after MapRecordListener, which has heard the
\* event already.
Crew(p) == IF p \in DOMAIN hand.participants THEN hand.participants[p].stats ELSE Zero

Heard ==
  pc \in {"board", "player"} =>
    MapRecords(hand.records, ev, subject.role, Cardinality(DOMAIN hand.participants),
               Crew(subject.who)) = hand.records

LEMMA InitHeard == Init => Heard
  BY DEF Init, Heard

LEMMA NextHeard ==
  ASSUME TypeOK, Shape, Heard, [Next]_vars
  PROVE  Heard'
<1>1. CASE UNCHANGED vars \/ Multiplies
  BY <1>1 DEF Heard, Crew, Multiplies, vars, stores, local
<1>2. CASE Starts \/ Begins \/ BreaksOff \/ \E s \in queue : Skips(s)
  BY <1>2 DEF Heard, Starts, OnMatchStart, Begins, BreaksOff, Forget, Skips
<1>3. ASSUME NEW s \in queue, Speaks(s) PROVE Heard'
  <2>1. subject'.role = "chat" /\ UNCHANGED <<hand, ev>>  BY <1>3 DEF Speaks
  <2> QED BY <2>1 DEF Heard, MapRecords
<1>4. ASSUME NEW s \in queue, ListenAsParticipant(s) PROVE Heard'
  <2> DEFINE roster == DOMAIN hand.participants
             stats == Listened(s).stats
             new == MapRecords(hand.records, ev, s.role, Cardinality(roster), stats)
  <2>1. /\ pc = "next" /\ ev' = ev /\ subject' = s /\ hand # NoMatch /\ ServiceOf(s, ev)
        /\ ev \in Event /\ stats \in Statistic
        /\ hand'.records = new /\ hand'.participants[s.who] = Listened(s)
        /\ DOMAIN hand'.participants = roster \cup {s.who}
    BY <1>4, Listening DEF ListenAsParticipant, Shape, TypeOK, ParticipantDoc
  <2>2. Crew(s.who)' = stats  BY <2>1 DEF Crew
  <2>3. hand.records \in Records  BY <2>1, HandIs, MatchDocIs
  <2>4. MapRecords(new, ev, s.role, Cardinality(roster), stats) = new
    BY <2>1, <2>3, MapRecordsCover
  <2>5. MapRecords(new, ev, s.role, Cardinality(DOMAIN hand'.participants), stats) = new
    <3>1. CASE ev.kind = "match_end"
      <4>1. s.role = "match_end"  BY <2>1, <3>1 DEF ServiceOf
      <4> HIDE DEF new, stats, roster
      <4> QED BY <2>4, <4>1 DEF MapRecords
    <3>2. CASE ev.kind # "match_end"
      <4>1. Present(s.who)  BY <1>4, Listening
      <4>2. s.who \in roster  BY <3>2, <4>1 DEF Present
      <4>3. DOMAIN hand'.participants = roster  BY <2>1, <4>2
      <4> QED BY <2>4, <4>3
    <3> QED BY <3>1, <3>2
  <2> HIDE DEF new, stats
  <2>6. Crew(subject.who)' = stats  BY <2>1, <2>2 DEF Crew
  <2> QED BY <2>1, <2>5, <2>6 DEF Heard
<1>5. CASE ListenAsBoard
  BY <1>5 DEF ListenAsBoard, Heard, Crew, local
<1>6. CASE ListenAsPlayer \/ SetPlayer \/ SaveLevel \/ SetMatch
  BY <1>6 DEF ListenAsPlayer, SetPlayer, SaveLevel, SetMatch, Forget, Heard
<1> QED BY <1>1, <1>2, <1>3, <1>4, <1>5, <1>6, Steps DEF Listens

\* The records that count once matches are over
Sources == {level[l] : l \in Levels} \cup {IF match = NoMatch THEN NoRecords ELSE match.records}

Reached(r, x) == \E s \in Sources : Meets(r, s[r], x)

RecordInv ==
  Quiet =>
    /\ \A p \in Player : /\ \A r \in DOMAIN NoRecords \ {"streak"} : Reached(r, profile[p].records[r])
                         /\ Reached("streak", streak[p])
    /\ pc = "save" => \A r \in DOMAIN NoRecords \ {"streak"} : Reached(r, prof.records[r])

LEMMA SourcesAre == TypeOK => Sources \subseteq Records
  BY NoRecordsType, MatchIs, MatchDocIs DEF Sources, TypeOK

LEMMA SourcesNext == (TypeOK => Sources \subseteq Records)'
  BY SourcesAre, PTL

LEMMA SameSources == ASSUME UNCHANGED <<match, level>> PROVE Sources' = Sources
  BY DEF Sources

LEMMA InitRecordInv == Init => RecordInv
<1> SUFFICES ASSUME Init PROVE RecordInv  OBVIOUS
<1>1. Covers(NoRecords, NoRecords)  BY NoRecordsType, RecordsAre
<1>2. NoRecords \in Sources  BY DEF Init, Sources
<1>3. \A r \in DOMAIN NoRecords : Reached(r, NoRecords[r])
  BY <1>1, <1>2 DEF Reached, Covers
<1>4. "streak" \in DOMAIN NoRecords /\ NoRecords["streak"] = 0  BY DEF NoRecords
<1>5. Reached("streak", 0)  BY <1>3, <1>4
<1> QED BY <1>3, <1>5 DEF Init, RecordInv, NewPlayer

\* What counts gets better only.
LEMMA NextSources ==
  ASSUME TypeOK, Shape, LevelInv, Quiet, [Next]_vars, NEW s \in Sources
  PROVE  \E t \in Sources' : Covers(t, s)
<1>0. s \in Records /\ Covers(s, s)  BY SourcesAre, RecordsAre
<1>1. CASE UNCHANGED <<match, level>>
  BY <1>0, <1>1, SameSources
<1>2. CASE Starts
  <2> PICK l \in mode.levels, r \in mode.rosters : OnMatchStart(l, r)  BY <1>2 DEF Starts
  <2>0. l \in Levels /\ level' = level /\ level[l] \in Records
        /\ (match # NoMatch => match.state = "Post" /\ match.level \in Levels) /\ pc = "idle"
    BY ModeFacts, MatchIs, MatchDocIs DEF OnMatchStart, TypeOK, Quiet
  <2>1. {level[k] : k \in Levels} \subseteq Sources'  BY <2>0 DEF Sources
  <2>2. CASE s \in {level[k] : k \in Levels}  BY <1>0, <2>1, <2>2
  <2>3. CASE match # NoMatch /\ s = match.records
    <3>1. s = level[match.level] /\ match.level \in Levels  BY <2>0, <2>3 DEF LevelInv
    <3>2. s \in {level[k] : k \in Levels}  BY <3>1
    <3> QED BY <1>0, <2>1, <3>2
  <2>4. CASE s = NoRecords
    <3>1. Covers(level[l], s)  BY <2>0, <2>4, RecordsAre
    <3> QED BY <2>0, <2>1, <3>1
  <2> QED BY <2>2, <2>3, <2>4 DEF Sources
<1>3. ASSUME NEW u \in queue, ListenAsParticipant(u)
      PROVE  \E t \in Sources' : Covers(t, s)
  <2>1. level' = level  BY <1>3 DEF ListenAsParticipant
  <2>2. /\ match # NoMatch /\ match' # NoMatch /\ Covers(match'.records, match.records)
    BY <1>3, ListensRecords
  <2>3. s \in {level[l] : l \in Levels} \/ s = match.records  BY <2>2 DEF Sources
  <2>4. {level[l] : l \in Levels} \subseteq Sources' /\ match'.records \in Sources'
    BY <2>1, <2>2 DEF Sources
  <2> QED BY <1>0, <2>2, <2>3, <2>4
<1>4. CASE SaveLevel
  <2>1. /\ pc = "next" /\ match' = match /\ match # NoMatch /\ hand # NoMatch
        /\ level' = [level EXCEPT ![hand.level] = hand.records]
    BY <1>4 DEF SaveLevel, TypeOK
  <2>2. hand.records = match.records /\ hand.level = match.level  BY <2>1 DEF Shape
  <2>3. match.records \in Sources'  BY <2>1 DEF Sources
  <2>4. CASE s = match.records  BY <1>0, <2>3, <2>4
  <2>5. ASSUME NEW l \in Levels, s = level[l] PROVE \E t \in Sources' : Covers(t, s)
    <3>1. CASE l = match.level
      <4>1. Covers(match.records, s)  BY <2>1, <2>5, <3>1 DEF LevelInv
      <4> QED BY <2>3, <4>1
    <3>2. CASE l # match.level
      <4>1. level'[l] = s  BY <2>1, <2>2, <2>5, <3>2 DEF TypeOK
      <4>2. s \in Sources'  BY <4>1 DEF Sources
      <4> QED BY <1>0, <4>2
    <3> QED BY <3>1, <3>2
  <2> QED BY <2>1, <2>4, <2>5 DEF Sources
<1>5. CASE SetMatch
  <2>1. /\ match' = hand /\ level' = level /\ pc # "idle" /\ match # NoMatch /\ hand # NoMatch
    BY <1>5 DEF SetMatch, TypeOK
  <2>2. hand.records = match.records  BY <2>1 DEF Shape
  <2>3. Sources' = Sources  BY <2>1, <2>2 DEF Sources
  <2> QED BY <1>0, <2>3
<1> QED
  BY <1>1, <1>2, <1>3, <1>4, <1>5, Steps
  DEF Listens, Multiplies, Begins, Speaks, Skips, BreaksOff, ListenAsBoard, ListenAsPlayer,
      SetPlayer, vars, stores

LEMMA ReachedStays ==
  ASSUME TypeOK, TypeOK', Shape, LevelInv, Quiet, [Next]_vars,
         NEW r \in DOMAIN NoRecords, NEW x \in Time, Reached(r, x)
  PROVE  Reached(r, x)'
<1>1. PICK s \in Sources : Meets(r, s[r], x)  BY DEF Reached
<1>2. PICK t \in Sources' : Covers(t, s)  BY NextSources
<1>3. s[r] \in Time /\ t[r] \in Time  BY SourcesAre, SourcesNext, RecordsAre
<1>4. Meets(r, t[r], x)  BY <1>1, <1>2, <1>3, MeetsTransitive DEF Covers
<1> QED BY <1>4 DEF Reached, Meets

\* The copy of a player that has heard the event, and the highest killstreak
LEMMA ListenedReached ==
  ASSUME TypeOK, Shape, Heard, RecordInv, Quiet, ListenAsPlayer
  PROVE  \A r \in DOMAIN NoRecords \ {"streak"} : Reached(r, prof'.records[r])
<1> DEFINE p == subject.who
           d == profile[p]
           role == subject.role
           crowd == Cardinality(DOMAIN hand.participants)
           best == hand.records
<1>1. /\ p \in Player /\ hand # NoMatch /\ ev \in Event /\ multiplier \in Nat /\ d \in PlayerDoc
      /\ prof' = ListenPlayer(d, hand, p, ev, role) /\ match # NoMatch /\ pc = "player"
  BY ListenAsPlayerIs DEF TypeOK
<1>2. hand \in MatchDoc(DOMAIN hand.participants) /\ DOMAIN hand.participants \in SUBSET Player
  BY <1>1, HandIs
<1>3. best = match.records /\ best \in Records /\ best \in Sources
  BY <1>1, <1>2, MatchDocIs DEF Shape, Sources
<1>4. MapRecords(best, ev, role, crowd, Crew(p)) = best  BY <1>1 DEF Heard
<1>5. d.records \in Records  BY <1>1 DEF PlayerDoc
<1>6. \A r \in DOMAIN NoRecords \ {"streak"} : Reached(r, d.records[r])
  BY <1>1 DEF RecordInv
<1> SUFFICES ASSUME NEW r \in DOMAIN NoRecords \ {"streak"} PROVE Reached(r, prof'.records[r])
  OBVIOUS
<1> HIDE DEF d, role, p, best
<1>7. Crew(p) \in Statistic
  BY <1>1, <1>2, MatchDocIs, ZeroIs DEF Crew, ParticipantDoc
<1>8. prof'.records = IF Tracking(hand) THEN PlayerRecords(d.records, ev, role, crowd, Crew(p))
                                        ELSE d.records
  BY <1>1 DEF ListenPlayer, Crew
<1>9. CASE ~Tracking(hand)  BY <1>6, <1>8, <1>9
<1>10. CASE Tracking(hand)
  <2> DEFINE new == MapRecords(d.records, ev, role, crowd, Crew(p))
  <2>1. prof'.records[r] = new[r]
    BY <1>1, <1>5, <1>7, <1>8, <1>10, PlayerRecordsAre
  <2>2. new[r] = d.records[r] \/ Meets(r, best[r], new[r])
    BY <1>1, <1>3, <1>4, <1>5, <1>7, HeardRecordsMeet
  <2> HIDE DEF new
  <2>3. Reached(r, new[r])  BY <1>3, <1>6, <2>2 DEF Reached
  <2> QED BY <2>1, <2>3
<1> QED BY <1>9, <1>10

LEMMA StreakReached ==
  ASSUME TypeOK, Shape, Heard, RecordInv, Quiet, ListenAsBoard, NEW p \in Player
  PROVE  Reached("streak", streak'[p])
<1>1. /\ pc = "board" /\ hand # NoMatch /\ match # NoMatch /\ ev \in Event
      /\ streak[p] \in Nat /\ ev.n \in Nat /\ Reached("streak", streak[p])
  BY ListenAsBoardIs DEF TypeOK, Event, RecordInv
<1>2. CASE streak'[p] = streak[p]  BY <1>1, <1>2
<1>3. CASE streak'[p] # streak[p]
  <2>1. p = subject.who /\ subject.role = "killstreak" /\ streak'[p] = Higher(streak[p], ev.n)
    BY <1>3, ListenAsBoardIs
  <2>2. hand.records \in Records /\ hand.records = match.records
    BY <1>1, HandIs, MatchDocIs DEF Shape
  <2>3. hand.records \in Sources  BY <1>1, <2>2 DEF Sources
  <2>4. hand.records.streak >= ev.n
    <3>1. [hand.records EXCEPT !.streak = Higher(@, ev.n)] = hand.records
      BY <1>1, <2>1 DEF Heard, MapRecords
    <3>2. hand.records.streak = Higher(hand.records.streak, ev.n)  BY <2>2, <3>1 DEF Records
    <3>3. hand.records.streak \in Nat  BY <2>2, RecordsAre
    <3> QED BY <1>1, <3>2, <3>3 DEF Higher
  <2>5. streak'[p] = ev.n  BY <1>3, <2>1 DEF Higher
  <2>6. Meets("streak", hand.records["streak"], streak'[p])
    BY <2>4, <2>5 DEF Meets, Timed
  <2> QED BY <2>3, <2>6 DEF Reached
<1> QED BY <1>2, <1>3

LEMMA NextRecordInv ==
  ASSUME TypeOK, Shape, LevelInv, Heard, RecordInv, [Next]_vars
  PROVE  RecordInv'
<1> SUFFICES ASSUME Quiet' PROVE RecordInv'  BY DEF RecordInv
<1>q. Quiet /\ UNCHANGED mode
  BY Steps DEF Quiet, Starts, Begins, Multiplies, Speaks, Skips, BreaksOff, Listens, vars
<1>t. TypeOK'  BY NextTypeOK
<1>n. /\ \A p \in Player : /\ \A r \in DOMAIN NoRecords : profile[p].records[r] \in Time
                           /\ streak[p] \in Time
      /\ pc = "save" => \A r \in DOMAIN NoRecords : prof.records[r] \in Time
      /\ "streak" \in DOMAIN NoRecords
  BY RecordsAre, RecordNames DEF TypeOK, PlayerDoc, Time
<1>r. \A r \in DOMAIN NoRecords, x \in Time : Reached(r, x) => Reached(r, x)'
  BY <1>q, <1>t, ReachedStays
<1>p. \A p \in Player : \A r \in DOMAIN NoRecords \ {"streak"} : Reached(r, profile[p].records[r])
  BY <1>q DEF RecordInv
<1>k. \A p \in Player : Reached("streak", streak[p])  BY <1>q DEF RecordInv
<1>1. CASE ListenAsBoard
  <2>0. UNCHANGED <<match, level, profile>> /\ pc' = "player"  BY <1>1 DEF ListenAsBoard
  <2>1. Sources' = Sources  BY <2>0, SameSources
  <2>2. \A p \in Player : Reached("streak", streak'[p])  BY <1>q, <1>1, StreakReached
  <2>3. \A p \in Player : Reached("streak", streak[p])'
    BY <2>1, <2>2 DEF Reached, Meets
  <2>4. \A p \in Player : \A r \in DOMAIN NoRecords \ {"streak"} : Reached(r, profile[p].records[r])'
    BY <1>p, <2>0, <2>1 DEF Reached, Meets
  <2> QED BY <2>0, <2>3, <2>4 DEF RecordInv
<1>2. CASE ListenAsPlayer
  <2>0. UNCHANGED <<match, level, profile, streak>>  BY <1>2 DEF ListenAsPlayer
  <2>1. Sources' = Sources  BY <2>0, SameSources
  <2>2. \A r \in DOMAIN NoRecords \ {"streak"} : Reached(r, prof'.records[r])
    BY <1>q, <1>2, ListenedReached
  <2>3. \A r \in DOMAIN NoRecords \ {"streak"} : Reached(r, prof.records[r])'
    BY <2>1, <2>2 DEF Reached, Meets
  <2>4. \A p \in Player : Reached("streak", streak[p])'
    BY <1>k, <2>0, <2>1 DEF Reached, Meets
  <2>5. \A p \in Player : \A r \in DOMAIN NoRecords \ {"streak"} : Reached(r, profile[p].records[r])'
    BY <1>p, <2>0, <2>1 DEF Reached, Meets
  <2> QED BY <2>3, <2>4, <2>5 DEF RecordInv
<1>3. CASE SetPlayer
  <2>0. /\ UNCHANGED <<match, level, streak>> /\ pc = "save" /\ pc' = "next"
        /\ profile' = [profile EXCEPT ![subject.who] = prof]
    BY <1>3 DEF SetPlayer
  <2>1. Sources' = Sources  BY <2>0, SameSources
  <2>2. \A p \in Player : profile'[p] = profile[p] \/ profile'[p] = prof  BY <2>0 DEF TypeOK
  <2>3. \A p \in Player : \A r \in DOMAIN NoRecords \ {"streak"} : Reached(r, profile'[p].records[r])
    BY <1>q, <1>p, <2>0, <2>2 DEF RecordInv
  <2>4. \A p \in Player : \A r \in DOMAIN NoRecords \ {"streak"} : Reached(r, profile[p].records[r])'
    BY <2>1, <2>3 DEF Reached, Meets
  <2>5. \A p \in Player : Reached("streak", streak[p])'
    BY <1>k, <2>0, <2>1 DEF Reached, Meets
  <2> QED BY <2>0, <2>4, <2>5 DEF RecordInv
<1>4. CASE UNCHANGED <<profile, streak, prof>> /\ (pc' = "save" => pc = "save")
  <2>1. \A p \in Player : \A r \in DOMAIN NoRecords \ {"streak"} : Reached(r, profile[p].records[r])'
    BY <1>n, <1>r, <1>p, <1>4 DEF Reached, Meets
  <2>2. \A p \in Player : Reached("streak", streak[p])'
    BY <1>n, <1>r, <1>k, <1>4 DEF Reached, Meets
  <2>3. pc' = "save" => \A r \in DOMAIN NoRecords \ {"streak"} : Reached(r, prof.records[r])'
    BY <1>n, <1>r, <1>q, <1>4 DEF Reached, Meets, RecordInv
  <2> QED BY <2>1, <2>2, <2>3 DEF RecordInv
<1>5. CASE UNCHANGED <<profile, streak>> /\ pc' # "save"
  <2>1. \A p \in Player : \A r \in DOMAIN NoRecords \ {"streak"} : Reached(r, profile[p].records[r])'
    BY <1>n, <1>r, <1>p, <1>5 DEF Reached, Meets
  <2>2. \A p \in Player : Reached("streak", streak[p])'
    BY <1>n, <1>r, <1>k, <1>5 DEF Reached, Meets
  <2> QED BY <1>5, <2>1, <2>2 DEF RecordInv
<1>6. \/ ListenAsBoard \/ ListenAsPlayer \/ SetPlayer
      \/ UNCHANGED <<profile, streak, prof>> /\ (pc' = "save" => pc = "save")
      \/ UNCHANGED <<profile, streak>> /\ pc' # "save"
  BY Steps
  DEF Starts, OnMatchStart, Multiplies, Begins, Speaks, Skips, BreaksOff, Forget, Listens,
      ListenAsParticipant, SaveLevel, SetMatch, vars, stores, local
<1> QED BY <1>1, <1>2, <1>3, <1>4, <1>5, <1>6

-----------------------------------------------------------------------------
(* The books.                                                              *)

\* All that holds between any two steps, the shape of the documents apart
Books ==
  /\ Shape /\ PlayersGrow /\ EverybodyInv
  /\ BoardInv /\ LedgerInv /\ MessageInv /\ BloodInv /\ DuelInv
  /\ GamemodeInv /\ PluginInv
  /\ Playing /\ LevelInv /\ Heard /\ RecordInv

LEMMA InitBooks == Init => Books
  BY InitShape, InitPlayersGrow, InitEverybodyInv, InitBoardInv, InitLedgerInv, InitMessageInv,
     InitBloodInv, InitDuelInv, InitGamemodeInv, InitPluginInv, InitPlaying, InitLevelInv,
     InitHeard, InitRecordInv DEF Books

LEMMA NextBooks == TypeOK /\ Books /\ [Next]_vars => Books'
<1> SUFFICES ASSUME TypeOK, Books, [Next]_vars PROVE Books'  OBVIOUS
<1>1. Shape' /\ PlayersGrow'  BY NextShape, NextPlayersGrow DEF Books
<1>2. EverybodyInv'  BY NextEverybodyInv DEF Books
<1>3. BoardInv'  BY NextBoardInv DEF Books
<1>4. LedgerInv'  BY NextLedgerInv DEF Books
<1>5. MessageInv'  BY NextMessageInv DEF Books
<1>6. BloodInv'  BY NextBloodInv DEF Books
<1>7. DuelInv'  BY NextDuelInv DEF Books
<1>8. GamemodeInv' /\ PluginInv'  BY NextGamemodeInv, NextPluginInv DEF Books
<1>9. Playing' /\ LevelInv'  BY NextPlaying, NextLevelInv DEF Books
<1>10. Heard' /\ RecordInv'  BY NextHeard, NextRecordInv DEF Books
<1> QED BY <1>1, <1>2, <1>3, <1>4, <1>5, <1>6, <1>7, <1>8, <1>9, <1>10 DEF Books

LEMMA BooksAlways == Spec => []Books
<1>1. TypeOK /\ Books /\ [Next]_vars => Books'  BY NextBooks
<1> QED BY <1>1, InitBooks, TypeCorrect, PTL DEF Spec

\* Wherever a connection dies, and in whatever order listeners are served, the
\* books part one way only: the boards lead the players (LeaderboardListener
\* writes before Participant::set_player), but for messages, which reach a
\* board when the match ends; the players lead the matches; a match gives one
\* first blood, though it is counted after it is marked; and the kills and
\* deaths of a duel agree, though one is written before the other.
THEOREM BreaksOnlyLeaveOrder == Spec => []BreaksLeaveOrder
<1>1. TypeOK /\ Books => BreaksLeaveOrder
  <2> SUFFICES ASSUME TypeOK, Books PROVE BreaksLeaveOrder  OBVIOUS
  <2>1. BoardLeadsProfile  BY DEF Books, BoardInv, BoardLeadsProfile
  <2>2. MessagesReachTheBoardLast
    <3> SUFFICES ASSUME NEW p \in Player
                 PROVE  board[p]["messages"] <= profile[p].stats["messages"]
      BY DEF MessagesReachTheBoardLast
    <3>1. board[p]["messages"] + Owed(match, p) <= profile[p].stats["messages"]
      BY DEF Books, MessageInv
    <3>2. "messages" \in Counter  BY CounterHas
    <3>3. Owed(match, p) \in Nat  BY <3>2, BooksAre DEF Owed
    <3> QED BY <3>1, <3>2, <3>3, BooksAre
  <2>3. ProfileLeadsMatches  BY DEF Books, LedgerInv, ProfileLeadsMatches
  <2>4. OneFirstBloodPerMatch
    <3>1. Bloods \in Nat /\ rounds \in Nat  BY BloodsType DEF TypeOK
    <3>2. Bloods <= rounds  BY <3>1 DEF Books, BloodInv
    <3> QED BY <3>2, BloodsAre DEF OneFirstBloodPerMatch
  <2>5. DuelsMirror  BY DEF Books, DuelInv, MatchDuels, Mirror, DuelsMirror
  <2> QED BY <2>1, <2>2, <2>3, <2>4, <2>5 DEF BreaksLeaveOrder
<1> QED BY <1>1, BooksAlways, TypeCorrect, PTL

\* When handlers come to their end, what the listeners make of the same events
\* agrees: LeaderboardListener with PlayerStatListener, PlayerStatListener with
\* ParticipantStatListener and with the gamemodes, PlayerRecordListener with
\* MapRecordListener, and PlayerUpdateListener with what Redis has.
THEOREM BooksAlwaysBalance == Spec => []BooksBalance
<1>1. TypeOK /\ Books => BooksBalance
  <2> SUFFICES ASSUME TypeOK, Books PROVE BooksBalance  OBVIOUS
  <2>1. LedgersAgree
    <3> SUFFICES ASSUME pc = "idle", ~mode.mayDie, NEW p \in Player
                 PROVE  /\ \A c \in Ranked : board[p][c] = profile[p].stats[c]
                        /\ mode.rosters \subseteq {Player} =>
                             \A c \in Counter \ {"first_bloods", "first_bloods_suffered", "xp"} :
                               profile[p].stats[c] = past[p][c] + Held(match, p)[c]
      BY DEF LedgersAgree
    <3>1. ASSUME NEW c \in Ranked PROVE board[p][c] = profile[p].stats[c]
      <4>1. board[p][c] = Announced(p, c)  BY DEF Books, BoardInv
      <4> QED BY <4>1, RankedHas, BooksAre DEF Announced, Paid
    <3>2. ASSUME mode.rosters \subseteq {Player},
                 NEW c \in Counter \ {"first_bloods", "first_bloods_suffered", "xp"}
          PROVE  profile[p].stats[c] = past[p][c] + Held(match, p)[c]
      <4>1. Paid(p)[c] + Due(p, c) = past[p][c] + Kept(p)[c]
        BY <3>2 DEF Books, LedgerInv, Everybody
      <4>2. Paid(p)[c] = profile[p].stats[c] /\ Due(p, c) = 0 /\ Kept(p)[c] = Held(match, p)[c]
        BY DEF Paid, Due, Kept
      <4> QED BY <4>1, <4>2, BooksAre
    <3> QED BY <3>1, <3>2
  <2>2. GamemodesAccountFor
    <3> SUFFICES ASSUME {} \notin mode.levels, NEW p \in Player, NEW c \in Accounted
                 PROVE  profile[p].stats[c]
                          <= MapThenSumSet(LAMBDA g : profile[p].gamemodes[g][c],
                                           Gamemode \ {"ARCADE"})
      BY DEF GamemodesAccountFor, Accounted
    <3> DEFINE count(g) == profile[p].gamemodes[g][c]
    <3>1. profile[p].stats[c] <= Total(Lines(profile[p], c))
      BY DEF Books, GamemodeInv, Accounts
    <3>2. Lines(profile[p], c) = [g \in Tracked |-> count(g)]
      BY DEF Lines
    <3> HIDE DEF count
    <3>3. \A G : MapThenSumSet(LAMBDA g : count(g), G) = Total([g \in G |-> count(g)])
      BY ZenonT(60) DEF MapThenSumSet, MapThenFoldSet, Total, Adds, Pick
    <3>4. MapThenSumSet(LAMBDA g : count(g), Gamemode \ {"ARCADE"}) = Total(Lines(profile[p], c))
      BY <3>2, <3>3 DEF Tracked
    <3>5. profile[p].stats[c] <= MapThenSumSet(LAMBDA g : count(g), Gamemode \ {"ARCADE"})
      BY <3>1, <3>4
    <3> QED BY <3>5 DEF count
  <2>3. PluginInStep  BY DEF Books, PluginInv, PluginInStep
  <2>4. LevelsCoverPlayers
    <3> SUFFICES ASSUME pc = "idle", ~mode.mayDie, mode.orderly, match # NoMatch,
                        match.state = "Post", NEW p \in Player
                 PROVE  /\ \A r \in {"projectile", "kills", "deaths"} :
                             \E l \in Levels : level[l][r] >= profile[p].records[r]
                        /\ \A r \in Timed :
                             profile[p].records[r] # NoRecord =>
                               \E l \in Levels : level[l][r] \in 0 .. profile[p].records[r]
                        /\ \E l \in Levels : level[l].streak >= streak[p]
      BY DEF LevelsCoverPlayers, Timed
    <3>1. level[match.level] = match.records /\ match.level \in Levels
      BY MatchIs, MatchDocIs DEF Books, LevelInv, Quiet
    <3>2. ASSUME NEW r, NEW x, Reached(r, x) PROVE \E l \in Levels : Meets(r, level[l][r], x)
      BY <3>1, <3>2 DEF Reached, Sources
    <3>3. /\ \A r \in DOMAIN NoRecords \ {"streak"} : Reached(r, profile[p].records[r])
          /\ Reached("streak", streak[p])
      BY DEF Books, RecordInv, Quiet
    <3>4. ASSUME NEW r \in {"projectile", "kills", "deaths"}
          PROVE  \E l \in Levels : level[l][r] >= profile[p].records[r]
      BY <3>2, <3>3, RecordNames DEF Meets, Timed
    <3>5. ASSUME NEW r \in Timed, profile[p].records[r] # NoRecord
          PROVE  \E l \in Levels : level[l][r] \in 0 .. profile[p].records[r]
      BY <3>2, <3>3, <3>5, RecordNames DEF Meets, Timed
    <3>6. \E l \in Levels : level[l].streak >= streak[p]
      BY <3>2, <3>3 DEF Meets, Timed
    <3> QED BY <3>4, <3>5, <3>6
  <2> QED BY <2>1, <2>2, <2>3, <2>4 DEF BooksBalance
<1> QED BY <1>1, BooksAlways, TypeCorrect, PTL
=============================================================================

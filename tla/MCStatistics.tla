---------------------------- MODULE MCStatistics ----------------------------
(* An instance of Statistics for TLC. *)
EXTENDS Statistics, TLC

CONSTANTS p1, p2

\* an ordinary level and one that is not tracked
OrdinaryAndArcade == {{"A", "B"}, {"ARCADE"}}
Ordinary == {{"A", "B"}}

Fall == [cause |-> "FALL", distance |-> 7]
Arrow == [cause |-> "VOID", distance |-> 7]
Stab == [cause |-> "OTHER", distance |-> NoDistance]

\* Two matches of everybody, with every way to die, near level 10 where xp is
\* counted differently
Combat ==
  [levels |-> OrdinaryAndArcade, rosters |-> {Player},
   kinds |-> {"death", "killstreak", "chat", "match_end"},
   shots |-> {Fall, Arrow, Stab}, amounts |-> {3}, multipliers |-> {1}, startXp |-> 49960,
   mayDie |-> FALSE, orderly |-> TRUE, maxEvents |-> 3, maxRounds |-> 2]

\* One match with every goal; a flag is held a short while, or longer than its
\* time bonus lasts.
ObjectiveKinds ==
  Kind \ {"death", "killstreak", "killstreak_end", "chat", "party_join"}
Goalkeeping ==
  [levels |-> Ordinary, rosters |-> {Player}, kinds |-> ObjectiveKinds, shots |-> {},
   amounts |-> {3, 120000}, multipliers |-> {1, 3}, startXp |-> 0,
   mayDie |-> FALSE, orderly |-> TRUE, maxEvents |-> 2, maxRounds |-> 1]

\* Matches that begin without some of the players and with a plugin that does
\* not wait for their end, on a connection that may break at any await
Broken ==
  [levels |-> Ordinary, rosters |-> {{p} : p \in Player} \cup {Player},
   kinds |-> {"death", "chat", "party_join", "match_end"},
   shots |-> {Stab}, amounts |-> {3}, multipliers |-> {1}, startXp |-> 0,
   mayDie |-> TRUE, orderly |-> FALSE, maxEvents |-> 3, maxRounds |-> 2]

\* The same, with events that do not ask whether the match is in progress and
\* may be about strangers
Strays ==
  [Broken EXCEPT !.kinds = {"flag_drop", "destroyable_destroy", "match_end"}, !.maxEvents = 2]

\* ... on a connection that does not break
Strangers == [Strays EXCEPT !.mayDie = FALSE]

SomeModes == {Combat, Goalkeeping, Broken, Strays, Strangers}
Symmetric == Permutations(Player)
=============================================================================

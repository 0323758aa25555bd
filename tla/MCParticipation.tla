--------------------------- MODULE MCParticipation ---------------------------
(* Instances of Participation for TLC. *)
EXTENDS Participation, TLC

CONSTANTS p1, p2, red, blue

Seats == Party \cup {NoParty}

\* Handlers that break off; the clock of one player who comes and goes in any
\* order, and of one who leaves a party before joining another, with two
\* gamemodes; and two players while handlers take no time.
SomeModes ==
  { [players |-> Player, gamemodes |-> {"A"}, seats |-> {party}, mayDie |-> TRUE,
     restless |-> TRUE, polite |-> FALSE, time |-> 2, rounds |-> 2, moves |-> 1] : party \in Party }
  \cup
  { [players |-> {p}, gamemodes |-> {"A"}, seats |-> Seats, mayDie |-> TRUE,
     restless |-> TRUE, polite |-> FALSE, time |-> 5, rounds |-> 1, moves |-> 5] : p \in Player }
  \cup
  { [players |-> {p}, gamemodes |-> {"A", "ARCADE"}, seats |-> Party, mayDie |-> FALSE,
     restless |-> TRUE, polite |-> TRUE, time |-> 3, rounds |-> 2, moves |-> 3] : p \in Player }
  \cup
  { [players |-> Player, gamemodes |-> {"A"}, seats |-> Party, mayDie |-> FALSE,
     restless |-> FALSE, polite |-> TRUE, time |-> 4, rounds |-> 1, moves |-> 5] }

Symmetric == Permutations(Player) \cup Permutations(Party)
=============================================================================

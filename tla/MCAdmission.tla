---------------------------- MODULE MCAdmission ----------------------------
(* Instances of Admission for TLC. *)
EXTENDS Admission, TLC

CONSTANTS p1, p2, x1, x2, t1, t2

Symmetric == Permutations(Player) \cup Permutations(Ip) \cup Permutations(Task)
\* A ban that ends and one that does not
SomeLengths == {1, -1}

\* One player who comes twice while staff issue bans and lift them, and time
\* passes; two players and two addresses at once, edited meanwhile and failing;
\* and the same one after the other, with players edited by name or by id, too.
SomeModes ==
  { [players |-> {p}, ips |-> {x}, keys |-> {}, serial |-> FALSE, mayFail |-> FALSE,
     time |-> 1, punishments |-> 2, prelogins |-> 2, edits |-> 0] : p \in Player, x \in Ip }
  \cup
  { [players |-> Player, ips |-> Ip, keys |-> Key, serial |-> FALSE, mayFail |-> TRUE,
     time |-> 0, punishments |-> 0, prelogins |-> 3, edits |-> 1] }
  \cup
  { [players |-> Player, ips |-> Ip, keys |-> keys, serial |-> TRUE, mayFail |-> FALSE,
     time |-> 0, punishments |-> 0, prelogins |-> 4, edits |-> 2] : keys \in {{"name"}, Key} }
=============================================================================

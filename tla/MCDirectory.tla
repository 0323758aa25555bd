---------------------------- MODULE MCDirectory ----------------------------
(* Instances of Directory for TLC. *)
EXTENDS Directory, TLC

\* Ranks and tags by requests that overlap; ranks and achievements by requests
\* that follow each other.
SomeModes ==
  { [collection |-> "ranks", serial |-> FALSE, most |-> 6],
    [collection |-> "ranks", serial |-> TRUE, most |-> 7],
    [collection |-> "tags", serial |-> FALSE, most |-> 5],
    [collection |-> "achievements", serial |-> TRUE, most |-> 7] }

\* Achievements alone.
Achievements == { m \in SomeModes : m.collection = "achievements" }

CONSTANTS i1, i2, i3, n1, n2, p1, p2, t1, t2

Symmetric == Permutations(Id) \cup Permutations(Name) \cup Permutations(Player)
               \cup Permutations(Task)
=============================================================================

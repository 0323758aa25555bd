------------------------------ MODULE MCLevels ------------------------------
(* Instances of Levels for TLC. *)
EXTENDS Levels, TLC

\* Two servers at once while two matches are on; maps that take each other's
\* three names, sent one server after the other; and maps that keep their names.
SomeModes ==
  { [names |-> ns, calm |-> FALSE, renames |-> TRUE, matches |-> 2, record |-> 2, requests |-> 2] :
      ns \in {s \in SUBSET Name : Cardinality(s) = 2} }
  \cup
  { [names |-> ns, calm |-> TRUE, renames |-> FALSE, matches |-> 2, record |-> 2, requests |-> 4] :
      ns \in {s \in SUBSET Name : Cardinality(s) = 2} }
  \cup
  { [names |-> Name, calm |-> TRUE, renames |-> TRUE, matches |-> 1, record |-> 1, requests |-> 4] }

CONSTANTS i1, i2, n1, n2, n3, m1, m2, t1, t2

Symmetric == Permutations(Id) \cup Permutations(Name) \cup Permutations(Match)
               \cup Permutations(Task)
=============================================================================

---------------------------- MODULE MCPlayerStore ----------------------------
(* Instances of PlayerStore for TLC. *)
EXTENDS PlayerStore, TLC

CONSTANTS p1, p2, n1, n2, n3, t1, t2, tag, rank, feat

ByName == [serial |-> TRUE, byId |-> FALSE, renames |-> FALSE, mayDie |-> FALSE,
           players |-> Player, names |-> {}, labels |-> {tag, rank, feat}, kinds |-> Kind,
           requests |-> 6]

Pairs == {ns \in SUBSET Name : Cardinality(ns) = 2}

\* Two requests at a time, about two players who change names; two at a time
\* about the tags of one player; all requests, one after the other; and the
\* same with players who change names.
SomeModes ==
  { [serial |-> FALSE, byId |-> TRUE, renames |-> TRUE, mayDie |-> TRUE,
     players |-> Player, names |-> Name, labels |-> {tag}, requests |-> 3,
     kinds |-> {"prelogin", "note", "add_tag", "event", "delete_tag"}] }
  \cup
  { [serial |-> FALSE, byId |-> FALSE, renames |-> FALSE, mayDie |-> TRUE,
     players |-> {p}, names |-> {n}, labels |-> {tag}, requests |-> 6,
     kinds |-> {"prelogin", "add_tag", "remove_label", "active_tag", "delete_tag"}] :
       p \in Player, n \in Name }
  \cup
  { [ByName EXCEPT !.names = ns] : ns \in Pairs }
  \cup
  { [ByName EXCEPT !.names = Name, !.renames = TRUE, !.labels = {tag}, !.requests = 5,
                   !.kinds = {"prelogin", "note", "add_tag", "event", "match_end"}] }

Symmetric == Permutations(Player) \cup Permutations(Name) \cup Permutations(Task)
=============================================================================

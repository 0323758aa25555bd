-------------------------- MODULE MCMatchLifecycle --------------------------
(* Instances of MatchLifecycle for TLC. *)
EXTENDS MatchLifecycle, TLC

CONSTANTS s1, c1, c2, b1, p1, p2

\* one server, whose connection, reconnection and startup request share it
OneServer == [t \in Task |-> s1]
\* the players, and the connections of one server, are interchangeable
Symmetric == Permutations(Player) \cup Permutations(Conn)

\* Every event, two matches and two players, a plugin that waits, tasks that
\* die at any await
OneAtATime ==
  [players |-> Player, matches |-> MatchId, events |-> SocketOps,
   overlap |-> FALSE, mayDie |-> TRUE, faulty |-> {}]

\* Two connections and a startup request at once over stores that lose
\* operations, about one match and one player
Overlapping ==
  {[players |-> {p}, matches |-> {"m1"}, events |-> {"load", "start", "end"},
    overlap |-> TRUE, mayDie |-> TRUE, faulty |-> f] :
     p \in Player, f \in {{"redis"}, {"redis", "mongo"}}}

SomeModes == {OneAtATime} \cup Overlapping

\* For liveness, where symmetry is not sound: nothing fails or dies.
LiveModes ==
  {[players |-> Player, matches |-> MatchId, events |-> {"load", "start", "end"},
    overlap |-> TRUE, mayDie |-> FALSE, faulty |-> {}]}
=============================================================================

----------------------------- MODULE MCSessions -----------------------------
(* Instances of Sessions for TLC. *)
EXTENDS Sessions, TLC

CONSTANTS s1, s2, t1, t2, p1, p2, x1, x2

OneServer == {[t \in Request |-> s] : s \in Server}
\* each request serves a server of its own
TwoServers == {f \in [Request -> Server] : f[t1] # f[t2]}

Sociable == {"prelogin", "login", "logout"}

\* Two requests of one server: about one player at once, and dying at any await;
\* about two players at once; and one after the other
OneAtATime(f) ==
  [serverOf |-> f, players |-> Player, requests |-> Sociable,
   overlap |-> FALSE, mayDie |-> FALSE, faulty |-> {}]
Overlapping(f) == [OneAtATime(f) EXCEPT !.overlap = TRUE]
Dying(p, f) == [Overlapping(f) EXCEPT !.players = {p}, !.mayDie = TRUE]

\* Two servers that start up at times, and Redis may fail; f is who serves whom.
WithStartup(p, f, faulty) ==
  [serverOf |-> f, players |-> {p}, requests |-> Kind,
   overlap |-> FALSE, mayDie |-> FALSE, faulty |-> faulty]

SomeModes ==
  UNION {{OneAtATime(f), Overlapping(f)} \cup {Dying(p, f) : p \in Player} : f \in OneServer}
    \cup {WithStartup(p, f, {"redis"}) : p \in Player, f \in TwoServers}

\* For liveness, where symmetry is not sound
LiveModes == {WithStartup(p1, (t1 :> s1) @@ (t2 :> s2), {})}

\* servers, players, sessions and requests are interchangeable
Symmetric == Permutations(Server) \cup Permutations(Player) \cup Permutations(SessionId)
               \cup Permutations(Request)
=============================================================================

-------------------------------- MODULE Levels --------------------------------
(***************************************************************************)
(* The documents of the levels (maps).  Servers send their maps when they  *)
(* come up: add_maps reads every one of them by its name and writes all of *)
(* them back.  A match takes a copy of its level when it is loaded, keeps  *)
(* the records in the copy, and saves the whole copy when it ends.         *)
(*                                                                         *)
(* Any number of servers do so.  One record, where more is better, stands  *)
(* for all of them (MapRecordListener); the other events of a match are in *)
(* MatchLifecycle and in Statistics.                                       *)
(***************************************************************************)
EXTENDS Naturals, FiniteSets

CONSTANTS
  Id, Name,            \* of levels
  Match, Task,
  NoDoc, NoMatch,
  Modes                \* what a behaviour may be like, see Mode

\* The names that maps have; are maps sent one server after the other, while no
\* match is on, and are matches played one after the other?; may a map come
\* under another name than before?; and bounds on the matches, on what is done
\* in them, and on how often maps are sent.
Mode == [names : SUBSET Name, calm : BOOLEAN, renames : BOOLEAN,
         matches : Nat, record : Nat, requests : Nat]

ASSUME LevelsAssumption ==
  /\ Id \cap Name = {} /\ NoMatch \notin Match
  /\ Modes \subseteq Mode

\* A level with the version that it was last sent in, and the best that was
\* done in any match, which one it was, and which was saved last
Doc == [id : Id, name : Name, version : Nat, record : Nat, by : Match \cup {NoMatch},
        last : Match \cup {NoMatch}]

ASSUME NoDocAssumption == NoDoc \notin Doc


VARIABLES
  mode,       \* the mode of this behaviour: it never changes
  levels,     \* collection levels
  copy,       \* the level inside each match
  phase,      \* "none", "on" (loaded, perhaps started) or "over"
  best,       \* history: the best that was done in each match
  asked,      \* the maps that each request has yet to look up
  todo,       \* the documents it has yet to save
  pc,         \* "idle", "find" or "save"
  version,    \* the version that each request sends
  called,     \* history: the name that each map was sent with
  requests    \* how many were sent

vars == <<mode, levels, copy, phase, best, asked, todo, pc, version, called, requests>>

Map == [id : Id, name : mode.names]

Calm == mode.calm
Renames == mode.renames

-----------------------------------------------------------------------------
(* add_maps.                                                               *)

Stored == {i \in Id : levels[i] # NoDoc}

Named(n) == {i \in Stored : levels[i].name = n}

\* A server sends its maps, whose names differ.
AddMaps(t, maps) ==
  /\ pc[t] = "idle"
  /\ requests < mode.requests
  /\ Calm => (\A u \in Task : pc[u] = "idle") /\ (\A m \in Match : phase[m] # "on")
  /\ \A a, b \in maps : a.name = b.name \/ a.id = b.id => a = b
  /\ ~Renames => \A a \in maps : called[a.id] \in {{}, {a.name}}
                                   /\ \A i \in Id : a.name \in called[i] => i = a.id
  /\ called' = [i \in Id |-> called[i] \cup {a.name : a \in {b \in maps : b.id = i}}]
  /\ requests' = requests + 1
  /\ version' = [version EXCEPT ![t] = requests + 1]
  /\ asked' = [asked EXCEPT ![t] = maps]
  /\ pc' = [pc EXCEPT ![t] = "find"]
  /\ UNCHANGED <<levels, copy, phase, best, todo>>

\* A map that no level has the name of: its document has no records.
NewLevel(t, a) == [id |-> a.id, name |-> a.name, version |-> version[t], record |-> 0,
                   by |-> NoMatch, last |-> NoMatch]

\* Mutant of Updated: the records begin anew.
UpdatedAnew(t, a, d) == [d EXCEPT !.version = version[t], !.record = 0, !.by = NoMatch]

\* An existing level keeps its id, its records and its last match.
Updated(t, a, d) == [d EXCEPT !.name = a.name, !.version = version[t]]

\* Mutant of FindMap: the first answer is saved before the others are there.
FindMapAtOnce(t, a) ==
  /\ pc[t] = "find"
  /\ a \in asked[t]
  /\ asked' = [asked EXCEPT ![t] = @ \ {a}]
  /\ \/ Named(a.name) = {} /\ todo' = [todo EXCEPT ![t] = @ \cup {NewLevel(t, a)}]
     \/ \E i \in Named(a.name) : todo' = [todo EXCEPT ![t] = @ \cup {Updated(t, a, levels[i])}]
  /\ pc' = [pc EXCEPT ![t] = "save"]
  /\ UNCHANGED <<levels, copy, phase, best, version, called, requests>>

\* One of the queries of the request is answered.
FindMap(t, a) ==
  /\ pc[t] = "find"
  /\ a \in asked[t]
  /\ asked' = [asked EXCEPT ![t] = @ \ {a}]
  /\ \/ Named(a.name) = {} /\ todo' = [todo EXCEPT ![t] = @ \cup {NewLevel(t, a)}]
     \/ \E i \in Named(a.name) : todo' = [todo EXCEPT ![t] = @ \cup {Updated(t, a, levels[i])}]
  /\ pc' = [pc EXCEPT ![t] = IF asked'[t] = {} THEN "save" ELSE "find"]
  /\ UNCHANGED <<levels, copy, phase, best, version, called, requests>>

\* One of its documents is saved.
SaveMap(t, d) ==
  /\ pc[t] = "save"
  /\ d \in todo[t]
  /\ levels' = [levels EXCEPT ![d.id] = d]
  /\ todo' = [todo EXCEPT ![t] = @ \ {d}]
  /\ pc' = [pc EXCEPT ![t] = IF todo'[t] = {} THEN "idle" ELSE "save"]
  /\ UNCHANGED <<copy, phase, best, asked, version, called, requests>>

Die(t) ==
  /\ pc[t] # "idle"
  /\ pc' = [pc EXCEPT ![t] = "idle"]
  /\ asked' = [asked EXCEPT ![t] = {}]
  /\ todo' = [todo EXCEPT ![t] = {}]
  /\ UNCHANGED <<levels, copy, phase, best, version, called, requests>>

-----------------------------------------------------------------------------
(* Matches.                                                                *)

\* on_load copies the level.
OnLoad(m, i) ==
  /\ phase[m] = "none"
  /\ Cardinality({k \in Match : phase[k] # "none"}) < mode.matches
  /\ Calm => (\A t \in Task : pc[t] = "idle") /\ (\A k \in Match : phase[k] # "on")
  /\ i \in Stored
  /\ copy' = [copy EXCEPT ![m] = [levels[i] EXCEPT !.last = m]]
  /\ phase' = [phase EXCEPT ![m] = "on"]
  /\ UNCHANGED <<levels, best, asked, todo, pc, version, called, requests>>

\* Mutant of Beaten: the copy holds what was done last.
BeatenAlways(m, amount) == [copy[m] EXCEPT !.record = amount, !.by = m]

\* on_killstreak of MapRecordListener
Beaten(m, amount) ==
  IF amount > copy[m].record THEN [copy[m] EXCEPT !.record = amount, !.by = m] ELSE copy[m]

Do(m, amount) ==
  /\ phase[m] = "on"
  /\ copy' = [copy EXCEPT ![m] = Beaten(m, amount)]
  /\ best' = [best EXCEPT ![m] = IF amount > @ THEN amount ELSE @]
  /\ UNCHANGED <<levels, phase, asked, todo, pc, version, called, requests>>

\* on_match_end saves the level as the match has it.
OnMatchEnd(m) ==
  /\ phase[m] = "on"
  /\ levels' = [levels EXCEPT ![copy[m].id] = copy[m]]
  /\ phase' = [phase EXCEPT ![m] = "over"]
  /\ UNCHANGED <<copy, best, asked, todo, pc, version, called, requests>>

\* A match that its server does not end: startup ends it and saves no level.
Abandon(m) ==
  /\ phase[m] = "on"
  /\ phase' = [phase EXCEPT ![m] = "over"]
  /\ UNCHANGED <<levels, copy, best, asked, todo, pc, version, called, requests>>

Init ==
  /\ mode \in Modes
  /\ levels = [i \in Id |-> NoDoc]
  /\ copy = [m \in Match |-> NoDoc]
  /\ phase = [m \in Match |-> "none"]
  /\ best = [m \in Match |-> 0]
  /\ asked = [t \in Task |-> {}]
  /\ todo = [t \in Task |-> {}]
  /\ pc = [t \in Task |-> "idle"]
  /\ version = [t \in Task |-> 0]
  /\ called = [i \in Id |-> {}]
  /\ requests = 0

Next ==
  /\ \/ \E t \in Task :
          \/ \E maps \in SUBSET Map \ {{}} : AddMaps(t, maps)
          \/ \E a \in asked[t] : FindMap(t, a)
          \/ \E d \in todo[t] : SaveMap(t, d)
          \/ Die(t)
     \/ \E m \in Match :
          \/ \E i \in Id : OnLoad(m, i)
          \/ \E amount \in 1..mode.record : Do(m, amount)
          \/ OnMatchEnd(m) \/ Abandon(m)
  /\ UNCHANGED mode

Spec == Init /\ [][Next]_vars

-----------------------------------------------------------------------------
(* Properties.                                                             *)

Copies == {levels[i] : i \in Stored} \cup (UNION {todo[t] : t \in Task})
            \cup {copy[m] : m \in {k \in Match : phase[k] # "none"}}

\* Documents are at their ids, and only requests that are at work have some.
TypeOK ==
  /\ mode \in Modes
  /\ Copies \subseteq Doc
  /\ \A i \in Stored : levels[i].id = i
  /\ phase \in [Match -> {"none", "on", "over"}] /\ best \in [Match -> Nat]
  /\ \A t \in Task : asked[t] \subseteq Map /\ (pc[t] = "idle" => asked[t] = {} /\ todo[t] = {})

\* Whoever overwrites whom: a record that is in Mongo was set in a match that
\* has ended, is the best that was done there, and not that of another level.
RecordsAreOfEndedMatches ==
  \A i \in Stored : LET m == levels[i].by IN
    IF m = NoMatch THEN levels[i].record = 0
    ELSE phase[m] = "over" /\ copy[m].id = i /\ levels[i].record = best[m]

\* Maps are sent one server after the other and while no match is on: no two
\* levels have the same name, even if maps take over each other's names
\* (add_maps looks levels up by name, a match load by id).
LevelNamesUnique ==
  Calm => \A i, j \in Stored : levels[i].name = levels[j].name => i = j

\* The levels in Mongo are sound: their records were set, on them, in matches
\* that have ended, and their names tell them apart.
LevelsSound == RecordsAreOfEndedMatches /\ LevelNamesUnique

\* The same, and maps keep their names, and matches follow each other: records
\* never get worse, and no level goes back to an older version.
LevelsMoveForward ==
  [][Calm /\ ~Renames =>
       \A i \in Stored : /\ levels'[i].record >= levels[i].record
                         /\ levels'[i].version >= levels[i].version]_levels
=============================================================================

------------------------------ MODULE Directory ------------------------------
(***************************************************************************)
(* The collections of ranks, tags and achievements: a behaviour is about   *)
(* one of them.  Creating asks Mongo whether the name is taken and saves;  *)
(* updating and completing read a document and write it back.  Requests    *)
(* and connections overlap, or follow each other, and each may die at any  *)
(* await.                                                                  *)
(*                                                                         *)
(* What a deletion does to the players who have the rank, the tag or the   *)
(* achievement is in PlayerStore.                                          *)
(***************************************************************************)
EXTENDS Naturals, FiniteSets

CONSTANTS
  Id, Name,            \* uuids; names, in lower case
  Player, Task,
  NoDoc, NoName, NoPlayer, NoId, NoRequest,
  Modes                \* what a behaviour may be about, see Mode

\* A collection; does one request end before the next begins?; and a bound on
\* what is asked.
Mode == [collection : {"ranks", "tags", "achievements"}, serial : BOOLEAN, most : Nat]

ASSUME DirectoryAssumption ==
  /\ Modes \subseteq Mode
  /\ Id \cap Name = {} /\ NoId \notin Id \cup Name
  /\ NoPlayer \notin Player /\ NoName \notin Name /\ IsFiniteSet(Task)

Doc == [name : Name, first : Player \cup {NoPlayer}]

ASSUME NoDocAssumption == NoDoc \notin Doc

Kind == {"create", "update", "delete", "complete"}

Request == [kind : Kind, key : Id \cup Name \cup {NoId}, name : Name \cup {NoName},
            player : Player \cup {NoPlayer}]

VARIABLES
  mode,       \* the mode of this behaviour: it never changes
  docs,       \* the collection
  issued,     \* ids given to new documents
  requests,   \* how many requests were made
  pc,         \* the await that each task is at
  req,        \* its request
  id,         \* the document it works on
  doc         \* and its copy

vars == <<mode, docs, issued, requests, pc, req, id, doc>>

Collection == mode.collection
Serial == mode.serial

\* What each collection has requests for
Kinds == CASE Collection = "achievements" -> {"create", "delete", "complete"}
           [] OTHER -> {"create", "update", "delete"}

-----------------------------------------------------------------------------
(* Mongo.                                                                  *)

Stored == {i \in Id : docs[i] # NoDoc}

\* Ranks and tags are stored with their name in lower case, which requests for
\* a name compare.  Achievements have no such field.
NameField == Collection # "achievements"

Named(n) == {i \in Stored : NameField /\ docs[i].name = n}

\* find_by_name and find_by_id_or_name, of which only ranks use the first
Matches(text) == Named(text) \cup (IF Collection = "ranks" THEN {} ELSE Stored \cap {text})

-----------------------------------------------------------------------------
(* The tasks.                                                              *)

Goto(t, where) == pc' = [pc EXCEPT ![t] = where]

Forget(t) ==
  /\ Goto(t, "idle")
  /\ req' = [req EXCEPT ![t] = NoRequest]
  /\ id' = [id EXCEPT ![t] = NoId]
  /\ doc' = [doc EXCEPT ![t] = NoDoc]

Begin(t, r) ==
  /\ pc[t] = "idle"
  /\ Serial => \A u \in Task : pc[u] = "idle"
  /\ r.kind \in Kinds
  /\ requests < mode.most
  /\ requests' = requests + 1
  /\ req' = [req EXCEPT ![t] = r]
  /\ Goto(t, r.kind)
  /\ UNCHANGED <<docs, issued, id, doc>>

Create(t, n) == Begin(t, [kind |-> "create", key |-> NoId, name |-> n, player |-> NoPlayer])

\* A rank is updated by its id, a tag by its id or its name.
Update(t, key, n) ==
  /\ key \in Name => Collection = "tags"
  /\ Begin(t, [kind |-> "update", key |-> key, name |-> n, player |-> NoPlayer])

Delete(t, key) == Begin(t, [kind |-> "delete", key |-> key, name |-> NoName, player |-> NoPlayer])

\* A player completes the achievement.
Complete(t, key, p) ==
  Begin(t, [kind |-> "complete", key |-> key, name |-> NoName, player |-> p])

\* Mutant of FindConflict: the name is not looked up.
FindConflictNever(t, i) ==
  /\ pc[t] = "create"
  /\ i \notin issued
  /\ issued' = issued \cup {i}
  /\ id' = [id EXCEPT ![t] = i]
  /\ doc' = [doc EXCEPT ![t] = [name |-> req[t].name, first |-> NoPlayer]]
  /\ Goto(t, "save")
  /\ UNCHANGED <<docs, requests, req>>

\* A new document gets an id that no document ever had.
FindConflict(t, i) ==
  /\ pc[t] = "create"
  /\ \/ Matches(req[t].name) # {} /\ Forget(t) /\ UNCHANGED issued
     \/ /\ Matches(req[t].name) = {}
        /\ i \notin issued
        /\ issued' = issued \cup {i}
        /\ id' = [id EXCEPT ![t] = i]
        /\ doc' = [doc EXCEPT ![t] = [name |-> req[t].name, first |-> NoPlayer]]
        /\ Goto(t, "save")
        /\ UNCHANGED req
  /\ UNCHANGED <<docs, requests>>

\* Whom an update is about
Addressed(key) == IF Collection = "ranks" THEN Stored \cap {key} ELSE Matches(key)

\* Mutant of FindUpdated: the copy keeps its name.
FindUpdatedOldName(t) ==
  /\ pc[t] = "update"
  /\ \/ Addressed(req[t].key) = {} /\ Forget(t)
     \/ \E i \in Addressed(req[t].key) :
          /\ id' = [id EXCEPT ![t] = i]
          /\ doc' = [doc EXCEPT ![t] = docs[i]]
          /\ Goto(t, IF Collection = "ranks" THEN "conflict" ELSE "save")
          /\ UNCHANGED req
  /\ UNCHANGED <<docs, issued, requests>>

FindUpdated(t) ==
  /\ pc[t] = "update"
  /\ \/ Addressed(req[t].key) = {} /\ Forget(t)
     \/ \E i \in Addressed(req[t].key) :
          /\ id' = [id EXCEPT ![t] = i]
          /\ doc' = [doc EXCEPT ![t] = [docs[i] EXCEPT !.name = req[t].name]]
          /\ Goto(t, IF Collection = "ranks" THEN "conflict" ELSE "save")
          /\ UNCHANGED req
  /\ UNCHANGED <<docs, issued, requests>>

\* update_rank refuses the name of another rank; update_tag does not ask.
FindOther(t) ==
  /\ pc[t] = "conflict"
  /\ IF Named(req[t].name) \ {id[t]} # {} THEN Forget(t)
     ELSE Goto(t, "save") /\ UNCHANGED <<req, id, doc>>
  /\ UNCHANGED <<docs, issued, requests>>

\* Mutant of FindCompleted: whoever completes it is the first.
FindCompletedAnyhow(t) ==
  LET i == req[t].key
  IN  /\ pc[t] = "complete"
      /\ IF i \notin Stored THEN Forget(t)
         ELSE /\ id' = [id EXCEPT ![t] = i]
              /\ doc' = [doc EXCEPT ![t] = [docs[i] EXCEPT !.first = req[t].player]]
              /\ Goto(t, "save")
              /\ UNCHANGED req
      /\ UNCHANGED <<docs, issued, requests>>

\* on_achievement_complete: the first one is entered,
FindCompleted(t) ==
  LET i == req[t].key
  IN  /\ pc[t] = "complete"
      /\ IF i \notin Stored \/ docs[i].first # NoPlayer THEN Forget(t)
         ELSE /\ id' = [id EXCEPT ![t] = i]
              /\ doc' = [doc EXCEPT ![t] = [docs[i] EXCEPT !.first = req[t].player]]
              /\ Goto(t, "save")
              /\ UNCHANGED req
      /\ UNCHANGED <<docs, issued, requests>>

\* Mutant of Save: updated tags are saved as ranks are.
SaveAlways(t) ==
  /\ pc[t] = "save"
  /\ docs' = [docs EXCEPT ![id[t]] = doc[t]]
  /\ Forget(t)
  /\ UNCHANGED <<issued, requests>>

\* Database::save brings the document back if it was deleted meanwhile; the
\* update of a tag changes it only if it is still there.
Save(t) ==
  /\ pc[t] = "save"
  /\ docs' = IF Collection = "tags" /\ req[t].kind = "update" /\ id[t] \notin Stored
             THEN docs ELSE [docs EXCEPT ![id[t]] = doc[t]]
  /\ Forget(t)
  /\ UNCHANGED <<issued, requests>>

Remove(t) ==
  /\ pc[t] = "delete"
  /\ docs' = [i \in Id |-> IF i = req[t].key THEN NoDoc ELSE docs[i]]
  /\ Forget(t)
  /\ UNCHANGED <<issued, requests>>

Die(t) ==
  /\ pc[t] # "idle"
  /\ Forget(t)
  /\ UNCHANGED <<docs, issued, requests>>

Init ==
  /\ mode \in Modes
  /\ docs = [i \in Id |-> NoDoc]
  /\ issued = {}
  /\ requests = 0
  /\ pc = [t \in Task |-> "idle"]
  /\ req = [t \in Task |-> NoRequest]
  /\ id = [t \in Task |-> NoId]
  /\ doc = [t \in Task |-> NoDoc]

Step(t) ==
  \/ \E n \in Name : Create(t, n)
  \/ \E key \in Id \cup Name, n \in Name : Update(t, key, n)
  \/ \E key \in Id : Delete(t, key)
  \/ \E key \in Id, p \in Player : Complete(t, key, p)
  \/ \E i \in Id : FindConflict(t, i)
  \/ FindUpdated(t) \/ FindOther(t) \/ FindCompleted(t)
  \/ Save(t) \/ Remove(t)
  \/ Die(t)

Next == (\E t \in Task : Step(t)) /\ UNCHANGED mode

Spec == Init /\ [][Next]_vars

-----------------------------------------------------------------------------
(* Properties.                                                             *)

\* A task that is about to save has a document, under the name that was asked
\* for, and the id that it got or read.
TypeOK ==
  /\ mode \in Modes
  /\ docs \in [Id -> Doc \cup {NoDoc}]
  /\ issued \subseteq Id /\ Stored \subseteq issued
  /\ requests \in Nat
  /\ pc \in [Task -> Kind \cup {"idle", "conflict", "save"}]
  /\ req \in [Task -> Request \cup {NoRequest}]
  /\ id \in [Task -> Id \cup {NoId}]
  /\ doc \in [Task -> Doc \cup {NoDoc}]
  /\ \A t \in Task :
       /\ pc[t] # "idle" => req[t] \in Request
       /\ pc[t] \in {"create", "update"} => req[t].name \in Name
       /\ pc[t] = "complete" => req[t].name = NoName
       /\ pc[t] \in {"conflict", "save"} =>
            id[t] \in issued /\ doc[t] \in Doc /\ req[t].name \in {doc[t].name, NoName}

\* create_rank and update_rank look for the name before they save: a name has
\* no more ranks than requests were served at the same time, however often they
\* die between the two.  Of requests one after the other, that is one.
RankNamesBounded ==
  Collection = "ranks" =>
  \A n \in Name : Cardinality(Named(n)) <= IF Serial THEN 1 ELSE Cardinality(Task)

\* A tag that was deleted never comes back, whoever has read it before and is
\* about to update it (delete_tag, update_tag).
OnlyCreationAdds ==
  [][\A i \in Id : Collection = "tags" /\ docs[i] = NoDoc /\ docs'[i] # NoDoc =>
       \E t \in Task : id[t] = i /\ req[t].kind = "create"]_docs

\* One completion after the other: who completed an achievement first stays the
\* first (on_achievement_complete).
FirstNeverChanges ==
  [][\A i \in Stored : Serial /\ docs[i].first # NoPlayer /\ docs'[i] # NoDoc =>
       docs'[i].first = docs[i].first]_docs

\* "An achievement already exists with that name" is the answer to a request
\* for a second one (ApiErrorResponder::achievement_conflict).
AchievementNamesUnique ==
  Collection = "achievements" =>
    \A i, j \in Stored : docs[i].name = docs[j].name => i = j
=============================================================================

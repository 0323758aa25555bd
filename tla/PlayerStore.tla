----------------------------- MODULE PlayerStore -----------------------------
(***************************************************************************)
(* The player documents and everybody who edits them: prelogin, the        *)
(* requests about notes, tags and ranks, the socket handlers of a match,   *)
(* and the deletions of tags, ranks and achievements that visit every      *)
(* player who has one.                                                     *)
(*                                                                         *)
(* A player has one document in Mongo, but any number of copies in Redis:  *)
(* player:<name> for each name that it has had, and player:<id> once it    *)
(* was addressed by id.  Everybody reads a copy, edits it and writes it    *)
(* back as a whole; some write to Redis only.  Name changes are those of   *)
(* the accounts that players log in with.                                  *)
(***************************************************************************)
EXTENDS Integers, FiniteSets, FiniteSetsExt

CONSTANTS
  Player,              \* ids
  Name,                \* names, in lower case
  Tag, Rank, Achievement,
  Task,                \* requests and connections at work
  NoDoc, NoName, NoTag, NoRequest, NoLabel,
  Modes                \* what a behaviour may be like, see Mode

Kind == {"prelogin", "note", "delete_note", "add_tag", "add_rank", "remove_label", "active_tag",
         "achievement", "event", "match_end", "delete_tag", "delete_rank", "delete_achievement"}

Label == Tag \cup Rank \cup Achievement
Key == Name \cup Player

\* Who is there, and what is asked about what; does one request end before the
\* next begins?; are players addressed by id, too?; do players who are offline
\* change names?; may a request or a connection die at any await?; and a bound
\* on what is asked of the server.
Mode == [players : SUBSET Player, names : SUBSET Name, labels : SUBSET Label, kinds : SUBSET Kind,
         serial : BOOLEAN, byId : BOOLEAN, renames : BOOLEAN, mayDie : BOOLEAN, requests : Nat]

ASSUME PlayerStoreAssumption ==
  /\ Name \cap Player = {}
  /\ Tag \cap Rank = {} /\ Tag \cap Achievement = {} /\ Rank \cap Achievement = {}
  /\ NoTag \notin Tag /\ NoName \notin Name /\ NoLabel \notin Label
  /\ Modes \subseteq Mode

Doc == [id : Player, name : Name, labels : SUBSET Label, active : Tag \cup {NoTag},
        notes : SUBSET Nat, events : SUBSET Nat]

ASSUME NoDocAssumption == NoDoc \notin Doc

VARIABLES
  mode,       \* the mode of this behaviour: it never changes
  mongo,      \* collection players
  redis,      \* keys player:<key>
  exists,     \* collections tags, ranks and achievements
  called,     \* the name of each account
  online,     \* the name that a player is online with
  requests,   \* how many requests were made
  pc,         \* the await that each task is at
  req,        \* its request
  prof,       \* its copy of a player
  todo        \* copies of the players that a deletion has yet to write

stores == <<mongo, redis, exists>>
vars == <<mode, stores, called, online, requests, pc, req, prof, todo>>

Serial == mode.serial

-----------------------------------------------------------------------------
(* Requests and what they do to a document.                                *)

Deletion == {"delete_tag", "delete_rank", "delete_achievement"}

Request == [kind : Kind, key : Key, name : Name \cup {NoName},
            label : Label \cup {NoLabel, NoTag}, n : Nat]

NewPlayer(p, n) == [id |-> p, name |-> n, labels |-> {}, active |-> NoTag,
                    notes |-> {}, events |-> {}]

\* One more than the highest id of a note
NextNote(d) == Max({0} \cup d.notes) + 1

Without(d, label) == [d EXCEPT !.labels = @ \ {label},
                               !.active = IF @ = label THEN NoTag ELSE @]

\* Mutant of Edits: a tag that is taken away stays active.
EditsStillActive(r, d) ==
  CASE r.kind = "remove_label" ->
         IF r.label \in d.labels THEN {[d EXCEPT !.labels = @ \ {r.label}]} ELSE {}
    [] r.kind \in {"add_tag", "add_rank"} ->
         IF r.label \in d.labels THEN {} ELSE {[d EXCEPT !.labels = @ \cup {r.label}]}
    [] r.kind = "active_tag" ->
         IF r.label # d.active /\ r.label \in d.labels \cup {NoTag}
         THEN {[d EXCEPT !.active = r.label]} ELSE {}
    [] OTHER -> {d}

\* What a request makes of a document; nothing, if it is refused
Edits(r, d) ==
  CASE r.kind = "note" -> {[d EXCEPT !.notes = @ \cup {NextNote(d)}]}
    [] r.kind = "delete_note" -> {[d EXCEPT !.notes = @ \ {i}] : i \in d.notes}
    [] r.kind \in {"add_tag", "add_rank"} ->
         IF r.label \in d.labels THEN {} ELSE {[d EXCEPT !.labels = @ \cup {r.label}]}
    [] r.kind = "remove_label" ->
         IF r.label \in d.labels THEN {Without(d, r.label)} ELSE {}
    [] r.kind = "active_tag" ->
         IF r.label # d.active /\ r.label \in d.labels \cup {NoTag}
         THEN {[d EXCEPT !.active = r.label]} ELSE {}
    [] r.kind = "achievement" -> {[d EXCEPT !.labels = @ \cup {r.label}]}
    [] r.kind \in {"event", "match_end"} -> {[d EXCEPT !.events = @ \cup {r.n}]}
    [] OTHER -> {d}

\* Notes go to the key that the request came with, events to the name of the
\* participant; all the others go to the name in the document.
CacheKey(r, d) ==
  IF r.kind \in {"note", "delete_note", "event", "match_end"} THEN r.key ELSE d.name

-----------------------------------------------------------------------------
(* The tasks.                                                              *)

Goto(t, where) == pc' = [pc EXCEPT ![t] = where]

Forget(t) ==
  /\ Goto(t, "idle")
  /\ req' = [req EXCEPT ![t] = NoRequest]
  /\ prof' = [prof EXCEPT ![t] = NoDoc]
  /\ todo' = [todo EXCEPT ![t] = {}]

Begin(t, kind, key, label, where) ==
  /\ pc[t] = "idle"
  /\ Serial => \A u \in Task : pc[u] = "idle"
  /\ kind \in mode.kinds
  /\ requests < mode.requests
  /\ requests' = requests + 1
  /\ req' = [req EXCEPT ![t] = [kind |-> kind, key |-> key, label |-> label,
                                name |-> IF kind = "prelogin" THEN called[key] ELSE NoName,
                                n |-> requests + 1]]
  /\ Goto(t, where)
  /\ UNCHANGED <<stores, called, prof, todo>>

\* The account of a player who is offline gets a name that nobody has.
Rename(p, n) ==
  /\ mode.renames
  /\ online[p] = NoName
  /\ \A q \in Player : called[q] # n
  /\ called' = [called EXCEPT ![p] = n]
  /\ UNCHANGED <<stores, online, requests, pc, req, prof, todo>>

Leave(p) ==
  /\ mode.renames
  /\ online[p] # NoName
  /\ online' = [online EXCEPT ![p] = NoName]
  /\ UNCHANGED <<stores, called, requests, pc, req, prof, todo>>

\* prelogin of a player who comes with the name of its account
Prelogin(t, p) ==
  /\ online[p] = NoName
  /\ Begin(t, "prelogin", p, NoLabel, "prelogin")
  /\ online' = [online EXCEPT ![p] = called[p]]

\* Notes, tags and ranks, by whatever the staff types in.  The tag or the rank
\* is looked up after the player.
Ask(t, kind, key, label) ==
  /\ kind \in {"note", "delete_note", "add_tag", "add_rank", "remove_label", "active_tag"}
  /\ kind \in {"note", "delete_note"} => label = NoLabel
  /\ kind = "add_tag" => label \in Tag
  /\ kind = "add_rank" => label \in Rank
  /\ kind = "remove_label" => label \in Tag \cup Rank
  /\ kind = "active_tag" => label \in Tag \cup {NoTag}
  /\ key \in Player => mode.byId
  /\ Begin(t, kind, key, label, "player")
  /\ UNCHANGED online

\* A socket handler about a player who is online: one that changes statistics,
\* and on_match_end, which is shown for one participant.
Play(t, kind, p) ==
  /\ kind \in {"event", "match_end"}
  /\ online[p] # NoName
  /\ Begin(t, kind, online[p], NoLabel, "player")
  /\ UNCHANGED online

\* on_achievement_complete looks up the achievement before the player.
Achieve(t, p, label) ==
  /\ label \in Achievement
  /\ online[p] # NoName
  /\ Begin(t, "achievement", online[p], label, "label")
  /\ UNCHANGED online

Delete(t, kind, key, label) ==
  /\ kind = "delete_tag" => label \in Tag
  /\ kind = "delete_rank" => label \in Rank
  /\ kind = "delete_achievement" => label \in Achievement
  /\ kind \in Deletion
  /\ Begin(t, kind, key, label, "delete")
  /\ UNCHANGED online

\* The document of a request is at hand: it is edited, or the request refused.
Apply(t, d) ==
  LET r == req[t]
  IN  \/ \E e \in Edits(r, d) :
           /\ prof' = [prof EXCEPT ![t] = e]
           /\ Goto(t, IF r.kind \in {"event", "match_end"} THEN "cache" ELSE "persist")
           /\ UNCHANGED <<req, todo>>
      \/ Edits(r, d) = {} /\ Forget(t)

Found(t, d) ==
  IF req[t].kind \in {"add_tag", "add_rank", "remove_label"}
  THEN /\ prof' = [prof EXCEPT ![t] = d]
       /\ Goto(t, "label")
       /\ UNCHANGED <<req, todo>>
  ELSE Apply(t, d)

\* Mutant of LookUp: the cache is not asked.
LookUpStored(t) ==
  /\ pc[t] = "player"
  /\ Goto(t, "find")
  /\ UNCHANGED <<stores, called, online, requests, req, prof, todo>>

\* Cache::get asks Redis for the key,
LookUp(t) ==
  /\ pc[t] = "player"
  /\ IF redis[req[t].key] # NoDoc THEN Found(t, redis[req[t].key])
     ELSE Goto(t, "find") /\ UNCHANGED <<req, prof, todo>>
  /\ UNCHANGED <<stores, called, online, requests>>

\* Mutant of FindStored: requests about tags do not ask whether there is one.
FindStoredUnchecked(t) ==
  LET key == req[t].key
      hits == {p \in Player : mongo[p] # NoDoc /\ (p = key \/ mongo[p].name = key)}
  IN  /\ pc[t] = "find"
      /\ \/ \E p \in hits : Found(t, mongo[p])
         \/ hits = {} /\ IF req[t].kind = "add_tag" THEN Found(t, NoDoc) ELSE Forget(t)
      /\ UNCHANGED <<stores, called, online, requests>>

\* and then Mongo for a player with this id or this name.  Several may have the
\* name: ensure_player_name_uniqueness sends a query that Mongo refuses.
FindStored(t) ==
  LET key == req[t].key
      hits == {p \in Player : mongo[p] # NoDoc /\ (p = key \/ mongo[p].name = key)}
  IN  /\ pc[t] = "find"
      /\ \/ \E p \in hits : Found(t, mongo[p])
         \/ hits = {} /\ Forget(t)
      /\ UNCHANGED <<stores, called, online, requests>>

\* The tag, rank or achievement is to exist.
FindLabel(t) ==
  /\ pc[t] = "label"
  /\ IF req[t].label \notin exists THEN Forget(t)
     ELSE IF req[t].kind = "achievement" THEN Goto(t, "player") /\ UNCHANGED <<req, prof, todo>>
     ELSE Apply(t, prof[t])
  /\ UNCHANGED <<stores, called, online, requests>>

\* prelogin reads Mongo, not Redis, and gives the document the new name.
PreloginPlayer(t) ==
  LET p == req[t].key
  IN  /\ pc[t] = "prelogin"
      /\ prof' = [prof EXCEPT ![t] = IF mongo[p] = NoDoc THEN NewPlayer(p, req[t].name)
                                     ELSE [mongo[p] EXCEPT !.name = req[t].name]]
      /\ Goto(t, "persist")
      /\ UNCHANGED <<stores, called, online, requests, req, todo>>

\* Database::save, before the cache, or after it when a match ends
Persist(t) ==
  /\ pc[t] = "persist"
  /\ mongo' = [mongo EXCEPT ![prof[t].id] = prof[t]]
  /\ IF req[t].kind = "match_end" THEN Forget(t)
     ELSE Goto(t, "cache") /\ UNCHANGED <<req, prof, todo>>
  /\ UNCHANGED <<redis, exists, called, online, requests>>

\* Where a task goes on once Redis has the document
Proceed(t) ==
  CASE req[t].kind = "match_end" -> Goto(t, "persist") /\ UNCHANGED <<req, prof, todo>>
    [] req[t].kind \in Deletion ->
         /\ Goto(t, "each")
         /\ prof' = [prof EXCEPT ![t] = NoDoc]
         /\ UNCHANGED <<req, todo>>
    [] OTHER -> Forget(t)

\* Mutant of CacheIt: deletions leave the cache alone.
CacheItNoDeletion(t) ==
  /\ pc[t] = "cache"
  /\ redis' = IF req[t].kind \in Deletion THEN redis
              ELSE [redis EXCEPT ![CacheKey(req[t], prof[t])] = prof[t]]
  /\ Proceed(t)
  /\ UNCHANGED <<mongo, exists, called, online, requests>>

\* Cache::set
CacheIt(t) ==
  /\ pc[t] = "cache"
  /\ redis' = [redis EXCEPT ![CacheKey(req[t], prof[t])] = prof[t]]
  /\ Proceed(t)
  /\ UNCHANGED <<mongo, exists, called, online, requests>>

\* delete_tag, delete_rank and delete_achievement first delete the document,
DeleteLabel(t) ==
  /\ pc[t] = "delete"
  /\ exists' = exists \ {req[t].label}
  /\ IF req[t].label \in exists THEN Goto(t, "holders") /\ UNCHANGED <<req, prof, todo>>
     ELSE Forget(t)
  /\ UNCHANGED <<mongo, redis, called, online, requests>>

Holders(label) == {p \in Player : mongo[p] # NoDoc /\ label \in mongo[p].labels}

\* then read from Mongo who has it.  delete_rank takes the holders out of the
\* vector whose length it has counted: with two of them it panics.
FindHolders(t) ==
  LET label == req[t].label
  IN  /\ pc[t] = "holders"
      /\ IF label \in Rank /\ Cardinality(Holders(label)) > 1 THEN Forget(t)
         ELSE /\ todo' = [todo EXCEPT ![t] = {Without(mongo[p], label) : p \in Holders(label)}]
              /\ Goto(t, IF label \in Achievement THEN "unset" ELSE "each")
              /\ UNCHANGED <<req, prof>>
      /\ UNCHANGED <<stores, called, online, requests>>

\* delete_achievement takes it out of Mongo with one update of all,
UnsetAchievement(t) ==
  /\ pc[t] = "unset"
  /\ mongo' = [p \in Player |-> IF mongo[p] = NoDoc THEN NoDoc
                                ELSE [mongo[p] EXCEPT !.labels = @ \ {req[t].label}]]
  /\ Goto(t, "each")
  /\ UNCHANGED <<redis, exists, called, online, requests, req, prof, todo>>

\* and writes the copies it has read to Redis; tags and ranks go to Mongo, too.
NextHolder(t) ==
  /\ pc[t] = "each"
  /\ \/ /\ todo[t] = {}
        /\ Forget(t)
     \/ \E d \in todo[t] :
          /\ prof' = [prof EXCEPT ![t] = d]
          /\ todo' = [todo EXCEPT ![t] = @ \ {d}]
          /\ Goto(t, IF req[t].kind = "delete_achievement" THEN "cache" ELSE "persist")
          /\ UNCHANGED req
  /\ UNCHANGED <<stores, called, online, requests>>

Die(t) ==
  /\ mode.mayDie /\ pc[t] # "idle"
  /\ Forget(t)
  /\ UNCHANGED <<stores, called, online, requests>>

Init ==
  /\ mode \in Modes
  /\ mongo = [p \in Player |-> NoDoc]
  /\ redis = [k \in Key |-> NoDoc]
  /\ exists = mode.labels
  /\ called \in [Player -> Name]
  /\ \A p \in mode.players : called[p] \in mode.names
  /\ \A p, q \in Player : called[p] = called[q] => p = q
  /\ online = [p \in Player |-> NoName]
  /\ requests = 0
  /\ pc = [t \in Task |-> "idle"]
  /\ req = [t \in Task |-> NoRequest]
  /\ prof = [t \in Task |-> NoDoc]
  /\ todo = [t \in Task |-> {}]

Step(t) ==
  \/ \E p \in mode.players : Prelogin(t, p)
  \/ \E kind \in mode.kinds, key \in mode.names \cup mode.players,
        label \in mode.labels \cup {NoLabel, NoTag} :
       \/ Ask(t, kind, key, label)
       \/ Delete(t, kind, key, label)
  \/ \E kind \in mode.kinds, p \in mode.players : Play(t, kind, p)
  \/ \E p \in mode.players, label \in mode.labels : Achieve(t, p, label)
  \/ LookUp(t) \/ FindStored(t) \/ FindLabel(t) \/ PreloginPlayer(t)
  \/ Persist(t) \/ CacheIt(t)
  \/ DeleteLabel(t) \/ FindHolders(t) \/ UnsetAchievement(t) \/ NextHolder(t)
  \/ Die(t)

Next ==
  /\ \/ \E p \in mode.players, n \in mode.names : Rename(p, n)
     \/ \E p \in mode.players : Leave(p)
     \/ \E t \in Task : Step(t)
  /\ UNCHANGED mode

Spec == Init /\ [][Next]_vars

-----------------------------------------------------------------------------
(* Properties.                                                             *)

\* Every copy of a player document there is
Copies == ({mongo[p] : p \in Player} \cup {redis[k] : k \in Key} \cup {prof[t] : t \in Task}
             \cup (UNION {todo[t] : t \in Task})) \ {NoDoc}

\* Documents are well formed, Mongo's are at their ids, and a task that is
\* about to write has something to write.
TypeOK ==
  /\ mode \in Modes
  /\ Copies \subseteq Doc
  /\ \A p \in Player : mongo[p] # NoDoc => mongo[p].id = p
  /\ exists \subseteq Label
  /\ called \in [Player -> Name] /\ online \in [Player -> Name \cup {NoName}]
  /\ \A t \in Task :
       /\ pc[t] \in {"idle", "player", "find", "label", "prelogin", "persist", "cache",
                     "delete", "holders", "unset", "each"}
       /\ pc[t] # "idle" => req[t] \in Request
       /\ pc[t] \in {"persist", "cache"} => prof[t] # NoDoc
       /\ pc[t] = "label" => prof[t] # NoDoc \/ req[t].kind = "achievement"

\* What Redis has under a name is a player of this name, and what it has under
\* an id is this player: after name changes, requests by id, overlapping
\* writes and deaths, nobody is shown another's document for an id, nor one
\* under a name it does not bear.
KeysMatch ==
  \A k \in Key : redis[k] # NoDoc => k \in {redis[k].name, redis[k].id}

\* Whoever edits whichever copy: the active tag of a player is one of its tags
\* (set_active_tag, delete_player_tag and delete_tag).
ActiveTagOwned == \A d \in Copies : d.active # NoTag => d.active \in d.labels

\* Every player in Redis is in Mongo, so a lost key is never a lost player:
\* prelogin stores before it caches.
CachedAreStored == \A k \in Key : redis[k] # NoDoc => mongo[redis[k].id] # NoDoc

\* Whatever overlaps and dies, each copy of a player is whole, is where it is
\* looked for, and has a record.
CopiesSound == KeysMatch /\ ActiveTagOwned /\ CachedAreStored

Quiet == \A t \in Task : pc[t] = "idle"

\* One request after the other, by name, and none dying; and nothing is deleted
\* where players change names: a deletion writes what it has read from Mongo
\* under the name that it reads there, whoever has come with this name since,
\* and not under the names that the player had before.
Orderly ==
  /\ Serial /\ ~mode.byId /\ ~mode.mayDie
  /\ mode.renames => mode.kinds \cap Deletion = {}

\* One request after the other, by name, and none dying: who is online is found by its name,
\* whatever names it and others have had; so kills are counted for the one who
\* made them (Participant::get_player).
OnlineFound ==
  Orderly /\ Quiet =>
    \A p \in Player : online[p] # NoName =>
      redis[online[p]] # NoDoc /\ redis[online[p]].id = p

\* One request after the other, by name, and none dying: a tag or achievement
\* that was deleted is in no document, neither in Mongo nor in Redis.
DeletedAreGone ==
  Orderly /\ Quiet =>
    \A d \in Copies : d.labels \cap (Tag \cup Achievement) \subseteq exists

\* The same for ranks, except where delete_rank has panicked: a rank that was
\* deleted and is still around has two holders.
DanglingRanksHaveTwoHolders ==
  Orderly /\ Quiet =>
    \A r \in (mode.labels \cap Rank) \ exists :
      (\E d \in Copies : r \in d.labels) => Cardinality(Holders(r)) > 1

\* Requests that follow one another have their effect on every copy: who comes
\* is found, what is deleted is gone.
RequestsTakeEffect == OnlineFound /\ DeletedAreGone /\ DanglingRanksHaveTwoHolders

\* Mongo forgets a note only when it is deleted, a tag, rank or achievement only
\* when it is taken away, and what was played never, although requests read
\* Redis's copies and write them over Mongo's.
RecordKeepsWhatItHas ==
  \A p \in Player : mongo[p] # NoDoc =>
    /\ mongo[p].events \subseteq mongo'[p].events
    /\ mongo[p].notes \subseteq mongo'[p].notes
         \/ \E t \in Task : pc[t] # "idle" /\ req[t].kind = "delete_note"
    /\ mongo[p].labels \subseteq mongo'[p].labels
         \/ \E t \in Task : pc[t] # "idle" /\ req[t].kind \in Deletion \cup {"remove_label"}

\* What is played reaches Redis at once and Mongo when the match ends.  Until
\* then only those who bring Mongo's copy forget it: a prelogin, and the
\* deletion of something that the player has.
OnlyMongosCopyForgets ==
  \A n \in Name : redis[n] # NoDoc /\ ~(redis[n].events \subseteq redis'[n].events) =>
    \E t \in Task : pc[t] = "cache" /\ req[t].kind \in Deletion \cup {"prelogin"}

\* One request after the other, by name, and none dying: neither store forgets
\* what it was not told to.
NothingForgotten ==
  [][Orderly /\ ~mode.renames => RecordKeepsWhatItHas /\ OnlyMongosCopyForgets]_vars
=============================================================================

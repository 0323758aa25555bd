-------------------------- MODULE PlayerStore_proofs --------------------------
(***************************************************************************)
(* The types of PlayerStore; that each copy of a player is whole, is where *)
(* it is looked for and has a record, whatever overlaps and dies; and, of  *)
(* requests by name that follow one another, that they have their effect   *)
(* on every copy, and that nothing is forgotten.                           *)
(***************************************************************************)
EXTENDS PlayerStore, WellFoundedInduction, TLAPS

-----------------------------------------------------------------------------
(* Documents.                                                              *)

\* A set of numbers with an upper bound
Bounded(S) == \E n \in Nat : \A i \in S : i <= n

\* Notes have a highest id, which the next one follows, and the active tag is
\* one of the tags.
Whole == {d \in Doc : /\ d.active # NoTag => d.active \in d.labels
                      /\ Bounded(d.notes)}

WholeOrNone == Whole \cup {NoDoc}

\* The least upper bound of a set of numbers is one of them, so Max is.
LEMMA MaxOfBounded ==
  ASSUME NEW S \in SUBSET Nat, S # {}, Bounded(S)
  PROVE  Max(S) \in S /\ \A i \in S : i <= Max(S)
<1> DEFINE Bounds == {n \in Nat : \A i \in S : i <= n}
<1>1. Bounds \subseteq Nat /\ Bounds # {}  BY DEF Bounded
<1>2. PICK n \in Bounds : \A m \in Bounds : ~ (<<m, n>> \in OpToRel(<, Nat))
  BY <1>1, NatLessThanWellFounded, WFMin
<1>3. \A m \in Bounds : ~ (m < n)  BY <1>1, <1>2 DEF OpToRel
<1>4. n \in S
  <2> SUFFICES ASSUME n \notin S PROVE FALSE  OBVIOUS
  <2>1. PICK i \in S : TRUE  OBVIOUS
  <2>2. n \in Nat /\ i \in Nat /\ i < n  BY <2>1
  <2>3. n - 1 \in Nat /\ n - 1 < n  BY <2>2
  <2>4. \A j \in S : j <= n - 1  BY <2>2
  <2> QED BY <2>3, <2>4, <1>3
<1>5. \A i \in S : n >= i  BY <1>2
<1> QED BY <1>4, <1>5 DEF Max

LEMMA NextNoteAbove ==
  ASSUME NEW d \in Whole
  PROVE  NextNote(d) \in Nat /\ \A i \in d.notes : i < NextNote(d)
<1>1. d.notes \in SUBSET Nat /\ Bounded(d.notes)  BY DEF Whole, Doc
<1>2. PICK n \in Nat : \A i \in d.notes : i <= n  BY <1>1 DEF Bounded
<1>3. {0} \cup d.notes \in SUBSET Nat /\ {0} \cup d.notes # {}  BY <1>1
<1>4. Bounded({0} \cup d.notes)
  <2>1. \A i \in {0} \cup d.notes : i <= n  BY <1>2
  <2> QED BY <2>1 DEF Bounded
<1>5. Max({0} \cup d.notes) \in Nat /\ \A i \in d.notes : i <= Max({0} \cup d.notes)
  BY <1>3, <1>4, MaxOfBounded
<1> QED BY <1>1, <1>5 DEF NextNote

-----------------------------------------------------------------------------
(* Requests and what they make of a document.                              *)

\* What the label of a request is, by its kind
Fits(r) ==
  /\ r.kind \in {"add_tag", "delete_tag"} => r.label \in Tag
  /\ r.kind \in {"add_rank", "delete_rank"} => r.label \in Rank
  /\ r.kind \in {"achievement", "delete_achievement"} => r.label \in Achievement
  /\ r.kind = "remove_label" => r.label \in Tag \cup Rank
  /\ r.kind = "active_tag" => r.label \in Tag \cup {NoTag}
  /\ r.kind = "prelogin" => r.key \in Player /\ r.name \in Name

LEMMA NewPlayerWhole ==
  ASSUME NEW p \in Player, NEW n \in Name
  PROVE  NewPlayer(p, n) \in Whole /\ NewPlayer(p, n).id = p /\ NewPlayer(p, n).name = n
  BY DEF NewPlayer, Whole, Doc, Bounded

LEMMA RenamedWhole ==
  ASSUME NEW d \in Whole, NEW n \in Name
  PROVE  LET e == [d EXCEPT !.name = n]
         IN  e \in Whole /\ e.id = d.id /\ e.name = n
  BY DEF Whole, Doc

LEMMA WithoutWhole ==
  ASSUME NEW d \in Whole, NEW l
  PROVE  /\ Without(d, l) \in Whole
         /\ Without(d, l).id = d.id /\ Without(d, l).name = d.name
         /\ Without(d, l).labels = d.labels \ {l}
         /\ Without(d, l).notes = d.notes /\ Without(d, l).events = d.events
  BY DEF Without, Whole, Doc

\* Every edit keeps a document whole, and whose it is.
LEMMA EditsWhole ==
  ASSUME NEW r \in Request, Fits(r), NEW d \in Whole, NEW e \in Edits(r, d)
  PROVE  e \in Whole /\ e.id = d.id /\ e.name = d.name
<1>0. d \in Doc /\ Bounded(d.notes) /\ (d.active # NoTag => d.active \in d.labels)
  BY DEF Whole
<1>1. CASE r.kind = "note"
  <2>1. e = [d EXCEPT !.notes = @ \cup {NextNote(d)}]  BY <1>1 DEF Edits
  <2>2. NextNote(d) \in Nat /\ \A i \in d.notes : i < NextNote(d)  BY NextNoteAbove
  <2>3. d.notes \subseteq Nat  BY <1>0 DEF Doc
  <2>4. Bounded(d.notes \cup {NextNote(d)})  BY <2>2, <2>3 DEF Bounded
  <2> QED BY <1>0, <2>1, <2>2, <2>4 DEF Whole, Doc
<1>2. CASE r.kind = "delete_note"
  <2>1. PICK i \in d.notes : e = [d EXCEPT !.notes = @ \ {i}]  BY <1>2 DEF Edits
  <2>2. Bounded(d.notes \ {i})  BY <1>0 DEF Bounded
  <2> QED BY <1>0, <2>1, <2>2 DEF Whole, Doc
<1>3. CASE r.kind \in {"add_tag", "add_rank", "achievement"}
  <2>1. e = [d EXCEPT !.labels = @ \cup {r.label}]  BY <1>3 DEF Edits
  <2>2. r.label \in Label  BY <1>3 DEF Fits, Label
  <2> QED BY <1>0, <2>1, <2>2 DEF Whole, Doc
<1>4. CASE r.kind = "remove_label"
  <2>1. e = Without(d, r.label)  BY <1>4 DEF Edits
  <2> QED BY <2>1, WithoutWhole
<1>5. CASE r.kind = "active_tag"
  <2>1. e = [d EXCEPT !.active = r.label] /\ r.label \in d.labels \cup {NoTag}
    BY <1>5 DEF Edits
  <2>2. r.label \in Tag \cup {NoTag}  BY <1>5 DEF Fits
  <2> QED BY <1>0, <2>1, <2>2 DEF Whole, Doc
<1>6. CASE r.kind \in {"event", "match_end"}
  <2>1. e = [d EXCEPT !.events = @ \cup {r.n}]  BY <1>6 DEF Edits
  <2>2. r.n \in Nat  BY DEF Request
  <2> QED BY <1>0, <2>1, <2>2 DEF Whole, Doc
<1>7. CASE r.kind \in Deletion \cup {"prelogin"}
  BY <1>7 DEF Edits, Deletion
<1> QED BY <1>1, <1>2, <1>3, <1>4, <1>5, <1>6, <1>7 DEF Request, Kind, Deletion

-----------------------------------------------------------------------------
(* The invariant: what is stored, and what the tasks have at hand.         *)

Waiting == {"player", "find", "label", "prelogin", "persist", "cache",
            "delete", "holders", "unset", "each"}

\* What every step keeps the type of
Typed ==
  /\ mode \in Modes
  /\ mongo \in [Player -> WholeOrNone]
  /\ redis \in [Key -> WholeOrNone]
  /\ exists \subseteq Label
  /\ called \in [Player -> Name]
  /\ online \in [Player -> Name \cup {NoName}]
  /\ requests \in Nat
  /\ pc \in [Task -> Waiting \cup {"idle"}]
  /\ req \in [Task -> Request \cup {NoRequest}]
  /\ prof \in [Task -> WholeOrNone]
  /\ todo \in [Task -> SUBSET Whole]

AtIds == \A p \in Player : mongo[p] # NoDoc => mongo[p].id = p

StoresSound == AtIds /\ KeysMatch /\ CachedAreStored

IsStored(d) == d # NoDoc /\ mongo[d.id] # NoDoc

\* The key that a document is found by, or will be cached by, is its own.
Own(key, d) == key \in {d.name, d.id}

\* The request of a task at work fits the await that it is at, and what it has
\* at hand has a record, save for the player of a prelogin, who is about to get
\* one.
AtWork(t) ==
  /\ \A d \in todo[t] : IsStored(d)
  /\ todo[t] # {} => pc[t] \in {"unset", "each", "persist", "cache"} /\ req[t].kind \in Deletion
  /\ prof[t] # NoDoc => \/ pc[t] \in {"persist", "cache"}
                        \/ pc[t] = "label" /\ req[t].kind # "achievement"
  /\ pc[t] # "idle" =>
      /\ req[t] \in Request /\ Fits(req[t])
      /\ pc[t] = "prelogin" => req[t].kind = "prelogin"
      /\ pc[t] \in {"player", "find", "label"} => req[t].kind \notin Deletion \cup {"prelogin"}
      /\ pc[t] \in {"delete", "holders", "each"} => req[t].kind \in Deletion
      /\ pc[t] = "unset" => req[t].kind = "delete_achievement"
      /\ pc[t] = "label" =>
           \/ req[t].kind = "achievement"
           \/ req[t].kind \in {"add_tag", "add_rank", "remove_label"} /\ IsStored(prof[t])
      /\ pc[t] \in {"persist", "cache"} =>
           prof[t] # NoDoc /\ Own(CacheKey(req[t], prof[t]), prof[t])
      /\ pc[t] = "cache" => IsStored(prof[t])
      /\ pc[t] = "persist" /\ req[t].kind = "match_end" => IsStored(prof[t])

TasksSound == \A t \in Task : AtWork(t)

IInv == Typed /\ StoresSound /\ TasksSound

LEMMA WholeDoc ==
  /\ WholeOrNone \ {NoDoc} = Whole
  /\ NoDoc \notin Whole
  /\ \A d \in Whole : d \in Doc /\ d.id \in Player /\ d.name \in Name /\ d.labels \subseteq Label
  BY NoDocAssumption DEF WholeOrNone, Whole, Doc

LEMMA ModeTyped ==
  ASSUME mode \in Modes
  PROVE  /\ mode.players \subseteq Player /\ mode.names \subseteq Name
         /\ mode.labels \subseteq Label /\ mode.kinds \subseteq Kind
         /\ mode.requests \in Nat
  BY PlayerStoreAssumption DEF Mode

LEMMA CopiesWhole == Typed => Copies \subseteq Whole
<1> SUFFICES ASSUME Typed, NEW d \in Copies PROVE d \in Whole  OBVIOUS
<1> USE WholeDoc
<1>1. d # NoDoc  BY DEF Copies
<1>2. CASE d \in {mongo[p] : p \in Player}  BY <1>1, <1>2 DEF Typed
<1>3. CASE d \in {redis[k] : k \in Key}  BY <1>1, <1>3 DEF Typed
<1>4. CASE d \in {prof[t] : t \in Task}  BY <1>1, <1>4 DEF Typed
<1>5. CASE d \in UNION {todo[t] : t \in Task}  BY <1>5 DEF Typed
<1> QED BY <1>2, <1>3, <1>4, <1>5 DEF Copies

LEMMA IInvTypeOK == IInv => TypeOK
<1> SUFFICES ASSUME IInv PROVE TypeOK  OBVIOUS
<1>1. Copies \subseteq Doc  BY CopiesWhole, WholeDoc DEF IInv
<1>2. ASSUME NEW t \in Task
      PROVE  /\ pc[t] \in {"idle", "player", "find", "label", "prelogin", "persist", "cache",
                           "delete", "holders", "unset", "each"}
             /\ pc[t] # "idle" => req[t] \in Request
             /\ pc[t] \in {"persist", "cache"} => prof[t] # NoDoc
             /\ pc[t] = "label" => prof[t] # NoDoc \/ req[t].kind = "achievement"
  BY DEF IInv, Typed, Waiting, TasksSound, AtWork, IsStored
<1> QED BY <1>1, <1>2 DEF IInv, Typed, StoresSound, AtIds, TypeOK

LEMMA IInvCopiesSound == IInv => CopiesSound
<1> SUFFICES ASSUME IInv PROVE CopiesSound  OBVIOUS
<1>1. ActiveTagOwned  BY CopiesWhole DEF IInv, ActiveTagOwned, Whole
<1> QED BY <1>1 DEF IInv, StoresSound, CopiesSound

LEMMA InitIInv == Init => IInv
<1> SUFFICES ASSUME Init PROVE IInv  OBVIOUS
<1>1. mode.labels \subseteq Label  BY ModeTyped DEF Init
<1>2. Typed  BY <1>1 DEF Init, Typed, WholeOrNone
<1>3. StoresSound  BY DEF Init, StoresSound, AtIds, KeysMatch, CachedAreStored
<1>4. TasksSound  BY DEF Init, TasksSound, AtWork
<1> QED BY <1>2, <1>3, <1>4 DEF IInv

-----------------------------------------------------------------------------
(* Steps of one task.                                                      *)

\* The tasks are as they were, but for t, which is typed.
Only(t) ==
  /\ pc' \in [Task -> Waiting \cup {"idle"}]
  /\ req' \in [Task -> Request \cup {NoRequest}]
  /\ prof' \in [Task -> WholeOrNone]
  /\ todo' \in [Task -> SUBSET Whole]
  /\ \A u \in Task \ {t} :
       pc'[u] = pc[u] /\ req'[u] = req[u] /\ prof'[u] = prof[u] /\ todo'[u] = todo[u]

\* Who is in Mongo stays there.
Remains == \A p \in Player : mongo[p] # NoDoc => mongo'[p] # NoDoc

LEMMA StaysStored ==
  ASSUME Remains, NEW d \in Whole, IsStored(d)
  PROVE  d # NoDoc /\ mongo'[d.id] # NoDoc
  BY WholeDoc DEF Remains, IsStored

\* The others go on with what they have.
LEMMA OthersSound ==
  ASSUME Typed, TasksSound, Remains, NEW t \in Task, Only(t), AtWork(t)'
  PROVE  TasksSound'
<1> SUFFICES ASSUME NEW u \in Task, u # t PROVE AtWork(u)'  BY DEF TasksSound
<1>1. pc'[u] = pc[u] /\ req'[u] = req[u] /\ prof'[u] = prof[u] /\ todo'[u] = todo[u]
  BY DEF Only
<1>2. AtWork(u)  BY DEF TasksSound
<1>3. prof[u] \in WholeOrNone /\ todo[u] \subseteq Whole  BY DEF Typed
<1>4. IsStored(prof[u]) => prof[u] # NoDoc /\ mongo'[prof[u].id] # NoDoc
  BY <1>3, WholeDoc, StaysStored DEF IsStored
<1>5. \A d \in todo[u] : IsStored(d) => d # NoDoc /\ mongo'[d.id] # NoDoc
  BY <1>3, StaysStored
<1> QED BY <1>1, <1>2, <1>4, <1>5 DEF AtWork, IsStored, Own

LEMMA ForgetSound ==
  ASSUME Typed, NEW t \in Task, Forget(t)
  PROVE  Only(t) /\ AtWork(t)' /\ pc'[t] = "idle"
  BY DEF Typed, Forget, Goto, Only, AtWork, WholeOrNone

LEMMA ApplySound ==
  ASSUME Typed, NEW t \in Task, AtWork(t), UNCHANGED mongo,
         pc[t] \in {"player", "find", "label"},
         NEW d \in Whole, IsStored(d), Own(CacheKey(req[t], d), d), Apply(t, d)
  PROVE  Only(t) /\ AtWork(t)'
<1>1. CASE Forget(t)  BY <1>1, ForgetSound
<1>2. ASSUME NEW e \in Edits(req[t], d),
             prof' = [prof EXCEPT ![t] = e],
             Goto(t, IF req[t].kind \in {"event", "match_end"} THEN "cache" ELSE "persist"),
             UNCHANGED <<req, todo>>
      PROVE  Only(t) /\ AtWork(t)'
  <2>1. req[t] \in Request /\ Fits(req[t])  BY DEF AtWork
  <2>2. e \in Whole /\ e.id = d.id /\ e.name = d.name  BY <2>1, EditsWhole
  <2>3. e # NoDoc /\ mongo'[e.id] # NoDoc  BY <2>2, WholeDoc DEF IsStored
  <2>4. prof'[t] = e /\ prof' \in [Task -> WholeOrNone]
    BY <1>2, <2>2 DEF Typed, WholeOrNone
  <2>5. pc'[t] \in {"cache", "persist"} /\ pc' \in [Task -> Waiting \cup {"idle"}]
    BY <1>2 DEF Goto, Typed, Waiting
  <2>6. Only(t)  BY <1>2, <2>4, <2>5 DEF Only, Typed, Goto
  <2>7. Own(CacheKey(req[t], e), e)  BY <2>2 DEF Own, CacheKey
  <2>8. AtWork(t)'  BY <1>2, <2>1, <2>3, <2>4, <2>5, <2>7 DEF AtWork, IsStored, Own, CacheKey
  <2> QED BY <2>6, <2>8
<1> QED BY <1>1, <1>2 DEF Apply

LEMMA FoundSound ==
  ASSUME Typed, NEW t \in Task, AtWork(t), UNCHANGED mongo,
         pc[t] \in {"player", "find"},
         NEW d \in Whole, IsStored(d), Own(req[t].key, d), Found(t, d)
  PROVE  Only(t) /\ AtWork(t)'
<1>1. Own(CacheKey(req[t], d), d)  BY DEF Own, CacheKey
<1>2. CASE Apply(t, d)  BY <1>1, <1>2, ApplySound
<1>3. CASE /\ req[t].kind \in {"add_tag", "add_rank", "remove_label"}
           /\ prof' = [prof EXCEPT ![t] = d]
           /\ Goto(t, "label")
           /\ UNCHANGED <<req, todo>>
  <2>1. prof'[t] = d /\ pc'[t] = "label"  BY <1>3 DEF Goto, Typed
  <2>2. Only(t)  BY <1>3 DEF Only, Typed, Goto, Waiting, WholeOrNone
  <2>3. AtWork(t)'  BY <1>3, <2>1 DEF AtWork, IsStored
  <2> QED BY <2>2, <2>3
<1> QED BY <1>2, <1>3 DEF Found

-----------------------------------------------------------------------------
(* The actions.                                                            *)

\* A request comes, of a kind that fits the await that it begins at.
LEMMA BeginSound ==
  ASSUME Typed, TasksSound, NEW t \in Task, NEW kind, NEW key, NEW label, NEW where,
         Begin(t, kind, key, label, where), mode' = mode,
         key \in Key, label \in Label \cup {NoLabel, NoTag},
         kind = "prelogin" => key \in Player,
         kind \in {"add_tag", "delete_tag"} => label \in Tag,
         kind \in {"add_rank", "delete_rank"} => label \in Rank,
         kind \in {"achievement", "delete_achievement"} => label \in Achievement,
         kind = "remove_label" => label \in Tag \cup Rank,
         kind = "active_tag" => label \in Tag \cup {NoTag},
         \/ where = "prelogin" /\ kind = "prelogin"
         \/ where = "player" /\ kind \notin Deletion \cup {"prelogin"}
         \/ where = "label" /\ kind = "achievement"
         \/ where = "delete" /\ kind \in Deletion
  PROVE  Only(t) /\ TasksSound' /\ UNCHANGED stores /\ requests' \in Nat
<1> DEFINE r == [kind |-> kind, key |-> key, label |-> label,
                 name |-> IF kind = "prelogin" THEN called[key] ELSE NoName,
                 n |-> requests + 1]
<1>1. r \in Request /\ Fits(r) /\ r.kind = kind
  <2>1. kind \in Kind  BY ModeTyped DEF Begin, Typed
  <2>2. kind = "prelogin" => called[key] \in Name  BY DEF Typed
  <2>3. requests + 1 \in Nat  BY DEF Typed
  <2> QED BY <2>1, <2>2, <2>3 DEF Request, Fits
<1>2. req' = [req EXCEPT ![t] = r] /\ pc' = [pc EXCEPT ![t] = where]
      /\ UNCHANGED <<stores, prof, todo>> /\ requests' = requests + 1
  BY DEF Begin, Goto
<1> HIDE DEF r
<1>3. Only(t)  BY <1>1, <1>2 DEF Only, Typed, Waiting
<1>4. mongo' = mongo /\ Remains  BY <1>2 DEF stores, Remains
<1>5. req'[t] = r /\ pc'[t] = where  BY <1>2 DEF Typed
<1>6. todo'[t] = {} /\ prof'[t] = NoDoc
  BY <1>2 DEF TasksSound, AtWork, Begin
<1>7. AtWork(t)'  BY <1>1, <1>5, <1>6 DEF AtWork, IsStored, Deletion
<1> QED BY <1>2, <1>3, <1>4, <1>7, OthersSound DEF Typed

\* Where the stores stay as they are, so does what is true of them.
LEMMA SameStores ==
  ASSUME IInv, UNCHANGED <<mongo, redis>>
  PROVE  StoresSound' /\ Remains
  BY DEF IInv, StoresSound, AtIds, KeysMatch, CachedAreStored, Remains

\* The invariant of a step that leaves the stores alone
LEMMA OnlyTasks ==
  ASSUME IInv, UNCHANGED <<mode, mongo, redis, called, online, requests>>,
         exists' \subseteq exists,
         NEW t \in Task, Only(t), AtWork(t)'
  PROVE  IInv'
<1>1. StoresSound' /\ Remains  BY SameStores
<1>2. TasksSound'  BY <1>1, OthersSound DEF IInv
<1>3. Typed'  BY DEF IInv, Typed, Only
<1> QED BY <1>1, <1>2, <1>3 DEF IInv

\* The invariant of the beginning of a request
LEMMA OnlyBegins ==
  ASSUME IInv, UNCHANGED <<mode, called, stores>>, requests' \in Nat,
         online' \in [Player -> Name \cup {NoName}],
         NEW t \in Task, Only(t), TasksSound'
  PROVE  IInv'
<1>1. StoresSound'  BY SameStores DEF stores
<1>2. Typed'  BY DEF IInv, Typed, Only, stores
<1> QED BY <1>1, <1>2 DEF IInv

LEMMA PreloginIInv ==
  ASSUME IInv, mode' = mode, NEW t \in Task, NEW p \in mode.players, Prelogin(t, p)
  PROVE  IInv'
<1>1. p \in Player /\ p \in Key  BY ModeTyped DEF IInv, Typed, Key
<1>2. Begin(t, "prelogin", p, NoLabel, "prelogin")  BY DEF Prelogin
<1>3. Only(t) /\ TasksSound' /\ UNCHANGED stores /\ requests' \in Nat
  BY <1>1, <1>2, BeginSound DEF IInv
<1>4. online' \in [Player -> Name \cup {NoName}] /\ called' = called
  BY <1>1 DEF Prelogin, Begin, IInv, Typed
<1> QED BY <1>3, <1>4, OnlyBegins

LEMMA AskIInv ==
  ASSUME IInv, mode' = mode, NEW t \in Task, NEW kind \in mode.kinds,
         NEW key \in mode.names \cup mode.players,
         NEW label \in mode.labels \cup {NoLabel, NoTag},
         Ask(t, kind, key, label) \/ Delete(t, kind, key, label)
  PROVE  IInv'
<1>1. key \in Key /\ label \in Label \cup {NoLabel, NoTag}
  BY ModeTyped DEF IInv, Typed, Key
<1>2. CASE Ask(t, kind, key, label)
  <2>1. Begin(t, kind, key, label, "player") /\ UNCHANGED <<online, called>>
    BY <1>2 DEF Ask, Begin
  <2>2. Only(t) /\ TasksSound' /\ UNCHANGED stores /\ requests' \in Nat
    BY <1>1, <1>2, <2>1, BeginSound DEF IInv, Ask, Deletion
  <2> QED BY <2>1, <2>2, OnlyBegins DEF IInv, Typed
<1>3. CASE Delete(t, kind, key, label)
  <2>1. Begin(t, kind, key, label, "delete") /\ UNCHANGED <<online, called>>
    BY <1>3 DEF Delete, Begin
  <2>2. Only(t) /\ TasksSound' /\ UNCHANGED stores /\ requests' \in Nat
    BY <1>1, <1>3, <2>1, BeginSound DEF IInv, Delete, Deletion
  <2> QED BY <2>1, <2>2, OnlyBegins DEF IInv, Typed
<1> QED BY <1>2, <1>3

LEMMA PlayIInv ==
  ASSUME IInv, mode' = mode, NEW t \in Task, NEW kind, NEW p \in mode.players,
         Play(t, kind, p)
  PROVE  IInv'
<1>1. online[p] \in Key  BY ModeTyped DEF IInv, Typed, Key, Play
<1>2. Begin(t, kind, online[p], NoLabel, "player") /\ UNCHANGED <<online, called>>
  BY DEF Play, Begin
<1>3. Only(t) /\ TasksSound' /\ UNCHANGED stores /\ requests' \in Nat
  BY <1>1, <1>2, BeginSound DEF IInv, Play, Deletion
<1> QED BY <1>2, <1>3, OnlyBegins DEF IInv, Typed

LEMMA AchieveIInv ==
  ASSUME IInv, mode' = mode, NEW t \in Task, NEW p \in mode.players, NEW label,
         Achieve(t, p, label)
  PROVE  IInv'
<1>1. online[p] \in Key  BY ModeTyped DEF IInv, Typed, Key, Achieve
<1>2. Begin(t, "achievement", online[p], label, "label") /\ UNCHANGED <<online, called>>
  BY DEF Achieve, Begin
<1>3. Only(t) /\ TasksSound' /\ UNCHANGED stores /\ requests' \in Nat
  BY <1>1, <1>2, BeginSound DEF IInv, Achieve, Deletion, Label
<1> QED BY <1>2, <1>3, OnlyBegins DEF IInv, Typed

LEMMA LookUpIInv ==
  ASSUME IInv, mode' = mode, NEW t \in Task, LookUp(t)
  PROVE  IInv'
<1>1. /\ pc[t] = "player" /\ UNCHANGED <<mongo, redis, exists, called, online, requests>>
      /\ AtWork(t) /\ req[t] \in Request
  BY DEF LookUp, stores, IInv, TasksSound, AtWork
<1>2. req[t].key \in Key  BY <1>1 DEF Request
<1>3. CASE redis[req[t].key] # NoDoc /\ Found(t, redis[req[t].key])
  <2>1. redis[req[t].key] \in Whole  BY <1>2, <1>3 DEF IInv, Typed, WholeOrNone
  <2>2. IsStored(redis[req[t].key]) /\ Own(req[t].key, redis[req[t].key])
    BY <1>2, <1>3 DEF IInv, StoresSound, CachedAreStored, KeysMatch, IsStored, Own
  <2>3. Only(t) /\ AtWork(t)'  BY <1>1, <1>3, <2>1, <2>2, FoundSound DEF IInv
  <2> QED BY <1>1, <2>3, OnlyTasks
<1>4. CASE Goto(t, "find") /\ UNCHANGED <<req, prof, todo>>
  <2>1. Only(t)  BY <1>4 DEF Only, IInv, Typed, Goto, Waiting
  <2>2. AtWork(t)'  BY <1>1, <1>4 DEF AtWork, Goto, IsStored, IInv, Typed
  <2> QED BY <1>1, <2>1, <2>2, OnlyTasks
<1> QED BY <1>3, <1>4 DEF LookUp

LEMMA FindStoredIInv ==
  ASSUME IInv, mode' = mode, NEW t \in Task, FindStored(t)
  PROVE  IInv'
<1>1. /\ pc[t] = "find" /\ UNCHANGED <<mongo, redis, exists, called, online, requests>>
      /\ AtWork(t)
  BY DEF FindStored, stores, IInv, TasksSound
<1>2. ASSUME NEW p \in Player, mongo[p] # NoDoc, p = req[t].key \/ mongo[p].name = req[t].key,
             Found(t, mongo[p])
      PROVE  IInv'
  <2>1. mongo[p] \in Whole /\ mongo[p].id = p
    BY <1>2 DEF IInv, Typed, WholeOrNone, StoresSound, AtIds
  <2>2. IsStored(mongo[p]) /\ Own(req[t].key, mongo[p])  BY <1>2, <2>1 DEF IsStored, Own
  <2>3. Only(t) /\ AtWork(t)'  BY <1>1, <1>2, <2>1, <2>2, FoundSound DEF IInv
  <2> QED BY <1>1, <2>3, OnlyTasks
<1>3. CASE Forget(t)  BY <1>1, <1>3, ForgetSound, OnlyTasks DEF IInv
<1> QED BY <1>2, <1>3 DEF FindStored

LEMMA FindLabelIInv ==
  ASSUME IInv, mode' = mode, NEW t \in Task, FindLabel(t)
  PROVE  IInv'
<1>1. /\ pc[t] = "label" /\ UNCHANGED <<mongo, redis, exists, called, online, requests>>
      /\ AtWork(t)
  BY DEF FindLabel, stores, IInv, TasksSound
<1>2. CASE Forget(t)  BY <1>1, <1>2, ForgetSound, OnlyTasks DEF IInv
<1>3. CASE req[t].kind = "achievement" /\ Goto(t, "player") /\ UNCHANGED <<req, prof, todo>>
  <2>1. Only(t)  BY <1>3 DEF Only, IInv, Typed, Goto, Waiting
  <2>2. AtWork(t)'  BY <1>1, <1>3 DEF AtWork, Goto, IsStored, IInv, Typed
  <2> QED BY <1>1, <2>1, <2>2, OnlyTasks
<1>4. CASE req[t].kind # "achievement" /\ Apply(t, prof[t])
  <2>1. req[t].kind \in {"add_tag", "add_rank", "remove_label"} /\ IsStored(prof[t])
    BY <1>1, <1>4 DEF AtWork
  <2>2. prof[t] \in Whole  BY <2>1 DEF IsStored, IInv, Typed, WholeOrNone
  <2>3. Own(CacheKey(req[t], prof[t]), prof[t])  BY <2>1 DEF Own, CacheKey
  <2>4. Only(t) /\ AtWork(t)'  BY <1>1, <1>4, <2>1, <2>2, <2>3, ApplySound DEF IInv
  <2> QED BY <1>1, <2>4, OnlyTasks
<1> QED BY <1>2, <1>3, <1>4 DEF FindLabel

LEMMA PreloginPlayerIInv ==
  ASSUME IInv, mode' = mode, NEW t \in Task, PreloginPlayer(t)
  PROVE  IInv'
<1> DEFINE p == req[t].key
           d == IF mongo[p] = NoDoc THEN NewPlayer(p, req[t].name)
                ELSE [mongo[p] EXCEPT !.name = req[t].name]
<1>1. /\ pc[t] = "prelogin"
      /\ UNCHANGED <<mongo, redis, exists, called, online, requests, req, todo>>
      /\ AtWork(t)
  BY DEF PreloginPlayer, stores, IInv, TasksSound
<1>2. prof' = [prof EXCEPT ![t] = d] /\ Goto(t, "persist")  BY DEF PreloginPlayer
<1>3. req[t].kind = "prelogin" /\ p \in Player /\ req[t].name \in Name
  BY <1>1 DEF AtWork, Fits
<1>4. d \in Whole /\ d.name = req[t].name
  <2>1. mongo[p] # NoDoc => mongo[p] \in Whole
    BY <1>3 DEF IInv, Typed, WholeOrNone
  <2> QED BY <1>3, <2>1, NewPlayerWhole, RenamedWhole
<1> HIDE DEF d
<1>5. Only(t)  BY <1>1, <1>2, <1>4 DEF Only, IInv, Typed, Goto, Waiting, WholeOrNone
<1>6. prof'[t] = d /\ pc'[t] = "persist"  BY <1>2 DEF IInv, Typed, Goto
<1>7. Own(CacheKey(req[t], d), d)  BY <1>3, <1>4 DEF Own, CacheKey
<1>8. AtWork(t)'
  BY <1>1, <1>3, <1>4, <1>6, <1>7, WholeDoc DEF AtWork, IsStored, Own, CacheKey
<1> QED BY <1>1, <1>5, <1>8, OnlyTasks

LEMMA PersistIInv ==
  ASSUME IInv, mode' = mode, NEW t \in Task, Persist(t)
  PROVE  IInv'
<1>1. /\ pc[t] = "persist" /\ UNCHANGED <<redis, exists, called, online, requests>>
      /\ AtWork(t)
      /\ mongo' = [mongo EXCEPT ![prof[t].id] = prof[t]]
  BY DEF Persist, IInv, TasksSound
<1>2. prof[t] \in Whole /\ prof[t] # NoDoc /\ prof[t].id \in Player
  BY <1>1, WholeDoc DEF AtWork, IInv, Typed, WholeOrNone
<1>3. mongo' \in [Player -> WholeOrNone] /\ AtIds' /\ Remains /\ mongo'[prof[t].id] # NoDoc
  BY <1>1, <1>2 DEF IInv, Typed, WholeOrNone, StoresSound, AtIds, Remains
<1>4. StoresSound'
  <2>1. KeysMatch'  BY <1>1 DEF IInv, StoresSound, KeysMatch
  <2>2. CachedAreStored'
    <3> SUFFICES ASSUME NEW k \in Key, redis[k] # NoDoc PROVE mongo'[redis[k].id] # NoDoc
      BY <1>1 DEF CachedAreStored
    <3>1. redis[k] \in Whole  BY DEF IInv, Typed, WholeOrNone
    <3>2. IsStored(redis[k])  BY DEF IInv, StoresSound, CachedAreStored, IsStored
    <3> QED BY <1>3, <3>1, <3>2, StaysStored
  <2> QED BY <1>3, <2>1, <2>2 DEF StoresSound
<1>5. Only(t) /\ AtWork(t)'
  <2>1. CASE Forget(t)  BY <2>1, ForgetSound DEF IInv
  <2>2. CASE Goto(t, "cache") /\ UNCHANGED <<req, prof, todo>>
    <3>1. Only(t)  BY <2>2 DEF Only, IInv, Typed, Goto, Waiting
    <3>2. pc'[t] = "cache"  BY <2>2 DEF Goto, IInv, Typed
    <3>3. \A d \in todo[t] : d # NoDoc /\ mongo'[d.id] # NoDoc
      BY <1>1, <1>3, StaysStored DEF AtWork, IInv, Typed
    <3>4. AtWork(t)'  BY <1>1, <1>2, <1>3, <2>2, <3>2, <3>3 DEF AtWork, IsStored, Own, CacheKey
    <3> QED BY <3>1, <3>4
  <2> QED BY <2>1, <2>2 DEF Persist
<1>6. Typed'  BY <1>1, <1>3, <1>5 DEF IInv, Typed, Only
<1>7. TasksSound'  BY <1>3, <1>5, OthersSound DEF IInv
<1> QED BY <1>4, <1>6, <1>7 DEF IInv

LEMMA CacheItIInv ==
  ASSUME IInv, mode' = mode, NEW t \in Task, CacheIt(t)
  PROVE  IInv'
<1> DEFINE key == CacheKey(req[t], prof[t])
<1>1. /\ pc[t] = "cache" /\ UNCHANGED <<mongo, exists, called, online, requests>>
      /\ AtWork(t)
      /\ redis' = [redis EXCEPT ![key] = prof[t]]
  BY DEF CacheIt, IInv, TasksSound
<1>2. IsStored(prof[t]) /\ Own(key, prof[t]) /\ prof[t] # NoDoc /\ req[t] \in Request
  BY <1>1 DEF AtWork, IsStored
<1>3. prof[t] \in Whole /\ key \in Key
  BY <1>2, WholeDoc DEF IInv, Typed, WholeOrNone, Own, Key
<1> HIDE DEF key
<1>4. redis' \in [Key -> WholeOrNone]  BY <1>1, <1>3 DEF IInv, Typed, WholeOrNone
<1>5. StoresSound'
  <2>1. \A k \in Key : redis'[k] = IF k = key THEN prof[t] ELSE redis[k]
    BY <1>1 DEF IInv, Typed
  <2>2. KeysMatch'  BY <1>2, <2>1 DEF IInv, StoresSound, KeysMatch, Own
  <2>3. CachedAreStored'
    BY <1>1, <1>2, <2>1 DEF IInv, StoresSound, CachedAreStored, IsStored
  <2>4. AtIds'  BY <1>1 DEF IInv, StoresSound, AtIds
  <2> QED BY <2>2, <2>3, <2>4 DEF StoresSound
<1>6. Only(t) /\ AtWork(t)'
  <2>1. CASE Forget(t)  BY <2>1, <1>1, ForgetSound DEF IInv
  <2>2. CASE req[t].kind = "match_end" /\ Goto(t, "persist") /\ UNCHANGED <<req, prof, todo>>
    <3>1. Only(t)  BY <2>2 DEF Only, IInv, Typed, Goto, Waiting
    <3>2. pc'[t] = "persist"  BY <2>2 DEF Goto, IInv, Typed
    <3>3. AtWork(t)'  BY <1>1, <1>2, <2>2, <3>2 DEF AtWork, IsStored, Own, CacheKey
    <3> QED BY <3>1, <3>3
  <2>3. CASE /\ req[t].kind \in Deletion
             /\ Goto(t, "each")
             /\ prof' = [prof EXCEPT ![t] = NoDoc]
             /\ UNCHANGED <<req, todo>>
    <3>1. Only(t)  BY <2>3 DEF Only, IInv, Typed, Goto, Waiting, WholeOrNone
    <3>2. pc'[t] = "each" /\ prof'[t] = NoDoc  BY <2>3 DEF Goto, IInv, Typed
    <3>3. AtWork(t)'  BY <1>1, <1>2, <2>3, <3>2 DEF AtWork, IsStored
    <3> QED BY <3>1, <3>3
  <2> QED BY <2>1, <2>2, <2>3 DEF CacheIt, Proceed
<1>7. TasksSound'
  <2>1. Remains  BY <1>1 DEF Remains
  <2> QED BY <1>6, <2>1, OthersSound DEF IInv
<1>8. Typed'  BY <1>1, <1>4, <1>6 DEF IInv, Typed, Only
<1> QED BY <1>5, <1>7, <1>8 DEF IInv

LEMMA DeleteLabelIInv ==
  ASSUME IInv, mode' = mode, NEW t \in Task, DeleteLabel(t)
  PROVE  IInv'
<1>1. /\ pc[t] = "delete" /\ UNCHANGED <<mongo, redis, called, online, requests>>
      /\ AtWork(t) /\ exists' \subseteq exists
  BY DEF DeleteLabel, IInv, TasksSound
<1>2. CASE Forget(t)  BY <1>1, <1>2, ForgetSound, OnlyTasks DEF IInv
<1>3. CASE Goto(t, "holders") /\ UNCHANGED <<req, prof, todo>>
  <2>1. Only(t)  BY <1>3 DEF Only, IInv, Typed, Goto, Waiting
  <2>2. AtWork(t)'  BY <1>1, <1>3 DEF AtWork, Goto, IsStored, IInv, Typed
  <2> QED BY <1>1, <2>1, <2>2, OnlyTasks
<1> QED BY <1>2, <1>3 DEF DeleteLabel

LEMMA FindHoldersIInv ==
  ASSUME IInv, mode' = mode, NEW t \in Task, FindHolders(t)
  PROVE  IInv'
<1> DEFINE label == req[t].label
           copies == {Without(mongo[p], label) : p \in Holders(label)}
<1>1. /\ pc[t] = "holders" /\ UNCHANGED <<mongo, redis, exists, called, online, requests>>
      /\ AtWork(t)
  BY DEF FindHolders, stores, IInv, TasksSound
<1>2. CASE Forget(t)  BY <1>1, <1>2, ForgetSound, OnlyTasks DEF IInv
<1>3. CASE /\ todo' = [todo EXCEPT ![t] = copies]
           /\ Goto(t, IF label \in Achievement THEN "unset" ELSE "each")
           /\ UNCHANGED <<req, prof>>
  <2>1. \A d \in copies : d \in Whole /\ d # NoDoc /\ mongo[d.id] # NoDoc
    <3>1. \A p \in Holders(label) : mongo[p] \in Whole /\ mongo[p].id = p /\ mongo[p] # NoDoc
      BY DEF Holders, IInv, Typed, WholeOrNone, StoresSound, AtIds
    <3> QED BY <3>1, WithoutWhole, WholeDoc
  <2>2. label \in Achievement => req[t].kind = "delete_achievement"
    BY <1>1, PlayerStoreAssumption DEF AtWork, Fits, Deletion
  <2>3. Only(t)  BY <1>3, <2>1 DEF Only, IInv, Typed, Goto, Waiting
  <2>4. todo'[t] = copies /\ pc'[t] = IF label \in Achievement THEN "unset" ELSE "each"
    BY <1>3 DEF Goto, IInv, Typed
  <2>5. AtWork(t)'  BY <1>1, <1>3, <2>1, <2>2, <2>4 DEF AtWork, IsStored
  <2> QED BY <1>1, <2>3, <2>5, OnlyTasks
<1> QED BY <1>2, <1>3 DEF FindHolders

LEMMA UnsetAchievementIInv ==
  ASSUME IInv, mode' = mode, NEW t \in Task, UnsetAchievement(t)
  PROVE  IInv'
<1> DEFINE label == req[t].label
           Unset(p) == [mongo[p] EXCEPT !.labels = @ \ {label}]
<1>1. /\ pc[t] = "unset" /\ UNCHANGED <<redis, exists, called, online, requests, req, prof, todo>>
      /\ Goto(t, "each")
      /\ AtWork(t)
      /\ mongo' = [p \in Player |-> IF mongo[p] = NoDoc THEN NoDoc ELSE Unset(p)]
  BY DEF UnsetAchievement, IInv, TasksSound
<1>2. label \in Achievement  BY <1>1 DEF AtWork, Fits
<1>3. ASSUME NEW p \in Player, mongo[p] # NoDoc
      PROVE  Unset(p) \in Whole /\ Unset(p).id = p
  <2>1. mongo[p] \in Whole /\ mongo[p].id = p
    BY <1>3 DEF IInv, Typed, WholeOrNone, StoresSound, AtIds
  <2>2. mongo[p].active # NoTag => mongo[p].active # label
    BY <1>2, <2>1, PlayerStoreAssumption DEF Whole, Doc
  <2> QED BY <2>1, <2>2 DEF Whole, Doc
<1>4. mongo' \in [Player -> WholeOrNone] /\ AtIds' /\ Remains
  BY <1>1, <1>3, WholeDoc DEF WholeOrNone, AtIds, Remains
<1>5. StoresSound'
  <2>1. KeysMatch'  BY <1>1 DEF IInv, StoresSound, KeysMatch
  <2>2. CachedAreStored'
    <3> SUFFICES ASSUME NEW k \in Key, redis[k] # NoDoc PROVE mongo'[redis[k].id] # NoDoc
      BY <1>1 DEF CachedAreStored
    <3>1. redis[k] \in Whole  BY DEF IInv, Typed, WholeOrNone
    <3>2. IsStored(redis[k])  BY DEF IInv, StoresSound, CachedAreStored, IsStored
    <3> QED BY <1>4, <3>1, <3>2, StaysStored
  <2> QED BY <1>4, <2>1, <2>2 DEF StoresSound
<1>6. Only(t)  BY <1>1 DEF Only, IInv, Typed, Goto, Waiting
<1>7. AtWork(t)'
  <2>1. pc'[t] = "each"  BY <1>1 DEF Goto, IInv, Typed
  <2>2. \A d \in todo[t] : d # NoDoc /\ mongo'[d.id] # NoDoc
    BY <1>1, <1>4, StaysStored DEF AtWork, IInv, Typed
  <2> QED BY <1>1, <2>1, <2>2 DEF AtWork, IsStored, Deletion
<1>8. TasksSound'  BY <1>4, <1>6, <1>7, OthersSound DEF IInv
<1>9. Typed'  BY <1>1, <1>4, <1>6 DEF IInv, Typed, Only
<1> QED BY <1>5, <1>8, <1>9 DEF IInv

LEMMA NextHolderIInv ==
  ASSUME IInv, mode' = mode, NEW t \in Task, NextHolder(t)
  PROVE  IInv'
<1>1. /\ pc[t] = "each" /\ UNCHANGED <<mongo, redis, exists, called, online, requests>>
      /\ AtWork(t)
  BY DEF NextHolder, stores, IInv, TasksSound
<1>2. CASE Forget(t)  BY <1>1, <1>2, ForgetSound, OnlyTasks DEF IInv
<1>3. ASSUME NEW d \in todo[t],
             prof' = [prof EXCEPT ![t] = d],
             todo' = [todo EXCEPT ![t] = @ \ {d}],
             Goto(t, IF req[t].kind = "delete_achievement" THEN "cache" ELSE "persist"),
             UNCHANGED req
      PROVE  IInv'
  <2>1. d \in Whole /\ IsStored(d)  BY <1>1 DEF AtWork, IInv, Typed
  <2>2. Only(t)  BY <1>3, <2>1 DEF Only, IInv, Typed, Goto, Waiting, WholeOrNone
  <2>3. /\ prof'[t] = d /\ todo'[t] \subseteq todo[t]
        /\ pc'[t] \in {"cache", "persist"}
    BY <1>3 DEF Goto, IInv, Typed
  <2>4. req[t].kind \in Deletion /\ Own(CacheKey(req[t], d), d)
    BY <1>1 DEF AtWork, Own, CacheKey, Deletion
  <2>5. AtWork(t)'
    BY <1>1, <1>3, <2>1, <2>3, <2>4 DEF AtWork, IsStored, Own, CacheKey
  <2> QED BY <1>1, <2>2, <2>5, OnlyTasks
<1> QED BY <1>2, <1>3 DEF NextHolder

LEMMA DieIInv ==
  ASSUME IInv, mode' = mode, NEW t \in Task, Die(t)
  PROVE  IInv'
  BY ForgetSound, OnlyTasks DEF Die, stores, IInv

LEMMA AccountIInv ==
  ASSUME IInv, mode' = mode, NEW p \in mode.players,
         Leave(p) \/ \E n \in mode.names : Rename(p, n)
  PROVE  IInv'
<1>1. /\ UNCHANGED <<mongo, redis, exists, requests, pc, req, prof, todo>>
      /\ called' \in [Player -> Name]
      /\ online' \in [Player -> Name \cup {NoName}]
  BY ModeTyped DEF Leave, Rename, stores, IInv, Typed
<1>2. Typed'  BY <1>1 DEF IInv, Typed
<1>3. StoresSound'  BY <1>1, SameStores
<1>4. TasksSound'  BY <1>1 DEF IInv, TasksSound, AtWork, IsStored
<1> QED BY <1>2, <1>3, <1>4 DEF IInv

LEMMA NextIInv == IInv /\ [Next]_vars => IInv'
<1> SUFFICES ASSUME IInv, [Next]_vars PROVE IInv'  OBVIOUS
<1>1. ASSUME mode' = mode, NEW t \in Task, Step(t) PROVE IInv'
  BY <1>1, PreloginIInv, AskIInv, PlayIInv, AchieveIInv, LookUpIInv, FindStoredIInv,
     FindLabelIInv, PreloginPlayerIInv, PersistIInv, CacheItIInv, DeleteLabelIInv,
     FindHoldersIInv, UnsetAchievementIInv, NextHolderIInv, DieIInv
  DEF Step
<1>2. CASE UNCHANGED vars
  BY <1>2 DEF vars, stores, IInv, Typed, StoresSound, AtIds, KeysMatch, CachedAreStored,
              TasksSound, AtWork, IsStored
<1> QED BY <1>1, <1>2, AccountIInv DEF Next

\* What CopiesSound rests on: the documents in both stores and in the hands of
\* every task are whole, and a task that is about to write a player to Redis
\* has one that Database::save has stored.
THEOREM InvariantHolds == Spec => []IInv
  BY InitIInv, NextIInv, PTL DEF Spec

\* Documents are well formed and at their ids, and tasks that are about to write
\* have what they write (Database::save and Cache::set take a whole document).
THEOREM TypeCorrect == Spec => []TypeOK
  BY InvariantHolds, IInvTypeOK, PTL

\* Whatever overlaps and dies, each copy of a player is whole, is where it is
\* looked for, and has a record.
THEOREM CopiesAreSound == Spec => []CopiesSound
  BY InvariantHolds, IInvCopiesSound, PTL

-----------------------------------------------------------------------------
(* One request after the other: who is online is found by its name.        *)

OneAtWork == \A t, u \in Task : pc[t] # "idle" /\ pc[u] # "idle" => t = u

\* Two accounts have two names, and who is online has not changed its name.
AccountsApart ==
  /\ \A p, q \in Player : called[p] = called[q] => p = q
  /\ \A p \in Player : online[p] # NoName => online[p] = called[p]

OnlyNames == \A k \in Key \ Name : redis[k] = NoDoc

Named(d) == d.name = called[d.id]

\* Where nobody changes names, each document has the name of its account.
NamesKept ==
  ~mode.renames =>
    /\ \A p \in Player : mongo[p] # NoDoc => Named(mongo[p])
    /\ \A k \in Key : redis[k] # NoDoc => Named(redis[k])
    /\ \A t \in Task :
         /\ \A d \in todo[t] : Named(d)
         /\ prof[t] # NoDoc => Named(prof[t])
         /\ pc[t] # "idle" /\ req[t].kind = "prelogin" => req[t].name = called[req[t].key]

ComesIn(p) == \E t \in Task : pc[t] # "idle" /\ req[t].kind = "prelogin" /\ req[t].key = p

IsFound(p) == redis[online[p]] # NoDoc /\ redis[online[p]].id = p

OnlineCached == \A p \in Player : online[p] # NoName => IsFound(p) \/ ComesIn(p)

\* Nobody else is online with the name.
Bears(p, name) == \A q \in Player : online[q] = name => q = p

\* What a task has found by a name, and what it will write, is of the one who
\* is online with it, if anybody is.
AtNames(t) ==
  pc[t] # "idle" =>
    /\ req[t].kind \in mode.kinds
    /\ req[t].kind \notin Deletion \cup {"prelogin"} => req[t].key \in Name
    /\ pc[t] = "find" => redis[req[t].key] = NoDoc
    /\ req[t].kind = "prelogin" =>
         /\ pc[t] \in {"prelogin", "persist", "cache"}
         /\ Bears(req[t].key, req[t].name)
         /\ online[req[t].key] \in {NoName, req[t].name}
         /\ prof[t] # NoDoc => prof[t].id = req[t].key /\ prof[t].name = req[t].name
    /\ prof[t] # NoDoc => Bears(prof[t].id, CacheKey(req[t], prof[t]))

OrderInv ==
  /\ OneAtWork /\ AccountsApart /\ OnlyNames /\ NamesKept /\ OnlineCached
  /\ \A t \in Task : AtNames(t)

\* A task at work is alone, and the others have nothing at hand.
Alone(t) == \A u \in Task \ {t} : pc[u] = "idle" /\ prof[u] = NoDoc /\ todo[u] = {}

LEMMA AtWorkAlone ==
  ASSUME IInv, OneAtWork, NEW t \in Task, pc[t] # "idle", Only(t)
  PROVE  Alone(t) /\ Alone(t)' /\ OneAtWork'
<1>1. \A u \in Task \ {t} : pc[u] = "idle"  BY DEF OneAtWork
<1>2. Alone(t)  BY <1>1 DEF Alone, IInv, TasksSound, AtWork
<1>3. Alone(t)'  BY <1>2 DEF Alone, Only
<1>4. OneAtWork'  BY <1>3 DEF Alone, OneAtWork
<1> QED BY <1>2, <1>3, <1>4

\* Steps of a task that is at work, where Redis and the accounts stay: what is
\* to be shown is about this task.
LEMMA OrderOfTask ==
  ASSUME IInv, OrderInv, Orderly, NEW t \in Task, pc[t] # "idle", Only(t),
         UNCHANGED <<mode, redis, online, called>>,
         pc'[t] = "idle" \/ req'[t] = req[t],
         req[t].kind = "prelogin" => pc'[t] # "idle",
         ~mode.renames => \A p \in Player : mongo'[p] # NoDoc => Named(mongo'[p]),
         ~mode.renames => /\ \A d \in todo'[t] : Named(d)
                          /\ prof'[t] # NoDoc => Named(prof'[t]),
         AtNames(t)'
  PROVE  OrderInv'
<1>1. Alone(t) /\ Alone(t)' /\ OneAtWork'  BY AtWorkAlone DEF OrderInv
<1>2. AccountsApart' /\ OnlyNames'  BY DEF OrderInv, AccountsApart, OnlyNames
<1>3. NamesKept'
  <2> SUFFICES ASSUME ~mode.renames
               PROVE  /\ \A p \in Player : mongo'[p] # NoDoc => Named(mongo'[p])
                      /\ \A k \in Key : redis[k] # NoDoc => Named(redis[k])
                      /\ \A u \in Task :
                           /\ \A d \in todo'[u] : Named(d)
                           /\ prof'[u] # NoDoc => Named(prof'[u])
                           /\ pc'[u] # "idle" /\ req'[u].kind = "prelogin" =>
                                req'[u].name = called[req'[u].key]
    BY DEF NamesKept, Named
  <2>1. pc'[t] # "idle" /\ req'[t].kind = "prelogin" => req'[t].name = called[req'[t].key]
    BY DEF OrderInv, NamesKept
  <2>2. \A u \in Task \ {t} : pc'[u] = "idle" /\ prof'[u] = NoDoc /\ todo'[u] = {}
    BY <1>1 DEF Alone
  <2>3. \A k \in Key : redis[k] # NoDoc => Named(redis[k])  BY DEF OrderInv, NamesKept
  <2> QED BY <2>1, <2>2, <2>3
<1>4. OnlineCached'
  <2> SUFFICES ASSUME NEW p \in Player, online[p] # NoName PROVE IsFound(p)' \/ ComesIn(p)'
    BY DEF OnlineCached
  <2>1. CASE IsFound(p)  BY <2>1 DEF IsFound
  <2>2. CASE ComesIn(p)
    <3>1. req[t].kind = "prelogin" /\ req[t].key = p  BY <1>1, <2>2 DEF ComesIn, Alone
    <3> QED BY <3>1 DEF ComesIn
  <2> QED BY <2>1, <2>2 DEF OrderInv, OnlineCached
<1>5. \A u \in Task : AtNames(u)'  BY <1>1 DEF Alone, AtNames
<1> QED BY <1>1, <1>2, <1>3, <1>4, <1>5 DEF OrderInv

LEMMA ForgetOrder ==
  ASSUME IInv, OrderInv, Orderly, NEW t \in Task, pc[t] # "idle",
         UNCHANGED <<mode, redis, online, called>>,
         req[t].kind # "prelogin",
         ~mode.renames => \A p \in Player : mongo'[p] # NoDoc => Named(mongo'[p]),
         Forget(t)
  PROVE  OrderInv'
<1>1. Only(t) /\ pc'[t] = "idle" /\ prof'[t] = NoDoc /\ todo'[t] = {}
  BY ForgetSound DEF Forget, IInv, Typed
<1>2. AtNames(t)'  BY <1>1 DEF AtNames
<1> QED BY <1>1, <1>2, OrderOfTask

LEMMA ApplyOrder ==
  ASSUME IInv, OrderInv, Orderly, NEW t \in Task, pc[t] \in {"player", "find", "label"},
         UNCHANGED <<mode, mongo, redis, online, called>>,
         NEW d \in Whole, IsStored(d), Own(CacheKey(req[t], d), d),
         ~mode.renames => Named(d),
         Bears(d.id, CacheKey(req[t], d)),
         Apply(t, d)
  PROVE  OrderInv'
<1>1. AtWork(t) /\ AtNames(t)  BY DEF IInv, TasksSound, OrderInv
<1>2. req[t] \in Request /\ Fits(req[t]) /\ req[t].kind \notin Deletion \cup {"prelogin"}
  BY <1>1 DEF AtWork
<1>3. Only(t)  BY <1>1, ApplySound DEF IInv
<1>4. ~mode.renames => \A p \in Player : mongo'[p] # NoDoc => Named(mongo'[p])
  BY DEF OrderInv, NamesKept
<1>5. CASE Forget(t)  BY <1>2, <1>4, <1>5, ForgetOrder
<1>6. ASSUME NEW e \in Edits(req[t], d),
             prof' = [prof EXCEPT ![t] = e],
             Goto(t, IF req[t].kind \in {"event", "match_end"} THEN "cache" ELSE "persist"),
             UNCHANGED <<req, todo>>
      PROVE  OrderInv'
  <2>1. e.id = d.id /\ e.name = d.name  BY <1>2, EditsWhole
  <2>2. prof'[t] = e /\ pc'[t] \in {"cache", "persist"}  BY <1>6 DEF Goto, IInv, Typed
  <2>3. todo'[t] = {}  BY <1>1, <1>6 DEF AtWork
  <2>4. ~mode.renames => Named(e)  BY <2>1 DEF Named
  <2>5. AtNames(t)'
    BY <1>1, <1>2, <1>6, <2>1, <2>2 DEF AtNames, Bears, CacheKey
  <2> QED BY <1>2, <1>3, <1>4, <1>6, <2>2, <2>3, <2>4, <2>5, OrderOfTask
<1> QED BY <1>5, <1>6 DEF Apply

LEMMA FoundOrder ==
  ASSUME IInv, OrderInv, Orderly, NEW t \in Task, pc[t] \in {"player", "find"},
         UNCHANGED <<mode, mongo, redis, online, called>>,
         NEW d \in Whole, IsStored(d), d.name = req[t].key,
         ~mode.renames => Named(d),
         Bears(d.id, d.name),
         Found(t, d)
  PROVE  OrderInv'
<1>1. AtWork(t) /\ AtNames(t)  BY DEF IInv, TasksSound, OrderInv
<1>2. Own(CacheKey(req[t], d), d) /\ Bears(d.id, CacheKey(req[t], d))
  BY DEF Own, CacheKey
<1>3. CASE Apply(t, d)  BY <1>2, <1>3, ApplyOrder
<1>4. CASE /\ req[t].kind \in {"add_tag", "add_rank", "remove_label"}
           /\ prof' = [prof EXCEPT ![t] = d]
           /\ Goto(t, "label")
           /\ UNCHANGED <<req, todo>>
  <2>1. prof'[t] = d /\ pc'[t] = "label" /\ Only(t)
    BY <1>4 DEF Goto, IInv, Typed, Only, Waiting, WholeOrNone
  <2>2. todo'[t] = {}  BY <1>1, <1>4 DEF AtWork
  <2>3. AtNames(t)'  BY <1>1, <1>2, <1>4, <2>1 DEF AtNames, Bears, CacheKey
  <2> QED BY <1>4, <2>1, <2>2, <2>3, OrderOfTask DEF OrderInv, NamesKept
<1> QED BY <1>3, <1>4 DEF Found

\* A request begins when all tasks are idle.
LEMMA BeginAlone ==
  ASSUME IInv, Orderly, NEW t \in Task, NEW kind, NEW key, NEW label, NEW where,
         Begin(t, kind, key, label, where), where # "idle"
  PROVE  /\ \A u \in Task : pc[u] = "idle"
         /\ pc'[t] = where /\ req'[t].kind = kind /\ req'[t].key = key /\ req'[t].label = label
         /\ kind = "prelogin" => req'[t].name = called[key]
         /\ \A u \in Task : prof'[u] = NoDoc /\ todo'[u] = {}
         /\ \A u \in Task \ {t} : pc'[u] = "idle"
         /\ kind \in mode.kinds
         /\ UNCHANGED <<mongo, redis, exists, called>>
<1>1. \A u \in Task : pc[u] = "idle"  BY DEF Begin, Orderly, Serial
<1>2. \A u \in Task : prof[u] = NoDoc /\ todo[u] = {}
  BY <1>1 DEF IInv, TasksSound, AtWork
<1>3. pc' = [pc EXCEPT ![t] = where] /\ UNCHANGED <<mongo, redis, exists, called, prof, todo>>
      /\ kind \in mode.kinds
  BY DEF Begin, Goto, stores
<1>4. req'[t].kind = kind /\ req'[t].key = key /\ req'[t].label = label
      /\ (kind = "prelogin" => req'[t].name = called[key])
  BY DEF Begin, IInv, Typed
<1> QED BY <1>1, <1>2, <1>3, <1>4 DEF IInv, Typed

LEMMA RequestOrder ==
  ASSUME IInv, OrderInv, Orderly, NEW t \in Task, NEW kind, NEW key, NEW label, NEW where,
         Begin(t, kind, key, label, where), where \in {"player", "label", "delete"},
         UNCHANGED <<mode, online>>,
         kind # "prelogin",
         kind \notin Deletion => key \in Name
  PROVE  OrderInv'
<1>1. /\ \A u \in Task : pc[u] = "idle"
      /\ pc'[t] = where /\ req'[t].kind = kind /\ req'[t].key = key
      /\ \A u \in Task : prof'[u] = NoDoc /\ todo'[u] = {}
      /\ \A u \in Task \ {t} : pc'[u] = "idle"
      /\ kind \in mode.kinds
      /\ UNCHANGED <<mongo, redis, called>>
  BY BeginAlone
<1>2. OneAtWork' /\ AccountsApart' /\ OnlyNames'
  BY <1>1 DEF OrderInv, OneAtWork, AccountsApart, OnlyNames
<1>3. NamesKept'  BY <1>1 DEF OrderInv, NamesKept, Named
<1>4. OnlineCached'  BY <1>1 DEF OrderInv, OnlineCached, IsFound, ComesIn
<1>5. \A u \in Task : AtNames(u)'  BY <1>1 DEF AtNames
<1> QED BY <1>2, <1>3, <1>4, <1>5 DEF OrderInv

LEMMA PreloginOrder ==
  ASSUME IInv, OrderInv, Orderly, mode' = mode, NEW t \in Task, NEW p \in mode.players,
         Prelogin(t, p)
  PROVE  OrderInv'
<1>0. p \in Player  BY ModeTyped DEF IInv, Typed
<1>1. Begin(t, "prelogin", p, NoLabel, "prelogin")  BY DEF Prelogin
<1>2. /\ \A u \in Task : pc[u] = "idle"
      /\ pc'[t] = "prelogin" /\ req'[t].kind = "prelogin" /\ req'[t].key = p
      /\ req'[t].name = called[p]
      /\ \A u \in Task : prof'[u] = NoDoc /\ todo'[u] = {}
      /\ \A u \in Task \ {t} : pc'[u] = "idle"
      /\ "prelogin" \in mode.kinds
      /\ UNCHANGED <<mongo, redis, called>>
  BY <1>1, BeginAlone
<1>3. online[p] = NoName /\ online' = [online EXCEPT ![p] = called[p]]  BY DEF Prelogin
<1>4. \A q \in Player : online'[q] = IF q = p THEN called[p] ELSE online[q]
  BY <1>3 DEF IInv, Typed
<1>5. AccountsApart'  BY <1>2, <1>4 DEF OrderInv, AccountsApart
<1>6. OneAtWork' /\ OnlyNames'  BY <1>2 DEF OrderInv, OneAtWork, OnlyNames
<1>7. NamesKept'  BY <1>2 DEF OrderInv, NamesKept, Named
<1>8. OnlineCached'
  <2> SUFFICES ASSUME NEW q \in Player, online'[q] # NoName PROVE IsFound(q)' \/ ComesIn(q)'
    BY DEF OnlineCached
  <2>1. CASE q = p  BY <1>2, <2>1 DEF ComesIn
  <2>2. CASE q # p
    <3>1. IsFound(q)  BY <1>2, <1>4, <2>2 DEF OrderInv, OnlineCached, ComesIn
    <3> QED BY <1>2, <1>4, <2>2, <3>1 DEF IsFound
  <2> QED BY <2>1, <2>2
<1>9. AtNames(t)'
  <2>1. Bears(p, called[p])'
    BY <1>0, <1>2, <1>4, PlayerStoreAssumption DEF Bears, OrderInv, AccountsApart, IInv, Typed
  <2>2. online'[p] = called[p]  BY <1>0, <1>4
  <2> QED BY <1>2, <2>1, <2>2 DEF AtNames, Bears
<1>10. \A u \in Task : AtNames(u)'  BY <1>2, <1>9 DEF AtNames
<1> QED BY <1>5, <1>6, <1>7, <1>8, <1>10 DEF OrderInv

LEMMA AskOrder ==
  ASSUME IInv, OrderInv, Orderly, mode' = mode, NEW t \in Task, NEW kind \in mode.kinds,
         NEW key \in mode.names \cup mode.players,
         NEW label \in mode.labels \cup {NoLabel, NoTag},
         Ask(t, kind, key, label) \/ Delete(t, kind, key, label)
  PROVE  OrderInv'
<1>1. CASE Ask(t, kind, key, label)
  <2>1. Begin(t, kind, key, label, "player") /\ online' = online /\ kind # "prelogin"
    BY <1>1 DEF Ask
  <2>2. key \in Name  BY <1>1, ModeTyped DEF Ask, Orderly, IInv, Typed
  <2> QED BY <2>1, <2>2, RequestOrder
<1>2. CASE Delete(t, kind, key, label)
  <2>1. /\ Begin(t, kind, key, label, "delete") /\ online' = online
        /\ kind # "prelogin" /\ kind \in Deletion
    BY <1>2 DEF Delete, Deletion
  <2> QED BY <2>1, RequestOrder
<1> QED BY <1>1, <1>2

LEMMA PlayOrder ==
  ASSUME IInv, OrderInv, Orderly, mode' = mode, NEW t \in Task, NEW p \in mode.players,
         NEW kind, NEW label,
         Play(t, kind, p) \/ Achieve(t, p, label)
  PROVE  OrderInv'
<1>1. online[p] # NoName /\ online' = online  BY DEF Play, Achieve
<1>2. online[p] \in Name  BY <1>1, ModeTyped DEF IInv, Typed
<1>3. CASE Play(t, kind, p)
  <2>1. Begin(t, kind, online[p], NoLabel, "player") /\ kind # "prelogin"  BY <1>3 DEF Play
  <2> QED BY <1>1, <1>2, <2>1, RequestOrder
<1>4. CASE Achieve(t, p, label)
  <2>1. Begin(t, "achievement", online[p], label, "label")  BY <1>4 DEF Achieve
  <2> QED BY <1>1, <1>2, <2>1, RequestOrder
<1> QED BY <1>3, <1>4

\* What Redis has under a name has this name, and is of the one who is online
\* with it.
LEMMA CachedBears ==
  ASSUME IInv, OrderInv, NEW t \in Task, pc[t] # "idle", req[t].kind # "prelogin",
         NEW n \in Name, redis[n] # NoDoc
  PROVE  redis[n].name = n /\ Bears(redis[n].id, n) /\ (~mode.renames => Named(redis[n]))
<1>1. n \in Key /\ redis[n] \in Whole  BY DEF Key, IInv, Typed, WholeOrNone
<1>2. redis[n].name = n
  BY <1>1, WholeDoc, PlayerStoreAssumption DEF IInv, StoresSound, KeysMatch
<1>3. \A q \in Player : ~ComesIn(q)  BY DEF ComesIn, OrderInv, OneAtWork
<1>4. Bears(redis[n].id, n)
  BY <1>3, PlayerStoreAssumption DEF Bears, OrderInv, OnlineCached, IsFound
<1> QED BY <1>1, <1>2, <1>4 DEF OrderInv, NamesKept

LEMMA LookUpOrder ==
  ASSUME IInv, OrderInv, Orderly, mode' = mode, NEW t \in Task, LookUp(t)
  PROVE  OrderInv'
<1>1. /\ pc[t] = "player" /\ UNCHANGED <<mongo, redis, exists, called, online, requests>>
      /\ AtWork(t) /\ AtNames(t)
  BY DEF LookUp, stores, IInv, TasksSound, OrderInv
<1>2. req[t].kind # "prelogin" /\ req[t].key \in Name /\ req[t].key \in Key
  BY <1>1 DEF AtWork, AtNames, Key
<1>3. CASE redis[req[t].key] # NoDoc /\ Found(t, redis[req[t].key])
  <2>1. redis[req[t].key] \in Whole  BY <1>2, <1>3 DEF IInv, Typed, WholeOrNone
  <2>2. IsStored(redis[req[t].key])
    BY <1>2, <1>3 DEF IInv, StoresSound, CachedAreStored, IsStored
  <2>3. /\ redis[req[t].key].name = req[t].key
        /\ Bears(redis[req[t].key].id, req[t].key)
        /\ ~mode.renames => Named(redis[req[t].key])
    BY <1>1, <1>2, <1>3, CachedBears
  <2> QED BY <1>1, <1>3, <2>1, <2>2, <2>3, FoundOrder
<1>4. CASE /\ redis[req[t].key] = NoDoc
           /\ Goto(t, "find") /\ UNCHANGED <<req, prof, todo>>
  <2>1. Only(t) /\ pc'[t] = "find"  BY <1>4 DEF Only, IInv, Typed, Goto, Waiting
  <2>2. AtNames(t)'  BY <1>1, <1>2, <1>4, <2>1 DEF AtNames, Bears, CacheKey
  <2>3. prof'[t] = NoDoc /\ todo'[t] = {}  BY <1>1, <1>4 DEF AtWork
  <2> QED BY <1>1, <1>2, <1>4, <2>1, <2>2, <2>3, OrderOfTask DEF OrderInv, NamesKept
<1> QED BY <1>3, <1>4 DEF LookUp

LEMMA FindStoredOrder ==
  ASSUME IInv, OrderInv, Orderly, mode' = mode, NEW t \in Task, FindStored(t)
  PROVE  OrderInv'
<1>1. /\ pc[t] = "find" /\ UNCHANGED <<mongo, redis, exists, called, online, requests>>
      /\ AtWork(t) /\ AtNames(t)
  BY DEF FindStored, stores, IInv, TasksSound, OrderInv
<1>2. /\ req[t].kind # "prelogin" /\ req[t].key \in Name /\ req[t].key \notin Player
      /\ redis[req[t].key] = NoDoc
  BY <1>1, PlayerStoreAssumption DEF AtWork, AtNames
<1>3. ASSUME NEW p \in Player, mongo[p] # NoDoc, mongo[p].name = req[t].key,
             Found(t, mongo[p])
      PROVE  OrderInv'
  <2>1. mongo[p] \in Whole /\ mongo[p].id = p
    BY <1>3 DEF IInv, Typed, WholeOrNone, StoresSound, AtIds
  <2>2. IsStored(mongo[p])  BY <1>3, <2>1 DEF IsStored
  <2>3. \A q \in Player : ~ComesIn(q)  BY <1>1, <1>2 DEF ComesIn, OrderInv, OneAtWork
  <2>4. Bears(p, req[t].key)
    BY <1>2, <2>3, PlayerStoreAssumption DEF Bears, OrderInv, OnlineCached, IsFound
  <2>5. ~mode.renames => Named(mongo[p])  BY <1>3 DEF OrderInv, NamesKept
  <2> QED BY <1>1, <1>3, <2>1, <2>2, <2>4, <2>5, FoundOrder
<1>4. CASE Forget(t)  BY <1>1, <1>2, <1>4, ForgetOrder DEF OrderInv, NamesKept
<1> QED BY <1>2, <1>3, <1>4 DEF FindStored

LEMMA FindLabelOrder ==
  ASSUME IInv, OrderInv, Orderly, mode' = mode, NEW t \in Task, FindLabel(t)
  PROVE  OrderInv'
<1>1. /\ pc[t] = "label" /\ UNCHANGED <<mongo, redis, exists, called, online, requests>>
      /\ AtWork(t) /\ AtNames(t) /\ req[t].kind # "prelogin"
  BY DEF FindLabel, stores, IInv, TasksSound, OrderInv, AtWork
<1>2. CASE Forget(t)  BY <1>1, <1>2, ForgetOrder DEF OrderInv, NamesKept
<1>3. CASE req[t].kind = "achievement" /\ Goto(t, "player") /\ UNCHANGED <<req, prof, todo>>
  <2>1. Only(t) /\ pc'[t] = "player"  BY <1>3 DEF Only, IInv, Typed, Goto, Waiting
  <2>2. AtNames(t)'  BY <1>1, <1>3, <2>1 DEF AtNames, Bears, CacheKey
  <2>3. prof'[t] = NoDoc /\ todo'[t] = {}  BY <1>1, <1>3 DEF AtWork
  <2> QED BY <1>1, <1>3, <2>1, <2>2, <2>3, OrderOfTask DEF OrderInv, NamesKept
<1>4. CASE req[t].kind # "achievement" /\ Apply(t, prof[t])
  <2>1. req[t].kind \in {"add_tag", "add_rank", "remove_label"} /\ IsStored(prof[t])
    BY <1>1, <1>4 DEF AtWork
  <2>2. prof[t] \in Whole /\ prof[t] # NoDoc
    BY <2>1 DEF IsStored, IInv, Typed, WholeOrNone
  <2>3. Own(CacheKey(req[t], prof[t]), prof[t])  BY <2>1 DEF Own, CacheKey
  <2>4. Bears(prof[t].id, CacheKey(req[t], prof[t]))  BY <1>1, <2>2 DEF AtNames
  <2>5. ~mode.renames => Named(prof[t])  BY <2>2 DEF OrderInv, NamesKept
  <2> QED BY <1>1, <1>4, <2>1, <2>2, <2>3, <2>4, <2>5, ApplyOrder
<1> QED BY <1>2, <1>3, <1>4 DEF FindLabel

LEMMA PreloginPlayerOrder ==
  ASSUME IInv, OrderInv, Orderly, mode' = mode, NEW t \in Task, PreloginPlayer(t)
  PROVE  OrderInv'
<1> DEFINE p == req[t].key
           d == IF mongo[p] = NoDoc THEN NewPlayer(p, req[t].name)
                ELSE [mongo[p] EXCEPT !.name = req[t].name]
<1>1. /\ pc[t] = "prelogin"
      /\ UNCHANGED <<mongo, redis, exists, called, online, requests, req, todo>>
      /\ AtWork(t) /\ AtNames(t)
  BY DEF PreloginPlayer, stores, IInv, TasksSound, OrderInv
<1>2. prof' = [prof EXCEPT ![t] = d] /\ Goto(t, "persist")  BY DEF PreloginPlayer
<1>3. req[t].kind = "prelogin" /\ p \in Player /\ req[t].name \in Name
  BY <1>1 DEF AtWork, Fits
<1>4. d \in Whole /\ d.id = p /\ d.name = req[t].name
  <2>1. mongo[p] # NoDoc => mongo[p] \in Whole /\ mongo[p].id = p
    BY <1>3 DEF IInv, Typed, WholeOrNone, StoresSound, AtIds
  <2> QED BY <1>3, <2>1, NewPlayerWhole, RenamedWhole
<1> HIDE DEF d
<1>5. Only(t) /\ prof'[t] = d /\ pc'[t] = "persist"
  BY <1>1, <1>2, <1>4 DEF Only, IInv, Typed, Goto, Waiting, WholeOrNone
<1>6. ~mode.renames => Named(d)  BY <1>1, <1>3, <1>4 DEF OrderInv, NamesKept, Named
<1>7. todo'[t] = {}  BY <1>1, <1>3 DEF AtWork, Deletion
<1>8. AtNames(t)'
  BY <1>1, <1>3, <1>4, <1>5 DEF AtNames, Bears, CacheKey
<1> QED BY <1>1, <1>3, <1>5, <1>6, <1>7, <1>8, OrderOfTask DEF OrderInv, NamesKept

LEMMA PersistOrder ==
  ASSUME IInv, OrderInv, Orderly, mode' = mode, NEW t \in Task, Persist(t)
  PROVE  OrderInv'
<1>1. /\ pc[t] = "persist" /\ UNCHANGED <<redis, exists, called, online, requests>>
      /\ AtWork(t) /\ AtNames(t)
      /\ mongo' = [mongo EXCEPT ![prof[t].id] = prof[t]]
  BY DEF Persist, IInv, TasksSound, OrderInv
<1>2. prof[t] \in Whole /\ prof[t] # NoDoc
  BY <1>1 DEF AtWork, IInv, Typed, WholeOrNone
<1>3. ~mode.renames => \A p \in Player : mongo'[p] # NoDoc => Named(mongo'[p])
  BY <1>1, <1>2 DEF OrderInv, NamesKept, IInv, Typed
<1>4. CASE req[t].kind = "match_end" /\ Forget(t)  BY <1>1, <1>3, <1>4, ForgetOrder
<1>5. CASE Goto(t, "cache") /\ UNCHANGED <<req, prof, todo>>
  <2>1. Only(t) /\ pc'[t] = "cache"  BY <1>5 DEF Only, IInv, Typed, Goto, Waiting
  <2>2. AtNames(t)'  BY <1>1, <1>2, <1>5, <2>1 DEF AtNames, Bears, CacheKey
  <2> QED BY <1>1, <1>3, <1>5, <2>1, <2>2, OrderOfTask DEF OrderInv, NamesKept
<1> QED BY <1>4, <1>5 DEF Persist

LEMMA CacheItOrder ==
  ASSUME IInv, OrderInv, Orderly, mode' = mode, NEW t \in Task, CacheIt(t)
  PROVE  OrderInv'
<1> DEFINE key == CacheKey(req[t], prof[t])
<1>1. /\ pc[t] = "cache" /\ UNCHANGED <<mongo, exists, called, online, requests>>
      /\ AtWork(t) /\ AtNames(t)
      /\ redis' = [redis EXCEPT ![key] = prof[t]]
      /\ req[t] \in Request
  BY DEF CacheIt, IInv, TasksSound, OrderInv, AtWork
<1>2. prof[t] \in Whole /\ prof[t] # NoDoc /\ prof[t].name \in Name
  BY <1>1, WholeDoc DEF AtWork, IInv, Typed, WholeOrNone
<1>3. key \in Name /\ Bears(prof[t].id, key) /\ key \in Key
  BY <1>1, <1>2 DEF AtNames, CacheKey, Key, Deletion
<1>4. req[t].kind = "prelogin" => key = req[t].name /\ prof[t].id = req[t].key
  BY <1>1, <1>2 DEF AtNames, CacheKey
<1> HIDE DEF key
<1>5. \A k \in Key : redis'[k] = IF k = key THEN prof[t] ELSE redis[k]
  BY <1>1 DEF IInv, Typed
<1>6. \/ Forget(t)
      \/ /\ pc' = [pc EXCEPT ![t] = IF req[t].kind = "match_end" THEN "persist" ELSE "each"]
         /\ UNCHANGED <<req, todo>>
         /\ prof' = prof \/ prof' = [prof EXCEPT ![t] = NoDoc]
         /\ req[t].kind \in Deletion \cup {"match_end"}
  BY DEF CacheIt, Proceed, Goto, Deletion
<1>7. Only(t)
  <2>1. CASE Forget(t)  BY <2>1, ForgetSound DEF IInv
  <2>2. CASE ~Forget(t)
    BY <1>6, <2>2 DEF Only, IInv, Typed, Waiting, WholeOrNone
  <2> QED BY <2>1, <2>2
<1>8. Alone(t) /\ Alone(t)' /\ OneAtWork'  BY <1>1, <1>7, AtWorkAlone DEF OrderInv
<1>9. AccountsApart' /\ OnlyNames'
  BY <1>1, <1>3, <1>5 DEF OrderInv, AccountsApart, OnlyNames
<1>10. /\ todo'[t] \subseteq todo[t]
       /\ prof'[t] # NoDoc => prof'[t] = prof[t]
       /\ pc'[t] # "idle" => req'[t] = req[t] /\ req[t].kind # "prelogin"
       /\ pc'[t] \in {"idle", "persist", "each"}
  BY <1>6 DEF Forget, Goto, IInv, Typed, Deletion
<1>11. NamesKept'
  <2> SUFFICES ASSUME ~mode.renames
               PROVE  /\ \A p \in Player : mongo[p] # NoDoc => Named(mongo[p])
                      /\ \A k \in Key : redis'[k] # NoDoc => Named(redis'[k])
                      /\ \A u \in Task :
                           /\ \A d \in todo'[u] : Named(d)
                           /\ prof'[u] # NoDoc => Named(prof'[u])
                           /\ pc'[u] # "idle" /\ req'[u].kind = "prelogin" =>
                                req'[u].name = called[req'[u].key]
    BY <1>1 DEF NamesKept, Named
  <2>1. Named(prof[t]) /\ \A d \in todo[t] : Named(d)
    BY <1>2 DEF OrderInv, NamesKept
  <2>2. \A k \in Key : redis'[k] # NoDoc => Named(redis'[k])
    BY <1>5, <2>1 DEF OrderInv, NamesKept
  <2>3. \A u \in Task \ {t} : pc'[u] = "idle" /\ prof'[u] = NoDoc /\ todo'[u] = {}
    BY <1>8 DEF Alone
  <2> QED BY <1>10, <2>1, <2>2, <2>3 DEF OrderInv, NamesKept
<1>12. OnlineCached'
  <2> SUFFICES ASSUME NEW p \in Player, online[p] # NoName PROVE IsFound(p)'
    BY <1>1 DEF OnlineCached
  <2>1. online[p] \in Key /\ (IsFound(p) \/ ComesIn(p))
    BY PlayerStoreAssumption DEF OrderInv, OnlineCached, IInv, Typed, Key
  <2>2. CASE online[p] = key
    <3>1. p = prof[t].id  BY <1>3, <2>2 DEF Bears
    <3> QED BY <1>1, <1>2, <1>3, <1>5, <2>2, <3>1 DEF IsFound
  <2>3. CASE online[p] # key
    <3>1. ~ComesIn(p)
      <4> SUFFICES ASSUME ComesIn(p) PROVE FALSE  OBVIOUS
      <4>1. req[t].kind = "prelogin" /\ req[t].key = p  BY <1>8 DEF ComesIn, Alone
      <4> QED BY <1>1, <1>4, <2>3, <4>1 DEF AtNames
    <3> QED BY <1>1, <1>5, <2>1, <2>3, <3>1 DEF IsFound, OrderInv, OnlineCached, IInv, Typed, Key
  <2> QED BY <2>2, <2>3
<1>13. AtNames(t)'
  BY <1>1, <1>10 DEF AtNames, Bears, CacheKey
<1>14. \A u \in Task : AtNames(u)'  BY <1>8, <1>13 DEF Alone, AtNames
<1> QED BY <1>8, <1>9, <1>11, <1>12, <1>14 DEF OrderInv

LEMMA DeletionOrder ==
  ASSUME IInv, OrderInv, Orderly, mode' = mode, NEW t \in Task,
         DeleteLabel(t) \/ FindHolders(t) \/ UnsetAchievement(t) \/ NextHolder(t)
  PROVE  OrderInv'
<1>1. /\ pc[t] \in {"delete", "holders", "unset", "each"}
      /\ UNCHANGED <<redis, called, online, requests>>
      /\ AtWork(t) /\ AtNames(t)
  BY DEF DeleteLabel, FindHolders, UnsetAchievement, NextHolder, stores, IInv, TasksSound,
         OrderInv
<1>2. req[t].kind \in Deletion /\ req[t].kind # "prelogin" /\ ~mode.renames
  <2>1. req[t].kind \in Deletion  BY <1>1 DEF AtWork, Deletion
  <2> QED BY <1>1, <2>1 DEF AtNames, Orderly, Deletion
<1>3. \A p \in Player : mongo[p] # NoDoc => Named(mongo[p]) /\ mongo[p] \in Whole
  BY <1>2 DEF OrderInv, NamesKept, IInv, Typed, WholeOrNone
<1>4. \A p \in Player : mongo'[p] # NoDoc => Named(mongo'[p])
  <2>1. CASE UnsetAchievement(t)
    <3>1. \A p \in Player : mongo'[p] = IF mongo[p] = NoDoc THEN NoDoc
                                   ELSE [mongo[p] EXCEPT !.labels = @ \ {req[t].label}]
      BY <2>1 DEF UnsetAchievement
    <3> QED BY <1>3, <3>1 DEF Named, Whole, Doc
  <2>2. CASE mongo' = mongo  BY <1>3, <2>2
  <2> QED BY <2>1, <2>2 DEF DeleteLabel, FindHolders, NextHolder, stores
<1>5. CASE Forget(t)  BY <1>1, <1>2, <1>4, <1>5, ForgetOrder
<1>6. ASSUME ~Forget(t)
      PROVE  /\ pc' = [pc EXCEPT ![t] = pc'[t]]
             /\ pc'[t] \in {"holders", "unset", "each", "cache", "persist"}
             /\ req' = req
             /\ prof' = [prof EXCEPT ![t] = prof'[t]] /\ todo' = [todo EXCEPT ![t] = todo'[t]]
             /\ prof'[t] # NoDoc => prof'[t] \in Whole /\ Named(prof'[t])
             /\ \A d \in todo'[t] : d \in Whole /\ Named(d)
  <2>0. /\ \A d \in todo[t] : d \in Whole /\ Named(d)
        /\ prof[t] = NoDoc
    BY <1>1, <1>2 DEF OrderInv, NamesKept, IInv, Typed, AtWork
  <2>1. CASE DeleteLabel(t)
    BY <1>6, <2>0, <2>1 DEF DeleteLabel, Goto, IInv, Typed
  <2>2. CASE FindHolders(t)
    <3>1. todo' = [todo EXCEPT ![t] = {Without(mongo[p], req[t].label) : p \in Holders(req[t].label)}]
          /\ Goto(t, IF req[t].label \in Achievement THEN "unset" ELSE "each")
          /\ UNCHANGED <<req, prof>>
      BY <1>6, <2>2 DEF FindHolders
    <3>2. \A p \in Holders(req[t].label) :
            Without(mongo[p], req[t].label) \in Whole /\ Named(Without(mongo[p], req[t].label))
      BY <1>3, WithoutWhole DEF Holders, Named
    <3> QED BY <2>0, <3>1, <3>2 DEF Goto, IInv, Typed
  <2>3. CASE UnsetAchievement(t)
    BY <2>0, <2>3 DEF UnsetAchievement, Goto, IInv, Typed
  <2>4. CASE NextHolder(t)
    <3>1. PICK d \in todo[t] :
            /\ prof' = [prof EXCEPT ![t] = d]
            /\ todo' = [todo EXCEPT ![t] = @ \ {d}]
            /\ Goto(t, IF req[t].kind = "delete_achievement" THEN "cache" ELSE "persist")
            /\ UNCHANGED req
      BY <1>6, <2>4 DEF NextHolder
    <3> QED BY <2>0, <3>1 DEF Goto, IInv, Typed
  <2> QED BY <2>1, <2>2, <2>3, <2>4
<1>7. CASE ~Forget(t)
  <2>1. Only(t)  BY <1>6, <1>7 DEF Only, IInv, Typed, Waiting, WholeOrNone
  <2>2. prof'[t] # NoDoc => Bears(prof'[t].id, prof'[t].name)
    BY <1>2, <1>6, <1>7, PlayerStoreAssumption, WholeDoc
    DEF Bears, Named, OrderInv, AccountsApart, IInv, Typed
  <2>3. AtNames(t)'
    BY <1>1, <1>2, <1>6, <1>7, <2>2 DEF AtNames, Bears, CacheKey, Deletion
  <2> QED BY <1>1, <1>2, <1>4, <1>6, <1>7, <2>1, <2>3, OrderOfTask
<1> QED BY <1>5, <1>7

\* Somebody leaves, or an account that is offline changes its name.
LEMMA AccountOrder ==
  ASSUME IInv, OrderInv, Orderly, mode' = mode, NEW p \in mode.players,
         Leave(p) \/ \E n \in mode.names : Rename(p, n)
  PROVE  OrderInv'
<1>1. /\ UNCHANGED <<mongo, redis, exists, requests, pc, req, prof, todo>>
      /\ mode.renames /\ p \in Player
      /\ \A q \in Player : online'[q] = online[q] \/ online'[q] = NoName
  BY ModeTyped DEF Leave, Rename, stores, IInv, Typed
<1>2. AccountsApart'
  <2>1. CASE Leave(p)  BY <1>1, <2>1 DEF Leave, OrderInv, AccountsApart
  <2>2. ASSUME NEW n \in mode.names, Rename(p, n) PROVE AccountsApart'
    <3>1. /\ online' = online /\ online[p] = NoName /\ \A q \in Player : called[q] # n
          /\ \A q \in Player : called'[q] = IF q = p THEN n ELSE called[q]
      BY <2>2 DEF Rename, IInv, Typed
    <3> QED BY <1>1, <3>1 DEF OrderInv, AccountsApart
  <2> QED BY <2>1, <2>2
<1>3. OneAtWork' /\ OnlyNames'  BY <1>1 DEF OrderInv, OneAtWork, OnlyNames
<1>4. NamesKept'  BY <1>1 DEF NamesKept
<1>5. OnlineCached'
  BY <1>1 DEF OrderInv, OnlineCached, IsFound, ComesIn
<1>6. ASSUME NEW t \in Task PROVE AtNames(t)'
  <2>1. AtNames(t)  BY DEF OrderInv
  <2>2. pc[t] # "idle" /\ prof[t] # NoDoc => prof[t] \in Whole /\ req[t] \in Request
    BY DEF IInv, Typed, WholeOrNone, TasksSound, AtWork
  <2>3. ASSUME NEW q \in Player, NEW name \in Name, Bears(q, name)
        PROVE  \A r \in Player : online'[r] = name => r = q
    BY <1>1, <2>3, PlayerStoreAssumption DEF Bears
  <2>4. pc[t] # "idle" /\ prof[t] # NoDoc => CacheKey(req[t], prof[t]) \in Name /\ prof[t].id \in Player
    BY <2>1, <2>2, WholeDoc DEF CacheKey, AtNames, Deletion
  <2>5. pc[t] # "idle" /\ req[t].kind = "prelogin" => req[t].key \in Player /\ req[t].name \in Name
    BY DEF IInv, TasksSound, AtWork, Fits
  <2> QED BY <1>1, <2>1, <2>3, <2>4, <2>5 DEF AtNames, Bears, CacheKey
<1> QED BY <1>2, <1>3, <1>4, <1>5, <1>6 DEF OrderInv

LEMMA InitOrder == Init => OrderInv
  BY DEF Init, OrderInv, OneAtWork, AccountsApart, OnlyNames, NamesKept, OnlineCached, AtNames

LEMMA NextOrder == IInv /\ OrderInv /\ Orderly /\ [Next]_vars => OrderInv'
<1> SUFFICES ASSUME IInv, OrderInv, Orderly, [Next]_vars PROVE OrderInv'  OBVIOUS
<1>1. ASSUME mode' = mode, NEW t \in Task, Step(t) PROVE OrderInv'
  <2>1. ~Die(t)  BY DEF Die, Orderly
  <2> QED BY <1>1, <2>1, PreloginOrder, AskOrder, PlayOrder, LookUpOrder, FindStoredOrder,
             FindLabelOrder, PreloginPlayerOrder, PersistOrder, CacheItOrder, DeletionOrder
          DEF Step
<1>2. CASE UNCHANGED vars
  BY <1>2 DEF vars, stores, OrderInv, OneAtWork, AccountsApart, OnlyNames, NamesKept, Named,
              OnlineCached, IsFound, ComesIn, AtNames, Bears, CacheKey
<1> QED BY <1>1, <1>2, AccountOrder DEF Next

LEMMA OrderFound == IInv /\ OrderInv => OnlineFound
  BY DEF OrderInv, OnlineCached, ComesIn, IsFound, OnlineFound, Quiet

LEMMA SameMode == [Next]_vars => mode' = mode
  BY DEF Next, vars

-----------------------------------------------------------------------------
(* One request after the other, while nobody changes names: the two stores *)
(* in step.  A player then has one key in Redis.                           *)

Steady == Orderly /\ ~mode.renames

Cached(p) == redis[called[p]]

\* A deletion that knows the holders of the label
Deletes(t) ==
  pc[t] \in {"unset", "each", "persist", "cache"} /\ req[t].kind \in Deletion

Hidden(l) == \E t \in Task : Deletes(t) /\ req[t].label = l

Caching(p) == \E t \in Task : pc[t] = "cache" /\ prof[t].id = p

\* Redis is ahead of Mongo in what was played only, save for the player that is
\* about to be written and the label that is being deleted.
CopyInStep(p) ==
  Cached(p) # NoDoc =>
    /\ mongo[p].events \subseteq Cached(p).events
    /\ ~Caching(p) =>
         /\ Cached(p).notes = mongo[p].notes
         /\ \A l \in Label : ~Hidden(l) => (l \in Cached(p).labels <=> l \in mongo[p].labels)

\* A label that was deleted has no holders, or is a rank that delete_rank has
\* panicked about; or the deletion is on its way.
Loose(l) == Holders(l) = {} \/ (l \in Rank /\ Cardinality(Holders(l)) > 1)

InDeletion(t) ==
  pc[t] \in {"holders", "unset", "each", "persist", "cache"} /\ req[t].kind \in Deletion

LabelGone(l) == Loose(l) \/ \E t \in Task : InDeletion(t) /\ req[t].label = l

SameAs(d, m) ==
  m # NoDoc /\ d.labels = m.labels /\ d.notes = m.notes /\ m.events \subseteq d.events

\* A document as it is found
Fresh(d) ==
  /\ SameAs(d, mongo[d.id])
  /\ Cached(d.id) # NoDoc => Cached(d.id).events = d.events

\* What a document that is about to replace Mongo's keeps of it
Keeps(kind, d, m) ==
  m # NoDoc =>
    /\ m.events \subseteq d.events
    /\ kind # "delete_note" => m.notes \subseteq d.notes
    /\ kind \notin Deletion \cup {"remove_label"} => m.labels \subseteq d.labels

HasPlayed(kind, d) ==
  kind \notin Deletion \cup {"prelogin"} /\ Cached(d.id) # NoDoc =>
    Cached(d.id).events \subseteq d.events

ToWrite(t) ==
  LET r == req[t]
      d == prof[t]
  IN  /\ pc[t] = "label" => Fresh(d)
      /\ pc[t] = "persist" =>
           /\ Keeps(r.kind, d, mongo[d.id])
           /\ HasPlayed(r.kind, d)
           /\ Cached(d.id) # NoDoc => d.events \subseteq Cached(d.id).events
           /\ \A l \in Label \ exists : \/ r.kind \in Deletion /\ l = r.label
                                        \/ l \in d.labels <=> d.id \in Holders(l)
           /\ r.kind = "match_end" => SameAs(d, mongo[d.id])
      /\ pc[t] = "cache" => SameAs(d, mongo[d.id]) /\ HasPlayed(r.kind, d)

\* The players that a deletion has yet to write
Left(t) ==
  {d.id : d \in todo[t]} \cup (IF pc[t] \in {"persist", "cache"} THEN {prof[t].id} ELSE {})

HasLabel(p, l) == p \in Holders(l) \/ (Cached(p) # NoDoc /\ l \in Cached(p).labels)

\* The copies that a deletion has yet to write are Mongo's without the label,
\* one for each player that still has it.
ToDelete(t) ==
  LET label == req[t].label
  IN  /\ \A d \in todo[t] :
           /\ d.notes = mongo[d.id].notes /\ d.events = mongo[d.id].events
           /\ \A l \in Label : l \in d.labels <=> l # label /\ d.id \in Holders(l)
           /\ \A e \in todo[t] : d.id = e.id => d = e
           /\ pc[t] \in {"persist", "cache"} => d.id # prof[t].id
      /\ prof[t] # NoDoc => label \notin prof[t].labels
      /\ \A p \in Player : HasLabel(p, label) => p \in Left(t)
      /\ req[t].kind = "delete_achievement" /\ pc[t] # "unset" => Holders(label) = {}

\* What the task at work is about
InHand(t) ==
  /\ prof[t] # NoDoc => ToWrite(t)
  /\ Deletes(t) => ToDelete(t)
  /\ InDeletion(t) => req[t].label \notin exists
  /\ pc[t] \in {"player", "find"} /\ req[t].kind = "achievement" => req[t].label \in exists

SteadyInv ==
  /\ \A p \in Player : CopyInStep(p)
  /\ \A l \in Label \ exists : LabelGone(l)
  /\ \A t \in Task : InHand(t)

All == IInv /\ OrderInv /\ Steady /\ SteadyInv

LEMMA CachedOf ==
  ASSUME IInv, OrderInv, Steady, NEW p \in Player, Cached(p) # NoDoc
  PROVE  Cached(p) \in Whole /\ Cached(p).id = p /\ mongo[p] # NoDoc /\ mongo[p] \in Whole
<1>1. called[p] \in Name /\ called[p] \in Key  BY DEF IInv, Typed, Key
<1>2. Cached(p) \in Whole  BY <1>1 DEF Cached, IInv, Typed, WholeOrNone
<1>3. Cached(p).id \in Player  BY <1>2, WholeDoc
<1>4. Cached(p).name = called[p]
  BY <1>1, <1>3, PlayerStoreAssumption DEF Cached, IInv, StoresSound, KeysMatch
<1>5. Cached(p).name = called[Cached(p).id]
  BY <1>1 DEF Cached, Steady, OrderInv, NamesKept, Named
<1>6. Cached(p).id = p  BY <1>3, <1>4, <1>5 DEF OrderInv, AccountsApart
<1>7. mongo[p] # NoDoc  BY <1>1, <1>6 DEF Cached, IInv, StoresSound, CachedAreStored
<1> QED BY <1>2, <1>6, <1>7 DEF IInv, Typed, WholeOrNone

LEMMA KeyOf ==
  ASSUME IInv, OrderInv, Steady, NEW k \in Key, redis[k] # NoDoc
  PROVE  redis[k].id \in Player /\ k \in Name /\ k = called[redis[k].id]
<1>1. redis[k] \in Whole  BY DEF IInv, Typed, WholeOrNone
<1>2. redis[k].id \in Player  BY <1>1, WholeDoc
<1>3. k \in Name  BY DEF OrderInv, OnlyNames
<1>4. k = redis[k].name  BY <1>2, <1>3, PlayerStoreAssumption DEF IInv, StoresSound, KeysMatch
<1> QED BY <1>2, <1>3, <1>4 DEF Steady, OrderInv, NamesKept, Named

\* Whatever is written is written under the name of the player.
LEMMA WritesAt ==
  ASSUME IInv, OrderInv, Steady, NEW t \in Task, pc[t] \in {"persist", "cache"}
  PROVE  /\ prof[t] \in Whole /\ prof[t] # NoDoc /\ prof[t].id \in Player
         /\ CacheKey(req[t], prof[t]) = called[prof[t].id]
<1>1. prof[t] \in Whole /\ prof[t] # NoDoc /\ req[t] \in Request
      /\ Own(CacheKey(req[t], prof[t]), prof[t])
  BY DEF IInv, Typed, WholeOrNone, TasksSound, AtWork
<1>2. prof[t].id \in Player /\ prof[t].name \in Name  BY <1>1, WholeDoc
<1>3. CacheKey(req[t], prof[t]) \in Name
  BY <1>2 DEF CacheKey, OrderInv, AtNames, Deletion
<1>4. CacheKey(req[t], prof[t]) = prof[t].name
  BY <1>1, <1>2, <1>3, PlayerStoreAssumption DEF Own
<1>5. prof[t].name = called[prof[t].id]
  BY <1>1 DEF Steady, OrderInv, NamesKept, Named
<1> QED BY <1>1, <1>2, <1>4, <1>5

LEMMA HolderOf ==
  ASSUME IInv, NEW p \in Player, mongo[p] # NoDoc, NEW l
  PROVE  p \in Holders(l) <=> l \in mongo[p].labels
  BY DEF Holders

\* The task at work is the one that hides a label or writes to Redis.
LEMMA OnlyOneHides ==
  ASSUME OneAtWork, NEW t \in Task, pc[t] # "idle"
  PROVE  /\ \A l : Hidden(l) <=> Deletes(t) /\ req[t].label = l
         /\ \A p : Caching(p) <=> pc[t] = "cache" /\ prof[t].id = p
         /\ \A l : (\E u \in Task : InDeletion(u) /\ req[u].label = l)
                   <=> InDeletion(t) /\ req[t].label = l
<1>1. \A u \in Task : pc[u] # "idle" => u = t  BY DEF OneAtWork
<1>2. \A u \in Task : Deletes(u) \/ InDeletion(u) \/ pc[u] = "cache" => u = t
  BY <1>1 DEF Deletes, InDeletion
<1> QED BY <1>2 DEF Hidden, Caching

LEMMA IdleInHand ==
  ASSUME NEW u \in Task, pc[u] = "idle", prof[u] = NoDoc
  PROVE  InHand(u)
  BY DEF InHand, Deletes, InDeletion

LEMMA IdleHides ==
  ASSUME \A u \in Task : pc[u] = "idle"
  PROVE  /\ \A l : ~Hidden(l) /\ ~\E u \in Task : InDeletion(u) /\ req[u].label = l
         /\ \A p : ~Caching(p)
  BY DEF Hidden, Deletes, InDeletion, Caching

\* Steps that leave the stores alone: what is to be shown is about the task, and
\* that no label comes out of hiding before it is gone.
LEMMA SteadyOfTask ==
  ASSUME All, NEW t \in Task, pc[t] \notin {"idle", "cache"}, Only(t),
         UNCHANGED <<mode, mongo, redis, exists, called>>,
         Deletes(t) => \/ Deletes(t)' /\ req'[t].label = req[t].label
                       \/ \A p \in Player : ~HasLabel(p, req[t].label),
         InDeletion(t) => \/ InDeletion(t)' /\ req'[t].label = req[t].label
                          \/ Loose(req[t].label),
         InHand(t)'
  PROVE  SteadyInv'
<1>0. IInv /\ OrderInv /\ Steady /\ SteadyInv  BY DEF All
<1>1. OneAtWork /\ Alone(t) /\ Alone(t)'  BY <1>0, AtWorkAlone DEF OrderInv
<1>2. /\ \A l : Hidden(l) <=> Deletes(t) /\ req[t].label = l
      /\ \A p : ~Caching(p)
      /\ \A l : (\E u \in Task : InDeletion(u) /\ req[u].label = l)
                <=> InDeletion(t) /\ req[t].label = l
  BY <1>1, OnlyOneHides
<1>3. ASSUME NEW p \in Player PROVE CopyInStep(p)'
  <2>1. Cached(p)' = Cached(p) /\ mongo'[p] = mongo[p]  BY DEF Cached
  <2>2. CopyInStep(p)  BY <1>0 DEF SteadyInv
  <2>3. ASSUME Cached(p) # NoDoc, NEW l \in Label, ~Hidden(l)'
        PROVE  l \in Cached(p).labels <=> l \in mongo[p].labels
    <3>1. CASE ~Hidden(l)  BY <1>2, <2>2, <2>3, <3>1 DEF CopyInStep
    <3>2. CASE Hidden(l)
      <4>1. ~HasLabel(p, l)  BY <1>2, <2>3, <3>2 DEF Hidden
      <4>2. mongo[p] # NoDoc  BY <1>0, <2>3, CachedOf
      <4> QED BY <2>3, <4>1, <4>2 DEF HasLabel, Holders
    <3> QED BY <3>1, <3>2
  <2> QED BY <1>2, <2>1, <2>2, <2>3 DEF CopyInStep
<1>4. ASSUME NEW l \in Label \ exists PROVE LabelGone(l)'
  <2>1. Loose(l)' <=> Loose(l)  BY DEF Loose, Holders
  <2>2. LabelGone(l)  BY <1>0 DEF SteadyInv
  <2> QED BY <1>2, <2>1, <2>2 DEF LabelGone
<1>5. ASSUME NEW u \in Task PROVE InHand(u)'
  <2>1. CASE u = t  BY <2>1
  <2>2. CASE u # t
    <3>1. pc'[u] = "idle" /\ prof'[u] = NoDoc  BY <1>1, <2>2 DEF Alone
    <3> QED BY <3>1 DEF InHand, Deletes, InDeletion
  <2> QED BY <2>1, <2>2
<1> QED BY <1>3, <1>4, <1>5 DEF SteadyInv

\* A task that is not about a deletion gives up.
LEMMA ForgetSteady ==
  ASSUME All, NEW t \in Task, pc[t] \notin {"idle", "cache"}, ~InDeletion(t),
         UNCHANGED <<mode, mongo, redis, exists, called>>, Forget(t)
  PROVE  SteadyInv'
<1>1. Only(t) /\ pc'[t] = "idle" /\ prof'[t] = NoDoc
  BY ForgetSound DEF Forget, All, IInv, Typed
<1>2. InHand(t)'  BY <1>1 DEF InHand, Deletes, InDeletion
<1>3. ~Deletes(t)  BY DEF Deletes, InDeletion
<1> QED BY <1>1, <1>2, <1>3, SteadyOfTask

LEMMA BeginSteady ==
  ASSUME All, NEW t \in Task, NEW kind, NEW key, NEW label, NEW where,
         Begin(t, kind, key, label, where),
         where \in {"player", "label", "prelogin", "delete"},
         where = "player" => kind # "achievement",
         mode' = mode
  PROVE  SteadyInv'
<1>0. IInv /\ OrderInv /\ Steady /\ SteadyInv  BY DEF All
<1>1. /\ \A u \in Task : pc[u] = "idle"
      /\ pc'[t] = where /\ req'[t].kind = kind
      /\ \A u \in Task : prof'[u] = NoDoc
      /\ \A u \in Task \ {t} : pc'[u] = "idle"
      /\ UNCHANGED <<mongo, redis, exists, called>>
  BY <1>0, BeginAlone DEF Steady
<1>2. /\ \A l : ~Hidden(l) /\ ~\E u \in Task : InDeletion(u) /\ req[u].label = l
      /\ \A p : ~Caching(p)
  BY <1>1, IdleHides
<1>3. \A p \in Player : CopyInStep(p)'
  BY <1>0, <1>1, <1>2 DEF SteadyInv, CopyInStep, Cached
<1>4. \A l \in Label \ exists : LabelGone(l)'
  BY <1>0, <1>1, <1>2 DEF SteadyInv, LabelGone, Loose, Holders
<1>5. \A u \in Task : InHand(u)'
  BY <1>1 DEF InHand, Deletes, InDeletion
<1> QED BY <1>1, <1>3, <1>4, <1>5 DEF SteadyInv

\* What an edit leaves as it was
LEMMA EditsKeep ==
  ASSUME NEW r \in Request, Fits(r), r.kind \notin Deletion \cup {"prelogin"},
         NEW d \in Whole, NEW e \in Edits(r, d)
  PROVE  /\ d.events \subseteq e.events
         /\ r.kind # "delete_note" => d.notes \subseteq e.notes
         /\ r.kind # "remove_label" => d.labels \subseteq e.labels
         /\ r.kind \in {"event", "match_end"} => e.labels = d.labels /\ e.notes = d.notes
         /\ r.kind \notin {"event", "match_end"} => e.events = d.events
         /\ \A l \in Label : \/ l \in e.labels <=> l \in d.labels
                             \/ /\ r.kind \in {"add_tag", "add_rank", "remove_label", "achievement"}
                                /\ l = r.label
<1>0. d \in Doc  BY DEF Whole
<1>1. CASE r.kind = "note"
  <2>1. e = [d EXCEPT !.notes = @ \cup {NextNote(d)}]  BY <1>1 DEF Edits
  <2> QED BY <1>0, <1>1, <2>1 DEF Doc
<1>2. CASE r.kind = "delete_note"
  <2>1. PICK i \in d.notes : e = [d EXCEPT !.notes = @ \ {i}]  BY <1>2 DEF Edits
  <2> QED BY <1>0, <1>2, <2>1 DEF Doc
<1>3. CASE r.kind \in {"add_tag", "add_rank", "achievement"}
  <2>1. e = [d EXCEPT !.labels = @ \cup {r.label}]  BY <1>3 DEF Edits
  <2> QED BY <1>0, <1>3, <2>1 DEF Doc
<1>4. CASE r.kind = "remove_label"
  <2>1. e = Without(d, r.label)  BY <1>4 DEF Edits
  <2> QED BY <1>4, <2>1, WithoutWhole
<1>5. CASE r.kind = "active_tag"
  <2>1. e = [d EXCEPT !.active = r.label]  BY <1>5 DEF Edits
  <2> QED BY <1>0, <1>5, <2>1 DEF Doc
<1>6. CASE r.kind \in {"event", "match_end"}
  <2>1. e = [d EXCEPT !.events = @ \cup {r.n}]  BY <1>6 DEF Edits
  <2> QED BY <1>0, <1>6, <2>1 DEF Doc
<1> QED BY <1>1, <1>2, <1>3, <1>4, <1>5, <1>6 DEF Request, Kind, Deletion

\* A document that was found, edited
LEMMA ApplySteady ==
  ASSUME All, NEW t \in Task, pc[t] \in {"player", "find", "label"},
         UNCHANGED <<mode, mongo, redis, exists, called>>,
         NEW d \in Whole, IsStored(d), Own(CacheKey(req[t], d), d), Fresh(d),
         req[t].kind \in {"add_tag", "add_rank", "remove_label", "achievement"} =>
           req[t].label \in exists,
         Apply(t, d)
  PROVE  SteadyInv'
<1>0. IInv /\ OrderInv /\ Steady /\ SteadyInv  BY DEF All
<1>1. AtWork(t) /\ Only(t)  BY <1>0, ApplySound DEF IInv, TasksSound
<1>2. req[t] \in Request /\ Fits(req[t]) /\ req[t].kind \notin Deletion \cup {"prelogin"}
  BY <1>1 DEF AtWork
<1>3. ~InDeletion(t) /\ ~Deletes(t)  BY DEF InDeletion, Deletes
<1>4. CASE Forget(t)  BY <1>3, <1>4, ForgetSteady
<1>5. ASSUME NEW e \in Edits(req[t], d),
             prof' = [prof EXCEPT ![t] = e],
             Goto(t, IF req[t].kind \in {"event", "match_end"} THEN "cache" ELSE "persist"),
             UNCHANGED <<req, todo>>
      PROVE  SteadyInv'
  <2>1. e.id = d.id /\ d.id \in Player  BY <1>2, EditsWhole, WholeDoc
  <2>2. /\ d.events \subseteq e.events
        /\ req[t].kind # "delete_note" => d.notes \subseteq e.notes
        /\ req[t].kind # "remove_label" => d.labels \subseteq e.labels
        /\ req[t].kind \in {"event", "match_end"} => e.labels = d.labels /\ e.notes = d.notes
        /\ req[t].kind \notin {"event", "match_end"} => e.events = d.events
        /\ \A l \in Label :
             \/ l \in e.labels <=> l \in d.labels
             \/ /\ req[t].kind \in {"add_tag", "add_rank", "remove_label", "achievement"}
                /\ l = req[t].label
    BY <1>2, EditsKeep
  <2>3. /\ prof'[t] = e /\ req' = req
        /\ pc'[t] = IF req[t].kind \in {"event", "match_end"} THEN "cache" ELSE "persist"
    BY <1>0, <1>5 DEF Goto, IInv, Typed
  <2>4. SameAs(d, mongo[d.id]) /\ (Cached(d.id) # NoDoc => Cached(d.id).events = d.events)
    BY DEF Fresh
  <2>5. \A l \in Label \ exists : l \in e.labels <=> d.id \in Holders(l)
    BY <2>1, <2>2, <2>4 DEF SameAs, Holders
  <2>6. Cached(d.id)' = Cached(d.id) /\ mongo'[d.id] = mongo[d.id]
        /\ \A l : Holders(l)' = Holders(l)
    BY DEF Cached, Holders
  <2>7. ToWrite(t)'
    <3>1. CASE req[t].kind \in {"event", "match_end"}
      <4>1. SameAs(e, mongo[d.id])  BY <2>2, <2>4, <3>1 DEF SameAs
      <4>2. HasPlayed(req[t].kind, e)  BY <2>1, <2>2, <2>4 DEF HasPlayed
      <4> QED BY <2>1, <2>3, <2>6, <3>1, <4>1, <4>2 DEF ToWrite, HasPlayed
    <3>2. CASE req[t].kind \notin {"event", "match_end"}
      <4>1. Keeps(req[t].kind, e, mongo[d.id])  BY <2>2, <2>4 DEF Keeps, SameAs
      <4>2. Cached(d.id) # NoDoc => e.events = Cached(d.id).events  BY <2>2, <2>4, <3>2
      <4> QED BY <2>1, <2>3, <2>5, <2>6, <3>2, <4>1, <4>2 DEF ToWrite, HasPlayed
    <3> QED BY <3>1, <3>2
  <2>8. InHand(t)'
    BY <1>2, <2>3, <2>7 DEF InHand, Deletes, InDeletion
  <2> QED BY <1>1, <1>3, <2>8, SteadyOfTask
<1> QED BY <1>4, <1>5 DEF Apply

LEMMA FoundSteady ==
  ASSUME All, NEW t \in Task, pc[t] \in {"player", "find"},
         UNCHANGED <<mode, mongo, redis, exists, called>>,
         NEW d \in Whole, IsStored(d), Own(req[t].key, d), Fresh(d),
         Found(t, d)
  PROVE  SteadyInv'
<1>0. IInv /\ OrderInv /\ Steady /\ SteadyInv  BY DEF All
<1>1. ~InDeletion(t) /\ ~Deletes(t)  BY DEF InDeletion, Deletes
<1>2. CASE /\ req[t].kind \in {"add_tag", "add_rank", "remove_label"}
           /\ prof' = [prof EXCEPT ![t] = d]
           /\ Goto(t, "label")
           /\ UNCHANGED <<req, todo>>
  <2>1. prof'[t] = d /\ pc'[t] = "label" /\ Only(t)
    BY <1>0, <1>2 DEF Goto, IInv, Typed, Only, Waiting, WholeOrNone
  <2>2. Fresh(d)'  BY DEF Fresh, Cached
  <2>3. ToWrite(t)'  BY <2>1, <2>2 DEF ToWrite, Fresh, SameAs, Cached
  <2>4. InHand(t)'  BY <2>1, <2>3 DEF InHand, Deletes, InDeletion
  <2> QED BY <1>1, <2>1, <2>4, SteadyOfTask
<1>3. CASE req[t].kind \notin {"add_tag", "add_rank", "remove_label"} /\ Apply(t, d)
  <2>1. Own(CacheKey(req[t], d), d)  BY DEF Own, CacheKey
  <2>2. req[t].kind = "achievement" => req[t].label \in exists
    BY <1>0 DEF SteadyInv, InHand
  <2> QED BY <1>3, <2>1, <2>2, ApplySteady
<1> QED BY <1>2, <1>3 DEF Found

LEMMA LookUpSteady ==
  ASSUME All, mode' = mode, NEW t \in Task, LookUp(t)
  PROVE  SteadyInv'
<1>0. IInv /\ OrderInv /\ Steady /\ SteadyInv  BY DEF All
<1>1. /\ pc[t] = "player" /\ UNCHANGED <<mongo, redis, exists, called, online, requests>>
      /\ AtWork(t) /\ AtNames(t) /\ req[t] \in Request
  BY <1>0 DEF LookUp, stores, IInv, TasksSound, OrderInv, AtWork
<1>2. req[t].key \in Key /\ ~InDeletion(t) /\ ~Deletes(t)
  BY <1>1 DEF Request, InDeletion, Deletes
<1>3. CASE redis[req[t].key] # NoDoc /\ Found(t, redis[req[t].key])
  <2>1. PICK d : d = redis[req[t].key]  OBVIOUS
  <2>2. d \in Whole /\ IsStored(d) /\ Own(req[t].key, d)
    BY <1>0, <1>2, <1>3, <2>1
    DEF IInv, Typed, WholeOrNone, StoresSound, CachedAreStored, KeysMatch, IsStored, Own
  <2>3. d.id \in Player /\ Cached(d.id) = d
    BY <1>0, <1>2, <1>3, <2>1, KeyOf DEF Cached
  <2>4. ~Caching(d.id) /\ \A l : ~Hidden(l)
    BY <1>0, <1>1, <1>2, OnlyOneHides DEF OrderInv
  <2>5. CopyInStep(d.id)  BY <1>0, <2>3 DEF SteadyInv
  <2>6. d.labels \subseteq Label /\ mongo[d.id] \in Whole /\ mongo[d.id].labels \subseteq Label
        /\ mongo[d.id] # NoDoc
    BY <1>0, <1>3, <2>1, <2>2, <2>3, CachedOf, WholeDoc
  <2>7. Fresh(d)  BY <1>3, <2>1, <2>3, <2>4, <2>5, <2>6 DEF CopyInStep, Fresh, SameAs
  <2> QED BY <1>1, <1>3, <2>1, <2>2, <2>7, FoundSteady
<1>4. CASE Goto(t, "find") /\ UNCHANGED <<req, prof, todo>>
  <2>1. Only(t) /\ pc'[t] = "find"
    BY <1>0, <1>4 DEF Only, IInv, Typed, Goto, Waiting
  <2>2. InHand(t)'
    BY <1>0, <1>1, <1>4, <2>1 DEF SteadyInv, InHand, Deletes, InDeletion, AtWork
  <2> QED BY <1>1, <1>2, <2>1, <2>2, SteadyOfTask
<1> QED BY <1>3, <1>4 DEF LookUp

LEMMA FindStoredSteady ==
  ASSUME All, mode' = mode, NEW t \in Task, FindStored(t)
  PROVE  SteadyInv'
<1>0. IInv /\ OrderInv /\ Steady /\ SteadyInv  BY DEF All
<1>1. /\ pc[t] = "find" /\ UNCHANGED <<mongo, redis, exists, called, online, requests>>
      /\ AtWork(t) /\ AtNames(t)
  BY <1>0 DEF FindStored, stores, IInv, TasksSound, OrderInv
<1>2. /\ req[t].key \in Name /\ req[t].key \notin Player /\ redis[req[t].key] = NoDoc
      /\ ~InDeletion(t)
  BY <1>1, PlayerStoreAssumption DEF AtWork, AtNames, InDeletion
<1>3. ASSUME NEW p \in Player, mongo[p] # NoDoc, mongo[p].name = req[t].key,
             Found(t, mongo[p])
      PROVE  SteadyInv'
  <2>1. mongo[p] \in Whole /\ mongo[p].id = p
    BY <1>0, <1>3 DEF IInv, Typed, WholeOrNone, StoresSound, AtIds
  <2>2. IsStored(mongo[p]) /\ Own(req[t].key, mongo[p])  BY <1>3, <2>1 DEF IsStored, Own
  <2>3. Cached(p) = NoDoc
    BY <1>0, <1>2, <1>3, <2>1 DEF Steady, OrderInv, NamesKept, Named, Cached
  <2>4. Fresh(mongo[p])  BY <1>3, <2>1, <2>3 DEF Fresh, SameAs
  <2> QED BY <1>1, <1>3, <2>1, <2>2, <2>4, FoundSteady
<1>4. CASE Forget(t)  BY <1>1, <1>2, <1>4, ForgetSteady
<1> QED BY <1>2, <1>3, <1>4 DEF FindStored

LEMMA FindLabelSteady ==
  ASSUME All, mode' = mode, NEW t \in Task, FindLabel(t)
  PROVE  SteadyInv'
<1>0. IInv /\ OrderInv /\ Steady /\ SteadyInv  BY DEF All
<1>1. /\ pc[t] = "label" /\ UNCHANGED <<mongo, redis, exists, called, online, requests>>
      /\ AtWork(t) /\ ~InDeletion(t) /\ ~Deletes(t)
  BY <1>0 DEF FindLabel, stores, IInv, TasksSound, InDeletion, Deletes
<1>2. CASE Forget(t)  BY <1>1, <1>2, ForgetSteady
<1>3. CASE /\ req[t].label \in exists /\ req[t].kind = "achievement"
           /\ Goto(t, "player") /\ UNCHANGED <<req, prof, todo>>
  <2>1. Only(t) /\ pc'[t] = "player" /\ prof'[t] = NoDoc
    BY <1>0, <1>1, <1>3 DEF Only, IInv, Typed, Goto, Waiting, AtWork
  <2>2. InHand(t)'  BY <1>1, <1>3, <2>1 DEF InHand, Deletes, InDeletion
  <2> QED BY <1>1, <2>1, <2>2, SteadyOfTask
<1>4. CASE req[t].label \in exists /\ req[t].kind # "achievement" /\ Apply(t, prof[t])
  <2>1. req[t].kind \in {"add_tag", "add_rank", "remove_label"} /\ IsStored(prof[t])
    BY <1>1, <1>4 DEF AtWork
  <2>2. prof[t] \in Whole /\ prof[t] # NoDoc
    BY <1>0, <2>1 DEF IsStored, IInv, Typed, WholeOrNone
  <2>3. Own(CacheKey(req[t], prof[t]), prof[t])  BY <2>1 DEF Own, CacheKey
  <2>4. Fresh(prof[t])  BY <1>0, <1>1, <2>2 DEF SteadyInv, InHand, ToWrite
  <2> QED BY <1>1, <1>4, <2>1, <2>2, <2>3, <2>4, ApplySteady
<1> QED BY <1>2, <1>3, <1>4 DEF FindLabel

LEMMA PreloginPlayerSteady ==
  ASSUME All, mode' = mode, NEW t \in Task, PreloginPlayer(t)
  PROVE  SteadyInv'
<1> DEFINE p == req[t].key
           d == IF mongo[p] = NoDoc THEN NewPlayer(p, req[t].name)
                ELSE [mongo[p] EXCEPT !.name = req[t].name]
<1>0. IInv /\ OrderInv /\ Steady /\ SteadyInv  BY DEF All
<1>1. /\ pc[t] = "prelogin"
      /\ UNCHANGED <<mongo, redis, exists, called, online, requests, req, todo>>
      /\ AtWork(t) /\ ~InDeletion(t) /\ ~Deletes(t)
  BY <1>0 DEF PreloginPlayer, stores, IInv, TasksSound, InDeletion, Deletes
<1>2. prof' = [prof EXCEPT ![t] = d] /\ Goto(t, "persist")  BY DEF PreloginPlayer
<1>3. req[t].kind = "prelogin" /\ p \in Player /\ req[t].name \in Name
  BY <1>1 DEF AtWork, Fits
<1>4. /\ d \in Whole /\ d.id = p
      /\ mongo[p] # NoDoc => /\ d.labels = mongo[p].labels /\ d.notes = mongo[p].notes
                             /\ d.events = mongo[p].events
      /\ mongo[p] = NoDoc => d.labels = {}
  <2>1. mongo[p] # NoDoc => mongo[p] \in Whole /\ mongo[p].id = p /\ mongo[p] \in Doc
    BY <1>0, <1>3, WholeDoc DEF IInv, Typed, WholeOrNone, StoresSound, AtIds
  <2>2. CASE mongo[p] = NoDoc
    BY <1>3, <2>2, NewPlayerWhole DEF NewPlayer
  <2>3. CASE mongo[p] # NoDoc
    BY <1>3, <2>1, <2>3, RenamedWhole DEF Doc
  <2> QED BY <2>2, <2>3
<1> HIDE DEF d
<1>5. Only(t) /\ prof'[t] = d /\ pc'[t] = "persist"
  BY <1>0, <1>1, <1>2, <1>4 DEF Only, IInv, Typed, Goto, Waiting, WholeOrNone
<1>6. Cached(p)' = Cached(p) /\ \A l : Holders(l)' = Holders(l)
  BY <1>1 DEF Cached, Holders
<1>7. Keeps("prelogin", d, mongo[p])  BY <1>4 DEF Keeps
<1>8. Cached(p) # NoDoc => d.events \subseteq Cached(p).events
  <2> SUFFICES ASSUME Cached(p) # NoDoc PROVE d.events \subseteq Cached(p).events  OBVIOUS
  <2>1. mongo[p] # NoDoc  BY <1>0, <1>3, CachedOf
  <2> QED BY <1>0, <1>3, <1>4, <2>1 DEF SteadyInv, CopyInStep
<1>9. \A l \in Label : l \in d.labels <=> p \in Holders(l)
  BY <1>3, <1>4 DEF Holders
<1>10. ToWrite(t)'
  BY <1>1, <1>3, <1>4, <1>5, <1>6, <1>7, <1>8, <1>9 DEF ToWrite, HasPlayed
<1>11. InHand(t)'
  BY <1>1, <1>3, <1>5, <1>10 DEF InHand, Deletes, InDeletion, Deletion
<1> QED BY <1>1, <1>5, <1>11, SteadyOfTask

LEMMA DeleteLabelSteady ==
  ASSUME All, mode' = mode, NEW t \in Task, DeleteLabel(t)
  PROVE  SteadyInv'
<1>0. IInv /\ OrderInv /\ Steady /\ SteadyInv  BY DEF All
<1>1. /\ pc[t] = "delete" /\ UNCHANGED <<mongo, redis, called, online, requests>>
      /\ AtWork(t) /\ ~InDeletion(t) /\ ~Deletes(t)
      /\ exists' = exists \ {req[t].label}
      /\ prof[t] = NoDoc
  BY <1>0 DEF DeleteLabel, IInv, TasksSound, InDeletion, Deletes, AtWork
<1>2. CASE req[t].label \notin exists /\ Forget(t)
  <2>1. exists' = exists  BY <1>1, <1>2
  <2> QED BY <1>1, <1>2, <2>1, ForgetSteady
<1>3. CASE Goto(t, "holders") /\ UNCHANGED <<req, prof, todo>>
  <2>1. Only(t) /\ pc'[t] = "holders" /\ req'[t] = req[t] /\ prof'[t] = NoDoc
        /\ req[t].kind \in Deletion
    BY <1>0, <1>1, <1>3 DEF Only, IInv, Typed, Goto, Waiting, AtWork
  <2>2. Alone(t)' /\ OneAtWork  BY <1>0, <1>1, <2>1, AtWorkAlone DEF OrderInv
  <2>3. /\ \A l : ~Hidden(l) /\ ~\E u \in Task : InDeletion(u) /\ req[u].label = l
        /\ \A p : ~Caching(p)
    BY <1>1, <2>2, OnlyOneHides
  <2>4. \A p \in Player : CopyInStep(p)'
    BY <1>0, <1>1, <2>3 DEF SteadyInv, CopyInStep, Cached
  <2>5. InDeletion(t)'  BY <2>1 DEF InDeletion
  <2>6. \A l \in Label \ exists' : LabelGone(l)'
    BY <1>0, <1>1, <2>1, <2>3, <2>5 DEF SteadyInv, LabelGone, Loose, Holders
  <2>7. InHand(t)'  BY <1>1, <2>1 DEF InHand, Deletes
  <2>8. \A u \in Task : InHand(u)'
    BY <2>2, <2>7 DEF Alone, InHand, Deletes, InDeletion
  <2> QED BY <2>4, <2>6, <2>8 DEF SteadyInv
<1> QED BY <1>2, <1>3 DEF DeleteLabel

LEMMA FindHoldersSteady ==
  ASSUME All, mode' = mode, NEW t \in Task, FindHolders(t)
  PROVE  SteadyInv'
<1> DEFINE label == req[t].label
           copies == {Without(mongo[p], label) : p \in Holders(label)}
<1>0. IInv /\ OrderInv /\ Steady /\ SteadyInv  BY DEF All
<1>1. /\ pc[t] = "holders" /\ UNCHANGED <<mongo, redis, exists, called, online, requests>>
      /\ AtWork(t) /\ InDeletion(t) /\ ~Deletes(t) /\ InHand(t)
      /\ req[t].kind \in Deletion /\ prof[t] = NoDoc
  BY <1>0 DEF FindHolders, stores, IInv, TasksSound, InDeletion, Deletes, AtWork, SteadyInv
<1>2. CASE label \in Rank /\ Cardinality(Holders(label)) > 1 /\ Forget(t)
  <2>1. Loose(label)  BY <1>2 DEF Loose
  <2>2. Only(t) /\ pc'[t] = "idle" /\ prof'[t] = NoDoc
    BY <1>0, <1>2, ForgetSound DEF Forget, IInv, Typed
  <2>3. InHand(t)'  BY <2>2 DEF InHand, Deletes, InDeletion
  <2> QED BY <1>1, <2>1, <2>2, <2>3, SteadyOfTask
<1>3. CASE /\ todo' = [todo EXCEPT ![t] = copies]
           /\ Goto(t, IF label \in Achievement THEN "unset" ELSE "each")
           /\ UNCHANGED <<req, prof>>
  <2>1. \A p \in Holders(label) :
          /\ p \in Player /\ mongo[p] \in Whole /\ mongo[p].id = p
          /\ Without(mongo[p], label) \in Whole
          /\ Without(mongo[p], label).id = p
          /\ Without(mongo[p], label).labels = mongo[p].labels \ {label}
          /\ Without(mongo[p], label).notes = mongo[p].notes
          /\ Without(mongo[p], label).events = mongo[p].events
    BY <1>0, WithoutWhole DEF Holders, IInv, Typed, WholeOrNone, StoresSound, AtIds
  <2>2. Only(t)  BY <1>0, <1>3, <2>1 DEF Only, IInv, Typed, Goto, Waiting
  <2>3. /\ todo'[t] = copies /\ req'[t] = req[t] /\ prof'[t] = NoDoc
        /\ pc'[t] = IF label \in Achievement THEN "unset" ELSE "each"
    BY <1>0, <1>1, <1>3 DEF Goto, IInv, Typed
  <2>4. label \in Achievement <=> req[t].kind = "delete_achievement"
    BY <1>1, PlayerStoreAssumption DEF AtWork, Fits, Deletion
  <2>5. label \in Label  BY <1>1 DEF AtWork, Fits, Deletion, Label
  <2>6. \A l \in Label : Holders(l)' = Holders(l)  BY <1>1 DEF Holders
  <2>7. \A d \in copies :
          /\ d.notes = mongo[d.id].notes /\ d.events = mongo[d.id].events
          /\ \A l \in Label : l \in d.labels <=> l # label /\ d.id \in Holders(l)
          /\ \A e \in copies : d.id = e.id => d = e
    BY <2>1 DEF Holders
  <2>8. \A p \in Player : HasLabel(p, label) => \E d \in copies : d.id = p
    <3> SUFFICES ASSUME NEW p \in Player, HasLabel(p, label) PROVE p \in Holders(label)
      BY <2>1
    <3>1. ~Caching(p) /\ ~Hidden(label)
      BY <1>0, <1>1, OnlyOneHides DEF OrderInv
    <3>2. CopyInStep(p)  BY <1>0 DEF SteadyInv
    <3>3. Cached(p) # NoDoc => mongo[p] # NoDoc  BY <1>0, CachedOf
    <3> QED BY <2>5, <3>1, <3>2, <3>3 DEF HasLabel, CopyInStep, Holders
  <2>9. \A p : HasLabel(p, label)' <=> HasLabel(p, label)
    BY <1>1, <2>3 DEF HasLabel, Holders, Cached
  <2>10. ToDelete(t)'
    BY <1>1, <2>3, <2>4, <2>6, <2>7, <2>8, <2>9 DEF ToDelete, Left
  <2>11. Deletes(t)' /\ InDeletion(t)'  BY <1>1, <2>3 DEF Deletes, InDeletion
  <2>12. InHand(t)'
    BY <1>1, <2>3, <2>10, <2>11 DEF InHand
  <2> QED BY <1>1, <2>2, <2>3, <2>11, <2>12, SteadyOfTask
<1> QED BY <1>2, <1>3 DEF FindHolders

LEMMA NextHolderSteady ==
  ASSUME All, mode' = mode, NEW t \in Task, NextHolder(t)
  PROVE  SteadyInv'
<1> DEFINE label == req[t].label
<1>0. IInv /\ OrderInv /\ Steady /\ SteadyInv  BY DEF All
<1>1. /\ pc[t] = "each" /\ UNCHANGED <<mongo, redis, exists, called, online, requests>>
      /\ AtWork(t) /\ InDeletion(t) /\ Deletes(t) /\ InHand(t) /\ ToDelete(t)
      /\ req[t].kind \in Deletion
  BY <1>0 DEF NextHolder, stores, IInv, TasksSound, InDeletion, Deletes, AtWork, SteadyInv, InHand
<1>2. CASE todo[t] = {} /\ Forget(t)
  <2>1. \A p \in Player : ~HasLabel(p, label)  BY <1>1, <1>2 DEF ToDelete, Left
  <2>2. Loose(label)  BY <2>1 DEF HasLabel, Loose, Holders
  <2>3. Only(t) /\ pc'[t] = "idle" /\ prof'[t] = NoDoc
    BY <1>0, <1>2, ForgetSound DEF Forget, IInv, Typed
  <2>4. InHand(t)'  BY <2>3 DEF InHand, Deletes, InDeletion
  <2> QED BY <1>1, <2>1, <2>2, <2>3, <2>4, SteadyOfTask
<1>3. ASSUME NEW d \in todo[t],
             prof' = [prof EXCEPT ![t] = d],
             todo' = [todo EXCEPT ![t] = @ \ {d}],
             Goto(t, IF req[t].kind = "delete_achievement" THEN "cache" ELSE "persist"),
             UNCHANGED req
      PROVE  SteadyInv'
  <2>1. /\ d \in Whole /\ IsStored(d) /\ d # NoDoc /\ d.id \in Player /\ d.labels \subseteq Label
        /\ mongo[d.id] \in Whole /\ mongo[d.id].labels \subseteq Label
    <3>1. d \in Whole /\ IsStored(d)  BY <1>0, <1>1 DEF AtWork, IInv, Typed
    <3>2. d.id \in Player  BY <3>1, WholeDoc
    <3>3. mongo[d.id] \in Whole  BY <1>0, <3>1, <3>2 DEF IsStored, IInv, Typed, WholeOrNone
    <3> QED BY <3>1, <3>2, <3>3, WholeDoc
  <2>2. Only(t)  BY <1>0, <1>3, <2>1 DEF Only, IInv, Typed, Goto, Waiting, WholeOrNone
  <2>3. /\ prof'[t] = d /\ todo'[t] = todo[t] \ {d} /\ req'[t] = req[t]
        /\ pc'[t] = IF req[t].kind = "delete_achievement" THEN "cache" ELSE "persist"
    BY <1>0, <1>3 DEF Goto, IInv, Typed
  <2>4. /\ d.notes = mongo[d.id].notes /\ d.events = mongo[d.id].events
        /\ \A l \in Label : l \in d.labels <=> l # label /\ d.id \in Holders(l)
        /\ \A e \in todo[t] : d.id = e.id => d = e
    BY <1>1 DEF ToDelete
  <2>5. Cached(d.id)' = Cached(d.id) /\ mongo'[d.id] = mongo[d.id]
        /\ \A l : Holders(l)' = Holders(l)
    BY <1>1 DEF Cached, Holders
  <2>6. Cached(d.id) # NoDoc => d.events \subseteq Cached(d.id).events
    BY <1>0, <2>1, <2>4 DEF SteadyInv, CopyInStep
  <2>7. label \notin d.labels
    <3>1. label \in Label  BY <1>1 DEF AtWork, Fits, Deletion, Label
    <3> QED BY <2>4, <3>1
  <2>8. ToWrite(t)'
    <3>1. CASE req[t].kind = "delete_achievement"
      <4>1. Holders(label) = {}  BY <1>1, <3>1 DEF ToDelete
      <4>2. \A l \in Label : l \in d.labels <=> l \in mongo[d.id].labels
        BY <2>1, <2>4, <4>1 DEF Holders, IsStored
      <4>3. SameAs(d, mongo[d.id])  BY <2>1, <2>4, <4>2 DEF SameAs, IsStored
      <4> QED BY <1>1, <2>3, <2>5, <3>1, <4>3 DEF ToWrite, HasPlayed
    <3>2. CASE req[t].kind # "delete_achievement"
      <4>1. Keeps(req[t].kind, d, mongo[d.id])  BY <1>1, <2>4 DEF Keeps
      <4>2. req[t].kind # "match_end"  BY <1>1 DEF Deletion
      <4> QED BY <1>1, <2>3, <2>4, <2>5, <2>6, <3>2, <4>1, <4>2 DEF ToWrite, HasPlayed
    <3> QED BY <3>1, <3>2
  <2>9. Deletes(t)' /\ InDeletion(t)'  BY <1>1, <2>3 DEF Deletes, InDeletion
  <2>10. ToDelete(t)'
    <3>1. \A p : HasLabel(p, label)' <=> HasLabel(p, label)
      BY <1>1, <2>3 DEF HasLabel, Holders, Cached
    <3>2. Left(t)' = Left(t)  BY <1>1, <2>3 DEF Left
    <3>3. \A e \in todo'[t] : e.id # d.id  BY <2>3, <2>4
    <3> QED BY <1>1, <2>3, <2>5, <2>7, <3>1, <3>2, <3>3 DEF ToDelete
  <2>11. InHand(t)'  BY <1>1, <2>3, <2>8, <2>9, <2>10 DEF InHand
  <2> QED BY <1>1, <2>2, <2>3, <2>9, <2>11, SteadyOfTask
<1> QED BY <1>2, <1>3 DEF NextHolder

LEMMA UnsetAchievementSteady ==
  ASSUME All, mode' = mode, NEW t \in Task, UnsetAchievement(t)
  PROVE  SteadyInv'
<1> DEFINE label == req[t].label
<1>0. IInv /\ OrderInv /\ Steady /\ SteadyInv  BY DEF All
<1>1. /\ pc[t] = "unset" /\ UNCHANGED <<redis, exists, called, online, requests, req, prof, todo>>
      /\ Goto(t, "each")
      /\ AtWork(t) /\ InDeletion(t) /\ Deletes(t) /\ InHand(t) /\ ToDelete(t)
      /\ req[t].kind = "delete_achievement" /\ req[t].kind \in Deletion
      /\ mongo' = [p \in Player |-> IF mongo[p] = NoDoc THEN NoDoc
                                    ELSE [mongo[p] EXCEPT !.labels = @ \ {label}]]
  BY <1>0 DEF UnsetAchievement, IInv, TasksSound, InDeletion, Deletes, AtWork, SteadyInv,
              InHand, Deletion
<1>2. Only(t) /\ pc'[t] = "each"  BY <1>0, <1>1 DEF Only, IInv, Typed, Goto, Waiting
<1>3. OneAtWork /\ Alone(t) /\ Alone(t)'  BY <1>0, <1>1, <1>2, AtWorkAlone DEF OrderInv
<1>4. ASSUME NEW p \in Player, mongo[p] # NoDoc
      PROVE  /\ mongo'[p].labels = mongo[p].labels \ {label}
             /\ mongo'[p].notes = mongo[p].notes /\ mongo'[p].events = mongo[p].events
             /\ mongo'[p] # NoDoc
  <2>1. mongo[p] \in Doc  BY <1>0, <1>4, WholeDoc DEF IInv, Typed, WholeOrNone
  <2>2. [mongo[p] EXCEPT !.labels = @ \ {label}] \in Doc  BY <2>1 DEF Doc
  <2> QED BY <1>1, <1>4, <2>1, <2>2, NoDocAssumption DEF Doc
<1>5. \A p \in Player : mongo[p] = NoDoc => mongo'[p] = NoDoc  BY <1>1
<1>6. Holders(label)' = {} /\ \A l : l # label => Holders(l)' = Holders(l)
  <2>1. req' = req  BY <1>1
  <2> QED BY <1>4, <1>5, <2>1 DEF Holders
<1>7. Deletes(t)' /\ InDeletion(t)'  BY <1>1, <1>2 DEF Deletes, InDeletion
<1>8. /\ \A l : Hidden(l) <=> label = l
      /\ \A p : ~Caching(p)
      /\ \A l : (\E u \in Task : InDeletion(u) /\ req[u].label = l) => label = l
  BY <1>1, <1>3, OnlyOneHides
<1>9. ASSUME NEW p \in Player PROVE CopyInStep(p)'
  <2>1. CASE Cached(p) = NoDoc  BY <1>1, <2>1 DEF CopyInStep, Cached
  <2>2. CASE Cached(p) # NoDoc
    <3>1. mongo[p] # NoDoc /\ CopyInStep(p)  BY <1>0, <2>2, CachedOf DEF SteadyInv
    <3>2. Hidden(label)'  BY <1>1, <1>7 DEF Hidden
    <3> QED BY <1>1, <1>4, <1>8, <3>1, <3>2 DEF CopyInStep, Cached
  <2> QED BY <2>1, <2>2
<1>10. ASSUME NEW l \in Label \ exists PROVE LabelGone(l)'
  <2>1. CASE l = label  BY <1>1, <1>7, <2>1 DEF LabelGone
  <2>2. CASE l # label
    BY <1>0, <1>6, <1>8, <2>2 DEF LabelGone, Loose, SteadyInv
  <2> QED BY <2>1, <2>2
<1>11. ToDelete(t)'
  <2>1. ASSUME NEW d \in todo[t]
        PROVE  /\ d.notes = mongo'[d.id].notes /\ d.events = mongo'[d.id].events
               /\ \A l \in Label : l \in d.labels <=> l # label /\ d.id \in Holders(l)'
    <3>1. d \in Whole /\ IsStored(d) /\ d.id \in Player
      BY <1>0, <1>1, WholeDoc DEF AtWork, IInv, Typed
    <3> QED BY <1>1, <1>4, <1>6, <3>1 DEF ToDelete, IsStored
  <2>2. \A p \in Player : HasLabel(p, label)' => HasLabel(p, label)
    BY <1>1, <1>6 DEF HasLabel, Cached
  <2>3. Left(t)' = Left(t)  BY <1>1, <1>2 DEF Left
  <2>4. prof' = prof /\ todo' = todo /\ req' = req /\ prof[t] = NoDoc  BY <1>1 DEF AtWork
  <2>5. \A d, e \in todo[t] : d.id = e.id => d = e  BY <1>1 DEF ToDelete
  <2>6. \A p \in Player : HasLabel(p, label) => p \in Left(t)  BY <1>1 DEF ToDelete
  <2> QED BY <1>2, <1>6, <2>1, <2>2, <2>3, <2>4, <2>5, <2>6 DEF ToDelete
<1>12. InHand(t)'
  <2>1. prof'[t] = NoDoc  BY <1>1 DEF AtWork
  <2> QED BY <1>1, <1>2, <1>7, <1>11, <2>1 DEF InHand
<1>13. \A u \in Task : InHand(u)'
  BY <1>3, <1>12 DEF Alone, InHand, Deletes, InDeletion
<1> QED BY <1>1, <1>9, <1>10, <1>13 DEF SteadyInv

LEMMA PersistSteady ==
  ASSUME All, mode' = mode, NEW t \in Task, Persist(t)
  PROVE  SteadyInv'
<1>0. IInv /\ OrderInv /\ Steady /\ SteadyInv  BY DEF All
<1>1. /\ pc[t] = "persist" /\ UNCHANGED <<redis, exists, called, online, requests>>
      /\ AtWork(t) /\ InHand(t)
      /\ mongo' = [mongo EXCEPT ![prof[t].id] = prof[t]]
  BY <1>0 DEF Persist, IInv, TasksSound, SteadyInv
<1>2. PICK p \in Player, d \in Whole : d = prof[t] /\ p = d.id /\ d # NoDoc
  BY <1>0, <1>1, WritesAt
<1>3. PICK r : r = req[t]  OBVIOUS
<1>4. /\ mongo'[p] = d
      /\ \A q \in Player : q # p => mongo'[q] = mongo[q]
  BY <1>0, <1>1, <1>2 DEF IInv, Typed
<1>5. /\ Keeps(r.kind, d, mongo[p])
      /\ HasPlayed(r.kind, d)
      /\ Cached(p) # NoDoc => d.events \subseteq Cached(p).events
      /\ \A l \in Label \ exists : \/ r.kind \in Deletion /\ l = r.label
                                   \/ l \in d.labels <=> p \in Holders(l)
      /\ r.kind = "match_end" => SameAs(d, mongo[p])
  BY <1>1, <1>2, <1>3 DEF InHand, ToWrite
<1>6. \A l : l \in d.labels <=> p \in Holders(l)'  BY <1>2, <1>4 DEF Holders
<1>7. \A l : \A q \in Player : q # p => (q \in Holders(l)' <=> q \in Holders(l))
  BY <1>4 DEF Holders
<1>8. \A l \in Label \ exists : ~(r.kind \in Deletion /\ l = r.label) => Holders(l)' = Holders(l)
  <2> SUFFICES ASSUME NEW l \in Label \ exists, ~(r.kind \in Deletion /\ l = r.label)
               PROVE  \A q \in Player : q \in Holders(l)' <=> q \in Holders(l)
    BY DEF Holders
  <2> QED BY <1>5, <1>6, <1>7
<1>9. /\ \A l : Hidden(l) <=> Deletes(t) /\ r.label = l
      /\ \A q : ~Caching(q)
      /\ \A l : (\E u \in Task : InDeletion(u) /\ req[u].label = l)
                <=> InDeletion(t) /\ r.label = l
  BY <1>0, <1>1, <1>3, OnlyOneHides DEF OrderInv
<1>10. InDeletion(t) <=> r.kind \in Deletion  BY <1>1, <1>3 DEF InDeletion
<1>11. \A q \in Player : Cached(q)' = Cached(q)  BY <1>1 DEF Cached
<1>12. CASE r.kind = "match_end" /\ Forget(t)
  <2>1. Only(t) /\ pc'[t] = "idle" /\ prof'[t] = NoDoc
    BY <1>0, <1>12, ForgetSound DEF Forget, IInv, Typed
  <2>2. Alone(t)'  BY <1>0, <1>1, <2>1, AtWorkAlone DEF OrderInv
  <2>3. r.kind \notin Deletion  BY <1>12 DEF Deletion
  <2>4. ASSUME NEW q \in Player PROVE CopyInStep(q)'
    <3>1. CopyInStep(q)  BY <1>0 DEF SteadyInv
    <3>2. \A l : ~Hidden(l)  BY <1>9, <1>3, <2>3 DEF Deletes
    <3>3. CASE q = p
      BY <1>4, <1>5, <1>9, <1>11, <1>12, <3>1, <3>2, <3>3 DEF CopyInStep, SameAs
    <3>4. CASE q # p  BY <1>4, <1>9, <1>11, <3>1, <3>2, <3>4 DEF CopyInStep
    <3> QED BY <3>3, <3>4
  <2>5. ASSUME NEW l \in Label \ exists PROVE LabelGone(l)'
    <3>1. Loose(l)  BY <1>0, <1>9, <1>10, <2>3 DEF SteadyInv, LabelGone
    <3> QED BY <1>8, <2>3, <3>1 DEF LabelGone, Loose
  <2>6. \A u \in Task : InHand(u)'
    BY <2>1, <2>2 DEF Alone, InHand, Deletes, InDeletion
  <2> QED BY <1>1, <2>4, <2>5, <2>6 DEF SteadyInv
<1>13. CASE r.kind # "match_end" /\ Goto(t, "cache") /\ UNCHANGED <<req, prof, todo>>
  <2>1. Only(t) /\ pc'[t] = "cache"
    BY <1>0, <1>13 DEF Only, IInv, Typed, Goto, Waiting
  <2>2. Alone(t)'  BY <1>0, <1>1, <2>1, AtWorkAlone DEF OrderInv
  <2>3. Deletes(t)' <=> Deletes(t)  BY <1>1, <1>13, <2>1 DEF Deletes
  <2>4. Caching(p)'  BY <1>2, <1>13, <2>1 DEF Caching
  <2>5. \A l : Hidden(l) => Hidden(l)'  BY <1>3, <1>9, <1>13, <2>3 DEF Hidden
  <2>6. ASSUME NEW q \in Player PROVE CopyInStep(q)'
    <3>1. CopyInStep(q)  BY <1>0 DEF SteadyInv
    <3>2. CASE q = p  BY <1>4, <1>5, <1>11, <2>4, <3>2 DEF CopyInStep
    <3>3. CASE q # p  BY <1>4, <1>9, <1>11, <2>5, <3>1, <3>3 DEF CopyInStep
    <3> QED BY <3>2, <3>3
  <2>7. ASSUME NEW l \in Label \ exists PROVE LabelGone(l)'
    <3>1. CASE r.kind \in Deletion /\ l = r.label
      <4>1. InDeletion(t)' /\ req'[t] = r  BY <1>3, <1>13, <2>1, <3>1 DEF InDeletion
      <4> QED BY <3>1, <4>1 DEF LabelGone
    <3>2. CASE ~(r.kind \in Deletion /\ l = r.label)
      <4>1. Loose(l)  BY <1>0, <1>9, <1>10, <3>2 DEF SteadyInv, LabelGone
      <4> QED BY <1>8, <3>2, <4>1 DEF LabelGone, Loose
    <3> QED BY <3>1, <3>2
  <2>8. ToWrite(t)'
    <3>1. SameAs(d, d)  BY <1>2 DEF SameAs
    <3>2. HasPlayed(r.kind, d)'  BY <1>5, <1>2, <1>11 DEF HasPlayed
    <3> QED BY <1>2, <1>3, <1>4, <1>13, <2>1, <3>1, <3>2 DEF ToWrite, HasPlayed
  <2>9. ASSUME Deletes(t) PROVE ToDelete(t)'
    <3>1. ToDelete(t) /\ r.kind \in Deletion
      BY <1>1, <1>3, <2>9 DEF InHand, Deletes
    <3>2. \A e \in todo[t] : e.id # p /\ e.id \in Player
      BY <1>0, <1>1, <1>2, <3>1, WholeDoc DEF ToDelete, IInv, Typed
    <3>3. \A e \in todo[t] :
            /\ e.notes = mongo'[e.id].notes /\ e.events = mongo'[e.id].events
            /\ \A l \in Label : l \in e.labels <=> l # r.label /\ e.id \in Holders(l)'
            /\ \A f \in todo[t] : e.id = f.id => e = f
      BY <1>3, <1>4, <1>7, <3>1, <3>2 DEF ToDelete
    <3>4. Left(t)' = Left(t) /\ p \in Left(t)
      BY <1>1, <1>2, <1>13, <2>1 DEF Left
    <3>5. \A q \in Player : HasLabel(q, r.label)' => q \in Left(t)
      <4> SUFFICES ASSUME NEW q \in Player, q # p, HasLabel(q, r.label)' PROVE q \in Left(t)
        BY <3>4
      <4>1. HasLabel(q, r.label)  BY <1>7, <1>11 DEF HasLabel
      <4> QED BY <1>3, <3>1, <4>1 DEF ToDelete
    <3>6. r.label \notin d.labels  BY <1>2, <1>3, <3>1 DEF ToDelete
    <3>7. r.kind = "delete_achievement" => Holders(r.label)' = {}
      <4> SUFFICES ASSUME r.kind = "delete_achievement"
                   PROVE  \A q \in Player : q \notin Holders(r.label)'
        BY DEF Holders
      <4>1. Holders(r.label) = {}  BY <1>1, <1>3, <3>1 DEF ToDelete
      <4> QED BY <1>6, <1>7, <3>6, <4>1
    <3> QED BY <1>2, <1>3, <1>13, <2>1, <3>2, <3>3, <3>4, <3>5, <3>6, <3>7 DEF ToDelete
  <2>10. InHand(t)'
    <3>1. InDeletion(t)' => r.label \notin exists
      BY <1>1, <1>3, <1>10, <1>13 DEF InDeletion, InHand
    <3> QED BY <1>1, <1>3, <1>13, <2>1, <2>3, <2>8, <2>9, <3>1 DEF InHand
  <2>11. \A u \in Task : InHand(u)'
    BY <2>2, <2>10 DEF Alone, InHand, Deletes, InDeletion
  <2> QED BY <1>1, <2>6, <2>7, <2>11 DEF SteadyInv
<1> QED BY <1>3, <1>12, <1>13 DEF Persist

LEMMA CacheItSteady ==
  ASSUME All, mode' = mode, NEW t \in Task, CacheIt(t)
  PROVE  SteadyInv'
<1>0. IInv /\ OrderInv /\ Steady /\ SteadyInv  BY DEF All
<1>1. /\ pc[t] = "cache" /\ UNCHANGED <<mongo, exists, called, online, requests>>
      /\ AtWork(t) /\ InHand(t)
      /\ redis' = [redis EXCEPT ![CacheKey(req[t], prof[t])] = prof[t]]
  BY <1>0 DEF CacheIt, IInv, TasksSound, SteadyInv
<1>2. PICK p \in Player, d \in Whole :
         d = prof[t] /\ p = d.id /\ d # NoDoc /\ CacheKey(req[t], prof[t]) = called[p]
  BY <1>0, <1>1, WritesAt
<1>3. PICK r : r = req[t]  OBVIOUS
<1>4. \A q \in Player : Cached(q)' = IF q = p THEN d ELSE Cached(q)
  BY <1>0, <1>1, <1>2 DEF Cached, IInv, Typed, Key, OrderInv, AccountsApart
<1>5. SameAs(d, mongo[p]) /\ HasPlayed(r.kind, d)
  BY <1>1, <1>2, <1>3 DEF InHand, ToWrite
<1>6. /\ \A l : Hidden(l) <=> Deletes(t) /\ r.label = l
      /\ \A q : Caching(q) <=> p = q
      /\ \A l : (\E u \in Task : InDeletion(u) /\ req[u].label = l)
                <=> InDeletion(t) /\ r.label = l
  BY <1>0, <1>1, <1>2, <1>3, OnlyOneHides DEF OrderInv
<1>7. (InDeletion(t) <=> r.kind \in Deletion) /\ (Deletes(t) <=> r.kind \in Deletion)
  BY <1>1, <1>3 DEF InDeletion, Deletes
<1>8. \A l : Holders(l)' = Holders(l)  BY <1>1 DEF Holders
<1>9. ASSUME \A l : Hidden(l) => Hidden(l)', NEW q \in Player PROVE CopyInStep(q)'
  <2>1. CASE q = p  BY <1>1, <1>4, <1>5, <2>1 DEF CopyInStep, SameAs
  <2>2. CASE q # p
    <3>1. CopyInStep(q) /\ ~Caching(q)  BY <1>0, <1>6, <2>2 DEF SteadyInv
    <3> QED BY <1>1, <1>4, <1>9, <2>2, <3>1 DEF CopyInStep
  <2> QED BY <2>1, <2>2
<1>10. CASE r.kind = "match_end" /\ Goto(t, "persist") /\ UNCHANGED <<req, prof, todo>>
  <2>1. Only(t) /\ pc'[t] = "persist" /\ r.kind \notin Deletion
    BY <1>0, <1>10 DEF Only, IInv, Typed, Goto, Waiting, Deletion
  <2>2. Alone(t)'  BY <1>0, <1>1, <2>1, AtWorkAlone DEF OrderInv
  <2>3. \A q \in Player : CopyInStep(q)'  BY <1>6, <1>7, <1>9, <2>1
  <2>4. \A l \in Label \ exists : LabelGone(l)'
    BY <1>0, <1>6, <1>7, <1>8, <2>1 DEF SteadyInv, LabelGone, Loose
  <2>5. ToWrite(t)'
    <3>1. Keeps(r.kind, d, mongo[p])  BY <1>5 DEF Keeps, SameAs
    <3>2. \A l \in Label : l \in d.labels <=> p \in Holders(l)
      BY <1>5 DEF SameAs, Holders
    <3>3. HasPlayed(r.kind, d)'  BY <1>2, <1>4 DEF HasPlayed
    <3>4. Cached(p)' = d  BY <1>4
    <3> QED BY <1>1, <1>2, <1>3, <1>5, <1>8, <1>10, <2>1, <3>1, <3>2, <3>3, <3>4
        DEF ToWrite, HasPlayed
  <2>6. InHand(t)'
    BY <1>3, <1>10, <2>1, <2>5 DEF InHand, Deletes, InDeletion
  <2>7. \A u \in Task : InHand(u)'
    BY <2>2, <2>6 DEF Alone, InHand, Deletes, InDeletion
  <2> QED BY <1>1, <2>3, <2>4, <2>7 DEF SteadyInv
<1>11. CASE /\ r.kind \in Deletion
            /\ Goto(t, "each")
            /\ prof' = [prof EXCEPT ![t] = NoDoc]
            /\ UNCHANGED <<req, todo>>
  <2>1. Only(t) /\ pc'[t] = "each" /\ prof'[t] = NoDoc /\ req'[t] = r
    BY <1>0, <1>3, <1>11 DEF Only, IInv, Typed, Goto, Waiting, WholeOrNone
  <2>2. Alone(t)'  BY <1>0, <1>1, <2>1, AtWorkAlone DEF OrderInv
  <2>3. Deletes(t)' /\ InDeletion(t)'  BY <1>11, <2>1 DEF Deletes, InDeletion
  <2>4. \A l : Hidden(l) => Hidden(l)'  BY <1>6, <2>1, <2>3 DEF Hidden
  <2>5. \A q \in Player : CopyInStep(q)'  BY <1>9, <2>4
  <2>6. \A l \in Label \ exists : LabelGone(l)'
    BY <1>0, <1>6, <1>8, <2>1, <2>3 DEF SteadyInv, LabelGone, Loose
  <2>7. ToDelete(t)'
    <3>1. ToDelete(t)  BY <1>1, <1>7, <1>11 DEF InHand
    <3>2. \A e \in todo[t] :
            /\ e.notes = mongo[e.id].notes /\ e.events = mongo[e.id].events
            /\ \A l \in Label : l \in e.labels <=> l # r.label /\ e.id \in Holders(l)
            /\ \A f \in todo[t] : e.id = f.id => e = f
      BY <1>3, <3>1 DEF ToDelete
    <3>3. r.label \notin d.labels  BY <1>2, <1>3, <3>1 DEF ToDelete
    <3>4. \A q \in Player : HasLabel(q, r.label)' => q \in Left(t)'
      <4> SUFFICES ASSUME NEW q \in Player, HasLabel(q, r.label)' PROVE q \in Left(t)'  OBVIOUS
      <4>1. p \notin Holders(r.label)  BY <1>5, <3>3 DEF SameAs, Holders
      <4>2. q # p  BY <1>4, <1>8, <3>3, <4>1 DEF HasLabel
      <4>3. HasLabel(q, r.label)  BY <1>4, <1>8, <4>2 DEF HasLabel
      <4>4. q \in Left(t)  BY <1>3, <3>1, <4>3 DEF ToDelete
      <4>5. q \in {e.id : e \in todo[t]}  BY <1>1, <1>2, <4>2, <4>4 DEF Left
      <4> QED BY <1>11, <4>5 DEF Left
    <3>5. r.kind = "delete_achievement" => Holders(r.label) = {}
      BY <1>1, <1>3, <3>1 DEF ToDelete
    <3> QED BY <1>1, <1>8, <1>11, <2>1, <3>2, <3>4, <3>5 DEF ToDelete
  <2>8. InHand(t)'
    BY <1>1, <1>3, <1>7, <1>11, <2>1, <2>7 DEF InHand
  <2>9. \A u \in Task : InHand(u)'
    BY <2>2, <2>8 DEF Alone, InHand, Deletes, InDeletion
  <2> QED BY <1>1, <2>5, <2>6, <2>9 DEF SteadyInv
<1>12. CASE r.kind \notin Deletion /\ Forget(t)
  <2>1. Only(t) /\ pc'[t] = "idle" /\ prof'[t] = NoDoc
    BY <1>0, <1>12, ForgetSound DEF Forget, IInv, Typed
  <2>2. Alone(t)'  BY <1>0, <1>1, <2>1, AtWorkAlone DEF OrderInv
  <2>3. \A q \in Player : CopyInStep(q)'  BY <1>6, <1>7, <1>9, <1>12
  <2>4. \A l \in Label \ exists : LabelGone(l)'
    BY <1>0, <1>6, <1>7, <1>8, <1>12 DEF SteadyInv, LabelGone, Loose
  <2>5. \A u \in Task : InHand(u)'
    BY <2>1, <2>2 DEF Alone, InHand, Deletes, InDeletion
  <2> QED BY <1>1, <2>3, <2>4, <2>5 DEF SteadyInv
<1> QED BY <1>3, <1>10, <1>11, <1>12 DEF CacheIt, Proceed

LEMMA InitSteady == Init => SteadyInv
<1> SUFFICES ASSUME Init PROVE SteadyInv  OBVIOUS
<1>1. \A p \in Player : mongo[p] = NoDoc  BY DEF Init
<1>2. \A p \in Player : Cached(p) = NoDoc  BY DEF Init, Cached, Key
<1>3. \A l : Holders(l) = {}  BY <1>1 DEF Holders
<1>4. \A t \in Task : InHand(t)  BY DEF Init, InHand, Deletes, InDeletion
<1> QED BY <1>2, <1>3, <1>4 DEF SteadyInv, CopyInStep, LabelGone, Loose

LEMMA NextSteady == All /\ [Next]_vars => SteadyInv'
<1> SUFFICES ASSUME All, [Next]_vars PROVE SteadyInv'  OBVIOUS
<1>1. ASSUME mode' = mode, NEW t \in Task, NEW p \in mode.players, Prelogin(t, p)
      PROVE  SteadyInv'
  BY <1>1, BeginSteady DEF Prelogin
<1>2. ASSUME mode' = mode, NEW t \in Task, NEW kind, NEW key, NEW label,
             Ask(t, kind, key, label) \/ Delete(t, kind, key, label)
      PROVE  SteadyInv'
  BY <1>2, BeginSteady DEF Ask, Delete
<1>3. ASSUME mode' = mode, NEW t \in Task, NEW p, NEW kind, NEW label,
             Play(t, kind, p) \/ Achieve(t, p, label)
      PROVE  SteadyInv'
  BY <1>3, BeginSteady DEF Play, Achieve
<1>4. ASSUME mode' = mode, NEW t \in Task, Step(t) PROVE SteadyInv'
  <2>1. ~Die(t)  BY DEF Die, All, Steady, Orderly
  <2> QED BY <1>1, <1>2, <1>3, <1>4, <2>1, LookUpSteady, FindStoredSteady, FindLabelSteady,
             PreloginPlayerSteady, PersistSteady, CacheItSteady, DeleteLabelSteady,
             FindHoldersSteady, UnsetAchievementSteady, NextHolderSteady
          DEF Step
<1>5. ~(\E p \in mode.players : Leave(p) \/ \E n \in mode.names : Rename(p, n))
  BY DEF Leave, Rename, All, Steady
<1>6. CASE UNCHANGED vars
  <2>1. UNCHANGED <<mongo, redis, exists, called, pc, req, prof, todo>>
    BY <1>6 DEF vars, stores
  <2>2. /\ \A l : Hidden(l)' <=> Hidden(l)
        /\ \A p : (Caching(p)' <=> Caching(p)) /\ Cached(p)' = Cached(p)
        /\ \A l : Holders(l)' = Holders(l)
        /\ \A t \in Task : (InDeletion(t)' <=> InDeletion(t)) /\ (Deletes(t)' <=> Deletes(t))
                           /\ Left(t)' = Left(t)
    BY <2>1 DEF Hidden, Deletes, Caching, Cached, Holders, InDeletion, Left
  <2>3. \A p \in Player : CopyInStep(p)'  BY <2>1, <2>2 DEF All, SteadyInv, CopyInStep
  <2>4. \A l \in Label \ exists : LabelGone(l)'
    BY <2>1, <2>2 DEF All, SteadyInv, LabelGone, Loose
  <2>5. ASSUME NEW t \in Task PROVE InHand(t)'
    <3>1. ToWrite(t)' <=> ToWrite(t)  BY <2>1, <2>2 DEF ToWrite, Fresh, HasPlayed
    <3>2. ToDelete(t)' <=> ToDelete(t)  BY <2>1, <2>2 DEF ToDelete, HasLabel
    <3> QED BY <2>1, <2>2, <3>1, <3>2 DEF All, SteadyInv, InHand
  <2> QED BY <2>1, <2>3, <2>4, <2>5 DEF SteadyInv
<1> QED BY <1>4, <1>5, <1>6 DEF Next

-----------------------------------------------------------------------------
(* Where nothing is deleted, each label in use exists, whatever names       *)
(* players have had.                                                       *)

NoDeletion == mode.kinds \cap Deletion = {}

InUse(d) == d # NoDoc => d.labels \subseteq exists

LabelsExist ==
  /\ \A p \in Player : InUse(mongo[p])
  /\ \A k \in Key : InUse(redis[k])
  /\ \A t \in Task :
       /\ InUse(prof[t])
       /\ pc[t] \in {"player", "find"} /\ req[t].kind = "achievement" => req[t].label \in exists

LEMMA InitLabels == Init => LabelsExist
  BY DEF Init, LabelsExist, InUse

\* A step of a task that is not about a deletion: the stores may get what the
\* task has at hand.
LEMMA LabelsOfTask ==
  ASSUME LabelsExist, NEW t \in Task, Only(t), exists' = exists,
         \A p \in Player : mongo'[p] = mongo[p] \/ mongo'[p] = prof[t],
         \A k \in Key : redis'[k] = redis[k] \/ redis'[k] = prof[t],
         prof'[t] # NoDoc => prof'[t].labels \subseteq exists,
         pc'[t] \in {"player", "find"} /\ req'[t].kind = "achievement" =>
           req'[t].label \in exists
  PROVE  LabelsExist'
  BY DEF LabelsExist, InUse, Only

LEMMA ApplyLabels ==
  ASSUME IInv, LabelsExist, NEW t \in Task, pc[t] \in {"player", "find", "label"},
         UNCHANGED <<mongo, redis, exists>>,
         NEW d \in Whole, IsStored(d), Own(CacheKey(req[t], d), d),
         d.labels \subseteq exists,
         req[t].kind \in {"add_tag", "add_rank", "achievement"} => req[t].label \in exists,
         Apply(t, d)
  PROVE  LabelsExist'
<1>1. AtWork(t) /\ Only(t)  BY ApplySound DEF IInv, TasksSound
<1>2. CASE Forget(t)
  <2>1. pc'[t] = "idle" /\ prof'[t] = NoDoc  BY <1>2 DEF Forget, Goto, IInv, Typed
  <2> QED BY <1>1, <2>1, LabelsOfTask
<1>3. ASSUME NEW e \in Edits(req[t], d),
             prof' = [prof EXCEPT ![t] = e],
             Goto(t, IF req[t].kind \in {"event", "match_end"} THEN "cache" ELSE "persist"),
             UNCHANGED <<req, todo>>
      PROVE  LabelsExist'
  <2>1. req[t] \in Request /\ Fits(req[t]) /\ req[t].kind \notin Deletion \cup {"prelogin"}
    BY <1>1 DEF AtWork
  <2>2. e.labels \subseteq exists
    <3>1. e \in Whole /\ e.labels \subseteq Label  BY <2>1, EditsWhole, WholeDoc
    <3>2. CASE req[t].kind = "remove_label"
      <4>1. e = Without(d, req[t].label)  BY <3>2 DEF Edits
      <4> QED BY <4>1, WithoutWhole
    <3>3. CASE req[t].kind # "remove_label"
      BY <2>1, <3>1, <3>3, EditsKeep
    <3> QED BY <3>2, <3>3
  <2>3. prof'[t] = e /\ pc'[t] \in {"cache", "persist"}  BY <1>3 DEF Goto, IInv, Typed
  <2> QED BY <1>1, <2>2, <2>3, LabelsOfTask
<1> QED BY <1>2, <1>3 DEF Apply

LEMMA FoundLabels ==
  ASSUME IInv, LabelsExist, NEW t \in Task, pc[t] \in {"player", "find"},
         UNCHANGED <<mongo, redis, exists>>,
         NEW d \in Whole, IsStored(d), Own(req[t].key, d), d.labels \subseteq exists,
         Found(t, d)
  PROVE  LabelsExist'
<1>1. CASE /\ req[t].kind \in {"add_tag", "add_rank", "remove_label"}
           /\ prof' = [prof EXCEPT ![t] = d]
           /\ Goto(t, "label")
           /\ UNCHANGED <<req, todo>>
  <2>1. prof'[t] = d /\ pc'[t] = "label" /\ Only(t)
    BY <1>1 DEF Goto, IInv, Typed, Only, Waiting, WholeOrNone
  <2> QED BY <2>1, LabelsOfTask
<1>2. CASE req[t].kind \notin {"add_tag", "add_rank", "remove_label"} /\ Apply(t, d)
  <2>1. Own(CacheKey(req[t], d), d)  BY DEF Own, CacheKey
  <2>2. req[t].kind = "achievement" => req[t].label \in exists  BY DEF LabelsExist
  <2> QED BY <1>2, <2>1, <2>2, ApplyLabels
<1> QED BY <1>1, <1>2 DEF Found

LEMMA LookUpLabels ==
  ASSUME IInv, LabelsExist, NEW t \in Task, LookUp(t) \/ FindStored(t) \/ FindLabel(t)
  PROVE  LabelsExist'
<1>1. /\ pc[t] \in {"player", "find", "label"} /\ UNCHANGED <<mongo, redis, exists>>
      /\ AtWork(t) /\ req[t] \in Request
  BY DEF LookUp, FindStored, FindLabel, stores, IInv, TasksSound, AtWork
<1>2. req[t].key \in Key  BY <1>1 DEF Request
<1>3. CASE Forget(t)
  <2>1. Only(t) /\ pc'[t] = "idle" /\ prof'[t] = NoDoc
    BY <1>3, ForgetSound DEF Forget, IInv, Typed
  <2> QED BY <1>1, <2>1, LabelsOfTask
<1>4. CASE LookUp(t)
  <2>1. CASE redis[req[t].key] # NoDoc /\ Found(t, redis[req[t].key])
    <3>1. PICK d : d = redis[req[t].key]  OBVIOUS
    <3>2. d \in Whole /\ IsStored(d) /\ Own(req[t].key, d) /\ d.labels \subseteq exists
      BY <1>2, <2>1, <3>1
      DEF IInv, Typed, WholeOrNone, StoresSound, CachedAreStored, KeysMatch, IsStored, Own,
          LabelsExist, InUse
    <3> QED BY <1>1, <1>4, <2>1, <3>1, <3>2, FoundLabels DEF LookUp
  <2>2. CASE Goto(t, "find") /\ UNCHANGED <<req, prof, todo>>
    <3>1. Only(t)  BY <2>2 DEF Only, IInv, Typed, Goto, Waiting
    <3>2. prof'[t] = prof[t] /\ req'[t] = req[t] /\ pc[t] = "player"
      BY <1>4, <2>2 DEF LookUp
    <3> QED BY <1>1, <3>1, <3>2, LabelsOfTask DEF LabelsExist, InUse
  <2> QED BY <1>4, <2>1, <2>2 DEF LookUp
<1>5. CASE FindStored(t)
  <2>1. ASSUME NEW p \in Player, mongo[p] # NoDoc, p = req[t].key \/ mongo[p].name = req[t].key,
               Found(t, mongo[p])
        PROVE  LabelsExist'
    <3>1. /\ mongo[p] \in Whole /\ IsStored(mongo[p]) /\ Own(req[t].key, mongo[p])
          /\ mongo[p].labels \subseteq exists
      BY <2>1 DEF IInv, Typed, WholeOrNone, StoresSound, AtIds, IsStored, Own, LabelsExist, InUse
    <3> QED BY <1>1, <1>5, <2>1, <3>1, FoundLabels DEF FindStored
  <2> QED BY <1>3, <1>5, <2>1 DEF FindStored
<1>6. CASE FindLabel(t)
  <2>1. CASE /\ req[t].label \in exists /\ req[t].kind = "achievement"
             /\ Goto(t, "player") /\ UNCHANGED <<req, prof, todo>>
    <3>1. Only(t)  BY <2>1 DEF Only, IInv, Typed, Goto, Waiting
    <3> QED BY <1>1, <2>1, <3>1, LabelsOfTask DEF LabelsExist, InUse
  <2>2. CASE req[t].label \in exists /\ req[t].kind # "achievement" /\ Apply(t, prof[t])
    <3>1. req[t].kind \in {"add_tag", "add_rank", "remove_label"} /\ IsStored(prof[t])
      BY <1>1, <1>6, <2>2 DEF AtWork, FindLabel
    <3>2. prof[t] \in Whole /\ prof[t].labels \subseteq exists
      BY <3>1 DEF IsStored, IInv, Typed, WholeOrNone, LabelsExist, InUse
    <3>3. Own(CacheKey(req[t], prof[t]), prof[t])  BY <3>1 DEF Own, CacheKey
    <3> QED BY <1>1, <2>2, <3>1, <3>2, <3>3, ApplyLabels
  <2> QED BY <1>3, <1>6, <2>1, <2>2 DEF FindLabel
<1> QED BY <1>4, <1>5, <1>6

LEMMA WriteLabels ==
  ASSUME IInv, NoDeletion, LabelsExist, NEW t \in Task, req[t].kind \in mode.kinds,
         PreloginPlayer(t) \/ Persist(t) \/ CacheIt(t)
  PROVE  LabelsExist'
<1>1. exists' = exists /\ pc[t] \in {"prelogin", "persist", "cache"} /\ AtWork(t)
      /\ req[t].kind \notin Deletion
  BY DEF PreloginPlayer, Persist, CacheIt, stores, IInv, TasksSound, NoDeletion
<1>2. CASE Forget(t) /\ (Persist(t) \/ CacheIt(t))
  <2>1. Only(t) /\ pc'[t] = "idle" /\ prof'[t] = NoDoc
    BY <1>2, ForgetSound DEF Forget, IInv, Typed
  <2>2. /\ \A p \in Player : mongo'[p] = mongo[p] \/ mongo'[p] = prof[t]
        /\ \A k \in Key : redis'[k] = redis[k] \/ redis'[k] = prof[t]
    BY <1>2 DEF Persist, CacheIt, IInv, Typed
  <2> QED BY <1>1, <2>1, <2>2, LabelsOfTask
<1>3. CASE /\ Persist(t) \/ CacheIt(t)
           /\ pc' = [pc EXCEPT ![t] = IF pc[t] = "persist" THEN "cache" ELSE "persist"]
           /\ UNCHANGED <<req, prof, todo>>
  <2>1. Only(t) /\ pc'[t] \in {"cache", "persist"} /\ prof'[t] = prof[t]
    BY <1>3 DEF Only, IInv, Typed, Waiting
  <2>2. /\ \A p \in Player : mongo'[p] = mongo[p] \/ mongo'[p] = prof[t]
        /\ \A k \in Key : redis'[k] = redis[k] \/ redis'[k] = prof[t]
    BY <1>3 DEF Persist, CacheIt, IInv, Typed
  <2> QED BY <1>1, <2>1, <2>2, LabelsOfTask DEF LabelsExist, InUse
<1>4. CASE PreloginPlayer(t)
  <2>1. PICK d : /\ d = IF mongo[req[t].key] = NoDoc THEN NewPlayer(req[t].key, req[t].name)
                        ELSE [mongo[req[t].key] EXCEPT !.name = req[t].name]
                 /\ prof' = [prof EXCEPT ![t] = d] /\ Goto(t, "persist")
                 /\ UNCHANGED <<mongo, redis, req, todo>>
    BY <1>4 DEF PreloginPlayer, stores
  <2>2. req[t].key \in Player /\ req[t].name \in Name
    BY <1>1, <1>4 DEF AtWork, Fits, PreloginPlayer
  <2>3. d \in Whole /\ d.labels \subseteq exists
    <3>1. CASE mongo[req[t].key] = NoDoc
      BY <2>1, <2>2, <3>1, NewPlayerWhole DEF NewPlayer
    <3>2. CASE mongo[req[t].key] # NoDoc
      <4>1. mongo[req[t].key] \in Whole /\ mongo[req[t].key] \in Doc
        BY <2>2, <3>2, WholeDoc DEF IInv, Typed, WholeOrNone
      <4>2. d \in Whole  BY <2>1, <2>2, <3>2, <4>1, RenamedWhole
      <4>3. d.labels = mongo[req[t].key].labels  BY <2>1, <3>2, <4>1 DEF Doc
      <4> QED BY <2>2, <3>2, <4>2, <4>3 DEF LabelsExist, InUse
    <3> QED BY <3>1, <3>2
  <2>4. Only(t) /\ prof'[t] = d /\ pc'[t] = "persist"
    BY <2>1, <2>3 DEF Only, Goto, IInv, Typed, Waiting, WholeOrNone
  <2> QED BY <1>1, <2>1, <2>3, <2>4, LabelsOfTask
<1> QED BY <1>1, <1>2, <1>3, <1>4 DEF Persist, CacheIt, Proceed, Goto

LEMMA NextLabels ==
  IInv /\ OrderInv /\ Orderly /\ NoDeletion /\ LabelsExist /\ [Next]_vars => LabelsExist'
<1> SUFFICES ASSUME IInv, OrderInv, Orderly, NoDeletion, LabelsExist, [Next]_vars
             PROVE  LabelsExist'
  OBVIOUS
<1>1. ASSUME NEW t \in Task, NEW kind, NEW key, NEW label, NEW where,
             Begin(t, kind, key, label, where), where \in {"player", "label", "prelogin"},
             where = "player" => kind # "achievement"
      PROVE  LabelsExist'
  <2>1. /\ pc'[t] = where /\ req'[t].kind = kind
        /\ \A u \in Task : prof'[u] = NoDoc
        /\ \A u \in Task \ {t} : pc'[u] = "idle"
        /\ UNCHANGED <<mongo, redis, exists>>
    BY <1>1, BeginAlone
  <2> QED BY <1>1, <2>1 DEF LabelsExist, InUse
<1>2. ASSUME NEW t \in Task, Step(t) PROVE LabelsExist'
  <2>1. CASE \/ \E p \in mode.players : Prelogin(t, p)
             \/ \E kind \in mode.kinds, p \in mode.players : Play(t, kind, p)
             \/ \E p \in mode.players, label \in mode.labels : Achieve(t, p, label)
    BY <1>1, <2>1 DEF Prelogin, Play, Achieve
  <2>2. ASSUME NEW kind \in mode.kinds, NEW key, NEW label,
               Ask(t, kind, key, label) \/ Delete(t, kind, key, label)
        PROVE  LabelsExist'
    <3>1. ~Delete(t, kind, key, label)  BY DEF Delete, NoDeletion
    <3> QED BY <1>1, <2>2, <3>1 DEF Ask
  <2>3. ~Die(t)  BY DEF Die, Orderly
  <2>4. ~(DeleteLabel(t) \/ FindHolders(t) \/ UnsetAchievement(t) \/ NextHolder(t))
    BY DEF DeleteLabel, FindHolders, UnsetAchievement, NextHolder, IInv, TasksSound, AtWork,
           OrderInv, AtNames, NoDeletion, Deletion
  <2>5. PreloginPlayer(t) \/ Persist(t) \/ CacheIt(t) => req[t].kind \in mode.kinds
    BY DEF PreloginPlayer, Persist, CacheIt, OrderInv, AtNames
  <2> QED BY <1>2, <2>1, <2>2, <2>3, <2>4, <2>5, LookUpLabels, WriteLabels DEF Step
<1>3. CASE \/ UNCHANGED vars
           \/ \E p \in mode.players : Leave(p) \/ \E n \in mode.names : Rename(p, n)
  BY <1>3 DEF vars, stores, Leave, Rename, LabelsExist, InUse
<1> QED BY <1>2, <1>3 DEF Next

-----------------------------------------------------------------------------
(* What requests that follow one another come to.                          *)

\* When all tasks are idle, the stores are all there is.
LEMMA QuietCopies ==
  ASSUME IInv, Quiet
  PROVE  \A d \in Copies : \/ \E p \in Player : d = mongo[p] /\ mongo[p] # NoDoc
                           \/ \E k \in Key : d = redis[k] /\ redis[k] # NoDoc
  BY DEF Copies, Quiet, IInv, TasksSound, AtWork

\* Steady: a copy with a label that does not exist is a copy of one of its
\* holders, and it has several.
LEMMA QuietLabels ==
  ASSUME All, Quiet, NEW d \in Copies, NEW l \in d.labels, l \in Label \ exists
  PROVE  l \in Rank /\ Cardinality(Holders(l)) > 1
<1>0. IInv /\ OrderInv /\ Steady /\ SteadyInv  BY DEF All
<1>1. /\ \A k : ~Hidden(k) /\ ~\E u \in Task : InDeletion(u) /\ req[u].label = k
      /\ \A p : ~Caching(p)
  BY IdleHides DEF Quiet
<1>2. Loose(l)  BY <1>0, <1>1 DEF SteadyInv, LabelGone
<1>3. Holders(l) # {}
  <2>1. ASSUME NEW p \in Player, d = mongo[p], mongo[p] # NoDoc PROVE p \in Holders(l)
    BY <2>1 DEF Holders
  <2>2. ASSUME NEW k \in Key, d = redis[k], redis[k] # NoDoc PROVE d.id \in Holders(l)
    <3>1. d.id \in Player /\ Cached(d.id) = d  BY <1>0, <2>2, KeyOf DEF Cached
    <3>2. mongo[d.id] # NoDoc  BY <1>0, <2>2, <3>1, CachedOf
    <3>3. CopyInStep(d.id)  BY <1>0, <3>1 DEF SteadyInv
    <3> QED BY <1>1, <2>2, <3>1, <3>2, <3>3 DEF CopyInStep, Holders
  <2> QED BY <1>0, <2>1, <2>2, QuietCopies
<1> QED BY <1>2, <1>3 DEF Loose

LEMMA SteadyEffect ==
  ASSUME All
  PROVE  DeletedAreGone /\ DanglingRanksHaveTwoHolders
<1>1. Copies \subseteq Whole  BY CopiesWhole DEF All, IInv
<1>2. \A d \in Copies : d.labels \subseteq Label  BY <1>1, WholeDoc
<1>3. DeletedAreGone
  BY <1>2, QuietLabels, PlayerStoreAssumption DEF DeletedAreGone, Label
<1>4. DanglingRanksHaveTwoHolders
  BY QuietLabels DEF DanglingRanksHaveTwoHolders, Label
<1> QED BY <1>3, <1>4

LEMMA LabelsEffect ==
  ASSUME IInv, LabelsExist
  PROVE  DeletedAreGone /\ DanglingRanksHaveTwoHolders
<1>1. Quiet => \A d \in Copies : d.labels \subseteq exists
  BY QuietCopies DEF LabelsExist, InUse
<1> QED BY <1>1 DEF DeletedAreGone, DanglingRanksHaveTwoHolders

LEMMA SteadyStepForgetsNothing ==
  ASSUME All, [Next]_vars
  PROVE  [RecordKeepsWhatItHas /\ OnlyMongosCopyForgets]_vars
<1> SUFFICES ASSUME ~UNCHANGED vars PROVE RecordKeepsWhatItHas /\ OnlyMongosCopyForgets
  OBVIOUS
<1> DEFINE Good == RecordKeepsWhatItHas /\ OnlyMongosCopyForgets
<1> SUFFICES Good OBVIOUS
<1>0. IInv /\ OrderInv /\ Steady /\ SteadyInv  BY DEF All
<1>1. CASE UNCHANGED <<mongo, redis>>
  BY <1>1 DEF RecordKeepsWhatItHas, OnlyMongosCopyForgets
<1>2. ASSUME NEW t \in Task, Persist(t) PROVE Good
  <2>1. /\ pc[t] = "persist" /\ redis' = redis /\ InHand(t)
        /\ mongo' = [mongo EXCEPT ![prof[t].id] = prof[t]]
    BY <1>0, <1>2 DEF Persist, SteadyInv
  <2>2. prof[t] # NoDoc /\ prof[t].id \in Player  BY <1>0, <2>1, WritesAt
  <2>3. Keeps(req[t].kind, prof[t], mongo[prof[t].id])
    BY <2>1, <2>2 DEF InHand, ToWrite
  <2>4. \A p \in Player : mongo'[p] = IF p = prof[t].id THEN prof[t] ELSE mongo[p]
    BY <1>0, <2>1 DEF IInv, Typed
  <2>5. RecordKeepsWhatItHas
    <3> SUFFICES ASSUME NEW p \in Player, mongo[p] # NoDoc
                 PROVE  /\ mongo[p].events \subseteq mongo'[p].events
                        /\ mongo[p].notes \subseteq mongo'[p].notes
                             \/ req[t].kind = "delete_note"
                        /\ mongo[p].labels \subseteq mongo'[p].labels
                             \/ req[t].kind \in Deletion \cup {"remove_label"}
      BY <2>1 DEF RecordKeepsWhatItHas
    <3> QED BY <2>3, <2>4 DEF Keeps
  <2>6. OnlyMongosCopyForgets  BY <2>1 DEF OnlyMongosCopyForgets
  <2> QED BY <2>5, <2>6
<1>3. ASSUME NEW t \in Task, CacheIt(t) PROVE Good
  <2>1. /\ pc[t] = "cache" /\ mongo' = mongo /\ InHand(t)
        /\ redis' = [redis EXCEPT ![CacheKey(req[t], prof[t])] = prof[t]]
    BY <1>0, <1>3 DEF CacheIt, SteadyInv
  <2>2. /\ prof[t] # NoDoc /\ prof[t].id \in Player
        /\ CacheKey(req[t], prof[t]) = called[prof[t].id]
    BY <1>0, <2>1, WritesAt
  <2>3. HasPlayed(req[t].kind, prof[t])  BY <2>1, <2>2 DEF InHand, ToWrite
  <2>4. OnlyMongosCopyForgets
    <3> SUFFICES ASSUME NEW n \in Name, redis[n] # NoDoc,
                        req[t].kind \notin Deletion \cup {"prelogin"}
                 PROVE  redis[n].events \subseteq redis'[n].events
      BY <2>1 DEF OnlyMongosCopyForgets
    <3>1. redis'[n] = IF n = called[prof[t].id] THEN prof[t] ELSE redis[n]
      BY <1>0, <2>1, <2>2 DEF IInv, Typed, Key
    <3> QED BY <2>3, <3>1 DEF HasPlayed, Cached
  <2> QED BY <2>1, <2>4 DEF RecordKeepsWhatItHas
<1>4. ASSUME NEW t \in Task, UnsetAchievement(t) PROVE Good
  <2>1. /\ pc[t] = "unset" /\ redis' = redis /\ req[t].kind \in Deletion
        /\ mongo' = [p \in Player |-> IF mongo[p] = NoDoc THEN NoDoc
                                      ELSE [mongo[p] EXCEPT !.labels = @ \ {req[t].label}]]
    BY <1>0, <1>4 DEF UnsetAchievement, IInv, TasksSound, AtWork, Deletion
  <2>2. \A p \in Player : mongo[p] # NoDoc => mongo'[p].events = mongo[p].events
                                              /\ mongo'[p].notes = mongo[p].notes
    <3> SUFFICES ASSUME NEW p \in Player, mongo[p] # NoDoc
                 PROVE  mongo'[p].events = mongo[p].events /\ mongo'[p].notes = mongo[p].notes
      OBVIOUS
    <3>1. mongo[p] \in Doc  BY <1>0, WholeDoc DEF IInv, Typed, WholeOrNone
    <3>2. mongo'[p] = [mongo[p] EXCEPT !.labels = @ \ {req[t].label}]  BY <2>1
    <3> QED BY <3>1, <3>2 DEF Doc
  <2> QED BY <2>1, <2>2 DEF RecordKeepsWhatItHas, OnlyMongosCopyForgets
<1>5. \/ UNCHANGED <<mongo, redis>>
      \/ \E t \in Task : Persist(t) \/ CacheIt(t) \/ UnsetAchievement(t)
  <2>1. ASSUME NEW t \in Task, Step(t),
               ~(Persist(t) \/ CacheIt(t) \/ UnsetAchievement(t))
        PROVE  UNCHANGED <<mongo, redis>>
    BY <2>1 DEF Step, Prelogin, Ask, Delete, Play, Achieve, Begin, LookUp, FindStored, FindLabel,
                PreloginPlayer, DeleteLabel, FindHolders, NextHolder, Die, stores
  <2>2. ASSUME NEW p, Leave(p) \/ \E n \in mode.names : Rename(p, n)
        PROVE  UNCHANGED <<mongo, redis>>
    BY <2>2 DEF Leave, Rename, stores
  <2> QED BY <2>1, <2>2 DEF Next
<1> QED BY <1>1, <1>2, <1>3, <1>4, <1>5

\* The invariant of behaviours in which one request follows the other
Ordered ==
  Orderly =>
    /\ OrderInv
    /\ ~mode.renames => SteadyInv
    /\ NoDeletion => LabelsExist

LEMMA NextOrdered == IInv /\ Ordered /\ [Next]_vars => Ordered'
<1> SUFFICES ASSUME IInv, Ordered, [Next]_vars, Orderly' PROVE Ordered'  BY DEF Ordered
<1>1. mode' = mode /\ Orderly /\ (NoDeletion' <=> NoDeletion)
  BY SameMode DEF Orderly, Serial, NoDeletion
<1>2. OrderInv'  BY <1>1, NextOrder DEF Ordered
<1>3. ~mode.renames => SteadyInv'  BY <1>1, NextSteady DEF Ordered, All, Steady
<1>4. NoDeletion => LabelsExist'  BY <1>1, NextLabels DEF Ordered
<1> QED BY <1>1, <1>2, <1>3, <1>4 DEF Ordered

\* Whether requests that follow one another are about players who keep their
\* names, or nothing is deleted
LEMMA OrderedEffect == IInv /\ Ordered => RequestsTakeEffect
<1> SUFFICES ASSUME IInv, Ordered, Orderly PROVE RequestsTakeEffect
  BY DEF RequestsTakeEffect, OnlineFound, DeletedAreGone, DanglingRanksHaveTwoHolders
<1>1. OnlineFound  BY OrderFound DEF Ordered
<1>2. CASE ~mode.renames
  BY <1>1, <1>2, SteadyEffect DEF Ordered, All, Steady, RequestsTakeEffect
<1>3. CASE mode.renames
  BY <1>1, <1>3, LabelsEffect DEF Ordered, Orderly, NoDeletion, RequestsTakeEffect
<1> QED BY <1>2, <1>3

LEMMA OrderedHolds == Spec => [](IInv /\ Ordered)
<1>1. Init => Ordered  BY InitOrder, InitSteady, InitLabels DEF Ordered
<1> QED BY <1>1, NextOrdered, InvariantHolds, PTL DEF Spec

\* Requests that follow one another have their effect on every copy of a
\* player: who is online is found by its name, whatever names it and others have
\* had (Participant::get_player); a tag or an achievement that was deleted is in
\* no document; and so is a rank, unless delete_rank has panicked about it.
THEOREM RequestsHaveEffect == Spec => []RequestsTakeEffect
  BY OrderedHolds, OrderedEffect, PTL

\* Requests that follow one another: Mongo forgets what it has only when it is
\* told to, although requests read Redis's copies and write them over Mongo's;
\* and only those who bring Mongo's copy take from Redis what was played.
THEOREM NothingIsForgotten == Spec => NothingForgotten
<1>1. IInv /\ Ordered /\ [Next]_vars =>
        [Orderly /\ ~mode.renames => RecordKeepsWhatItHas /\ OnlyMongosCopyForgets]_vars
  BY SteadyStepForgetsNothing DEF Ordered, All, Steady
<1> QED BY <1>1, OrderedHolds, PTL DEF Spec, NothingForgotten
=============================================================================

--------------------------- MODULE Directory_proofs ---------------------------
(***************************************************************************)
(* The types of Directory; that deleted tags do not come back and that a   *)
(* name has no more ranks than there are tasks, however requests overlap;  *)
(* and, of requests that follow each other, that names of ranks are unique *)
(* and that the first completion of an achievement stays.                  *)
(***************************************************************************)
EXTENDS Directory, FiniteSetTheorems, TLAPS

\* The parts of TypeOK that tell about the tasks
TypeOfTasks ==
  /\ pc \in [Task -> Kind \cup {"idle", "conflict", "save"}]
  /\ req \in [Task -> Request \cup {NoRequest}]
  /\ id \in [Task -> Id \cup {NoId}]
  /\ doc \in [Task -> Doc \cup {NoDoc}]
  /\ \A t \in Task :
       /\ pc[t] # "idle" => req[t] \in Request
       /\ pc[t] \in {"create", "update"} => req[t].name \in Name
       /\ pc[t] = "complete" => req[t].name = NoName
       /\ pc[t] \in {"conflict", "save"} =>
            id[t] \in issued /\ doc[t] \in Doc /\ req[t].name \in {doc[t].name, NoName}

LEMMA Renamed ==
  ASSUME NEW d \in Doc, NEW n \in Name
  PROVE  /\ [d EXCEPT !.name = n] \in Doc
         /\ [d EXCEPT !.name = n].name = n
         /\ [d EXCEPT !.name = n].first = d.first
  BY DEF Doc

LEMMA Completed ==
  ASSUME NEW d \in Doc, NEW p \in Player \cup {NoPlayer}
  PROVE  /\ [d EXCEPT !.first = p] \in Doc
         /\ [d EXCEPT !.first = p].first = p
         /\ [d EXCEPT !.first = p].name = d.name
  BY DEF Doc

LEMMA ForgetType ==
  ASSUME TypeOK, NEW t \in Task, Forget(t), UNCHANGED issued
  PROVE  TypeOfTasks'
  BY DEF TypeOK, TypeOfTasks, Forget, Goto

\* A task gets hold of a document.
LEMMA HoldType ==
  ASSUME TypeOK, NEW t \in Task, pc[t] # "idle",
         NEW i \in Id, NEW d \in Doc, NEW where \in {"conflict", "save"},
         issued \subseteq issued', i \in issued', req[t].name \in {d.name, NoName},
         id' = [id EXCEPT ![t] = i], doc' = [doc EXCEPT ![t] = d], Goto(t, where), UNCHANGED req
  PROVE  TypeOfTasks'
<1>1. req[t] \in Request  BY DEF TypeOK
<1>2. /\ pc' \in [Task -> Kind \cup {"idle", "conflict", "save"}]
      /\ req' \in [Task -> Request \cup {NoRequest}]
      /\ id' \in [Task -> Id \cup {NoId}]
      /\ doc' \in [Task -> Doc \cup {NoDoc}]
  BY DEF TypeOK, Goto
<1>3. ASSUME NEW u \in Task
      PROVE  /\ pc'[u] # "idle" => req'[u] \in Request
             /\ pc'[u] \in {"create", "update"} => req'[u].name \in Name
             /\ pc'[u] = "complete" => req'[u].name = NoName
             /\ pc'[u] \in {"conflict", "save"} =>
                  id'[u] \in issued' /\ doc'[u] \in Doc /\ req'[u].name \in {doc'[u].name, NoName}
  BY <1>1 DEF TypeOK, Goto
<1> QED BY <1>2, <1>3 DEF TypeOfTasks

LEMMA BeginType ==
  ASSUME TypeOK, NEW t \in Task, NEW r \in Request, Begin(t, r), UNCHANGED mode,
         r.kind \in {"create", "update"} => r.name \in Name,
         r.kind = "complete" => r.name = NoName
  PROVE  TypeOK'
<1>1. r.kind \in Kind  BY DEF Request
<1>2. /\ pc' \in [Task -> Kind \cup {"idle", "conflict", "save"}]
      /\ req' \in [Task -> Request \cup {NoRequest}]
  BY <1>1 DEF TypeOK, Begin, Goto
<1>3. ASSUME NEW u \in Task
      PROVE  /\ pc'[u] # "idle" => req'[u] \in Request
             /\ pc'[u] \in {"create", "update"} => req'[u].name \in Name
             /\ pc'[u] = "complete" => req'[u].name = NoName
             /\ pc'[u] \in {"conflict", "save"} =>
                  id[u] \in issued /\ doc[u] \in Doc /\ req'[u].name \in {doc[u].name, NoName}
  BY <1>1 DEF TypeOK, Begin, Goto, Kind
<1>4. requests' \in Nat /\ UNCHANGED <<mode, docs, issued, id, doc>>  BY DEF TypeOK, Begin
<1> QED BY <1>2, <1>3, <1>4 DEF TypeOK, Stored

LEMMA StoredDocs == ASSUME TypeOK, NEW i \in Stored PROVE i \in Id /\ i \in issued /\ docs[i] \in Doc
  BY DEF TypeOK, Stored

LEMMA AddressedStored == \A key : Addressed(key) \subseteq Stored
  BY DEF Addressed, Matches, Named

-----------------------------------------------------------------------------
(* What the steps that find a document do when they do not give up.        *)

Issues(t, i) ==
  /\ pc[t] = "create" /\ Matches(req[t].name) = {} /\ i \notin issued
  /\ issued' = issued \cup {i}
  /\ id' = [id EXCEPT ![t] = i]
  /\ doc' = [doc EXCEPT ![t] = [name |-> req[t].name, first |-> NoPlayer]]
  /\ Goto(t, "save")
  /\ UNCHANGED <<docs, requests, req>>

Reads(t, i, where) ==
  /\ pc[t] = "update" /\ i \in Stored
  /\ where = IF Collection = "ranks" THEN "conflict" ELSE "save"
  /\ id' = [id EXCEPT ![t] = i]
  /\ doc' = [doc EXCEPT ![t] = [docs[i] EXCEPT !.name = req[t].name]]
  /\ Goto(t, where)
  /\ UNCHANGED <<docs, issued, requests, req>>

Enters(t, i) ==
  /\ pc[t] = "complete" /\ i = req[t].key /\ i \in Stored /\ docs[i].first = NoPlayer
  /\ id' = [id EXCEPT ![t] = i]
  /\ doc' = [doc EXCEPT ![t] = [docs[i] EXCEPT !.first = req[t].player]]
  /\ Goto(t, "save")
  /\ UNCHANGED <<docs, issued, requests, req>>

GivesUp(t) == pc[t] # "idle" /\ Forget(t) /\ UNCHANGED <<docs, issued, requests>>

Passes(t) ==
  /\ pc[t] = "conflict" /\ Named(req[t].name) \ {id[t]} = {}
  /\ Goto(t, "save") /\ UNCHANGED <<req, id, doc, docs, issued, requests>>

\* The steps, without what differs between the ways a request can give up
LEMMA Cases ==
  ASSUME NEW t \in Task, Step(t)
  PROVE  \/ \E n \in Name : Create(t, n)
         \/ \E key \in Id \cup Name, n \in Name : Update(t, key, n)
         \/ \E key \in Id : Delete(t, key)
         \/ \E key \in Id, p \in Player : Complete(t, key, p)
         \/ \E i \in Id : Issues(t, i)
         \/ \E i \in Id, where \in {"conflict", "save"} : Reads(t, i, where)
         \/ \E i \in Id : Enters(t, i)
         \/ Passes(t) \/ Save(t) \/ Remove(t) \/ GivesUp(t)
<1>1. ASSUME NEW i \in Id, FindConflict(t, i) PROVE Issues(t, i) \/ GivesUp(t)
  BY <1>1 DEF FindConflict, Issues, GivesUp
<1>2. CASE FindUpdated(t)
  <2>1. CASE Addressed(req[t].key) = {} /\ Forget(t)
    BY <1>2, <2>1 DEF FindUpdated, GivesUp
  <2>2. CASE \E i \in Addressed(req[t].key) :
               /\ id' = [id EXCEPT ![t] = i]
               /\ doc' = [doc EXCEPT ![t] = [docs[i] EXCEPT !.name = req[t].name]]
               /\ Goto(t, IF Collection = "ranks" THEN "conflict" ELSE "save")
               /\ UNCHANGED req
    <3>1. PICK i \in Addressed(req[t].key) :
               /\ id' = [id EXCEPT ![t] = i]
               /\ doc' = [doc EXCEPT ![t] = [docs[i] EXCEPT !.name = req[t].name]]
               /\ Goto(t, IF Collection = "ranks" THEN "conflict" ELSE "save")
               /\ UNCHANGED req
      BY <2>2
    <3>2. i \in Stored /\ i \in Id  BY AddressedStored DEF Stored
    <3>3. Reads(t, i, IF Collection = "ranks" THEN "conflict" ELSE "save")
      BY <1>2, <3>1, <3>2 DEF FindUpdated, Reads
    <3> QED BY <3>2, <3>3
  <2> QED BY <1>2, <2>1, <2>2 DEF FindUpdated
<1>3. CASE FindOther(t)
  <2>1. CASE Named(req[t].name) \ {id[t]} # {}  BY <1>3, <2>1 DEF FindOther, GivesUp
  <2>2. CASE Named(req[t].name) \ {id[t]} = {}  BY <1>3, <2>2 DEF FindOther, Passes
  <2> QED BY <2>1, <2>2
<1>4. CASE FindCompleted(t)
  <2>1. CASE req[t].key \notin Stored \/ docs[req[t].key].first # NoPlayer
    BY <1>4, <2>1 DEF FindCompleted, GivesUp
  <2>2. CASE req[t].key \in Stored /\ docs[req[t].key].first = NoPlayer
    BY <1>4, <2>2 DEF FindCompleted, Enters, Stored
  <2> QED BY <2>1, <2>2
<1>5. CASE Die(t)  BY <1>5 DEF Die, GivesUp
<1> QED BY <1>1, <1>2, <1>3, <1>4, <1>5 DEF Step

-----------------------------------------------------------------------------
LEMMA NextTypeOK == TypeOK /\ [Next]_vars => TypeOK'
<1> SUFFICES ASSUME TypeOK, [Next]_vars PROVE TypeOK'
  OBVIOUS
<1>a. CASE UNCHANGED vars
  BY <1>a DEF vars, TypeOK, Stored
<1>b. ASSUME NEW t \in Task, Step(t), UNCHANGED mode PROVE TypeOK'
  <2>u. ASSUME UNCHANGED <<docs, issued, requests>>, TypeOfTasks' PROVE TypeOK'
    BY <1>b, <2>u DEF TypeOK, TypeOfTasks, Stored
  <2>1. ASSUME NEW n \in Name, Create(t, n) PROVE TypeOK'
    <3>1. [kind |-> "create", key |-> NoId, name |-> n, player |-> NoPlayer] \in Request
      BY DEF Request, Kind
    <3> QED BY <2>1, <3>1, <1>b, BeginType DEF Create
  <2>2. ASSUME NEW key \in Id \cup Name, NEW n \in Name, Update(t, key, n) PROVE TypeOK'
    <3>1. [kind |-> "update", key |-> key, name |-> n, player |-> NoPlayer] \in Request
      BY DEF Request, Kind
    <3> QED BY <2>2, <3>1, <1>b, BeginType DEF Update
  <2>3. ASSUME NEW key \in Id, Delete(t, key) PROVE TypeOK'
    <3> DEFINE r == [kind |-> "delete", key |-> key, name |-> NoName, player |-> NoPlayer]
    <3>1. r \in Request /\ r.kind = "delete"  BY DEF Request, Kind
    <3> QED BY <2>3, <3>1, <1>b, BeginType DEF Delete
  <2>4. ASSUME NEW key \in Id, NEW p \in Player, Complete(t, key, p) PROVE TypeOK'
    <3> DEFINE r == [kind |-> "complete", key |-> key, name |-> NoName, player |-> p]
    <3>1. r \in Request /\ r.kind = "complete"  BY DEF Request, Kind
    <3> QED BY <2>4, <3>1, <1>b, BeginType DEF Complete
  <2>5. ASSUME NEW i \in Id, Issues(t, i) PROVE TypeOK'
    <3> DEFINE d == [name |-> req[t].name, first |-> NoPlayer]
    <3>1. req[t].name \in Name  BY <2>5 DEF Issues, TypeOK
    <3>2. d \in Doc /\ req[t].name = d.name  BY <3>1 DEF Doc
    <3>3. TypeOfTasks'  BY <2>5, <3>2, HoldType DEF Issues
    <3> QED BY <1>b, <2>5, <3>3 DEF Issues, TypeOK, TypeOfTasks, Stored
  <2>6. ASSUME NEW i \in Id, NEW where \in {"conflict", "save"}, Reads(t, i, where) PROVE TypeOK'
    <3> DEFINE d == [docs[i] EXCEPT !.name = req[t].name]
    <3>1. req[t].name \in Name  BY <2>6 DEF Reads, TypeOK
    <3>2. d \in Doc /\ d.name = req[t].name /\ i \in issued
      BY <2>6, <3>1, StoredDocs, Renamed DEF Reads
    <3>3. TypeOfTasks'
      <4> HIDE DEF d
      <4>1. doc' = [doc EXCEPT ![t] = d]  BY <2>6 DEF Reads, d
      <4> QED BY <2>6, <3>2, <4>1, HoldType DEF Reads
    <3> QED BY <2>6, <3>3, <2>u DEF Reads
  <2>7. ASSUME NEW i \in Id, Enters(t, i) PROVE TypeOK'
    <3> DEFINE d == [docs[i] EXCEPT !.first = req[t].player]
    <3>1. req[t] \in Request /\ req[t].player \in Player \cup {NoPlayer}
      BY <2>7 DEF Enters, TypeOK, Request
    <3>2. d \in Doc /\ i \in issued
      BY <2>7, <3>1, StoredDocs, Completed DEF Enters
    <3>3. req[t].name \in {d.name, NoName}  BY <2>7 DEF Enters, TypeOK
    <3>4. TypeOfTasks'
      <4> HIDE DEF d
      <4>1. doc' = [doc EXCEPT ![t] = d]  BY <2>7 DEF Enters, d
      <4> QED BY <2>7, <3>2, <3>3, <4>1, HoldType DEF Enters
    <3> QED BY <2>7, <3>4, <2>u DEF Enters
  <2>8. CASE Passes(t)
    <3>1. TypeOfTasks'  BY <2>8 DEF Passes, TypeOK, TypeOfTasks, Goto
    <3> QED BY <2>8, <3>1, <2>u DEF Passes
  <2>9. CASE Save(t)
    <3>1. TypeOfTasks'  BY <2>9, ForgetType DEF Save
    <3>2. id[t] \in issued /\ id[t] \in Id /\ doc[t] \in Doc  BY <2>9 DEF Save, TypeOK
    <3>3. docs' \in [Id -> Doc \cup {NoDoc}] /\ Stored' \subseteq issued
      BY <2>9, <3>2 DEF Save, TypeOK, Stored
    <3> QED BY <1>b, <2>9, <3>1, <3>3 DEF Save, TypeOK, TypeOfTasks
  <2>10. CASE Remove(t)
    <3>1. TypeOfTasks'  BY <2>10, ForgetType DEF Remove
    <3>2. docs' \in [Id -> Doc \cup {NoDoc}] /\ Stored' \subseteq issued
      BY <2>10 DEF Remove, TypeOK, Stored
    <3> QED BY <1>b, <2>10, <3>1, <3>2 DEF Remove, TypeOK, TypeOfTasks
  <2>11. CASE GivesUp(t)
    BY <2>11, <2>u, ForgetType DEF GivesUp
  <2> QED BY <1>b, <2>1, <2>2, <2>3, <2>4, <2>5, <2>6, <2>7, <2>8, <2>9, <2>10, <2>11, Cases
<1> QED BY <1>a, <1>b DEF Next

LEMMA InitTypeOK == Init => TypeOK
  BY DirectoryAssumption DEF Init, TypeOK, Stored, Kind

\* Every document has a name, and every task that works on one got its id.
THEOREM TypeCorrect == Spec => []TypeOK
  BY InitTypeOK, NextTypeOK, PTL DEF Spec

-----------------------------------------------------------------------------
(* Requests that overlap: deleted tags stay deleted.                       *)

\* A task works on the request that it was given.
OwnRequest ==
  \A t \in Task :
    /\ pc[t] \in Kind => req[t].kind = pc[t]
    /\ pc[t] \in {"conflict", "save"} => req[t].kind \in Kind \ {"delete"}
    /\ Collection = "tags" /\ pc[t] # "idle" => req[t].kind # "complete"

LEMMA BeginOwn ==
  ASSUME TypeOK, OwnRequest, NEW t \in Task, NEW r, Begin(t, r), Collection' = Collection
  PROVE  OwnRequest'
<1>1. r.kind \in Kind /\ (Collection = "tags" => r.kind # "complete")
  BY DEF Begin, Kinds, Kind
<1> QED BY <1>1 DEF TypeOK, OwnRequest, Begin, Goto, Kind

\* A behaviour keeps its mode.
LEMMA SameMode ==
  ASSUME [Next]_vars
  PROVE  mode' = mode /\ Collection' = Collection /\ Serial' = Serial
  BY DEF Next, vars, Collection, Serial

LEMMA NextOwn == TypeOK /\ OwnRequest /\ [Next]_vars => OwnRequest'
<1> SUFFICES ASSUME TypeOK, OwnRequest, [Next]_vars PROVE OwnRequest'
  OBVIOUS
<1>m. Collection' = Collection  BY SameMode
<1>a. CASE UNCHANGED vars  BY <1>a DEF vars, OwnRequest, Collection
<1>b. ASSUME NEW t \in Task, Step(t) PROVE OwnRequest'
  <2>f. ASSUME Forget(t) PROVE OwnRequest'
    BY <1>m, <2>f DEF TypeOK, OwnRequest, Forget, Goto, Kind
  <2>g. ASSUME NEW where \in {"conflict", "save"}, pc[t] \in Kind \ {"delete"},
               Goto(t, where), UNCHANGED req
        PROVE  OwnRequest'
    BY <1>m, <2>g DEF TypeOK, OwnRequest, Goto, Kind
  <2>1. ASSUME NEW n \in Name, Create(t, n) PROVE OwnRequest'
    BY <2>1, <1>m, BeginOwn DEF Create
  <2>2. ASSUME NEW key \in Id \cup Name, NEW n \in Name, Update(t, key, n) PROVE OwnRequest'
    BY <2>2, <1>m, BeginOwn DEF Update
  <2>3. ASSUME NEW key \in Id, Delete(t, key) PROVE OwnRequest'
    BY <2>3, <1>m, BeginOwn DEF Delete
  <2>4. ASSUME NEW key \in Id, NEW p \in Player, Complete(t, key, p) PROVE OwnRequest'
    BY <2>4, <1>m, BeginOwn DEF Complete
  <2>5. ASSUME NEW i \in Id, Issues(t, i) PROVE OwnRequest'
    BY <2>5, <2>g DEF Issues, Kind
  <2>6. ASSUME NEW i \in Id, NEW where \in {"conflict", "save"}, Reads(t, i, where)
        PROVE  OwnRequest'
    BY <2>6, <2>g DEF Reads, Kind
  <2>7. ASSUME NEW i \in Id, Enters(t, i) PROVE OwnRequest'
    BY <2>7, <2>g DEF Enters, Kind
  <2>8. CASE Passes(t)
    BY <1>m, <2>8 DEF Passes, TypeOK, OwnRequest, Goto, Kind
  <2>9. CASE Save(t)  BY <2>9, <2>f DEF Save
  <2>10. CASE Remove(t)  BY <2>10, <2>f DEF Remove
  <2>11. CASE GivesUp(t)  BY <2>11, <2>f DEF GivesUp
  <2> QED BY <1>b, <2>1, <2>2, <2>3, <2>4, <2>5, <2>6, <2>7, <2>8, <2>9, <2>10, <2>11, Cases
<1> QED BY <1>a, <1>b DEF Next

\* Only saving and removing change the collection.
LEMMA OthersKeepDocs ==
  ASSUME NEW t \in Task, Step(t), ~Save(t), ~Remove(t)
  PROVE  UNCHANGED docs
<1>1. \A r : Begin(t, r) => UNCHANGED docs  BY DEF Begin
<1> QED BY <1>1, Cases DEF Create, Update, Delete, Complete, Issues, Reads, Enters, Passes, GivesUp

\* delete_tag wins over an update_tag that has read the tag before.
THEOREM TagsStayDeleted == Spec => OnlyCreationAdds
<1>1. Init => OwnRequest  BY DEF Init, OwnRequest, Kind
<1>2. TypeOK /\ OwnRequest /\ [Next]_vars =>
        [\A i \in Id : Collection = "tags" /\ docs[i] = NoDoc /\ docs'[i] # NoDoc =>
           \E t \in Task : id[t] = i /\ req[t].kind = "create"]_docs
  <2> SUFFICES ASSUME TypeOK, OwnRequest, [Next]_vars, docs' # docs,
                      NEW i \in Id, Collection = "tags", docs[i] = NoDoc, docs'[i] # NoDoc
               PROVE  \E t \in Task : id[t] = i /\ req[t].kind = "create"
    OBVIOUS
  <2>1. PICK t \in Task : Step(t)  BY DEF Next, vars
  <2>2. ~Remove(t)  BY DEF Remove
  <2>3. Save(t)  BY <2>1, <2>2, OthersKeepDocs
  <2>4. id[t] = i /\ ~(req[t].kind = "update" /\ id[t] \notin Stored)
    BY <2>3 DEF Save, TypeOK
  <2>5. req[t].kind # "update"  BY <2>4 DEF Stored
  <2>6. req[t].kind \in Kind \ {"delete"} /\ req[t].kind # "complete"
    BY <2>3 DEF Save, OwnRequest
  <2> QED BY <2>4, <2>5, <2>6 DEF Kind
<1> QED BY <1>1, <1>2, InitTypeOK, NextTypeOK, NextOwn, PTL DEF Spec, OnlyCreationAdds

-----------------------------------------------------------------------------
(* Requests that follow each other.                                        *)

\* One task at most is busy: what it has found out is still so when it saves.
OneAtATime ==
  /\ \A t, u \in Task : pc[t] # "idle" /\ pc[u] # "idle" => t = u
  /\ \A t \in Task : pc[t] \in {"conflict", "save"} /\ id[t] \in Stored =>
       docs[id[t]].first \in {NoPlayer, doc[t].first}

\* Of ranks: nor has another rank got the name.
NamesDiffer ==
  /\ \A i, j \in Stored : docs[i].name = docs[j].name => i = j
  /\ \A t \in Task : pc[t] = "conflict" => req[t].name = doc[t].name
  /\ \A t \in Task : pc[t] = "save" =>
       \A i \in Stored : docs[i].name = doc[t].name => i = id[t]

LEMMA ForgetAlone ==
  ASSUME TypeOK, OneAtATime, NEW t \in Task, pc[t] # "idle", Forget(t)
  PROVE  \A u \in Task : pc'[u] = "idle"
  BY DEF TypeOK, OneAtATime, Forget, Goto

\* Once all are idle, only the collection matters.
LEMMA AllIdle ==
  ASSUME \A u \in Task : pc'[u] = "idle"
  PROVE  /\ OneAtATime'
         /\ (\A i, j \in Stored : docs[i].name = docs[j].name => i = j)' => NamesDiffer'
  BY DEF OneAtATime, NamesDiffer

\* The one that is busy goes on to save.
LEMMA GoesOn ==
  ASSUME TypeOK, OneAtATime, NEW t \in Task, pc[t] # "idle",
         NEW where \in {"conflict", "save"}, Goto(t, where), UNCHANGED docs,
         id'[t] \in Stored => docs[id'[t]].first \in {NoPlayer, doc'[t].first}
  PROVE  OneAtATime'
<1>1. \A u \in Task \ {t} : pc[u] = "idle" /\ pc'[u] = "idle"  BY DEF TypeOK, OneAtATime, Goto
<1>2. pc'[t] = where  BY DEF TypeOK, Goto
<1>3. Stored' = Stored  BY DEF Stored
<1> QED BY <1>1, <1>2, <1>3 DEF OneAtATime

LEMMA GoesOnNames ==
  ASSUME TypeOK, OneAtATime, NamesDiffer, NEW t \in Task, pc[t] # "idle",
         NEW where \in {"conflict", "save"}, Goto(t, where), UNCHANGED docs,
         where = "conflict" => req'[t].name = doc'[t].name,
         where = "save" => \A i \in Stored : docs[i].name = doc'[t].name => i = id'[t]
  PROVE  NamesDiffer'
<1>1. \A u \in Task \ {t} : pc[u] = "idle" /\ pc'[u] = "idle"  BY DEF TypeOK, OneAtATime, Goto
<1>2. pc'[t] = where  BY DEF TypeOK, Goto
<1>3. Stored' = Stored  BY DEF Stored
<1> QED BY <1>1, <1>2, <1>3 DEF NamesDiffer

LEMMA BeginAlone ==
  ASSUME Serial, TypeOK, NEW t \in Task, NEW r, Begin(t, r)
  PROVE  OneAtATime' /\ (NamesDiffer => NamesDiffer')
<1>1. r.kind \in Kind  BY DEF Begin, Kinds, Kind
<1>2. \A u \in Task : pc'[u] \in Kind \cup {"idle"} /\ (u # t => pc'[u] = "idle")
  BY <1>1 DEF TypeOK, Begin, Goto
<1>3. UNCHANGED docs /\ Stored' = Stored  BY DEF Begin, Stored
<1> QED BY <1>2, <1>3 DEF OneAtATime, NamesDiffer, Kind

LEMMA NextOne == Serial /\ TypeOK /\ OneAtATime /\ [Next]_vars => OneAtATime'
<1> SUFFICES ASSUME Serial, TypeOK, OneAtATime, [Next]_vars PROVE OneAtATime'
  OBVIOUS
<1>a. CASE UNCHANGED vars  BY <1>a DEF vars, OneAtATime, Stored
<1>b. ASSUME NEW t \in Task, Step(t) PROVE OneAtATime'
  <2>f. ASSUME pc[t] # "idle", Forget(t) PROVE OneAtATime'
    BY <2>f, ForgetAlone, AllIdle
  <2>1. ASSUME NEW n \in Name, Create(t, n) PROVE OneAtATime'
    BY <2>1, BeginAlone DEF Create
  <2>2. ASSUME NEW key \in Id \cup Name, NEW n \in Name, Update(t, key, n) PROVE OneAtATime'
    BY <2>2, BeginAlone DEF Update
  <2>3. ASSUME NEW key \in Id, Delete(t, key) PROVE OneAtATime'
    BY <2>3, BeginAlone DEF Delete
  <2>4. ASSUME NEW key \in Id, NEW p \in Player, Complete(t, key, p) PROVE OneAtATime'
    BY <2>4, BeginAlone DEF Complete
  <2>5. ASSUME NEW i \in Id, Issues(t, i) PROVE OneAtATime'
    <3>1. id'[t] = i /\ i \notin Stored  BY <2>5 DEF Issues, TypeOK
    <3> QED BY <2>5, <3>1, GoesOn DEF Issues
  <2>6. ASSUME NEW i \in Id, NEW where \in {"conflict", "save"}, Reads(t, i, where)
        PROVE  OneAtATime'
    <3>1. docs[i] \in Doc /\ req[t].name \in Name  BY <2>6, StoredDocs DEF Reads, TypeOK
    <3>2. id'[t] = i /\ doc'[t].first = docs[i].first
      BY <2>6, <3>1, Renamed DEF Reads, TypeOK
    <3> QED BY <2>6, <3>2, GoesOn DEF Reads
  <2>7. ASSUME NEW i \in Id, Enters(t, i) PROVE OneAtATime'
    <3>1. id'[t] = i  BY <2>7 DEF Enters, TypeOK
    <3> QED BY <2>7, <3>1, GoesOn DEF Enters
  <2>8. CASE Passes(t)
    <3>1. id[t] \in Stored => docs[id[t]].first \in {NoPlayer, doc[t].first}
      BY <2>8 DEF Passes, OneAtATime
    <3> QED BY <2>8, <3>1, GoesOn DEF Passes
  <2>9. CASE Save(t)  BY <2>9, <2>f DEF Save
  <2>10. CASE Remove(t)  BY <2>10, <2>f DEF Remove
  <2>11. CASE GivesUp(t)  BY <2>11, <2>f DEF GivesUp
  <2> QED BY <1>b, <2>1, <2>2, <2>3, <2>4, <2>5, <2>6, <2>7, <2>8, <2>9, <2>10, <2>11, Cases
<1> QED BY <1>a, <1>b DEF Next

LEMMA NextNames ==
  Serial /\ Collection = "ranks" /\ TypeOK /\ OneAtATime /\ NamesDiffer /\ [Next]_vars => NamesDiffer'
<1> SUFFICES ASSUME Serial, Collection = "ranks", TypeOK, OneAtATime, NamesDiffer, [Next]_vars
             PROVE  NamesDiffer'
  OBVIOUS
<1>a. CASE UNCHANGED vars  BY <1>a DEF vars, NamesDiffer, Stored
<1>b. ASSUME NEW t \in Task, Step(t) PROVE NamesDiffer'
  <2>f. ASSUME pc[t] # "idle", Forget(t),
               (\A i, j \in Stored : docs[i].name = docs[j].name => i = j)'
        PROVE  NamesDiffer'
    BY <2>f, ForgetAlone, AllIdle
  <2>1. ASSUME NEW n \in Name, Create(t, n) PROVE NamesDiffer'
    BY <2>1, BeginAlone DEF Create
  <2>2. ASSUME NEW key \in Id \cup Name, NEW n \in Name, Update(t, key, n) PROVE NamesDiffer'
    BY <2>2, BeginAlone DEF Update
  <2>3. ASSUME NEW key \in Id, Delete(t, key) PROVE NamesDiffer'
    BY <2>3, BeginAlone DEF Delete
  <2>4. ASSUME NEW key \in Id, NEW p \in Player, Complete(t, key, p) PROVE NamesDiffer'
    BY <2>4, BeginAlone DEF Complete
  <2>5. ASSUME NEW i \in Id, Issues(t, i) PROVE NamesDiffer'
    <3>1. doc'[t] = [name |-> req[t].name, first |-> NoPlayer]  BY <2>5 DEF Issues, TypeOK
    <3>2. doc'[t].name = req[t].name  BY <3>1
    <3>3. ASSUME NEW j \in Stored PROVE docs[j].name # req[t].name
      BY <2>5 DEF Issues, Matches, Named, NameField
    <3> QED BY <2>5, <3>2, <3>3, GoesOnNames DEF Issues
  <2>6. ASSUME NEW i \in Id, NEW where \in {"conflict", "save"}, Reads(t, i, where)
        PROVE  NamesDiffer'
    <3>1. docs[i] \in Doc /\ req[t].name \in Name  BY <2>6, StoredDocs DEF Reads, TypeOK
    <3>2. doc'[t].name = req[t].name  BY <2>6, <3>1, Renamed DEF Reads, TypeOK
    <3>3. where = "conflict"  BY <2>6 DEF Reads
    <3> QED BY <2>6, <3>2, <3>3, GoesOnNames DEF Reads
  <2>7. ASSUME NEW i \in Id, Enters(t, i) PROVE NamesDiffer'
    <3>1. req[t] \in Request /\ req[t].player \in Player \cup {NoPlayer}
      BY <2>7 DEF Enters, TypeOK, Request
    <3>2. docs[i] \in Doc  BY <2>7, StoredDocs DEF Enters
    <3>3. id'[t] = i /\ doc'[t].name = docs[i].name
      BY <2>7, <3>1, <3>2, Completed DEF Enters, TypeOK
    <3> QED BY <2>7, <3>3, GoesOnNames DEF Enters, NamesDiffer
  <2>8. CASE Passes(t)
    <3>1. req[t].name = doc[t].name  BY <2>8 DEF Passes, NamesDiffer
    <3>2. ASSUME NEW j \in Stored, docs[j].name = doc[t].name PROVE j = id[t]
      BY <2>8, <3>1, <3>2 DEF Passes, Named, NameField
    <3> QED BY <2>8, <3>2, GoesOnNames DEF Passes
  <2>9. CASE Save(t)
    <3>1. id[t] \in Id /\ docs' = [docs EXCEPT ![id[t]] = doc[t]]  BY <2>9 DEF Save, TypeOK
    <3>2. \A j \in Stored' : j = id[t] \/ j \in Stored  BY <3>1 DEF Stored, TypeOK
    <3>3. \A j \in Stored : docs[j].name = doc[t].name => j = id[t]
      BY <2>9 DEF Save, NamesDiffer
    <3>4. (\A i, j \in Stored : docs[i].name = docs[j].name => i = j)'
      <4> SUFFICES ASSUME NEW i \in Stored', NEW j \in Stored', docs'[i].name = docs'[j].name
                   PROVE  i = j
        OBVIOUS
      <4>1. i \in Id /\ j \in Id  BY DEF Stored
      <4>2. \A k \in Id : docs'[k] = IF k = id[t] THEN doc[t] ELSE docs[k]  BY <3>1 DEF TypeOK
      <4> QED BY <3>2, <3>3, <4>1, <4>2 DEF NamesDiffer
    <3> QED BY <2>9, <2>f, <3>4 DEF Save
  <2>10. CASE Remove(t)
    <3>1. \A j \in Stored' : j \in Stored /\ docs'[j] = docs[j]  BY <2>10 DEF Remove, Stored
    <3>2. (\A i, j \in Stored : docs[i].name = docs[j].name => i = j)'  BY <3>1 DEF NamesDiffer
    <3>3. pc[t] # "idle" /\ Forget(t)  BY <2>10 DEF Remove
    <3> QED BY <2>f, <3>2, <3>3
  <2>11. CASE GivesUp(t)
    <3>1. Stored' = Stored  BY <2>11 DEF GivesUp, Stored
    <3> QED BY <2>11, <2>f, <3>1 DEF GivesUp, NamesDiffer
  <2> QED BY <1>b, <2>1, <2>2, <2>3, <2>4, <2>5, <2>6, <2>7, <2>8, <2>9, <2>10, <2>11, Cases
<1> QED BY <1>a, <1>b DEF Next

LEMMA InitSerial == Init => OneAtATime /\ NamesDiffer
  BY DEF Init, OneAtATime, NamesDiffer, Stored

\* Of completions that follow each other the first one stays
\* (on_achievement_complete asks whether there is one).
THEOREM FirstStays == Spec => FirstNeverChanges
<1> DEFINE Alone == Serial => OneAtATime
<1>1. Init => Alone  BY InitSerial
<1>2. TypeOK /\ Alone /\ [Next]_vars => Alone'  BY NextOne, SameMode
<1>3. TypeOK /\ Alone /\ [Next]_vars =>
        [\A i \in Stored : Serial /\ docs[i].first # NoPlayer /\ docs'[i] # NoDoc =>
           docs'[i].first = docs[i].first]_docs
  <2> SUFFICES ASSUME TypeOK, OneAtATime, [Next]_vars, docs' # docs,
                      NEW i \in Stored, docs[i].first # NoPlayer, docs'[i] # NoDoc
               PROVE  docs'[i].first = docs[i].first
    OBVIOUS
  <2>1. PICK t \in Task : Step(t)  BY DEF Next, vars
  <2>2. i \in Id  BY DEF Stored
  <2>3. CASE Remove(t)  BY <2>2, <2>3 DEF Remove
  <2>4. CASE Save(t)
    <3>1. docs'[i] = docs[i] \/ (i = id[t] /\ docs'[i] = doc[t])
      BY <2>2, <2>4 DEF Save, TypeOK
    <3>2. i = id[t] => docs[i].first = doc[t].first  BY <2>4 DEF Save, OneAtATime
    <3> QED BY <3>1, <3>2
  <2> QED BY <2>1, <2>3, <2>4, OthersKeepDocs
<1> QED BY <1>1, <1>2, <1>3, InitTypeOK, NextTypeOK, PTL DEF Spec, FirstNeverChanges

-----------------------------------------------------------------------------
(* Ranks that share a name, when requests overlap.                         *)

Savers(n) == {t \in Task : pc[t] = "save" /\ doc[t].name = n}

\* The ranks that have a name and those that are about to get it
Contenders(n) == Named(n) \cup {id[t] : t \in Savers(n)}

\* Looking for a name finds all ranks of that name: only the tasks themselves
\* can be in each other's way.
FewContend ==
  /\ \A t \in Task : pc[t] = "conflict" => req[t].name = doc[t].name
  /\ \A n \in Name : IsFiniteSet(Contenders(n)) /\ Cardinality(Contenders(n)) <= Cardinality(Task)

LEMMA FewOfTasks ==
  ASSUME NEW f, NEW C, C \subseteq {f[t] : t \in Task}
  PROVE  IsFiniteSet(C) /\ Cardinality(C) <= Cardinality(Task)
<1> DEFINE I == {f[t] : t \in Task}  g == [t \in Task |-> f[t]]
<1>1. IsFiniteSet(Task)  BY DirectoryAssumption
<1>2. g \in Surjection(Task, I)  BY DEF Surjection
<1>3. IsFiniteSet(I) /\ Cardinality(I) <= Cardinality(Task)  BY <1>1, <1>2, FS_Surjection
<1>4. IsFiniteSet(C) /\ Cardinality(C) <= Cardinality(I)  BY <1>3, FS_Subset
<1>5. Cardinality(C) \in Nat /\ Cardinality(I) \in Nat /\ Cardinality(Task) \in Nat
  BY <1>1, <1>3, <1>4, FS_CardinalityType
<1> HIDE DEF I
<1> QED BY <1>3, <1>4, <1>5

LEMMA FewerContend ==
  ASSUME FewContend, NEW n \in Name, Contenders(n)' \subseteq Contenders(n)
  PROVE  IsFiniteSet(Contenders(n)') /\ Cardinality(Contenders(n)') <= Cardinality(Task)
<1>1. IsFiniteSet(Contenders(n)') /\ Cardinality(Contenders(n)') <= Cardinality(Contenders(n))
  BY FS_Subset DEF FewContend
<1>2. Cardinality(Contenders(n)') \in Nat /\ Cardinality(Contenders(n)) \in Nat /\ Cardinality(Task) \in Nat
  BY <1>1, DirectoryAssumption, FS_CardinalityType DEF FewContend
<1> QED BY <1>1, <1>2 DEF FewContend

\* Who contends for a name after a step did so before it, or is a task that is
\* about to save, when the step has found no other rank of that name.
LEMMA NextFew ==
  TypeOK /\ Collection = "ranks" /\ FewContend /\ [Next]_vars => FewContend'
<1> SUFFICES ASSUME TypeOK, Collection = "ranks", FewContend, [Next]_vars PROVE FewContend'
  OBVIOUS
<1>m. Collection' = Collection  BY SameMode
<1>a. CASE UNCHANGED vars
  <2>1. \A n : Contenders(n)' = Contenders(n)
    BY <1>a, <1>m DEF vars, Contenders, Savers, Named, NameField, Stored
  <2> QED BY <1>a, <2>1 DEF vars, FewContend
<1>b. ASSUME NEW t \in Task, Step(t) PROVE FewContend'
  <2> DEFINE Known == (\A u \in Task : pc[u] = "conflict" => req[u].name = doc[u].name)'
  <2>s. ASSUME Known, \A n \in Name : Contenders(n)' \subseteq Contenders(n) PROVE FewContend'
    BY <2>s, FewerContend DEF FewContend
  <2>q. ASSUME UNCHANGED <<docs, id, doc>>, pc' = [pc EXCEPT ![t] = pc'[t]],
               pc'[t] \notin {"conflict", "save"}, \A u \in Task \ {t} : req'[u] = req[u]
        PROVE  FewContend'
    <3>1. Known  BY <2>q DEF TypeOK, FewContend
    <3>2. \A n \in Name : Savers(n)' \subseteq Savers(n)  BY <2>q DEF TypeOK, Savers
    <3>3. \A n \in Name : Named(n)' = Named(n)  BY <1>m, <2>q DEF Named, NameField, Stored
    <3> QED BY <2>q, <3>1, <3>2, <3>3, <2>s DEF Contenders
  <2>r. ASSUME NEW r, Begin(t, r) PROVE FewContend'
    <3>1. r.kind \in Kind  BY <2>r DEF Begin, Kinds, Kind
    <3>2. pc'[t] = r.kind  BY <2>r DEF Begin, Goto, TypeOK
    <3> QED BY <2>r, <3>1, <3>2, <2>q DEF Begin, Goto, Kind, TypeOK
  <2>f. ASSUME Forget(t), \A n \in Name : Named(n)' \subseteq Contenders(n) PROVE FewContend'
    <3>1. Known  BY <2>f DEF TypeOK, FewContend, Forget, Goto
    <3>2. \A n \in Name : Savers(n)' \subseteq Savers(n) \ {t}
      BY <2>f DEF TypeOK, Savers, Forget, Goto
    <3>3. \A u \in Task \ {t} : id'[u] = id[u]  BY <2>f DEF TypeOK, Forget
    <3> QED BY <2>f, <3>1, <3>2, <3>3, <2>s DEF Contenders, Savers
  <2>h. ASSUME NEW i \in Id, NEW d, NEW n \in Name, d.name = n, UNCHANGED docs,
               id' = [id EXCEPT ![t] = i], doc' = [doc EXCEPT ![t] = d],
               Known, Goto(t, "save"), Named(n) \subseteq {i}
        PROVE  FewContend'
    <3>1. \A k \in Name : Named(k)' = Named(k)  BY <1>m, <2>h DEF Named, NameField, Stored
    <3>2. id'[t] = i  BY <2>h DEF TypeOK
    <3>3. Contenders(n)' \subseteq {id'[u] : u \in Task}
      BY <2>h, <3>1, <3>2 DEF Contenders, Savers
    <3>4. ASSUME NEW k \in Name, k # n PROVE Contenders(k)' \subseteq Contenders(k)
      <4>1. Savers(k)' \subseteq Savers(k) \ {t}  BY <2>h, <3>4 DEF Savers, Goto, TypeOK
      <4>2. \A u \in Task \ {t} : id'[u] = id[u]  BY <2>h DEF TypeOK
      <4> QED BY <3>1, <4>1, <4>2 DEF Contenders, Savers
    <3>5. IsFiniteSet(Contenders(n)') /\ Cardinality(Contenders(n)') <= Cardinality(Task)
      BY <3>3, FewOfTasks
    <3> QED BY <2>h, <3>4, <3>5, FewerContend DEF FewContend
  <2>1. ASSUME NEW n \in Name, Create(t, n) PROVE FewContend'
    BY <2>1, <2>r DEF Create
  <2>2. ASSUME NEW key \in Id \cup Name, NEW n \in Name, Update(t, key, n) PROVE FewContend'
    BY <2>2, <2>r DEF Update
  <2>3. ASSUME NEW key \in Id, Delete(t, key) PROVE FewContend'
    BY <2>3, <2>r DEF Delete
  <2>4. ASSUME NEW key \in Id, NEW p \in Player, Complete(t, key, p) PROVE FewContend'
    BY <2>4, <2>r DEF Complete
  <2>5. ASSUME NEW i \in Id, Issues(t, i) PROVE FewContend'
    <3> DEFINE d == [name |-> req[t].name, first |-> NoPlayer]
    <3>1. d.name \in Name /\ Named(d.name) = {}  BY <2>5 DEF Issues, TypeOK, Matches
    <3>2. Known  BY <2>5 DEF Issues, Goto, TypeOK, FewContend
    <3> QED BY <2>5, <3>1, <3>2, <2>h DEF Issues
  <2>6. ASSUME NEW i \in Id, NEW where \in {"conflict", "save"}, Reads(t, i, where)
        PROVE  FewContend'
    <3>1. docs[i] \in Doc /\ req[t].name \in Name  BY <2>6, StoredDocs DEF Reads, TypeOK
    <3>2. doc'[t].name = req[t].name  BY <2>6, <3>1, Renamed DEF Reads, TypeOK
    <3>3. where = "conflict"  BY <2>6 DEF Reads
    <3>4. Known  BY <2>6, <3>2, <3>3 DEF Reads, Goto, TypeOK, FewContend
    <3>5. \A n \in Name : Savers(n)' \subseteq Savers(n) \ {t}
      BY <2>6, <3>3 DEF Reads, Savers, Goto, TypeOK
    <3>6. \A n \in Name : Named(n)' = Named(n)
      BY <1>m, <2>6 DEF Reads, Named, NameField, Stored
    <3>7. \A u \in Task \ {t} : id'[u] = id[u]  BY <2>6 DEF Reads, TypeOK
    <3> QED BY <3>4, <3>5, <3>6, <3>7, <2>s DEF Contenders, Savers
  <2>7. ASSUME NEW i \in Id, Enters(t, i) PROVE FewContend'
    <3>1. req[t] \in Request /\ req[t].player \in Player \cup {NoPlayer}
      BY <2>7 DEF Enters, TypeOK, Request
    <3>2. docs[i] \in Doc  BY <2>7, StoredDocs DEF Enters
    <3>3. id'[t] = i /\ doc'[t].name = docs[i].name
      BY <2>7, <3>1, <3>2, Completed DEF Enters, TypeOK
    <3>4. Known  BY <2>7 DEF Enters, Goto, TypeOK, FewContend
    <3>5. \A n \in Name : Savers(n)' \subseteq Savers(n) \cup {t}
      BY <2>7 DEF Enters, Savers, Goto, TypeOK
    <3>6. \A n \in Name : Named(n)' = Named(n)
      BY <1>m, <2>7 DEF Enters, Named, NameField, Stored
    <3>7. \A u \in Task \ {t} : id'[u] = id[u]  BY <2>7 DEF Enters, TypeOK
    <3>8. \A n \in Name : t \in Savers(n)' => i \in Named(n)
      BY <2>7, <3>3 DEF Enters, Savers, Named, NameField
    <3>9. \A n \in Name : \A u \in Savers(n)' : id'[u] \in Contenders(n)
      BY <3>3, <3>5, <3>7, <3>8 DEF Contenders, Savers
    <3> QED BY <3>4, <3>6, <3>9, <2>s DEF Contenders
  <2>8. CASE Passes(t)
    <3>1. req[t].name = doc[t].name  BY <2>8 DEF Passes, FewContend
    <3>2. id[t] \in Id /\ doc[t] \in Doc /\ doc[t].name \in Name
      BY <2>8, NoDocAssumption, <3>1, StoredDocs DEF Passes, TypeOK, Stored, Doc
    <3>3. Known  BY <2>8 DEF Passes, Goto, TypeOK, FewContend
    <3>4. id' = [id EXCEPT ![t] = id[t]] /\ doc' = [doc EXCEPT ![t] = doc[t]]
      BY <2>8 DEF Passes, TypeOK
    <3> QED BY <2>8, <3>1, <3>2, <3>3, <3>4, <2>h DEF Passes
  <2>9. CASE Save(t)
    <3>1. id[t] \in Id /\ docs' = [docs EXCEPT ![id[t]] = doc[t]]  BY <2>9 DEF Save, TypeOK
    <3>2. \A n \in Name : Named(n)' \subseteq Named(n) \cup (IF doc[t].name = n THEN {id[t]} ELSE {})
      BY <1>m, <3>1 DEF Named, NameField, Stored, TypeOK
    <3>3. \A n \in Name : doc[t].name = n => t \in Savers(n)  BY <2>9 DEF Save, Savers
    <3>4. \A n \in Name : Named(n)' \subseteq Contenders(n)  BY <3>2, <3>3 DEF Contenders
    <3> QED BY <2>9, <3>4, <2>f DEF Save
  <2>10. CASE Remove(t)
    <3>1. \A n \in Name : Named(n)' \subseteq Named(n)
      BY <1>m, <2>10 DEF Remove, Named, NameField, Stored
    <3> QED BY <2>10, <3>1, <2>f DEF Remove, Contenders
  <2>11. CASE GivesUp(t)
    <3>1. \A n \in Name : Named(n)' = Named(n)
      BY <1>m, <2>11 DEF GivesUp, Named, NameField, Stored
    <3> QED BY <2>11, <3>1, <2>f DEF GivesUp, Contenders
  <2> QED BY <1>b, <2>1, <2>2, <2>3, <2>4, <2>5, <2>6, <2>7, <2>8, <2>9, <2>10, <2>11, Cases
<1> QED BY <1>a, <1>b DEF Next

\* A name has no more ranks than there are tasks that serve requests, and one if
\* requests follow each other (create_rank and update_rank look before they
\* save).
THEOREM RankNames == Spec => []RankNamesBounded
<1> DEFINE Few == Collection = "ranks" => FewContend
           Alone == Serial => OneAtATime
           Differ == Serial /\ Collection = "ranks" => NamesDiffer
<1>1. Init => Few
  <2> SUFFICES ASSUME Init PROVE FewContend
    OBVIOUS
  <2>1. \A n \in Name : Contenders(n) = {}  BY DEF Init, Contenders, Savers, Named, Stored
  <2>2. IsFiniteSet({}) /\ Cardinality({}) = 0 /\ Cardinality(Task) \in Nat
    BY DirectoryAssumption, FS_EmptySet, FS_CardinalityType
  <2> QED BY <2>1, <2>2 DEF FewContend, Init
<1>2. Init => Alone /\ Differ  BY InitSerial
<1>3. TypeOK /\ Few /\ [Next]_vars => Few'  BY NextFew, SameMode
<1>4. TypeOK /\ Alone /\ [Next]_vars => Alone'  BY NextOne, SameMode
<1>5. TypeOK /\ Alone /\ Differ /\ [Next]_vars => Differ'  BY NextNames, SameMode
<1>6. Few /\ Differ => RankNamesBounded
  <2> SUFFICES ASSUME Few, Differ, Collection = "ranks", NEW n \in Name
               PROVE  Cardinality(Named(n)) <= IF Serial THEN 1 ELSE Cardinality(Task)
    BY DEF RankNamesBounded
  <2>1. CASE ~Serial
    <3>1. IsFiniteSet(Named(n)) /\ Cardinality(Named(n)) <= Cardinality(Contenders(n))
      BY FS_Subset DEF FewContend, Contenders
    <3>2. /\ Cardinality(Contenders(n)) \in Nat /\ Cardinality(Named(n)) \in Nat
          /\ Cardinality(Task) \in Nat
      BY <3>1, DirectoryAssumption, FS_CardinalityType DEF FewContend
    <3>3. Cardinality(Contenders(n)) <= Cardinality(Task)  BY DEF FewContend
    <3> QED BY <2>1, <3>1, <3>2, <3>3
  <2>2. CASE Serial /\ Named(n) = {}  BY <2>2, FS_EmptySet
  <2>3. CASE Serial /\ Named(n) # {}
    <3>1. PICK i : i \in Named(n)  BY <2>3
    <3>2. Named(n) = {i}  BY <2>3, <3>1 DEF NamesDiffer, Named
    <3>3. Cardinality({i}) = 1  BY FS_Singleton
    <3> QED BY <2>3, <3>2, <3>3
  <2> QED BY <2>1, <2>2, <2>3
<1> HIDE DEF Few, Alone, Differ
<1> QED BY <1>1, <1>2, <1>3, <1>4, <1>5, <1>6, InitTypeOK, NextTypeOK, PTL DEF Spec
=============================================================================

---------------------------- MODULE Levels_proofs ----------------------------
(***************************************************************************)
(* The types of Levels; that records are of matches that have ended,       *)
(* whoever overwrites whom; and, of servers that follow each other, that   *)
(* no two levels have the same name, and that no level goes back.          *)
(***************************************************************************)
EXTENDS Levels, TLAPS

-----------------------------------------------------------------------------
(* Types.                                                                  *)

TypeOfMaps ==
  /\ mode \in Modes
  /\ levels \in [Id -> Doc \cup {NoDoc}]
  /\ \A i \in Stored : levels[i].id = i
  /\ asked \in [Task -> SUBSET Map]
  /\ todo \in [Task -> SUBSET Doc]
  /\ pc \in [Task -> {"idle", "find", "save"}]
  /\ \A t \in Task : /\ pc[t] # "find" => asked[t] = {}
                     /\ pc[t] = "idle" => todo[t] = {}
  /\ version \in [Task -> Nat]
  /\ requests \in Nat
  /\ called \in [Id -> SUBSET Name]

TypeOfMatches ==
  /\ copy \in [Match -> Doc \cup {NoDoc}]
  /\ phase \in [Match -> {"none", "on", "over"}]
  /\ \A m \in Match : phase[m] # "none" => copy[m] \in Doc
  /\ best \in [Match -> Nat]

Typed == TypeOfMaps /\ TypeOfMatches

LEMMA TypedTypeOK == Typed => TypeOK
<1> SUFFICES ASSUME Typed PROVE TypeOK  OBVIOUS
<1>1. \A i \in Stored : levels[i] \in Doc  BY DEF Typed, TypeOfMaps, Stored
<1>2. \A t \in Task : todo[t] \subseteq Doc  BY DEF Typed, TypeOfMaps
<1>3. \A m \in Match : phase[m] # "none" => copy[m] \in Doc  BY DEF Typed, TypeOfMatches
<1>4. ASSUME NEW d \in Copies PROVE d \in Doc
  <2>1. CASE d \in {levels[i] : i \in Stored}  BY <2>1, <1>1
  <2>2. CASE d \in UNION {todo[t] : t \in Task}  BY <2>2, <1>2
  <2>3. CASE d \in {copy[m] : m \in {k \in Match : phase[k] # "none"}}  BY <2>3, <1>3
  <2> QED BY <2>1, <2>2, <2>3, <1>4 DEF Copies
<1> QED BY <1>4 DEF Typed, TypeOfMaps, TypeOfMatches, TypeOK

LEMMA MapNames == ASSUME Typed, NEW a \in Map
                  PROVE  a.id \in Id /\ a.name \in Name
  BY LevelsAssumption DEF Typed, TypeOfMaps, Map, Mode

\* What add_maps makes of a map: a level with no records,
LEMMA NewLevelDoc ==
  ASSUME Typed, NEW t \in Task, NEW a \in Map
  PROVE  /\ NewLevel(t, a) \in Doc
         /\ NewLevel(t, a).id = a.id /\ NewLevel(t, a).name = a.name
         /\ NewLevel(t, a).record = 0 /\ NewLevel(t, a).by = NoMatch
         /\ NewLevel(t, a).version = version[t]
<1>1. a.id \in Id /\ a.name \in Name /\ version[t] \in Nat
  BY MapNames DEF Typed, TypeOfMaps
<1> QED BY <1>1 DEF NewLevel, Doc

\* or the level with what it has.
LEMMA UpdatedDoc ==
  ASSUME Typed, NEW t \in Task, NEW a \in Map, NEW d \in Doc
  PROVE  /\ Updated(t, a, d) \in Doc
         /\ Updated(t, a, d).id = d.id /\ Updated(t, a, d).name = a.name
         /\ Updated(t, a, d).record = d.record /\ Updated(t, a, d).by = d.by
         /\ Updated(t, a, d).version = version[t]
<1>1. a.name \in Name /\ version[t] \in Nat  BY MapNames DEF Typed, TypeOfMaps
<1> QED BY <1>1 DEF Updated, Doc

\* What a match makes of its level
LEMMA BeatenDoc ==
  ASSUME NEW m \in Match, copy[m] \in Doc, NEW n \in Nat
  PROVE  /\ Beaten(m, n) \in Doc
         /\ Beaten(m, n).id = copy[m].id /\ Beaten(m, n).name = copy[m].name
         /\ Beaten(m, n).version = copy[m].version
         /\ Beaten(m, n).record = IF n > copy[m].record THEN n ELSE copy[m].record
         /\ Beaten(m, n).by = IF n > copy[m].record THEN m ELSE copy[m].by
  BY DEF Beaten, Doc

LEMMA LoadedDoc ==
  ASSUME NEW d \in Doc, NEW m \in Match
  PROVE  LET c == [d EXCEPT !.last = m]
         IN  /\ c \in Doc /\ c.id = d.id /\ c.name = d.name /\ c.version = d.version
             /\ c.record = d.record /\ c.by = d.by
  BY DEF Doc

\* The document that the answer to a query adds to the request
Found(t, a, d) ==
  \/ Named(a.name) = {} /\ d = NewLevel(t, a)
  \/ \E i \in Named(a.name) : d = Updated(t, a, levels[i])

LEMMA FindMapFound ==
  ASSUME Typed, NEW t \in Task, NEW a \in asked[t], FindMap(t, a)
  PROVE  /\ a \in Map
         /\ \E d \in Doc : Found(t, a, d) /\ todo' = [todo EXCEPT ![t] = @ \cup {d}]
         /\ asked' = [asked EXCEPT ![t] = @ \ {a}]
         /\ pc[t] = "find" /\ pc'[t] \in {"find", "save"}
         /\ \A u \in Task : u # t => pc'[u] = pc[u] /\ asked'[u] = asked[u] /\ todo'[u] = todo[u]
         /\ UNCHANGED <<levels, copy, phase, best, version, called, requests>>
<1>1. a \in Map  BY DEF Typed, TypeOfMaps
<1>2. \A i \in Named(a.name) : levels[i] \in Doc
  BY DEF Typed, TypeOfMaps, Named, Stored
<1>3. PICK d : Found(t, a, d) /\ todo' = [todo EXCEPT ![t] = @ \cup {d}]
  BY DEF FindMap, Found
<1>4. d \in Doc  BY <1>1, <1>2, <1>3, NewLevelDoc, UpdatedDoc DEF Found
<1>5. /\ pc[t] = "find" /\ asked' = [asked EXCEPT ![t] = @ \ {a}]
      /\ pc' = [pc EXCEPT ![t] = IF asked'[t] = {} THEN "save" ELSE "find"]
      /\ UNCHANGED <<levels, copy, phase, best, version, called, requests>>
  BY DEF FindMap
<1>6. /\ pc'[t] \in {"find", "save"}
      /\ \A u \in Task : u # t => pc'[u] = pc[u] /\ asked'[u] = asked[u] /\ todo'[u] = todo[u]
  BY <1>3, <1>5 DEF Typed, TypeOfMaps
<1> QED BY <1>1, <1>3, <1>4, <1>5, <1>6

LEMMA InitTyped == Init => Typed
  BY DEF Init, Typed, TypeOfMaps, TypeOfMatches, Stored

LEMMA NextTyped == Typed /\ [Next]_vars => Typed'
<1> SUFFICES ASSUME Typed, [Next]_vars PROVE Typed'  OBVIOUS
<1> USE DEF Typed
<1>0. mode' = mode /\ Map' = Map  BY DEF Next, vars, Map
<1>1. ASSUME NEW t \in Task, NEW maps \in SUBSET Map \ {{}}, AddMaps(t, maps)
      PROVE  Typed'
  <2>1. TypeOfMatches'  BY <1>1 DEF AddMaps, TypeOfMatches
  <2>2. \A a \in maps : a.name \in Name  BY MapNames
  <2>3. called' \in [Id -> SUBSET Name]
    <3>1. called' = [i \in Id |-> called[i] \cup {a.name : a \in {b \in maps : b.id = i}}]
      BY <1>1 DEF AddMaps
    <3>2. \A i \in Id : called[i] \cup {a.name : a \in {b \in maps : b.id = i}} \in SUBSET Name
      BY <2>2 DEF TypeOfMaps
    <3> QED BY <3>1, <3>2
  <2>4. TypeOfMaps'  BY <1>0, <1>1, <2>3 DEF AddMaps, TypeOfMaps, Stored
  <2> QED BY <2>1, <2>4
<1>2. ASSUME NEW t \in Task, NEW a \in asked[t], FindMap(t, a) PROVE Typed'
  <2>1. PICK d \in Doc : todo' = [todo EXCEPT ![t] = @ \cup {d}]  BY <1>2, FindMapFound
  <2>2. todo' \in [Task -> SUBSET Doc] /\ asked' \in [Task -> SUBSET Map]
    BY <1>2, <2>1, FindMapFound DEF TypeOfMaps
  <2>3. pc' \in [Task -> {"idle", "find", "save"}]  BY <1>2 DEF FindMap, TypeOfMaps
  <2>4. \A u \in Task : /\ pc'[u] # "find" => asked'[u] = {}
                        /\ pc'[u] = "idle" => todo'[u] = {}
    <3>1. pc' = [pc EXCEPT ![t] = IF asked'[t] = {} THEN "save" ELSE "find"]
      BY <1>2 DEF FindMap
    <3> QED BY <1>2, <3>1, FindMapFound DEF TypeOfMaps
  <2> QED BY <1>0, <1>2, <2>2, <2>3, <2>4 DEF FindMap, TypeOfMaps, TypeOfMatches, Stored
<1>3. ASSUME NEW t \in Task, NEW d \in todo[t], SaveMap(t, d) PROVE Typed'
  <2>1. d \in Doc /\ d.id \in Id  BY DEF TypeOfMaps, Doc
  <2>2. levels' = [levels EXCEPT ![d.id] = d]  BY <1>3 DEF SaveMap
  <2>3. levels' \in [Id -> Doc \cup {NoDoc}] /\ \A i \in Stored' : levels'[i].id = i
    BY <2>1, <2>2 DEF TypeOfMaps, Stored
  <2>4. \A u \in Task : /\ pc'[u] # "find" => asked'[u] = {}
                        /\ pc'[u] = "idle" => todo'[u] = {}
    BY <1>3 DEF SaveMap, TypeOfMaps
  <2> QED BY <1>0, <1>3, <2>3, <2>4 DEF SaveMap, TypeOfMaps, TypeOfMatches
<1>4. ASSUME NEW t \in Task, Die(t) PROVE Typed'
  BY <1>0, <1>4 DEF Die, TypeOfMaps, TypeOfMatches, Stored
<1>5. ASSUME NEW m \in Match, NEW i \in Id, OnLoad(m, i) PROVE Typed'
  <2>1. levels[i] \in Doc  BY <1>5 DEF OnLoad, TypeOfMaps, Stored
  <2>2. [levels[i] EXCEPT !.last = m] \in Doc  BY <2>1, LoadedDoc
  <2>3. TypeOfMatches'  BY <1>5, <2>2 DEF OnLoad, TypeOfMatches
  <2> QED BY <1>0, <1>5, <2>3 DEF OnLoad, TypeOfMaps, Stored
<1>6. ASSUME NEW m \in Match, NEW n \in Nat, Do(m, n) PROVE Typed'
  <2>1. Beaten(m, n) \in Doc  BY <1>6, BeatenDoc DEF Do, TypeOfMatches
  <2>2. TypeOfMatches'  BY <1>6, <2>1 DEF Do, TypeOfMatches
  <2> QED BY <1>0, <1>6, <2>2 DEF Do, TypeOfMaps, Stored
<1>7. ASSUME NEW m \in Match, OnMatchEnd(m) PROVE Typed'
  <2>1. copy[m] \in Doc /\ copy[m].id \in Id  BY <1>7 DEF OnMatchEnd, TypeOfMatches, Doc
  <2>2. TypeOfMatches'  BY <1>7 DEF OnMatchEnd, TypeOfMatches
  <2>3. levels' = [levels EXCEPT ![copy[m].id] = copy[m]]  BY <1>7 DEF OnMatchEnd
  <2>4. levels' \in [Id -> Doc \cup {NoDoc}] /\ \A i \in Stored' : levels'[i].id = i
    BY <2>1, <2>3 DEF TypeOfMaps, Stored
  <2> QED BY <1>0, <1>7, <2>2, <2>4 DEF OnMatchEnd, TypeOfMaps
<1>8. ASSUME NEW m \in Match, Abandon(m) PROVE Typed'
  BY <1>0, <1>8 DEF Abandon, TypeOfMaps, TypeOfMatches, Stored
<1>9. CASE UNCHANGED vars  BY <1>0, <1>9 DEF vars, TypeOfMaps, TypeOfMatches, Stored
<1>10. \A n \in 1..mode.record : n \in Nat
  BY LevelsAssumption DEF Mode, TypeOfMaps
<1> QED BY <1>1, <1>2, <1>3, <1>4, <1>5, <1>6, <1>7, <1>8, <1>9, <1>10 DEF Next

\* The inductive form of TypeOK: all that is said of requests of add_maps and
\* of the copies of levels inside matches.
THEOREM TypedCorrect == Spec => []Typed
  BY InitTyped, NextTyped, PTL DEF Spec

\* However maps are sent and matches end: every copy of a level, in Mongo, in a
\* request or in a match, is a well-typed document, and in Mongo each is at its
\* own id.
THEOREM TypeCorrect == Spec => []TypeOK
  BY TypedCorrect, TypedTypeOK, PTL

-----------------------------------------------------------------------------
(* Records.  Whoever writes a level back, at whatever time, has its records *)
(* from Mongo, where they are of matches that have ended; and what a match *)
(* keeps in its copy is its own best, or was better already.               *)

RecordSound(d) == IF d.by = NoMatch THEN d.record = 0
                  ELSE phase[d.by] = "over" /\ copy[d.by].id = d.id /\ d.record = best[d.by]

\* The copy of a match that is on
CopySound(m) == IF copy[m].by = m THEN copy[m].record = best[m]
                ELSE RecordSound(copy[m]) /\ best[m] <= copy[m].record

RecordsInv ==
  /\ \A i \in Stored : RecordSound(levels[i])
  /\ \A t \in Task : \A d \in todo[t] : RecordSound(d)
  /\ \A m \in Match : /\ phase[m] = "on" => CopySound(m)
                      /\ phase[m] = "none" => best[m] = 0

LEMMA RecordsInvSound == Typed /\ RecordsInv => RecordsAreOfEndedMatches
  BY DEF RecordsInv, RecordSound, RecordsAreOfEndedMatches, Typed, TypeOfMaps

LEMMA InitRecords == Init => RecordsInv
  BY DEF Init, RecordsInv, Stored

\* A match that has ended stays as it was,
LEMMA OverStays ==
  ASSUME Typed, [Next]_vars, NEW m \in Match, phase[m] = "over"
  PROVE  phase'[m] = "over" /\ copy'[m] = copy[m] /\ best'[m] = best[m]
<1> USE DEF Typed, TypeOfMatches
<1>1. ASSUME NEW k \in Match, NEW i \in Id, OnLoad(k, i)
      PROVE  phase'[m] = "over" /\ copy'[m] = copy[m] /\ best'[m] = best[m]
  BY <1>1 DEF OnLoad
<1>2. ASSUME NEW k \in Match, NEW n, Do(k, n)
      PROVE  phase'[m] = "over" /\ copy'[m] = copy[m] /\ best'[m] = best[m]
  BY <1>2 DEF Do
<1>3. ASSUME NEW k \in Match, OnMatchEnd(k) \/ Abandon(k)
      PROVE  phase'[m] = "over" /\ copy'[m] = copy[m] /\ best'[m] = best[m]
  BY <1>3 DEF OnMatchEnd, Abandon
<1>4. (\E k \in Match : \/ \E i \in Id : OnLoad(k, i)
                        \/ \E n \in 1..mode.record : Do(k, n)
                        \/ OnMatchEnd(k) \/ Abandon(k))
        \/ UNCHANGED <<phase, copy, best>>
  BY DEF Next, vars, AddMaps, FindMap, SaveMap, Die
<1> QED BY <1>1, <1>2, <1>3, <1>4

\* and so do the records that were set in it.
LEMMA RecordStays ==
  ASSUME Typed, [Next]_vars, NEW d \in Doc, RecordSound(d)
  PROVE  RecordSound(d)'
<1>1. d.by = NoMatch \/ d.by \in Match  BY DEF Doc
<1> QED BY <1>1, OverStays DEF RecordSound

\* A match that is on and does nothing keeps what it has.
LEMMA CopyStays ==
  ASSUME Typed, [Next]_vars, NEW m \in Match, phase[m] = "on", CopySound(m),
         copy'[m] = copy[m], best'[m] = best[m]
  PROVE  CopySound(m)'
<1>1. copy[m] \in Doc  BY DEF Typed, TypeOfMatches
<1>2. \A d \in Doc : RecordSound(d) => RecordSound(d)'  BY RecordStays
<1>3. RecordSound(copy[m]) => RecordSound(copy[m])'
  BY <1>1, <1>2 DEF RecordSound
<1> QED BY <1>3 DEF CopySound

\* What add_maps takes from Mongo has the records that are there.
LEMMA FoundSound ==
  ASSUME Typed, RecordsInv, NEW t \in Task, NEW a \in Map, NEW d \in Doc, Found(t, a, d)
  PROVE  RecordSound(d)
<1>1. CASE d = NewLevel(t, a)  BY <1>1, NewLevelDoc DEF RecordSound
<1>2. ASSUME NEW i \in Named(a.name), d = Updated(t, a, levels[i])
      PROVE  RecordSound(d)
  <2>1. levels[i] \in Doc /\ RecordSound(levels[i])
    BY DEF Named, Stored, Typed, TypeOfMaps, RecordsInv
  <2>2. d.id = levels[i].id /\ d.record = levels[i].record /\ d.by = levels[i].by
    BY <1>2, <2>1, UpdatedDoc
  <2> QED BY <2>1, <2>2 DEF RecordSound
<1> QED BY <1>1, <1>2 DEF Found

\* The levels in Mongo and in requests
DocsSound == /\ \A i \in Stored : RecordSound(levels[i])
             /\ \A t \in Task : \A d \in todo[t] : RecordSound(d)

MatchSound(m) == /\ phase[m] = "on" => CopySound(m)
                 /\ phase[m] = "none" => best[m] = 0

LEMMA NextDocsSound ==
  ASSUME Typed, RecordsInv, [Next]_vars
  PROVE  DocsSound'
<1> DEFINE Good == {d \in Doc : RecordSound(d)'}
<1>1. Typed'  BY NextTyped
<1>2. \A d \in Doc : RecordSound(d) => d \in Good  BY RecordStays
<1>3. \A i \in Stored : levels[i] \in Good
  BY <1>2 DEF Typed, TypeOfMaps, Stored, RecordsInv
<1>4. \A t \in Task : todo[t] \subseteq Good  BY <1>2 DEF Typed, TypeOfMaps, RecordsInv
<1>5. SUFFICES /\ \A i \in Stored' : levels'[i] \in Good
               /\ \A t \in Task : todo'[t] \subseteq Good
  BY DEF DocsSound, RecordSound
<1> HIDE DEF Good
<1>6. ASSUME NEW t \in Task, NEW a \in asked[t], FindMap(t, a)
      PROVE  (\A i \in Stored' : levels'[i] \in Good) /\ \A u \in Task : todo'[u] \subseteq Good
  <2>1. PICK d \in Doc : Found(t, a, d) /\ todo' = [todo EXCEPT ![t] = @ \cup {d}]
    BY <1>6, FindMapFound
  <2>2. a \in Map /\ levels' = levels  BY <1>6, FindMapFound
  <2>3. d \in Good  BY <1>2, <2>1, <2>2, FoundSound
  <2>4. \A u \in Task : todo'[u] \subseteq todo[u] \cup {d}
    BY <2>1 DEF Typed, TypeOfMaps
  <2> QED BY <1>3, <1>4, <2>2, <2>3, <2>4 DEF Stored
<1>7. ASSUME NEW t \in Task, NEW d \in todo[t], SaveMap(t, d)
      PROVE  (\A i \in Stored' : levels'[i] \in Good) /\ \A u \in Task : todo'[u] \subseteq Good
  <2>1. /\ levels' = [levels EXCEPT ![d.id] = d]
        /\ todo' = [todo EXCEPT ![t] = @ \ {d}]
    BY <1>7 DEF SaveMap
  <2>2. \A i \in Id : levels'[i] = levels[i] \/ levels'[i] = d  BY <2>1 DEF Typed, TypeOfMaps
  <2>3. \A u \in Task : todo'[u] \subseteq todo[u]  BY <2>1 DEF Typed, TypeOfMaps
  <2> QED BY <1>3, <1>4, <2>2, <2>3 DEF Stored
<1>8. ASSUME NEW m \in Match, OnMatchEnd(m)
      PROVE  (\A i \in Stored' : levels'[i] \in Good) /\ \A u \in Task : todo'[u] \subseteq Good
  <2>1. /\ phase[m] = "on" /\ phase' = [phase EXCEPT ![m] = "over"]
        /\ levels' = [levels EXCEPT ![copy[m].id] = copy[m]]
        /\ UNCHANGED <<copy, best, todo>>
    BY <1>8 DEF OnMatchEnd
  <2>2. copy[m] \in Doc /\ CopySound(m)  BY <2>1 DEF Typed, TypeOfMatches, RecordsInv
  <2>3. copy[m] \in Good
    <3>1. CASE copy[m].by = m
      <4>1. phase'[m] = "over"  BY <2>1 DEF Typed, TypeOfMatches
      <4>2. m # NoMatch  BY LevelsAssumption
      <4> QED BY <2>1, <2>2, <3>1, <4>1, <4>2 DEF CopySound, RecordSound, Good
    <3>2. CASE copy[m].by # m  BY <1>2, <2>2, <3>2 DEF CopySound
    <3> QED BY <3>1, <3>2
  <2>4. \A i \in Id : levels'[i] = levels[i] \/ levels'[i] = copy[m]
    BY <2>1 DEF Typed, TypeOfMaps
  <2> QED BY <1>3, <1>4, <2>1, <2>3, <2>4 DEF Stored
<1>9. ASSUME levels' = levels, \A t \in Task : todo'[t] \subseteq todo[t]
      PROVE  (\A i \in Stored' : levels'[i] \in Good) /\ \A u \in Task : todo'[u] \subseteq Good
  BY <1>3, <1>4, <1>9 DEF Stored
<1>10. ASSUME NEW t \in Task, Die(t) PROVE levels' = levels /\ \A u \in Task : todo'[u] \subseteq todo[u]
  BY <1>10 DEF Die, Typed, TypeOfMaps
<1>11. ASSUME NEW t, NEW maps, AddMaps(t, maps) PROVE levels' = levels /\ todo' = todo
  BY <1>11 DEF AddMaps
<1>12. ASSUME NEW m \in Match, NEW n, OnLoad(m, n) \/ Do(m, n) \/ Abandon(m)
       PROVE  levels' = levels /\ todo' = todo
  BY <1>12 DEF OnLoad, Do, Abandon
<1>13. UNCHANGED vars => levels' = levels /\ todo' = todo  BY DEF vars
<1> QED BY <1>6, <1>7, <1>8, <1>9, <1>10, <1>11, <1>12, <1>13 DEF Next

LEMMA NextMatchSound ==
  ASSUME Typed, RecordsInv, [Next]_vars, NEW m \in Match
  PROVE  MatchSound(m)'
<1> USE DEF Typed, TypeOfMatches
<1>0. MatchSound(m)  BY DEF RecordsInv, MatchSound
<1>1. ASSUME phase'[m] = phase[m], copy'[m] = copy[m], best'[m] = best[m]
      PROVE  MatchSound(m)'
  BY <1>0, <1>1, CopyStays DEF MatchSound
<1>2. ASSUME NEW i \in Id, OnLoad(m, i) PROVE MatchSound(m)'
  <2>1. /\ phase[m] = "none" /\ phase'[m] = "on" /\ best' = best /\ i \in Stored
        /\ copy'[m] = [levels[i] EXCEPT !.last = m]
    BY <1>2 DEF OnLoad
  <2>2. levels[i] \in Doc /\ RecordSound(levels[i])
    BY <2>1 DEF TypeOfMaps, Stored, RecordsInv
  <2>3. PICK c \in Doc : /\ copy'[m] = c /\ c.id = levels[i].id
                         /\ c.record = levels[i].record /\ c.by = levels[i].by
    BY <2>1, <2>2, LoadedDoc
  <2>4. RecordSound(c) /\ c.by # m
    BY <2>1, <2>2, <2>3, LevelsAssumption DEF RecordSound
  <2>5. RecordSound(c)'  BY <2>3, <2>4, RecordStays
  <2>6. best[m] = 0 /\ c.record \in Nat  BY <1>0, <2>1, <2>3 DEF MatchSound, Doc
  <2> QED BY <2>1, <2>3, <2>4, <2>5, <2>6 DEF MatchSound, CopySound, RecordSound
<1>3. ASSUME NEW n \in Nat, Do(m, n) PROVE MatchSound(m)'
  <2>1. /\ phase[m] = "on" /\ phase' = phase /\ copy'[m] = Beaten(m, n)
        /\ best'[m] = IF n > best[m] THEN n ELSE best[m]
    BY <1>3 DEF Do
  <2>2. copy[m] \in Doc /\ CopySound(m)  BY <1>0, <2>1 DEF MatchSound
  <2>3. PICK c \in Doc : /\ copy'[m] = c /\ c.id = copy[m].id
                         /\ c.record = IF n > copy[m].record THEN n ELSE copy[m].record
                         /\ c.by = IF n > copy[m].record THEN m ELSE copy[m].by
    BY <2>1, <2>2, BeatenDoc
  <2>4. copy[m].record \in Nat /\ best[m] \in Nat  BY <2>2 DEF Doc
  <2>5. CASE copy[m].by = m
    <3>1. copy[m].record = best[m]  BY <2>2, <2>5 DEF CopySound
    <3>2. c.by = m /\ c.record = best'[m]  BY <2>1, <2>3, <2>5, <3>1
    <3> QED BY <2>1, <2>3, <3>2 DEF MatchSound, CopySound
  <2>6. CASE copy[m].by # m /\ n > copy[m].record
    <3>1. best[m] <= copy[m].record  BY <2>2, <2>6 DEF CopySound
    <3>2. c.by = m /\ c.record = best'[m]  BY <2>1, <2>3, <2>4, <2>6, <3>1
    <3> QED BY <2>1, <2>3, <3>2 DEF MatchSound, CopySound
  <2>7. CASE copy[m].by # m /\ ~(n > copy[m].record)
    <3>1. best[m] <= copy[m].record /\ RecordSound(copy[m])  BY <2>2, <2>7 DEF CopySound
    <3>2. c.by # m /\ RecordSound(c) /\ best'[m] <= c.record
      BY <2>1, <2>3, <2>4, <2>7, <3>1 DEF RecordSound
    <3>3. RecordSound(c)'  BY <2>3, <3>2, RecordStays
    <3> QED BY <2>1, <2>3, <3>2, <3>3 DEF MatchSound, CopySound, RecordSound
  <2> QED BY <2>5, <2>6, <2>7
<1>4. CASE OnMatchEnd(m) \/ Abandon(m)
  BY <1>4 DEF OnMatchEnd, Abandon, MatchSound
<1>5. ASSUME NEW k \in Match, k # m,
             \/ \E i \in Id : OnLoad(k, i)
             \/ \E n \in 1..mode.record : Do(k, n)
             \/ OnMatchEnd(k) \/ Abandon(k)
      PROVE  phase'[m] = phase[m] /\ copy'[m] = copy[m] /\ best'[m] = best[m]
  BY <1>5 DEF OnLoad, Do, OnMatchEnd, Abandon
<1>6. ASSUME NEW t \in Task,
             \/ \E maps \in SUBSET Map \ {{}} : AddMaps(t, maps)
             \/ \E a \in asked[t] : FindMap(t, a)
             \/ \E d \in todo[t] : SaveMap(t, d)
             \/ Die(t)
      PROVE  phase'[m] = phase[m] /\ copy'[m] = copy[m] /\ best'[m] = best[m]
  BY <1>6 DEF AddMaps, FindMap, SaveMap, Die
<1>7. UNCHANGED vars => phase' = phase /\ copy' = copy /\ best' = best  BY DEF vars
<1>8. \A n \in 1..mode.record : n \in Nat  BY LevelsAssumption DEF Mode, TypeOfMaps
<1> HIDE DEF Typed, TypeOfMatches
<1> QED BY <1>1, <1>2, <1>3, <1>4, <1>5, <1>6, <1>7, <1>8 DEF Next

LEMMA NextRecords == Typed /\ RecordsInv /\ [Next]_vars => RecordsInv'
<1> SUFFICES ASSUME Typed, RecordsInv, [Next]_vars PROVE RecordsInv'  OBVIOUS
<1>1. DocsSound'  BY NextDocsSound
<1>2. \A m \in Match : MatchSound(m)'  BY NextMatchSound
<1> QED BY <1>1, <1>2 DEF DocsSound, MatchSound, RecordsInv, RecordSound

\* For any number of servers and matches, and whoever overwrites whom or dies:
\* a record of a level in Mongo was set in a match that has ended, on this
\* level, and is the best that was done in it.
THEOREM RecordsOfEndedMatches == Spec => []RecordsAreOfEndedMatches
<1>1. Init => Typed /\ RecordsInv  BY InitTyped, InitRecords
<1>2. Typed /\ RecordsInv /\ [Next]_vars => (Typed /\ RecordsInv)'  BY NextTyped, NextRecords
<1> QED BY <1>1, <1>2, RecordsInvSound, PTL DEF Spec

-----------------------------------------------------------------------------
(* Names.  Servers come up one after the other and while no match is on, so *)
(* nothing changes between a query of add_maps and the saves, and nothing  *)
(* while a match has its copy.                                             *)

Exclusive ==
  /\ \A t, u \in Task : pc[t] # "idle" /\ pc[u] # "idle" => t = u
  /\ \A m, k \in Match : phase[m] = "on" /\ phase[k] = "on" => m = k
  /\ \A t \in Task, m \in Match : pc[t] = "idle" \/ phase[m] # "on"

LEMMA NextExclusive == Calm /\ Typed /\ Exclusive /\ [Next]_vars => Exclusive'
<1> SUFFICES ASSUME Calm, Typed, Exclusive, [Next]_vars PROVE Exclusive'  OBVIOUS
<1> USE DEF Typed, TypeOfMaps, TypeOfMatches
<1>1. ASSUME NEW t \in Task, NEW maps, AddMaps(t, maps) PROVE Exclusive'
  <2>1. /\ \A u \in Task : pc[u] = "idle"
        /\ \A m \in Match : phase[m] # "on"
        /\ pc' = [pc EXCEPT ![t] = "find"] /\ phase' = phase
    BY <1>1 DEF AddMaps
  <2> QED BY <2>1 DEF Exclusive
<1>2. ASSUME NEW m \in Match, NEW i, OnLoad(m, i) PROVE Exclusive'
  <2>1. /\ \A u \in Task : pc[u] = "idle"
        /\ \A k \in Match : phase[k] # "on"
        /\ phase' = [phase EXCEPT ![m] = "on"] /\ pc' = pc
    BY <1>2 DEF OnLoad
  <2> QED BY <2>1 DEF Exclusive
<1>3. ASSUME \A t \in Task : pc'[t] # "idle" => pc[t] # "idle",
             \A m \in Match : phase'[m] = "on" => phase[m] = "on"
      PROVE  Exclusive'
  BY <1>3 DEF Exclusive
<1>4. ASSUME NEW t \in Task, NEW a, FindMap(t, a) \/ SaveMap(t, a) \/ Die(t) PROVE Exclusive'
  <2>1. \A u \in Task : pc'[u] # "idle" => pc[u] # "idle"
    BY <1>4 DEF FindMap, SaveMap, Die
  <2>2. phase' = phase  BY <1>4 DEF FindMap, SaveMap, Die
  <2> QED BY <2>1, <2>2, <1>3
<1>5. ASSUME NEW m \in Match, NEW n, Do(m, n) \/ OnMatchEnd(m) \/ Abandon(m) PROVE Exclusive'
  <2>1. \A k \in Match : phase'[k] = "on" => phase[k] = "on"
    BY <1>5 DEF Do, OnMatchEnd, Abandon
  <2>2. pc' = pc  BY <1>5 DEF Do, OnMatchEnd, Abandon
  <2> QED BY <2>1, <2>2, <1>3
<1>6. CASE UNCHANGED vars  BY <1>3, <1>6 DEF vars
<1> QED BY <1>1, <1>2, <1>4, <1>5, <1>6 DEF Next

\* Names that are given to a level are not those of another.
Unique == \A i, j \in Stored : levels[i].name = levels[j].name => i = j

TodoNames(t) ==
  /\ \A d \in todo[t] : \A j \in Stored : levels[j].name = d.name => j = d.id
  /\ \A d, e \in todo[t] : d.name = e.name => d = e
  /\ \A a \in asked[t], d \in todo[t] : a.name # d.name
  /\ \A a, b \in asked[t] : a.name = b.name => a = b

CopyName(m) == \A j \in Stored : levels[j].name = copy[m].name => j = copy[m].id

NamesInv ==
  /\ Exclusive
  /\ Unique
  /\ \A t \in Task : pc[t] # "idle" => TodoNames(t)
  /\ \A m \in Match : phase[m] = "on" => CopyName(m)

LEMMA InitNames == Init => NamesInv
  BY DEF Init, NamesInv, Exclusive, Unique, Stored

\* As long as no level is saved and no request goes on, names stay.
LEMMA NamesStay ==
  ASSUME NamesInv, levels' = levels,
         \A t \in Task : pc'[t] # "idle" =>
           pc[t] # "idle" /\ todo'[t] = todo[t] /\ asked'[t] = asked[t]
  PROVE  Unique' /\ \A t \in Task : pc'[t] # "idle" => TodoNames(t)'
  BY DEF NamesInv, Unique, TodoNames, Stored

LEMMA NextNames == Calm /\ Typed /\ NamesInv /\ [Next]_vars => NamesInv'
<1> SUFFICES ASSUME Calm, Typed, NamesInv, [Next]_vars PROVE NamesInv'  OBVIOUS
<1>0. Exclusive'  BY NextExclusive DEF NamesInv
<1> DEFINE Good == /\ Unique'
                   /\ \A u \in Task : pc'[u] # "idle" => TodoNames(u)'
                   /\ \A k \in Match : phase'[k] = "on" => CopyName(k)'
<1>1. SUFFICES Good  BY <1>0 DEF NamesInv
<1> USE DEF Typed, TypeOfMaps, TypeOfMatches
<1>2. ASSUME NEW t \in Task, NEW maps \in SUBSET Map \ {{}}, AddMaps(t, maps) PROVE Good
  <2>1. /\ \A u \in Task : pc[u] = "idle"
        /\ \A m \in Match : phase[m] # "on"
        /\ \A a, b \in maps : a.name = b.name \/ a.id = b.id => a = b
        /\ pc' = [pc EXCEPT ![t] = "find"]
        /\ asked' = [asked EXCEPT ![t] = maps]
        /\ UNCHANGED <<levels, todo, phase>>
    BY <1>2 DEF AddMaps
  <2>2. \A u \in Task : pc'[u] # "idle" => u = t  BY <2>1
  <2>3. todo'[t] = {} /\ asked'[t] = maps  BY <2>1
  <2>4. TodoNames(t)'  BY <2>1, <2>3 DEF TodoNames
  <2>5. Unique'  BY <2>1 DEF NamesInv, Unique, Stored
  <2> QED BY <2>1, <2>2, <2>4, <2>5
<1>3. ASSUME NEW t \in Task, NEW a \in asked[t], FindMap(t, a) PROVE Good
  <2>1. PICK d \in Doc : Found(t, a, d) /\ todo' = [todo EXCEPT ![t] = @ \cup {d}]
    BY <1>3, FindMapFound
  <2>2. /\ a \in Map /\ pc[t] = "find" /\ levels' = levels /\ phase' = phase
        /\ asked' = [asked EXCEPT ![t] = @ \ {a}]
    BY <1>3, FindMapFound
  <2>3. \A m \in Match : phase'[m] # "on"  BY <2>2 DEF NamesInv, Exclusive
  <2>4. \A u \in Task : pc'[u] # "idle" => u = t
    BY <1>3, <2>2, FindMapFound DEF NamesInv, Exclusive
  <2>5. Unique  BY DEF NamesInv
  <2>6. TodoNames(t)  BY <2>2 DEF NamesInv
  <2>7. d.name = a.name /\ \A j \in Stored : levels[j].name = d.name => j = d.id
    <3>1. CASE Named(a.name) = {} /\ d = NewLevel(t, a)
      BY <2>2, <3>1, NewLevelDoc DEF Named
    <3>2. ASSUME NEW i \in Named(a.name), d = Updated(t, a, levels[i])
          PROVE  d.name = a.name /\ \A j \in Stored : levels[j].name = d.name => j = d.id
      <4>1. i \in Stored /\ levels[i].name = a.name /\ levels[i] \in Doc /\ levels[i].id = i
        BY DEF Named, Stored
      <4>2. d.id = i /\ d.name = a.name  BY <2>2, <3>2, <4>1, UpdatedDoc
      <4> QED BY <2>5, <4>1, <4>2 DEF Unique
    <3> QED BY <2>1, <3>1, <3>2 DEF Found
  <2>8. todo'[t] = todo[t] \cup {d} /\ asked'[t] = asked[t] \ {a}  BY <2>1, <2>2
  <2>9. \A e \in todo[t] : e.name # d.name  BY <2>6, <2>7 DEF TodoNames
  <2>10. \A b \in asked'[t] : b.name # d.name  BY <2>6, <2>7, <2>8 DEF TodoNames
  <2>11. TodoNames(t)'
    <3>1. Stored' = Stored  BY <2>2 DEF Stored
    <3> QED BY <2>2, <2>6, <2>7, <2>8, <2>9, <2>10, <3>1 DEF TodoNames
  <2>12. Unique'  BY <2>2, <2>5 DEF Unique, Stored
  <2> QED BY <2>3, <2>4, <2>11, <2>12
<1>4. ASSUME NEW t \in Task, NEW d \in todo[t], SaveMap(t, d) PROVE Good
  <2>1. /\ pc[t] = "save" /\ levels' = [levels EXCEPT ![d.id] = d]
        /\ todo' = [todo EXCEPT ![t] = @ \ {d}] /\ UNCHANGED <<asked, phase>>
        /\ \A u \in Task : u # t => pc'[u] = pc[u]
    BY <1>4 DEF SaveMap
  <2>2. d \in Doc /\ d.id \in Id /\ d # NoDoc  BY NoDocAssumption DEF Doc
  <2>3. \A m \in Match : phase'[m] # "on"  BY <2>1 DEF NamesInv, Exclusive
  <2>4. \A u \in Task : pc'[u] # "idle" => u = t  BY <2>1 DEF NamesInv, Exclusive
  <2>5. Unique /\ TodoNames(t)  BY <2>1 DEF NamesInv
  <2>6. Stored' = Stored \cup {d.id}  BY <2>1, <2>2 DEF Stored
  <2>7. \A i \in Stored' : levels'[i] = IF i = d.id THEN d ELSE levels[i]
    BY <2>1, <2>2 DEF Stored
  <2>8. \A i \in Stored : levels[i].name = d.name => i = d.id  BY <2>5 DEF TodoNames
  <2>9. Unique'  BY <2>5, <2>6, <2>7, <2>8 DEF Unique
  <2>10. todo'[t] = todo[t] \ {d} /\ asked'[t] = asked[t]  BY <2>1
  <2>11. TodoNames(t)'
    <3>1. ASSUME NEW e \in todo[t], e # d, NEW j \in Stored', levels'[j].name = e.name
          PROVE  j = e.id
      <4>1. d.name # e.name  BY <2>5, <3>1 DEF TodoNames
      <4>2. j # d.id /\ j \in Stored /\ levels[j].name = e.name  BY <2>6, <2>7, <3>1, <4>1
      <4> QED BY <2>5, <4>2 DEF TodoNames
    <3> QED BY <2>5, <2>10, <3>1 DEF TodoNames
  <2> QED BY <2>3, <2>4, <2>9, <2>11
<1>5. ASSUME NEW t \in Task, Die(t) PROVE Good
  <2>1. /\ levels' = levels /\ phase' = phase /\ copy' = copy
        /\ \A u \in Task : pc'[u] # "idle" =>
             pc[u] # "idle" /\ todo'[u] = todo[u] /\ asked'[u] = asked[u]
    BY <1>5 DEF Die
  <2> QED BY <2>1, NamesStay DEF NamesInv, CopyName, Stored
<1>6. ASSUME UNCHANGED <<levels, pc, todo, asked>>,
             \A k \in Match : phase'[k] = "on" => CopyName(k)'
      PROVE  Good
  BY <1>6, NamesStay
<1>7. ASSUME NEW m \in Match, NEW i \in Id, OnLoad(m, i) PROVE Good
  <2>1. /\ \A k \in Match : phase[k] # "on"
        /\ i \in Stored
        /\ copy'[m] = [levels[i] EXCEPT !.last = m]
        /\ phase' = [phase EXCEPT ![m] = "on"]
        /\ UNCHANGED <<levels, pc, todo, asked>>
    BY <1>7 DEF OnLoad
  <2>2. levels[i] \in Doc /\ levels[i].id = i  BY <2>1 DEF Stored
  <2>3. copy'[m].name = levels[i].name /\ copy'[m].id = i  BY <2>1, <2>2, LoadedDoc
  <2>4. CopyName(m)'  BY <2>1, <2>3 DEF CopyName, NamesInv, Unique, Stored
  <2>5. \A k \in Match : phase'[k] = "on" => k = m  BY <2>1
  <2> QED BY <1>6, <2>1, <2>4, <2>5
<1>8. ASSUME NEW m \in Match, NEW n \in Nat, Do(m, n) PROVE Good
  <2>1. /\ phase[m] = "on" /\ copy' = [copy EXCEPT ![m] = Beaten(m, n)]
        /\ UNCHANGED <<levels, pc, todo, asked, phase>>
    BY <1>8 DEF Do
  <2>2. copy[m] \in Doc  BY <2>1
  <2>3. copy'[m].name = copy[m].name /\ copy'[m].id = copy[m].id  BY <2>1, <2>2, BeatenDoc
  <2>4. \A k \in Match : copy'[k].name = copy[k].name /\ copy'[k].id = copy[k].id
    BY <2>1, <2>3
  <2>5. \A k \in Match : phase'[k] = "on" => CopyName(k)'
    BY <2>1, <2>4 DEF NamesInv, CopyName, Stored
  <2> QED BY <1>6, <2>1, <2>5
<1>9. ASSUME NEW m \in Match, OnMatchEnd(m) PROVE Good
  <2>1. /\ phase[m] = "on" /\ levels' = [levels EXCEPT ![copy[m].id] = copy[m]]
        /\ phase' = [phase EXCEPT ![m] = "over"]
        /\ UNCHANGED <<copy, pc, todo, asked>>
    BY <1>9 DEF OnMatchEnd
  <2>2. copy[m] \in Doc /\ copy[m].id \in Id /\ copy[m] # NoDoc
    BY <2>1, NoDocAssumption DEF Doc
  <2>3. \A k \in Match : phase'[k] # "on"  BY <2>1 DEF NamesInv, Exclusive
  <2>4. \A u \in Task : pc'[u] = "idle"  BY <2>1 DEF NamesInv, Exclusive
  <2>5. Stored' = Stored \cup {copy[m].id}  BY <2>1, <2>2 DEF Stored
  <2>6. \A i \in Stored' : levels'[i] = IF i = copy[m].id THEN copy[m] ELSE levels[i]
    BY <2>1, <2>2 DEF Stored
  <2>7. Unique /\ CopyName(m)  BY <2>1 DEF NamesInv
  <2>8. Unique'  BY <2>5, <2>6, <2>7 DEF Unique, CopyName
  <2> QED BY <2>3, <2>4, <2>8
<1>10. ASSUME NEW m \in Match, Abandon(m) PROVE Good
  <2>1. /\ UNCHANGED <<levels, pc, todo, asked, copy>>
        /\ \A k \in Match : phase'[k] = "on" => phase[k] = "on"
    BY <1>10 DEF Abandon
  <2>2. \A k \in Match : phase'[k] = "on" => CopyName(k)'
    BY <2>1 DEF NamesInv, CopyName, Stored
  <2> QED BY <1>6, <2>1, <2>2
<1>11. CASE UNCHANGED vars
  <2>1. UNCHANGED <<levels, pc, todo, asked, copy, phase>>  BY <1>11 DEF vars
  <2>2. \A k \in Match : phase'[k] = "on" => CopyName(k)'
    BY <2>1 DEF NamesInv, CopyName, Stored
  <2> QED BY <1>6, <2>1, <2>2
<1>12. \A n \in 1..mode.record : n \in Nat  BY LevelsAssumption DEF Mode
<1> HIDE DEF Typed, TypeOfMaps, TypeOfMatches, Good
<1> QED BY <1>2, <1>3, <1>4, <1>5, <1>7, <1>8, <1>9, <1>10, <1>11, <1>12 DEF Next

LEMMA SameMode == [Next]_vars => (Calm' <=> Calm) /\ (Renames' <=> Renames)
  BY DEF Next, vars, Calm, Renames

\* Of servers that come up one after the other, while no match is on: no two
\* levels have the same name, although maps may take over each other's names,
\* add_maps looks levels up by name, and a request may die half way.
THEOREM NamesAreUnique == Spec => []LevelNamesUnique
<1> DEFINE Inv == Calm => NamesInv
<1>1. Init => Inv  BY InitNames
<1>2. Typed /\ Inv /\ [Next]_vars => Inv'  BY SameMode, NextNames
<1>3. Inv => LevelNamesUnique  BY DEF NamesInv, Unique, LevelNamesUnique
<1> QED BY <1>1, <1>2, <1>3, TypedCorrect, PTL DEF Spec

\* The levels in Mongo are sound: their records and their names.
THEOREM LevelsAreSound == Spec => []LevelsSound
<1>1. RecordsAreOfEndedMatches /\ LevelNamesUnique => LevelsSound  BY DEF LevelsSound
<1> QED BY <1>1, RecordsOfEndedMatches, NamesAreUnique, PTL

-----------------------------------------------------------------------------
(* Going forward.  If maps keep their names too, the level that a map is   *)
(* found by is the one with its id, and nothing has changed it when it is  *)
(* saved.                                                                  *)

\* A map has one name and a name one map.
CalledOnce ==
  /\ \A i \in Id : \A n, k \in called[i] : n = k
  /\ \A i, j \in Id : \A n \in called[i] : n \in called[j] => i = j

LevelForward(i) == levels[i].name \in called[i] /\ levels[i].version <= requests

TaskForward(t) ==
  /\ version[t] = requests
  /\ \A a \in asked[t] : a.name \in called[a.id]
  /\ \A d \in todo[t] : /\ d.name \in called[d.id] /\ d.version = requests
                        /\ d.id \in Stored => d.record = levels[d.id].record

CopyForward(m) == LET i == copy[m].id IN
  /\ i \in Stored
  /\ copy[m].name \in called[i]
  /\ copy[m].record >= levels[i].record
  /\ copy[m].version = levels[i].version

ForwardInv ==
  /\ NamesInv
  /\ CalledOnce
  /\ \A i \in Stored : LevelForward(i)
  /\ \A t \in Task : pc[t] # "idle" => TaskForward(t)
  /\ \A m \in Match : phase[m] = "on" => CopyForward(m)

LEMMA InitForward == Init => ForwardInv
<1> SUFFICES ASSUME Init PROVE ForwardInv  OBVIOUS
<1>1. NamesInv  BY InitNames
<1> QED BY <1>1 DEF Init, ForwardInv, CalledOnce, Stored

\* What a map is called is added to what it was called before: the same.
LEMMA NextCalled ==
  ASSUME Calm, ~Renames, Typed, ForwardInv, NEW t \in Task, NEW maps \in SUBSET Map,
         AddMaps(t, maps)
  PROVE  /\ CalledOnce'
         /\ \A i \in Id : called[i] \subseteq called'[i]
         /\ \A a \in maps : a.name \in called'[a.id]
<1>1. /\ \A a, b \in maps : a.name = b.name \/ a.id = b.id => a = b
      /\ \A a \in maps : called[a.id] \in {{}, {a.name}}
      /\ \A a \in maps : \A i \in Id : a.name \in called[i] => i = a.id
      /\ called' = [i \in Id |-> called[i] \cup {a.name : a \in {b \in maps : b.id = i}}]
  BY DEF AddMaps
<1>2. \A a \in maps : a.id \in Id  BY MapNames
<1>3. \A i \in Id : \A n : n \in called'[i] <=>
        n \in called[i] \/ \E a \in maps : a.id = i /\ n = a.name
  BY <1>1
<1>4. ASSUME NEW i \in Id, NEW n \in called'[i], NEW k \in called'[i] PROVE n = k
  <2>1. \A a \in maps : a.id = i => \A l \in called[i] : l = a.name  BY <1>1
  <2>2. CASE n \in called[i] /\ k \in called[i]  BY <2>2 DEF ForwardInv, CalledOnce
  <2>3. CASE n \notin called[i] \/ k \notin called[i]  BY <1>1, <1>3, <2>1, <2>3
  <2> QED BY <2>2, <2>3
<1>5. ASSUME NEW i \in Id, NEW j \in Id, NEW n, n \in called'[i], n \in called'[j] PROVE i = j
  <2>1. CASE n \in called[i] /\ n \in called[j]  BY <2>1 DEF ForwardInv, CalledOnce
  <2>2. CASE n \notin called[i] \/ n \notin called[j]  BY <1>1, <1>3, <1>5, <2>2
  <2> QED BY <2>1, <2>2
<1>6. CalledOnce'  BY <1>4, <1>5 DEF CalledOnce
<1> QED BY <1>2, <1>3, <1>6

\* The level that a map is found by is its own.
LEMMA FoundForward ==
  ASSUME Typed, ForwardInv, NEW t \in Task, pc[t] # "idle", NEW a \in asked[t], a \in Map,
         NEW d \in Doc, Found(t, a, d)
  PROVE  /\ d.name \in called[d.id] /\ d.version = requests
         /\ d.id \in Stored => d.record = levels[d.id].record
<1>1. TaskForward(t)  BY DEF ForwardInv
<1>2. a.name \in called[a.id] /\ version[t] = requests /\ a.id \in Id
  BY <1>1, MapNames DEF TaskForward
<1>3. CASE Named(a.name) = {} /\ d = NewLevel(t, a)
  <2>1. d.id = a.id /\ d.name = a.name /\ d.version = version[t]  BY <1>3, NewLevelDoc
  <2>2. d.id \notin Stored
    <3>1. SUFFICES ASSUME a.id \in Stored PROVE FALSE  BY <2>1
    <3>2. levels[a.id].name \in called[a.id]  BY <3>1 DEF ForwardInv, LevelForward
    <3>3. levels[a.id].name = a.name  BY <1>2, <3>2 DEF ForwardInv, CalledOnce
    <3> QED BY <1>3, <3>1, <3>3 DEF Named
  <2> QED BY <1>2, <2>1, <2>2
<1>4. ASSUME NEW i \in Named(a.name), d = Updated(t, a, levels[i])
      PROVE  /\ d.name \in called[d.id] /\ d.version = requests
             /\ d.id \in Stored => d.record = levels[d.id].record
  <2>1. i \in Stored /\ levels[i].name = a.name /\ levels[i] \in Doc /\ levels[i].id = i
    BY DEF Named, Stored, Typed, TypeOfMaps
  <2>2. d.id = i /\ d.name = a.name /\ d.record = levels[i].record /\ d.version = version[t]
    BY <1>4, <2>1, UpdatedDoc
  <2>3. a.name \in called[i]  BY <2>1 DEF ForwardInv, LevelForward
  <2> QED BY <1>2, <2>2, <2>3
<1> QED BY <1>3, <1>4 DEF Found

\* A level that is replaced becomes no older and loses no record.
Forward(i) == levels'[i].record >= levels[i].record /\ levels'[i].version >= levels[i].version

LEMMA SaveForward ==
  ASSUME Typed, ForwardInv, NEW t \in Task, NEW d \in todo[t], SaveMap(t, d)
  PROVE  /\ \A i \in Stored : Forward(i)
         /\ Stored' = Stored \cup {d.id}
         /\ \A i \in Stored' : levels'[i] = IF i = d.id THEN d ELSE levels[i]
<1>1. d \in Doc /\ d.id \in Id /\ d # NoDoc
  BY NoDocAssumption DEF Typed, TypeOfMaps, Doc
<1>2. pc[t] = "save" /\ levels' = [levels EXCEPT ![d.id] = d]  BY DEF SaveMap
<1>3. \A i \in Id : levels'[i] = IF i = d.id THEN d ELSE levels[i]
  BY <1>1, <1>2 DEF Typed, TypeOfMaps
<1>4. \A i \in Stored : levels[i] \in Doc /\ levels[i].version <= requests
  BY DEF Typed, TypeOfMaps, Stored, ForwardInv, LevelForward
<1>5. \A i \in Stored : levels[i].record \in Nat /\ levels[i].version \in Nat
  BY <1>4 DEF Doc
<1>6. d.version = requests /\ (d.id \in Stored => d.record = levels[d.id].record)
  BY <1>2 DEF ForwardInv, TaskForward
<1> QED BY <1>1, <1>3, <1>4, <1>5, <1>6 DEF Forward, Stored

LEMMA EndForward ==
  ASSUME Typed, ForwardInv, NEW m \in Match, OnMatchEnd(m)
  PROVE  /\ \A i \in Stored : Forward(i)
         /\ Stored' = Stored
         /\ \A i \in Stored : levels'[i] = IF i = copy[m].id THEN copy[m] ELSE levels[i]
<1>1. phase[m] = "on" /\ levels' = [levels EXCEPT ![copy[m].id] = copy[m]]  BY DEF OnMatchEnd
<1>2. copy[m] \in Doc /\ copy[m] # NoDoc /\ copy[m].id \in Id
  BY <1>1, NoDocAssumption DEF Typed, TypeOfMatches, Doc
<1>3. \A i \in Id : levels'[i] = IF i = copy[m].id THEN copy[m] ELSE levels[i]
  BY <1>1, <1>2 DEF Typed, TypeOfMaps
<1>4. CopyForward(m)  BY <1>1 DEF ForwardInv
<1>5. \A i \in Stored : levels[i].record \in Nat /\ levels[i].version \in Nat
  BY DEF Typed, TypeOfMaps, Stored, Doc
<1> QED BY <1>2, <1>3, <1>4, <1>5 DEF CopyForward, Forward, Stored

LEMMA NextForward == Calm /\ ~Renames /\ Typed /\ ForwardInv /\ [Next]_vars => ForwardInv'
<1> SUFFICES ASSUME Calm, ~Renames, Typed, ForwardInv, [Next]_vars PROVE ForwardInv'  OBVIOUS
<1>0. NamesInv /\ NamesInv'  BY NextNames DEF ForwardInv
<1> DEFINE Good == /\ CalledOnce'
                   /\ \A i \in Stored' : LevelForward(i)'
                   /\ \A u \in Task : pc'[u] # "idle" => TaskForward(u)'
                   /\ \A k \in Match : phase'[k] = "on" => CopyForward(k)'
<1>1. SUFFICES Good  BY <1>0 DEF ForwardInv
<1> USE DEF Typed, TypeOfMaps, TypeOfMatches
<1>2. ASSUME NEW t \in Task, NEW maps \in SUBSET Map \ {{}}, AddMaps(t, maps) PROVE Good
  <2>1. /\ \A u \in Task : pc[u] = "idle"
        /\ \A m \in Match : phase[m] # "on"
        /\ requests' = requests + 1
        /\ version' = [version EXCEPT ![t] = requests + 1]
        /\ pc' = [pc EXCEPT ![t] = "find"]
        /\ asked' = [asked EXCEPT ![t] = maps]
        /\ UNCHANGED <<levels, todo, phase>>
    BY <1>2 DEF AddMaps
  <2>2. /\ CalledOnce'
        /\ \A i \in Id : called[i] \subseteq called'[i]
        /\ \A a \in maps : a.name \in called'[a.id]
    BY <1>2, NextCalled
  <2>3. \A u \in Task : pc'[u] # "idle" => u = t  BY <2>1
  <2>4. todo'[t] = {} /\ asked'[t] = maps /\ version'[t] = requests'  BY <2>1
  <2>5. TaskForward(t)'  BY <2>2, <2>4 DEF TaskForward
  <2>6. ASSUME NEW i \in Stored' PROVE LevelForward(i)'
    <3>1. i \in Stored /\ levels'[i] = levels[i]  BY <2>1, <2>6 DEF Stored
    <3>2. levels[i] \in Doc /\ i \in Id  BY <3>1 DEF Stored
    <3>3. levels[i].version \in Nat  BY <3>2 DEF Doc
    <3> QED BY <2>1, <2>2, <3>1, <3>2, <3>3 DEF LevelForward, ForwardInv
  <2> QED BY <2>1, <2>2, <2>3, <2>5, <2>6
<1>3. ASSUME NEW t \in Task, NEW a \in asked[t], FindMap(t, a) PROVE Good
  <2>1. PICK d \in Doc : Found(t, a, d) /\ todo' = [todo EXCEPT ![t] = @ \cup {d}]
    BY <1>3, FindMapFound
  <2>2. /\ a \in Map /\ pc[t] = "find"
        /\ asked' = [asked EXCEPT ![t] = @ \ {a}]
        /\ UNCHANGED <<levels, phase, version, called, requests>>
    BY <1>3, FindMapFound
  <2>3. \A m \in Match : phase'[m] # "on"  BY <2>2, <1>0 DEF NamesInv, Exclusive
  <2>4. \A u \in Task : pc'[u] # "idle" => u = t
    BY <1>3, <2>2, <1>0, FindMapFound DEF NamesInv, Exclusive
  <2>5. /\ d.name \in called[d.id] /\ d.version = requests
        /\ d.id \in Stored => d.record = levels[d.id].record
    BY <2>1, <2>2, FoundForward
  <2>6. todo'[t] = todo[t] \cup {d} /\ asked'[t] = asked[t] \ {a}  BY <2>1, <2>2
  <2>7. TaskForward(t)  BY <2>2 DEF ForwardInv
  <2>8. Stored' = Stored  BY <2>2 DEF Stored
  <2>9. TaskForward(t)'  BY <2>2, <2>5, <2>6, <2>7, <2>8 DEF TaskForward
  <2>10. CalledOnce' /\ \A i \in Stored' : LevelForward(i)'
    BY <2>2, <2>8 DEF ForwardInv, CalledOnce, LevelForward
  <2> QED BY <2>3, <2>4, <2>9, <2>10
<1>4. ASSUME NEW t \in Task, NEW d \in todo[t], SaveMap(t, d) PROVE Good
  <2>1. /\ pc[t] = "save" /\ todo' = [todo EXCEPT ![t] = @ \ {d}]
        /\ UNCHANGED <<asked, phase, version, called, requests>>
        /\ \A u \in Task : u # t => pc'[u] = pc[u]
    BY <1>4 DEF SaveMap
  <2>2. \A m \in Match : phase'[m] # "on"  BY <2>1, <1>0 DEF NamesInv, Exclusive
  <2>3. \A u \in Task : pc'[u] # "idle" => u = t  BY <2>1, <1>0 DEF NamesInv, Exclusive
  <2>4. TaskForward(t) /\ TodoNames(t)  BY <2>1, <1>0 DEF ForwardInv, NamesInv
  <2>5. /\ Stored' = Stored \cup {d.id}
        /\ \A i \in Stored' : levels'[i] = IF i = d.id THEN d ELSE levels[i]
    BY <1>4, SaveForward
  <2>6. todo'[t] = todo[t] \ {d} /\ asked'[t] = asked[t]  BY <2>1
  <2>7. d.name \in called[d.id] /\ d.version = requests /\ d.id \in Id /\ requests \in Nat
    BY <2>4 DEF TaskForward, Doc
  <2>8. \A i \in Stored' : LevelForward(i)'
    BY <2>1, <2>5, <2>7 DEF ForwardInv, LevelForward
  <2>9. \A e \in todo'[t] : e.id # d.id
    <3>1. \A e \in todo[t] : e.name \in called[e.id] /\ (e.name = d.name => e = d)
      BY <2>4 DEF TaskForward, TodoNames
    <3> QED BY <2>6, <2>7, <3>1 DEF ForwardInv, CalledOnce
  <2>10. TaskForward(t)'
    BY <2>1, <2>4, <2>5, <2>6, <2>9 DEF TaskForward
  <2>11. CalledOnce'  BY <2>1 DEF ForwardInv, CalledOnce
  <2> QED BY <2>2, <2>3, <2>8, <2>10, <2>11
<1>5. ASSUME UNCHANGED <<levels, called, requests, version>>,
             \A u \in Task : pc'[u] # "idle" =>
               pc[u] # "idle" /\ asked'[u] = asked[u] /\ todo'[u] = todo[u],
             \A k \in Match : phase'[k] = "on" => CopyForward(k)'
      PROVE  Good
  <2>1. Stored' = Stored  BY <1>5 DEF Stored
  <2>2. CalledOnce' /\ \A i \in Stored' : LevelForward(i)'
    BY <1>5, <2>1 DEF ForwardInv, CalledOnce, LevelForward
  <2>3. \A u \in Task : pc'[u] # "idle" => TaskForward(u)'
    BY <1>5, <2>1 DEF ForwardInv, TaskForward
  <2> QED BY <1>5, <2>2, <2>3
<1>6. ASSUME UNCHANGED <<levels, called>>, NEW k \in Match, phase'[k] = "on" => phase[k] = "on",
             copy'[k] = copy[k]
      PROVE  phase'[k] = "on" => CopyForward(k)'
  BY <1>6 DEF ForwardInv, CopyForward, Stored
<1>7. ASSUME NEW t \in Task, Die(t) PROVE Good
  <2>1. UNCHANGED <<levels, called, requests, version, copy, phase>>  BY <1>7 DEF Die
  <2>2. \A u \in Task : pc'[u] # "idle" =>
          pc[u] # "idle" /\ asked'[u] = asked[u] /\ todo'[u] = todo[u]
    BY <1>7 DEF Die
  <2> QED BY <2>1, <2>2, <1>5, <1>6
<1>8. ASSUME NEW m \in Match, NEW i \in Id, OnLoad(m, i) PROVE Good
  <2>1. /\ i \in Stored
        /\ copy' = [copy EXCEPT ![m] = [levels[i] EXCEPT !.last = m]]
        /\ phase' = [phase EXCEPT ![m] = "on"]
        /\ UNCHANGED <<levels, called, requests, version, pc, asked, todo>>
    BY <1>8 DEF OnLoad
  <2>2. levels[i] \in Doc /\ levels[i].id = i /\ LevelForward(i)
    BY <2>1 DEF Stored, ForwardInv
  <2>3. /\ copy'[m].name = levels[i].name /\ copy'[m].id = i
        /\ copy'[m].record = levels[i].record /\ copy'[m].version = levels[i].version
        /\ levels[i].record \in Nat
    BY <2>1, <2>2, LoadedDoc DEF Doc
  <2>4. CopyForward(m)'  BY <2>1, <2>2, <2>3 DEF CopyForward, LevelForward, Stored
  <2>5. \A k \in Match : k # m => copy'[k] = copy[k] /\ phase'[k] = phase[k]  BY <2>1
  <2>6. \A k \in Match : phase'[k] = "on" => CopyForward(k)'  BY <2>1, <2>4, <2>5, <1>6
  <2> QED BY <2>1, <2>6, <1>5
<1>9. ASSUME NEW m \in Match, NEW n \in Nat, Do(m, n) PROVE Good
  <2>1. /\ phase[m] = "on" /\ copy' = [copy EXCEPT ![m] = Beaten(m, n)]
        /\ UNCHANGED <<levels, called, requests, version, pc, asked, todo, phase>>
    BY <1>9 DEF Do
  <2>2. copy[m] \in Doc /\ CopyForward(m)  BY <2>1 DEF ForwardInv
  <2>3. /\ copy'[m].name = copy[m].name /\ copy'[m].id = copy[m].id
        /\ copy'[m].version = copy[m].version
        /\ copy'[m].record = IF n > copy[m].record THEN n ELSE copy[m].record
    BY <2>1, <2>2, BeatenDoc
  <2>4. copy[m].record \in Nat  BY <2>2 DEF Doc
  <2>5. levels[copy[m].id].record \in Nat  BY <2>2 DEF CopyForward, Stored, Doc
  <2>6. CopyForward(m)'
    BY <2>1, <2>2, <2>3, <2>4, <2>5 DEF CopyForward, Stored
  <2>7. \A k \in Match : k # m => copy'[k] = copy[k]  BY <2>1
  <2>8. \A k \in Match : phase'[k] = "on" => CopyForward(k)'  BY <2>1, <2>6, <2>7, <1>6
  <2> QED BY <2>1, <2>8, <1>5
<1>10. ASSUME NEW m \in Match, OnMatchEnd(m) PROVE Good
  <2>1. /\ phase[m] = "on"
        /\ phase' = [phase EXCEPT ![m] = "over"]
        /\ UNCHANGED <<copy, called, requests, version, pc, asked, todo>>
    BY <1>10 DEF OnMatchEnd
  <2>2. \A k \in Match : phase'[k] # "on"  BY <2>1, <1>0 DEF NamesInv, Exclusive
  <2>3. \A u \in Task : pc'[u] = "idle"  BY <2>1, <1>0 DEF NamesInv, Exclusive
  <2>4. /\ Stored' = Stored
        /\ \A i \in Stored : levels'[i] = IF i = copy[m].id THEN copy[m] ELSE levels[i]
    BY <1>10, EndForward
  <2>5. CopyForward(m) /\ \A i \in Stored : LevelForward(i)  BY <2>1 DEF ForwardInv
  <2>6. \A i \in Stored' : LevelForward(i)'
    BY <2>1, <2>4, <2>5 DEF LevelForward, CopyForward
  <2>7. CalledOnce'  BY <2>1 DEF ForwardInv, CalledOnce
  <2> QED BY <2>2, <2>3, <2>6, <2>7
<1>11. ASSUME NEW m \in Match, Abandon(m) PROVE Good
  <2>1. /\ UNCHANGED <<levels, called, requests, version, pc, asked, todo, copy>>
        /\ \A k \in Match : phase'[k] = "on" => phase[k] = "on"
    BY <1>11 DEF Abandon
  <2> QED BY <2>1, <1>5, <1>6
<1>12. CASE UNCHANGED vars  BY <1>5, <1>6, <1>12 DEF vars
<1>13. \A n \in 1..mode.record : n \in Nat  BY LevelsAssumption DEF Mode
<1> HIDE DEF Typed, TypeOfMaps, TypeOfMatches, Good
<1> QED BY <1>2, <1>3, <1>4, <1>7, <1>8, <1>9, <1>10, <1>11, <1>12, <1>13 DEF Next

\* A step of such a behaviour
LEMMA ForwardStep ==
  ASSUME Typed, ForwardInv, [Next]_vars
  PROVE  [\A i \in Stored : Forward(i)]_levels
<1>1. \/ \E t \in Task : \E d \in todo[t] : SaveMap(t, d)
      \/ \E m \in Match : OnMatchEnd(m)
      \/ levels' = levels
  BY DEF Next, vars, AddMaps, FindMap, Die, OnLoad, Do, Abandon
<1> QED BY <1>1, SaveForward, EndForward

\* Of servers that come up one after the other, while no match is on, with maps
\* that keep their names: add_maps and the ends of matches, which both write
\* whole levels, never take a record back, and never bring an older version.
THEOREM LevelsOnlyMoveForward == Spec => LevelsMoveForward
<1> DEFINE Inv == Calm /\ ~Renames => ForwardInv
<1>1. Init => Inv  BY InitForward
<1>2. Typed /\ Inv /\ [Next]_vars => Inv'  BY SameMode, NextForward
<1>3. Typed /\ Inv /\ [Next]_vars =>
        [Calm /\ ~Renames =>
           \A i \in Stored : /\ levels'[i].record >= levels[i].record
                             /\ levels'[i].version >= levels[i].version]_levels
  BY ForwardStep DEF Forward
<1> HIDE DEF Inv
<1> QED BY <1>1, <1>2, <1>3, TypedCorrect, PTL DEF Spec, LevelsMoveForward
=============================================================================

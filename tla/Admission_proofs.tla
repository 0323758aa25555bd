--------------------------- MODULE Admission_proofs ---------------------------
(***************************************************************************)
(* The types of Admission; that bans hold, whatever staff do while prelogin *)
(* is asking; that whoever an address is of is a player; and, of requests  *)
(* that follow each other, that whoever has an address is found by it, and *)
(* that identities and documents match if players are edited by name.      *)
(***************************************************************************)
EXTENDS Admission, FiniteSetTheorems, TLAPS

\* Where a request is at work on a player, and where it has found out whether
\* the player is banned, if it is a prelogin.
Asking == {"find", "punishments", "address", "save", "cache", "identity", "list", "answer"}
Saving == {"save", "cache", "identity", "list", "answer"}

\* Is it a prelogin?
Comes(t) == ip[t] # NoIp

-----------------------------------------------------------------------------
(* Types.                                                                  *)

TypeOfTasks ==
  /\ pc \in [Task -> Asking \cup {"idle", "revert"}]
  /\ edit \in [Task -> Edit]
  /\ who \in [Task -> Player \cup {NoPlayer}]
  /\ ip \in [Task -> Ip \cup {NoIp}]
  /\ copy \in [Task -> SUBSET Ip]
  /\ newIp \in [Task -> BOOLEAN]
  /\ list \in [Task -> SUBSET Player]
  /\ banned \in [Task -> BOOLEAN]
  /\ pun \in [Task -> Punishment \cup {NoPunishment}]
  /\ \A t \in Task : /\ pc[t] \in Asking => who[t] \in Player
                     /\ pc[t] \in Asking \ {"save", "cache"} => ip[t] \in Ip
                     /\ pc[t] \in {"idle", "revert"} => ip[t] = NoIp
                     /\ Comes(t) \/ pc[t] \in {"idle", "revert"} => edit[t] = Whole
                     /\ pc[t] = "revert" => pun[t] \in Punishment
                     /\ pc[t] \in Saving => copy[t] # {}
                     /\ Comes(t) /\ pc[t] # "find" => ip[t] \in copy[t]
                     /\ pc[t] = "cache" => edit[t].to \in Key

Arrival == [at : Nat, known : BOOLEAN, there : SUBSET Nat, lifted : SUBSET Nat]

TypeOfStore ==
  /\ mode \in Modes
  /\ now \in Nat /\ prelogins \in Nat /\ edits \in Nat
  /\ players \in [Player -> SUBSET Ip]
  /\ redis \in [Player -> [Key -> SUBSET Ip]]
  /\ identity \in [Ip -> SUBSET Player]
  /\ arrival \in [Task -> Arrival]

\* The documents of one punishment: only its reversion may differ.
Same(b, c) == /\ b.n = c.n /\ b.kind = c.kind /\ b.target = c.target /\ b.ips = c.ips
              /\ b.issuedAt = c.issuedAt /\ b.length = c.length

\* Punishments are numbered as they are issued, and whoever reverts one has
\* read it.
Numbered ==
  /\ puns \subseteq Punishment
  /\ IsFiniteSet(puns)
  /\ \A b \in puns : b.n < Cardinality(puns)
  /\ \A b, c \in puns : b.n = c.n => b = c
  /\ \A t \in Task : pc[t] = "revert" =>
       pun[t].revertedAt # -1 /\ \E b \in puns : Same(b, pun[t])

Typed == TypeOfTasks /\ TypeOfStore /\ Numbered

LEMMA TypedTypeOK == Typed => TypeOK
<1> SUFFICES ASSUME Typed PROVE TypeOK  OBVIOUS
<1> USE DEF Typed, TypeOfTasks
<1>1. ASSUME NEW t \in Task
      PROVE  /\ pc[t] = "revert" => pun[t] \in Punishment
             /\ pc[t] \notin {"idle", "revert"} => who[t] \in Player
             /\ pc[t] \notin {"idle", "revert", "save", "cache"} => ip[t] \in Ip
             /\ pc[t] \in {"save", "cache"} =>
                  ip[t] \in copy[t] \/ (ip[t] = NoIp /\ copy[t] # {})
             /\ pc[t] \in {"identity", "list", "answer"} => ip[t] \in copy[t]
             /\ pc[t] = "cache" => edit[t].to \in Key
  BY AdmissionAssumption DEF Asking, Saving, Comes
<1> QED BY <1>1 DEF TypeOfStore, Numbered, TypeOK, Asking

\* Whoever prelogin is about comes from an address.
LEMMA ComesType ==
  ASSUME TypeOfTasks, NEW t \in Task
  PROVE  /\ Comes(t) <=> ip[t] \in Ip
         /\ Comes(t) => pc[t] \in Asking /\ who[t] \in Player
         /\ pc[t] \in Asking \ {"save", "cache"} => Comes(t)
  BY AdmissionAssumption DEF TypeOfTasks, Comes, Asking

LEMMA ModeFacts == ASSUME Typed
                   PROVE  mode.players \subseteq Player /\ mode.ips \subseteq Ip
  BY AdmissionAssumption DEF Typed, TypeOfStore, Mode

LEMMA CountType == ASSUME Numbered PROVE Cardinality(puns) \in Nat
  BY FS_CardinalityType DEF Numbered

LEMMA InitTyped == Init => Typed
<1> SUFFICES ASSUME Init PROVE Typed  OBVIOUS
<1>1. TypeOfTasks  BY DEF Init, TypeOfTasks, Asking, Saving, Comes, Edit, Whole, Key
<1>2. TypeOfStore  BY DEF Init, TypeOfStore, Arrival
<1>3. Numbered  BY FS_EmptySet DEF Init, Numbered
<1> QED BY <1>1, <1>2, <1>3 DEF Typed

\* The tasks that are not at work stay as they are.
LEMMA OthersSame ==
  ASSUME Typed, NEW t \in Task, Step(t), NEW u \in Task, u # t
  PROVE  /\ pc'[u] = pc[u] /\ who'[u] = who[u] /\ ip'[u] = ip[u] /\ copy'[u] = copy[u]
         /\ newIp'[u] = newIp[u] /\ list'[u] = list[u] /\ banned'[u] = banned[u]
         /\ pun'[u] = pun[u] /\ arrival'[u] = arrival[u] /\ edit'[u] = edit[u]
<1> USE DEF Typed, TypeOfTasks, TypeOfStore
<1> DEFINE Kept == /\ pc'[u] = pc[u] /\ who'[u] = who[u] /\ ip'[u] = ip[u]
                   /\ copy'[u] = copy[u] /\ newIp'[u] = newIp[u] /\ list'[u] = list[u]
                   /\ banned'[u] = banned[u] /\ pun'[u] = pun[u]
                   /\ arrival'[u] = arrival[u] /\ edit'[u] = edit[u]
<1> SUFFICES Kept  OBVIOUS
<1>1. ASSUME NEW p \in mode.players, NEW x \in mode.ips, Prelogin(t, p, x) PROVE Kept
  BY <1>1 DEF Prelogin, Goto
<1>2. CASE FindPlayer(t)  BY <1>2 DEF FindPlayer, Goto
<1>3. CASE FindPunishments(t)  BY <1>3 DEF FindPunishments, Goto
<1>4. CASE FindIpPunishments(t)  BY <1>4 DEF FindIpPunishments, Goto
<1>5. CASE SavePlayer(t)  BY <1>5 DEF SavePlayer, Forget, Goto
<1>6. CASE ReadIdentity(t)  BY <1>6 DEF ReadIdentity, Goto
<1>7. CASE SaveIdentity(t)  BY <1>7 DEF SaveIdentity, Goto
<1>8. CASE Answer(t)  BY <1>8 DEF Answer, Forget, Goto
<1>9. CASE FindPunishment(t)  BY <1>9 DEF FindPunishment, Goto
<1>10. CASE SavePunishment(t)  BY <1>10 DEF SavePunishment, Forget, Goto
<1>11. CASE Die(t)  BY <1>11 DEF Die, Forget, Goto
<1>12. CASE CachePlayer(t)  BY <1>12 DEF CachePlayer, Forget, Goto
<1>13. ASSUME NEW p \in mode.players, NEW e \in Edits, FindDocument(t, p, e) PROVE Kept
  BY <1>13 DEF FindDocument, Goto
<1> HIDE DEF Kept
<1> QED BY <1>1, <1>2, <1>3, <1>4, <1>5, <1>6, <1>7, <1>8, <1>9, <1>10, <1>11, <1>12, <1>13
        DEF Step

\* A request that edits a player is one of those that Edit describes.
LEMMA EditsType ==
  ASSUME Typed, NEW e \in Edits
  PROVE  /\ e \in Edit
         /\ ~e.saves => e.to \in Key
         /\ mode.keys \subseteq {"name"} =>
              e.from \in {"none", "name"} /\ e.to \in {"none", "name"}
<1>1. mode.keys \subseteq Key  BY AdmissionAssumption DEF Typed, TypeOfStore, Mode
<1> DEFINE Good == /\ e \in Edit /\ (~e.saves => e.to \in Key)
                   /\ mode.keys \subseteq {"name"} =>
                        e.from \in {"none", "name"} /\ e.to \in {"none", "name"}
<1>2. CASE e = InMatch  BY <1>2 DEF InMatch, Edit, Key
<1>3. CASE e = AtStartup  BY <1>3 DEF AtStartup, Edit, Key
<1>4. CASE e = Whole  BY <1>4 DEF Whole, Edit, Key
<1>5. CASE e = Refresh  BY <1>5 DEF Refresh, Edit, Key
<1>6. ASSUME NEW k \in mode.keys, e = ByKey(k) PROVE Good
  <2>1. e.from = k /\ e.to = k /\ e.saves /\ k \in Key  BY <1>1, <1>6 DEF ByKey
  <2>2. e \in Edit  BY <1>6, <2>1 DEF ByKey, Edit
  <2> QED BY <2>1, <2>2
<1>7. ASSUME NEW k \in mode.keys, e = ByName(k) PROVE Good
  <2>1. e.from = k /\ e.to = "name" /\ e.saves /\ k \in Key  BY <1>1, <1>7 DEF ByName
  <2>2. e \in Edit  BY <1>7, <2>1 DEF ByName, Edit, Key
  <2> QED BY <2>1, <2>2 DEF Key
<1> QED BY <1>2, <1>3, <1>4, <1>5, <1>6, <1>7 DEF Edits

\* What Cache::get finds is what one of the stores has.
LEMMA FindDocumentFacts ==
  ASSUME Typed, NEW t \in Task, NEW p \in mode.players, NEW e \in Edits, FindDocument(t, p, e)
  PROVE  /\ p \in Player /\ who'[t] = p /\ edit'[t] = e
         /\ pc[t] = "idle" /\ ip[t] = NoIp
         /\ pc'[t] = "save" \/ (pc'[t] = "cache" /\ e.to \in Key)
         /\ copy'[t] # {} /\ copy'[t] \subseteq Ip
         /\ copy'[t] = players[p] \/ \E k \in Key : copy'[t] = redis[p][k]
         /\ ~mode.mayFail => copy'[t] = Found(p, e.from)
         /\ UNCHANGED <<now, store, prelogins, ip, newIp, list, banned, pun, arrival>>
<1>1. p \in Player /\ e \in Edit /\ (~e.saves => e.to \in Key)
  BY ModeFacts, EditsType
<1>2. PICK found \in {Found(p, e.from), Found(p, IF mode.mayFail THEN "none" ELSE e.from)} :
         found # {} /\ copy' = [copy EXCEPT ![t] = found]
  BY DEF FindDocument
<1>3. copy'[t] = found  BY <1>2 DEF Typed, TypeOfTasks
<1>4. found = Found(p, e.from) \/ found = Found(p, "none")  BY <1>2
<1>5. found = players[p] \/ \E k \in Key : found = redis[p][k]
  BY <1>1, <1>4 DEF Found, Edit
<1>6. found \subseteq Ip  BY <1>1, <1>5 DEF Typed, TypeOfStore
<1>7. ~mode.mayFail => found = Found(p, e.from)  BY <1>2
<1>8. /\ who'[t] = p /\ edit'[t] = e
      /\ pc'[t] = IF e.saves THEN "save" ELSE "cache"
      /\ pc[t] = "idle" /\ ip[t] = NoIp
  BY DEF FindDocument, May, Goto, Typed, TypeOfTasks
<1> QED BY <1>1, <1>2, <1>3, <1>5, <1>6, <1>7, <1>8 DEF FindDocument

LEMMA ForgetType ==
  ASSUME Typed, NEW t \in Task, Forget(t)
  PROVE  TypeOfTasks' /\ pc'[t] = "idle"
  BY DEF Typed, TypeOfTasks, Forget, Goto, Asking, Saving, Comes, Edit, Whole, Key

\* How a request goes on when it has saved the player, and when it has cached it
LEMMA SavePlayerFacts ==
  ASSUME Typed, NEW t \in Task, SavePlayer(t)
  PROVE  /\ pc[t] = "save" /\ who[t] \in Player /\ copy[t] # {} /\ copy[t] \subseteq Ip
         /\ players' = [players EXCEPT ![who[t]] = copy[t]]
         /\ \/ edit[t].to = "none" /\ ip[t] = NoIp /\ Forget(t)
            \/ /\ edit[t].to \in Key /\ pc'[t] = "cache"
               /\ UNCHANGED <<edit, who, ip, copy, newIp, list, banned, pun>>
         /\ UNCHANGED <<now, redis, identity, puns, sent, arrival>>
<1> USE DEF Typed, TypeOfTasks
<1>1. pc[t] = "save" /\ edit[t] \in Edit  BY DEF SavePlayer
<1>2. edit[t].to = "none" => ip[t] = NoIp  BY DEF Comes, Whole
<1>3. edit[t].to # "none" => edit[t].to \in Key  BY <1>1 DEF Edit
<1>4. edit[t].to # "none" => pc'[t] = "cache"  BY DEF SavePlayer, Goto
<1> QED BY <1>1, <1>2, <1>3, <1>4 DEF SavePlayer, Asking, Saving

LEMMA CachePlayerFacts ==
  ASSUME Typed, NEW t \in Task, CachePlayer(t)
  PROVE  /\ pc[t] = "cache" /\ who[t] \in Player /\ copy[t] # {} /\ copy[t] \subseteq Ip
         /\ edit[t].to \in Key
         /\ redis' = [redis EXCEPT ![who[t]][edit[t].to] = copy[t]]
              \/ (mode.mayFail /\ redis' = redis)
         /\ \/ ip[t] = NoIp /\ Forget(t)
            \/ /\ Comes(t) /\ pc'[t] = IF newIp[t] THEN "identity" ELSE "answer"
               /\ UNCHANGED <<edit, who, ip, copy, newIp, list, banned, pun>>
         /\ UNCHANGED <<now, players, identity, puns, sent, arrival>>
<1>1. ip[t] # NoIp => pc'[t] = IF newIp[t] THEN "identity" ELSE "answer"
  BY DEF CachePlayer, Goto, Typed, TypeOfTasks
<1> QED BY <1>1 DEF CachePlayer, Cached, Typed, TypeOfTasks, Asking, Saving, Comes

LEMMA NextTypeOfTasks == ASSUME Typed, NEW t \in Task, Step(t) PROVE TypeOfTasks'
<1> USE DEF Typed, TypeOfTasks, Asking, Saving, Comes
<1>1. ASSUME NEW p \in mode.players, NEW x \in mode.ips, Prelogin(t, p, x)
      PROVE  TypeOfTasks'
  <2>1. p \in Player /\ x \in Ip /\ pc[t] = "idle" /\ edit[t] = Whole
    BY <1>1, ModeFacts DEF Prelogin, May
  <2> QED BY <1>1, <2>1 DEF Prelogin, Goto
<1>2. CASE FindPlayer(t)
  <2>1. who[t] \in Player /\ ip[t] \in Ip  BY <1>2 DEF FindPlayer
  <2>2. players[who[t]] \cup {ip[t]} \in SUBSET Ip  BY <2>1 DEF TypeOfStore
  <2> QED BY <1>2, <2>1, <2>2 DEF FindPlayer, Goto
<1>3. CASE FindPunishments(t)
  <2>1. pc[t] = "punishments" /\ ip[t] # NoIp /\ ip[t] \in copy[t]
    BY <1>3, ComesType DEF FindPunishments
  <2>2. pc' = [pc EXCEPT ![t] = "save"] \/ pc' = [pc EXCEPT ![t] = "address"]
    BY <1>3 DEF FindPunishments, Goto
  <2>3. banned' \in [Task -> BOOLEAN]  BY <1>3 DEF FindPunishments
  <2> QED BY <1>3, <2>1, <2>2, <2>3 DEF FindPunishments
<1>4. CASE FindIpPunishments(t)
  <2>1. pc[t] = "address" /\ ip[t] # NoIp /\ ip[t] \in copy[t]
    BY <1>4, ComesType DEF FindIpPunishments
  <2> QED BY <1>4, <2>1 DEF FindIpPunishments, Goto
<1>5. CASE SavePlayer(t) /\ ~Forget(t)
  <2>1. pc[t] = "save" /\ edit[t].to \in Key  BY <1>5, SavePlayerFacts
  <2>2. pc' = [pc EXCEPT ![t] = "cache"]  BY <1>5 DEF SavePlayer, Goto
  <2> QED BY <1>5, <2>1, <2>2, SavePlayerFacts
<1>6. CASE ReadIdentity(t)
  <2>1. who[t] \in Player /\ ip[t] \in Ip  BY <1>6 DEF ReadIdentity
  <2>2. identity[ip[t]] \cup {who[t]} \in SUBSET Player  BY <2>1 DEF TypeOfStore
  <2> QED BY <1>6, <2>1, <2>2 DEF ReadIdentity, Goto
<1>7. CASE SaveIdentity(t)  BY <1>7 DEF SaveIdentity, Goto
<1>8. Answer(t) \/ SavePunishment(t) \/ Die(t) => Forget(t)
  BY DEF Answer, SavePunishment, Die
<1>9. CASE FindPunishment(t)
  <2>1. PICK b \in puns : pun' = [pun EXCEPT ![t] = [b EXCEPT !.revertedAt = now]]
    BY <1>9 DEF FindPunishment
  <2>2. b \in Punishment /\ now \in Nat  BY <2>1 DEF Numbered, TypeOfStore
  <2>2a. [b EXCEPT !.revertedAt = now] \in Punishment
    <3> HIDE DEF Typed, TypeOfTasks
    <3> QED BY <2>2 DEF Punishment
  <2>3. pc[t] = "idle"  BY <1>9 DEF FindPunishment, May
  <2> QED BY <1>9, <2>1, <2>2a, <2>3 DEF FindPunishment, Goto
<1>10. CASE CachePlayer(t) /\ ~Forget(t)
  BY <1>10, CachePlayerFacts, ComesType DEF CachePlayer, Goto
<1>11. ASSUME NEW p \in mode.players, NEW e \in Edits, FindDocument(t, p, e)
       PROVE  TypeOfTasks'
  <2>1. /\ p \in Player /\ e \in Edit /\ pc[t] = "idle" /\ ip[t] = NoIp
        /\ copy'[t] # {} /\ copy'[t] \subseteq Ip
        /\ pc'[t] = "save" \/ (pc'[t] = "cache" /\ e.to \in Key)
    BY <1>11, FindDocumentFacts, EditsType
  <2>2. PICK found : copy' = [copy EXCEPT ![t] = found]  BY <1>11 DEF FindDocument
  <2>3. copy' \in [Task -> SUBSET Ip]  BY <2>1, <2>2
  <2> QED BY <1>11, <2>1, <2>2, <2>3 DEF FindDocument, Goto
<1> QED BY <1>1, <1>2, <1>3, <1>4, <1>5, <1>6, <1>7, <1>8, <1>9, <1>10, <1>11, ForgetType
        DEF Step

LEMMA NextTypeOfStore == ASSUME Typed, [Next]_vars PROVE TypeOfStore'
<1> USE DEF Typed, TypeOfStore
<1>0. mode' = mode  BY DEF Next, vars
<1>1. ASSUME NEW t \in Task, NEW p \in mode.players, NEW x \in mode.ips, Prelogin(t, p, x)
      PROVE  TypeOfStore'
  <2> DEFINE a == [at |-> now, known |-> Known(p), there |-> {b.n : b \in puns},
                   lifted |-> {b.n : b \in {c \in puns : c.revertedAt # -1}}]
  <2>1. {b.n : b \in puns} \subseteq Nat  BY DEF Numbered, Punishment
  <2>2. {b.n : b \in {c \in puns : c.revertedAt # -1}} \subseteq Nat  BY <2>1
  <2>3. Known(p) \in BOOLEAN  BY DEF Known
  <2>4. a \in Arrival  BY <2>1, <2>2, <2>3 DEF Arrival
  <2>5. arrival' = [arrival EXCEPT ![t] = a]  BY <1>1 DEF Prelogin
  <2>6. arrival' \in [Task -> Arrival]
    <3> HIDE DEF a
    <3> QED BY <2>4, <2>5
  <2> QED BY <1>0, <1>1, <2>6 DEF Prelogin, store
<1>2. ASSUME NEW t \in Task, SavePlayer(t) PROVE TypeOfStore'
  <2>1. copy[t] \in SUBSET Ip  BY <1>2 DEF TypeOfTasks
  <2> QED BY <1>0, <1>2, <2>1 DEF SavePlayer, sent
<1>2a. ASSUME NEW t \in Task, CachePlayer(t) PROVE TypeOfStore'
  <2>1. /\ who[t] \in Player /\ copy[t] \in SUBSET Ip /\ edit[t].to \in Key
        /\ redis' = [redis EXCEPT ![who[t]][edit[t].to] = copy[t]] \/ redis' = redis
    BY <1>2a, CachePlayerFacts
  <2>2. redis' \in [Player -> [Key -> SUBSET Ip]]
    <3>1. [redis[who[t]] EXCEPT ![edit[t].to] = copy[t]] \in [Key -> SUBSET Ip]  BY <2>1
    <3> QED BY <2>1, <3>1
  <2> QED BY <1>0, <1>2a, <2>2 DEF CachePlayer, sent
<1>2b. ASSUME NEW t \in Task, NEW p \in mode.players, NEW e \in Edits, FindDocument(t, p, e)
       PROVE  TypeOfStore'
  BY <1>0, <1>2b DEF FindDocument, store
<1>3. ASSUME NEW t \in Task, SaveIdentity(t) PROVE TypeOfStore'
  <2>1. list[t] \in SUBSET Player  BY <1>3 DEF TypeOfTasks
  <2> QED BY <1>0, <1>3, <2>1 DEF SaveIdentity, sent
<1>4. CASE Tick  BY <1>0, <1>4 DEF Tick, store, sent
<1>5. ASSUME NEW kind, NEW p, NEW xs, NEW length, Issue(kind, p, xs, length)
      PROVE  TypeOfStore'
  BY <1>0, <1>5 DEF Issue, sent
<1>6. ASSUME NEW t \in Task,
             FindPlayer(t) \/ FindPunishments(t) \/ FindIpPunishments(t) \/ ReadIdentity(t)
               \/ Answer(t) \/ FindPunishment(t) \/ SavePunishment(t) \/ Die(t)
      PROVE  TypeOfStore'
  BY <1>0, <1>6 DEF FindPlayer, FindPunishments, FindIpPunishments, ReadIdentity, Answer,
                    FindPunishment, SavePunishment, Die, store, sent
<1>7. CASE UNCHANGED vars  BY <1>7 DEF vars, store, sent
<1> QED BY <1>1, <1>2, <1>2a, <1>2b, <1>3, <1>4, <1>5, <1>6, <1>7 DEF Next, Step

\* revert_pun writes the punishment that it has read: no other is lost.
LEMMA SavePunishmentNumbered ==
  ASSUME Typed, NEW t \in Task, SavePunishment(t)
  PROVE  Numbered' /\ Cardinality(puns') = Cardinality(puns)
<1> USE DEF Typed
<1>1. pc[t] = "revert" /\ Forget(t) /\ puns' = {b \in puns : b.n # pun[t].n} \cup {pun[t]}
  BY DEF SavePunishment
<1>2. PICK old \in puns : Same(old, pun[t])  BY <1>1 DEF Numbered
<1>3. {b \in puns : b.n # pun[t].n} = puns \ {old}  BY <1>2 DEF Numbered, Same
<1>4. pun[t] \in Punishment /\ pun[t].revertedAt # -1  BY <1>1 DEF Numbered, TypeOfTasks
<1>5. pun[t] \notin puns \ {old}  BY <1>3
<1>6. IsFiniteSet(puns \ {old}) /\ Cardinality(puns \ {old}) = Cardinality(puns) - 1
  BY FS_RemoveElement DEF Numbered
<1>7. IsFiniteSet(puns') /\ Cardinality(puns') = Cardinality(puns)
  <2>1. puns' = (puns \ {old}) \cup {pun[t]}  BY <1>1, <1>3
  <2>2. Cardinality(puns') = Cardinality(puns \ {old}) + 1 /\ IsFiniteSet(puns')
    BY <2>1, <1>5, <1>6, FS_AddElement
  <2> QED BY <2>2, <1>6, CountType
<1>8. puns' \subseteq Punishment  BY <1>1, <1>4 DEF Numbered
<1>9. \A b \in puns' : b.n < Cardinality(puns')
  BY <1>1, <1>2, <1>7 DEF Numbered, Same
<1>10. \A b, c \in puns' : b.n = c.n => b = c  BY <1>1 DEF Numbered
<1>11. ASSUME NEW u \in Task, pc'[u] = "revert"
       PROVE  pun'[u].revertedAt # -1 /\ \E b \in puns' : Same(b, pun'[u])
  <2>1. u # t  BY <1>1, <1>11, ForgetType
  <2>2. pc[u] = "revert" /\ pun'[u] = pun[u]  BY <2>1, <1>11, OthersSame DEF Step
  <2>3. PICK b \in puns : Same(b, pun[u])  BY <2>2 DEF Numbered
  <2>4. pun[u].revertedAt # -1  BY <2>2 DEF Numbered
  <2>5. CASE b.n = pun[t].n
    <3>1. b = old  BY <2>5, <1>2 DEF Numbered, Same
    <3>2. Same(pun[t], pun[u])  BY <3>1, <1>2, <2>3 DEF Same
    <3> QED BY <3>2, <2>2, <2>4, <1>1
  <2>6. CASE b.n # pun[t].n  BY <2>6, <2>2, <2>3, <2>4, <1>1
  <2> QED BY <2>5, <2>6
<1> QED BY <1>7, <1>8, <1>9, <1>10, <1>11 DEF Numbered

LEMMA NextNumbered == ASSUME Typed, [Next]_vars PROVE Numbered'
<1> USE DEF Typed
<1>1. ASSUME NEW kind \in PunishmentKind, NEW p \in mode.players, NEW xs \in SUBSET mode.ips,
             NEW length \in Lengths, Issue(kind, p, xs, length)
      PROVE  Numbered'
  <2> DEFINE new == [n |-> Cardinality(puns), kind |-> kind, target |-> p, ips |-> xs,
                     issuedAt |-> now, length |-> length, revertedAt |-> -1]
  <2>1. Cardinality(puns) \in Nat  BY CountType
  <2>2. new \in Punishment
    <3>1. p \in Player /\ xs \subseteq Ip /\ length \in Int /\ now \in Nat
      BY ModeFacts, AdmissionAssumption DEF TypeOfStore
    <3> QED BY <2>1, <3>1 DEF Punishment
  <2>3. puns' = puns \cup {new} /\ new.n = Cardinality(puns)  BY <1>1 DEF Issue
  <2>4. pc' = pc /\ pun' = pun  BY <1>1 DEF Issue, task
  <2> HIDE DEF new
  <2>5. new \notin puns  BY <2>1, <2>3 DEF Numbered
  <2>6. IsFiniteSet(puns') /\ Cardinality(puns') = Cardinality(puns) + 1
    BY <2>3, <2>5, FS_AddElement DEF Numbered
  <2>7. puns' \subseteq Punishment  BY <2>2, <2>3 DEF Numbered
  <2>8. \A b \in puns : b.n \in Nat  BY DEF Numbered, Punishment
  <2>9. \A b \in puns' : b.n < Cardinality(puns')  BY <2>1, <2>3, <2>6, <2>8 DEF Numbered
  <2>10. \A b, c \in puns' : b.n = c.n => b = c  BY <2>1, <2>3, <2>8 DEF Numbered
  <2>11. \A u \in Task : pc'[u] = "revert" =>
           pun'[u].revertedAt # -1 /\ \E b \in puns' : Same(b, pun'[u])
    BY <2>3, <2>4 DEF Numbered
  <2> QED BY <2>6, <2>7, <2>9, <2>10, <2>11 DEF Numbered
<1>2. ASSUME NEW t \in Task, FindPunishment(t) PROVE Numbered'
  <2>1. PICK b \in puns : pun' = [pun EXCEPT ![t] = [b EXCEPT !.revertedAt = now]]
    BY <1>2 DEF FindPunishment
  <2>2. pun'[t] = [b EXCEPT !.revertedAt = now]  BY <2>1 DEF TypeOfTasks
  <2>3. b \in Punishment /\ now \in Nat  BY <2>1 DEF Numbered, TypeOfStore
  <2>4. Same(b, pun'[t]) /\ pun'[t].revertedAt # -1  BY <2>2, <2>3 DEF Same, Punishment
  <2>5. \A u \in Task : u # t => pc'[u] = pc[u] /\ pun'[u] = pun[u]
    BY <1>2, OthersSame DEF Step
  <2>6. puns' = puns  BY <1>2 DEF FindPunishment, store
  <2> QED BY <2>1, <2>4, <2>5, <2>6 DEF Numbered
<1>3. ASSUME NEW t \in Task, SavePunishment(t) PROVE Numbered'
  BY <1>3, SavePunishmentNumbered
<1>4. ASSUME puns' = puns, NEW t \in Task, Step(t), pc'[t] # "revert" PROVE Numbered'
  BY <1>4, OthersSame DEF Numbered
<1>5. ASSUME NEW t \in Task, Step(t), ~FindPunishment(t), ~SavePunishment(t)
      PROVE  puns' = puns /\ pc'[t] # "revert"
  BY <1>5 DEF Step, Prelogin, FindPlayer, FindPunishments, FindIpPunishments, FindDocument,
              SavePlayer, CachePlayer, ReadIdentity, SaveIdentity, Answer, Die, Forget, Goto,
              store, TypeOfTasks
<1>6. CASE Tick \/ UNCHANGED vars  BY <1>6 DEF Tick, vars, store, task, Numbered
<1> QED BY <1>1, <1>2, <1>3, <1>4, <1>5, <1>6 DEF Next

LEMMA NextTyped == Typed /\ [Next]_vars => Typed'
<1> SUFFICES ASSUME Typed, [Next]_vars PROVE Typed'  OBVIOUS
<1>1. TypeOfStore' /\ Numbered'  BY NextTypeOfStore, NextNumbered
<1>2. TypeOfTasks'
  <2>1. ASSUME NEW kind, NEW p, NEW xs, NEW length, Issue(kind, p, xs, length)
        PROVE  TypeOfTasks'
    BY <2>1 DEF Issue, task, Typed, TypeOfTasks, Comes
  <2>2. CASE Tick \/ UNCHANGED vars
    BY <2>2 DEF Tick, vars, task, Typed, TypeOfTasks, Comes
  <2> QED BY <2>1, <2>2, NextTypeOfTasks DEF Next
<1> QED BY <1>1, <1>2 DEF Typed

\* The inductive form of TypeOK: all that is said of tasks at their awaits, as
\* prelogin and revert_pun leave it.
THEOREM TypedCorrect == Spec => []Typed
  BY InitTyped, NextTyped, PTL DEF Spec

\* However requests overlap and wherever they die: documents are well typed,
\* every punishment has an id of its own, although revert_pun writes back a
\* document that it read before, and a prelogin that saves has the address that
\* it was sent from in its copy of the player.
THEOREM TypeCorrect == Spec => []TypeOK
  BY TypedCorrect, TypedTypeOK, PTL

-----------------------------------------------------------------------------
(* Bans.  What a prelogin has found out of the punishments stays true of    *)
(* them, since no step changes more of one than whether it is lifted, time *)
(* goes on, and the ones that are issued meanwhile are of no concern.      *)

Lifted(b) == b.revertedAt # -1
Over(b) == Lifted(b) \/ (b.length # -1 /\ now >= b.issuedAt + b.length)

\* What a prelogin knows of its arrival is still so: a player who was known is
\* known, and what was lifted is lifted.
Follows(t) ==
  /\ arrival[t].at <= now
  /\ arrival[t].known => Known(who[t])
  /\ \A k \in arrival[t].there \cup arrival[t].lifted : k < Cardinality(puns)
  /\ \A b \in puns : b.n \in arrival[t].lifted => Lifted(b)

\* Who is past the punishments of the player, or of the address as well, has
\* passed by no ban that was there when it came.
Checked(t) ==
  \A b \in puns :
    b.n \in arrival[t].there =>
      /\ pc[t] = "address" /\ IsBan(b) /\ b.target = who[t] => Over(b)
      /\ pc[t] \in Saving /\ ~banned[t] /\ arrival[t].known /\ Concerns(b, t) => Over(b)

\* A refusal is for a ban, and one that was there to be found.
ForBan(b, t) == /\ Concerns(b, t)
                /\ b.n \notin arrival[t].lifted
                /\ b.length = -1 \/ arrival[t].at < b.issuedAt + b.length

Refused(t) == pc[t] \in Saving /\ banned[t] => \E b \in puns : ForBan(b, t)

Sound(t) ==
  /\ Comes(t) => Follows(t) /\ Checked(t) /\ Refused(t)
  /\ ~Comes(t) \/ pc[t] \notin Saving => banned[t] = FALSE

BansInv == Typed /\ \A t \in Task : Sound(t)

LEMMA BansInvHold == BansInv => BansHold
<1> SUFFICES ASSUME BansInv PROVE BansHold  OBVIOUS
<1>1. \A t \in Task : pc[t] = "answer" => Checked(t) /\ Refused(t)
  BY ComesType DEF BansInv, Sound, Asking, Typed
<1>2. BannedStayOut
  BY <1>1 DEF Checked, BannedStayOut, Over, Lifted, Saving
<1>3. RefusedForABan  BY <1>1 DEF Refused, ForBan, RefusedForABan, Saving
<1> QED BY <1>2, <1>3 DEF BansHold

\* What a step makes of the punishments
LEMMA PunsPersist ==
  ASSUME Typed, [Next]_vars
  PROVE  /\ now' >= now
         /\ Cardinality(puns') >= Cardinality(puns)
         /\ \A b \in puns : \E c \in puns' : Same(b, c) /\ (Lifted(b) => Lifted(c))
         /\ \A c \in puns' : \/ c.n = Cardinality(puns)
                             \/ \E b \in puns : Same(b, c) /\ (Lifted(b) => Lifted(c))
<1> USE DEF Typed
<1>0. now \in Nat /\ Cardinality(puns) \in Nat  BY CountType DEF TypeOfStore
<1>1. \A b \in puns : Same(b, b)  BY DEF Same
<1>2. ASSUME NEW t \in Task, SavePunishment(t)
      PROVE  /\ now' = now /\ Cardinality(puns') = Cardinality(puns)
             /\ \A b \in puns : \E c \in puns' : Same(b, c) /\ (Lifted(b) => Lifted(c))
             /\ \A c \in puns' : \E b \in puns : Same(b, c) /\ (Lifted(b) => Lifted(c))
  <2>1. /\ pc[t] = "revert" /\ puns' = {b \in puns : b.n # pun[t].n} \cup {pun[t]}
        /\ now' = now
    BY <1>2 DEF SavePunishment
  <2>2. PICK old \in puns : Same(old, pun[t])  BY <2>1 DEF Numbered
  <2>3. Lifted(pun[t])  BY <2>1 DEF Numbered, Lifted
  <2>4. \A b \in puns : b.n = pun[t].n => b = old  BY <2>2 DEF Numbered, Same
  <2>5. Cardinality(puns') = Cardinality(puns)  BY <1>2, SavePunishmentNumbered
  <2> QED BY <2>1, <2>2, <2>3, <2>4, <2>5, <1>1
<1>3. ASSUME NEW kind, NEW p, NEW xs, NEW length, Issue(kind, p, xs, length)
      PROVE  /\ now' = now
             /\ \E c : c.n = Cardinality(puns) /\ puns' = puns \cup {c}
             /\ Cardinality(puns') >= Cardinality(puns)
  <2> DEFINE c == [n |-> Cardinality(puns), kind |-> kind, target |-> p, ips |-> xs,
                   issuedAt |-> now, length |-> length, revertedAt |-> -1]
  <2>1. c.n = Cardinality(puns) /\ puns' = puns \cup {c} /\ now' = now  BY <1>3 DEF Issue
  <2>2. Cardinality(puns') = IF c \in puns THEN Cardinality(puns) ELSE Cardinality(puns) + 1
    <3> HIDE DEF c
    <3> QED BY <2>1, FS_AddElement DEF Numbered
  <2> HIDE DEF c
  <2> QED BY <2>1, <2>2, <1>0
<1>4. ASSUME NEW t \in Task, Step(t), ~SavePunishment(t) PROVE puns' = puns /\ now' = now
  BY <1>4 DEF Step, Prelogin, FindPlayer, FindPunishments, FindIpPunishments, FindDocument,
              SavePlayer, CachePlayer, ReadIdentity, SaveIdentity, Answer, Die, FindPunishment,
              store
<1>5. CASE Tick \/ UNCHANGED vars
  <2>1. puns' = puns /\ now' >= now  BY <1>5, <1>0 DEF Tick, vars, store
  <2> QED BY <2>1, <1>0, <1>1
<1>6. ASSUME puns' = puns, now' = now
      PROVE  /\ now' >= now /\ Cardinality(puns') >= Cardinality(puns)
             /\ \A b \in puns : \E c \in puns' : Same(b, c) /\ (Lifted(b) => Lifted(c))
             /\ \A c \in puns' : \E b \in puns : Same(b, c) /\ (Lifted(b) => Lifted(c))
  BY <1>6, <1>0, <1>1
<1> QED BY <1>0, <1>1, <1>2, <1>3, <1>4, <1>5, <1>6 DEF Next

\* The players who have a document keep it.
LEMMA KnownStays ==
  ASSUME Typed, [Next]_vars, NEW p \in Player, Known(p)
  PROVE  Known(p)'
<1>1. ASSUME NEW t \in Task, SavePlayer(t) PROVE Known(p)'
  <2>1. copy[t] # {} /\ players' = [players EXCEPT ![who[t]] = copy[t]]
    BY <1>1, SavePlayerFacts
  <2> QED BY <2>1 DEF Known, Typed, TypeOfStore
<1>2. players' = players \/ \E t \in Task : SavePlayer(t)
  BY DEF Next, vars, store, Tick, Issue, Step, Prelogin, FindPlayer, FindPunishments,
         FindIpPunishments, FindDocument, CachePlayer, ReadIdentity, SaveIdentity, Answer, Die,
         FindPunishment, SavePunishment
<1> QED BY <1>1, <1>2 DEF Known

\* So whatever is over stays over,
LEMMA OverStays ==
  ASSUME Typed, [Next]_vars, NEW b \in puns, NEW c \in puns', Same(b, c),
         Lifted(b) => Lifted(c), Over(b)
  PROVE  Over(c)'
<1>1. now \in Nat /\ now' \in Nat /\ now' >= now  BY NextTyped, PunsPersist DEF Typed, TypeOfStore
<1>2. c.issuedAt \in Nat /\ c.length \in Int  BY NextTyped DEF Typed, Numbered, Punishment
<1>3. CASE Lifted(b)  BY <1>3 DEF Over, Lifted
<1>4. CASE b.length # -1 /\ now >= b.issuedAt + b.length
  <2>1. c.length # -1 /\ now >= c.issuedAt + c.length  BY <1>4 DEF Same
  <2>2. now' >= c.issuedAt + c.length  BY <2>1, <1>1, <1>2
  <2> QED BY <2>1, <2>2 DEF Over
<1> QED BY <1>3, <1>4 DEF Over

\* and what a prelogin has found out stays true as long as it keeps its task
\* and what is known of its arrival.
LEMMA StillTrue ==
  ASSUME Typed, [Next]_vars, NEW t \in Task, Comes(t), Follows(t),
         who'[t] = who[t], ip'[t] = ip[t], arrival'[t] = arrival[t]
  PROVE  /\ Follows(t)'
         /\ \A b \in puns' : b.n \in arrival'[t].there =>
              \E c \in puns : Same(c, b) /\ (Over(c) => Over(b)')
         /\ \A c \in puns : ForBan(c, t) => \E b \in puns' : ForBan(b, t)'
<1>1. Typed'  BY NextTyped
<1>2. /\ now' \in Nat /\ now \in Nat /\ arrival[t].at \in Nat /\ now' >= now
      /\ Cardinality(puns) \in Nat /\ Cardinality(puns') \in Nat
      /\ Cardinality(puns') >= Cardinality(puns)
      /\ arrival[t].there \subseteq Nat /\ arrival[t].lifted \subseteq Nat
      /\ who[t] \in Player
  <2>1. Cardinality(puns) \in Nat /\ Cardinality(puns') \in Nat
    BY <1>1, FS_CardinalityType DEF Typed, Numbered
  <2>2. arrival[t] \in Arrival /\ now \in Nat /\ now' \in Nat
    BY <1>1 DEF Typed, TypeOfStore
  <2>3. who[t] \in Player  BY ComesType DEF Typed
  <2> QED BY <2>1, <2>2, <2>3, PunsPersist DEF Arrival
<1>3. ASSUME NEW b \in puns', b.n \in arrival[t].there \cup arrival[t].lifted
      PROVE  \E c \in puns : Same(c, b) /\ (Lifted(c) => Lifted(b))
  <2>1. b.n < Cardinality(puns)  BY <1>3 DEF Follows
  <2> QED BY <2>1, <1>2, PunsPersist
<1>4. \A b \in puns' : b.n \in arrival'[t].there =>
        \E c \in puns : Same(c, b) /\ (Over(c) => Over(b)')
  BY <1>3, OverStays
<1>5. Follows(t)'
  <2>1. arrival'[t].known => Known(who[t])'  BY <1>2, KnownStays DEF Follows
  <2>2. \A b \in puns' : b.n \in arrival'[t].lifted => Lifted(b)
    BY <1>3 DEF Follows, Same
  <2>3. \A k \in arrival'[t].there \cup arrival'[t].lifted : k < Cardinality(puns')
    BY <1>2 DEF Follows
  <2>4. arrival'[t].at <= now'  BY <1>2 DEF Follows
  <2> QED BY <2>1, <2>2, <2>3, <2>4 DEF Follows, Known, Lifted
<1>6. ASSUME NEW c \in puns, ForBan(c, t) PROVE \E b \in puns' : ForBan(b, t)'
  <2>1. PICK b \in puns' : Same(c, b)  BY PunsPersist
  <2> QED BY <2>1, <1>6 DEF Same, ForBan, Concerns
<1> QED BY <1>4, <1>5, <1>6

\* The tasks that keep what they have, and those that save, are no trouble.
KeepsAll(u) ==
  /\ pc'[u] = pc[u] \/ (pc[u] \in Saving /\ pc'[u] \in Saving)
  /\ who'[u] = who[u] /\ ip'[u] = ip[u]
  /\ banned'[u] = banned[u] /\ arrival'[u] = arrival[u]

LEMMA SameConcern ==
  ASSUME NEW b, NEW c, Same(c, b), NEW t
  PROVE  /\ Concerns(b, t) <=> Concerns(c, t)
         /\ IsBan(b) <=> IsBan(c)
  BY DEF Same, Concerns, IsBan

LEMMA KeepsSound ==
  ASSUME Typed, [Next]_vars, NEW t \in Task, Sound(t), KeepsAll(t)
  PROVE  Sound(t)'
<1>0. /\ Comes(t)' <=> Comes(t)
      /\ pc'[t] \in Saving <=> pc[t] \in Saving
      /\ pc'[t] = "address" => pc[t] = "address"
  BY DEF KeepsAll, Comes, Saving
<1> SUFFICES ASSUME Comes(t) PROVE Sound(t)'  BY <1>0 DEF Sound, KeepsAll
<1>1. Follows(t) /\ Checked(t) /\ Refused(t)  BY DEF Sound
<1>2. Follows(t)'  BY <1>1, StillTrue DEF KeepsAll
<1>3. Checked(t)'
  <2> SUFFICES ASSUME NEW b \in puns', b.n \in arrival'[t].there
               PROVE  /\ pc[t] = "address" /\ IsBan(b) /\ b.target = who[t] => Over(b)'
                      /\ pc[t] \in Saving /\ ~banned[t] /\ arrival[t].known /\ Concerns(b, t)
                           => Over(b)'
    BY <1>0 DEF Checked, KeepsAll, Concerns, IsBan
  <2>1. PICK c \in puns : Same(c, b) /\ (Over(c) => Over(b)')  BY <1>1, StillTrue DEF KeepsAll
  <2>2. c.n \in arrival[t].there /\ c.target = b.target  BY <2>1 DEF Same, KeepsAll
  <2> QED BY <1>1, <2>1, <2>2, SameConcern DEF Checked
<1>4. Refused(t)'
  <2>1. \A c \in puns : ForBan(c, t) => \E b \in puns' : ForBan(b, t)'
    BY <1>1, StillTrue DEF KeepsAll
  <2> QED BY <1>0, <2>1, <1>1 DEF Refused, KeepsAll
<1> QED BY <1>0, <1>2, <1>3, <1>4 DEF Sound, KeepsAll

LEMMA ForgetSound == ASSUME Typed, NEW t \in Task, Forget(t) PROVE Sound(t)'
<1>1. ip'[t] = NoIp /\ banned'[t] = FALSE
  BY DEF Forget, Typed, TypeOfTasks
<1> QED BY <1>1 DEF Sound, Comes

\* A prelogin knows which punishments there are when it comes.
LEMMA PreloginSound ==
  ASSUME BansInv, NEW t \in Task, NEW p \in mode.players, NEW x \in mode.ips, Prelogin(t, p, x)
  PROVE  Sound(t)'
<1> USE DEF BansInv, Typed
<1>1. pc[t] = "idle" /\ pc'[t] = "find" /\ who'[t] = p
  BY DEF Prelogin, May, Goto, TypeOfTasks
<1>2. UNCHANGED <<now, players, puns, banned>>  BY DEF Prelogin, store
<1>3. banned[t] = FALSE  BY <1>1 DEF Sound, Saving
<1> DEFINE a == [at |-> now, known |-> Known(p), there |-> {b.n : b \in puns},
                 lifted |-> {b.n : b \in {c \in puns : c.revertedAt # -1}}]
<1>4. arrival'[t] = a  BY DEF Prelogin, TypeOfStore
<1>5. now \in Nat  BY DEF TypeOfStore
<1>6. \A k \in a.there \cup a.lifted : \E b \in puns : k = b.n  OBVIOUS
<1>7. \A k \in a.there \cup a.lifted : k < Cardinality(puns)  BY <1>6 DEF Numbered
<1>8. \A b \in puns : b.n \in a.lifted => Lifted(b)  BY DEF Numbered, Lifted
<1>9. a.at = now /\ a.known = Known(p)  OBVIOUS
<1>10. Follows(t)'
  <2> HIDE DEF a, BansInv, Typed
  <2>1. a.at <= now  BY <1>5, <1>9
  <2>2. a.known => players[p] # {}  BY <1>9 DEF Known
  <2>3. arrival'[t].at <= now' /\ (arrival'[t].known => players'[who'[t]] # {})
    BY <2>1, <2>2, <1>1, <1>2, <1>4
  <2>4. \A k \in arrival'[t].there \cup arrival'[t].lifted : k < Cardinality(puns')
    BY <1>2, <1>4, <1>7
  <2>5. \A b \in puns' : b.n \in arrival'[t].lifted => Lifted(b)  BY <1>2, <1>4, <1>8
  <2> QED BY <2>3, <2>4, <2>5 DEF Follows, Known, Lifted
<1> QED BY <1>1, <1>2, <1>3, <1>10 DEF Sound, Checked, Refused, Saving, Asking

\* A player who was known is asked for punishments.
LEMMA FindPlayerSound ==
  ASSUME BansInv, [Next]_vars, NEW t \in Task, FindPlayer(t)
  PROVE  Sound(t)'
<1> USE DEF BansInv
<1>0. pc[t] = "find" /\ Comes(t)  BY ComesType DEF FindPlayer, Asking, Typed
<1>1. /\ Follows(t) /\ banned'[t] = FALSE
      /\ who'[t] = who[t] /\ ip'[t] = ip[t] /\ arrival'[t] = arrival[t]
  BY <1>0 DEF FindPlayer, Sound, Saving
<1>2. Follows(t)'  BY <1>0, <1>1, StillTrue
<1>3. pc'[t] = IF players[who[t]] = {} THEN "save" ELSE "punishments"
  BY DEF FindPlayer, Goto, Typed, TypeOfTasks
<1>4. pc'[t] = "save" => ~arrival[t].known  BY <1>1, <1>3 DEF Follows, Known
<1>5. pc'[t] = "save" \/ pc'[t] = "punishments"  BY <1>3
<1> QED BY <1>1, <1>2, <1>4, <1>5 DEF Sound, Checked, Refused, Asking, Saving

\* An active punishment that concerns a prelogin is one to refuse it for,
LEMMA ActiveForBan ==
  ASSUME Typed, NEW t \in Task, Follows(t), NEW b \in puns, Concerns(b, t), IsActive(b)
  PROVE  ForBan(b, t)
<1>1. b.issuedAt \in Nat /\ b.length \in Int /\ now \in Nat /\ arrival[t].at \in Nat
  BY DEF Typed, TypeOfStore, Numbered, Punishment, Arrival
<1>2. b.n \notin arrival[t].lifted  BY DEF Follows, Lifted, IsActive
<1>3. b.length = -1 \/ now < b.issuedAt + b.length  BY DEF IsActive
<1>4. arrival[t].at <= now  BY DEF Follows
<1> QED BY <1>1, <1>2, <1>3, <1>4 DEF ForBan

\* and any other is over.
LEMMA InactiveOver ==
  ASSUME Typed, NEW b \in puns, ~IsActive(b)
  PROVE  Over(b)
<1>1. b.issuedAt \in Nat /\ b.length \in Int /\ now \in Nat
  BY DEF Typed, TypeOfStore, Numbered, Punishment
<1> QED BY <1>1 DEF Over, Lifted, IsActive

LEMMA FindPunishmentsSound ==
  ASSUME BansInv, [Next]_vars, NEW t \in Task, FindPunishments(t)
  PROVE  Sound(t)'
<1> USE DEF BansInv
<1>0. pc[t] = "punishments" /\ Comes(t)  BY ComesType DEF FindPunishments, Asking, Typed
<1>1. /\ Follows(t) /\ banned[t] = FALSE
      /\ who'[t] = who[t] /\ ip'[t] = ip[t] /\ arrival'[t] = arrival[t]
      /\ puns' = puns /\ now' = now
  BY <1>0 DEF FindPunishments, Sound, Saving, store
<1>2. Follows(t)'  BY <1>0, <1>1, StillTrue
<1>3. CASE \E b \in OfPlayer(who[t]) : IsBan(b)
  <2>1. banned'[t] = TRUE /\ pc'[t] = "save"
    BY <1>3 DEF FindPunishments, Goto, Typed, TypeOfTasks
  <2>2. PICK b \in puns : b.target = who[t] /\ IsActive(b) /\ IsBan(b)  BY <1>3 DEF OfPlayer
  <2>3. Concerns(b, t)  BY <2>2 DEF Concerns, IsBan
  <2>4. ForBan(b, t)  BY <1>1, <2>2, <2>3, ActiveForBan
  <2>5. ForBan(b, t)'  BY <2>4, <1>1 DEF ForBan, Concerns
  <2>6. Comes(t)'  BY <1>0, <1>1 DEF Comes
  <2>7. Checked(t)' /\ Refused(t)'  BY <1>1, <2>1, <2>5 DEF Checked, Refused
  <2> QED BY <1>2, <2>1, <2>6, <2>7 DEF Sound, Saving
<1>4. CASE ~ \E b \in OfPlayer(who[t]) : IsBan(b)
  <2>1. banned'[t] = FALSE /\ pc'[t] = "address"
    BY <1>1, <1>4 DEF FindPunishments, Goto, Typed, TypeOfTasks
  <2>2. \A b \in puns : IsBan(b) /\ b.target = who[t] => Over(b)
    BY <1>4, InactiveOver DEF OfPlayer
  <2>3. Checked(t)'  BY <1>1, <2>1, <2>2 DEF Checked, Over, Lifted, Saving, IsBan
  <2> QED BY <1>2, <2>1, <2>3 DEF Sound, Refused, Asking, Saving
<1> QED BY <1>3, <1>4

LEMMA FindIpPunishmentsSound ==
  ASSUME BansInv, [Next]_vars, NEW t \in Task, FindIpPunishments(t)
  PROVE  Sound(t)'
<1> USE DEF BansInv
<1>0. pc[t] = "address" /\ Comes(t)  BY ComesType DEF FindIpPunishments, Asking, Typed
<1>1. /\ Follows(t) /\ Checked(t)
      /\ who'[t] = who[t] /\ ip'[t] = ip[t] /\ arrival'[t] = arrival[t]
      /\ puns' = puns /\ now' = now
  BY <1>0 DEF FindIpPunishments, Sound, Saving, store
<1>2. Follows(t)'  BY <1>0, <1>1, StillTrue
<1>3. pc'[t] = "save" /\ banned'[t] = (OfIp(ip[t]) # {})
  BY DEF FindIpPunishments, Goto, Typed, TypeOfTasks
<1>4. CASE OfIp(ip[t]) # {}
  <2>1. PICK b \in puns : b.kind = "ip_ban" /\ ip[t] \in b.ips /\ IsActive(b)
    BY <1>4 DEF OfIp
  <2>2. ForBan(b, t)  BY <1>1, <2>1, ActiveForBan DEF Concerns
  <2>3. ForBan(b, t)'  BY <2>2, <1>1 DEF ForBan, Concerns
  <2>4. Comes(t)'  BY <1>0, <1>1 DEF Comes
  <2>5. Checked(t)' /\ Refused(t)'  BY <1>1, <1>3, <1>4, <2>3 DEF Checked, Refused
  <2> QED BY <1>2, <1>3, <2>4, <2>5 DEF Sound, Saving
<1>5. CASE OfIp(ip[t]) = {}
  <2>1. \A b \in puns : b.kind = "ip_ban" /\ ip[t] \in b.ips => Over(b)
    BY <1>5, InactiveOver DEF OfIp
  <2>2. \A b \in puns : b.n \in arrival[t].there /\ Concerns(b, t) => Over(b)
    BY <1>0, <1>1, <2>1 DEF Checked, Concerns, IsBan
  <2>3. Checked(t)'  BY <1>1, <1>3, <2>2 DEF Checked, Over, Lifted, Concerns
  <2> QED BY <1>2, <1>3, <1>5, <2>3 DEF Sound, Refused, Asking, Saving
<1> QED BY <1>4, <1>5

LEMMA NextBans == BansInv /\ [Next]_vars => BansInv'
<1> SUFFICES ASSUME BansInv, [Next]_vars, NEW u \in Task PROVE Sound(u)'
  BY NextTyped DEF BansInv
<1>0. Typed /\ Sound(u)  BY DEF BansInv
<1>1. ASSUME NEW t \in Task, Step(t), t # u PROVE Sound(u)'
  <2>1. KeepsAll(u)  BY <1>0, <1>1, OthersSame DEF KeepsAll
  <2> QED BY <1>0, <2>1, KeepsSound
<1>2. ASSUME NEW p \in mode.players, NEW x \in mode.ips, Prelogin(u, p, x) PROVE Sound(u)'
  BY <1>2, PreloginSound
<1>3. CASE FindPlayer(u)  BY <1>3, FindPlayerSound
<1>4. CASE FindPunishments(u)  BY <1>4, FindPunishmentsSound
<1>5. CASE FindIpPunishments(u)  BY <1>5, FindIpPunishmentsSound
<1>6. CASE (SavePlayer(u) /\ ~Forget(u)) \/ (CachePlayer(u) /\ ~Forget(u)) \/ ReadIdentity(u)
             \/ SaveIdentity(u)
  <2>1. pc[u] \in Saving /\ pc'[u] \in Saving
    BY <1>0, <1>6, SavePlayerFacts, CachePlayerFacts
    DEF ReadIdentity, SaveIdentity, Goto, Saving, Typed, TypeOfTasks
  <2>2. KeepsAll(u)
    BY <1>6, <2>1 DEF KeepsAll, SavePlayer, CachePlayer, ReadIdentity, SaveIdentity
  <2> QED BY <1>0, <2>2, KeepsSound
<1>6a. ASSUME NEW p \in mode.players, NEW e \in Edits, FindDocument(u, p, e) PROVE Sound(u)'
  <2>1. pc[u] = "idle" /\ ip'[u] = NoIp /\ banned' = banned  BY <1>0, <1>6a, FindDocumentFacts
  <2> QED BY <1>0, <2>1 DEF Sound, Saving, Comes
<1>7. CASE Answer(u) \/ SavePunishment(u) \/ Die(u) \/ Forget(u)
  BY <1>0, <1>7, ForgetSound DEF Answer, SavePunishment, Die
<1>8. CASE FindPunishment(u)
  <2>1. pc[u] = "idle" /\ ip[u] = NoIp /\ ip' = ip /\ banned' = banned
    BY <1>0, <1>8 DEF FindPunishment, May, Typed, TypeOfTasks
  <2> QED BY <1>0, <2>1 DEF Sound, Comes, Saving
<1>9. ASSUME UNCHANGED <<task, arrival>> PROVE Sound(u)'
  <2>1. KeepsAll(u)  BY <1>9 DEF KeepsAll, task
  <2> QED BY <1>0, <2>1, KeepsSound
<1>10. ASSUME NEW kind, NEW p, NEW xs, NEW length, Issue(kind, p, xs, length)
       PROVE  UNCHANGED <<task, arrival>>
  BY <1>10 DEF Issue
<1>11. Tick \/ UNCHANGED vars => UNCHANGED <<task, arrival>>  BY DEF Tick, vars
<1> QED BY <1>1, <1>2, <1>3, <1>4, <1>5, <1>6, <1>6a, <1>7, <1>8, <1>9, <1>10, <1>11
        DEF Next, Step

LEMMA InitBans == Init => BansInv
<1> SUFFICES ASSUME Init PROVE BansInv  OBVIOUS
<1>1. \A t \in Task : ip[t] = NoIp /\ banned[t] = FALSE  BY DEF Init
<1> QED BY <1>1, InitTyped DEF BansInv, Sound, Comes

\* For any number of requests at once, whoever dies, and whatever punishments
\* staff issue and lift meanwhile: who is let in by prelogin and was known when
\* it came is under no ban that was there then, of the player or of the
\* address; and who is refused is refused for a ban that was neither lifted
\* nor over when it came.
THEOREM BansAreKept == Spec => []BansHold
  BY InitBans, NextBans, BansInvHold, PTL DEF Spec

-----------------------------------------------------------------------------
(* Addresses.                                                              *)

\* Whoever edits a player stores it before the address, so whom prelogin puts, or
\* has read, on a list is known; and only players who are known are cached.
Listed ==
  /\ ListedAreStored
  /\ \A t \in Task : pc[t] \in {"cache", "identity", "list"} => Known(who[t])
  /\ \A p \in Player, k \in Key : redis[p][k] # {} => Known(p)
  /\ \A t \in Task : pc[t] = "list" => \A p \in list[t] : Known(p)

LEMMA InitListed == Init => Listed
  BY DEF Init, Listed, ListedAreStored

LEMMA NextListed == Typed /\ Listed /\ [Next]_vars => Listed'
<1> SUFFICES ASSUME Typed, Listed, [Next]_vars PROVE Listed'  OBVIOUS
<1>1. Typed'  BY NextTyped
<1>2. \A p \in Player : Known(p) => Known(p)'  BY KnownStays
<1>3. \A x \in Ip : \A p \in identity[x] : p \in Player /\ Known(p)
  BY DEF Typed, TypeOfStore, Listed, ListedAreStored
<1>4. \A t \in Task : pc[t] = "list" => \A p \in list[t] : p \in Player /\ Known(p)
  BY DEF Typed, TypeOfTasks, Listed
<1>5. \A t \in Task :
        pc[t] \in {"cache", "identity", "list"} => who[t] \in Player /\ Known(who[t])
  BY DEF Typed, TypeOfTasks, Listed, Asking
<1>6. ListedAreStored'
  <2>1. ASSUME NEW t \in Task, SaveIdentity(t) PROVE ListedAreStored'
    <3>1. pc[t] = "list" /\ identity' = [identity EXCEPT ![ip[t]] = list[t]]
      BY <2>1 DEF SaveIdentity
    <3>2. \A x \in Ip : identity'[x] = identity[x] \/ identity'[x] = list[t]
      BY <3>1 DEF Typed, TypeOfStore
    <3> QED BY <1>2, <1>3, <1>4, <3>1, <3>2 DEF ListedAreStored, Known
  <2>2. identity' = identity \/ \E t \in Task : SaveIdentity(t)
    BY DEF Next, vars, store, Tick, Issue, Step, Prelogin, FindPlayer, FindPunishments,
           FindIpPunishments, FindDocument, SavePlayer, CachePlayer, ReadIdentity, Answer, Die,
           FindPunishment, SavePunishment
  <2>3. CASE identity' = identity  BY <2>3, <1>2, <1>3 DEF ListedAreStored, Known
  <2> QED BY <2>1, <2>2, <2>3
<1>7. ASSUME NEW u \in Task
      PROVE  /\ pc'[u] \in {"cache", "identity", "list"} => Known(who[u])'
             /\ pc'[u] = "list" => \A p \in list'[u] : Known(p)'
  <2> DEFINE Good == /\ pc'[u] \in {"cache", "identity", "list"} => Known(who[u])'
                     /\ pc'[u] = "list" => \A p \in list'[u] : Known(p)'
  <2> SUFFICES Good  OBVIOUS
  <2>1. ASSUME pc'[u] = pc[u], who'[u] = who[u], list'[u] = list[u] PROVE Good
    BY <2>1, <1>2, <1>4, <1>5 DEF Known
  <2>2. ASSUME NEW t \in Task, Step(t), t # u PROVE Good
    <3>1. pc'[u] = pc[u] /\ who'[u] = who[u] /\ list'[u] = list[u]  BY <2>2, OthersSame
    <3> QED BY <3>1, <2>1
  <2>3. CASE SavePlayer(u) /\ ~Forget(u)
    <3>1. /\ pc'[u] = "cache" /\ who'[u] = who[u] /\ who[u] \in Player /\ copy[u] # {}
          /\ players' = [players EXCEPT ![who[u]] = copy[u]]
      BY <2>3, SavePlayerFacts
    <3>2. Known(who[u])'  BY <3>1 DEF Known, Typed, TypeOfStore
    <3> QED BY <3>1, <3>2
  <2>4. CASE ReadIdentity(u)
    <3>1. /\ pc[u] = "identity" /\ who'[u] = who[u] /\ ip[u] \in Ip
          /\ list'[u] = identity[ip[u]] \cup {who[u]}
      BY <2>4 DEF ReadIdentity, Typed, TypeOfTasks, Asking
    <3>2. \A p \in list'[u] : p \in Player /\ Known(p)  BY <3>1, <1>3, <1>5
    <3> QED BY <3>1, <3>2, <1>2, <1>5 DEF Known
  <2>5. ASSUME pc'[u] \notin {"cache", "identity", "list"} PROVE Good  BY <2>5
  <2>6. ASSUME NEW p \in mode.players, NEW x \in mode.ips, Prelogin(u, p, x)
        PROVE  pc'[u] \notin {"cache", "identity", "list"}
    BY <2>6 DEF Prelogin, Goto, Typed, TypeOfTasks
  <2>7. ASSUME FindPlayer(u) \/ FindPunishments(u) \/ FindIpPunishments(u) \/ SaveIdentity(u)
                 \/ Answer(u) \/ FindPunishment(u) \/ SavePunishment(u) \/ Die(u) \/ Forget(u)
        PROVE  pc'[u] \notin {"cache", "identity", "list"}
    BY <2>7 DEF FindPlayer, FindPunishments, FindIpPunishments, SaveIdentity, Answer,
                FindPunishment, SavePunishment, Die, Forget, Goto, Typed, TypeOfTasks
  <2>8. ASSUME NEW kind, NEW p, NEW xs, NEW length, Issue(kind, p, xs, length) PROVE Good
    BY <2>1, <2>8 DEF Issue, task
  <2>9. CASE Tick \/ UNCHANGED vars  BY <2>1, <2>9 DEF Tick, vars, task
  <2>10. CASE CachePlayer(u) /\ ~Forget(u)
    <3>1. /\ pc[u] = "cache" /\ who'[u] = who[u] /\ pc'[u] # "list"
      BY <2>10, CachePlayerFacts
    <3> QED BY <3>1, <1>2, <1>5 DEF Known
  <2>11. ASSUME NEW p \in mode.players, NEW e \in Edits, FindDocument(u, p, e) PROVE Good
    <3>1. /\ who'[u] = p /\ p \in Player /\ copy'[u] # {} /\ pc'[u] # "list"
          /\ copy'[u] = players[p] \/ \E k \in Key : copy'[u] = redis[p][k]
      BY <2>11, FindDocumentFacts
    <3>2. Known(p)  BY <3>1 DEF Listed, Known
    <3> QED BY <3>1, <3>2, <1>2 DEF Known
  <2> HIDE DEF Good
  <2> QED BY <2>2, <2>3, <2>4, <2>5, <2>6, <2>7, <2>8, <2>9, <2>10, <2>11 DEF Next, Step
<1>8. ASSUME NEW p \in Player, NEW k \in Key, redis'[p][k] # {} PROVE Known(p)'
  <2>1. ASSUME NEW t \in Task, CachePlayer(t) PROVE redis[p][k] # {} \/ p = who[t]
    <3>1. /\ who[t] \in Player /\ edit[t].to \in Key
          /\ redis' = [redis EXCEPT ![who[t]][edit[t].to] = copy[t]] \/ redis' = redis
      BY <2>1, CachePlayerFacts
    <3> QED BY <3>1, <1>8 DEF Typed, TypeOfStore
  <2>2. redis' = redis \/ \E t \in Task : CachePlayer(t)
    BY DEF Next, vars, store, Tick, Issue, Step, Prelogin, FindPlayer, FindPunishments,
           FindIpPunishments, FindDocument, SavePlayer, ReadIdentity, SaveIdentity, Answer, Die,
           FindPunishment, SavePunishment
  <2>3. redis[p][k] # {} \/ \E t \in Task : pc[t] = "cache" /\ p = who[t]
    BY <2>1, <2>2, <1>8 DEF CachePlayer
  <2>4. Known(p)  BY <2>3, <1>5 DEF Listed
  <2> QED BY <2>4, <1>2
<1> QED BY <1>6, <1>7, <1>8 DEF Listed, Known

\* Whoever overtakes whom, and wherever requests die: IpIdentity::add_player_ip
\* lists nobody under an address before the player's document is stored.
THEOREM ListedPlayersExist == Spec => []ListedAreStored
<1>1. Init => Typed /\ Listed  BY InitTyped, InitListed
<1>2. Typed /\ Listed /\ [Next]_vars => (Typed /\ Listed)'  BY NextTyped, NextListed
<1>3. Typed /\ Listed => ListedAreStored  BY DEF Listed
<1> QED BY <1>1, <1>2, <1>3, PTL DEF Spec

\* One request after the other, and none failing
InTurn == Serial /\ ~mode.mayFail

Alone == \A t, u \in Task : pc[t] # "idle" /\ pc[u] # "idle" => t = u

LEMMA InTurnStays == ASSUME [Next]_vars PROVE mode' = mode /\ (InTurn' <=> InTurn)
  BY DEF Next, vars, InTurn, Serial

\* Nobody else is at work while a task is, and nobody when one begins.
LEMMA NextAlone ==
  ASSUME InTurn, Typed, Alone, NEW t \in Task, Step(t)
  PROVE  Alone' /\ \A u \in Task : u # t => pc[u] = "idle" /\ pc'[u] = "idle"
<1>1. ASSUME pc[t] = "idle" PROVE May(t)
  BY <1>1 DEF Step, FindPlayer, FindPunishments, FindIpPunishments, SavePlayer, CachePlayer,
              ReadIdentity, SaveIdentity, Answer, SavePunishment, Die, Prelogin, FindPunishment,
              FindDocument
<1>2. \A u \in Task : u # t => pc[u] = "idle"
  BY <1>1 DEF May, Quiet, InTurn, Alone
<1>3. \A u \in Task : u # t => pc'[u] = "idle"  BY <1>2, OthersSame
<1> QED BY <1>2, <1>3 DEF Alone

-----------------------------------------------------------------------------
(* Whoever has an address is listed under it.  No copy of a player, however *)
(* old, has an address that is not listed, but for the one that a prelogin *)
(* has yet to list; so no whole document that anybody writes has one.      *)

Has(p, x) == x \in players[p] \/ \E k \in Key : x \in redis[p][k]

\* The prelogin of a player that has yet to list it under a new address
Owes(t) == pc[t] \in {"cache", "identity", "list"} /\ newIp[t]
OwesFor(t, p, x) == Owes(t) /\ who[t] = p /\ ip[t] = x

StoredListed ==
  \A p \in Player, x \in Ip :
    Has(p, x) => p \in identity[x] \/ \E t \in Task : OwesFor(t, p, x)

Holding == {"punishments", "address", "save", "cache"}

HeldListed ==
  \A t \in Task : pc[t] \in Holding =>
    \A x \in copy[t] : who[t] \in identity[x] \/ (newIp[t] /\ x = ip[t])

OnList ==
  \A t \in Task : /\ pc[t] \in {"identity", "list"} => newIp[t]
                  /\ pc[t] = "list" => list[t] = identity[ip[t]] \cup {who[t]}

ListInv == Typed /\ Alone /\ StoredListed /\ HeldListed /\ OnList

LEMMA InitListInv == Init => ListInv
<1> SUFFICES ASSUME Init PROVE ListInv  OBVIOUS
<1>1. \A t \in Task : pc[t] = "idle"  BY DEF Init
<1>2. \A p \in Player, x \in Ip : ~Has(p, x)  BY DEF Init, Has
<1> QED BY <1>1, <1>2, InitTyped DEF ListInv, Alone, StoredListed, HeldListed, OnList, Holding

LEMMA ListInvLists == ListInv => DocumentsAreListed
<1> SUFFICES ASSUME ListInv, Quiet, NEW p \in Player,
                    NEW x \in players[p] \cup UNION {redis[p][k] : k \in Key}
             PROVE  p \in identity[x]
  BY DEF DocumentsAreListed
<1>1. Has(p, x) /\ x \in Ip  BY DEF Has, ListInv, Typed, TypeOfStore
<1> QED BY <1>1 DEF ListInv, StoredListed, OwesFor, Owes, Quiet

\* If the task at work owes nothing, whatever is stored is listed;
LEMMA NothingOwed ==
  ASSUME ListInv, NEW t \in Task, \A u \in Task : u # t => pc[u] = "idle", ~Owes(t)
  PROVE  \A p \in Player, x \in Ip : Has(p, x) => p \in identity[x]
<1>1. \A u \in Task : ~Owes(u)  BY DEF Owes
<1> QED BY <1>1 DEF ListInv, StoredListed, OwesFor

\* and it stays so if what the task does to the stores and holds is listed.
LEMMA StaysListed ==
  ASSUME NEW t \in Task, \A u \in Task : u # t => pc'[u] = "idle",
         \A p \in Player, x \in Ip : Has(p, x)' => p \in identity'[x] \/ OwesFor(t, p, x)',
         pc'[t] \in Holding =>
           \A x \in copy'[t] : who'[t] \in identity'[x] \/ (newIp'[t] /\ x = ip'[t]),
         pc'[t] \in {"identity", "list"} => newIp'[t],
         pc'[t] = "list" => list'[t] = identity'[ip'[t]] \cup {who'[t]}
  PROVE  StoredListed' /\ HeldListed' /\ OnList'
<1>1. StoredListed'  BY DEF StoredListed
<1>2. HeldListed'  BY DEF HeldListed, Holding
<1>3. OnList'  BY DEF OnList
<1> QED BY <1>1, <1>2, <1>3

LEMMA FindsListed ==
  ASSUME ListInv, NEW t \in Task,
         \A u \in Task : u # t => pc[u] = "idle" /\ pc'[u] = "idle", ~Owes(t),
         UNCHANGED <<players, redis, identity>>, pc'[t] \notin {"cache", "identity", "list"},
         pc'[t] \in Holding =>
           \A x \in copy'[t] : who'[t] \in identity[x] \/ (newIp'[t] /\ x = ip'[t])
  PROVE  StoredListed' /\ HeldListed' /\ OnList'
<1>1. \A p \in Player, x \in Ip : Has(p, x)' => p \in identity'[x]
  BY NothingOwed DEF Has
<1> QED BY <1>1, StaysListed

LEMMA SavePlayerListed ==
  ASSUME ListInv, NEW t \in Task,
         \A u \in Task : u # t => pc[u] = "idle" /\ pc'[u] = "idle", SavePlayer(t)
  PROVE  StoredListed' /\ HeldListed' /\ OnList'
<1> USE DEF ListInv, Typed
<1>1. /\ pc[t] = "save" /\ who[t] \in Player
      /\ players' = [players EXCEPT ![who[t]] = copy[t]] /\ UNCHANGED <<redis, identity>>
  BY SavePlayerFacts
<1>2. \A x \in copy[t] : who[t] \in identity[x] \/ (newIp[t] /\ x = ip[t])
  BY <1>1 DEF HeldListed, Holding
<1>3. \A p \in Player, x \in Ip : Has(p, x) => p \in identity[x]
  BY <1>1, NothingOwed DEF Owes
<1>4. \A p \in Player, x \in Ip : Has(p, x)' => Has(p, x) \/ (p = who[t] /\ x \in copy[t])
  BY <1>1 DEF Has, TypeOfStore
<1>5. \A p \in Player, x \in Ip :
        Has(p, x)' => p \in identity'[x] \/ (p = who[t] /\ newIp[t] /\ x = ip[t])
  BY <1>1, <1>2, <1>3, <1>4
<1>6. CASE ip[t] = NoIp /\ Forget(t)
  <2>1. \A x \in Ip : x # ip[t]  BY <1>6, AdmissionAssumption
  <2>2. pc'[t] = "idle"  BY <1>6, ForgetType
  <2> QED BY <1>5, <2>1, <2>2, StaysListed DEF Holding
<1>7. CASE pc'[t] = "cache" /\ UNCHANGED <<edit, who, ip, copy, newIp, list, banned, pun>>
  <2>1. \A p \in Player, x \in Ip : Has(p, x)' => p \in identity'[x] \/ OwesFor(t, p, x)'
    BY <1>5, <1>7 DEF OwesFor, Owes
  <2> QED BY <1>1, <1>2, <1>7, <2>1, StaysListed
<1> QED BY <1>6, <1>7, SavePlayerFacts

LEMMA CachePlayerListed ==
  ASSUME ListInv, NEW t \in Task,
         \A u \in Task : u # t => pc[u] = "idle" /\ pc'[u] = "idle", CachePlayer(t)
  PROVE  StoredListed' /\ HeldListed' /\ OnList'
<1> USE DEF ListInv, Typed
<1>1. /\ pc[t] = "cache" /\ who[t] \in Player /\ edit[t].to \in Key
      /\ redis' = [redis EXCEPT ![who[t]][edit[t].to] = copy[t]] \/ redis' = redis
      /\ UNCHANGED <<players, identity>>
  BY CachePlayerFacts
<1>2. \A x \in copy[t] : who[t] \in identity[x] \/ (newIp[t] /\ x = ip[t])
  BY <1>1 DEF HeldListed, Holding
<1>3. \A u \in Task : u # t => ~Owes(u)  BY DEF Owes
<1>4. \A p \in Player, x \in Ip :
        Has(p, x) => p \in identity[x] \/ (p = who[t] /\ newIp[t] /\ x = ip[t])
  BY <1>3 DEF StoredListed, OwesFor, Owes
<1>5. \A p \in Player, x \in Ip : Has(p, x)' => Has(p, x) \/ (p = who[t] /\ x \in copy[t])
  BY <1>1 DEF Has, TypeOfStore
<1>6. \A p \in Player, x \in Ip :
        Has(p, x)' => p \in identity'[x] \/ (p = who[t] /\ newIp[t] /\ x = ip[t])
  BY <1>1, <1>2, <1>4, <1>5
<1>7. CASE ip[t] = NoIp /\ Forget(t)
  <2>1. \A x \in Ip : x # ip[t]  BY <1>7, AdmissionAssumption
  <2>2. pc'[t] = "idle"  BY <1>7, ForgetType
  <2> QED BY <1>6, <2>1, <2>2, StaysListed DEF Holding
<1>8. CASE /\ pc'[t] = IF newIp[t] THEN "identity" ELSE "answer"
           /\ UNCHANGED <<edit, who, ip, copy, newIp, list, banned, pun>>
  <2>1. \A p \in Player, x \in Ip : Has(p, x)' => p \in identity'[x] \/ OwesFor(t, p, x)'
    BY <1>6, <1>8 DEF OwesFor, Owes
  <2> QED BY <1>8, <2>1, StaysListed DEF Holding
<1> QED BY <1>7, <1>8, CachePlayerFacts

LEMMA IdentityListed ==
  ASSUME ListInv, NEW t \in Task,
         \A u \in Task : u # t => pc[u] = "idle" /\ pc'[u] = "idle",
         ReadIdentity(t) \/ SaveIdentity(t)
  PROVE  StoredListed' /\ HeldListed' /\ OnList'
<1> USE DEF ListInv, Typed
<1>1. /\ pc[t] \in {"identity", "list"} /\ who[t] \in Player /\ ip[t] \in Ip /\ newIp[t]
      /\ UNCHANGED <<players, redis, who, ip, newIp>>
  BY DEF ReadIdentity, SaveIdentity, store, OnList, TypeOfTasks, Asking
<1>2. \A u \in Task : u # t => ~Owes(u)  BY DEF Owes
<1>3. \A p \in Player, x \in Ip : Has(p, x) => p \in identity[x] \/ (p = who[t] /\ x = ip[t])
  BY <1>2 DEF StoredListed, OwesFor
<1>4. \A p \in Player, x \in Ip : Has(p, x)' <=> Has(p, x)  BY <1>1 DEF Has
<1>5. CASE ReadIdentity(t)
  <2>1. /\ pc'[t] = "list" /\ identity' = identity
        /\ list'[t] = identity[ip[t]] \cup {who[t]}
    BY <1>5 DEF ReadIdentity, Goto, store, TypeOfTasks
  <2>2. \A p \in Player, x \in Ip : Has(p, x)' => p \in identity'[x] \/ OwesFor(t, p, x)'
    BY <1>1, <1>3, <1>4, <2>1 DEF OwesFor, Owes
  <2> QED BY <1>1, <2>1, <2>2, StaysListed DEF Holding
<1>6. CASE SaveIdentity(t)
  <2>1. /\ pc'[t] = "answer" /\ pc[t] = "list"
        /\ identity' = [identity EXCEPT ![ip[t]] = list[t]]
    BY <1>6 DEF SaveIdentity, Goto, TypeOfTasks
  <2>2. list[t] = identity[ip[t]] \cup {who[t]}  BY <2>1 DEF OnList
  <2>3. \A x \in Ip : identity'[x] = IF x = ip[t] THEN identity[x] \cup {who[t]} ELSE identity[x]
    BY <2>1, <2>2 DEF TypeOfStore
  <2>4. \A p \in Player, x \in Ip : Has(p, x)' => p \in identity'[x]
    BY <1>3, <1>4, <2>3
  <2> QED BY <2>1, <2>4, StaysListed DEF Holding
<1> QED BY <1>5, <1>6

LEMMA NextListInv == InTurn /\ ListInv /\ [Next]_vars => ListInv'
<1> SUFFICES ASSUME InTurn, ListInv, [Next]_vars PROVE ListInv'  OBVIOUS
<1>0. Typed /\ Alone /\ Typed'  BY NextTyped DEF ListInv
<1>2. ASSUME UNCHANGED <<task, players, redis, identity>> PROVE ListInv'
  BY <1>0, <1>2 DEF ListInv, Alone, StoredListed, HeldListed, OnList, Has, Owes, OwesFor,
                    Holding, task
<1>3. ASSUME NEW t \in Task, Step(t) PROVE Alone' /\ StoredListed' /\ HeldListed' /\ OnList'
  <2> DEFINE Goal == StoredListed' /\ HeldListed' /\ OnList'
  <2>0. Alone' /\ \A u \in Task : u # t => pc[u] = "idle" /\ pc'[u] = "idle"
    BY <1>0, <1>3, NextAlone
  <2>1. ASSUME NEW p \in mode.players, NEW x \in mode.ips, Prelogin(t, p, x) PROVE Goal
    <3>1. pc[t] = "idle" /\ pc'[t] = "find" /\ UNCHANGED <<players, redis, identity>>
      BY <1>0, <2>1 DEF Prelogin, May, Goto, store, Typed, TypeOfTasks
    <3> QED BY <2>0, <3>1, FindsListed DEF Owes, Holding
  <2>2. CASE Answer(t) \/ SavePunishment(t)
    <3>1. pc'[t] = "idle"  BY <1>0, <2>2, ForgetType DEF Answer, SavePunishment
    <3>2. pc[t] \in {"answer", "revert"} /\ UNCHANGED <<players, redis, identity>>
      BY <2>2 DEF Answer, SavePunishment, store
    <3> QED BY <2>0, <3>1, <3>2, FindsListed DEF Owes, Holding
  <2>3. CASE FindPunishment(t)
    <3>1. pc[t] = "idle" /\ pc'[t] = "revert" /\ UNCHANGED <<players, redis, identity>>
      BY <1>0, <2>3 DEF FindPunishment, May, Goto, store, Typed, TypeOfTasks
    <3> QED BY <2>0, <3>1, FindsListed DEF Owes, Holding
  <2>4. CASE FindPlayer(t)
    <3>1. /\ pc[t] = "find" /\ who[t] \in Player /\ ip[t] \in Ip
          /\ UNCHANGED <<players, redis, identity, who, ip>>
          /\ copy'[t] = players[who[t]] \cup {ip[t]}
          /\ newIp'[t] = (ip[t] \notin players[who[t]])
          /\ pc'[t] \in {"save", "punishments"}
      BY <1>0, <2>4 DEF FindPlayer, Goto, store, Asking, Typed, TypeOfTasks
    <3>2. \A x \in players[who[t]] : who[t] \in identity[x]
      BY <1>0, <2>0, <3>1, NothingOwed DEF Owes, Has, Typed, TypeOfStore
    <3>3. \A x \in copy'[t] : who'[t] \in identity[x] \/ (newIp'[t] /\ x = ip'[t])
      BY <3>1, <3>2
    <3> QED BY <2>0, <3>1, <3>3, FindsListed DEF Owes
  <2>5. CASE FindPunishments(t) \/ FindIpPunishments(t)
    <3>1. /\ pc[t] \in {"punishments", "address"} /\ pc'[t] \in {"address", "save"}
          /\ UNCHANGED <<players, redis, identity, who, ip, copy, newIp>>
      BY <1>0, <2>5 DEF FindPunishments, FindIpPunishments, Goto, store, Typed, TypeOfTasks
    <3>2. \A x \in copy[t] : who[t] \in identity[x] \/ (newIp[t] /\ x = ip[t])
      BY <3>1 DEF ListInv, HeldListed, Holding
    <3> QED BY <2>0, <3>1, <3>2, FindsListed DEF Owes
  <2>6. ASSUME NEW p \in mode.players, NEW e \in Edits, FindDocument(t, p, e) PROVE Goal
    <3>1. /\ p \in Player /\ who'[t] = p /\ pc[t] = "idle" /\ pc'[t] \in {"save", "cache"}
          /\ copy'[t] \subseteq Ip
          /\ copy'[t] = players[p] \/ \E k \in Key : copy'[t] = redis[p][k]
          /\ UNCHANGED <<players, redis, identity>>
      BY <1>0, <2>6, FindDocumentFacts DEF store
    <3>2. \A q \in Player, x \in Ip : Has(q, x) => q \in identity[x]
      BY <2>0, <3>1, NothingOwed DEF Owes
    <3>3. \A x \in copy'[t] : x \in Ip /\ Has(p, x)  BY <3>1 DEF Has
    <3>4. \A x \in copy'[t] : who'[t] \in identity'[x]  BY <3>1, <3>2, <3>3
    <3>5. \A q \in Player, x \in Ip : Has(q, x)' => q \in identity'[x]
      BY <3>1, <3>2 DEF Has
    <3> QED BY <2>0, <3>1, <3>4, <3>5, StaysListed
  <2>7. CASE SavePlayer(t)  BY <2>0, <2>7, SavePlayerListed
  <2>8. CASE CachePlayer(t)  BY <2>0, <2>8, CachePlayerListed
  <2>9. CASE ReadIdentity(t) \/ SaveIdentity(t)  BY <2>0, <2>9, IdentityListed
  <2>10. ~Die(t)  BY DEF Die, InTurn
  <2> QED BY <1>3, <2>0, <2>1, <2>2, <2>3, <2>4, <2>5, <2>6, <2>7, <2>8, <2>9, <2>10 DEF Step
<1>4. ASSUME NEW kind, NEW p, NEW xs, NEW length, Issue(kind, p, xs, length)
      PROVE  UNCHANGED <<task, players, redis, identity>>
  BY <1>4 DEF Issue
<1>5. Tick \/ UNCHANGED vars => UNCHANGED <<task, players, redis, identity>>
  BY DEF Tick, vars, store
<1> QED BY <1>0, <1>2, <1>3, <1>4, <1>5 DEF Next, ListInv

\* Of requests that follow each other and do not fail: whenever none is at work,
\* every address in a player's document, or in any copy of it that Redis may
\* still bring back, lists the player, whichever keys players are edited by.
THEOREM AddressesAreListed == Spec => []DocumentsAreListed
<1> DEFINE Inv == InTurn => ListInv
<1>1. Init => Inv  BY InitListInv
<1>2. Inv /\ [Next]_vars => Inv'  BY InTurnStays, NextListInv
<1>3. Inv => DocumentsAreListed  BY ListInvLists DEF InTurn, DocumentsAreListed
<1> QED BY <1>1, <1>2, <1>3, PTL DEF Spec

-----------------------------------------------------------------------------
(* If players are edited by name only, no address is lost either.          *)

InTurnByName == InTurn /\ mode.keys \subseteq {"name"}

\* prelogin refreshes player:<name>, so nobody reads an older copy there than
\* Mongo has,
Fresh ==
  \A p \in Player : \/ redis[p]["name"] \in {{}, players[p]}
                    \/ \E t \in Task : pc[t] = "cache" /\ who[t] = p

\* and nobody saves one.
Current ==
  \A t \in Task :
    /\ pc[t] \in {"punishments", "address", "save"} => players[who[t]] \subseteq copy[t]
    /\ pc[t] = "cache" \/ (pc[t] = "save" /\ ~Comes(t)) => copy[t] = players[who[t]]
    /\ pc[t] \in {"save", "cache"} => edit[t].to \in {"none", "name"}

\* Whom an address lists, or is about to, has it.
ListedHave ==
  /\ \A x \in Ip : \A p \in identity[x] : x \in players[p]
  /\ \A t \in Task : pc[t] \in {"identity", "list"} => ip[t] \in players[who[t]]
  /\ \A t \in Task : pc[t] = "list" => \A p \in list[t] : ip[t] \in players[p]

MatchInv == Typed /\ Alone /\ Fresh /\ Current /\ ListedHave

LEMMA InitMatch == Init => MatchInv
<1> SUFFICES ASSUME Init PROVE MatchInv  OBVIOUS
<1>1. \A t \in Task : pc[t] = "idle"  BY DEF Init
<1>2. \A p \in Player : redis[p]["name"] = {}  BY DEF Init, Key
<1> QED BY <1>1, <1>2, InitTyped DEF Init, MatchInv, Alone, Fresh, Current, ListedHave

LEMMA ListMatchMatches == ListInv /\ MatchInv => IdentitiesMatch
<1> SUFFICES ASSUME ListInv, MatchInv, Quiet, NEW x \in Ip
             PROVE  identity[x] = {p \in Player : x \in players[p]}
  BY DEF IdentitiesMatch
<1>1. \A p \in Player : x \in players[p] => p \in identity[x]
  BY DEF ListInv, StoredListed, Has, OwesFor, Owes, Quiet
<1>2. \A p \in identity[x] : p \in Player /\ x \in players[p]
  BY DEF MatchInv, ListedHave, Typed, TypeOfStore
<1> QED BY <1>1, <1>2

\* A step that writes no document and no list, and caches nothing
LEMMA FindsMatch ==
  ASSUME MatchInv, NEW t \in Task,
         \A u \in Task : u # t => pc[u] = "idle" /\ pc'[u] = "idle",
         UNCHANGED <<players, redis, identity>>, pc[t] # "cache",
         pc'[t] \notin {"identity", "list"},
         /\ pc'[t] \in {"punishments", "address", "save"} => players[who'[t]] \subseteq copy'[t]
         /\ pc'[t] = "cache" \/ (pc'[t] = "save" /\ ip'[t] = NoIp) => copy'[t] = players[who'[t]]
         /\ pc'[t] \in {"save", "cache"} => edit'[t].to \in {"none", "name"}
  PROVE  Fresh' /\ Current' /\ ListedHave'
<1>1. Fresh'
  <2>1. \A u \in Task : pc[u] # "cache"  OBVIOUS
  <2> QED BY <2>1 DEF MatchInv, Fresh
<1>2. Current'  BY DEF Current, Comes
<1>3. ListedHave'  BY DEF MatchInv, ListedHave
<1> QED BY <1>1, <1>2, <1>3

LEMMA SavePlayerMatch ==
  ASSUME MatchInv, NEW t \in Task,
         \A u \in Task : u # t => pc[u] = "idle" /\ pc'[u] = "idle", SavePlayer(t)
  PROVE  Fresh' /\ Current' /\ ListedHave'
<1> USE DEF MatchInv, Typed
<1>1. /\ pc[t] = "save" /\ who[t] \in Player
      /\ players' = [players EXCEPT ![who[t]] = copy[t]] /\ UNCHANGED <<redis, identity>>
  BY SavePlayerFacts
<1>2. /\ players[who[t]] \subseteq copy[t]
      /\ ~Comes(t) => copy[t] = players[who[t]]
      /\ edit[t].to \in {"none", "name"}
  BY <1>1 DEF Current
<1>3. \A p \in Player : players'[p] = IF p = who[t] THEN copy[t] ELSE players[p]
  BY <1>1 DEF TypeOfStore
<1>4. \A p \in Player : players[p] \subseteq players'[p]  BY <1>2, <1>3
<1>5. \A p \in Player : redis[p]["name"] \in {{}, players[p]}
  BY <1>1 DEF Fresh
<1>6. \A x \in Ip : \A p \in identity'[x] : x \in players'[p]
  BY <1>1, <1>4 DEF ListedHave, TypeOfStore
<1>7. CASE ip[t] = NoIp /\ Forget(t)
  <2>1. pc'[t] = "idle"  BY <1>7, ForgetType
  <2>2. \A p \in Player : players'[p] = players[p]  BY <1>2, <1>3, <1>7 DEF Comes
  <2>3. Fresh'  BY <1>1, <1>5, <2>2 DEF Fresh
  <2>4. Current'  BY <2>1 DEF Current
  <2>5. ListedHave'  BY <1>6, <2>1 DEF ListedHave
  <2> QED BY <2>3, <2>4, <2>5
<1>8. CASE pc'[t] = "cache" /\ UNCHANGED <<edit, who, ip, copy, newIp, list, banned, pun>>
  <2>1. Fresh'  BY <1>1, <1>3, <1>5, <1>8 DEF Fresh
  <2>2. copy'[t] = players'[who'[t]]  BY <1>1, <1>3, <1>8
  <2>3. Current'  BY <1>2, <1>8, <2>2 DEF Current
  <2>4. ListedHave'  BY <1>6, <1>8 DEF ListedHave
  <2> QED BY <2>1, <2>3, <2>4
<1> QED BY <1>7, <1>8, SavePlayerFacts

LEMMA CachePlayerMatch ==
  ASSUME MatchInv, ~mode.mayFail, NEW t \in Task,
         \A u \in Task : u # t => pc[u] = "idle" /\ pc'[u] = "idle", CachePlayer(t)
  PROVE  Fresh' /\ Current' /\ ListedHave'
<1> USE DEF MatchInv, Typed
<1>1. /\ pc[t] = "cache" /\ who[t] \in Player /\ edit[t].to \in Key
      /\ redis' = [redis EXCEPT ![who[t]][edit[t].to] = copy[t]]
      /\ UNCHANGED <<players, identity>>
  BY CachePlayerFacts
<1>2. copy[t] = players[who[t]] /\ edit[t].to \in {"none", "name"}  BY <1>1 DEF Current
<1>3. edit[t].to = "name"  BY <1>1, <1>2 DEF Key
<1>4. \A p \in Player : redis'[p]["name"] = IF p = who[t] THEN copy[t] ELSE redis[p]["name"]
  BY <1>1, <1>3 DEF TypeOfStore
<1>5. \A p \in Player : p # who[t] => redis[p]["name"] \in {{}, players[p]}
  BY <1>1 DEF Fresh
<1>6. Fresh'  BY <1>1, <1>2, <1>4, <1>5 DEF Fresh
<1>7. CASE ip[t] = NoIp /\ Forget(t)
  <2>1. pc'[t] = "idle"  BY <1>7, ForgetType
  <2> QED BY <1>1, <1>6, <2>1 DEF Current, ListedHave
<1>8. CASE /\ Comes(t) /\ pc'[t] = IF newIp[t] THEN "identity" ELSE "answer"
           /\ UNCHANGED <<edit, who, ip, copy, newIp, list, banned, pun>>
  <2>1. ip[t] \in players[who[t]]  BY <1>1, <1>2, <1>8 DEF TypeOfTasks
  <2>2. pc'[t] \in {"identity", "answer"}  BY <1>8
  <2>3. Current'  BY <2>2 DEF Current
  <2>4. ListedHave'  BY <1>1, <1>8, <2>1, <2>2 DEF ListedHave
  <2> QED BY <1>6, <2>3, <2>4
<1> QED BY <1>7, <1>8, CachePlayerFacts

LEMMA IdentityMatch ==
  ASSUME MatchInv, NEW t \in Task,
         \A u \in Task : u # t => pc[u] = "idle" /\ pc'[u] = "idle",
         ReadIdentity(t) \/ SaveIdentity(t)
  PROVE  Fresh' /\ Current' /\ ListedHave'
<1> USE DEF MatchInv, Typed
<1>1. /\ pc[t] \in {"identity", "list"} /\ who[t] \in Player /\ ip[t] \in Ip
      /\ UNCHANGED <<players, redis, who, ip>> /\ ip[t] \in players[who[t]]
  BY DEF ReadIdentity, SaveIdentity, store, ListedHave, TypeOfTasks, Asking
<1>2. pc'[t] \in {"list", "answer"}
  BY DEF ReadIdentity, SaveIdentity, Goto, TypeOfTasks
<1>3. Fresh'
  <2>1. \A u \in Task : pc[u] # "cache"  BY <1>1
  <2> QED BY <1>1, <2>1 DEF Fresh
<1>4. Current'  BY <1>2 DEF Current
<1>5. CASE ReadIdentity(t)
  <2>1. list'[t] = identity[ip[t]] \cup {who[t]} /\ identity' = identity
    BY <1>5 DEF ReadIdentity, store, TypeOfTasks
  <2>2. \A p \in list'[t] : ip[t] \in players[p]  BY <1>1, <2>1 DEF ListedHave
  <2> QED BY <1>1, <1>3, <1>4, <2>1, <2>2 DEF ListedHave
<1>6. CASE SaveIdentity(t)
  <2>1. /\ pc[t] = "list" /\ pc'[t] = "answer"
        /\ identity' = [identity EXCEPT ![ip[t]] = list[t]]
    BY <1>6 DEF SaveIdentity, Goto, TypeOfTasks
  <2>2. \A x \in Ip : identity'[x] = IF x = ip[t] THEN list[t] ELSE identity[x]
    BY <2>1 DEF TypeOfStore
  <2>3. \A x \in Ip : \A p \in identity'[x] : x \in players[p]
    BY <2>1, <2>2 DEF ListedHave
  <2> QED BY <1>1, <1>3, <1>4, <2>1, <2>3 DEF ListedHave
<1> QED BY <1>5, <1>6

LEMMA NextMatch == InTurnByName /\ MatchInv /\ [Next]_vars => MatchInv'
<1> SUFFICES ASSUME InTurnByName, MatchInv, [Next]_vars PROVE MatchInv'  OBVIOUS
<1>0. Typed /\ Alone /\ Typed' /\ InTurn /\ ~mode.mayFail
  BY NextTyped DEF MatchInv, InTurnByName, InTurn
<1>1. ASSUME UNCHANGED <<task, players, redis, identity>> PROVE MatchInv'
  BY <1>0, <1>1 DEF MatchInv, Alone, Fresh, Current, ListedHave, Comes, task
<1>2. ASSUME NEW t \in Task, Step(t) PROVE Alone' /\ Fresh' /\ Current' /\ ListedHave'
  <2> DEFINE Goal == Fresh' /\ Current' /\ ListedHave'
  <2>0. Alone' /\ \A u \in Task : u # t => pc[u] = "idle" /\ pc'[u] = "idle"
    BY <1>0, <1>2, NextAlone
  <2>1. ASSUME NEW p \in mode.players, NEW x \in mode.ips, Prelogin(t, p, x) PROVE Goal
    <3>1. pc[t] = "idle" /\ pc'[t] = "find" /\ UNCHANGED <<players, redis, identity>>
      BY <1>0, <2>1 DEF Prelogin, May, Goto, store, Typed, TypeOfTasks
    <3> QED BY <2>0, <3>1, FindsMatch
  <2>2. CASE Answer(t) \/ SavePunishment(t)
    <3>1. pc'[t] = "idle"  BY <1>0, <2>2, ForgetType DEF Answer, SavePunishment
    <3>2. pc[t] \in {"answer", "revert"} /\ UNCHANGED <<players, redis, identity>>
      BY <2>2 DEF Answer, SavePunishment, store
    <3> QED BY <2>0, <3>1, <3>2, FindsMatch
  <2>3. CASE FindPunishment(t)
    <3>1. pc[t] = "idle" /\ pc'[t] = "revert" /\ UNCHANGED <<players, redis, identity>>
      BY <1>0, <2>3 DEF FindPunishment, May, Goto, store, Typed, TypeOfTasks
    <3> QED BY <2>0, <3>1, FindsMatch
  <2>4. CASE FindPlayer(t)
    <3>1. /\ pc[t] = "find" /\ ip'[t] # NoIp
          /\ UNCHANGED <<players, redis, identity, who, edit>>
          /\ copy'[t] = players[who[t]] \cup {ip[t]}
          /\ edit[t] = Whole
          /\ pc'[t] \in {"save", "punishments"}
      BY <1>0, <2>4, ComesType DEF FindPlayer, Goto, store, Comes, Asking, Typed, TypeOfTasks
    <3> QED BY <2>0, <3>1, FindsMatch DEF Whole
  <2>5. CASE FindPunishments(t) \/ FindIpPunishments(t)
    <3>1. /\ pc[t] \in {"punishments", "address"} /\ pc'[t] \in {"address", "save"}
          /\ ip[t] # NoIp /\ edit[t] = Whole
          /\ UNCHANGED <<players, redis, identity, who, ip, copy, edit>>
      BY <1>0, <2>5, ComesType
      DEF FindPunishments, FindIpPunishments, Goto, store, Comes, Asking, Typed, TypeOfTasks
    <3>2. players[who[t]] \subseteq copy[t]  BY <3>1 DEF MatchInv, Current
    <3> QED BY <2>0, <3>1, <3>2, FindsMatch DEF Whole
  <2>6. ASSUME NEW p \in mode.players, NEW e \in Edits, FindDocument(t, p, e) PROVE Goal
    <3>1. /\ p \in Player /\ who'[t] = p /\ edit'[t] = e /\ pc[t] = "idle"
          /\ pc'[t] \in {"save", "cache"} /\ copy'[t] = Found(p, e.from)
          /\ UNCHANGED <<players, redis, identity>>
      BY <1>0, <2>6, FindDocumentFacts DEF store
    <3>2. e.from \in {"none", "name"} /\ e.to \in {"none", "name"}
      BY <1>0, EditsType DEF InTurnByName
    <3>3. redis[p]["name"] \in {{}, players[p]}  BY <2>0, <3>1 DEF MatchInv, Fresh
    <3>4. copy'[t] = players[p]  BY <3>1, <3>2, <3>3 DEF Found
    <3> QED BY <2>0, <3>1, <3>2, <3>4, FindsMatch
  <2>7. CASE SavePlayer(t)  BY <2>0, <2>7, SavePlayerMatch
  <2>8. CASE CachePlayer(t)  BY <1>0, <2>0, <2>8, CachePlayerMatch
  <2>9. CASE ReadIdentity(t) \/ SaveIdentity(t)  BY <2>0, <2>9, IdentityMatch
  <2>10. ~Die(t)  BY <1>0 DEF Die
  <2> QED BY <1>2, <2>0, <2>1, <2>2, <2>3, <2>4, <2>5, <2>6, <2>7, <2>8, <2>9, <2>10 DEF Step
<1>3. ASSUME NEW kind, NEW p, NEW xs, NEW length, Issue(kind, p, xs, length)
      PROVE  UNCHANGED <<task, players, redis, identity>>
  BY <1>3 DEF Issue
<1>4. Tick \/ UNCHANGED vars => UNCHANGED <<task, players, redis, identity>>
  BY DEF Tick, vars, store
<1> QED BY <1>0, <1>1, <1>2, <1>3, <1>4 DEF Next, MatchInv

\* If, besides, players are edited by name and not by id: the identity of every
\* address is of exactly the players whose documents have the address, for any
\* number of players, addresses and requests.
THEOREM IdentitiesMatchDocuments == Spec => []IdentitiesMatch
<1> DEFINE Inv == (InTurn => ListInv) /\ (InTurnByName => MatchInv)
<1>1. Init => Inv  BY InitListInv, InitMatch
<1>2. ASSUME [Next]_vars PROVE InTurnByName' <=> InTurnByName
  BY <1>2, InTurnStays DEF InTurnByName
<1>3. Inv /\ [Next]_vars => Inv'  BY <1>2, InTurnStays, NextListInv, NextMatch
<1>4. Inv => IdentitiesMatch
  BY ListMatchMatches DEF InTurnByName, InTurn, IdentitiesMatch
<1> QED BY <1>1, <1>3, <1>4, PTL DEF Spec

\* The lists of addresses and the documents hold together: nobody is listed who
\* is not stored, whoever has an address is listed, and, of players edited by
\* name, nobody else is.
THEOREM AddressesAreSound == Spec => []AddressesSound
<1>1. ListedAreStored /\ DocumentsAreListed /\ IdentitiesMatch => AddressesSound
  BY DEF AddressesSound
<1> QED BY <1>1, ListedPlayersExist, AddressesAreListed, IdentitiesMatchDocuments, PTL
=============================================================================

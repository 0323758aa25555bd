------------------------------ MODULE Admission ------------------------------
(***************************************************************************)
(* Who may join: prelogin, punishments and ip identities.  Staff issue and *)
(* revert punishments while players come and time passes; prelogin reads   *)
(* the player, then the punishments of the player, then those of its       *)
(* address, answers from what it read, and keeps who used which address    *)
(* twice: in the player document and in the identity of the address.       *)
(*                                                                         *)
(* Requests overlap and may die at any await.  Of a player document the    *)
(* model keeps the addresses.  Only prelogin adds one, but every request   *)
(* that edits a player (notes, tags, ranks, perks, logins, what happens in *)
(* a match, startup) writes the document that it has read as a whole, the  *)
(* addresses included: the copy it read, in Redis, may be older than what  *)
(* it overwrites.  Players keep their names here: a former name, which     *)
(* PlayerStore has, is a key that prelogin does not refresh, as the id is. *)
(***************************************************************************)
EXTENDS Integers, FiniteSets

CONSTANTS
  Player, Ip, Task,
  Lengths,             \* of punishments; -1 is for ever
  NoPlayer, NoIp, NoPunishment,
  Modes                \* what a behaviour may be like, see Mode

Key == {"name", "id"}     \* player:<name> and player:<id> in Redis

\* Who comes from where; by which keys players are edited; does one request end
\* before the next begins?; may requests die at any await, and Redis lose what it
\* is asked?; and bounds on the clock, on what staff issue, on how often players
\* come and on how often they are edited.
Mode == [players : SUBSET Player, ips : SUBSET Ip, keys : SUBSET Key, serial : BOOLEAN,
         mayFail : BOOLEAN, time : Nat, punishments : Nat, prelogins : Nat, edits : Nat]

ASSUME AdmissionAssumption ==
  /\ NoPlayer \notin Player /\ NoIp \notin Ip
  /\ Lengths \subseteq Int
  /\ Modes \subseteq Mode

PunishmentKind == {"mute", "ban", "ip_ban"}    \* warnings and kicks are as mutes here

\* revertedAt is -1 as long as there is no reversion.
Punishment == [n : Nat, kind : PunishmentKind, target : Player, ips : SUBSET Ip,
               issuedAt : Nat, length : Int, revertedAt : Int]

ASSUME NoPunishmentAssumption == NoPunishment \notin Punishment

VARIABLES
  mode,       \* the mode of this behaviour: it never changes
  now,        \* the clock
  players,    \* collection players: the addresses in each document.  Every document has
              \* one, so none stands for no document.
  redis,      \* player:<key>: the addresses in each copy; none stands for no copy
  identity,   \* collection ip_identity: whom each address is of
  puns,       \* collection punishments
  prelogins,  \* how many prelogins were sent
  edits,      \* how many other requests that edit a player
  pc,         \* the await that each task is at
  edit,       \* where a request that edits a player reads and writes it
  who, ip,    \* whom a request is about; from where a prelogin comes
  copy,       \* the addresses that its copy of the player has
  newIp,      \* is this address one that the player did not have?
  list,       \* its copy of an identity
  banned,     \* what it has found out
  pun,        \* the punishment that a reversion has read
  arrival     \* history: when a prelogin came, whether the player was known, and
              \* which punishments there were and were lifted

store == <<players, redis, identity, puns>>
task == <<pc, edit, who, ip, copy, newIp, list, banned, pun>>
sent == <<prelogins, edits>>
vars == <<mode, now, store, sent, task, arrival>>

Serial == mode.serial

-----------------------------------------------------------------------------
(* Punishments.                                                            *)

\* Mutant of IsBan: the ban of an address is none of the player.
IsBanProper(b) == b.kind = "ban"

IsBan(b) == b.kind \in {"ban", "ip_ban"}

IsActive(b) == b.revertedAt = -1 /\ (b.length = -1 \/ now < b.issuedAt + b.length)

\* get_active_player_punishments, and the query for the address
OfPlayer(p) == {b \in puns : b.target = p /\ IsActive(b)}
OfIp(x) == {b \in puns : b.kind = "ip_ban" /\ x \in b.ips /\ IsActive(b)}

-----------------------------------------------------------------------------
(* How players are edited.                                                 *)

\* From where the document is read, is it saved in Mongo?, and by which key is
\* it cached?  "none" is no key: Mongo's document, and nothing cached.
Edit == [from : Key \cup {"none"}, saves : BOOLEAN, to : Key \cup {"none"}]

\* prelogin, and the deletion of a tag or a rank for each of its players
Whole == [from |-> "none", saves |-> TRUE, to |-> "name"]

\* Notes are written by the key that the request came with,
ByKey(k) == [from |-> k, saves |-> TRUE, to |-> k]
\* what most requests change (tags, ranks, perks, logins, logouts, achievements)
\* by the name in the document,
ByName(k) == [from |-> k, saves |-> TRUE, to |-> "name"]
\* what happens in a match by name and in Redis only,
InMatch == [from |-> "name", saves |-> FALSE, to |-> "name"]
\* the playtime that startup adds in Mongo only, and what the deletion of an
\* achievement leaves in Redis only.
AtStartup == [from |-> "name", saves |-> TRUE, to |-> "none"]
Refresh == [from |-> "none", saves |-> FALSE, to |-> "name"]

Edits == {ByKey(k) : k \in mode.keys} \cup {ByName(k) : k \in mode.keys}
           \cup {InMatch, AtStartup, Whole, Refresh}

-----------------------------------------------------------------------------
(* The tasks.                                                              *)

Known(p) == players[p] # {}

Goto(t, where) == pc' = [pc EXCEPT ![t] = where]

Quiet == \A t \in Task : pc[t] = "idle"

May(t) == pc[t] = "idle" /\ (Serial => Quiet)

Tick ==
  /\ now < mode.time
  /\ now' = now + 1
  /\ UNCHANGED <<store, sent, task, arrival>>

\* issue_punishment inserts the document with its only write, once it has found
\* the player.
Issue(kind, p, addresses, length) ==
  /\ Serial => Quiet
  /\ Known(p)
  /\ Cardinality(puns) < mode.punishments
  /\ puns' = puns \cup {[n |-> Cardinality(puns), kind |-> kind, target |-> p, ips |-> addresses,
                         issuedAt |-> now, length |-> length, revertedAt |-> -1]}
  /\ UNCHANGED <<now, players, redis, identity, sent, task, arrival>>

\* revert_pun reads the punishment,
FindPunishment(t) ==
  /\ May(t)
  /\ \E b \in puns : pun' = [pun EXCEPT ![t] = [b EXCEPT !.revertedAt = now]]
  /\ Goto(t, "revert")
  /\ UNCHANGED <<now, store, sent, edit, who, ip, copy, newIp, list, banned, arrival>>

Forget(t) ==
  /\ Goto(t, "idle")
  /\ edit' = [edit EXCEPT ![t] = Whole]
  /\ who' = [who EXCEPT ![t] = NoPlayer]
  /\ ip' = [ip EXCEPT ![t] = NoIp]
  /\ copy' = [copy EXCEPT ![t] = {}]
  /\ newIp' = [newIp EXCEPT ![t] = FALSE]
  /\ list' = [list EXCEPT ![t] = {}]
  /\ banned' = [banned EXCEPT ![t] = FALSE]
  /\ pun' = [pun EXCEPT ![t] = NoPunishment]

\* Mutant of SavePunishment: it is inserted beside the one that was read.
SavePunishmentNew(t) ==
  /\ pc[t] = "revert"
  /\ puns' = puns \cup {pun[t]}
  /\ Forget(t)
  /\ UNCHANGED <<now, players, redis, identity, sent, arrival>>

\* and saves it with the reversion.
SavePunishment(t) ==
  /\ pc[t] = "revert"
  /\ puns' = {b \in puns : b.n # pun[t].n} \cup {pun[t]}
  /\ Forget(t)
  /\ UNCHANGED <<now, players, redis, identity, sent, arrival>>

Prelogin(t, p, x) ==
  /\ May(t)
  /\ prelogins < mode.prelogins
  /\ prelogins' = prelogins + 1
  /\ who' = [who EXCEPT ![t] = p]
  /\ ip' = [ip EXCEPT ![t] = x]
  /\ arrival' = [arrival EXCEPT ![t] = [at |-> now, known |-> Known(p),
                                        there |-> {b.n : b \in puns},
                                        lifted |-> {b.n : b \in {c \in puns : c.revertedAt # -1}}]]
  /\ Goto(t, "find")
  /\ UNCHANGED <<now, store, edits, edit, copy, newIp, list, banned, pun>>

\* Database::find_by_id: a new player is not asked for punishments.
FindPlayer(t) ==
  LET old == players[who[t]]
  IN  /\ pc[t] = "find"
      /\ copy' = [copy EXCEPT ![t] = old \cup {ip[t]}]
      /\ newIp' = [newIp EXCEPT ![t] = ip[t] \notin old]
      /\ Goto(t, IF old = {} THEN "save" ELSE "punishments")
      /\ UNCHANGED <<now, store, sent, edit, who, ip, list, banned, pun, arrival>>

FindPunishments(t) ==
  /\ pc[t] = "punishments"
  /\ IF \E b \in OfPlayer(who[t]) : IsBan(b)
     THEN banned' = [banned EXCEPT ![t] = TRUE] /\ Goto(t, "save")
     ELSE Goto(t, "address") /\ UNCHANGED banned
  /\ UNCHANGED <<now, store, sent, edit, who, ip, copy, newIp, list, pun, arrival>>

\* The address is asked only if the player is not banned itself.
FindIpPunishments(t) ==
  /\ pc[t] = "address"
  /\ banned' = [banned EXCEPT ![t] = OfIp(ip[t]) # {}]
  /\ Goto(t, "save")
  /\ UNCHANGED <<now, store, sent, edit, who, ip, copy, newIp, list, pun, arrival>>

\* Anybody else reads the player with Cache::get, from Redis if there is a copy
\* (and Redis does not fail).
Found(p, from) == IF from = "none" \/ redis[p][from] = {} THEN players[p] ELSE redis[p][from]

FindDocument(t, p, e) ==
  /\ May(t)
  /\ edits < mode.edits
  /\ edits' = edits + 1
  /\ \E found \in {Found(p, e.from), Found(p, IF mode.mayFail THEN "none" ELSE e.from)} :
       /\ found # {}
       /\ copy' = [copy EXCEPT ![t] = found]
  /\ who' = [who EXCEPT ![t] = p]
  /\ edit' = [edit EXCEPT ![t] = e]
  /\ Goto(t, IF e.saves THEN "save" ELSE "cache")
  /\ UNCHANGED <<now, store, prelogins, ip, newIp, list, banned, pun, arrival>>

\* Cache::set saves the whole document,
SavePlayer(t) ==
  /\ pc[t] = "save"
  /\ players' = [players EXCEPT ![who[t]] = copy[t]]
  /\ IF edit[t].to = "none" THEN Forget(t)
     ELSE Goto(t, "cache") /\ UNCHANGED <<edit, who, ip, copy, newIp, list, banned, pun>>
  /\ UNCHANGED <<now, redis, identity, puns, sent, arrival>>

\* Mutant of Cached: prelogin refreshes player:<id>, not player:<name>.
CachedById(t) ==
  [redis EXCEPT ![who[t]][IF ip[t] = NoIp THEN edit[t].to ELSE "id"] = copy[t]]

Cached(t) == [redis EXCEPT ![who[t]][edit[t].to] = copy[t]]

\* and then in Redis.  A prelogin goes on; the others are done.
CachePlayer(t) ==
  /\ pc[t] = "cache"
  /\ \/ redis' = Cached(t)
     \/ mode.mayFail /\ UNCHANGED redis
  /\ IF ip[t] = NoIp THEN Forget(t)
     ELSE /\ Goto(t, IF newIp[t] THEN "identity" ELSE "answer")
          /\ UNCHANGED <<edit, who, ip, copy, newIp, list, banned, pun>>
  /\ UNCHANGED <<now, players, identity, puns, sent, arrival>>

\* Mutant of ReadIdentity: the identity begins anew.
ReadIdentityAnew(t) ==
  /\ pc[t] = "identity"
  /\ list' = [list EXCEPT ![t] = {who[t]}]
  /\ Goto(t, "list")
  /\ UNCHANGED <<now, store, sent, edit, who, ip, copy, newIp, banned, pun, arrival>>

\* IpIdentity::add_player_ip reads the identity,
ReadIdentity(t) ==
  /\ pc[t] = "identity"
  /\ list' = [list EXCEPT ![t] = identity[ip[t]] \cup {who[t]}]
  /\ Goto(t, "list")
  /\ UNCHANGED <<now, store, sent, edit, who, ip, copy, newIp, banned, pun, arrival>>

\* and saves it with the player.
SaveIdentity(t) ==
  /\ pc[t] = "list"
  /\ identity' = [identity EXCEPT ![ip[t]] = list[t]]
  /\ Goto(t, "answer")
  /\ UNCHANGED <<now, players, redis, puns, sent, edit, who, ip, copy, newIp, list, banned, pun,
                 arrival>>

\* The answer says that the player may join, or that it is banned.
Answer(t) ==
  /\ pc[t] = "answer"
  /\ Forget(t)
  /\ UNCHANGED <<now, store, sent, arrival>>

Die(t) ==
  /\ mode.mayFail
  /\ pc[t] # "idle"
  /\ Forget(t)
  /\ UNCHANGED <<now, store, sent, arrival>>

Init ==
  /\ mode \in Modes
  /\ now = 0
  /\ players = [p \in Player |-> {}]
  /\ redis = [p \in Player |-> [k \in Key |-> {}]]
  /\ identity = [x \in Ip |-> {}]
  /\ puns = {}
  /\ prelogins = 0 /\ edits = 0
  /\ pc = [t \in Task |-> "idle"]
  /\ edit = [t \in Task |-> Whole]
  /\ who = [t \in Task |-> NoPlayer]
  /\ ip = [t \in Task |-> NoIp]
  /\ copy = [t \in Task |-> {}]
  /\ newIp = [t \in Task |-> FALSE]
  /\ list = [t \in Task |-> {}]
  /\ banned = [t \in Task |-> FALSE]
  /\ pun = [t \in Task |-> NoPunishment]
  /\ arrival = [t \in Task |-> [at |-> 0, known |-> FALSE, there |-> {}, lifted |-> {}]]

Step(t) ==
  \/ \E p \in mode.players, x \in mode.ips : Prelogin(t, p, x)
  \/ \E p \in mode.players, e \in Edits : FindDocument(t, p, e)
  \/ FindPlayer(t) \/ FindPunishments(t) \/ FindIpPunishments(t)
  \/ SavePlayer(t) \/ CachePlayer(t)
  \/ ReadIdentity(t) \/ SaveIdentity(t) \/ Answer(t)
  \/ FindPunishment(t) \/ SavePunishment(t)
  \/ Die(t)

Next ==
  /\ \/ Tick
     \/ \E kind \in PunishmentKind, p \in mode.players, addresses \in SUBSET mode.ips,
           length \in Lengths : Issue(kind, p, addresses, length)
     \/ \E t \in Task : Step(t)
  /\ UNCHANGED mode

Spec == Init /\ [][Next]_vars

-----------------------------------------------------------------------------
(* Properties.                                                             *)

\* A reversion works on a punishment that was read, a prelogin on a player and
\* an address, any other request on a player who has an address; punishments
\* have different ids.
TypeOK ==
  /\ mode \in Modes
  /\ now \in Nat /\ prelogins \in Nat /\ edits \in Nat
  /\ players \in [Player -> SUBSET Ip]
  /\ redis \in [Player -> [Key -> SUBSET Ip]]
  /\ identity \in [Ip -> SUBSET Player]
  /\ puns \subseteq Punishment
  /\ \A b, c \in puns : b.n = c.n => b = c
  /\ pc \in [Task -> {"idle", "find", "punishments", "address", "save", "cache", "identity",
                      "list", "answer", "revert"}]
  /\ edit \in [Task -> Edit]
  /\ newIp \in [Task -> BOOLEAN] /\ banned \in [Task -> BOOLEAN]
  /\ \A t \in Task :
       /\ pc[t] = "revert" => pun[t] \in Punishment
       /\ pc[t] \notin {"idle", "revert"} => who[t] \in Player
       /\ pc[t] \notin {"idle", "revert", "save", "cache"} => ip[t] \in Ip
       /\ pc[t] \in {"save", "cache"} => ip[t] \in copy[t] \/ (ip[t] = NoIp /\ copy[t] # {})
       /\ pc[t] \in {"identity", "list", "answer"} => ip[t] \in copy[t]
       /\ pc[t] = "cache" => edit[t].to \in Key

\* Does the punishment keep the player of a prelogin, or its address, out?
Concerns(b, t) == \/ b.kind \in {"ban", "ip_ban"} /\ b.target = who[t]
                  \/ b.kind = "ip_ban" /\ ip[t] \in b.ips

\* Whatever staff do meanwhile: a player who was known when it came, and is let
\* in, is under no ban that was there when it came, neither of its own nor of
\* its address (the two queries of prelogin, the second of which is skipped).
BannedStayOut ==
  \A t \in Task :
    pc[t] = "answer" /\ ~banned[t] /\ arrival[t].known =>
      \A b \in puns : b.n \in arrival[t].there /\ Concerns(b, t) =>
        b.revertedAt # -1 \/ (b.length # -1 /\ now >= b.issuedAt + b.length)

\* Nobody is kept out by a ban that was reverted, or had expired, before the
\* player came, and no mute keeps anyone out.
RefusedForABan ==
  \A t \in Task :
    pc[t] = "answer" /\ banned[t] =>
      \E b \in puns :
        /\ Concerns(b, t)
        /\ b.n \notin arrival[t].lifted
        /\ b.length = -1 \/ arrival[t].at < b.issuedAt + b.length

\* Whoever an address is of is a player: get_alts_for_player loses nobody whom
\* it looks up.  A player is stored before its address is.
ListedAreStored == \A x \in Ip : \A p \in identity[x] : Known(p)

\* One request after the other, and none failing: whoever has an address, be it
\* in a copy that is out of date, is found by the address.
DocumentsAreListed ==
  Serial /\ ~mode.mayFail /\ Quiet =>
    \A p \in Player :
      \A x \in players[p] \cup UNION {redis[p][k] : k \in Key} : p \in identity[x]

\* The converse, only if players are edited by name and not by id: prelogin
\* refreshes player:<name>, so a copy by id may be written back without the
\* address that was added since.  Then the identities say the same as the
\* documents, so alternative accounts are found from either.
IdentitiesMatch ==
  Serial /\ ~mode.mayFail /\ mode.keys \subseteq {"name"} /\ Quiet =>
    \A x \in Ip : identity[x] = {p \in Player : x \in players[p]}

\* prelogin lets in and keeps out whom the punishments say, whatever staff do
\* while it is asking.
BansHold == BannedStayOut /\ RefusedForABan

\* The lists of addresses and the documents of players belong together.
AddressesSound == ListedAreStored /\ DocumentsAreListed /\ IdentitiesMatch
=============================================================================

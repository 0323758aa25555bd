---------------------------- MODULE Scores_proofs ----------------------------
(***************************************************************************)
(* The leaderboards and the participants of a match, for any number of     *)
(* players, tasks and parties, any calendar and clock, and tasks and       *)
(* connections that die at any time.  Both are about numbers that are to   *)
(* be kept in step over several writes, so they share the lemmas about     *)
(* sums that come first.                                                   *)
(***************************************************************************)
EXTENDS Leaderboards, Participation, FiniteSetTheorems, WellFoundedInduction, TLAPS

-----------------------------------------------------------------------------
(* Sums.  MapThenSumSet adds up a finite set by taking one element out     *)
(* after the other: it picks out a function on the subsets that says what  *)
(* each has in all.  That there is one, and how it depends on the numbers, *)
(* follows by considering the least subset, or the least number of         *)
(* elements, for which it is not so.                                       *)

Pick(s) == CHOOSE x \in s : TRUE

\* h adds up f over the subsets of S
Adds(h, f, S) ==
  h = [s \in SUBSET S |-> IF s = {} THEN 0 ELSE f[Pick(s)] + h[s \ {Pick(s)}]]

\* The sum of the numbers of f
Total(f) == (CHOOSE h : Adds(h, f, DOMAIN f))[DOMAIN f]

LEMMA Picked == \A s : s # {} => Pick(s) \in s
BY DEF Pick

\* Where a finite set has bad subsets, it has a least one.
LEMMA LeastSubset ==
  ASSUME NEW S, IsFiniteSet(S), NEW bad \in SUBSET (SUBSET S), bad # {}
  PROVE  \E s \in bad : \A r \in SUBSET s : r # s => r \notin bad
<1>1. FiniteSubsetsOf(S) = SUBSET S
  BY FS_FiniteSubsetsOfFinite
<1>2. IsWellFoundedOn(StrictSubsetOrdering(S), SUBSET S)
  BY <1>1, FS_StrictSubsetOrderingWellFounded
<1>3. PICK s \in bad : \A r \in bad : ~ (<<r, s>> \in StrictSubsetOrdering(S))
  BY <1>2, WFMin
<1>4. \A r \in bad : r \subseteq s => r = s
  BY <1>3 DEF StrictSubsetOrdering
<1> QED BY <1>4

LEMMA LeastNumber ==
  ASSUME NEW bad \in SUBSET Nat, bad # {}
  PROVE  \E n \in bad : \A i \in bad : n <= i
<1>1. PICK n \in bad : \A i \in bad : ~ (<<i, n>> \in OpToRel(<, Nat))
  BY NatLessThanWellFounded, WFMin
<1>2. \A i \in bad : ~ (i < n)
  BY <1>1 DEF OpToRel
<1> QED BY <1>2

UpTo(S, n) == {s \in SUBSET S : Cardinality(s) <= n}

AddsUpTo(h, f, S, n) ==
  /\ h \in [UpTo(S, n) -> Nat]
  /\ \A s \in UpTo(S, n) : h[s] = IF s = {} THEN 0 ELSE f[Pick(s)] + h[s \ {Pick(s)}]

LEMMA SumExists ==
  ASSUME NEW S, IsFiniteSet(S), NEW f \in [S -> Nat]
  PROVE  \E h : Adds(h, f, S)
<1>0. \A s \in SUBSET S : IsFiniteSet(s) /\ Cardinality(s) \in Nat
  BY FS_Subset, FS_CardinalityType
<1>1. \E h : AddsUpTo(h, f, S, 0)
  <2>1. UpTo(S, 0) = {{}}
    BY <1>0, FS_EmptySet DEF UpTo
  <2>2. AddsUpTo([s \in UpTo(S, 0) |-> 0], f, S, 0)
    BY <2>1 DEF AddsUpTo
  <2> QED BY <2>2
<1>2. ASSUME NEW n \in Nat, \E h : AddsUpTo(h, f, S, n)
      PROVE  \E h : AddsUpTo(h, f, S, n + 1)
  <2>1. PICK h : AddsUpTo(h, f, S, n)
    BY <1>2
  <2> DEFINE k == [s \in UpTo(S, n + 1) |->
                     IF s \in UpTo(S, n) THEN h[s] ELSE f[Pick(s)] + h[s \ {Pick(s)}]]
  <2>2. ASSUME NEW s \in UpTo(S, n + 1), s # {}
        PROVE  /\ Pick(s) \in S
               /\ s \ {Pick(s)} \in UpTo(S, n) /\ s \ {Pick(s)} \in UpTo(S, n + 1)
    <3>1. s \in SUBSET S /\ Pick(s) \in s /\ Cardinality(s) <= n + 1
      BY <2>2, Picked DEF UpTo
    <3>2. IsFiniteSet(s) /\ Cardinality(s) \in Nat
      BY <1>0, <3>1
    <3>3. Cardinality(s \ {Pick(s)}) = Cardinality(s) - 1
      BY <3>1, <3>2, FS_RemoveElement
    <3> QED BY <3>1, <3>2, <3>3 DEF UpTo
  <2>3. {} \in UpTo(S, n) /\ UpTo(S, n) \subseteq UpTo(S, n + 1)
    BY <1>0, FS_EmptySet DEF UpTo
  <2>4. ASSUME NEW s \in UpTo(S, n + 1)
        PROVE  k[s] \in Nat
    <3>1. CASE s \in UpTo(S, n)
      BY <2>1, <3>1 DEF AddsUpTo
    <3>2. CASE s \notin UpTo(S, n)
      <4>1. s # {} /\ k[s] = f[Pick(s)] + h[s \ {Pick(s)}]
        BY <2>3, <3>2
      <4> QED BY <2>1, <2>2, <4>1 DEF AddsUpTo
    <3> QED BY <3>1, <3>2
  <2>5. ASSUME NEW s \in UpTo(S, n + 1)
        PROVE  k[s] = IF s = {} THEN 0 ELSE f[Pick(s)] + k[s \ {Pick(s)}]
    <3>1. CASE s = {}
      BY <2>1, <2>3, <3>1 DEF AddsUpTo
    <3>2. CASE s # {}
      <4>1. k[s \ {Pick(s)}] = h[s \ {Pick(s)}]
        BY <2>2, <3>2
      <4>2. k[s] = f[Pick(s)] + h[s \ {Pick(s)}]
        BY <2>1, <3>2 DEF AddsUpTo
      <4> QED BY <3>2, <4>1, <4>2
    <3> QED BY <3>1, <3>2
  <2>6. k \in [UpTo(S, n + 1) -> Nat]
    BY <2>4
  <2> HIDE DEF k
  <2>7. AddsUpTo(k, f, S, n + 1)
    BY <2>5, <2>6 DEF AddsUpTo
  <2> QED BY <2>7
<1>3. \A n \in Nat : \E h : AddsUpTo(h, f, S, n)
  <2> DEFINE bad == {n \in Nat : ~ \E h : AddsUpTo(h, f, S, n)}
  <2>1. ASSUME bad # {} PROVE FALSE
    <3>1. PICK n \in bad : \A i \in bad : n <= i
      BY <2>1, LeastNumber
    <3>2. n # 0
      BY <1>1
    <3>3. n - 1 \in Nat /\ n - 1 \notin bad /\ (n - 1) + 1 = n
      BY <3>1, <3>2
    <3>4. \E h : AddsUpTo(h, f, S, n - 1)
      BY <3>3
    <3>5. \E h : AddsUpTo(h, f, S, (n - 1) + 1)
      BY <1>2, <3>3, <3>4
    <3> QED BY <3>3, <3>5
  <2> QED BY <2>1
<1>4. PICK h : AddsUpTo(h, f, S, Cardinality(S))
  <2>1. Cardinality(S) \in Nat
    BY FS_CardinalityType
  <2> QED BY <1>3, <2>1
<1>5. UpTo(S, Cardinality(S)) = SUBSET S
  BY FS_Subset DEF UpTo
<1>6. Adds(h, f, S)
  BY <1>4, <1>5 DEF AddsUpTo, Adds
<1> QED BY <1>6

\* What adds up numbers is a number.
LEMMA SumsAreNumbers ==
  ASSUME NEW S, IsFiniteSet(S), NEW f \in [S -> Nat], NEW h, Adds(h, f, S)
  PROVE  \A s \in SUBSET S : h[s] \in Nat
<1> DEFINE bad == {s \in SUBSET S : h[s] \notin Nat}
<1>1. ASSUME bad # {} PROVE FALSE
  <2>0. bad \in SUBSET (SUBSET S)
    OBVIOUS
  <2>1. PICK s \in bad : \A r \in SUBSET s : r # s => r \notin bad
    <3> HIDE DEF bad
    <3> QED BY <1>1, <2>0, LeastSubset
  <2>2. h[s] = IF s = {} THEN 0 ELSE f[Pick(s)] + h[s \ {Pick(s)}]
    BY DEF Adds
  <2>3. s # {}
    BY <2>2
  <2>4. Pick(s) \in s
    BY <2>3, Picked
  <2>5. h[s \ {Pick(s)}] \in Nat
    BY <2>1, <2>4
  <2> QED BY <2>2, <2>3, <2>4, <2>5
<1> QED BY <1>1

\* One number for another, and so the sums of the sets that have it
LEMMA SumsChange ==
  ASSUME NEW S, IsFiniteSet(S), NEW f \in [S -> Nat], NEW g \in [S -> Nat],
         NEW h, Adds(h, f, S), NEW k, Adds(k, g, S),
         NEW x \in S, \A y \in S \ {x} : g[y] = f[y]
  PROVE  \A s \in SUBSET S : k[s] = h[s] + (IF x \in s THEN g[x] - f[x] ELSE 0)
<1> DEFINE n == g[x] - f[x]
           bad == {s \in SUBSET S : k[s] # h[s] + (IF x \in s THEN n ELSE 0)}
<1>0. n \in Int /\ g[x] = f[x] + n
  OBVIOUS
<1> HIDE DEF n
<1>1. ASSUME bad # {} PROVE FALSE
  <2>0. bad \in SUBSET (SUBSET S)
    OBVIOUS
  <2>1. PICK s \in bad : \A r \in SUBSET s : r # s => r \notin bad
    <3> HIDE DEF bad
    <3> QED BY <1>1, <2>0, LeastSubset
  <2>2. /\ h[s] = IF s = {} THEN 0 ELSE f[Pick(s)] + h[s \ {Pick(s)}]
        /\ k[s] = IF s = {} THEN 0 ELSE g[Pick(s)] + k[s \ {Pick(s)}]
    BY DEF Adds
  <2>3. s # {}
    BY <2>2
  <2>4. Pick(s) \in s /\ Pick(s) \in S
    BY <2>3, Picked
  <2>5. k[s \ {Pick(s)}] = h[s \ {Pick(s)}] + (IF x \in s \ {Pick(s)} THEN n ELSE 0)
    BY <2>1, <2>4
  <2>6. h[s \ {Pick(s)}] \in Nat /\ f[Pick(s)] \in Nat
    BY <2>4, SumsAreNumbers
  <2>7. CASE Pick(s) = x
    BY <1>0, <2>2, <2>3, <2>4, <2>5, <2>6, <2>7
  <2>8. CASE Pick(s) # x
    <3>1. g[Pick(s)] = f[Pick(s)]
      BY <2>4, <2>8
    <3> QED BY <1>0, <2>2, <2>3, <2>4, <2>5, <2>6, <2>8, <3>1
  <2> QED BY <2>7, <2>8
<1> QED BY <1>1 DEF n

\* The sum of numbers is a number; it changes as one of them does; and it is 0
\* if they all are.
LEMMA TotalType ==
  ASSUME NEW S, IsFiniteSet(S), NEW f \in [S -> Nat]
  PROVE  Total(f) \in Nat
<1>1. DOMAIN f = S
  OBVIOUS
<1>2. Adds(CHOOSE h : Adds(h, f, S), f, S)
  BY SumExists
<1> QED BY <1>1, <1>2, SumsAreNumbers DEF Total

LEMMA TotalChanges ==
  ASSUME NEW S, IsFiniteSet(S), NEW f \in [S -> Nat], NEW g \in [S -> Nat],
         NEW x \in S, \A y \in S \ {x} : g[y] = f[y]
  PROVE  Total(g) = Total(f) + g[x] - f[x]
<1>1. DOMAIN f = S /\ DOMAIN g = S
  OBVIOUS
<1>2. PICK h : Adds(h, f, S) /\ Total(f) = h[S]
  BY <1>1, SumExists DEF Total
<1>3. PICK k : Adds(k, g, S) /\ Total(g) = k[S]
  BY <1>1, SumExists DEF Total
<1>4. k[S] = h[S] + (IF x \in S THEN g[x] - f[x] ELSE 0)
  BY <1>2, <1>3, SumsChange
<1>5. h[S] \in Nat /\ f[x] \in Nat /\ g[x] \in Nat
  BY <1>2, SumsAreNumbers
<1> QED BY <1>2, <1>3, <1>4, <1>5

LEMMA TotalOfZeros ==
  ASSUME NEW S, IsFiniteSet(S)
  PROVE  Total([x \in S |-> 0]) = 0
<1> DEFINE f == [x \in S |-> 0]
<1>0. DOMAIN f = S /\ f \in [S -> Nat]
  OBVIOUS
<1>1. PICK h : Adds(h, f, S) /\ Total(f) = h[S]
  BY <1>0, SumExists DEF Total
<1> DEFINE bad == {s \in SUBSET S : h[s] # 0}
<1>2. ASSUME bad # {} PROVE FALSE
  <2>0. bad \in SUBSET (SUBSET S)
    OBVIOUS
  <2>1. PICK s \in bad : \A r \in SUBSET s : r # s => r \notin bad
    <3> HIDE DEF bad
    <3> QED BY <1>2, <2>0, LeastSubset
  <2>2. h[s] = IF s = {} THEN 0 ELSE f[Pick(s)] + h[s \ {Pick(s)}]
    BY <1>1 DEF Adds
  <2>3. Pick(s) \in s /\ s # {}
    BY <2>2, Picked
  <2>4. h[s \ {Pick(s)}] = 0 /\ f[Pick(s)] = 0
    BY <2>1, <2>3
  <2> QED BY <2>2, <2>3, <2>4
<1> QED BY <1>1, <1>2

-----------------------------------------------------------------------------
(* The types of Leaderboards; that the board of all time keeps the highest *)
(* killstreak although set_if_higher compares and writes in two commands;  *)
(* that fetch_top answers with the top of a board; that the best of a day  *)
(* is not better than that of its week and of longer periods; and that the *)
(* boards that add up have as much in all in each period as in the period  *)
(* before, but for what tasks are still to enter, or died with.            *)

LEMMA PeriodFacts == /\ DOMAIN Period = 1..6
                     /\ AllTime = 6
  BY DEF Period, AllTime

LEMMA KeyOfAllTime == ASSUME NEW d PROVE Key(6, d) = All
  BY DEF Key, All, Period

LEMMA KeyOfOther == ASSUME NEW d, NEW i \in 1..5 PROVE Key(i, d) # All
<1>1. i = 1 \/ i = 2 \/ i = 3 \/ i = 4 \/ i = 5  OBVIOUS
<1> QED BY <1>1 DEF Key, All, Period

\* Where a task of a well-typed state writes
LEMMA HereIsKey == ASSUME BoardsTypeOK, NEW t \in Task
                   PROVE /\ Here(t) \in Keys
                         /\ Here(t) = All <=> turn[t] = AllTime
<1>1. today \in DOMAIN Calendar /\ turn[t] \in DOMAIN Period  BY DEF BoardsTypeOK
<1>2. Here(t) \in Keys  BY <1>1 DEF Here, Keys, KeysOf
<1>3. turn[t] = 6 \/ turn[t] \in 1..5  BY <1>1, PeriodFacts
<1>4. Here(t) = All <=> turn[t] = 6  BY <1>3, KeyOfAllTime, KeyOfOther DEF Here
<1> QED BY <1>2, <1>4, PeriodFacts

LEMMA AllIsKey == All \in Keys
<1>1. 1 \in DOMAIN Calendar  BY CalendarAssumption
<1>2. Key(6, Calendar[1]) \in KeysOf[6]  BY <1>1, PeriodFacts DEF KeysOf
<1> QED BY <1>2, KeyOfAllTime, PeriodFacts DEF Keys

-----------------------------------------------------------------------------
LEMMA BoardsInitTypeOK == BoardsInit => BoardsTypeOK
<1>1. ASSUME BoardsInit PROVE today \in DOMAIN Calendar  BY <1>1, SettingAssumption DEF BoardsInit, Setting
<1>2. 1 \in DOMAIN Period  BY PeriodFacts
<1> QED BY <1>1, <1>2 DEF BoardsInit, BoardsTypeOK

LEMMA SettingFacts == ASSUME BoardsTypeOK
                   PROVE  /\ setting.members \subseteq Member /\ setting.scores \subseteq Nat
                          /\ setting.days \subseteq DOMAIN Calendar
  BY SettingAssumption DEF BoardsTypeOK, Setting

\* The parts of BoardsTypeOK that tell about the tasks
TypeOfTasks ==
  /\ command \in [Task -> {"idle", "increment", "score", "add"}]
  /\ who \in [Task -> Member \cup {NoMember}]
  /\ amount \in [Task -> Nat]
  /\ turn \in [Task -> DOMAIN Period]
  /\ seen \in [Task -> Nat]
  /\ \A t \in Task : command[t] # "idle" => who[t] \in Member

LEMMA BeginType ==
  ASSUME BoardsTypeOK, NEW t \in Task, NEW m \in Member, NEW n \in Nat,
         NEW at \in {"increment", "score"}, Begin(t, m, n, at)
  PROVE  TypeOfTasks'
<1>1. 1 \in DOMAIN Period  BY PeriodFacts
<1> QED BY <1>1 DEF BoardsTypeOK, TypeOfTasks, Begin

LEMMA IdleType ==
  ASSUME BoardsTypeOK, NEW t \in Task, Idle(t)
  PROVE  TypeOfTasks'
  BY PeriodFacts DEF BoardsTypeOK, TypeOfTasks, Idle

LEMMA OnwardsType ==
  ASSUME BoardsTypeOK, NEW t \in Task, NEW at \in {"increment", "score"}, command[t] # "idle",
         Onwards(t, at)
  PROVE  TypeOfTasks' /\ finished' \in [Member -> Nat]
<1>1. CASE turn[t] = AllTime /\ Idle(t)
            /\ finished' = IF at = "score" THEN [finished EXCEPT ![who[t]] = Larger(@, amount[t])]
                                           ELSE finished
  <2>1. TypeOfTasks'  BY <1>1, IdleType
  <2>2. finished' \in [Member -> Nat]  BY <1>1 DEF BoardsTypeOK, Larger
  <2> QED BY <2>1, <2>2
<1>2. CASE /\ turn[t] < AllTime
           /\ turn' = [turn EXCEPT ![t] = @ + 1]
           /\ command' = [command EXCEPT ![t] = at]
           /\ seen' = [seen EXCEPT ![t] = 0]
           /\ UNCHANGED <<who, amount, finished>>
  <2>1. turn[t] + 1 \in DOMAIN Period  BY <1>2, PeriodFacts DEF BoardsTypeOK
  <2> QED BY <1>2, <2>1 DEF BoardsTypeOK, TypeOfTasks
<1> QED BY <1>1, <1>2 DEF Onwards

LEMMA BoardsNextTypeOK == BoardsTypeOK /\ [BoardsNext]_boardsVars => BoardsTypeOK'
<1> SUFFICES ASSUME BoardsTypeOK, [BoardsNext]_boardsVars PROVE BoardsTypeOK'  OBVIOUS
<1>0. setting' = setting  BY DEF BoardsNext, boardsVars
<1>1. ASSUME NEW t \in Task, NEW m \in Member, NEW n \in Nat, Increment(t, m, n)
      PROVE  BoardsTypeOK'
  <2>1. TypeOfTasks'  BY <1>1, BeginType DEF Increment
  <2>2. granted' \in [Member -> Nat]  BY <1>1 DEF Increment, BoardsTypeOK
  <2> QED BY <1>0, <1>1, <2>1, <2>2 DEF Increment, Begin, BoardsTypeOK, TypeOfTasks, boards
<1>2. ASSUME NEW t \in Task, NEW m \in Member, NEW n \in Nat, SetIfHigher(t, m, n)
      PROVE  BoardsTypeOK'
  <2>1. TypeOfTasks'  BY <1>2, BeginType DEF SetIfHigher
  <2>2. asked' \in [Member -> Nat]  BY <1>2 DEF SetIfHigher, BoardsTypeOK, Larger
  <2> QED BY <1>0, <1>2, <2>1, <2>2 DEF SetIfHigher, Begin, BoardsTypeOK, TypeOfTasks, boards
<1>3. ASSUME NEW t \in Task, ZIncrBy(t) PROVE BoardsTypeOK'
  <2>1. command[t] # "idle" /\ Onwards(t, "increment")  BY <1>3 DEF ZIncrBy
  <2>2. TypeOfTasks' /\ finished' \in [Member -> Nat]  BY <2>1, OnwardsType
  <2>3. who[t] \in Member /\ Here(t) \in Keys  BY <2>1, HereIsKey DEF BoardsTypeOK
  <2>4. total' \in [Keys -> [Member -> Nat]]  BY <1>3, <2>3 DEF ZIncrBy, BoardsTypeOK
  <2> QED BY <1>0, <1>3, <2>2, <2>4 DEF ZIncrBy, Rest, BoardsTypeOK, TypeOfTasks
<1>4. ASSUME NEW t \in Task, ZScore(t) PROVE BoardsTypeOK'
  <2>1. who[t] \in Member /\ Here(t) \in Keys  BY <1>4, HereIsKey DEF BoardsTypeOK, ZScore
  <2>2. best[Here(t)][who[t]] \in Nat  BY <2>1 DEF BoardsTypeOK
  <2>3. TypeOfTasks'  BY <1>4, <2>1, <2>2 DEF ZScore, BoardsTypeOK, TypeOfTasks
  <2> QED BY <1>0, <1>4, <2>3 DEF ZScore, Rest, boards, BoardsTypeOK, TypeOfTasks
<1>5. ASSUME NEW t \in Task, ZAdd(t) PROVE BoardsTypeOK'
  <2>1. command[t] # "idle" /\ Onwards(t, "score")  BY <1>5 DEF ZAdd
  <2>2. TypeOfTasks' /\ finished' \in [Member -> Nat]  BY <2>1, OnwardsType
  <2>3. who[t] \in Member /\ Here(t) \in Keys  BY <2>1, HereIsKey DEF BoardsTypeOK
  <2>4. best' \in [Keys -> [Member -> Nat]]  BY <1>5, <2>3 DEF ZAdd, BoardsTypeOK
  <2> QED BY <1>0, <1>5, <2>2, <2>4 DEF ZAdd, Rest, BoardsTypeOK, TypeOfTasks
<1>6. ASSUME NEW t \in Task, TaskDies(t) PROVE BoardsTypeOK'
  <2>1. TypeOfTasks'  BY <1>6, IdleType DEF TaskDies
  <2> QED BY <1>0, <1>6, <2>1 DEF TaskDies, Rest, boards, BoardsTypeOK, TypeOfTasks
<1>7. ASSUME NEW i \in DOMAIN Period, NEW n, FetchTop(i, n) PROVE BoardsTypeOK'
  BY <1>0, <1>7 DEF FetchTop, boards, tasks, history, BoardsTypeOK
<1>8. ASSUME Midnight PROVE BoardsTypeOK'
  <2>1. today' \in DOMAIN Calendar  BY <1>8, SettingFacts DEF Midnight
  <2> QED BY <1>0, <1>8, <2>1 DEF Midnight, boards, tasks, history, BoardsTypeOK
<1>9. CASE UNCHANGED boardsVars  BY <1>9 DEF boardsVars, boards, tasks, history, BoardsTypeOK
<1> QED BY <1>1, <1>2, <1>3, <1>4, <1>5, <1>6, <1>7, <1>8, <1>9, SettingFacts DEF BoardsNext, Step

\* Every reachable state of Leaderboards is well typed: no comparison of
\* set_if_higher reads what is not a score, whatever tasks do at the same time.
THEOREM BoardsTypeCorrect == BoardsSpec => []BoardsTypeOK
  BY BoardsInitTypeOK, BoardsNextTypeOK, PTL DEF BoardsSpec

-----------------------------------------------------------------------------
(* The highest killstreak.  With one task per player, what the task has    *)
(* read of the board of all time is still there when it writes.            *)

Working(t) == command[t] \in {"score", "add"}

Alone == \A t, u \in Task : command[t] # "idle" /\ command[u] # "idle" /\ who[t] = who[u] => t = u
AmountsAsked == \A t \in Task : Working(t) => amount[t] <= asked[who[t]]
ReadIsCurrent ==
  \A t \in Task : command[t] = "add" /\ turn[t] = AllTime => seen[t] = best[All][who[t]]
Kept == \A m \in Member : finished[m] <= best[All][m] /\ best[All][m] <= asked[m]

KeptInv == BoardsTypeOK /\ Alone /\ AmountsAsked /\ ReadIsCurrent /\ Kept

LEMMA InitKept == BoardsInit => KeptInv
<1> SUFFICES ASSUME BoardsInit PROVE KeptInv  OBVIOUS
<1>1. BoardsTypeOK  BY BoardsInitTypeOK
<1>2. \A t \in Task : command[t] = "idle"  BY DEF BoardsInit
<1>3. Alone /\ AmountsAsked /\ ReadIsCurrent
  BY <1>2 DEF Alone, AmountsAsked, ReadIsCurrent, Working
<1>4. Kept  BY AllIsKey DEF BoardsInit, Kept
<1> QED BY <1>1, <1>3, <1>4 DEF KeptInv

\* Who has nothing to say to the board of all time
LEMMA BeginKept ==
  ASSUME ~Overlap, KeptInv, NEW t \in Task, NEW m \in Member, NEW n \in Nat,
         NEW at \in {"increment", "score"}, Begin(t, m, n, at),
         \A l \in Member : asked'[l] \in Nat /\ asked'[l] >= asked[l],
         at = "score" => asked'[m] >= n
  PROVE  Alone' /\ AmountsAsked' /\ ReadIsCurrent' /\ Kept'
<1>1. BoardsTypeOK  BY DEF KeptInv
<1>2. \A u \in Task : u # t => command'[u] = command[u] /\ who'[u] = who[u] /\ amount'[u] = amount[u]
                                /\ turn'[u] = turn[u]
  BY <1>1 DEF Begin, BoardsTypeOK
<1>3. command'[t] = at /\ who'[t] = m /\ amount'[t] = n  BY <1>1 DEF Begin, BoardsTypeOK
<1>4. \A u \in Task : command[u] # "idle" => who[u] # m  BY DEF Begin
<1>5. seen' = seen /\ best' = best /\ finished' = finished  BY DEF Begin, boards
<1>6. Alone'  BY <1>2, <1>3, <1>4 DEF KeptInv, Alone
<1>7. AmountsAsked'
  <2> SUFFICES ASSUME NEW u \in Task, command'[u] \in {"score", "add"}
               PROVE  amount'[u] <= asked'[who'[u]]
    BY DEF AmountsAsked, Working
  <2>1. CASE u = t  BY <2>1, <1>1, <1>3
  <2>2. CASE u # t
    <3>1. amount[u] <= asked[who[u]] /\ who[u] \in Member
      BY <2>2, <1>1, <1>2 DEF KeptInv, AmountsAsked, Working, BoardsTypeOK
    <3>2. amount[u] \in Nat /\ asked[who[u]] \in Nat  BY <3>1, <1>1 DEF BoardsTypeOK
    <3> QED BY <2>2, <3>1, <3>2, <1>2
  <2> QED BY <2>1, <2>2
<1>8. ReadIsCurrent'
  BY <1>2, <1>3, <1>5 DEF KeptInv, ReadIsCurrent
<1>9. Kept'
  <2> SUFFICES ASSUME NEW l \in Member
               PROVE  finished[l] <= best[All][l] /\ best[All][l] <= asked'[l]
    BY <1>5 DEF Kept
  <2>1. finished[l] <= best[All][l] /\ best[All][l] <= asked[l]  BY DEF KeptInv, Kept
  <2>2. best[All][l] \in Nat /\ asked[l] \in Nat  BY <1>1, AllIsKey DEF BoardsTypeOK
  <2> QED BY <2>1, <2>2
<1> QED BY <1>6, <1>7, <1>8, <1>9

\* Idle, and so TaskDies and the end of an entry, gives nobody anything new to do.
LEMMA IdleKept ==
  ASSUME KeptInv, NEW t \in Task, Idle(t), asked' = asked,
         \A u \in Task : u # t /\ command[u] # "idle" => best'[All][who[u]] = best[All][who[u]]
  PROVE  Alone' /\ AmountsAsked' /\ ReadIsCurrent'
<1>1. BoardsTypeOK  BY DEF KeptInv
<1>2. \A u \in Task : u # t => command'[u] = command[u] /\ who'[u] = who[u] /\ amount'[u] = amount[u]
                                /\ turn'[u] = turn[u] /\ seen'[u] = seen[u]
  BY <1>1 DEF Idle, BoardsTypeOK
<1>3. command'[t] = "idle"  BY <1>1 DEF Idle, BoardsTypeOK
<1>4. Alone'  BY <1>2, <1>3 DEF KeptInv, Alone
<1>5. AmountsAsked'  BY <1>2, <1>3 DEF KeptInv, AmountsAsked, Working
<1>6. ReadIsCurrent'  BY <1>2, <1>3 DEF KeptInv, ReadIsCurrent
<1> QED BY <1>4, <1>5, <1>6

\* So does the way to the next period.
LEMMA TurnKept ==
  ASSUME KeptInv, NEW t \in Task, NEW at \in {"increment", "score"},
         command[t] = at \/ (command[t] = "add" /\ at = "score"),
         asked' = asked,
         \A u \in Task : u # t /\ command[u] # "idle" => best'[All][who[u]] = best[All][who[u]],
         turn' = [turn EXCEPT ![t] = @ + 1],
         command' = [command EXCEPT ![t] = at],
         seen' = [seen EXCEPT ![t] = 0],
         UNCHANGED <<who, amount>>
  PROVE  Alone' /\ AmountsAsked' /\ ReadIsCurrent'
<1>1. BoardsTypeOK  BY DEF KeptInv
<1>2. \A u \in Task : u # t => command'[u] = command[u] /\ turn'[u] = turn[u] /\ seen'[u] = seen[u]
  BY <1>1 DEF BoardsTypeOK
<1>3. command'[t] = at  BY <1>1 DEF BoardsTypeOK
<1>4. Alone'  BY <1>2, <1>3 DEF KeptInv, Alone
<1>5. AmountsAsked'  BY <1>2, <1>3 DEF KeptInv, AmountsAsked, Working
<1>6. ReadIsCurrent'  BY <1>2, <1>3 DEF KeptInv, ReadIsCurrent
<1> QED BY <1>4, <1>5, <1>6

\* What ZAdd does to the board of all time
LEMMA ZAddBest ==
  ASSUME KeptInv, NEW t \in Task, ZAdd(t)
  PROVE  /\ \A l \in Member : best'[All][l] >= best[All][l] /\ best'[All][l] <= asked[l]
         /\ \A l \in Member : l # who[t] => best'[All][l] = best[All][l]
         /\ turn[t] = AllTime => best'[All][who[t]] >= amount[t]
<1>1. BoardsTypeOK /\ who[t] \in Member  BY DEF KeptInv, BoardsTypeOK, ZAdd
<1>2. Here(t) \in Keys /\ (Here(t) = All <=> turn[t] = AllTime)  BY <1>1, HereIsKey
<1>3. amount[t] \in Nat /\ seen[t] \in Nat /\ amount[t] <= asked[who[t]]
  BY <1>1 DEF KeptInv, BoardsTypeOK, AmountsAsked, Working, ZAdd
<1>4. \A l \in Member : best[All][l] \in Nat /\ asked[l] \in Nat /\ best[All][l] <= asked[l]
  BY <1>1, AllIsKey DEF BoardsTypeOK, KeptInv, Kept
<1>5. CASE amount[t] > seen[t] /\ turn[t] = AllTime
  <2>1. best' = [best EXCEPT ![All][who[t]] = amount[t]]  BY <1>5, <1>2 DEF ZAdd
  <2>2. \A l \in Member : best'[All][l] = IF l = who[t] THEN amount[t] ELSE best[All][l]
    BY <2>1, <1>1, AllIsKey DEF BoardsTypeOK
  <2>3. seen[t] = best[All][who[t]]  BY <1>5 DEF KeptInv, ReadIsCurrent, ZAdd
  <2> QED BY <2>2, <2>3, <1>1, <1>3, <1>4, <1>5
<1>6. CASE ~(amount[t] > seen[t] /\ turn[t] = AllTime)
  <2>1. best'[All] = best[All]
    <3>1. CASE ~(amount[t] > seen[t])  BY <3>1 DEF ZAdd
    <3>2. CASE amount[t] > seen[t]
      <4>1. Here(t) # All  BY <3>2, <1>6, <1>2
      <4>2. best' = [best EXCEPT ![Here(t)][who[t]] = amount[t]]  BY <3>2 DEF ZAdd
      <4> QED BY <4>1, <4>2, <1>1, AllIsKey DEF BoardsTypeOK
    <3> QED BY <3>1, <3>2
  <2>2. turn[t] = AllTime => best[All][who[t]] >= amount[t]
    <3> SUFFICES ASSUME turn[t] = AllTime PROVE best[All][who[t]] >= amount[t]  OBVIOUS
    <3>1. seen[t] = best[All][who[t]]  BY DEF KeptInv, ReadIsCurrent, ZAdd
    <3> QED BY <3>1, <1>3, <1>6
  <2> QED BY <2>1, <2>2, <1>4
<1> QED BY <1>5, <1>6

LEMMA NextKept == ~Overlap /\ KeptInv /\ [BoardsNext]_boardsVars => KeptInv'
<1> SUFFICES ASSUME ~Overlap, KeptInv, [BoardsNext]_boardsVars PROVE KeptInv'  OBVIOUS
<1> USE DEF KeptInv
<1>0. BoardsTypeOK /\ BoardsTypeOK'  BY BoardsNextTypeOK
<1>1. ASSUME NEW t \in Task, NEW m \in Member, NEW n \in Nat, Increment(t, m, n)
      PROVE  Alone' /\ AmountsAsked' /\ ReadIsCurrent' /\ Kept'
  <2>1. Begin(t, m, n, "increment") /\ asked' = asked  BY <1>1 DEF Increment
  <2>2. \A l \in Member : asked'[l] \in Nat /\ asked'[l] >= asked[l]  BY <2>1, <1>0 DEF BoardsTypeOK
  <2> HIDE DEF KeptInv
  <2> QED BY <2>1, <2>2, BeginKept
<1>2. ASSUME NEW t \in Task, NEW m \in Member, NEW n \in Nat, SetIfHigher(t, m, n)
      PROVE  Alone' /\ AmountsAsked' /\ ReadIsCurrent' /\ Kept'
  <2>1. Begin(t, m, n, "score") /\ asked' = [asked EXCEPT ![m] = Larger(@, n)]
    BY <1>2 DEF SetIfHigher
  <2>2. \A l \in Member : asked[l] \in Nat  BY <1>0 DEF BoardsTypeOK
  <2>3. \A l \in Member : asked'[l] = IF l = m THEN Larger(asked[m], n) ELSE asked[l]
    BY <2>1, <1>0 DEF BoardsTypeOK
  <2>4. /\ \A l \in Member : asked'[l] \in Nat /\ asked'[l] >= asked[l]
        /\ asked'[m] >= n
    BY <2>2, <2>3 DEF Larger
  <2> HIDE DEF KeptInv
  <2> QED BY <2>1, <2>4, BeginKept
<1>3. ASSUME NEW t \in Task, ZIncrBy(t)
      PROVE  Alone' /\ AmountsAsked' /\ ReadIsCurrent' /\ Kept'
  <2>1. command[t] = "increment" /\ Onwards(t, "increment") /\ best' = best /\ asked' = asked
        /\ finished' = finished
    BY <1>3 DEF ZIncrBy, Rest, Onwards
  <2>2. Kept'  BY <2>1 DEF Kept
  <2>3. Alone' /\ AmountsAsked' /\ ReadIsCurrent'
    <3> HIDE DEF KeptInv
    <3>1. CASE Idle(t)  BY <2>1, <3>1, IdleKept
    <3>2. CASE ~Idle(t)  BY <2>1, <3>2, TurnKept DEF Onwards
    <3> QED BY <3>1, <3>2
  <2> QED BY <2>2, <2>3
<1>4. ASSUME NEW t \in Task, ZScore(t)
      PROVE  Alone' /\ AmountsAsked' /\ ReadIsCurrent' /\ Kept'
  <2>1. /\ command' = [command EXCEPT ![t] = "add"] /\ command[t] = "score"
        /\ seen' = [seen EXCEPT ![t] = best[Here(t)][who[t]]]
        /\ UNCHANGED <<best, who, amount, turn, finished, asked>>
    BY <1>4 DEF ZScore, Rest, boards
  <2>2. \A u \in Task : u # t => command'[u] = command[u] /\ seen'[u] = seen[u]  BY <2>1, <1>0 DEF BoardsTypeOK
  <2>3. command'[t] = "add" /\ seen'[t] = best[Here(t)][who[t]]  BY <2>1, <1>0 DEF BoardsTypeOK
  <2>4. Alone' /\ AmountsAsked' /\ Kept'
    BY <2>1, <2>2, <2>3 DEF Alone, AmountsAsked, Working, Kept
  <2>5. turn[t] = AllTime => Here(t) = All  BY <1>0, HereIsKey
  <2>6. ReadIsCurrent'  BY <2>1, <2>2, <2>3, <2>5 DEF ReadIsCurrent
  <2> QED BY <2>4, <2>6
<1>5. ASSUME NEW t \in Task, ZAdd(t)
      PROVE  Alone' /\ AmountsAsked' /\ ReadIsCurrent' /\ Kept'
  <2>1. command[t] = "add" /\ Onwards(t, "score") /\ asked' = asked /\ who[t] \in Member
    BY <1>5, <1>0 DEF ZAdd, Rest, BoardsTypeOK
  <2>2. /\ \A l \in Member : best'[All][l] >= best[All][l] /\ best'[All][l] <= asked[l]
        /\ \A l \in Member : l # who[t] => best'[All][l] = best[All][l]
        /\ turn[t] = AllTime => best'[All][who[t]] >= amount[t]
    <3> HIDE DEF KeptInv
    <3> QED BY <1>5, ZAddBest
  <2>3. \A u \in Task : u # t /\ command[u] # "idle" => best'[All][who[u]] = best[All][who[u]]
    BY <2>1, <2>2, <1>0 DEF Alone, BoardsTypeOK
  <2>4. Alone' /\ AmountsAsked' /\ ReadIsCurrent'
    <3> HIDE DEF KeptInv
    <3>1. CASE Idle(t)  BY <2>1, <2>3, <3>1, IdleKept
    <3>2. CASE ~Idle(t)  BY <2>1, <2>3, <3>2, TurnKept DEF Onwards
    <3> QED BY <3>1, <3>2
  <2>5. Kept'
    <3> SUFFICES ASSUME NEW l \in Member PROVE finished'[l] <= best'[All][l]
      BY <2>1, <2>2 DEF Kept
    <3>1. /\ finished[l] \in Nat /\ best[All][l] \in Nat /\ best'[All][l] \in Nat
          /\ amount[t] \in Nat /\ finished[l] <= best[All][l]
      BY <1>0, AllIsKey DEF BoardsTypeOK, Kept
    <3>2. finished[l] <= best'[All][l]  BY <3>1, <2>2
    <3>3. CASE turn[t] = AllTime /\ l = who[t]
      <4>1. finished'[l] = Larger(finished[l], amount[t])
            \/ finished'[l] = finished[l]
        BY <2>1, <3>3, <1>0 DEF Onwards, BoardsTypeOK
      <4> QED BY <4>1, <3>1, <3>2, <3>3, <2>2 DEF Larger
    <3>4. CASE ~(turn[t] = AllTime /\ l = who[t])
      <4>1. finished'[l] = finished[l]  BY <2>1, <3>4, <1>0 DEF Onwards, BoardsTypeOK
      <4> QED BY <4>1, <3>2
    <3> QED BY <3>3, <3>4
  <2> QED BY <2>4, <2>5
<1>6. ASSUME NEW t \in Task, TaskDies(t)
      PROVE  Alone' /\ AmountsAsked' /\ ReadIsCurrent' /\ Kept'
  <2>1. Idle(t) /\ best' = best /\ asked' = asked /\ finished' = finished
    BY <1>6 DEF TaskDies, Rest, boards
  <2>2. Kept'  BY <2>1 DEF Kept
  <2> HIDE DEF KeptInv
  <2> QED BY <2>1, <2>2, IdleKept
<1>7. ASSUME UNCHANGED <<boards, tasks, history>>
      PROVE  Alone' /\ AmountsAsked' /\ ReadIsCurrent' /\ Kept'
  BY <1>7 DEF boards, tasks, history, Alone, AmountsAsked, Working, ReadIsCurrent, Kept
<1>8. ASSUME NEW i \in DOMAIN Period, NEW n, FetchTop(i, n)
      PROVE  UNCHANGED <<boards, tasks, history>>
  BY <1>8 DEF FetchTop
<1>9. Midnight \/ UNCHANGED boardsVars => UNCHANGED <<boards, tasks, history>>
  BY DEF Midnight, boardsVars
<1> QED BY <1>0, <1>1, <1>2, <1>3, <1>4, <1>5, <1>6, <1>7, <1>8, <1>9, SettingFacts DEF BoardsNext, Step

LEMMA SameMode == [BoardsNext]_boardsVars => (Overlap' <=> Overlap)
  BY DEF BoardsNext, boardsVars, Overlap

\* For any number of tasks and players, any dates and any scores, and wherever
\* tasks die: when a player's scores come from one task at a time, the board
\* of all time keeps the highest killstreak that set_if_higher is through with.
THEOREM HighestIsKept == BoardsSpec => []HighestKept
<1> DEFINE Inv == ~Overlap => KeptInv
<1>1. BoardsInit => Inv  BY InitKept
<1>2. Inv /\ [BoardsNext]_boardsVars => Inv'  BY SameMode, NextKept
<1>3. Inv => HighestKept  BY DEF KeptInv, Kept, HighestKept
<1> QED BY <1>1, <1>2, <1>3, PTL DEF BoardsSpec

\* On the same condition, no score of all time is ever replaced by a lower one:
\* the comparison of set_if_higher still holds when its second command is sent.
THEOREM NeverLower == BoardsSpec => BestNeverDecreases
<1> DEFINE Inv == ~Overlap => KeptInv
<1>1. BoardsInit => Inv  BY InitKept
<1>2. Inv /\ [BoardsNext]_boardsVars => Inv'  BY SameMode, NextKept
<1>3. ASSUME KeptInv, [BoardsNext]_boardsVars
      PROVE  [\A m \in Member : best'[All][m] >= best[All][m]]_boardsVars
  <2>1. \A m \in Member : best[All][m] \in Nat  BY <1>3, AllIsKey DEF KeptInv, BoardsTypeOK
  <2>2. (\E t \in Task : ZAdd(t)) \/ best' = best
    BY <1>3 DEF BoardsNext, Step, Increment, SetIfHigher, Begin, ZIncrBy, ZScore, TaskDies, FetchTop,
                Midnight, boards, boardsVars
  <2>3. ASSUME NEW t \in Task, ZAdd(t)
        PROVE  \A m \in Member : best'[All][m] >= best[All][m]
    BY <1>3, <2>3, ZAddBest
  <2> QED BY <2>1, <2>2, <2>3
<1>4. Inv /\ [BoardsNext]_boardsVars => [~Overlap => \A m \in Member : best'[All][m] >= best[All][m]]_boardsVars
  BY <1>3
<1> QED BY <1>1, <1>2, <1>4, PTL DEF BoardsSpec, BestNeverDecreases

-----------------------------------------------------------------------------
(* The answers.  An answer is made in one step, so what it takes is that   *)
(* boards are finite and that the last rank of the command, which wraps    *)
(* around at a limit of 0, is never beyond the limit otherwise.            *)

FiniteBoards == \A k \in Keys : IsFiniteSet(Entries(k))

AnswerInv == BoardsTypeOK /\ FiniteBoards /\ AnswersAreTops

\* The last rank
LEMMA LastRank ==
  ASSUME NEW c \in Nat, c > 0
  PROVE  (c + Word - 1) % Word \in Nat /\ (c + Word - 1) % Word <= c - 1
<1> DEFINE w == Word  n == c + w - 1  q == n \div w  r == n % w
<1>1. w \in Nat /\ w > 0 /\ n \in Nat /\ n >= w
  BY BoundsAssumption
<1>2. q \in Int /\ r \in 0..(w - 1) /\ n = w * q + r
  BY <1>1
<1>3. q >= 1
  <2> SUFFICES ASSUME q <= 0 PROVE FALSE  BY <1>2
  <2>1. w * q <= 0  BY <1>1, <1>2
  <2> QED BY <1>1, <1>2, <2>1
<1>4. w * q >= w  BY <1>1, <1>2, <1>3
<1> QED BY <1>1, <1>2, <1>4

LEMMA ShownIsBounded ==
  ASSUME NEW c \in Nat, c > 0, NEW size \in Nat
  PROVE  Shown(c, size) \in Nat /\ Shown(c, size) <= c /\ Shown(c, size) <= size
<1> DEFINE last == (c + Word - 1) % Word
<1>1. last \in Nat /\ last <= c - 1  BY LastRank
<1>2. Shown(c, size) = IF last + 1 < size THEN last + 1 ELSE size  BY DEF Shown
<1> HIDE DEF last
<1> QED BY <1>1, <1>2

LEMMA BoardsStayFinite ==
  ASSUME BoardsTypeOK, FiniteBoards, NEW t \in Task, ZIncrBy(t)
  PROVE  FiniteBoards'
<1> SUFFICES ASSUME NEW k \in Keys PROVE IsFiniteSet(Entries(k)')  BY DEF FiniteBoards
<1>1. Entries(k)' \subseteq Entries(k) \cup {who[t]}
  BY HereIsKey DEF ZIncrBy, Entries, BoardsTypeOK
<1>2. IsFiniteSet(Entries(k) \cup {who[t]})  BY FS_AddElement DEF FiniteBoards
<1> QED BY <1>1, <1>2, FS_Subset

LEMMA AnswerStep == AnswerInv /\ [BoardsNext]_boardsVars => AnswerInv'
<1> SUFFICES ASSUME AnswerInv, [BoardsNext]_boardsVars PROVE AnswerInv'  OBVIOUS
<1>0. BoardsTypeOK /\ BoardsTypeOK'  BY BoardsNextTypeOK DEF AnswerInv
<1>1. ASSUME NEW i \in DOMAIN Period, NEW n \in Nat, FetchTop(i, n) PROVE AnswerInv'
  <2> DEFINE k == Key(i, Calendar[today])
             capped == IF n > Cap THEN Cap ELSE n
             size == Shown(capped, Cardinality(Entries(k)))
  <2>1. k \in Keys  BY <1>0 DEF BoardsTypeOK, Keys, KeysOf
  <2>2. IsFiniteSet(Entries(k)) /\ Cardinality(Entries(k)) \in Nat
    BY <2>1, FS_CardinalityType DEF AnswerInv, FiniteBoards
  <2>3. PICK top \in SUBSET Entries(k) :
          /\ Cardinality(top) = size
          /\ \A m \in top, l \in Entries(k) \ top : total[k][m] >= total[k][l]
          /\ answer' = [limit |-> n, top |-> top, scores |-> total[k]]
    BY <1>1 DEF FetchTop
  <2>4. total' = total  BY <1>1 DEF FetchTop, boards
  <2>5. ASSUME n > 0
        PROVE  Cardinality(top) <= Cap /\ Cardinality(top) <= n
    <3>1. capped \in Nat /\ capped > 0 /\ capped <= Cap /\ capped <= n
      BY <2>5, BoundsAssumption
    <3> HIDE DEF capped, k
    <3>2. size \in Nat /\ size <= capped  BY <2>2, <3>1, ShownIsBounded
    <3> QED BY <2>3, <3>1, <3>2, BoundsAssumption
  <2>6. ASSUME NEW m \in top, NEW l \in Member \ top PROVE total[k][m] >= total[k][l]
    <3>1. m \in Member /\ total[k][m] \in Nat /\ total[k][l] \in Nat
      BY <1>0, <2>1, <2>3 DEF Entries, BoardsTypeOK
    <3>2. CASE l \in Entries(k)  BY <2>3, <2>6, <3>2
    <3>3. CASE l \notin Entries(k)  BY <3>1, <3>3 DEF Entries
    <3> QED BY <3>2, <3>3
  <2>7. AnswersAreTops'
    <3> HIDE DEF k, size
    <3> QED BY <2>3, <2>5, <2>6 DEF AnswersAreTops
  <2>8. FiniteBoards'  BY <2>4 DEF AnswerInv, FiniteBoards, Entries
  <2> QED BY <1>0, <2>7, <2>8 DEF AnswerInv
<1>2. ASSUME UNCHANGED <<total, answer>> PROVE AnswerInv'
  BY <1>0, <1>2 DEF AnswerInv, FiniteBoards, Entries, AnswersAreTops
<1>3. ASSUME NEW t \in Task, ZIncrBy(t) PROVE AnswerInv'
  <2>1. answer' = answer  BY <1>3 DEF ZIncrBy, Rest
  <2>2. FiniteBoards'  BY <1>0, <1>3, BoardsStayFinite DEF AnswerInv
  <2> QED BY <1>0, <2>1, <2>2 DEF AnswerInv, AnswersAreTops
<1>4. ASSUME NEW t \in Task, ZScore(t) \/ ZAdd(t) \/ TaskDies(t) PROVE UNCHANGED <<total, answer>>
  BY <1>4 DEF ZScore, ZAdd, TaskDies, Rest, boards
<1>5. ASSUME NEW t \in Task, NEW m, NEW n, Increment(t, m, n) \/ SetIfHigher(t, m, n)
      PROVE  UNCHANGED <<total, answer>>
  BY <1>5 DEF Increment, SetIfHigher, Begin, boards
<1>6. Midnight \/ UNCHANGED boardsVars => UNCHANGED <<total, answer>>
  BY DEF Midnight, boardsVars, boards
<1>7. setting.limits \subseteq Nat  BY <1>0, SettingAssumption DEF BoardsTypeOK, Setting
<1> QED BY <1>1, <1>2, <1>3, <1>4, <1>5, <1>6, <1>7 DEF BoardsNext, Step

\* Whoever asks for at least one entry gets no more than asked for and no more
\* than the cap, and the entries with the highest scores, whatever else is
\* written at the time and for any width of the limit (0, which the command
\* takes for no limit, aside).
THEOREM AnswersAreSound == BoardsSpec => []AnswersAreTops
<1>1. BoardsInit => AnswerInv
  <2> SUFFICES ASSUME BoardsInit PROVE FiniteBoards /\ AnswersAreTops  BY BoardsInitTypeOK DEF AnswerInv
  <2>1. \A k \in Keys : Entries(k) = {}  BY DEF BoardsInit, Entries
  <2>2. FiniteBoards  BY <2>1, FS_EmptySet DEF FiniteBoards
  <2> QED BY <2>2 DEF BoardsInit, NoAnswer, AnswersAreTops
<1>2. AnswerInv => AnswersAreTops  BY DEF AnswerInv
<1> QED BY <1>1, <1>2, AnswerStep, PTL DEF BoardsSpec

-----------------------------------------------------------------------------
(* The boards of one best score.  A day is on one board of each kind, and  *)
(* its own board is written first; until the task has come to the others,  *)
(* they are Pending.                                                       *)

LEMMA SameDay ==
  ASSUME NEW c \in DOMAIN Calendar, NEW d \in DOMAIN Calendar, NEW i \in DOMAIN Period,
         Key(1, Calendar[c]) = Key(1, Calendar[d])
  PROVE  Key(i, Calendar[c]) = Key(i, Calendar[d])
<1>1. Calendar[c] \in Date /\ Calendar[d] \in Date  BY CalendarAssumption
<1>2. /\ Key(1, Calendar[c]) = <<"d", Calendar[c].year, Calendar[c].month - 1, Calendar[c].day>>
      /\ Key(1, Calendar[d]) = <<"d", Calendar[d].year, Calendar[d].month - 1, Calendar[d].day>>
  BY DEF Key, Period
<1>3. /\ Calendar[c].year = Calendar[d].year /\ Calendar[c].month - 1 = Calendar[d].month - 1
      /\ Calendar[c].day = Calendar[d].day
  BY <1>2
<1>4. Calendar[c].month = Calendar[d].month  BY <1>1, <1>3 DEF Date
<1>5. Calendar[c].week = Calendar[d].week  BY <1>3, <1>4, WeekAssumption
<1> QED BY <1>3, <1>4, <1>5 DEF Key

\* The first part of a key tells the period.
LEMMA KeysApart ==
  ASSUME NEW i \in DOMAIN Period, NEW j \in DOMAIN Period, NEW c, NEW d, Key(i, c) = Key(j, d)
  PROVE  i = j
<1> DEFINE Letter(n) == IF n = 1 THEN "d" ELSE IF n = 2 THEN "w" ELSE IF n = 3 THEN "m"
                        ELSE IF n = 4 THEN "s" ELSE IF n = 5 THEN "y" ELSE "all"
<1>1. ASSUME NEW n \in DOMAIN Period, NEW e PROVE Key(n, e)[1] = Letter(n)
  <2>1. n = 1 \/ n = 2 \/ n = 3 \/ n = 4 \/ n = 5 \/ n = 6  BY PeriodFacts
  <2> QED BY <2>1 DEF Key, Period
<1>2. Letter(i) = Letter(j)  BY <1>1
<1> QED BY <1>2, PeriodFacts

LEMMA KeyIsKey ==
  ASSUME NEW i \in DOMAIN Period, NEW d \in DOMAIN Calendar PROVE Key(i, Calendar[d]) \in Keys
  BY DEF Keys, KeysOf

\* Task t has entered its score for day d, and has yet to come to period i.
Pending(t, m, d, i) ==
  /\ Working(t) /\ who[t] = m /\ 1 < turn[t] /\ turn[t] <= i
  /\ Key(1, Calendar[d]) = Key(1, Calendar[today])
  /\ best[Key(1, Calendar[d])][m] <= amount[t]

Nest ==
  \A m \in Member, d \in DOMAIN Calendar, i \in DOMAIN Period :
    \/ best[Key(1, Calendar[d])][m] <= best[Key(i, Calendar[d])][m]
    \/ \E t \in Task : Pending(t, m, d, i)

ReadsAreCurrent == \A t \in Task : command[t] = "add" => seen[t] = best[Here(t)][who[t]]

NestOK == Nest /\ ReadsAreCurrent

\* What ZAdd does when the board is as it was read
LEMMA ZAddRaises ==
  ASSUME BoardsTypeOK, ReadsAreCurrent, NEW t \in Task, ZAdd(t), NEW k \in Keys, NEW m \in Member
  PROVE  best'[k][m] = IF k = Here(t) /\ m = who[t] THEN Larger(best[k][m], amount[t])
                                                    ELSE best[k][m]
<1>1. Here(t) \in Keys /\ who[t] \in Member  BY HereIsKey DEF BoardsTypeOK, ZAdd
<1>2. /\ seen[t] = best[Here(t)][who[t]]
      /\ amount[t] \in Nat /\ best[Here(t)][who[t]] \in Nat
  BY <1>1 DEF ReadsAreCurrent, ZAdd, BoardsTypeOK
<1>3. CASE amount[t] > seen[t]
  <2>1. best' = [best EXCEPT ![Here(t)][who[t]] = amount[t]]  BY <1>3 DEF ZAdd
  <2> QED BY <1>1, <1>2, <1>3, <2>1 DEF Larger, BoardsTypeOK
<1>4. CASE ~(amount[t] > seen[t])
  BY <1>2, <1>4 DEF ZAdd, Larger
<1> QED BY <1>3, <1>4

\* A step that leaves the best scores and the clock alone, and in which task t
\* does not start or end a board
LEMMA NestQuiet ==
  ASSUME BoardsTypeOK, NestOK, NEW t \in Task, UNCHANGED <<best, today>>,
         \A u \in Task \ {t} : /\ command'[u] = command[u] /\ who'[u] = who[u] /\ amount'[u] = amount[u]
                               /\ turn'[u] = turn[u] /\ seen'[u] = seen[u],
         \/ ~Working(t)
         \/ Working(t)' /\ who'[t] = who[t] /\ amount'[t] = amount[t] /\ turn'[t] = turn[t],
         command'[t] = "add" => seen'[t] = best[Key(turn'[t], Calendar[today])][who'[t]]
  PROVE  NestOK'
<1>1. ASSUME NEW m \in Member, NEW d \in DOMAIN Calendar, NEW i \in DOMAIN Period
      PROVE  \/ best'[Key(1, Calendar[d])][m] <= best'[Key(i, Calendar[d])][m]
             \/ \E u \in Task : Pending(u, m, d, i)'
  <2>1. CASE best[Key(1, Calendar[d])][m] <= best[Key(i, Calendar[d])][m]  BY <2>1
  <2>2. ASSUME NEW u \in Task, Pending(u, m, d, i) PROVE Pending(u, m, d, i)'
    BY <2>2 DEF Pending, Working
  <2> QED BY <2>1, <2>2 DEF NestOK, Nest
<1>2. ReadsAreCurrent'  BY DEF NestOK, ReadsAreCurrent, Here
<1> QED BY <1>1, <1>2 DEF NestOK, Nest

LEMMA NestStep ==
  ASSUME setting.steady, ~setting.mayDie, ~Overlap, KeptInv, NestOK, [BoardsNext]_boardsVars
  PROVE  NestOK'
<1>0. BoardsTypeOK /\ Alone  BY DEF KeptInv
<1>1. ASSUME NEW t \in Task, NEW m \in Member, NEW n \in Nat,
             Increment(t, m, n) \/ SetIfHigher(t, m, n)
      PROVE  NestOK'
  <2>1. /\ command[t] = "idle" /\ command'[t] # "add" /\ UNCHANGED <<best, today, seen>>
        /\ \A u \in Task \ {t} : /\ command'[u] = command[u] /\ who'[u] = who[u]
                                 /\ amount'[u] = amount[u] /\ turn'[u] = turn[u]
    BY <1>0, <1>1 DEF Increment, SetIfHigher, Begin, boards, BoardsTypeOK
  <2> QED BY <1>0, <2>1, NestQuiet DEF Working
<1>2. ASSUME NEW t \in Task, ZIncrBy(t) PROVE NestOK'
  <2>1. /\ command[t] = "increment" /\ command'[t] # "add" /\ UNCHANGED <<best, today>>
        /\ \A u \in Task \ {t} : /\ command'[u] = command[u] /\ who'[u] = who[u] /\ seen'[u] = seen[u]
                                 /\ amount'[u] = amount[u] /\ turn'[u] = turn[u]
    BY <1>0, <1>2 DEF ZIncrBy, Onwards, Idle, Rest, BoardsTypeOK
  <2> QED BY <1>0, <2>1, NestQuiet DEF Working
<1>3. ASSUME NEW t \in Task, ZScore(t) PROVE NestOK'
  <2>1. /\ command[t] = "score" /\ command'[t] = "add" /\ UNCHANGED <<best, today, who, amount, turn>>
        /\ \A u \in Task \ {t} : command'[u] = command[u] /\ seen'[u] = seen[u]
        /\ seen'[t] = best[Here(t)][who[t]]
    BY <1>0, <1>3 DEF ZScore, Rest, boards, BoardsTypeOK
  <2> QED BY <1>0, <2>1, NestQuiet DEF Working, Here
<1>4. ASSUME NEW t \in Task, ZAdd(t) PROVE NestOK'
  <2>1. /\ command[t] = "add" /\ UNCHANGED today /\ turn[t] \in 1..6 /\ who[t] \in Member
        /\ \A u \in Task \ {t} : /\ command'[u] = command[u] /\ who'[u] = who[u] /\ seen'[u] = seen[u]
                                 /\ amount'[u] = amount[u] /\ turn'[u] = turn[u]
        /\ \/ turn[t] = 6 /\ command'[t] = "idle"
           \/ /\ turn[t] < 6 /\ turn'[t] = turn[t] + 1 /\ command'[t] = "score"
              /\ who'[t] = who[t] /\ amount'[t] = amount[t]
    BY <1>0, <1>4, PeriodFacts DEF ZAdd, Onwards, Idle, Rest, BoardsTypeOK
  <2>2. ASSUME NEW k \in Keys, NEW m \in Member
        PROVE  /\ best'[k][m] = IF k = Here(t) /\ m = who[t] THEN Larger(best[k][m], amount[t])
                                                             ELSE best[k][m]
               /\ best[k][m] \in Nat /\ best'[k][m] \in Nat /\ best'[k][m] >= best[k][m]
    <3>1. best'[k][m] = IF k = Here(t) /\ m = who[t] THEN Larger(best[k][m], amount[t])
                                                     ELSE best[k][m]
      BY <1>0, <1>4, ZAddRaises DEF NestOK
    <3>2. best[k][m] \in Nat /\ amount[t] \in Nat  BY <1>0 DEF BoardsTypeOK
    <3> QED BY <3>1, <3>2 DEF Larger
  <2>3. \A u \in Task \ {t} : command[u] # "idle" => who[u] # who[t]
    BY <1>0, <2>1 DEF Alone
  <2>4. ReadsAreCurrent'
    <3> SUFFICES ASSUME NEW u \in Task, command'[u] = "add"
                 PROVE  seen'[u] = best'[Here(u)'][who'[u]]
      BY DEF ReadsAreCurrent
    <3>1. u # t  BY <2>1
    <3>2. /\ command[u] = "add" /\ Here(u)' = Here(u) /\ who[u] \in Member /\ who[u] # who[t]
          /\ seen'[u] = seen[u] /\ who'[u] = who[u] /\ Here(u) \in Keys
      BY <1>0, <2>1, <2>3, <3>1, HereIsKey DEF Here, BoardsTypeOK
    <3>3. best'[Here(u)][who[u]] = best[Here(u)][who[u]]  BY <2>2, <3>2
    <3> QED BY <3>2, <3>3 DEF NestOK, ReadsAreCurrent
  <2>5. ASSUME NEW m \in Member, NEW d \in DOMAIN Calendar, NEW i \in DOMAIN Period
        PROVE  \/ best'[Key(1, Calendar[d])][m] <= best'[Key(i, Calendar[d])][m]
               \/ \E u \in Task : Pending(u, m, d, i)'
    <3> DEFINE kd == Key(1, Calendar[d])  ki == Key(i, Calendar[d])
    <3>0. /\ kd \in Keys /\ ki \in Keys /\ i \in 1..6 /\ today \in DOMAIN Calendar
          /\ 1 \in DOMAIN Period /\ turn[t] \in DOMAIN Period
      BY <1>0, PeriodFacts, KeyIsKey DEF BoardsTypeOK
    <3>1. kd = Here(t) => turn[t] = 1 /\ kd = Key(1, Calendar[today])
      BY <3>0, KeysApart DEF Here
    \* Somebody else's pending board of m
    <3>2. ASSUME NEW u \in Task \ {t}, Pending(u, m, d, i) PROVE Pending(u, m, d, i)'
      <4>1. m # who[t]  BY <2>3, <3>2 DEF Pending, Working
      <4>2. best'[kd][m] = best[kd][m]  BY <2>2, <3>0, <4>1
      <4> QED BY <2>1, <3>2, <4>2 DEF Pending, Working
    <3>3. CASE i = 1
      BY <2>2, <3>0, <3>3
    <3>4. CASE i > 1 /\ m = who[t] /\ kd = Here(t)
      <4>1. CASE amount[t] > best[kd][m]
        <5>1. amount[t] \in Nat /\ best[kd][m] \in Nat  BY <1>0, <2>2, <3>0 DEF BoardsTypeOK
        <5>2. best'[kd][m] = amount[t]
          <6>1. best'[kd][m] = Larger(best[kd][m], amount[t])  BY <2>2, <3>0, <3>4
          <6> HIDE DEF kd
          <6> QED BY <4>1, <5>1, <6>1 DEF Larger
        <5>3. turn[t] = 1 /\ kd = Key(1, Calendar[today])  BY <3>1, <3>4
        <5>4. turn'[t] = 2 /\ command'[t] = "score"  BY <2>1, <5>3
        <5>5. Pending(t, m, d, i)'
          BY <2>1, <3>0, <3>4, <5>1, <5>2, <5>3, <5>4 DEF Pending, Working
        <5> QED BY <5>5
      <4>2. CASE ~(amount[t] > best[kd][m])
        <5>1. best'[kd][m] = best[kd][m]
          BY <2>2, <3>0, <4>2 DEF Larger
        <5>2. CASE best[kd][m] <= best[ki][m]
          BY <2>2, <3>0, <5>1, <5>2
        <5>3. ASSUME NEW u \in Task, Pending(u, m, d, i) PROVE u # t
          BY <3>1, <3>4, <5>3 DEF Pending
        <5> HIDE DEF kd, ki
        <5> QED BY <3>2, <5>2, <5>3 DEF NestOK, Nest, kd, ki
      <4> QED BY <4>1, <4>2
    <3>5. CASE ~(m = who[t] /\ kd = Here(t))
      <4>1. best'[kd][m] = best[kd][m]  BY <2>2, <3>0, <3>5
      <4>2. CASE best[kd][m] <= best[ki][m]
        BY <2>2, <3>0, <4>1, <4>2
      <4>3. CASE Pending(t, m, d, i) /\ turn[t] = i
        <5>1. ki = Here(t) /\ m = who[t]
          BY <3>0, <4>3, SameDay DEF Pending, Here
        <5>2. best'[ki][m] = Larger(best[ki][m], amount[t])  BY <2>2, <3>0, <5>1
        <5>3. best[kd][m] <= amount[t]  BY <4>3 DEF Pending
        <5>4. best[ki][m] \in Nat /\ best[kd][m] \in Nat /\ amount[t] \in Nat
          BY <1>0, <2>2, <3>0 DEF BoardsTypeOK
        <5> HIDE DEF kd, ki
        <5>5. best'[kd][m] <= best'[ki][m]  BY <4>1, <5>2, <5>3, <5>4 DEF Larger
        <5> QED BY <5>5 DEF kd, ki
      <4>4. CASE Pending(t, m, d, i) /\ turn[t] # i
        <5>1. 1 < turn[t] /\ turn[t] < i  BY <2>1, <3>0, <4>4 DEF Pending
        <5>2. turn'[t] = turn[t] + 1 /\ 1 < turn'[t] /\ turn'[t] <= i /\ command'[t] = "score"
              /\ who'[t] = who[t] /\ amount'[t] = amount[t]
          BY <2>1, <3>0, <5>1
        <5>3. Pending(t, m, d, i)'
          BY <2>1, <4>1, <4>4, <5>2 DEF Pending, Working
        <5> QED BY <5>3
      <4> HIDE DEF kd, ki
      <4> QED BY <3>2, <4>2, <4>3, <4>4 DEF NestOK, Nest, kd, ki
    <3> HIDE DEF kd, ki
    <3> QED BY <3>0, <3>3, <3>4, <3>5
  <2> QED BY <2>4, <2>5 DEF NestOK, Nest
<1>5. ASSUME NEW t \in Task, TaskDies(t) PROVE NestOK'
  BY <1>5 DEF TaskDies
<1>6. ASSUME NEW i \in DOMAIN Period, NEW n, FetchTop(i, n) PROVE NestOK'
  BY <1>6 DEF FetchTop, boards, tasks, NestOK, Nest, ReadsAreCurrent, Pending, Working, Here
<1>7. CASE Midnight
  <2>1. UNCHANGED <<best, command>> /\ \A t \in Task : command[t] = "idle"
    BY <1>7 DEF Midnight, boards, tasks
  <2> QED BY <2>1 DEF NestOK, Nest, ReadsAreCurrent, Pending, Working
<1>8. CASE UNCHANGED boardsVars
  BY <1>8 DEF boardsVars, boards, tasks, NestOK, Nest, ReadsAreCurrent, Pending, Working, Here
<1> QED BY <1>0, <1>1, <1>2, <1>3, <1>4, <1>5, <1>6, <1>7, <1>8, SettingFacts DEF BoardsNext, Step

\* When tasks neither die nor work past midnight nor enter scores of one player
\* at the same time, the best of a day is not above the best of its week, its
\* month, its season, its year and of all time, once the tasks are through: six
\* boards are written one after the other, and none of them is missed.
THEOREM BestScoresNest == BoardsSpec => []PeriodsNest
<1> DEFINE Calm == setting.steady /\ ~setting.mayDie /\ ~Overlap
           Inv == (~Overlap => KeptInv) /\ (Calm => NestOK)
<1>1. BoardsInit => Inv
  <2> SUFFICES ASSUME BoardsInit PROVE KeptInv /\ NestOK  OBVIOUS
  <2>1. Nest  BY PeriodFacts, KeyIsKey DEF BoardsInit, Nest
  <2>2. ReadsAreCurrent  BY DEF BoardsInit, ReadsAreCurrent
  <2> QED BY <2>1, <2>2, InitKept DEF NestOK
<1>2. Inv /\ [BoardsNext]_boardsVars => Inv'
  <2>1. [BoardsNext]_boardsVars => setting' = setting  BY DEF BoardsNext, boardsVars
  <2>2. [BoardsNext]_boardsVars => (Calm' <=> Calm)  BY <2>1, SameMode
  <2> QED BY <2>2, SameMode, NextKept, NestStep
<1>3. Inv => PeriodsNest
  <2> SUFFICES ASSUME Inv, Calm, \A t \in Task : command[t] = "idle",
                      NEW m \in Member, NEW d \in 1..today, NEW i \in DOMAIN Period
               PROVE  best[Key(1, Calendar[d])][m] <= best[Key(i, Calendar[d])][m]
    BY DEF PeriodsNest
  <2>1. d \in DOMAIN Calendar
    BY CalendarAssumption DEF KeptInv, BoardsTypeOK
  <2> QED BY <2>1 DEF NestOK, Nest, Pending, Working
<1> QED BY <1>1, <1>2, <1>3, PTL DEF BoardsSpec
-----------------------------------------------------------------------------
(* Scores that add up.  What increment was called with is on the way from  *)
(* the boards of one period to those of the next, and what is on the boards *)
(* of a period and on its way to them came off those of the period before. *)

\* What task t is about to enter for m on the board of period i
Worth(i, m) ==
  [t \in Task |-> IF command[t] = "increment" /\ who[t] = m /\ turn[t] = i THEN amount[t] ELSE 0]
Waiting(i, m) == Total(Worth(i, m))
Scores(i, m) == [k \in KeysOf[i] |-> total[k][m]]

\* What has come to period i, or is on its way to it
Reached(i, m) == SumOf(i, m) + Waiting(i, m)
\* What the boards of the period before i have in all
Before(i, m) == IF i = 1 THEN granted[m] ELSE SumOf(i - 1, m)

InStep ==
  \A m \in Member, i \in DOMAIN Period :
    /\ Reached(i, m) <= Before(i, m)
    /\ ~setting.mayDie => Reached(i, m) = Before(i, m)

LEMMA SumOfIs == \A i, m : SumOf(i, m) = Total(Scores(i, m))
BY ZenonT(30) DEF SumOf, MapThenSumSet, MapThenFoldSet, Total, Scores, Adds, Pick

LEMMA SumOfIsNext == (\A i, m : SumOf(i, m) = Total(Scores(i, m)))'
BY SumOfIs, PTL

LEMMA KeysFinite == ASSUME NEW i \in DOMAIN Period
                    PROVE  IsFiniteSet(KeysOf[i]) /\ KeysOf[i] \subseteq Keys
<1>1. PICK n \in Nat : DOMAIN Calendar = 1..n
  BY CalendarAssumption
<1> DEFINE key == [d \in 1..n |-> Key(i, Calendar[d])]
<1>2. IsFiniteSet(1..n)
  BY <1>1, FS_Interval
<1>3. KeysOf[i] = {key[d] : d \in 1..n}
  BY <1>1 DEF KeysOf
<1>4. key \in Surjection(1..n, KeysOf[i])
  BY <1>3 DEF Surjection
<1>5. IsFiniteSet(KeysOf[i])
  BY <1>2, <1>4, FS_Surjection
<1> QED BY <1>5 DEF Keys

LEMMA WorthType == ASSUME BoardsTypeOK, NEW i, NEW m PROVE Worth(i, m) \in [Task -> Nat]
BY DEF Worth, BoardsTypeOK

LEMMA ScoresType == ASSUME BoardsTypeOK, NEW i \in DOMAIN Period, NEW m \in Member
                    PROVE  Scores(i, m) \in [KeysOf[i] -> Nat]
BY KeysFinite DEF Scores, BoardsTypeOK

LEMMA ReachedType ==
  ASSUME BoardsTypeOK, NEW i \in DOMAIN Period, NEW m \in Member
  PROVE  SumOf(i, m) \in Nat /\ Waiting(i, m) \in Nat
<1>1. Total(Scores(i, m)) \in Nat
  BY KeysFinite, ScoresType, TotalType
<1>2. Total(Worth(i, m)) \in Nat
  BY TaskAssumption, WorthType, TotalType
<1> QED BY <1>1, <1>2, SumOfIs DEF Waiting

LEMMA ReachedTypeNext ==
  (BoardsTypeOK => \A i \in DOMAIN Period, m \in Member :
               SumOf(i, m) \in Nat /\ Waiting(i, m) \in Nat)'
<1>1. BoardsTypeOK => \A i \in DOMAIN Period, m \in Member :
                  SumOf(i, m) \in Nat /\ Waiting(i, m) \in Nat
  BY ReachedType
<1> QED BY <1>1, PTL

LEMMA BeforeType ==
  ASSUME BoardsTypeOK, NEW i \in DOMAIN Period, NEW m \in Member
  PROVE  Before(i, m) \in Nat
<1>1. i = 1 \/ i - 1 \in DOMAIN Period
  BY PeriodFacts
<1> QED BY <1>1, ReachedType DEF Before, BoardsTypeOK

\* What a step of task t does to what is waiting
LEMMA WaitingChanges ==
  ASSUME BoardsTypeOK, BoardsTypeOK', NEW t \in Task, NEW i \in DOMAIN Period, NEW m \in Member,
         \A u \in Task \ {t} : /\ command'[u] = command[u] /\ who'[u] = who[u]
                               /\ amount'[u] = amount[u] /\ turn'[u] = turn[u]
  PROVE  Waiting(i, m)' = Waiting(i, m) + Worth(i, m)'[t] - Worth(i, m)[t]
<1>1. Worth(i, m) \in [Task -> Nat]
  BY WorthType
<1>2. Worth(i, m)' \in [Task -> Nat]
  BY DEF Worth, BoardsTypeOK
<1>3. \A u \in Task \ {t} : Worth(i, m)'[u] = Worth(i, m)[u]
  BY DEF Worth
<1>4. Total(Worth(i, m)') = Total(Worth(i, m)) + Worth(i, m)'[t] - Worth(i, m)[t]
  BY <1>1, <1>2, <1>3, TaskAssumption, TotalChanges
<1> QED BY <1>4 DEF Waiting

\* A step that leaves the boards that add up as they are
LEMMA SumOfStays ==
  ASSUME NEW i, NEW m, total' = total
  PROVE  SumOf(i, m)' = SumOf(i, m)
BY SumOfIs, SumOfIsNext DEF Scores

\* What ZIncrBy does to the boards of a period
LEMMA SumOfChanges ==
  ASSUME BoardsTypeOK, BoardsTypeOK', NEW t \in Task, ZIncrBy(t), NEW i \in DOMAIN Period, NEW m \in Member
  PROVE  SumOf(i, m)' = SumOf(i, m) + Worth(i, m)[t]
<1>1. /\ Here(t) \in Keys /\ who[t] \in Member /\ command[t] = "increment"
      /\ today \in DOMAIN Calendar /\ turn[t] \in DOMAIN Period /\ amount[t] \in Nat
      /\ total' = [total EXCEPT ![Here(t)][who[t]] = @ + amount[t]]
  BY HereIsKey DEF ZIncrBy, BoardsTypeOK
<1>2. /\ IsFiniteSet(KeysOf[i]) /\ KeysOf[i] \subseteq Keys
      /\ Scores(i, m) \in [KeysOf[i] -> Nat]
  BY KeysFinite, ScoresType
<1>3. Scores(i, m)' \in [KeysOf[i] -> Nat]
  BY <1>2 DEF Scores, BoardsTypeOK
<1>4. SumOf(i, m)' = Total(Scores(i, m)') /\ SumOf(i, m) = Total(Scores(i, m))
  BY SumOfIs, SumOfIsNext
<1>5. \A k \in Keys, l \in Member :
        total'[k][l] = total[k][l] + (IF k = Here(t) /\ l = who[t] THEN amount[t] ELSE 0)
  <2>1. \A k \in Keys, l \in Member : total[k][l] \in Nat
    BY DEF BoardsTypeOK
  <2> QED BY <1>1, <2>1 DEF BoardsTypeOK
<1>6. CASE turn[t] = i /\ who[t] = m
  <2>1. Here(t) \in KeysOf[i]
    BY <1>1, <1>6 DEF Here, KeysOf
  <2>2. /\ Scores(i, m)'[Here(t)] = Scores(i, m)[Here(t)] + amount[t]
        /\ \A k \in KeysOf[i] \ {Here(t)} : Scores(i, m)'[k] = Scores(i, m)[k]
    <3>1. \A k \in KeysOf[i] \ {Here(t)} : total'[k][m] = total[k][m]
      <4>1. \A k \in Keys, l \in Member : total[k][l] \in Nat
        BY DEF BoardsTypeOK
      <4> QED BY <1>2, <1>5, <4>1
    <3>2. total'[Here(t)][m] = total[Here(t)][m] + amount[t]
      BY <1>1, <1>5, <1>6
    <3> QED BY <2>1, <3>1, <3>2 DEF Scores
  <2>3. /\ Total(Scores(i, m)')
             = Total(Scores(i, m)) + Scores(i, m)'[Here(t)] - Scores(i, m)[Here(t)]
        /\ Total(Scores(i, m)) \in Nat /\ Scores(i, m)[Here(t)] \in Nat
    BY <1>2, <1>3, <2>1, <2>2, TotalChanges, TotalType
  <2>4. Worth(i, m)[t] = amount[t]
    BY <1>1, <1>6 DEF Worth
  <2> QED BY <1>1, <1>4, <2>2, <2>3, <2>4
<1>7. CASE ~(turn[t] = i /\ who[t] = m)
  <2>1. ASSUME NEW k \in KeysOf[i], k = Here(t) PROVE turn[t] = i
    BY <1>1, <2>1, KeysApart DEF Here, KeysOf
  <2>2. \A k \in KeysOf[i] : total'[k][m] = total[k][m]
    <3>1. \A k \in Keys, l \in Member : total[k][l] \in Nat
      BY DEF BoardsTypeOK
    <3> QED BY <1>2, <1>5, <1>7, <2>1, <3>1
  <2>3. Scores(i, m)' = Scores(i, m)
    BY <2>2 DEF Scores
  <2>4. Worth(i, m)[t] = 0 /\ Total(Scores(i, m)) \in Nat
    BY <1>2, <1>7, TotalType DEF Worth
  <2> QED BY <1>4, <2>3, <2>4
<1> QED BY <1>6, <1>7

LEMMA InStepInit == ASSUME BoardsInit PROVE InStep
<1> SUFFICES ASSUME NEW m \in Member, NEW i \in DOMAIN Period
             PROVE  Reached(i, m) = Before(i, m) /\ Before(i, m) = 0
  BY DEF InStep
<1>1. Worth(i, m) = [t \in Task |-> 0]
  BY DEF BoardsInit, Worth
<1>2. ASSUME NEW j \in DOMAIN Period PROVE SumOf(j, m) = 0
  <2>1. Scores(j, m) = [k \in KeysOf[j] |-> 0]
    BY KeysFinite DEF BoardsInit, Scores
  <2> QED BY <2>1, KeysFinite, TotalOfZeros, SumOfIs
<1>3. Waiting(i, m) = 0
  BY <1>1, TaskAssumption, TotalOfZeros DEF Waiting
<1>4. i = 1 \/ i - 1 \in DOMAIN Period
  BY PeriodFacts
<1> QED BY <1>2, <1>3, <1>4 DEF BoardsInit, Reached, Before

LEMMA InStepStep == BoardsTypeOK /\ InStep /\ [BoardsNext]_boardsVars => InStep'
<1> SUFFICES ASSUME BoardsTypeOK, InStep, [BoardsNext]_boardsVars,
                    NEW m \in Member, NEW i \in DOMAIN Period
             PROVE  /\ Reached(i, m)' <= Before(i, m)'
                    /\ ~setting.mayDie => Reached(i, m)' = Before(i, m)'
  <2>1. [BoardsNext]_boardsVars => setting' = setting
    BY DEF BoardsNext, boardsVars
  <2> QED BY <2>1 DEF InStep
<1>0. BoardsTypeOK' /\ (i = 1 \/ i - 1 \in DOMAIN Period) /\ i \in 1..6
  BY BoardsNextTypeOK, PeriodFacts
<1>1. /\ Reached(i, m) <= Before(i, m)
      /\ ~setting.mayDie => Reached(i, m) = Before(i, m)
  BY DEF InStep
<1>2. /\ Reached(i, m) = SumOf(i, m) + Waiting(i, m)
      /\ SumOf(i, m) \in Nat /\ Waiting(i, m) \in Nat /\ Before(i, m) \in Nat
  BY ReachedType, BeforeType DEF Reached
<1>3. \A j, l : Reached(j, l)' = SumOf(j, l)' + Waiting(j, l)'
  BY DEF Reached
\* Steps with no score on its way
<1>4. ASSUME NEW t \in Task, UNCHANGED <<total, granted>>,
             \A u \in Task \ {t} : /\ command'[u] = command[u] /\ who'[u] = who[u]
                                   /\ amount'[u] = amount[u] /\ turn'[u] = turn[u],
             command[t] # "increment", command'[t] # "increment"
      PROVE  Reached(i, m)' = Reached(i, m) /\ Before(i, m)' = Before(i, m)
  <2>1. Worth(i, m)[t] = 0 /\ Worth(i, m)'[t] = 0
    BY <1>4 DEF Worth
  <2>2. Waiting(i, m)' = Waiting(i, m)
    BY <1>0, <1>2, <1>4, <2>1, WaitingChanges
  <2>3. Before(i, m)' = Before(i, m)
    BY <1>4, SumOfStays DEF Before
  <2> QED BY <1>2, <1>3, <1>4, <2>2, <2>3, SumOfStays
<1>5. ASSUME UNCHANGED <<total, granted, command, who, amount, turn>>
      PROVE  Reached(i, m)' = Reached(i, m) /\ Before(i, m)' = Before(i, m)
  <2>1. SumOf(i, m)' = SumOf(i, m) /\ Before(i, m)' = Before(i, m)
    BY <1>5, SumOfStays DEF Before
  <2>2. Waiting(i, m)' = Waiting(i, m)
    BY <1>5 DEF Waiting, Worth
  <2> QED BY <1>2, <1>3, <2>1, <2>2
<1>6. ASSUME NEW t \in Task, NEW l \in Member, NEW n \in Nat, Increment(t, l, n)
      PROVE  Reached(i, m)' - Reached(i, m) = Before(i, m)' - Before(i, m)
  <2>1. /\ \A u \in Task \ {t} : /\ command'[u] = command[u] /\ who'[u] = who[u]
                                 /\ amount'[u] = amount[u] /\ turn'[u] = turn[u]
        /\ command[t] = "idle" /\ command'[t] = "increment" /\ who'[t] = l /\ amount'[t] = n
        /\ turn'[t] = 1 /\ total' = total /\ granted' = [granted EXCEPT ![l] = @ + n]
    BY <1>6 DEF Increment, Begin, boards, BoardsTypeOK
  <2>2. Worth(i, m)[t] = 0 /\ Worth(i, m)'[t] = IF i = 1 /\ m = l THEN n ELSE 0
    BY <2>1 DEF Worth
  <2>3. Waiting(i, m)' = Waiting(i, m) + (IF i = 1 /\ m = l THEN n ELSE 0)
    BY <1>0, <1>2, <2>1, <2>2, WaitingChanges
  <2>4. SumOf(i, m)' = SumOf(i, m)
    BY <2>1, SumOfStays
  <2>5. Before(i, m)' = Before(i, m) + (IF i = 1 /\ m = l THEN n ELSE 0)
    <3>1. CASE i = 1
      BY <2>1, <3>1 DEF Before, BoardsTypeOK
    <3>2. CASE i # 1
      <4>1. Before(i, m)' = Before(i, m)
        BY <2>1, <3>2, SumOfStays DEF Before
      <4> QED BY <1>2, <3>2, <4>1
    <3> QED BY <3>1, <3>2
  <2> QED BY <1>2, <1>3, <2>3, <2>4, <2>5
<1>7. ASSUME NEW t \in Task, ZIncrBy(t)
      PROVE  Reached(i, m)' - Reached(i, m) = Before(i, m)' - Before(i, m)
  <2>1. /\ \A u \in Task \ {t} : /\ command'[u] = command[u] /\ who'[u] = who[u]
                                 /\ amount'[u] = amount[u] /\ turn'[u] = turn[u]
        /\ command[t] = "increment" /\ granted' = granted
        /\ \/ turn[t] = 6 /\ command'[t] = "idle"
           \/ /\ turn[t] < 6 /\ turn'[t] = turn[t] + 1 /\ command'[t] = "increment"
              /\ who'[t] = who[t] /\ amount'[t] = amount[t]
    BY <1>7, PeriodFacts DEF ZIncrBy, Onwards, Idle, Rest, BoardsTypeOK
  <2>2. SumOf(i, m)' = SumOf(i, m) + Worth(i, m)[t]
    BY <1>0, <1>7, SumOfChanges
  <2>3. Waiting(i, m)' = Waiting(i, m) + Worth(i, m)'[t] - Worth(i, m)[t]
    BY <1>0, <2>1, WaitingChanges
  <2>4. Worth(i, m)[t] \in Nat
    BY WorthType
  <2>5. turn[t] \in 1..6 /\ amount[t] \in Nat
    BY PeriodFacts DEF BoardsTypeOK
  <2>6. CASE i = 1
    <3>1. Worth(i, m)'[t] = 0
      BY <2>1, <2>5, <2>6 DEF Worth
    <3>2. Before(i, m)' = Before(i, m)
      BY <2>1, <2>6 DEF Before
    <3> QED BY <1>2, <1>3, <2>2, <2>3, <2>4, <3>1, <3>2
  <2>7. CASE i # 1
    <3>1. i - 1 \in DOMAIN Period
      BY <1>0, <2>7
    <3>2. SumOf(i - 1, m)' = SumOf(i - 1, m) + Worth(i - 1, m)[t]
      BY <1>0, <1>7, <3>1, SumOfChanges
    <3>3. Worth(i, m)'[t] = Worth(i - 1, m)[t] /\ Worth(i - 1, m)[t] \in Nat
      BY <1>0, <2>1, <2>5, <2>7 DEF Worth
    <3>4. Before(i, m)' = Before(i, m) + Worth(i - 1, m)[t]
      BY <2>7, <3>2 DEF Before
    <3> QED BY <1>2, <1>3, <2>2, <2>3, <2>4, <3>3, <3>4
  <2> QED BY <2>6, <2>7
<1>8. ASSUME NEW t \in Task, TaskDies(t)
      PROVE  /\ setting.mayDie
             /\ Reached(i, m)' <= Reached(i, m) /\ Before(i, m)' = Before(i, m)
  <2>1. /\ \A u \in Task \ {t} : /\ command'[u] = command[u] /\ who'[u] = who[u]
                                 /\ amount'[u] = amount[u] /\ turn'[u] = turn[u]
        /\ command'[t] = "idle" /\ UNCHANGED <<total, granted>> /\ setting.mayDie
    BY <1>8 DEF TaskDies, Idle, Rest, boards, BoardsTypeOK
  <2>2. Worth(i, m)'[t] = 0 /\ Worth(i, m)[t] \in Nat
    BY <2>1, WorthType DEF Worth
  <2>3. Waiting(i, m)' = Waiting(i, m) + 0 - Worth(i, m)[t]
    BY <1>0, <2>1, <2>2, WaitingChanges
  <2>4. Before(i, m)' = Before(i, m) /\ SumOf(i, m)' = SumOf(i, m)
    BY <2>1, SumOfStays DEF Before
  <2> QED BY <1>2, <1>3, <2>1, <2>2, <2>3, <2>4
<1>9. ASSUME NEW t \in Task, NEW l \in Member, NEW n \in Nat, SetIfHigher(t, l, n)
      PROVE  Reached(i, m)' = Reached(i, m) /\ Before(i, m)' = Before(i, m)
  <2>1. /\ \A u \in Task \ {t} : /\ command'[u] = command[u] /\ who'[u] = who[u]
                                 /\ amount'[u] = amount[u] /\ turn'[u] = turn[u]
        /\ command[t] = "idle" /\ command'[t] = "score" /\ UNCHANGED <<total, granted>>
    BY <1>9 DEF SetIfHigher, Begin, boards, BoardsTypeOK
  <2> QED BY <1>4, <2>1
<1>10. ASSUME NEW t \in Task, ZScore(t) \/ ZAdd(t)
       PROVE  Reached(i, m)' = Reached(i, m) /\ Before(i, m)' = Before(i, m)
  <2>1. /\ \A u \in Task \ {t} : /\ command'[u] = command[u] /\ who'[u] = who[u]
                                 /\ amount'[u] = amount[u] /\ turn'[u] = turn[u]
        /\ command[t] # "increment" /\ command'[t] # "increment" /\ UNCHANGED <<total, granted>>
    BY <1>10 DEF ZScore, ZAdd, Onwards, Idle, Rest, boards, BoardsTypeOK
  <2> QED BY <1>4, <2>1
<1>11. ASSUME NEW j \in DOMAIN Period, NEW n, FetchTop(j, n)
       PROVE  Reached(i, m)' = Reached(i, m) /\ Before(i, m)' = Before(i, m)
  BY <1>5, <1>11 DEF FetchTop, boards, tasks, history
<1>12. CASE Midnight \/ UNCHANGED boardsVars
  <2>1. UNCHANGED <<total, granted, command, who, amount, turn>>
    BY <1>12 DEF Midnight, boardsVars, boards, tasks, history
  <2> QED BY <1>1, <1>5, <2>1
<1>13. Reached(i, m)' \in Int /\ Before(i, m)' \in Int
  <2>1. \A j \in DOMAIN Period : SumOf(j, m)' \in Nat /\ Waiting(j, m)' \in Nat
    BY <1>0, ReachedTypeNext
  <2> QED BY <1>0, <1>3, <2>1 DEF Before, BoardsTypeOK
<1> QED BY <1>1, <1>2, <1>6, <1>7, <1>8, <1>9, <1>10, <1>11, <1>12, <1>13, SettingFacts DEF BoardsNext, Step

\* The boards of the periods of one score keep in step.  Whatever tasks do at
\* the same time, wherever they die and whichever dates share a key, the boards
\* of a shorter period have no less in all and nobody has more than was
\* granted; if no task dies, all of it is on the boards of every period once
\* they are through; and best scores nest.
THEOREM PeriodsStayInStep == BoardsSpec => []PeriodsInStep
<1>1. BoardsSpec => [](BoardsTypeOK /\ InStep)
  <2>1. BoardsInit => BoardsTypeOK /\ InStep
    BY BoardsInitTypeOK, InStepInit
  <2>2. BoardsTypeOK /\ InStep /\ [BoardsNext]_boardsVars => (BoardsTypeOK /\ InStep)'
    BY BoardsNextTypeOK, InStepStep
  <2> QED BY <2>1, <2>2, PTL DEF BoardsSpec
<1>2. BoardsTypeOK /\ InStep => ShorterPeriodsLead /\ PeriodsAgree
  <2> SUFFICES ASSUME BoardsTypeOK, InStep PROVE ShorterPeriodsLead /\ PeriodsAgree
    OBVIOUS
  <2>1. ASSUME NEW m \in Member, NEW i \in DOMAIN Period
        PROVE  /\ SumOf(i, m) + Waiting(i, m) <= Before(i, m)
               /\ ~setting.mayDie => SumOf(i, m) + Waiting(i, m) = Before(i, m)
               /\ SumOf(i, m) \in Nat /\ Waiting(i, m) \in Nat /\ Before(i, m) \in Nat
    BY ReachedType, BeforeType DEF InStep, Reached
  <2>2. ShorterPeriodsLead
    <3> SUFFICES ASSUME NEW m \in Member
                 PROVE  /\ SumOf(1, m) <= granted[m]
                        /\ \A i \in 1..5 : SumOf(i, m) >= SumOf(i + 1, m)
      BY PeriodFacts DEF ShorterPeriodsLead
    <3>1. SumOf(1, m) <= granted[m]
      <4>1. Before(1, m) = granted[m] /\ 1 \in DOMAIN Period
        BY PeriodFacts DEF Before
      <4> QED BY <2>1, <4>1
    <3>2. ASSUME NEW i \in 1..5 PROVE SumOf(i, m) >= SumOf(i + 1, m)
      <4>1. Before(i + 1, m) = SumOf(i, m) /\ i + 1 \in DOMAIN Period
        BY PeriodFacts DEF Before
      <4> QED BY <2>1, <4>1
    <3> QED BY <3>1, <3>2
  <2>3. PeriodsAgree
    <3> SUFFICES ASSUME ~setting.mayDie, \A t \in Task : command[t] = "idle", NEW m \in Member
                 PROVE  \A i \in DOMAIN Period : SumOf(i, m) = granted[m]
      BY DEF PeriodsAgree
    <3>1. ASSUME NEW i \in DOMAIN Period PROVE SumOf(i, m) = Before(i, m)
      <4>1. Worth(i, m) = [t \in Task |-> 0]
        BY DEF Worth
      <4>2. Waiting(i, m) = 0
        BY <4>1, TaskAssumption, TotalOfZeros DEF Waiting
      <4> QED BY <2>1, <4>2
    <3>2. SumOf(1, m) = granted[m]
      BY <3>1, PeriodFacts DEF Before
    <3>3. \A i \in 2..6 : SumOf(i, m) = SumOf(i - 1, m)
      BY <3>1, PeriodFacts DEF Before
    <3>4. /\ SumOf(2, m) = SumOf(1, m) /\ SumOf(3, m) = SumOf(2, m)
          /\ SumOf(4, m) = SumOf(3, m) /\ SumOf(5, m) = SumOf(4, m)
          /\ SumOf(6, m) = SumOf(5, m)
      BY <3>3
    <3>5. \A i \in DOMAIN Period : i = 1 \/ i = 2 \/ i = 3 \/ i = 4 \/ i = 5 \/ i = 6
      BY PeriodFacts
    <3> QED BY <3>2, <3>4, <3>5
  <2> QED BY <2>2, <2>3
<1> QED BY <1>1, <1>2, BestScoresNest, PTL DEF PeriodsInStep

-----------------------------------------------------------------------------
(* The times of participants and how results count, for any number of      *)
(* players and parties, any clock, and connections that die in the middle  *)
(* of any handler.                                                         *)
(*                                                                         *)
(* The argument for times.  A participant's times are settled up to a      *)
(* moment: the last join while the clock runs, the last leave while it     *)
(* stands.  Up to then, what was played, and what was away, fits into the  *)
(* time since the participant came (SumsOK).  A handler first adds what    *)
(* has passed since that moment and then, the clock having moved on, sets  *)
(* the moment anew; the match shows neither until it is written as a       *)
(* whole.  A match that has ended has its times settled up to the end      *)
(* (ClosedOK).                                                             *)
(*                                                                         *)
(* The argument for results.  A match ends once, and the end is written    *)
(* before anything is counted: whoever is still to be settled has one      *)
(* match less, on the boards (OnceOK) and in the player (PlayedOnce), than *)
(* were started.  A player is written as a whole, so its parts agree after *)
(* every step (AgreeOK); they are sums over the gamemodes.                 *)

Calm == Polite /\ ~mode.mayDie /\ ~Restless /\ NoParty \notin mode.seats

\* The times of a participant up to moment s
SumsOK(part, s) ==
  /\ part.playtime <= s - part.first
  /\ Polite => part.playtime + part.away <= s - part.first
  /\ Calm => part.playtime + part.away = s - part.first

Timed(part) ==
  /\ part.party # NoParty => part.joined # Never
  /\ part.joined = Never => part.left # Never

Until(part) == IF part.joined # Never THEN part.joined ELSE part.left

OpenOK(part) ==
  /\ Timed(part)
  /\ SumsOK(part, Until(part))
  /\ Polite /\ part.party = NoParty /\ part.joined # Never => part.left = Never
  /\ Calm /\ part.party = NoParty => part.joined = Never

ClosedOK(part, s) ==
  /\ Timed(part)
  /\ part.playtime <= s - part.first
  /\ Polite => part.playtime + part.away <= s - part.first

Within(part, s, t) ==
  /\ s <= part.first /\ part.first <= t
  /\ part.joined # Never => s <= part.joined /\ part.joined <= t
  /\ part.left # Never => s <= part.left /\ part.left <= t

Shape(m) ==
  /\ m \in Match
  /\ m.started <= now
  /\ m.ended # Never => m.started <= m.ended /\ m.ended <= now
  /\ \A p \in DOMAIN m.participants : Within(m.participants[p], m.started, now)

MatchOK(m) ==
  /\ Shape(m)
  /\ m.ended = Never => \A p \in DOMAIN m.participants : OpenOK(m.participants[p])
  /\ m.ended # Never => \A p \in DOMAIN m.participants : ClosedOK(m.participants[p], m.ended)

BooksOK ==
  /\ profile \in [Player -> Book] /\ board \in [Player -> Book]
  /\ xp \in [Player -> Nat]

HandOK ==
  /\ pc = "idle" => hand = NoMatch
  /\ pc # "idle" => Shape(hand)
  /\ pc \in {"party_join", "party_leave"} =>
       /\ hand.ended = Never /\ subject \in DOMAIN hand.participants
       /\ \A p \in DOMAIN hand.participants \ {subject} : OpenOK(hand.participants[p])
       /\ SumsOK(hand.participants[subject], now)
  /\ pc = "party_join" => joining \in Party
  /\ pc = "match" => hand.ended = Never
  /\ pc \in {"match", "settle", "board", "player"} => MatchOK(hand)
  /\ pc \in {"settle", "board", "player"} =>
       /\ hand.ended # Never
       /\ DOMAIN taken \subseteq Player
       /\ \A p \in DOMAIN taken : /\ taken[p] \in Participant /\ OpenOK(taken[p])
                                  /\ Within(taken[p], hand.started, hand.ended)
  /\ pc \in {"board", "player"} => subject \in DOMAIN hand.participants

TimeInv ==
  /\ mode \in Modes /\ now \in Time /\ BooksOK
  /\ pc \in {"idle", "party_join", "party_leave", "settle", "board", "player", "match"}
  /\ match = NoMatch \/ MatchOK(match)
  /\ HandOK

-----------------------------------------------------------------------------
(* Rosters.                                                                *)

Rosters == UNION {[present -> Participant] : present \in SUBSET Player}

LEMMA MatchType ==
  Match = [gamemode : Gamemode, started : Nat, ended : Nat \cup {Never}, participants : Rosters]
BY DEF Match, Rosters

\* One participant more, or another one in the place of one
LEMMA PutBack ==
  ASSUME NEW f \in Rosters, NEW p \in Player, NEW part \in Participant
  PROVE  /\ Put(f, p, part) \in Rosters
         /\ DOMAIN Put(f, p, part) = DOMAIN f \cup {p}
         /\ Put(f, p, part)[p] = part
         /\ \A q \in DOMAIN f \ {p} : Put(f, p, part)[q] = f[q]
<1>1. PICK present \in SUBSET Player : f \in [present -> Participant]
  BY DEF Rosters
<1>2. Put(f, p, part) \in [present \cup {p} -> Participant]
  BY <1>1 DEF Put
<1>3. present \cup {p} \in SUBSET Player
  OBVIOUS
<1> QED BY <1>1, <1>2, <1>3 DEF Rosters, Put

LEMMA Change ==
  ASSUME NEW f \in Rosters, NEW p \in DOMAIN f, NEW part \in Participant
  PROVE  /\ [f EXCEPT ![p] = part] \in Rosters
         /\ DOMAIN [f EXCEPT ![p] = part] = DOMAIN f
         /\ [f EXCEPT ![p] = part][p] = part
         /\ \A q \in DOMAIN f \ {p} : [f EXCEPT ![p] = part][q] = f[q]
         /\ p \in Player /\ f[p] \in Participant
BY DEF Rosters

LEMMA NobodyLeft == << >> \in Rosters /\ DOMAIN << >> = {}
<1>1. DOMAIN << >> = {} /\ << >> = [i \in {} |-> << >>[i]]
  OBVIOUS
<1>2. << >> \in [{} -> Participant] /\ {} \in SUBSET Player
  BY <1>1
<1> QED BY <1>1, <1>2 DEF Rosters

-----------------------------------------------------------------------------
(* The times of one participant.                                           *)

LEMMA ModeFacts ==
  ASSUME mode \in Modes
  PROVE  /\ mode.players \subseteq Player /\ mode.gamemodes \subseteq Gamemode
         /\ mode.seats \subseteq Party \cup {NoParty} /\ mode.time \in Nat
BY ParticipationAssumption DEF Mode

\* What is said about times does not change with the state, ...
LEMMA SameSums ==
  ASSUME UNCHANGED mode
  PROVE  /\ Calm' <=> Calm
         /\ \A part, s : SumsOK(part, s)' <=> SumsOK(part, s)
         /\ \A part : OpenOK(part)' <=> OpenOK(part)
         /\ \A part, s : ClosedOK(part, s)' <=> ClosedOK(part, s)
BY DEF Calm, Polite, Restless, SumsOK, OpenOK, ClosedOK, Timed, Until

\* ... nor does what is said about matches as time goes by.
LEMMA LaterIsFine ==
  ASSUME UNCHANGED mode, now \in Nat, now' \in Nat, now <= now'
  PROVE  \A m : (Shape(m) => Shape(m)') /\ (MatchOK(m) => MatchOK(m)')
<1>1. ASSUME NEW m, Shape(m) PROVE Shape(m)'
  <2>1. m \in Match /\ (m.ended # Never => m.ended \in Nat) /\ m.started \in Nat
    BY <1>1 DEF Shape, Match
  <2>2. ASSUME NEW p \in DOMAIN m.participants PROVE Within(m.participants[p], m.started, now')
    <3>1. m.participants \in Rosters
      BY <2>1, MatchType
    <3>2. m.participants[p] \in Participant
      BY <2>2, <3>1 DEF Rosters
    <3>3. Within(m.participants[p], m.started, now)
      BY <1>1, <2>2 DEF Shape
    <3> QED BY <2>1, <3>2, <3>3 DEF Within, Participant
  <2> QED BY <1>1, <2>1, <2>2 DEF Shape
<1>2. ASSUME NEW m, MatchOK(m) PROVE MatchOK(m)'
  BY <1>1, <1>2, SameSums DEF MatchOK
<1> QED BY <1>1, <1>2

\* While handlers may take time, nothing more is promised than inequalities.
LEMMA SumsLater ==
  ASSUME ~Calm, NEW part \in Participant, NEW s \in Nat, NEW t \in Nat, s <= t, SumsOK(part, s)
  PROVE  SumsOK(part, t)
BY DEF SumsOK, Participant

\* A participant who comes
LEMMA NewcomerOK ==
  ASSUME NEW party \in Party \cup {NoParty}, NEW t \in Nat, NEW s \in Nat, s <= t,
         Calm => party # NoParty
  PROVE  /\ FromSimple(party, t) \in Participant /\ Within(FromSimple(party, t), s, t)
         /\ FromSimple(party, t).left = Never /\ SumsOK(FromSimple(party, t), t)
         /\ OpenOK(FromSimple(party, t))
BY ParticipationAssumption
   DEF FromSimple, Participant, Within, OpenOK, Timed, SumsOK, Until

\* What on_party_join makes of a participant first ...
AwayAdded(part) ==
  [part EXCEPT !.away = IF part.left = Never THEN @ ELSE @ + (now - part.left)]

LEMMA AwayAddedOK ==
  ASSUME NEW part \in Participant, now \in Nat, NEW s \in Nat, Within(part, s, now),
         OpenOK(part), Polite => part.party = NoParty
  PROVE  /\ AwayAdded(part) \in Participant /\ Within(AwayAdded(part), s, now)
         /\ SumsOK(AwayAdded(part), now)
<1> DEFINE more == IF part.left = Never THEN part.away ELSE part.away + (now - part.left)
<1>1. more \in Nat
  BY DEF Participant, Within
<1>2. AwayAdded(part) = [part EXCEPT !.away = more]
  BY DEF AwayAdded, Participant
<1>3. /\ AwayAdded(part) \in Participant /\ AwayAdded(part).away = more
      /\ AwayAdded(part).playtime = part.playtime /\ AwayAdded(part).first = part.first
      /\ AwayAdded(part).joined = part.joined /\ AwayAdded(part).left = part.left
  BY <1>1, <1>2 DEF Participant
<1>4. SumsOK(part, Until(part)) /\ Timed(part)
  BY DEF OpenOK
<1>5. part.playtime <= now - part.first
  BY <1>4 DEF SumsOK, Until, Timed, Within, Participant
<1>6. ASSUME Polite PROVE part.playtime + more <= now - part.first
  BY <1>4, <1>6 DEF OpenOK, SumsOK, Until, Timed, Within, Participant
<1>7. ASSUME Calm PROVE part.playtime + more = now - part.first
  BY <1>4, <1>7 DEF Calm, OpenOK, SumsOK, Until, Timed, Within, Participant
<1>8. SumsOK(AwayAdded(part), now)
  BY <1>3, <1>5, <1>6, <1>7 DEF SumsOK
<1> QED BY <1>3, <1>8 DEF Within

\* ... and in the end
LEMMA JoinedOK ==
  ASSUME NEW part \in Participant, now \in Nat, NEW s \in Nat, Within(part, s, now), s <= now,
         SumsOK(part, now), NEW party \in Party,
         NEW new, new = [part EXCEPT !.party = party, !.joined = now]
  PROVE  new \in Participant /\ Within(new, s, now) /\ OpenOK(new)
<1>1. /\ new \in Participant /\ new.party = party /\ new.joined = now /\ new.left = part.left
      /\ new.playtime = part.playtime /\ new.away = part.away /\ new.first = part.first
  BY DEF Participant
<1>2. now # Never /\ party # NoParty
  BY ParticipationAssumption
<1> QED BY <1>1, <1>2 DEF Within, OpenOK, Timed, SumsOK, Until

\* What on_party_leave makes of a participant first ...
LEMMA PlayedOK ==
  ASSUME NEW part \in Participant, now \in Nat, NEW s \in Nat, Within(part, s, now),
         OpenOK(part), part.joined # Never,
         NEW new, new = [part EXCEPT !.playtime = @ + (now - part.joined)]
  PROVE  new \in Participant /\ Within(new, s, now) /\ SumsOK(new, now)
<1>1. part.playtime + (now - part.joined) \in Nat
  BY DEF Participant, Within
<1>2. /\ new \in Participant /\ new.joined = part.joined /\ new.left = part.left
      /\ new.playtime = part.playtime + (now - part.joined)
      /\ new.away = part.away /\ new.first = part.first
  BY <1>1 DEF Participant
<1>3. SumsOK(part, part.joined)
  BY DEF OpenOK, Until
<1> QED BY <1>2, <1>3 DEF Within, SumsOK, Participant

\* ... and in the end
LEMMA LeftOK ==
  ASSUME NEW part \in Participant, now \in Nat, NEW s \in Nat, Within(part, s, now), s <= now,
         SumsOK(part, now),
         NEW new, new = [part EXCEPT !.party = NoParty, !.left = now, !.joined = Never]
  PROVE  new \in Participant /\ Within(new, s, now) /\ OpenOK(new)
<1>1. /\ new \in Participant /\ new.party = NoParty /\ new.joined = Never /\ new.left = now
      /\ new.playtime = part.playtime /\ new.away = part.away /\ new.first = part.first
  BY DEF Participant
<1>2. now # Never
  BY ParticipationAssumption
<1> QED BY <1>1, <1>2 DEF Within, OpenOK, Timed, SumsOK, Until

\* The end of the match
LEMMA SettledOK ==
  ASSUME NEW part \in Participant, NEW s \in Nat, hand.ended \in Nat,
         Within(part, s, hand.ended), OpenOK(part)
  PROVE  /\ Settled(part) \in Participant /\ Within(Settled(part), s, hand.ended)
         /\ ClosedOK(Settled(part), hand.ended)
<1>0. SumsOK(part, Until(part)) /\ Timed(part)
  BY DEF OpenOK
<1>1. CASE part.party # NoParty /\ part.joined # Never
  <2>1. part.playtime + (hand.ended - part.joined) \in Nat
    BY <1>1 DEF Participant, Within
  <2>2. /\ Settled(part) \in Participant /\ Settled(part).joined = part.joined
        /\ Settled(part).left = part.left /\ Settled(part).party = part.party
        /\ Settled(part).playtime = part.playtime + (hand.ended - part.joined)
        /\ Settled(part).away = part.away /\ Settled(part).first = part.first
    BY <1>1, <2>1 DEF Settled, Participant
  <2> QED BY <1>0, <1>1, <2>2 DEF Within, ClosedOK, SumsOK, Until, Timed, Participant
<1>2. CASE ~(part.party # NoParty /\ part.joined # Never)
  <2>1. Settled(part) = part
    BY <1>2 DEF Settled
  <2> QED BY <1>0, <2>1 DEF Within, ClosedOK, SumsOK, Until, Timed, Participant
<1> QED BY <1>1, <1>2

-----------------------------------------------------------------------------
(* Matches.                                                                *)

LEMMA MatchFacts ==
  ASSUME NEW m \in Match
  PROVE  /\ m.gamemode \in Gamemode /\ m.started \in Nat /\ m.ended \in Nat \cup {Never}
         /\ m.participants \in Rosters /\ m # NoMatch
         /\ \A p \in DOMAIN m.participants : p \in Player /\ m.participants[p] \in Participant
<1>1. m.participants \in Rosters /\ m.gamemode \in Gamemode /\ m.started \in Nat
      /\ m.ended \in Nat \cup {Never}
  BY MatchType
<1>2. m # NoMatch
  BY ParticipationAssumption
<1> QED BY <1>1, <1>2 DEF Rosters

\* What is said about matches does not change while the clock stands.
LEMMA SameMatches ==
  ASSUME UNCHANGED <<mode, now>>
  PROVE  \A m : (Shape(m)' <=> Shape(m)) /\ (MatchOK(m)' <=> MatchOK(m))
<1>1. \A m : Shape(m)' <=> Shape(m)
  BY DEF Shape, Within
<1> QED BY <1>1, SameSums DEF MatchOK

\* A match in which one participant is written
Written(m, p, part) == [m EXCEPT !.participants = Put(@, p, part)]

LEMMA WrittenOK ==
  ASSUME NEW m, Shape(m), NEW p \in Player, NEW part \in Participant,
         Within(part, m.started, now)
  PROVE  /\ Shape(Written(m, p, part))
         /\ Written(m, p, part).started = m.started /\ Written(m, p, part).ended = m.ended
         /\ DOMAIN Written(m, p, part).participants = DOMAIN m.participants \cup {p}
         /\ Written(m, p, part).participants[p] = part
         /\ \A q \in DOMAIN m.participants \ {p} :
              Written(m, p, part).participants[q] = m.participants[q]
<1> DEFINE w == Written(m, p, part)
<1>1. m \in Match /\ m.participants \in Rosters
  BY MatchFacts DEF Shape
<1>2. /\ Put(m.participants, p, part) \in Rosters
      /\ DOMAIN Put(m.participants, p, part) = DOMAIN m.participants \cup {p}
      /\ Put(m.participants, p, part)[p] = part
      /\ \A q \in DOMAIN m.participants \ {p} :
           Put(m.participants, p, part)[q] = m.participants[q]
  BY <1>1, PutBack
<1>3. /\ w \in Match /\ w.started = m.started /\ w.ended = m.ended
      /\ w.participants = Put(m.participants, p, part)
  BY <1>1, <1>2, MatchType DEF Written
<1>4. ASSUME NEW q \in DOMAIN w.participants PROVE Within(w.participants[q], w.started, now)
  BY <1>2, <1>3, <1>4 DEF Shape
<1>5. Shape(w)
  BY <1>3, <1>4 DEF Shape
<1> QED BY <1>2, <1>3, <1>5

\* Assignments to the fields of a participant are the same.
LEMMA EditWrites ==
  ASSUME NEW m \in Match, NEW p \in DOMAIN m.participants, NEW part
  PROVE  [m EXCEPT !.participants[p] = part] = Written(m, p, part)
<1>1. m.participants \in Rosters
  BY MatchFacts
<1>2. [m.participants EXCEPT ![p] = part] = Put(m.participants, p, part)
  BY <1>1 DEF Put, Rosters
<1> QED BY <1>2 DEF Written, Match

LEMMA InitOK == Init => TimeInv
<1> SUFFICES ASSUME Init PROVE TimeInv
  OBVIOUS
<1>1. mode.time \in Nat
  BY ModeFacts DEF Init
<1>2. EmptyBook \in Book
  BY DEF EmptyBook, Book
<1>3. BooksOK
  BY <1>2 DEF Init, BooksOK
<1> QED BY <1>1, <1>3 DEF Init, TimeInv, HandOK, Time

-----------------------------------------------------------------------------
(* The steps.                                                              *)

LEMMA NowFacts ==
  ASSUME TimeInv
  PROVE  /\ now \in Nat /\ mode \in Modes
         /\ match # NoMatch => MatchOK(match) /\ Shape(match) /\ match \in Match
         /\ pc # "idle" => Shape(hand) /\ hand \in Match
<1>1. now \in Nat /\ mode \in Modes
  BY ModeFacts DEF TimeInv, Time
<1> QED BY <1>1 DEF TimeInv, HandOK, MatchOK, Shape

LEMMA TickStep ==
  ASSUME TimeInv, UNCHANGED mode, Tick
  PROVE  TimeInv'
<1>1. /\ now \in Nat /\ now' = now + 1 /\ now' \in Time' /\ mode.time \in Nat
      /\ UNCHANGED <<match, profile, gamemodes, xp, board, pc, hand, taken, subject, joining>>
  BY NowFacts, ModeFacts DEF Tick, books, local, Time
<1>2. \A m : (Shape(m) => Shape(m)') /\ (MatchOK(m) => MatchOK(m)')
  BY <1>1, LaterIsFine
<1>3. ASSUME pc \in {"party_join", "party_leave"}
      PROVE  SumsOK(hand.participants[subject], now')
  <2>1. ~Calm
    BY <1>3 DEF Tick, Calm
  <2>2. hand.participants[subject] \in Participant /\ SumsOK(hand.participants[subject], now)
    BY <1>3, NowFacts, MatchFacts DEF TimeInv, HandOK
  <2>3. now + 1 \in Nat /\ now <= now + 1
    BY <1>1
  <2> QED BY <1>1, <2>1, <2>2, <2>3, SumsLater
<1>4. HandOK'
  <2>1. (pc' = "idle" => hand' = NoMatch) /\ (pc' # "idle" => Shape(hand)')
    BY <1>1, <1>2 DEF TimeInv, HandOK
  <2>2. ASSUME pc' \in {"party_join", "party_leave"}
        PROVE  /\ hand'.ended = Never /\ subject' \in DOMAIN hand'.participants
               /\ \A p \in DOMAIN hand'.participants \ {subject'} : OpenOK(hand.participants[p])'
               /\ SumsOK(hand.participants[subject], now)'
    BY <1>1, <1>3, <2>2, SameSums DEF TimeInv, HandOK
  <2>3. pc' \in {"match", "settle", "board", "player"} => MatchOK(hand)'
    BY <1>1, <1>2 DEF TimeInv, HandOK
  <2>4. ASSUME pc' \in {"settle", "board", "player"}
        PROVE  \A p \in DOMAIN taken' : OpenOK(taken[p])'
                                        /\ Within(taken[p], hand.started, hand.ended)'
    BY <1>1, <2>4, SameSums DEF TimeInv, HandOK, Within
  <2> QED BY <1>1, <2>1, <2>2, <2>3, <2>4 DEF TimeInv, HandOK
<1>5. BooksOK'
  BY <1>1 DEF TimeInv, BooksOK
<1>6. match' = NoMatch \/ MatchOK(match)'
  BY <1>1, <1>2 DEF TimeInv
<1> QED BY <1>1, <1>4, <1>5, <1>6 DEF TimeInv

LEMMA MatchStartStep ==
  ASSUME TimeInv, UNCHANGED mode, NEW gamemode \in mode.gamemodes,
         NEW present \in SUBSET mode.players, NEW roster \in [present -> mode.seats],
         OnMatchStart(gamemode, roster)
  PROVE  TimeInv'
<1>1. /\ now \in Nat /\ mode.players \subseteq Player /\ mode.gamemodes \subseteq Gamemode
      /\ mode.seats \subseteq Party \cup {NoParty} /\ mode.time \in Nat
  BY NowFacts, ModeFacts
<1>2. PICK t \in {now} \cup (IF Restless /\ now < mode.time THEN {now + 1} ELSE {}) :
        /\ now' = t
        /\ match' = [gamemode |-> gamemode, started |-> now, ended |-> Never,
                     participants |-> [p \in DOMAIN roster |-> FromSimple(roster[p], t)]]
  BY DEF OnMatchStart
<1>3. t \in Nat /\ now <= t /\ t \in Time
  BY <1>1 DEF TimeInv, Time
<1>4. pc = "idle" /\ UNCHANGED <<profile, xp, board, pc, hand>>
  BY DEF OnMatchStart, books, local
<1> DEFINE f == [p \in DOMAIN roster |-> FromSimple(roster[p], t)]
<1>5. ASSUME NEW p \in DOMAIN roster
      PROVE  f[p] \in Participant /\ Within(f[p], now, t) /\ OpenOK(f[p])
  <2>1. roster[p] \in Party \cup {NoParty} /\ (Calm => roster[p] # NoParty)
    BY <1>1 DEF Calm
  <2> HIDE DEF f
  <2>2. f[p] = FromSimple(roster[p], t)
    BY DEF f
  <2> QED BY <1>1, <1>3, <2>1, <2>2, NewcomerOK
<1> HIDE DEF f
<1>6. f \in Rosters /\ DOMAIN f = DOMAIN roster
  <2>1. DOMAIN f = DOMAIN roster /\ f = [p \in DOMAIN roster |-> f[p]] /\ DOMAIN roster = present
    BY DEF f
  <2>2. f \in [present -> Participant] /\ present \in SUBSET Player
    BY <1>1, <1>5, <2>1
  <2> QED BY <2>1, <2>2 DEF Rosters
<1>7. /\ match'.started = now /\ match'.ended = Never /\ match'.participants = f
      /\ match' \in Match
  BY <1>1, <1>2, <1>6, MatchType DEF f
<1>8. Shape(match)'
  BY <1>2, <1>3, <1>5, <1>6, <1>7 DEF Shape
<1>9. MatchOK(match)'
  BY <1>5, <1>6, <1>7, <1>8, SameSums DEF MatchOK
<1>10. HandOK' /\ BooksOK'
  BY <1>4 DEF TimeInv, HandOK, BooksOK
<1>11. now' \in Time'
  BY <1>2, <1>3 DEF Time
<1> QED BY <1>4, <1>9, <1>10, <1>11 DEF TimeInv

LEMMA PartyJoinStep ==
  ASSUME TimeInv, UNCHANGED mode, NEW p \in mode.players, NEW party \in Party,
         OnPartyJoin(p, party)
  PROVE  TimeInv'
<1> DEFINE member == p \in DOMAIN match.participants
           part == IF member THEN match.participants[p] ELSE FromSimple(party, now)
<1>1. /\ UNCHANGED <<now, match, profile, gamemodes, xp, board, taken>> /\ pc' = "party_join"
      /\ subject' = p /\ joining' = party /\ hand' = Written(match, p, AwayAdded(part))
      /\ match # NoMatch /\ match.ended = Never /\ (Polite /\ member => part.party = NoParty)
  BY DEF OnPartyJoin, InProgress, books, Written, AwayAdded
<1>2. /\ now \in Nat /\ p \in Player /\ Shape(match) /\ match \in Match /\ MatchOK(match)
      /\ match.started \in Nat /\ match.started <= now
  BY <1>1, NowFacts, ModeFacts, MatchFacts DEF Shape
<1>3. /\ AwayAdded(part) \in Participant /\ Within(AwayAdded(part), match.started, now)
      /\ SumsOK(AwayAdded(part), now)
  <2>1. CASE member
    <3>1. part \in Participant /\ Within(part, match.started, now) /\ OpenOK(part)
      BY <1>1, <1>2, <2>1, MatchFacts DEF Shape, MatchOK
    <3>2. Polite => part.party = NoParty
      BY <1>1, <2>1
    <3> HIDE DEF part
    <3> QED BY <1>2, <3>1, <3>2, AwayAddedOK
  <2>2. CASE ~member
    <3>1. party \in Party \cup {NoParty} /\ party # NoParty
      BY ParticipationAssumption
    <3>2. part = FromSimple(party, now)
      BY <2>2
    <3> HIDE DEF part
    <3>3. /\ part \in Participant /\ Within(part, match.started, now) /\ part.left = Never
          /\ SumsOK(part, now)
      BY <1>2, <3>1, <3>2, NewcomerOK
    <3>4. AwayAdded(part) = part
      BY <3>3 DEF AwayAdded, Participant
    <3> QED BY <3>3, <3>4
  <2> QED BY <2>1, <2>2
<1> HIDE DEF member, part
<1>4. /\ Shape(hand') /\ hand'.ended = Never
      /\ DOMAIN hand'.participants = DOMAIN match.participants \cup {p}
      /\ hand'.participants[p] = AwayAdded(part)
      /\ \A q \in DOMAIN match.participants \ {p} : hand'.participants[q] = match.participants[q]
  BY <1>1, <1>2, <1>3, WrittenOK
<1>5. HandOK'
  <2>1. Shape(hand)'
    BY <1>1, <1>4, SameMatches
  <2>2. subject' \in DOMAIN hand'.participants /\ hand'.ended = Never
    BY <1>1, <1>4
  <2>3. \A q \in DOMAIN hand'.participants \ {subject'} : OpenOK(hand.participants[q])'
    BY <1>1, <1>2, <1>4, SameSums DEF MatchOK
  <2>4. SumsOK(hand.participants[subject], now)'
    BY <1>1, <1>3, <1>4, SameSums
  <2> QED BY <1>1, <2>1, <2>2, <2>3, <2>4 DEF HandOK
<1>6. match' = NoMatch \/ MatchOK(match)'
  BY <1>1, <1>2, SameMatches
<1> QED BY <1>1, <1>5, <1>6 DEF TimeInv, BooksOK, Time

LEMMA JoinPartyStep ==
  ASSUME TimeInv, UNCHANGED mode, JoinParty
  PROVE  TimeInv'
<1> DEFINE part == hand.participants[subject]
           new == [part EXCEPT !.party = joining, !.joined = now]
<1>1. /\ UNCHANGED <<now, match, profile, gamemodes, xp, board, taken, subject>>
      /\ pc = "party_join" /\ pc' = "match"
      /\ hand' = [hand EXCEPT !.participants[subject].party = joining,
                              !.participants[subject].joined = now]
  BY DEF JoinParty, books
<1>2. /\ now \in Nat /\ Shape(hand) /\ hand \in Match /\ hand.ended = Never /\ joining \in Party
      /\ subject \in DOMAIN hand.participants
      /\ \A p \in DOMAIN hand.participants \ {subject} : OpenOK(hand.participants[p])
      /\ SumsOK(part, now)
  BY <1>1, NowFacts DEF TimeInv, HandOK
<1>3. /\ hand.participants \in Rosters /\ subject \in Player /\ part \in Participant
      /\ hand.started \in Nat /\ hand.started <= now /\ Within(part, hand.started, now)
  BY <1>2, MatchFacts DEF Shape
<1>4. hand' = Written(hand, subject, new)
  <2>1. hand' = [hand EXCEPT !.participants[subject] = new]
    BY <1>1, <1>2, <1>3 DEF Match, Rosters, Participant
  <2> HIDE DEF new
  <2> QED BY <1>2, <2>1, EditWrites
<1>5. new \in Participant /\ Within(new, hand.started, now) /\ OpenOK(new)
  BY <1>2, <1>3, JoinedOK
<1> HIDE DEF new
<1>6. /\ Shape(hand') /\ hand'.ended = Never
      /\ DOMAIN hand'.participants = DOMAIN hand.participants
      /\ hand'.participants[subject] = new
      /\ \A q \in DOMAIN hand.participants \ {subject} :
           hand'.participants[q] = hand.participants[q]
  <2>1. DOMAIN hand'.participants = DOMAIN hand.participants \cup {subject}
    BY <1>2, <1>3, <1>4, <1>5, WrittenOK
  <2>2. DOMAIN hand.participants \cup {subject} = DOMAIN hand.participants
    BY <1>2
  <2>3. Shape(hand') /\ hand'.ended = hand.ended /\ hand'.participants[subject] = new
    BY <1>2, <1>3, <1>4, <1>5, WrittenOK
  <2>4. \A q \in DOMAIN hand.participants \ {subject} :
          hand'.participants[q] = hand.participants[q]
    BY <1>2, <1>3, <1>4, <1>5, WrittenOK
  <2> QED BY <1>2, <2>1, <2>2, <2>3, <2>4
<1>7. MatchOK(hand')
  BY <1>2, <1>5, <1>6 DEF MatchOK
<1>8. HandOK'
  <2>1. Shape(hand)' /\ MatchOK(hand)' /\ hand'.ended = Never
    BY <1>1, <1>6, <1>7, SameMatches
  <2> QED BY <1>1, <2>1 DEF HandOK
<1>9. match' = NoMatch \/ MatchOK(match)'
  BY <1>1, SameMatches DEF TimeInv
<1> QED BY <1>1, <1>8, <1>9 DEF TimeInv, BooksOK, Time

LEMMA PartyLeaveStep ==
  ASSUME TimeInv, UNCHANGED mode, NEW p \in mode.players, OnPartyLeave(p)
  PROVE  TimeInv'
<1> DEFINE part == match.participants[p]
           new == [part EXCEPT !.playtime = @ + (now - part.joined)]
<1>1. /\ UNCHANGED <<now, match, profile, gamemodes, xp, board, taken>> /\ pc' = "party_leave"
      /\ subject' = p /\ match # NoMatch /\ match.ended = Never
      /\ p \in DOMAIN match.participants /\ part.joined # Never
      /\ hand' = [match EXCEPT !.participants[p].playtime = @ + (now - part.joined)]
  BY DEF OnPartyLeave, InProgress, books
<1>2. now \in Nat /\ Shape(match) /\ match \in Match /\ MatchOK(match)
  BY <1>1, NowFacts
<1>3. /\ match.participants \in Rosters /\ p \in Player /\ part \in Participant
      /\ match.started \in Nat /\ Within(part, match.started, now) /\ OpenOK(part)
  BY <1>1, <1>2, MatchFacts DEF Shape, MatchOK
<1>4. hand' = Written(match, p, new)
  <2>1. hand' = [match EXCEPT !.participants[p] = new]
    BY <1>1, <1>2, <1>3 DEF Match, Rosters, Participant
  <2> HIDE DEF new
  <2> QED BY <1>1, <1>2, <2>1, EditWrites
<1>5. new \in Participant /\ Within(new, match.started, now) /\ SumsOK(new, now)
  BY <1>1, <1>2, <1>3, PlayedOK
<1> HIDE DEF new
<1>6. /\ Shape(hand') /\ hand'.ended = match.ended
      /\ DOMAIN hand'.participants = DOMAIN match.participants \cup {p}
      /\ hand'.participants[p] = new
      /\ \A q \in DOMAIN match.participants \ {p} : hand'.participants[q] = match.participants[q]
  BY <1>2, <1>3, <1>4, <1>5, WrittenOK
<1>7. HandOK'
  <2>1. Shape(hand)' /\ hand'.ended = Never /\ subject' \in DOMAIN hand'.participants
    BY <1>1, <1>6, SameMatches
  <2>2. \A q \in DOMAIN hand'.participants \ {subject'} : OpenOK(hand.participants[q])'
    BY <1>1, <1>2, <1>6, SameSums DEF MatchOK
  <2>3. SumsOK(hand.participants[subject], now)'
    BY <1>1, <1>5, <1>6, SameSums
  <2> QED BY <1>1, <2>1, <2>2, <2>3 DEF HandOK
<1>8. match' = NoMatch \/ MatchOK(match)'
  BY <1>1, <1>2, SameMatches
<1> QED BY <1>1, <1>7, <1>8 DEF TimeInv, BooksOK, Time

LEMMA LeavePartyStep ==
  ASSUME TimeInv, UNCHANGED mode, LeaveParty
  PROVE  TimeInv'
<1> DEFINE part == hand.participants[subject]
           new == [part EXCEPT !.party = NoParty, !.left = now, !.joined = Never]
<1>1. /\ UNCHANGED <<now, match, profile, gamemodes, xp, board, taken, subject>>
      /\ pc = "party_leave" /\ pc' = "match"
      /\ hand' = [hand EXCEPT !.participants[subject].party = NoParty,
                              !.participants[subject].left = now,
                              !.participants[subject].joined = Never]
  BY DEF LeaveParty, books
<1>2. /\ now \in Nat /\ Shape(hand) /\ hand \in Match /\ hand.ended = Never
      /\ subject \in DOMAIN hand.participants
      /\ \A p \in DOMAIN hand.participants \ {subject} : OpenOK(hand.participants[p])
      /\ SumsOK(part, now)
  BY <1>1, NowFacts DEF TimeInv, HandOK
<1>3. /\ hand.participants \in Rosters /\ subject \in Player /\ part \in Participant
      /\ hand.started \in Nat /\ hand.started <= now /\ Within(part, hand.started, now)
  BY <1>2, MatchFacts DEF Shape
<1>4. hand' = Written(hand, subject, new)
  <2>1. hand' = [hand EXCEPT !.participants[subject] = new]
    BY <1>1, <1>2, <1>3 DEF Match, Rosters, Participant
  <2> HIDE DEF new
  <2> QED BY <1>2, <2>1, EditWrites
<1>5. new \in Participant /\ Within(new, hand.started, now) /\ OpenOK(new)
  BY <1>2, <1>3, LeftOK
<1> HIDE DEF new
<1>6. /\ Shape(hand') /\ hand'.ended = hand.ended
      /\ DOMAIN hand'.participants = DOMAIN hand.participants \cup {subject}
      /\ hand'.participants[subject] = new
      /\ \A q \in DOMAIN hand.participants \ {subject} :
           hand'.participants[q] = hand.participants[q]
  BY <1>2, <1>3, <1>4, <1>5, WrittenOK
<1>7. MatchOK(hand')
  BY <1>2, <1>5, <1>6 DEF MatchOK
<1>8. HandOK'
  <2>1. Shape(hand)' /\ MatchOK(hand)' /\ hand'.ended = Never
    BY <1>1, <1>2, <1>6, <1>7, SameMatches
  <2> QED BY <1>1, <2>1 DEF HandOK
<1>9. match' = NoMatch \/ MatchOK(match)'
  BY <1>1, SameMatches DEF TimeInv
<1> QED BY <1>1, <1>8, <1>9 DEF TimeInv, BooksOK, Time

LEMMA MatchEndStep ==
  ASSUME TimeInv, UNCHANGED mode, NEW won \in SUBSET Party, OnMatchEnd(won)
  PROVE  TimeInv'
<1>1. /\ UNCHANGED <<now, match, profile, gamemodes, xp, board, subject>> /\ pc' = "settle"
      /\ match # NoMatch /\ match.ended = Never /\ taken' = match.participants
      /\ hand' = [match EXCEPT !.ended = now, !.participants = << >>]
  BY DEF OnMatchEnd, InProgress, books
<1>2. now \in Nat /\ now # Never /\ Shape(match) /\ match \in Match /\ MatchOK(match)
  BY <1>1, NowFacts, ParticipationAssumption
<1>3. /\ hand' \in Match /\ hand'.started = match.started /\ hand'.ended = now
      /\ hand'.participants = << >> /\ DOMAIN hand'.participants = {}
  BY <1>1, <1>2, MatchType, NobodyLeft
<1>4. MatchOK(hand')
  <2>1. Shape(hand')
    BY <1>2, <1>3 DEF Shape
  <2> QED BY <1>2, <1>3, <2>1 DEF MatchOK
<1>5. \A p \in DOMAIN taken' : /\ p \in Player /\ taken'[p] \in Participant /\ OpenOK(taken'[p])
                               /\ Within(taken'[p], hand'.started, hand'.ended)
  BY <1>1, <1>2, <1>3, MatchFacts DEF MatchOK, Shape
<1>6. HandOK'
  <2>1. MatchOK(hand)' /\ Shape(hand)'
    BY <1>1, <1>4, SameMatches DEF MatchOK
  <2>2. /\ DOMAIN taken' \subseteq Player
        /\ \A p \in DOMAIN taken' : /\ taken'[p] \in Participant /\ OpenOK(taken[p])'
                                    /\ Within(taken[p], hand.started, hand.ended)'
    BY <1>1, <1>5, SameSums DEF Within
  <2> QED BY <1>1, <1>2, <1>3, <2>1, <2>2 DEF HandOK
<1>7. match' = NoMatch \/ MatchOK(match)'
  BY <1>1, SameMatches DEF TimeInv
<1> QED BY <1>1, <1>6, <1>7 DEF TimeInv, BooksOK, Time

\* What a listener adds is a number, whatever the result.
LEMMA OutcomesAreNumbers ==
  ASSUME NEW part \in Participant, NEW m
  PROVE  /\ Outcome(part, m) \in Book /\ BoardOutcome(part, m) \in Book
         /\ ResultXp(part, m) \in Nat
<1>1. \A b : One(b) \in {0, 1}
  BY DEF One
<1>2. part.playtime \in Nat
  BY DEF Participant
<1>3. Outcome(part, m) \in Book /\ BoardOutcome(part, m) \in Book
  <2>1. ASSUME NEW e \in Entry
        PROVE  Outcome(part, m)[e] \in Nat /\ BoardOutcome(part, m)[e] \in Nat
    BY <1>1, <1>2, <2>1 DEF Outcome, BoardOutcome, Entry
  <2> QED BY <2>1 DEF Outcome, BoardOutcome, Book
<1>4. ResultXp(part, m) \in Nat
  BY <1>1 DEF ResultXp
<1> QED BY <1>3, <1>4

LEMMA EnterAdds ==
  ASSUME NEW book \in Book, NEW lines \in Book
  PROVE  Enter(book, lines) \in Book
         /\ \A e \in Entry : Enter(book, lines)[e] = book[e] + lines[e]
BY DEF Enter, Book

LEMMA ListenAsParticipantStep ==
  ASSUME TimeInv, UNCHANGED mode, NEW p \in DOMAIN taken, ListenAsParticipant(p)
  PROVE  TimeInv'
<1> DEFINE part == Settled(taken[p])
<1>1. /\ UNCHANGED <<now, profile, gamemodes, xp, board>> /\ pc = "settle" /\ pc' = "board"
      /\ match' = hand /\ subject' = p /\ hand' = Written(hand, p, part)
      /\ taken' = [q \in DOMAIN taken \ {p} |-> taken[q]]
  BY DEF ListenAsParticipant, books, Written
<1>2. /\ now \in Nat /\ Shape(hand) /\ hand \in Match /\ hand.ended # Never /\ MatchOK(hand)
      /\ DOMAIN taken \subseteq Player
      /\ \A q \in DOMAIN taken : /\ taken[q] \in Participant /\ OpenOK(taken[q])
                                 /\ Within(taken[q], hand.started, hand.ended)
  BY <1>1, NowFacts DEF TimeInv, HandOK
<1>3. /\ hand.started \in Nat /\ hand.ended \in Nat /\ hand.ended <= now
  BY <1>2, MatchFacts DEF Shape
<1>4. /\ part \in Participant /\ Within(part, hand.started, hand.ended)
      /\ ClosedOK(part, hand.ended)
  BY <1>2, <1>3, SettledOK
<1> HIDE DEF part
<1>5. Within(part, hand.started, now) /\ p \in Player
  BY <1>2, <1>3, <1>4 DEF Within, Participant
<1>6. /\ Shape(hand') /\ hand'.ended = hand.ended /\ hand'.started = hand.started
      /\ DOMAIN hand'.participants = DOMAIN hand.participants \cup {p}
      /\ hand'.participants[p] = part
      /\ \A q \in DOMAIN hand.participants \ {p} : hand'.participants[q] = hand.participants[q]
  BY <1>1, <1>2, <1>4, <1>5, WrittenOK
<1>7. MatchOK(hand')
  BY <1>2, <1>4, <1>6 DEF MatchOK
<1>8. HandOK'
  <2>1. Shape(hand)' /\ MatchOK(hand)' /\ hand'.ended # Never
        /\ subject' \in DOMAIN hand'.participants
    BY <1>1, <1>2, <1>6, <1>7, SameMatches
  <2>2. /\ DOMAIN taken' \subseteq Player
        /\ \A q \in DOMAIN taken' : /\ taken'[q] \in Participant /\ OpenOK(taken[q])'
                                    /\ Within(taken[q], hand.started, hand.ended)'
    BY <1>1, <1>2, <1>6, SameSums DEF Within
  <2> QED BY <1>1, <2>1, <2>2 DEF HandOK
<1>9. MatchOK(match)'
  BY <1>1, <1>2, SameMatches
<1> QED BY <1>1, <1>8, <1>9 DEF TimeInv, BooksOK, Time

LEMMA ListenAsBoardStep ==
  ASSUME TimeInv, UNCHANGED mode, ListenAsBoard
  PROVE  TimeInv'
<1>1. /\ UNCHANGED <<now, match, profile, xp, hand, taken, subject>>
      /\ pc = "board" /\ pc' = "player"
      /\ board' = IF Tracking(hand)
                  THEN [board EXCEPT ![subject] = Enter(@, BoardOutcome(Part, hand))] ELSE board
  BY DEF ListenAsBoard, local
<1>2. Part \in Participant
  BY <1>1, NowFacts, MatchFacts DEF TimeInv, HandOK, Part
<1>3. BooksOK'
  <2>1. board \in [Player -> Book]
    BY DEF TimeInv, BooksOK
  <2>2. board' \in [Player -> Book]
    BY <1>1, <1>2, <2>1, EnterAdds, OutcomesAreNumbers
  <2> QED BY <1>1, <2>2 DEF TimeInv, BooksOK
<1>4. HandOK'
  <2>1. (Shape(hand)' <=> Shape(hand)) /\ (MatchOK(hand)' <=> MatchOK(hand))
    BY <1>1, SameMatches
  <2> QED BY <1>1, <2>1, SameSums DEF TimeInv, HandOK, Within
<1>5. match' = NoMatch \/ MatchOK(match)'
  BY <1>1, SameMatches DEF TimeInv
<1> QED BY <1>1, <1>3, <1>4, <1>5 DEF TimeInv, Time

LEMMA ListenAsPlayerStep ==
  ASSUME TimeInv, UNCHANGED mode, ListenAsPlayer
  PROVE  TimeInv'
<1>1. /\ UNCHANGED <<now, match, board, hand, taken>> /\ pc = "player" /\ pc' = "settle"
      /\ profile' = IF Tracking(hand)
                    THEN [profile EXCEPT ![subject] = Enter(@, Outcome(Part, hand))] ELSE profile
      /\ xp' = [xp EXCEPT ![subject] = @ + ResultXp(Part, hand)]
  BY DEF ListenAsPlayer
<1>2. Part \in Participant
  BY <1>1, NowFacts, MatchFacts DEF TimeInv, HandOK, Part
<1>3. BooksOK'
  <2>1. profile \in [Player -> Book] /\ xp \in [Player -> Nat]
    BY DEF TimeInv, BooksOK
  <2>2. profile' \in [Player -> Book]
    BY <1>1, <1>2, <2>1, EnterAdds, OutcomesAreNumbers
  <2>3. ResultXp(Part, hand) \in Nat
    BY <1>2, OutcomesAreNumbers
  <2>4. xp' \in [Player -> Nat]
    <3>1. ASSUME NEW p \in Player PROVE xp'[p] \in Nat
      <4>1. xp[p] \in Nat /\ xp'[p] = IF p = subject THEN xp[p] + ResultXp(Part, hand) ELSE xp[p]
        BY <1>1, <2>1
      <4> QED BY <2>3, <4>1
    <3> QED BY <1>1, <2>1, <3>1
  <2> QED BY <1>1, <2>2, <2>4 DEF TimeInv, BooksOK
<1>4. HandOK'
  <2>1. (Shape(hand)' <=> Shape(hand)) /\ (MatchOK(hand)' <=> MatchOK(hand))
    BY <1>1, SameMatches
  <2> QED BY <1>1, <2>1, SameSums DEF TimeInv, HandOK, Within
<1>5. match' = NoMatch \/ MatchOK(match)'
  BY <1>1, SameMatches DEF TimeInv
<1> QED BY <1>1, <1>3, <1>4, <1>5 DEF TimeInv, Time

LEMMA SetMatchStep ==
  ASSUME TimeInv, UNCHANGED mode, SetMatch
  PROVE  TimeInv'
<1>1. /\ UNCHANGED <<now, profile, xp, board>> /\ pc \in {"match", "settle"} /\ pc' = "idle"
      /\ match' = hand /\ hand' = NoMatch
  BY DEF SetMatch, Forget, books
<1>2. MatchOK(match)'
  BY <1>1, SameMatches DEF TimeInv, HandOK
<1> QED BY <1>1, <1>2 DEF TimeInv, BooksOK, HandOK, Time

LEMMA DieStep ==
  ASSUME TimeInv, UNCHANGED mode, Die
  PROVE  TimeInv'
<1>1. /\ UNCHANGED <<now, match, profile, xp, board>> /\ pc' = "idle" /\ hand' = NoMatch
  BY DEF Die, Forget, books
<1>2. match' = NoMatch \/ MatchOK(match)'
  BY <1>1, SameMatches DEF TimeInv
<1> QED BY <1>1, <1>2 DEF TimeInv, BooksOK, HandOK, Time

LEMMA StutterStep ==
  ASSUME TimeInv, UNCHANGED vars
  PROVE  TimeInv'
<1>1. UNCHANGED <<mode, now, match, profile, xp, board, pc, hand, taken, subject, joining>>
  BY DEF vars, books, local
<1>2. \A m : (Shape(m)' <=> Shape(m)) /\ (MatchOK(m)' <=> MatchOK(m))
  BY <1>1, SameMatches
<1>3. HandOK'
  BY <1>1, <1>2, SameSums DEF TimeInv, HandOK, Within
<1> QED BY <1>1, <1>2, <1>3 DEF TimeInv, BooksOK, Time

LEMMA TimeStep == TimeInv /\ [Next]_vars => TimeInv'
<1> SUFFICES ASSUME TimeInv, [Next]_vars PROVE TimeInv'
  OBVIOUS
<1>1. CASE UNCHANGED vars
  BY <1>1, StutterStep
<1>2. ASSUME Next PROVE TimeInv'
  <2>0. UNCHANGED mode
    BY <1>2 DEF Next
  <2>1. CASE Tick
    BY <2>0, <2>1, TickStep
  <2>2. CASE \E g \in mode.gamemodes, present \in SUBSET mode.players :
               \E roster \in [present -> mode.seats] : OnMatchStart(g, roster)
    BY <2>0, <2>2, MatchStartStep
  <2>3. CASE \E p \in mode.players, party \in Party : OnPartyJoin(p, party)
    BY <2>0, <2>3, PartyJoinStep
  <2>4. CASE \E p \in mode.players : OnPartyLeave(p)
    BY <2>0, <2>4, PartyLeaveStep
  <2>5. CASE \E won \in SUBSET Party : OnMatchEnd(won)
    BY <2>0, <2>5, MatchEndStep
  <2>6. CASE JoinParty
    BY <2>0, <2>6, JoinPartyStep
  <2>7. CASE LeaveParty
    BY <2>0, <2>7, LeavePartyStep
  <2>8. CASE \E p \in DOMAIN taken : ListenAsParticipant(p)
    BY <2>0, <2>8, ListenAsParticipantStep
  <2>9. CASE ListenAsBoard
    BY <2>0, <2>9, ListenAsBoardStep
  <2>10. CASE ListenAsPlayer
    BY <2>0, <2>10, ListenAsPlayerStep
  <2>11. CASE SetMatch
    BY <2>0, <2>11, SetMatchStep
  <2>12. CASE Die
    BY <2>0, <2>12, DieStep
  <2> QED BY <1>2, <2>1, <2>2, <2>3, <2>4, <2>5, <2>6, <2>7, <2>8, <2>9, <2>10, <2>11, <2>12
          DEF Next
<1> QED BY <1>1, <1>2

LEMMA TimesHold == Spec => []TimeInv
<1> QED BY InitOK, TimeStep, PTL DEF Spec

-----------------------------------------------------------------------------
(* Theorems.                                                               *)

LEMMA ShapesAreTyped ==
  ASSUME TimeInv, NEW m, Shape(m)
  PROVE  /\ m # NoMatch
         /\ m.started \in Time /\ m.ended \in Time \cup {Never}
         /\ m.ended # Never => Length(m) >= 0
         /\ DOMAIN m.participants \subseteq Player
         /\ \A p \in DOMAIN m.participants :
              LET part == m.participants[p]
              IN  /\ part.party \in Party \cup {NoParty}
                  /\ part.first \in m.started..now
                  /\ part.joined \in m.started..now \cup {Never}
                  /\ part.left \in m.started..now \cup {Never}
                  /\ part.playtime \in Nat /\ part.away \in Nat
<1>1. now \in Nat /\ mode.time \in Nat /\ now <= mode.time
  BY NowFacts, ModeFacts DEF TimeInv, Time
<1>2. /\ m \in Match /\ m.started \in Nat /\ m.ended \in Nat \cup {Never} /\ m # NoMatch
      /\ \A p \in DOMAIN m.participants : p \in Player /\ m.participants[p] \in Participant
  BY MatchFacts DEF Shape
<1>3. m.started \in Time /\ m.ended \in Time \cup {Never} /\ (m.ended # Never => Length(m) >= 0)
  BY <1>1, <1>2 DEF Shape, Time, Length
<1>4. ASSUME NEW p \in DOMAIN m.participants, NEW part, part = m.participants[p]
      PROVE  /\ part.party \in Party \cup {NoParty}
             /\ part.first \in m.started..now
             /\ part.joined \in m.started..now \cup {Never}
             /\ part.left \in m.started..now \cup {Never}
             /\ part.playtime \in Nat /\ part.away \in Nat
  <2>1. part \in Participant /\ Within(part, m.started, now)
    BY <1>2, <1>4 DEF Shape
  <2> QED BY <1>1, <1>2, <2>1 DEF Within, Participant
<1> QED BY <1>2, <1>3, <1>4

LEMMA InvariantTypes == TimeInv => TypeOK
<1> SUFFICES ASSUME TimeInv PROVE TypeOK
  OBVIOUS
<1>1. \A m \in {match, hand} \ {NoMatch} : Shape(m)
  BY NowFacts DEF TimeInv, HandOK
<1>2. (pc = "idle") <=> (hand = NoMatch)
  BY NowFacts, MatchFacts DEF TimeInv, HandOK
<1>3. \A p \in Player : {profile[p], board[p]} \subseteq Book /\ xp[p] \in Nat
  BY DEF TimeInv, BooksOK
<1>4. \A m \in {match, hand} \ {NoMatch} :
        /\ m.started \in Time /\ m.ended \in Time \cup {Never}
        /\ m.ended # Never => Length(m) >= 0
        /\ DOMAIN m.participants \subseteq Player
        /\ \A p \in DOMAIN m.participants :
             LET part == m.participants[p]
             IN  /\ part.party \in Party \cup {NoParty}
                 /\ part.first \in m.started..now
                 /\ part.joined \in m.started..now \cup {Never}
                 /\ part.left \in m.started..now \cup {Never}
                 /\ part.playtime \in Nat /\ part.away \in Nat
  BY <1>1, ShapesAreTyped
<1> QED BY <1>2, <1>3, <1>4 DEF TypeOK, TimeInv

\* The match in Redis and a handler's copy of it have the shape of the structs,
\* their timestamps lie between the start of the match and now, and none of the
\* u64 subtractions of get_length, on_party_join, on_party_leave and
\* on_match_end_v2 wraps around, whatever breaks off and however long it takes.
THEOREM TypeCorrect == Spec => []TypeOK
<1> QED BY TimesHold, InvariantTypes, PTL

LEMMA TimesAreCounted ==
  ASSUME TimeInv, match # NoMatch, NEW p \in DOMAIN match.participants,
         NEW part, part = match.participants[p]
  PROVE  /\ Timed(part)
         /\ part.playtime + Running(part) <= now - part.first
         /\ Polite => part.playtime + part.away + Running(part) <= now - part.first
         /\ Calm /\ match.ended = Never =>
              part.playtime + Running(part) + part.away
                + (IF part.party = NoParty THEN now - part.left ELSE 0) = now - part.first
<1>1. /\ now \in Nat /\ MatchOK(match) /\ match.ended \in Nat \cup {Never}
      /\ match.ended # Never => match.ended <= now
      /\ part \in Participant /\ Within(part, match.started, now) /\ match.started \in Nat
  BY NowFacts, MatchFacts DEF Shape
<1>2. CASE match.ended # Never
  <2>1. ClosedOK(part, match.ended) /\ Running(part) = 0
    BY <1>1, <1>2 DEF MatchOK, Running
  <2> QED BY <1>1, <1>2, <2>1 DEF ClosedOK, Participant
<1>3. CASE match.ended = Never
  <2>1. OpenOK(part) /\ Timed(part) /\ SumsOK(part, Until(part))
    BY <1>1, <1>3 DEF MatchOK, OpenOK
  <2>2. CASE part.party # NoParty
    <3>1. Running(part) = now - part.joined /\ Until(part) = part.joined /\ part.joined \in Nat
      BY <1>1, <1>3, <2>1, <2>2 DEF Running, Until, Timed, Participant
    <3> QED BY <1>1, <2>1, <2>2, <3>1 DEF SumsOK, Participant
  <2>3. CASE part.party = NoParty
    <3>1. Running(part) = 0 /\ Until(part) \in Nat /\ Until(part) <= now
      BY <1>1, <2>1, <2>3 DEF Running, Until, Timed, Participant, Within
    <3>2. Calm => Until(part) = part.left /\ part.left \in Nat
      BY <1>1, <2>1, <2>3 DEF OpenOK, Until, Timed, Participant
    <3> QED BY <1>1, <2>1, <2>3, <3>1, <3>2 DEF SumsOK, Participant
  <2> QED BY <2>2, <2>3
<1> QED BY <1>2, <1>3

LEMMA InvariantTimes == TimeInv => TimeSound
<1> SUFFICES ASSUME TimeInv PROVE TimeSound
  OBVIOUS
<1>1. PlayersAreTimed
  BY TimesAreCounted DEF PlayersAreTimed, Timed
<1>2. PlaytimeWithinMatch
  BY TimesAreCounted DEF PlaytimeWithinMatch
<1>3. TimeNotCountedTwice
  BY TimesAreCounted DEF TimeNotCountedTwice
<1>4. TimeAccountedFor
  BY TimesAreCounted DEF TimeAccountedFor, Calm
<1> QED BY <1>1, <1>2, <1>3, <1>4 DEF TimeSound

\* The participants' playtime and time away, as on_party_join, on_party_leave
\* and on_match_end_v2 add them up: never more than there was, nothing counted
\* twice when players leave before they join, nothing lost when handlers take
\* no time, and the clock of whoever is in a party is running.
THEOREM TimesAreSound == Spec => []TimeSound
<1> QED BY TimesHold, InvariantTimes, PTL

-----------------------------------------------------------------------------
(* Results.  A match can end only while it is the match in Redis and has   *)
(* not ended; the first participant that is settled writes the end there,  *)
(* before anything is counted.  So whoever still has to be settled has one *)
(* match less on the boards than were started.  The boards are ahead of    *)
(* the player by what the player listeners have not written yet.           *)

OnBoard == Result \cup {"matches", "playtime"}

\* One line of results at most for each match
OfMatches(book) == book["wins"] + book["losses"] + book["ties"] <= book["matches"]

\* The boards show no more matches than were started, and no more results.
BoardsCountOnce ==
  \A p \in Player : board[p]["matches"] <= rounds /\ OfMatches(board[p])

Behind(p) == board[p]["matches"] < rounds

OnceOK ==
  /\ rounds \in Nat
  /\ match # NoMatch /\ match.ended = Never => \A p \in Player : Behind(p)
  /\ pc \in {"party_join", "party_leave", "match"} => match # NoMatch /\ match.ended = Never
  /\ pc \in {"settle", "board", "player"} => \A p \in DOMAIN taken : Behind(p)
  /\ pc = "board" => Behind(subject) /\ subject \notin DOMAIN taken
  /\ pc \in {"board", "player"} => match.ended # Never

LeadOK ==
  /\ BoardsLead
  /\ pc = "player" /\ Tracking(hand) =>
       \A e \in OnBoard : board[subject][e] >= profile[subject][e] + Outcome(Part, hand)[e]

ResultInv == TimeInv /\ BoardsCountOnce /\ OnceOK /\ ResultsAreOfMatches /\ LeadOK

\* Which results a match can have, and what the listeners make of them
LEMMA OutcomesAreOfMatches ==
  ASSUME NEW part \in Participant, NEW m
  PROVE  /\ OfMatches(Outcome(part, m)) /\ OfMatches(BoardOutcome(part, m))
         /\ BoardOutcome(part, m)["matches"] = 1
         /\ \A e \in OnBoard : Outcome(part, m)[e] <= BoardOutcome(part, m)[e]
<1>1. ResultOf(part) \in {{}, {"ties"}, {"wins"}, {"losses"}}
  BY DEF ResultOf
<1>2. /\ One(LongPlayed(part, m)) \in {0, 1}
      /\ \A e \in Result : /\ One(e \in ResultOf(part)) \in {0, 1}
                           /\ One(LongPlayed(part, m) /\ e \in ResultOf(part)) \in {0, 1}
                           /\ One(LongPlayed(part, m) /\ e \in ResultOf(part))
                                <= One(LongPlayed(part, m))
                           /\ One(LongPlayed(part, m) /\ e \in ResultOf(part))
                                <= One(e \in ResultOf(part))
  BY DEF One
<1>3. /\ \A e \in Result : /\ Outcome(part, m)[e] = One(LongPlayed(part, m) /\ e \in ResultOf(part))
                           /\ BoardOutcome(part, m)[e] = One(e \in ResultOf(part))
      /\ Outcome(part, m)["matches"] = One(LongPlayed(part, m))
      /\ BoardOutcome(part, m)["matches"] = 1
      /\ Outcome(part, m)["playtime"] = part.playtime
      /\ BoardOutcome(part, m)["playtime"] = part.playtime
  BY DEF Outcome, BoardOutcome, Entry, Result
<1>4. One("wins" \in ResultOf(part)) + One("losses" \in ResultOf(part))
        + One("ties" \in ResultOf(part)) <= 1
  BY <1>1 DEF One
<1>5. One(LongPlayed(part, m) /\ "wins" \in ResultOf(part))
        + One(LongPlayed(part, m) /\ "losses" \in ResultOf(part))
        + One(LongPlayed(part, m) /\ "ties" \in ResultOf(part)) <= One(LongPlayed(part, m))
  BY <1>1 DEF One
<1>6. "wins" \in Result /\ "losses" \in Result /\ "ties" \in Result
  BY DEF Result
<1>7. OfMatches(Outcome(part, m)) /\ OfMatches(BoardOutcome(part, m))
  BY <1>3, <1>4, <1>5, <1>6 DEF OfMatches
<1>8. \A e \in OnBoard : Outcome(part, m)[e] <= BoardOutcome(part, m)[e]
  <2>1. part.playtime \in Nat
    BY DEF Participant
  <2>2. One(LongPlayed(part, m)) <= 1
    BY <1>2
  <2> QED BY <1>2, <1>3, <2>1, <2>2 DEF OnBoard
<1> QED BY <1>3, <1>7, <1>8

LEMMA EntriesShown ==
  OnBoard \subseteq Entry /\ {"wins", "losses", "ties", "matches"} \subseteq Entry
BY DEF OnBoard, Entry, Result

\* Results added to results
LEMMA EnterKeepsOfMatches ==
  ASSUME NEW book \in Book, NEW lines \in Book, OfMatches(book), OfMatches(lines)
  PROVE  OfMatches(Enter(book, lines))
<1>1. \A e \in {"wins", "losses", "ties", "matches"} :
        Enter(book, lines)[e] = book[e] + lines[e] /\ book[e] \in Nat /\ lines[e] \in Nat
  BY EntriesShown, EnterAdds DEF Book
<1> QED BY <1>1 DEF OfMatches

LEMMA SameOutcome ==
  ASSUME UNCHANGED <<hand, subject, winners>>
  PROVE  Outcome(Part, hand)' = Outcome(Part, hand)
BY DEF Outcome, Part, ResultOf, IsTie

\* Steps that write neither the boards nor the player
LEMMA BooksAlone ==
  ASSUME ResultInv, UNCHANGED <<profile, board>>, rounds' \in Nat, rounds <= rounds'
  PROVE  /\ BoardsCountOnce' /\ ResultsAreOfMatches' /\ BoardsLead'
         /\ \A p \in Player : board[p]["matches"] \in Nat /\ (Behind(p) => Behind(p)')
<1>1. \A p \in Player : board[p]["matches"] \in Nat
  BY EntriesShown DEF ResultInv, TimeInv, BooksOK, Book
<1>2. rounds \in Nat
  BY DEF ResultInv, OnceOK
<1>3. \A p \in Player : Behind(p) => Behind(p)'
  BY <1>1, <1>2 DEF Behind
<1>4. BoardsCountOnce'
  BY <1>1, <1>2 DEF ResultInv, BoardsCountOnce, OfMatches
<1>5. ResultsAreOfMatches' /\ BoardsLead'
  BY DEF ResultInv, ResultsAreOfMatches, LeadOK, BoardsLead
<1> QED BY <1>1, <1>3, <1>4, <1>5

LEMMA ResultInit == Init => ResultInv
<1> SUFFICES ASSUME Init PROVE ResultInv
  OBVIOUS
<1>1. TimeInv
  BY InitOK
<1>2. \A p \in Player : board[p] = EmptyBook /\ profile[p] = EmptyBook
  BY DEF Init
<1>3. \A e \in Entry : EmptyBook[e] = 0
  BY DEF EmptyBook
<1>4. BoardsCountOnce /\ ResultsAreOfMatches
  BY <1>2, <1>3, EntriesShown DEF Init, BoardsCountOnce, OfMatches, ResultsAreOfMatches
<1>5. OnceOK /\ LeadOK
  BY <1>2, <1>3, EntriesShown DEF Init, OnceOK, LeadOK, BoardsLead, OnBoard
<1> QED BY <1>1, <1>4, <1>5 DEF ResultInv

\* Handlers that are not at the end of a match
LEMMA ResultsAside ==
  ASSUME ResultInv, UNCHANGED mode,
         \/ Tick \/ JoinParty \/ LeaveParty \/ UNCHANGED vars \/ Die
         \/ \E p \in mode.players, party \in Party : OnPartyJoin(p, party)
         \/ \E p \in mode.players : OnPartyLeave(p)
         \/ \E won \in SUBSET Party : OnMatchEnd(won)
  PROVE  BoardsCountOnce' /\ OnceOK' /\ ResultsAreOfMatches' /\ LeadOK'
<1>1. UNCHANGED <<match, profile, board, rounds>> /\ rounds \in Nat
  BY DEF ResultInv, OnceOK, Tick, JoinParty, LeaveParty, vars, books, Die, OnPartyJoin,
         OnPartyLeave, OnMatchEnd
<1>2. /\ BoardsCountOnce' /\ ResultsAreOfMatches' /\ BoardsLead'
      /\ \A p \in Player : Behind(p) => Behind(p)'
  BY <1>1, BooksAlone
<1>3. match # NoMatch =>
        \A p \in DOMAIN match.participants : p \in Player
  BY NowFacts, MatchFacts DEF ResultInv
<1>4. UNCHANGED <<pc, hand, subject, winners, taken>> => OnceOK' /\ LeadOK'
  <2> SUFFICES ASSUME UNCHANGED <<pc, hand, subject, winners, taken>> PROVE OnceOK' /\ LeadOK'
    OBVIOUS
  <2>1. OnceOK'
    BY <1>1 DEF ResultInv, OnceOK, Behind
  <2>2. Outcome(Part, hand)' = Outcome(Part, hand)
    BY SameOutcome
  <2> QED BY <1>1, <1>2, <2>1, <2>2 DEF ResultInv, LeadOK, Tracking
<1>5. CASE Tick \/ UNCHANGED vars
  <2>1. UNCHANGED <<pc, hand, subject, winners, taken>>
    BY <1>5 DEF Tick, vars, local
  <2> QED BY <1>2, <1>4, <2>1
<1>6. CASE JoinParty \/ LeaveParty
  <2>1. pc \in {"party_join", "party_leave"} /\ pc' = "match"
    BY <1>6 DEF JoinParty, LeaveParty
  <2> QED BY <1>1, <1>2, <2>1 DEF ResultInv, OnceOK, LeadOK, Behind
<1>7. CASE Die
  BY <1>1, <1>2, <1>7 DEF ResultInv, OnceOK, LeadOK, Behind, Die, Forget
<1>8. CASE \/ \E p \in mode.players, party \in Party : OnPartyJoin(p, party)
           \/ \E p \in mode.players : OnPartyLeave(p)
  <2>1. pc' \in {"party_join", "party_leave"} /\ match # NoMatch /\ match.ended = Never
    BY <1>8 DEF OnPartyJoin, OnPartyLeave, InProgress
  <2> QED BY <1>1, <1>2, <2>1 DEF ResultInv, OnceOK, LeadOK, Behind
<1>9. CASE \E won \in SUBSET Party : OnMatchEnd(won)
  <2>1. /\ pc' = "settle" /\ match # NoMatch /\ match.ended = Never
        /\ taken' = match.participants
    BY <1>9 DEF OnMatchEnd, InProgress
  <2> QED BY <1>1, <1>2, <1>3, <2>1 DEF ResultInv, OnceOK, LeadOK, Behind
<1> QED BY <1>5, <1>6, <1>7, <1>8, <1>9

\* A new match, and the match as it is written
LEMMA ResultsOfMatchStart ==
  ASSUME ResultInv, UNCHANGED mode, NEW gamemode, NEW roster, OnMatchStart(gamemode, roster)
  PROVE  BoardsCountOnce' /\ OnceOK' /\ ResultsAreOfMatches' /\ LeadOK'
<1>1. /\ UNCHANGED <<profile, board, pc>> /\ pc = "idle"
      /\ rounds \in Nat /\ rounds' = rounds + 1
  BY DEF ResultInv, OnceOK, OnMatchStart, books
<1>2. /\ BoardsCountOnce' /\ ResultsAreOfMatches' /\ BoardsLead'
      /\ \A p \in Player : board[p]["matches"] \in Nat
  BY <1>1, BooksAlone
<1>3. \A p \in Player : Behind(p)'
  BY <1>1, <1>2 DEF ResultInv, BoardsCountOnce, Behind
<1> QED BY <1>1, <1>2, <1>3 DEF OnceOK, LeadOK

LEMMA ResultsOfSetMatch ==
  ASSUME ResultInv, UNCHANGED mode, SetMatch
  PROVE  BoardsCountOnce' /\ OnceOK' /\ ResultsAreOfMatches' /\ LeadOK'
<1>1. /\ UNCHANGED <<profile, board, rounds>> /\ rounds \in Nat /\ match' = hand /\ pc' = "idle"
      /\ pc \in {"match", "settle"}
  BY DEF ResultInv, OnceOK, SetMatch, Forget, books
<1>2. /\ BoardsCountOnce' /\ ResultsAreOfMatches' /\ BoardsLead'
      /\ \A p \in Player : Behind(p) => Behind(p)'
  BY <1>1, BooksAlone
<1>3. hand.ended = Never => pc = "match"
  BY <1>1 DEF ResultInv, TimeInv, HandOK
<1> QED BY <1>1, <1>2, <1>3 DEF ResultInv, OnceOK, LeadOK

LEMMA ResultsOfParticipant ==
  ASSUME ResultInv, UNCHANGED mode, NEW p \in DOMAIN taken, ListenAsParticipant(p)
  PROVE  BoardsCountOnce' /\ OnceOK' /\ ResultsAreOfMatches' /\ LeadOK'
<1>1. /\ UNCHANGED <<profile, board, rounds>> /\ rounds \in Nat /\ match' = hand
      /\ pc = "settle" /\ pc' = "board" /\ subject' = p
      /\ DOMAIN taken' = DOMAIN taken \ {p}
  BY DEF ResultInv, OnceOK, ListenAsParticipant, books
<1>2. /\ BoardsCountOnce' /\ ResultsAreOfMatches' /\ BoardsLead'
      /\ \A q \in Player : Behind(q) => Behind(q)'
  BY <1>1, BooksAlone
<1>3. hand.ended # Never /\ DOMAIN taken \subseteq Player
  BY <1>1 DEF ResultInv, TimeInv, HandOK
<1> QED BY <1>1, <1>2, <1>3 DEF ResultInv, OnceOK, LeadOK


\* The listeners that count
LEMMA ResultsOfBoard ==
  ASSUME ResultInv, UNCHANGED mode, ListenAsBoard
  PROVE  BoardsCountOnce' /\ OnceOK' /\ ResultsAreOfMatches' /\ LeadOK'
<1> DEFINE lines == BoardOutcome(Part, hand)
<1>1. /\ UNCHANGED <<match, profile, rounds, hand, taken, subject, winners>> /\ rounds \in Nat
      /\ pc = "board" /\ pc' = "player"
      /\ board' = IF Tracking(hand) THEN [board EXCEPT ![subject] = Enter(@, lines)] ELSE board
  BY DEF ResultInv, OnceOK, ListenAsBoard, local
<1>2. /\ Part \in Participant /\ subject \in Player /\ DOMAIN taken \subseteq Player
      /\ board \in [Player -> Book] /\ profile \in [Player -> Book]
  BY <1>1, NowFacts, MatchFacts DEF ResultInv, TimeInv, HandOK, Part, BooksOK
<1>3. /\ lines \in Book /\ OfMatches(lines) /\ lines["matches"] = 1
      /\ Outcome(Part, hand) \in Book
      /\ \A e \in OnBoard : Outcome(Part, hand)[e] <= lines[e]
  BY <1>2, OutcomesAreNumbers, OutcomesAreOfMatches
<1>4. Outcome(Part, hand)' = Outcome(Part, hand) /\ Tracking(hand)' = Tracking(hand)
  BY <1>1, SameOutcome DEF Tracking
<1>5. /\ match.ended # Never /\ Behind(subject) /\ subject \notin DOMAIN taken
      /\ \A p \in DOMAIN taken : Behind(p)
  BY <1>1 DEF ResultInv, OnceOK
<1> HIDE DEF lines
<1>6. ResultsAreOfMatches'
  BY <1>1 DEF ResultInv, ResultsAreOfMatches
<1>7. CASE ~Tracking(hand)
  <2>1. UNCHANGED board
    BY <1>1, <1>7
  <2> QED BY <1>1, <1>4, <1>5, <1>6, <1>7, <2>1
          DEF ResultInv, BoardsCountOnce, OnceOK, LeadOK, BoardsLead, Behind
<1>8. CASE Tracking(hand)
  <2>1. /\ board'[subject] = Enter(board[subject], lines)
        /\ \A p \in Player \ {subject} : board'[p] = board[p]
    BY <1>1, <1>2, <1>8
  <2>2. \A e \in Entry : /\ board'[subject][e] = board[subject][e] + lines[e]
                         /\ board[subject][e] \in Nat /\ lines[e] \in Nat
                         /\ profile[subject][e] \in Nat /\ Outcome(Part, hand)[e] \in Nat
    BY <1>2, <1>3, <2>1, EnterAdds DEF Book
  <2>3. BoardsCountOnce'
    <3>1. board'[subject]["matches"] <= rounds
      <4>1. board[subject]["matches"] < rounds
        BY <1>5 DEF Behind
      <4> QED BY <1>1, <1>3, <2>2, <4>1, EntriesShown
    <3>2. OfMatches(board'[subject])
      BY <1>2, <1>3, <2>1, EnterKeepsOfMatches DEF ResultInv, BoardsCountOnce
    <3>3. \A p \in Player : board'[p]["matches"] <= rounds' /\ OfMatches(board'[p])
      BY <1>1, <2>1, <3>1, <3>2 DEF ResultInv, BoardsCountOnce
    <3> QED BY <3>3 DEF BoardsCountOnce, OfMatches
  <2>4. OnceOK'
    BY <1>1, <1>2, <1>5, <2>1 DEF OnceOK, Behind
  <2>5. BoardsLead'
    <3>1. ASSUME NEW e \in OnBoard PROVE board'[subject][e] >= profile[subject][e]
      <4>1. board[subject][e] >= profile[subject][e]
        BY <1>2 DEF ResultInv, LeadOK, BoardsLead, OnBoard
      <4>2. e \in Entry
        BY EntriesShown
      <4> QED BY <2>2, <4>1, <4>2
    <3> QED BY <1>1, <2>1, <3>1 DEF ResultInv, LeadOK, BoardsLead, OnBoard
  <2>6. ASSUME NEW e \in OnBoard
        PROVE  board'[subject][e] >= profile[subject][e] + Outcome(Part, hand)[e]
    <3>1. board[subject][e] >= profile[subject][e]
      BY <1>2 DEF ResultInv, LeadOK, BoardsLead, OnBoard
    <3>2. e \in Entry /\ Outcome(Part, hand)[e] <= lines[e]
      BY <1>3, EntriesShown
    <3> QED BY <2>2, <3>1, <3>2
  <2>7. LeadOK'
    BY <1>1, <1>4, <2>5, <2>6 DEF LeadOK
  <2> QED BY <1>6, <2>3, <2>4, <2>7
<1> QED BY <1>7, <1>8

LEMMA ResultsOfPlayer ==
  ASSUME ResultInv, UNCHANGED mode, ListenAsPlayer
  PROVE  BoardsCountOnce' /\ OnceOK' /\ ResultsAreOfMatches' /\ LeadOK'
<1> DEFINE lines == Outcome(Part, hand)
<1>1. /\ UNCHANGED <<match, board, rounds, taken>> /\ rounds \in Nat
      /\ pc = "player" /\ pc' = "settle"
      /\ profile' = IF Tracking(hand) THEN [profile EXCEPT ![subject] = Enter(@, lines)] ELSE profile
  BY DEF ResultInv, OnceOK, ListenAsPlayer
<1>2. /\ Part \in Participant /\ subject \in Player
      /\ board \in [Player -> Book] /\ profile \in [Player -> Book]
  BY <1>1, NowFacts, MatchFacts DEF ResultInv, TimeInv, HandOK, Part, BooksOK
<1>3. lines \in Book /\ OfMatches(lines)
  BY <1>2, OutcomesAreNumbers, OutcomesAreOfMatches
<1>4. Tracking(hand) =>
        \A e \in OnBoard : board[subject][e] >= profile[subject][e] + lines[e]
  BY <1>1 DEF ResultInv, LeadOK
<1> HIDE DEF lines
<1>5. BoardsCountOnce' /\ OnceOK'
  BY <1>1 DEF ResultInv, BoardsCountOnce, OnceOK, OfMatches, Behind
<1>6. CASE ~Tracking(hand)
  <2>1. UNCHANGED profile
    BY <1>1, <1>6
  <2> QED BY <1>1, <1>5, <2>1 DEF ResultInv, ResultsAreOfMatches, LeadOK, BoardsLead
<1>7. CASE Tracking(hand)
  <2>1. /\ profile'[subject] = Enter(profile[subject], lines)
        /\ \A p \in Player \ {subject} : profile'[p] = profile[p]
    BY <1>1, <1>2, <1>7
  <2>2. ResultsAreOfMatches'
    <3>1. \A p \in Player : OfMatches(profile[p])
      BY DEF ResultInv, ResultsAreOfMatches, OfMatches
    <3>2. \A p \in Player : OfMatches(profile'[p])
      BY <1>2, <1>3, <2>1, <3>1, EnterKeepsOfMatches
    <3> QED BY <3>2 DEF ResultsAreOfMatches, OfMatches
  <2>3. LeadOK'
    <3>1. ASSUME NEW e \in OnBoard PROVE board[subject][e] >= profile'[subject][e]
      BY <1>2, <1>3, <1>4, <1>7, <2>1, EnterAdds, EntriesShown
    <3>2. BoardsLead'
      BY <1>1, <2>1, <3>1 DEF ResultInv, LeadOK, BoardsLead, OnBoard
    <3> QED BY <1>1, <3>2 DEF LeadOK
  <2> QED BY <1>5, <2>2, <2>3
<1> QED BY <1>6, <1>7

LEMMA ResultStep == ResultInv /\ [Next]_vars => ResultInv'
<1> SUFFICES ASSUME ResultInv, [Next]_vars PROVE ResultInv'
  OBVIOUS
<1>1. TimeInv'
  BY TimeStep DEF ResultInv
<1>2. UNCHANGED mode
  BY DEF Next, vars
<1>3. BoardsCountOnce' /\ OnceOK' /\ ResultsAreOfMatches' /\ LeadOK'
  <2>1. CASE \/ Tick \/ JoinParty \/ LeaveParty \/ UNCHANGED vars \/ Die
             \/ \E p \in mode.players, party \in Party : OnPartyJoin(p, party)
             \/ \E p \in mode.players : OnPartyLeave(p)
             \/ \E won \in SUBSET Party : OnMatchEnd(won)
    BY <1>2, <2>1, ResultsAside
  <2>2. CASE \E g \in mode.gamemodes, present \in SUBSET mode.players :
               \E roster \in [present -> mode.seats] : OnMatchStart(g, roster)
    BY <1>2, <2>2, ResultsOfMatchStart
  <2>3. CASE \E p \in DOMAIN taken : ListenAsParticipant(p)
    BY <1>2, <2>3, ResultsOfParticipant
  <2>4. CASE ListenAsBoard
    BY <1>2, <2>4, ResultsOfBoard
  <2>5. CASE ListenAsPlayer
    BY <1>2, <2>5, ResultsOfPlayer
  <2>6. CASE SetMatch
    BY <1>2, <2>6, ResultsOfSetMatch
  <2> QED BY <2>1, <2>2, <2>3, <2>4, <2>5, <2>6 DEF Next
<1> QED BY <1>1, <1>3 DEF ResultInv

-----------------------------------------------------------------------------
(* Agreement.  A player's book, its books by gamemode and its xp are       *)
(* written together, from thresholds that are computed three times.        *)

Tracked == Gamemode \ {"ARCADE"}

Lines(p, e, G) == [g \in G |-> gamemodes[p][g][e]]
XpLines(p) ==
  [g \in Gamemode |-> 200 * gamemodes[p][g]["wins"]
     + 100 * gamemodes[p][g]["losses"] + 150 * gamemodes[p][g]["ties"]]
Matches(p) == Total(Lines(p, "matches", Gamemode))

\* A match that p is in may still be counted.
ToCome(p) ==
  \/ match # NoMatch /\ match.ended = Never
  \/ pc \in {"settle", "board", "player"} /\ p \in DOMAIN taken
  \/ pc \in {"board", "player"} /\ p = subject

AgreeOK ==
  \A p \in Player :
    /\ xp[p] = Total(XpLines(p))
    /\ \A e \in Entry : profile[p][e] = Total(Lines(p, e, Tracked))

PlayedOnce ==
  /\ pc \in {"board", "player"} => subject \notin DOMAIN taken
  /\ \A p \in Player : Matches(p) <= rounds /\ (ToCome(p) => Matches(p) < rounds)

AgreeInv ==
  ResultInv /\ gamemodes \in [Player -> [Gamemode -> Book]] /\ AgreeOK /\ PlayedOnce

LEMMA GamemodesFinite == IsFiniteSet(Gamemode) /\ IsFiniteSet(Tracked)
BY ParticipationAssumption, FS_Difference DEF Tracked

\* The listeners of the player and of the gamemode count the same, ...
LEMMA SameResults ==
  ASSUME NEW part \in Participant, NEW m
  PROVE  GamemodeOutcome(part, m) = Outcome(part, m)
<1>1. ASSUME NEW e \in Entry PROVE GamemodeOutcome(part, m)[e] = Outcome(part, m)[e]
  <2>1. One(part.party # NoParty /\ part.away < AwayLimit)
          = One(part.away < AwayLimit /\ part.party # NoParty)
    BY DEF One
  <2>2. CASE e \in Result
    BY <1>1, <2>2 DEF GamemodeOutcome, Outcome, LongPlayed
  <2>3. CASE e \notin Result
    <3>1. e \in {"matches", "present_start", "present_full", "present_end", "playtime"}
      BY <1>1, <2>3 DEF Entry
    <3> QED BY <2>1, <2>3, <3>1 DEF GamemodeOutcome, Outcome, LongPlayed, Early, Entry
  <2> QED BY <2>2, <2>3
<1>2. GamemodeOutcome(part, m) \in Book /\ Outcome(part, m) \in Book
  <2>1. \A b : One(b) \in {0, 1}
    BY DEF One
  <2>2. part.playtime \in Nat
    BY DEF Participant
  <2>3. GamemodeOutcome(part, m) \in Book
    BY <2>1, <2>2 DEF GamemodeOutcome, Book, Entry
  <2> QED BY <2>3, OutcomesAreNumbers
<1> QED BY <1>1, <1>2 DEF Book

\* ... and xp is given for what they count.
LEMMA XpOfResults ==
  ASSUME NEW part, NEW m
  PROVE  /\ ResultXp(part, m) = 200 * Outcome(part, m)["wins"]
              + 100 * Outcome(part, m)["losses"] + 150 * Outcome(part, m)["ties"]
         /\ Outcome(part, m)["matches"] \in {0, 1}
<1>1. /\ \A e \in Result : Outcome(part, m)[e] = One(LongPlayed(part, m) /\ e \in ResultOf(part))
      /\ Outcome(part, m)["matches"] = One(LongPlayed(part, m))
      /\ "wins" \in Result /\ "losses" \in Result /\ "ties" \in Result
  BY DEF Outcome, Entry, Result
<1> QED BY <1>1 DEF ResultXp, One

LEMMA LinesAreNumbers ==
  ASSUME gamemodes \in [Player -> [Gamemode -> Book]], NEW p \in Player
  PROVE  /\ \A e \in Entry : /\ Lines(p, e, Gamemode) \in [Gamemode -> Nat]
                             /\ Lines(p, e, Tracked) \in [Tracked -> Nat]
                             /\ Total(Lines(p, e, Gamemode)) \in Nat
                             /\ Total(Lines(p, e, Tracked)) \in Nat
         /\ XpLines(p) \in [Gamemode -> Nat] /\ Total(XpLines(p)) \in Nat
         /\ Matches(p) \in Nat
<1>1. \A g \in Gamemode, e \in Entry : gamemodes[p][g][e] \in Nat
  BY DEF Book
<1>2. \A e \in Entry : /\ Lines(p, e, Gamemode) \in [Gamemode -> Nat]
                       /\ Lines(p, e, Tracked) \in [Tracked -> Nat]
  BY <1>1 DEF Lines, Tracked
<1>3. XpLines(p) \in [Gamemode -> Nat]
  <2>1. \A g \in Gamemode : /\ gamemodes[p][g]["wins"] \in Nat
                            /\ gamemodes[p][g]["losses"] \in Nat
                            /\ gamemodes[p][g]["ties"] \in Nat
    BY <1>1, EntriesShown
  <2> QED BY <2>1 DEF XpLines
<1>4. \A e \in Entry : Total(Lines(p, e, Gamemode)) \in Nat /\ Total(Lines(p, e, Tracked)) \in Nat
  BY <1>2, GamemodesFinite, TotalType
<1>5. Total(XpLines(p)) \in Nat
  BY <1>3, GamemodesFinite, TotalType
<1> QED BY <1>2, <1>3, <1>4, <1>5, EntriesShown DEF Matches

LEMMA AgreeInit == Init => AgreeInv
<1> SUFFICES ASSUME Init PROVE AgreeInv
  OBVIOUS
<1>1. \A e \in Entry : EmptyBook[e] = 0
  BY DEF EmptyBook
<1>2. EmptyBook \in Book
  BY <1>1 DEF EmptyBook, Book
<1>3. gamemodes \in [Player -> [Gamemode -> Book]]
  BY <1>2 DEF Init
<1>4. ASSUME NEW p \in Player
      PROVE  /\ \A e \in Entry : /\ Lines(p, e, Tracked) = [g \in Tracked |-> 0]
                                 /\ Lines(p, e, Gamemode) = [g \in Gamemode |-> 0]
             /\ XpLines(p) = [g \in Gamemode |-> 0]
  <2>1. \A g \in Gamemode, e \in Entry : gamemodes[p][g][e] = 0
    BY <1>1 DEF Init
  <2>2. \A e \in Entry : /\ Lines(p, e, Tracked) = [g \in Tracked |-> 0]
                         /\ Lines(p, e, Gamemode) = [g \in Gamemode |-> 0]
    BY <2>1 DEF Lines, Tracked
  <2>3. XpLines(p) = [g \in Gamemode |-> 0]
    BY <2>1, EntriesShown DEF XpLines
  <2> QED BY <2>2, <2>3
<1>5. /\ Total([g \in Tracked |-> 0]) = 0
      /\ Total([g \in Gamemode |-> 0]) = 0
  BY GamemodesFinite, TotalOfZeros
<1>6. AgreeOK
  BY <1>1, <1>4, <1>5 DEF Init, AgreeOK
<1>7. PlayedOnce
  BY <1>4, <1>5, EntriesShown DEF Init, PlayedOnce, Matches, ToCome
<1> QED BY <1>3, <1>6, <1>7, ResultInit DEF AgreeInv

\* Steps that leave the books of the player alone, and after which no more
\* matches are to come for a player than before
LEMMA AgreeAside ==
  ASSUME AgreeInv, UNCHANGED <<profile, gamemodes, xp, rounds>>,
         \A p \in Player : ToCome(p)' => ToCome(p),
         (pc \in {"board", "player"} => subject \notin DOMAIN taken)'
  PROVE  (gamemodes \in [Player -> [Gamemode -> Book]])' /\ AgreeOK' /\ PlayedOnce'
<1>1. AgreeOK'
  BY DEF AgreeInv, AgreeOK, XpLines, Lines
<1>2. PlayedOnce'
  BY DEF AgreeInv, PlayedOnce, Matches, Lines
<1> QED BY <1>1, <1>2 DEF AgreeInv

\* One book more in the gamemode of the match
LEMMA AgreeOfPlayer ==
  ASSUME AgreeInv, UNCHANGED mode, ListenAsPlayer
  PROVE  (gamemodes \in [Player -> [Gamemode -> Book]])' /\ AgreeOK' /\ PlayedOnce'
<1> DEFINE lines == Outcome(Part, hand)
           g == hand.gamemode
<1>0. ResultInv /\ TimeInv
  BY DEF AgreeInv, ResultInv
<1>1. /\ Part \in Participant /\ subject \in Player /\ g \in Gamemode
      /\ profile \in [Player -> Book] /\ xp \in [Player -> Nat]
      /\ pc = "player" /\ pc' = "settle" /\ subject' = NoOne
      /\ UNCHANGED <<match, rounds, taken>> /\ rounds \in Nat
      /\ match.ended # Never /\ subject \notin DOMAIN taken
      /\ gamemodes \in [Player -> [Gamemode -> Book]]
  BY <1>0, NowFacts, MatchFacts
     DEF AgreeInv, PlayedOnce, ResultInv, OnceOK, TimeInv, HandOK, Part, BooksOK, ListenAsPlayer
<1>2. /\ lines \in Book /\ lines = GamemodeOutcome(Part, hand)
      /\ ResultXp(Part, hand) = 200 * lines["wins"] + 100 * lines["losses"] + 150 * lines["ties"]
      /\ lines["matches"] \in {0, 1}
  BY <1>1, SameResults, OutcomesAreNumbers, XpOfResults
<1>3. /\ profile' = IF Tracking(hand) THEN [profile EXCEPT ![subject] = Enter(@, lines)] ELSE profile
      /\ gamemodes' = [gamemodes EXCEPT ![subject][g] = Enter(@, lines)]
      /\ xp' = [xp EXCEPT ![subject] = @ + ResultXp(Part, hand)]
  BY <1>2 DEF ListenAsPlayer
<1>4. g \in Tracked <=> Tracking(hand)
  BY <1>1 DEF Tracked, Tracking
<1> HIDE DEF lines, g
<1>5. gamemodes[subject][g] \in Book
  BY <1>1
<1>6. /\ gamemodes' \in [Player -> [Gamemode -> Book]]
      /\ \A p \in Player \ {subject} : gamemodes'[p] = gamemodes[p]
      /\ \A h \in Gamemode \ {g} : gamemodes'[subject][h] = gamemodes[subject][h]
      /\ gamemodes'[subject][g] = Enter(gamemodes[subject][g], lines)
  <2>1. Enter(gamemodes[subject][g], lines) \in Book
    BY <1>2, <1>5, EnterAdds
  <2> QED BY <1>1, <1>3, <2>1
<1>7. \A e \in Entry : gamemodes'[subject][g][e] = gamemodes[subject][g][e] + lines[e]
  BY <1>2, <1>5, <1>6, EnterAdds
<1>8. \A e \in Entry, h \in Gamemode :
        gamemodes[subject][h][e] \in Nat /\ gamemodes'[subject][h][e] \in Nat /\ lines[e] \in Nat
  BY <1>1, <1>2, <1>6 DEF Book
<1>9. ASSUME NEW p \in Player \ {subject}
      PROVE  /\ XpLines(p)' = XpLines(p) /\ xp'[p] = xp[p] /\ profile'[p] = profile[p]
             /\ \A e, G : Lines(p, e, G)' = Lines(p, e, G)
  BY <1>1, <1>3, <1>6 DEF XpLines, Lines
<1>10. ASSUME NEW p \in Player, p = subject, NEW e \in Entry, NEW G \in {Gamemode, Tracked}
       PROVE  Total(Lines(p, e, G)') = Total(Lines(p, e, G)) + (IF g \in G THEN lines[e] ELSE 0)
  <2>1. G \subseteq Gamemode /\ IsFiniteSet(G)
    BY GamemodesFinite DEF Tracked
  <2> DEFINE f == [h \in G |-> gamemodes[p][h][e]]
             k == [h \in G |-> gamemodes'[p][h][e]]
  <2>2. f \in [G -> Nat] /\ k \in [G -> Nat]
    BY <1>8, <1>10, <2>1
  <2>3. \A h \in G \ {g} : k[h] = f[h]
    BY <1>6, <1>10, <2>1
  <2>4. g \in G => k[g] = f[g] + lines[e] /\ f[g] \in Nat /\ lines[e] \in Nat
    BY <1>7, <1>8, <1>10, <2>1
  <2> HIDE DEF f, k
  <2>5. Total(f) \in Nat
    BY <2>1, <2>2, TotalType
  <2>6. CASE g \in G
    <3>1. Total(k) = Total(f) + k[g] - f[g]
      BY <2>1, <2>2, <2>3, <2>6, TotalChanges
    <3>2. Total(k) = Total(f) + lines[e]
      BY <2>4, <2>5, <2>6, <3>1
    <3> QED BY <2>6, <3>2 DEF Lines, f, k
  <2>7. CASE g \notin G
    <3>1. k = f
      BY <2>3, <2>7 DEF f, k
    <3>2. Total(k) = Total(f) + 0
      BY <2>5, <3>1
    <3> QED BY <2>7, <3>2 DEF Lines, f, k
  <2> QED BY <2>6, <2>7
<1>11. gamemodes[subject][g]["wins"] \in Nat /\ lines["wins"] \in Nat
       /\ gamemodes[subject][g]["losses"] \in Nat /\ lines["losses"] \in Nat
       /\ gamemodes[subject][g]["ties"] \in Nat /\ lines["ties"] \in Nat
  BY <1>1, <1>8, EntriesShown
<1>12. ASSUME NEW p \in Player, p = subject
       PROVE  Total(XpLines(p)') = Total(XpLines(p)) + ResultXp(Part, hand)
  <2> DEFINE f == XpLines(p)
             k == [h \in Gamemode |-> 200 * gamemodes'[p][h]["wins"]
                     + 100 * gamemodes'[p][h]["losses"]
                     + 150 * gamemodes'[p][h]["ties"]]
  <2>1. f \in [Gamemode -> Nat] /\ Total(f) \in Nat
    BY <1>1, LinesAreNumbers
  <2>2. k \in [Gamemode -> Nat]
    <3>1. \A h \in Gamemode : /\ gamemodes'[p][h]["wins"] \in Nat
                              /\ gamemodes'[p][h]["losses"] \in Nat
                              /\ gamemodes'[p][h]["ties"] \in Nat
      BY <1>8, <1>12, EntriesShown
    <3> QED BY <3>1
  <2>3. \A h \in Gamemode \ {g} : k[h] = f[h]
    BY <1>6, <1>12 DEF XpLines
  <2>4. k[g] = f[g] + ResultXp(Part, hand) /\ f[g] \in Nat /\ ResultXp(Part, hand) \in Nat
    <3>1. /\ k[g] = 200 * gamemodes'[subject][g]["wins"]
                      + 100 * gamemodes'[subject][g]["losses"]
                      + 150 * gamemodes'[subject][g]["ties"]
          /\ f[g] = 200 * gamemodes[subject][g]["wins"]
                      + 100 * gamemodes[subject][g]["losses"]
                      + 150 * gamemodes[subject][g]["ties"]
      BY <1>1, <1>12 DEF XpLines
    <3>2. /\ gamemodes'[subject][g]["wins"] = gamemodes[subject][g]["wins"] + lines["wins"]
          /\ gamemodes'[subject][g]["losses"] = gamemodes[subject][g]["losses"] + lines["losses"]
          /\ gamemodes'[subject][g]["ties"] = gamemodes[subject][g]["ties"] + lines["ties"]
      BY <1>7, EntriesShown
    <3> QED BY <1>2, <1>11, <3>1, <3>2
  <2> HIDE DEF f, k
  <2>5. Total(k) = Total(f) + k[g] - f[g]
    <3>1. g \in Gamemode /\ f \in [Gamemode -> Nat] /\ IsFiniteSet(Gamemode)
      BY <1>1, <2>1, GamemodesFinite
    <3> QED BY <2>2, <2>3, <3>1, TotalChanges
  <2>6. Total(k) = Total(f) + ResultXp(Part, hand)
    BY <2>1, <2>4, <2>5
  <2> QED BY <2>6 DEF f, k, XpLines
<1>13. AgreeOK'
  <2> SUFFICES ASSUME NEW p \in Player
               PROVE  /\ xp'[p] = Total(XpLines(p)')
                      /\ \A e \in Entry : profile'[p][e] = Total(Lines(p, e, Tracked)')
    BY DEF AgreeOK
  <2>1. xp[p] = Total(XpLines(p)) /\ \A e \in Entry : profile[p][e] = Total(Lines(p, e, Tracked))
    BY DEF AgreeInv, AgreeOK
  <2>2. CASE p # subject
    BY <1>9, <2>1, <2>2
  <2>3. CASE p = subject
    <3>1. xp'[p] = xp[p] + ResultXp(Part, hand)
      BY <1>1, <1>3, <2>3
    <3>2. ASSUME NEW e \in Entry PROVE profile'[p][e] = Total(Lines(p, e, Tracked)')
      <4>1. Total(Lines(p, e, Tracked)')
              = Total(Lines(p, e, Tracked)) + (IF g \in Tracked THEN lines[e] ELSE 0)
        BY <1>10, <2>3
      <4>2. profile[p][e] \in Nat
        BY <1>1 DEF Book
      <4>3. CASE Tracking(hand)
        <5>1. profile'[p] = Enter(profile[p], lines)
          BY <1>1, <1>3, <2>3, <4>3
        <5>2. profile'[p][e] = profile[p][e] + lines[e]
          BY <1>1, <1>2, <5>1, EnterAdds
        <5> QED BY <1>4, <2>1, <4>1, <4>3, <5>2
      <4>4. CASE ~Tracking(hand)
        BY <1>3, <1>4, <2>1, <4>1, <4>2, <4>4
      <4> QED BY <4>3, <4>4
    <3>3. Total(XpLines(p)') = Total(XpLines(p)) + ResultXp(Part, hand)
      BY <1>12, <2>3
    <3> QED BY <2>1, <3>1, <3>2, <3>3
  <2> QED BY <2>2, <2>3
<1>14. PlayedOnce'
  <2>1. ASSUME NEW p \in Player
        PROVE  Matches(p)' <= rounds /\ (ToCome(p)' => Matches(p)' < rounds)
    <3>1. ToCome(p)' => p # subject /\ ToCome(p)
      BY <1>1 DEF ToCome
    <3>2. Matches(p) <= rounds /\ (ToCome(p) => Matches(p) < rounds) /\ Matches(p) \in Nat
      BY <1>1, LinesAreNumbers DEF AgreeInv, PlayedOnce
    <3>3. CASE p # subject
      <4>1. Matches(p)' = Matches(p)
        BY <1>9, <3>3 DEF Matches
      <4> QED BY <3>1, <3>2, <4>1
    <3>4. CASE p = subject
      <4>1. Matches(p) < rounds
        BY <1>1, <3>2, <3>4 DEF ToCome
      <4>2. Matches(p)' = Matches(p) + lines["matches"]
        BY <1>1, <1>10, <3>4, EntriesShown DEF Matches
      <4> QED BY <1>1, <1>2, <3>1, <3>2, <3>4, <4>1, <4>2
    <3> QED BY <3>3, <3>4
  <2> QED BY <1>1, <2>1 DEF PlayedOnce
<1> QED BY <1>6, <1>13, <1>14

LEMMA AgreeStep == AgreeInv /\ [Next]_vars => AgreeInv'
<1> SUFFICES ASSUME AgreeInv, [Next]_vars PROVE AgreeInv'
  OBVIOUS
<1>1. ResultInv' /\ ResultInv /\ TimeInv /\ OnceOK /\ rounds \in Nat
  BY ResultStep DEF AgreeInv, ResultInv, OnceOK
<1> SUFFICES (gamemodes \in [Player -> [Gamemode -> Book]])' /\ AgreeOK' /\ PlayedOnce'
  BY <1>1 DEF AgreeInv
<1>2. UNCHANGED mode
  BY DEF Next, vars
<1>3. pc \in {"board", "player"} => subject \notin DOMAIN taken
  BY DEF AgreeInv, PlayedOnce
<1>4. CASE Tick \/ UNCHANGED vars
  <2>1. UNCHANGED <<profile, gamemodes, xp, rounds, match, pc, taken, subject>>
    BY <1>4 DEF Tick, vars, local, books
  <2> QED BY <1>3, <2>1, AgreeAside DEF ToCome
<1>5. CASE \/ \E p \in mode.players, party \in Party : OnPartyJoin(p, party)
           \/ \E p \in mode.players : OnPartyLeave(p)
  <2>1. UNCHANGED <<profile, gamemodes, xp, rounds, match>> /\ pc' \in {"party_join", "party_leave"}
    BY <1>5 DEF OnPartyJoin, OnPartyLeave, books
  <2> QED BY <2>1, AgreeAside DEF ToCome
<1>6. CASE JoinParty \/ LeaveParty \/ Die
  <2>1. UNCHANGED <<profile, gamemodes, xp, rounds, match>> /\ pc' \in {"match", "idle"}
    BY <1>6 DEF JoinParty, LeaveParty, Die, Forget, books
  <2> QED BY <2>1, AgreeAside DEF ToCome
<1>7. CASE \E won \in SUBSET Party : OnMatchEnd(won)
  <2>1. /\ UNCHANGED <<profile, gamemodes, xp, rounds>> /\ pc' = "settle"
        /\ match # NoMatch /\ match.ended = Never
    BY <1>7 DEF OnMatchEnd, InProgress, books
  <2> QED BY <2>1, AgreeAside DEF ToCome
<1>8. CASE \E p \in DOMAIN taken : ListenAsParticipant(p)
  <2>1. PICK p \in DOMAIN taken : ListenAsParticipant(p)
    BY <1>8
  <2>2. /\ UNCHANGED <<profile, gamemodes, xp, rounds>> /\ match' = hand
        /\ pc = "settle" /\ pc' = "board" /\ subject' = p
        /\ DOMAIN taken' = DOMAIN taken \ {p}
    BY <2>1 DEF ListenAsParticipant, books
  <2>3. hand.ended # Never
    BY <1>1, <2>2 DEF TimeInv, HandOK
  <2> QED BY <2>2, <2>3, AgreeAside DEF ToCome
<1>9. CASE ListenAsBoard
  <2>1. /\ UNCHANGED <<profile, gamemodes, xp, rounds, match, taken, subject>>
        /\ pc = "board" /\ pc' = "player"
    BY <1>9 DEF ListenAsBoard, local
  <2> QED BY <1>3, <2>1, AgreeAside DEF ToCome
<1>10. CASE ListenAsPlayer
  BY <1>2, <1>10, AgreeOfPlayer
<1>11. CASE SetMatch
  <2>1. /\ UNCHANGED <<profile, gamemodes, xp, rounds>> /\ match' = hand /\ pc' = "idle"
        /\ pc \in {"match", "settle"}
    BY <1>11 DEF SetMatch, Forget, books
  <2>2. pc = "settle" => hand.ended # Never
    BY <1>1 DEF TimeInv, HandOK
  <2>3. pc = "match" => match # NoMatch /\ match.ended = Never
    BY <1>1 DEF OnceOK
  <2> QED BY <2>1, <2>2, <2>3, AgreeAside DEF ToCome
<1>12. CASE \E g \in mode.gamemodes, present \in SUBSET mode.players :
              \E roster \in [present -> mode.seats] : OnMatchStart(g, roster)
  <2>1. /\ UNCHANGED <<profile, gamemodes, xp, pc, taken, subject>> /\ pc = "idle"
        /\ rounds' = rounds + 1
    BY <1>12 DEF OnMatchStart, books, local
  <2>2. AgreeOK'
    BY <2>1 DEF AgreeInv, AgreeOK, XpLines, Lines
  <2>3. \A p \in Player : Matches(p)' = Matches(p) /\ Matches(p) \in Nat /\ Matches(p) <= rounds
    BY <2>1, LinesAreNumbers DEF AgreeInv, PlayedOnce, Matches, Lines
  <2>4. PlayedOnce'
    BY <1>1, <2>1, <2>3 DEF PlayedOnce
  <2> QED BY <2>1, <2>2, <2>4 DEF AgreeInv
<1> QED BY <1>4, <1>5, <1>6, <1>7, <1>8, <1>9, <1>10, <1>11, <1>12 DEF Next

\* What MapThenSumSet adds up, of the gamemodes of a player
LEMMA SumsOfGamemodes ==
  ASSUME NEW p
  PROVE  /\ MapThenSumSet(LAMBDA g : 200 * gamemodes[p][g]["wins"]
              + 100 * gamemodes[p][g]["losses"] + 150 * gamemodes[p][g]["ties"], Gamemode)
              = Total(XpLines(p))
         /\ \A e : MapThenSumSet(LAMBDA g : gamemodes[p][g][e], Gamemode \ {"ARCADE"})
                     = Total(Lines(p, e, Tracked))
         /\ MapThenSumSet(LAMBDA g : gamemodes[p][g]["matches"], Gamemode) = Matches(p)
<1>1. MapThenSumSet(LAMBDA g : 200 * gamemodes[p][g]["wins"]
        + 100 * gamemodes[p][g]["losses"] + 150 * gamemodes[p][g]["ties"], Gamemode)
        = Total(XpLines(p))
  <2> DEFINE worth(g) == 200 * gamemodes[p][g]["wins"]
               + 100 * gamemodes[p][g]["losses"] + 150 * gamemodes[p][g]["ties"]
  <2>1. XpLines(p) = [g \in Gamemode |-> worth(g)]
    BY DEF XpLines
  <2> HIDE DEF worth
  <2>2. \A G : MapThenSumSet(LAMBDA g : worth(g), G) = Total([g \in G |-> worth(g)])
    BY ZenonT(30) DEF MapThenSumSet, MapThenFoldSet, Total, Adds, Pick
  <2>3. MapThenSumSet(LAMBDA g : worth(g), Gamemode) = Total(XpLines(p))
    BY <2>1, <2>2
  <2> QED BY <2>3 DEF worth
<1>2. \A e, G : MapThenSumSet(LAMBDA g : gamemodes[p][g][e], G) = Total(Lines(p, e, G))
  BY ZenonT(30) DEF MapThenSumSet, MapThenFoldSet, Total, Lines, Adds, Pick
<1> QED BY <1>1, <1>2 DEF Tracked, Matches

\* The listeners of the player, of the gamemodes and of the xp compute the
\* thresholds of a result each for itself, and they agree for all times and
\* matches; the boards are ahead of the player; and although the end of a match
\* may break off anywhere and be repeated by the plugin, on_match_end_v2 counts
\* no match twice, on the boards or in the player.
THEOREM ResultsAreSound == Spec => []ResultsSound
<1>1. AgreeInv => ResultsSound
  <2> SUFFICES ASSUME AgreeInv PROVE ResultsSound
    OBVIOUS
  <2>1. OutcomesAgree
    BY SumsOfGamemodes DEF AgreeInv, AgreeOK, OutcomesAgree
  <2>2. EachMatchCountsOnce
    BY SumsOfGamemodes
       DEF AgreeInv, PlayedOnce, ResultInv, BoardsCountOnce, OfMatches, EachMatchCountsOnce
  <2> QED BY <2>1, <2>2 DEF AgreeInv, ResultInv, LeadOK, ResultsSound
<1> QED BY AgreeInit, AgreeStep, <1>1, PTL DEF Spec
=============================================================================

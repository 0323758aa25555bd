---------------------------- MODULE Leaderboards ----------------------------
(***************************************************************************)
(* The leaderboards (socket/leaderboard).  Each kind of score has a board  *)
(* for the day, the week, the month, the season, the year and for all time *)
(* and each board is a sorted set in Redis, under a key made from the date.*)
(* A score is entered with one or two commands per board, one board after  *)
(* the other; the clock goes on in between, other tasks write as well, and *)
(* a task may die before it is through.                                    *)
(*                                                                         *)
(* total stands for the boards that add up (increment), best for           *)
(* HIGHEST_KILLSTREAK (set_if_higher).  Leaderboard::set and               *)
(* populate_all_time are never called.                                     *)
(***************************************************************************)
EXTENDS Integers, Sequences, FiniteSets, FiniteSetsExt

CONSTANTS
  Task,        \* the connections and requests that enter scores
  Member,      \* "<player id>/<player name>"
  NoMember,
  Calendar,    \* dates in New York
  Cap,         \* of the entries of an answer (50)
  Word,        \* the size of u32 (2^32)
  Settings     \* what a behaviour may be like, see Setting

\* As chrono gives it: month from 1, week is the ISO week.
Date == [year : Nat, month : 1..12, day : 1..31, week : 1..53]

\* Whose scores are entered on which of the dates, and how many entries are
\* asked for; may two tasks enter scores of one player at a time?; does the
\* clock stand still while scores are entered?; may tasks die?; and a bound on
\* the scores entered and the questions asked.
Setting == [members : SUBSET Member, days : SUBSET (DOMAIN Calendar),
         scores : SUBSET Nat, limits : SUBSET Nat,
         overlap : BOOLEAN, steady : BOOLEAN, mayDie : BOOLEAN, requests : Nat]

ASSUME CalendarAssumption == Calendar \in Seq(Date) /\ Calendar # << >>
\* A date is in one week.
ASSUME WeekAssumption ==
  \A a, b \in DOMAIN Calendar :
    LET c == Calendar[a]  d == Calendar[b]
    IN  c.year = d.year /\ c.month = d.month /\ c.day = d.day => c.week = d.week
ASSUME MemberAssumption == NoMember \notin Member
\* Connections and requests of one process
ASSUME TaskAssumption == IsFiniteSet(Task)
ASSUME BoundsAssumption == Cap \in Nat \ {0} /\ Word \in Nat \ {0}
ASSUME SettingAssumption == Settings \subseteq Setting

VARIABLES
  setting,    \* the setting of this behaviour: it never changes
  total,      \* total[k][m]: the score of m under key k
  best,       \* the same for the highest killstreak
  today,      \* the clock: an index of Calendar
  command,    \* command[t]: the command that task t is about to send
  who,        \* who[t]: whose score it enters
  amount,     \* amount[t]: which score
  turn,       \* turn[t]: for which period
  seen,       \* seen[t]: set_if_higher's current
  answer,     \* what fetch_top answered last
  granted,    \* granted[m]: the sum of what increment was called with
  asked,      \* asked[m]: the highest that set_if_higher was called with
  finished,   \* finished[m]: the highest that it has finished with
  requests    \* how many scores were entered and questions asked

boards == <<total, best>>
tasks == <<command, who, amount, turn, seen>>
history == <<granted, asked, finished>>
boardsVars == <<setting, boards, today, tasks, answer, history, requests>>

Overlap == setting.overlap

-----------------------------------------------------------------------------
(* Keys.                                                                   *)

Season(month) ==
  CASE month \in {3, 4} -> "spring"
    [] month \in 5..8 -> "summer"
    [] month \in {9, 10} -> "autumn"
    [] OTHER -> "winter"

\* LeaderboardPeriod::iter
Period == <<"daily", "weekly", "monthly", "seasonally", "yearly", "all">>
AllTime == Len(Period)

\* get_today_id.  The year of a week is the year of the date, not of the ISO
\* week, and a winter has January and December of one year.
Key(i, d) ==
  CASE Period[i] = "daily" -> <<"d", d.year, d.month - 1, d.day>>
    [] Period[i] = "weekly" -> <<"w", d.year, d.week>>
    [] Period[i] = "monthly" -> <<"m", d.year, d.month - 1>>
    [] Period[i] = "seasonally" -> <<"s", d.year, Season(d.month)>>
    [] Period[i] = "yearly" -> <<"y", d.year>>
    [] Period[i] = "all" -> <<"all">>

KeysOf == [i \in DOMAIN Period |-> {Key(i, Calendar[n]) : n \in DOMAIN Calendar}]
Keys == UNION {KeysOf[i] : i \in DOMAIN Period}
All == <<"all">>

\* The key of the period that task t is at
Here(t) == Key(turn[t], Calendar[today])

-----------------------------------------------------------------------------
(* Tasks.                                                                  *)

\* Mutant of Begin: a player's scores may come from two connections.
BeginOverlapping(t, m, n, at) ==
  /\ command[t] = "idle" /\ requests < setting.requests
  /\ command' = [command EXCEPT ![t] = at]
  /\ who' = [who EXCEPT ![t] = m]
  /\ amount' = [amount EXCEPT ![t] = n]
  /\ turn' = [turn EXCEPT ![t] = 1]
  /\ requests' = requests + 1
  /\ UNCHANGED <<boards, today, seen, answer, finished>>

\* A player is on one server, and a server's events are handled one by one.
\* Overlap is for a second connection or a request that does not wait.
Begin(t, m, n, at) ==
  /\ command[t] = "idle" /\ requests < setting.requests
  /\ Overlap \/ \A u \in Task : command[u] # "idle" => who[u] # m
  /\ command' = [command EXCEPT ![t] = at]
  /\ who' = [who EXCEPT ![t] = m]
  /\ amount' = [amount EXCEPT ![t] = n]
  /\ turn' = [turn EXCEPT ![t] = 1]
  /\ requests' = requests + 1
  /\ UNCHANGED <<boards, today, seen, answer, finished>>

Larger(a, b) == IF a > b THEN a ELSE b

Increment(t, m, n) ==
  /\ Begin(t, m, n, "increment")
  /\ granted' = [granted EXCEPT ![m] = @ + n]
  /\ UNCHANGED asked

SetIfHigher(t, m, n) ==
  /\ Begin(t, m, n, "score")
  /\ asked' = [asked EXCEPT ![m] = Larger(@, n)]
  /\ UNCHANGED granted

Idle(t) ==
  /\ command' = [command EXCEPT ![t] = "idle"]
  /\ who' = [who EXCEPT ![t] = NoMember]
  /\ amount' = [amount EXCEPT ![t] = 0]
  /\ turn' = [turn EXCEPT ![t] = 1]
  /\ seen' = [seen EXCEPT ![t] = 0]

\* On to the next period, or done
Onwards(t, at) ==
  \/ /\ turn[t] = AllTime
     /\ Idle(t)
     /\ finished' = IF at = "score" THEN [finished EXCEPT ![who[t]] = Larger(@, amount[t])]
                                    ELSE finished
  \/ /\ turn[t] < AllTime
     /\ turn' = [turn EXCEPT ![t] = @ + 1]
     /\ command' = [command EXCEPT ![t] = at]
     /\ seen' = [seen EXCEPT ![t] = 0]
     /\ UNCHANGED <<who, amount, finished>>

Rest == <<today, answer, granted, asked, requests>>

\* Mutant of ZIncrBy: who is on the board of the week is taken for done there.
ZIncrByOnce(t) ==
  /\ command[t] = "increment"
  /\ total' = IF total[Here(t)][who[t]] > 0 /\ turn[t] = 2 THEN total
              ELSE [total EXCEPT ![Here(t)][who[t]] = @ + amount[t]]
  /\ Onwards(t, "increment")
  /\ UNCHANGED <<best, Rest>>

ZIncrBy(t) ==
  /\ command[t] = "increment"
  /\ total' = [total EXCEPT ![Here(t)][who[t]] = @ + amount[t]]
  /\ Onwards(t, "increment")
  /\ UNCHANGED <<best, Rest>>

\* Mutant of ZScore: no score reads as -1.
ZScoreNil(t) ==
  /\ command[t] = "score"
  /\ LET score == best[Here(t)][who[t]]
     IN  seen' = [seen EXCEPT ![t] = IF score = 0 THEN -1 ELSE score]
  /\ command' = [command EXCEPT ![t] = "add"]
  /\ UNCHANGED <<boards, who, amount, turn, finished, Rest>>

ZScore(t) ==
  /\ command[t] = "score"
  /\ seen' = [seen EXCEPT ![t] = best[Here(t)][who[t]]]
  /\ command' = [command EXCEPT ![t] = "add"]
  /\ UNCHANGED <<boards, who, amount, turn, finished, Rest>>

\* Mutant of ZAdd: set without the comparison (Leaderboard::set).
ZAddAlways(t) ==
  /\ command[t] = "add"
  /\ best' = [best EXCEPT ![Here(t)][who[t]] = amount[t]]
  /\ Onwards(t, "score")
  /\ UNCHANGED <<total, Rest>>

\* The key is made anew for the second command: midnight may be between the
\* board that is read and the board that is written.
ZAdd(t) ==
  /\ command[t] = "add"
  /\ best' = IF amount[t] > seen[t] THEN [best EXCEPT ![Here(t)][who[t]] = amount[t]] ELSE best
  /\ Onwards(t, "score")
  /\ UNCHANGED <<total, Rest>>

TaskDies(t) ==
  /\ setting.mayDie /\ command[t] # "idle"
  /\ Idle(t)
  /\ UNCHANGED <<boards, finished, Rest>>

\* Midnight
Midnight ==
  /\ setting.steady => \A t \in Task : command[t] = "idle"
  /\ \E d \in setting.days : d > today /\ today' = d
  /\ UNCHANGED <<boards, tasks, answer, history, requests>>

-----------------------------------------------------------------------------
(* Reading.                                                                *)

Entries(k) == {m \in Member : total[k][m] > 0}

\* Mutant of Shown: the last rank of ZRANGE is one too high.
ShownOneMore(limit, size) == IF limit + 1 < size THEN limit + 1 ELSE size

\* ZRANGE key 0 limit-1 REV: in a release build, 0u32 - 1 is the largest u32.
Shown(limit, size) ==
  LET last == (limit + Word - 1) % Word
  IN  IF last + 1 < size THEN last + 1 ELSE size

NoAnswer == [limit |-> 0, top |-> {}, scores |-> << >>]

\* get_leaderboard_entries and fetch_top
FetchTop(i, limit) ==
  LET k == Key(i, Calendar[today])
      capped == IF limit > Cap THEN Cap ELSE limit
      size == Shown(capped, Cardinality(Entries(k)))
  IN  /\ requests < setting.requests
      /\ \E top \in SUBSET Entries(k) :
           /\ Cardinality(top) = size
           /\ \A m \in top, l \in Entries(k) \ top : total[k][m] >= total[k][l]
           /\ answer' = [limit |-> limit, top |-> top, scores |-> total[k]]
      /\ requests' = requests + 1
      /\ UNCHANGED <<boards, today, tasks, history>>

-----------------------------------------------------------------------------
BoardsInit ==
  /\ setting \in Settings
  /\ total = [k \in Keys |-> [m \in Member |-> 0]]
  /\ best = [k \in Keys |-> [m \in Member |-> 0]]
  /\ today \in setting.days
  /\ command = [t \in Task |-> "idle"]
  /\ who = [t \in Task |-> NoMember]
  /\ amount = [t \in Task |-> 0]
  /\ turn = [t \in Task |-> 1]
  /\ seen = [t \in Task |-> 0]
  /\ answer = NoAnswer
  /\ granted = [m \in Member |-> 0]
  /\ asked = [m \in Member |-> 0]
  /\ finished = [m \in Member |-> 0]
  /\ requests = 0

Step(t) == ZIncrBy(t) \/ ZScore(t) \/ ZAdd(t)

BoardsNext ==
  /\ \/ \E t \in Task, m \in setting.members, n \in setting.scores : Increment(t, m, n) \/ SetIfHigher(t, m, n)
     \/ \E t \in Task : Step(t) \/ TaskDies(t)
     \/ \E i \in DOMAIN Period, n \in setting.limits : FetchTop(i, n)
     \/ Midnight
  /\ UNCHANGED setting

BoardsSpec == BoardsInit /\ [][BoardsNext]_boardsVars

-----------------------------------------------------------------------------
(* Properties.                                                             *)

BoardsTypeOK ==
  /\ setting \in Settings
  /\ total \in [Keys -> [Member -> Nat]]
  /\ best \in [Keys -> [Member -> Nat]]
  /\ today \in DOMAIN Calendar
  /\ command \in [Task -> {"idle", "increment", "score", "add"}]
  /\ who \in [Task -> Member \cup {NoMember}]
  /\ amount \in [Task -> Nat]
  /\ turn \in [Task -> DOMAIN Period]
  /\ seen \in [Task -> Nat]
  /\ asked \in [Member -> Nat] /\ finished \in [Member -> Nat] /\ granted \in [Member -> Nat]
  /\ \A t \in Task : command[t] # "idle" => who[t] \in Member

\* What m has on all the boards of a period
SumOf(i, m) == MapThenSumSet(LAMBDA k : total[k][m], KeysOf[i])

\* increment goes from the shortest period to the longest, so the boards of a
\* shorter period never have less in all, wherever tasks are or died; and no
\* board has more than was ever granted, though boards of different dates may
\* share a key.
ShorterPeriodsLead ==
  \A m \in Member :
    /\ SumOf(1, m) <= granted[m]
    /\ \A i \in 1..(AllTime - 1) : SumOf(i, m) >= SumOf(i + 1, m)

\* When tasks do not die, every grant is on a board of every period in the
\* end, though midnight may put the day and the month of one score apart.
PeriodsAgree ==
  ~setting.mayDie /\ (\A t \in Task : command[t] = "idle") =>
    \A m \in Member, i \in DOMAIN Period : SumOf(i, m) = granted[m]

\* The board of all time has the highest killstreak that set_if_higher was
\* through with, and none that nobody had, although it compares and writes in
\* two commands (one task at a time for each player).
HighestKept ==
  ~Overlap => \A m \in Member : finished[m] <= best[All][m] /\ best[All][m] <= asked[m]

\* Nor does one task at a time replace a best score of all time by a lower one.
BestNeverDecreases ==
  [][~Overlap => \A m \in Member : best'[All][m] >= best[All][m]]_boardsVars

\* The best of a day is not better than that of its week, month, season, year
\* and of all time, once the task is through, if it does not work past
\* midnight and does not die.
PeriodsNest ==
  setting.steady /\ ~setting.mayDie /\ ~Overlap /\ (\A t \in Task : command[t] = "idle") =>
    \A m \in Member, d \in 1..today, i \in DOMAIN Period :
      best[Key(1, Calendar[d])][m] <= best[Key(i, Calendar[d])][m]

\* The boards of the periods of one score keep in step, whether it adds up
\* (increment) or is a best (set_if_higher), and whatever keys they share.
PeriodsInStep == ShorterPeriodsLead /\ PeriodsAgree /\ PeriodsNest

\* Who asks for at least one entry gets no more than that and than the cap,
\* and all that are left out have at most the score of those shown.
AnswersAreTops ==
  answer.limit > 0 =>
    /\ Cardinality(answer.top) <= Cap /\ Cardinality(answer.top) <= answer.limit
    /\ \A m \in answer.top, l \in Member \ answer.top : answer.scores[m] >= answer.scores[l]
=============================================================================

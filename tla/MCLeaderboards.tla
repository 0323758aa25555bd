--------------------------- MODULE MCLeaderboards ---------------------------
(* Instances of Leaderboards for TLC. *)
EXTENDS Leaderboards, TLC

CONSTANTS t1, t2, m1, m2

\* Two Sundays of ISO week 52 and the New Year's Day between them, which is
\* a Sunday of week 52, too: the last two share the key of their week.  And the
\* end of a month within a week and a season.
Dates == << [year |-> 2022, month |-> 12, day |-> 31, week |-> 52],
            [year |-> 2023, month |-> 1, day |-> 1, week |-> 52],
            [year |-> 2023, month |-> 5, day |-> 31, week |-> 22],
            [year |-> 2023, month |-> 6, day |-> 1, week |-> 22],
            [year |-> 2023, month |-> 12, day |-> 31, week |-> 52] >>

\* Tasks that die, tasks that enter scores of one player at the same time while
\* the boards are read, and a clock that waits.
SomeSettings ==
  { [members |-> {m}, days |-> {2, 5}, scores |-> {1, 3}, limits |-> {},
     overlap |-> FALSE, steady |-> FALSE, mayDie |-> TRUE, requests |-> 3] : m \in Member }
  \cup
  { [members |-> Member, days |-> {3, 4}, scores |-> {1, 2}, limits |-> {0, 1, 2},
     overlap |-> TRUE, steady |-> FALSE, mayDie |-> FALSE, requests |-> 3] }
  \cup
  { [members |-> {m}, days |-> {1, 2, 5}, scores |-> {1, 2, 3}, limits |-> {},
     overlap |-> FALSE, steady |-> TRUE, mayDie |-> FALSE, requests |-> 3] : m \in Member }

Symmetric == Permutations(Task) \cup Permutations(Member)
=============================================================================

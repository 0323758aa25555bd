---------------------------- MODULE MatchPhases ----------------------------
(***************************************************************************)
(* What the match component promises, with no store, task or message in    *)
(* sight: a match only ever moves forward through the states that          *)
(* Match::get_state tells apart, and its result is credited to a player's  *)
(* profile at most once, after the match is over.                          *)
(*                                                                         *)
(* MatchLifecycle is shown to implement this module when a server has one  *)
(* session at a time and Redis answers.                                    *)
(***************************************************************************)
EXTENDS Naturals

CONSTANTS MatchId,   \* the ids a match may be given (uuids)
          Player     \* the players

VARIABLES phase,     \* phase[m]: how far match m has come
          settled    \* settled[m][p]: how often m's result was credited to p

absVars == <<phase, settled>>

Phase == {"Unloaded", "Pre", "InProgress", "Post"}

Init == /\ phase = [m \in MatchId |-> "Unloaded"]
        /\ settled = [m \in MatchId |-> [p \in Player |-> 0]]

Move(m, to) == /\ phase' = [phase EXCEPT ![m] = to]
               /\ UNCHANGED settled

Load(m) == phase[m] = "Unloaded" /\ Move(m, "Pre")

Start(m) == phase[m] = "Pre" /\ Move(m, "InProgress")

\* A server that restarts ends the match it had loaded, started or not.
Finish(m) == phase[m] \in {"Pre", "InProgress"} /\ Move(m, "Post")

Settle(m, p) == /\ phase[m] = "Post"
                /\ settled[m][p] = 0
                /\ settled' = [settled EXCEPT ![m][p] = 1]
                /\ UNCHANGED phase

Next == \E m \in MatchId : \/ Load(m) \/ Start(m) \/ Finish(m)
                           \/ \E p \in Player : Settle(m, p)

Spec == Init /\ [][Next]_absVars
=============================================================================

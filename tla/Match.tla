------------------------------- MODULE Match --------------------------------
(***************************************************************************)
(* What the duels promise their players, without hands, commitments, clocks*)
(* or accounts: in each match rounds are scored one at a time for one side *)
(* or neither, the first side to win RoundsToWin rounds takes the match,   *)
(* after RoundLimit rounds the side ahead takes it, and until then a side  *)
(* may win by the other's forfeit.  A decided match never changes, and no  *)
(* step touches two matches.                                               *)
(***************************************************************************)
EXTENDS Naturals

CONSTANTS DuelIds, RoundLimit, RoundsToWin

VARIABLES
  played,   \* rounds scored so far, per match
  score,    \* [1..2 -> rounds won], per match
  result    \* "open", "p1", "p2" or "draw", per match

matchVars == <<played, score, result>>

Ahead(w) == IF w[1] > w[2] THEN "p1" ELSE IF w[2] > w[1] THEN "p2" ELSE "draw"

MatchInit ==
  /\ played = [d \in DuelIds |-> 0]
  /\ score = [d \in DuelIds |-> [s \in 1..2 |-> 0]]
  /\ result = [d \in DuelIds |-> "open"]

\* One more round of match d, with at most one scorer.
PlayRound(d, scorers) ==
  LET w == [s \in 1..2 |-> IF s \in scorers THEN score[d][s] + 1 ELSE score[d][s]]
      decided == \/ \E s \in 1..2 : w[s] >= RoundsToWin
                 \/ played[d] + 1 = RoundLimit
  IN /\ result[d] = "open"
     /\ played[d] < RoundLimit
     /\ played' = [played EXCEPT ![d] = @ + 1]
     /\ score' = [score EXCEPT ![d] = w]
     /\ result' = [result EXCEPT ![d] = IF decided THEN Ahead(w) ELSE "open"]

Forfeit(d) ==
  /\ result[d] = "open"
  /\ \E side \in {"p1", "p2"} : result' = [result EXCEPT ![d] = side]
  /\ UNCHANGED <<played, score>>

MatchNext ==
  \E d \in DuelIds :
    \/ \E scorers \in {{}, {1}, {2}} : PlayRound(d, scorers)
    \/ Forfeit(d)

MatchSpec == MatchInit /\ [][MatchNext]_matchVars
=============================================================================

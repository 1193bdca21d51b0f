------------------------------- MODULE MCDuel -------------------------------
(***************************************************************************)
(* Instances of Duel for TLC.  Two plays suffice for every outcome of a    *)
(* round: <<a, a>> and <<b, b>> tie, <<a, b>> scores for player 1 and      *)
(* <<b, a>> for player 2.  Where it is used, c is an array of ids above 60 *)
(* that adds up to the same sum as a: it opens a's commitment, fields no   *)
(* species the program checks, and fights like b.                          *)
(***************************************************************************)
EXTENDS DuelFairness, TLC

CONSTANTS alice, bob, a, b, c, x, y, d1, d2

MCPower == [t \in Plays \X Plays \X Rounds |->
              IF t[1] = t[2] THEN <<1, 1>>
              ELSE IF t[1] = a THEN <<2, 1>> ELSE <<1, 2>>]

MCProvable == Plays \ {c}
MCSeal == [h \in Plays |-> IF h = b THEN b ELSE a]

\* Play b, which loses against a, fields both species and a one of them; everybody
\* starts with both.
MCField ==
  [h \in Plays |-> IF h = a THEN {x} ELSE IF h = b THEN {x, y} ELSE {}]
MCVault == [p \in Players |-> Species]

\* Duel d2 is played first: alice wins three rounds in a row with play a against
\* b, so bob may lose a species of b for it.
EarlierDuel ==
  ~ended[d2] =>
    /\ seat'[d1][1] = None
    /\ seat'[d2][1] # None => seat'[d2] = <<alice, bob>>
    /\ \A s \in Side, r \in Rounds :
         commitment'[d2][s][r] \in {None, IF s = 1 THEN a ELSE b}
    /\ ended'[d2] => wins'[d2][1] = RoundsToWin

\* The collection window only opens when d1 is over too, in fewer rounds than it
\* might have taken, and everybody's energy is full; it closes before any loot is
\* taken or not at all, and d2 is paid out first of the two.
OpensLate ==
  /\ window' # window =>
       ended[d1] /\ round[d1] < RoundLimit /\ \A p \in Players : energy[p] = EnergyMax
  /\ window' = "frozen" => looted' = {}
  /\ looted' \in {{}, {d2}, {d1, d2}}
EarlierDuelFairSpec ==
  Init /\ [][HonestNext /\ EarlierDuel /\ OpensLate]_vars /\ Fairness

\* Alice sits on side 1 of d1 and on side 2 of d2, against bob; only the first
\* of the two duels is ever looted, and energy is never bought.
TwoDuels ==
  /\ \A d \in DuelIds :
       seat'[d][1] # None =>
         seat'[d] = IF d = d1 THEN <<alice, bob>> ELSE <<bob, alice>>
  /\ looted' \subseteq {d1}
  /\ \A p \in Players : energy'[p] = energy[p] \/ charged'[p] # charged[p]
TwoDuelsFairSpec == Init /\ [][HonestNext /\ TwoDuels]_vars /\ Fairness
=============================================================================

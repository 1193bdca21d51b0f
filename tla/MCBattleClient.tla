--------------------------- MODULE MCBattleClient ---------------------------
(***************************************************************************)
(* Instances of BattleClient for TLC.  Play a beats play b on both sides.  *)
(***************************************************************************)
EXTENDS BattleClient

CONSTANTS alice, bob, a, b, x, d1, d2

MCPower == [t \in Plays \X Plays \X Rounds |->
              IF t[1] = t[2] THEN <<1, 1>>
              ELSE IF t[1] = a THEN <<2, 1>> ELSE <<1, 2>>]
MCSeal == [h \in Plays |-> h]
\* Both plays field the card that the loot of d2 takes.
MCField == [h \in Plays |-> {x}]
MCVault == [p \in Players |-> Species]

\* Alice won another duel, d2, against bob, a against b twice, and both have
\* regained the energy it cost; its loot is not taken yet and the collection
\* window has opened.
Everywhere(h) == [r \in Rounds |-> h]
EarlierDuel ==
  /\ seat = [d \in DuelIds |-> [s \in Side |->
       IF d # d2 THEN None ELSE IF s = 1 THEN alice ELSE bob]]
  /\ round = [d \in DuelIds |-> IF d = d2 THEN RoundLimit ELSE 1]
  /\ ended = [d \in DuelIds |-> d = d2]
  /\ winner = [d \in DuelIds |-> IF d = d2 THEN alice ELSE None]
  /\ revealed = [d \in DuelIds |-> IF d # d2 THEN Blank
       ELSE [s \in Side |-> IF s = 1 THEN Everywhere(a) ELSE Everywhere(b)]]
  /\ commitment = revealed
  /\ wins = [d \in DuelIds |-> [s \in Side |->
       IF d = d2 /\ s = 1 THEN RoundsToWin ELSE 0]]
  /\ idle = [d \in DuelIds |-> 0]
  /\ energy = [p \in Players |-> 0]
  /\ regenAge = [p \in Players |-> FullRegen]
  /\ vault = StartVault /\ looted = {} /\ window = "open"
  /\ charged = [p \in Players |-> 1]

\* (Bounds: no energy is bought, the season does not end, the loot of the duel
\* itself is not claimed, and that of d2 only while it can still matter to a
\* round that bob has not revealed and alice has no other transaction open.)
NoRefill ==
  \A p \in Players : charged'[p] = charged[p] =>
    energy'[p] = energy[p] /\ regenAge'[p] >= regenAge[p]
OnlyEarlierLoot ==
  /\ window' = window /\ TheDuel \notin looted'
  /\ looted' # looted => /\ screen[bob] = "preparation" \/ Robbed(bob)
                         /\ call[alice] = None /\ air[alice] = {}

LootedInit == EarlierDuel /\ ClientStart
LootedSpec ==
  /\ LootedInit
  /\ [][ClientNext /\ NoRefill /\ OnlyEarlierLoot]_allVars
  /\ ClientFairness

\* The clock stands still, so nobody stalls long enough to be claimed against.
NoStallSpec ==
  ClientInit /\ [][ClientAction]_allVars /\ PlayFairness
=============================================================================

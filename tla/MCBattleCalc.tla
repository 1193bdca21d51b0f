---------------------------- MODULE MCBattleCalc ----------------------------
(***************************************************************************)
(* An instance of BattleCalc for TLC: thirteen cards of the table, which   *)
(* have between them every action, passive ability and initiative, three   *)
(* of them a side.                                                         *)
(***************************************************************************)
EXTENDS BattleCalc

Entry(faction, bp, hp, ini, action, legendary, passive) ==
  [faction |-> faction, bp |-> bp, hp |-> hp, ini |-> ini, action |-> action,
   legendary |-> legendary, passive |-> passive]

MCTable ==
     3 :> Entry("knight",   6, 10, 3, "crystal", FALSE, "none")
  @@ 9 :> Entry("knight",   8, 12, 3, "void",    FALSE, "knight_aura")
  @@ 19 :> Entry("merchant", 8,  8, 3, "void",    FALSE, "merchant_gold_aura")
  @@ 12 :> Entry("merchant", 5,  6, 2, "storm",   FALSE, "none")
  @@ 29 :> Entry("pirate",  12,  5, 5, "flame",   FALSE, "pirate_intimidate")
  @@ 30 :> Entry("pirate",  12,  5, 5, "shadow",  TRUE,  "none")
  @@ 32 :> Entry("scholar",  3,  6, 4, "storm",   FALSE, "none")
  @@ 21 :> Entry("pirate",   8,  3, 4, "flame",   FALSE, "none")
  @@ 41 :> Entry("monk",     5,  8, 0, "barrier", FALSE, "none")
  @@ 49 :> Entry("monk",     8, 12, 1, "void",    FALSE, "monk_soul_harvest")
  @@ 52 :> Entry("engineer", 9,  5, 2, "storm",   FALSE, "none")
  @@ 53 :> Entry("engineer", 9,  6, 3, "crystal", FALSE, "none")
  @@ 59 :> Entry("engineer", 12, 8, 3, "crystal", FALSE, "engineer_overclock")

\* Every ascending or descending triple of seven of them, a hand with each of the
\* auras, and the Engineers.
Triples(S) == {<<x, y, z>> \in S \X S \X S : (x < y /\ y < z) \/ (x > y /\ y > z)}
MCHands == Triples({9, 12, 29, 30, 32, 41, 49}) \cup {<<3, 9, 41>>, <<19, 30, 21>>, <<52, 59, 53>>}

MCSeeds ==
  {[k \in 0..31 |-> 0], [k \in 0..31 |-> 255 - 8 * k], [k \in 0..31 |-> (97 * k) % 256]}
=============================================================================

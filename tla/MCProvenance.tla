---------------------------- MODULE MCProvenance -----------------------------
(***************************************************************************)
(* Instances of Provenance for TLC, with thresholds of a few wins.         *)
(***************************************************************************)
EXTENDS Provenance, TLC

CONSTANTS w1, w2, m1, m2, d1, d2, x

MCStatLimit == [r \in Rarity |-> IF r < 2 THEN 1 ELSE r]
MCPromoteWins == [r \in 0..2 |-> r + 1]
MCDeltas == {[wins |-> 2, kos |-> 1]}

\* Every mint is registered common, and seats are w1 against w2 or itself.
Plain ==
  /\ \A m \in Mints : record[m] = None /\ record'[m] # None => minted'[m] = 0
  /\ \A d \in Duels : duel'[d] # None => duel'[d].seat[1] = w1

\* The cards and the duels something has happened to.
UsedMints == {m \in Mints : record[m] # None \/ wins[m] > 0 \/ ring[m] # <<>>}
UsedDuels == {d \in Duels : duel[d] # None}
NoOwnerChanged == now = 0 /\ \A m \in Mints : ring[m] = <<>>

\* Either all cards and duels without a change of owner, or one card with its
\* changes of owner; with two kinds of steal, and grants by the admin with at
\* most one duel.
Granted == {m \in Mints : \E key \in GrantKeys : HasKey(imprints[m], key)}
OneOrOwnerless ==
  /\ NoOwnerChanged' \/ (Cardinality(UsedMints') <= 1 /\ UsedDuels' = {})
  /\ Granted' = {} \/ Cardinality(UsedDuels') <= 1
  /\ \A m \in Mints : source'[m] \in {source[m], 5, 6} \cup GivenSource
Histories == Init /\ [][Next /\ Plain /\ OneOrOwnerless]_vars

\* Copies of a card and duels are interchangeable.
CopySymmetry == Permutations(Duels) \cup Permutations(Mints)
=============================================================================

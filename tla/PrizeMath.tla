----------------------------- MODULE PrizeMath ------------------------------
(***************************************************************************)
(* The arithmetic of the season's prizes: the tally finalize_season_tally  *)
(* accumulates from the sizes of the vaults, what end_season_final takes   *)
(* out of it, and the prize claim_prize_v2 computes from it.               *)
(*                                                                         *)
(* Band 1 is the champions' tier, bands 2..5 share by vault size.  A tally *)
(* is a record [full, max, maxCount, band] of winner_60_count, max_vault,  *)
(* max_vault_count and the four tierN_total_vault.                         *)
(***************************************************************************)
EXTENDS Integers, FiniteSetsExt

CONSTANTS
  FullCount,   \* cards in a complete collection (60)
  BandMin,     \* [2..5 -> Nat], the smallest vault of a band (50, 30, 10, 1)
  BandShare    \* [1..5 -> Nat], percent of the pool (50, 25, 15, 8, 2)

ASSUME PrizeAssumption ==
  /\ FullCount \in Nat \ {0}
  /\ BandMin \in [2..5 -> Nat]
  /\ FullCount >= BandMin[2]
  /\ \A b \in 2..4 : BandMin[b] >= BandMin[b + 1]
  /\ BandMin[5] = 1
  /\ BandShare \in [1..5 -> Nat]
  /\ SumFunctionOnSet(BandShare, 1..5) <= 100

Bands == 2..5

\* GameWorld::band_of, for a vault of vc > 0 cards.
BandOf(vc) ==
  IF vc >= FullCount THEN 1
  ELSE IF vc >= BandMin[2] THEN 2
  ELSE IF vc >= BandMin[3] THEN 3
  ELSE IF vc >= BandMin[4] THEN 4 ELSE 5

EmptyTally ==
  [full |-> 0, max |-> 0, maxCount |-> 0, band |-> [b \in Bands |-> 0]]

\* The loop of finalize_season_tally over one batch of players, size[p] being
\* the number of cards p owns.  Within a batch the order does not matter.
TallyBatch(t, batch, size) ==
  LET Nonempty == {p \in batch : size[p] > 0}
      InBand(b) == {p \in Nonempty : BandOf(size[p]) = b}
      top == Max({t.max} \cup {size[p] : p \in batch})
  IN [full |-> t.full + Cardinality(InBand(1)),
      max |-> top,
      maxCount |-> (IF t.max = top THEN t.maxCount ELSE 0)
                     + Cardinality({p \in Nonempty : size[p] = top}),
      band |-> [b \in Bands |-> t.band[b] + SumFunctionOnSet(size, InBand(b))]]

\* (Mutant of CloseTally: the champions of a timeout stay in their band.)
CloseKeepsChampions(t) == t

\* end_season_final: without a complete collection the players with the most
\* cards are the champions, and leave the band they were tallied in.
CloseTally(t) ==
  IF t.full = 0 /\ t.max > 0
    THEN [t EXCEPT !.band[BandOf(t.max)] = Max({0, @ - t.max * t.maxCount})]
    ELSE t

\* The number of champions: complete collections, or else the largest vaults.
Champions(t) == IF t.full = 0 THEN t.maxCount ELSE t.full
IsChampion(vc, t) == IF t.full = 0 THEN vc = t.max ELSE vc = FullCount

Populated(b, t) == IF b = 1 THEN Champions(t) > 0 ELSE t.band[b] > 0

\* effective_band_shares: an empty band's share carries down to the next
\* populated one.
EffectiveShare(b, t) ==
  SumFunctionOnSet(BandShare,
                   {a \in 1..b : \A e \in a..(b - 1) : ~Populated(e, t)})

\* compute_tier_prize: the prize of a vault of vc cards, in whole lamports.
TierPrize(vc, pool, t) ==
  LET b == IF IsChampion(vc, t) THEN 1
           ELSE IF BandOf(vc) = 1 THEN 2 ELSE BandOf(vc)
      bandPool == (pool * EffectiveShare(b, t)) \div 100
  IN IF ~Populated(b, t) THEN 0
     ELSE IF b = 1 THEN bandPool \div Champions(t)
     ELSE (bandPool * vc) \div t.band[b]
=============================================================================

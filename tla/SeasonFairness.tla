--------------------------- MODULE SeasonFairness ---------------------------
(***************************************************************************)
(* Progress of the season: the admin who runs the crank in key order, as   *)
(* the settlement script does, and players who claim and close listings.   *)
(***************************************************************************)
EXTENDS Season

\* A batch that leaves out nobody it moves the cursor past.
InKeyOrder(batch) ==
  \A p \in deposit \ (tallied \cup batch) : \A q \in batch : p > q

CarefulNext ==
  /\ Next
  /\ \A batch \in SUBSET Players :
       FinalizeSeasonTally(batch) => InKeyOrder(batch)

CarefulBatch ==
  \E batch \in SUBSET Players : InKeyOrder(batch) /\ FinalizeSeasonTally(batch)

\* Fairness: the clock advances, the admin runs the crank to its end and ends
\* the season, and a player who may claim or close a listing does.  Nobody has
\* to buy, list, fight or donate.
Fairness ==
  /\ WF_vars(Tick)
  /\ WF_vars(CarefulBatch)
  /\ WF_vars(EndSeasonFinal)
  /\ \A p \in Players :
       /\ WF_vars(ClaimPrizeV2(p))
       /\ \A c \in Cards : WF_vars(CancelListing(p, c))

FairSpec == Init /\ [][CarefulNext]_vars /\ Fairness

\* The season is over with more complete collections than winner_60_count, a
\* u8, can hold: the batch that would count one too many is refused for good
\* (finalize_season_tally.rs, checked_add).
CountOverflows ==
  /\ status = 1 /\ now >= EndAt
  /\ Cardinality({p \in deposit : Size(p) = FullCount}) > FullMax

\* An active season ends: a careful admin can always complete the tally, and
\* nothing the players do can hold it up, except by completing more collections
\* than the count of winners has room for.
SeasonEnds == (status = 1) ~> (status = 2 \/ CountOverflows)

\* docs/season-prize-upgrade.md, Contract changes: "After close, claim first,
\* then recover escrow.  Zero-entitlement players can recover escrow".  No card
\* stays in a listing for good.
EscrowReturned ==
  \A p \in Players, c \in Cards :
    (status = 2 /\ <<p, c>> \in listed) ~> (<<p, c>> \notin listed)
=============================================================================

------------------------------- MODULE Season -------------------------------
(***************************************************************************)
(* The prize season: the single GameWorld account, the prize pool it owns, *)
(* the vaults of the registered players and the listings that hold cards in*)
(* escrow.  Waitlist (0), active (1), ended (2); while active and before   *)
(* the deadline cards change hands, after it an admin tallies every vault  *)
(* batch by batch, ends the season, and each player claims once.           *)
(*                                                                         *)
(* Players are numbered in the order of their keys, which is the order the *)
(* tally crank must follow; 0 is the default key the cursor starts from.   *)
(***************************************************************************)
EXTENDS PrizeMath

CONSTANTS
  Players,       \* wallets, as a set of positive numbers in key order
  Cards,         \* species
  Legendary,     \* species check_legendary awards
  Starters,      \* sets of starter cards a registration may hand out
  PackDraws,     \* sets of cards a pack may contain
  StartAt,       \* start_timestamp
  EndAt,         \* end_timestamp
  Horizon,       \* bound on the clock
  Rent,          \* minimum_balance(0)
  PrizeShare,    \* the pool's part of a deposit
  PackShare,     \* the pool's part of a pack's price
  Donation,      \* an amount anybody may transfer to the pool
  MaxPool,       \* bound on the pool
  ClaimantMax,   \* LEGENDARY_MAX_CLAIMANTS (10)
  FullMax        \* the largest winner_60_count, a u8 (255)

ASSUME SeasonAssumption ==
  /\ Players \subseteq Nat \ {0}
  /\ IsFiniteSet(Players)
  /\ IsFiniteSet(Cards)
  /\ FullCount = Cardinality(Cards)
  /\ Legendary \subseteq Cards
  /\ Starters \subseteq SUBSET Cards
  /\ PackDraws \subseteq SUBSET Cards
  /\ StartAt \in Nat /\ EndAt \in Nat /\ Horizon \in Nat
  /\ StartAt < EndAt
  /\ Rent \in Nat /\ PrizeShare \in Nat \ {0} /\ PackShare \in Nat
  /\ Donation \in Nat /\ MaxPool \in Nat
  /\ ClaimantMax \in Nat /\ FullMax \in Nat

VARIABLES
  now,           \* the validator clock
  status,        \* game_status: 0 waitlist, 1 active, 2 ended
  close,         \* waitlist_close_timestamp
  participants,  \* total_participants
  recorded,      \* total_prize_pool
  pool,          \* lamports of the prize-pool account
  processed,     \* finalize_processed
  cursor,        \* finalize_cursor
  tally,         \* winner_60_count, max_vault(_count), tierN_total_vault
  vault,         \* species each player owns
  deposit,       \* players with deposit_amount > 0
  listed,        \* open listings, <<seller, card>>
  awarded,       \* <<player, legendary>> with legendary_progress set
  tallied,       \* history: players the crank has counted
  finalSize,     \* history: vault sizes when the season ended
  paid           \* history: what each player has been paid

clockVars == <<now, close>>
moneyVars == <<recorded, pool, paid>>
tallyVars == <<processed, cursor, tally, tallied, finalSize>>
cardVars == <<vault, listed, awarded>>
vars == <<clockVars, status, participants, deposit, moneyVars, tallyVars, cardVars>>

Size(p) == Cardinality(vault[p])
Sizes == [p \in Players |-> Size(p)]

Init ==
  /\ now = 0
  /\ status = 0
  /\ close = StartAt
  /\ participants = 0
  /\ recorded = 0
  /\ pool = Rent
  /\ processed = 0
  /\ cursor = 0
  /\ tally = EmptyTally
  /\ vault = [p \in Players |-> {}]
  /\ deposit = {}
  /\ listed = {}
  /\ awarded = {}
  /\ tallied = {}
  /\ finalSize = [p \in Players |-> 0]
  /\ paid = [p \in Players |-> 0]

-----------------------------------------------------------------------------
\* A deposit or a sale: lamports to the pool, and the same amount on record.
TakeIn(amount) ==
  /\ pool' = pool + amount
  /\ recorded' = recorded + amount

\* register_waitlist: pay the deposit, start from an empty vault and take the
\* starter cards.
Register(p, starters) ==
  /\ status = 0 /\ now < close
  /\ p \notin deposit
  /\ deposit' = deposit \cup {p}
  /\ vault' = [vault EXCEPT ![p] = starters]
  /\ awarded' = {a \in awarded : a[1] # p}
  /\ participants' = participants + 1
  /\ TakeIn(PrizeShare)
  /\ UNCHANGED <<clockVars, status, paid, tallyVars, listed>>

\* set_waitlist_deadline: the admin may move it at any time, in any direction.
SetWaitlistDeadline(t) ==
  /\ close' = t
  /\ UNCHANGED <<now, status, participants, deposit, moneyVars, tallyVars, cardVars>>

\* activate_season.
ActivateSeason ==
  /\ status = 0
  /\ now >= close /\ now >= StartAt
  /\ status' = 1
  /\ UNCHANGED <<clockVars, participants, deposit, moneyVars, tallyVars, cardVars>>

\* (Mutant of CollectionOpen: the tally does not freeze the collections.)
OpenDuringTally == status = 1 /\ now >= StartAt

\* GameWorld::require_collection_open.
CollectionOpen ==
  /\ status = 1
  /\ now >= StartAt /\ now < EndAt
  /\ processed = 0

\* buy_pack: half of the price goes to the pool, the drawn cards to the vault.
BuyPack(p, draw) ==
  /\ CollectionOpen /\ p \in deposit
  /\ pool + PackShare <= MaxPool
  /\ vault' = [vault EXCEPT ![p] = @ \cup draw]
  /\ TakeIn(PackShare)
  /\ UNCHANGED <<clockVars, status, participants, deposit, paid, tallyVars,
                 listed, awarded>>

\* create_listing: the card leaves the vault for the listing.
CreateListing(p, c) ==
  /\ CollectionOpen /\ p \in deposit
  /\ <<p, c>> \notin listed
  /\ c \in vault[p]
  /\ vault' = [vault EXCEPT ![p] = @ \ {c}]
  /\ listed' = listed \cup {<<p, c>>}
  /\ UNCHANGED <<clockVars, status, participants, deposit, moneyVars, tallyVars,
                 awarded>>

\* accept_listing: the price goes straight to the seller; a buyer who has the
\* card already keeps one.
AcceptListing(buyer, p, c) ==
  /\ CollectionOpen /\ buyer \in deposit
  /\ <<p, c>> \in listed
  /\ vault' = [vault EXCEPT ![buyer] = @ \cup {c}]
  /\ listed' = listed \ {<<p, c>>}
  /\ UNCHANGED <<clockVars, status, participants, deposit, moneyVars, tallyVars,
                 awarded>>

Prize(p) == TierPrize(Size(p), recorded, tally)

\* (Mutants of ConsumesZeroClaim: the claim survives the cancellation; a claim
\* of nothing has to be made first, although it cannot.)
KeepsZeroClaim(p) ==
  /\ p \in deposit => Size(p) = 0 \/ Prize(p) = 0
  /\ UNCHANGED deposit
ClaimFirst(p) == p \notin deposit /\ UNCHANGED deposit

\* After the end, a cancellation first consumes the seller's claim, which must
\* be worth nothing.
ConsumesZeroClaim(p) ==
  /\ p \in deposit => Size(p) = 0 \/ Prize(p) = 0
  /\ deposit' = deposit \ {p}

\* cancel_listing: the escrowed card returns to the vault.
CancelListing(p, c) ==
  /\ <<p, c>> \in listed
  /\ IF status = 2
       THEN processed = participants /\ ConsumesZeroClaim(p)
       ELSE CollectionOpen /\ UNCHANGED deposit
  /\ vault' = [vault EXCEPT ![p] = @ \cup {c}]
  /\ listed' = listed \ {<<p, c>>}
  /\ UNCHANGED <<clockVars, status, participants, moneyVars, tallyVars, awarded>>

\* claim_battle_loot, for what it does to the vaults.
LootTransfer(loser, p, c) ==
  /\ CollectionOpen /\ {loser, p} \subseteq deposit /\ loser # p
  /\ c \in vault[loser]
  /\ vault' = [vault EXCEPT ![loser] = @ \ {c}, ![p] = @ \cup {c}]
  /\ UNCHANGED <<clockVars, status, participants, deposit, moneyVars, tallyVars,
                 listed, awarded>>

\* check_legendary: every legendary whose condition p meets, that p was not
\* awarded before and that is not out of claims.
CheckLegendary(p, met) ==
  LET Claims(c) == Cardinality({q \in Players : <<q, c>> \in awarded})
      won == {c \in met : <<p, c>> \notin awarded /\ Claims(c) < ClaimantMax}
  IN /\ CollectionOpen /\ p \in deposit
     /\ vault' = [vault EXCEPT ![p] = @ \cup won]
     /\ awarded' = awarded \cup ({p} \X won)
     /\ UNCHANGED <<clockVars, status, participants, deposit, moneyVars, tallyVars,
                    listed>>

\* Lamports can be sent to the pool's account by anybody at any time.
Donate ==
  /\ pool + Donation <= MaxPool
  /\ pool' = pool + Donation
  /\ UNCHANGED <<clockVars, status, participants, deposit, recorded, paid,
                 tallyVars, cardVars>>

\* (Mutant of BatchAllowed: the count of participants is off by one.)
BatchOneShort(batch) ==
  /\ status = 1 /\ now >= EndAt
  /\ batch # {} /\ batch \subseteq deposit
  /\ \A p \in batch : p > cursor
  /\ processed + Cardinality(batch) < participants

\* What one finalize_season_tally call requires of its players: registered, in
\* ascending order from the cursor, no more than there are.
BatchAllowed(batch) ==
  /\ status = 1 /\ now >= EndAt
  /\ batch # {} /\ batch \subseteq deposit
  /\ \A p \in batch : p > cursor
  /\ processed + Cardinality(batch) <= participants

FinalizeSeasonTally(batch) ==
  LET t == TallyBatch(tally, batch, Sizes) IN
  /\ BatchAllowed(batch)
  /\ t.full <= FullMax
  /\ tally' = t
  /\ cursor' = Max(batch)
  /\ processed' = processed + Cardinality(batch)
  /\ tallied' = tallied \cup batch
  /\ UNCHANGED <<clockVars, status, participants, deposit, moneyVars, finalSize,
                 cardVars>>

\* (Mutant of TallyComplete: the season may end on a partial tally.)
TallyStarted == processed > 0

TallyComplete == processed = participants

\* end_season_final: fix the allocation to what the pool holds, and open claims.
EndSeasonFinal ==
  /\ status = 1 /\ now >= EndAt
  /\ TallyComplete
  /\ pool - Rent >= recorded
  /\ tally' = CloseTally(tally)
  /\ recorded' = pool - Rent
  /\ status' = 2
  /\ finalSize' = Sizes
  /\ UNCHANGED <<clockVars, participants, deposit, pool, paid, processed, cursor,
                 tallied, cardVars>>

\* (Mutant of ConsumesClaim: the deposit is not zeroed.)
ClaimStays(p) == UNCHANGED deposit

ConsumesClaim(p) == deposit' = deposit \ {p}

\* claim_prize_v2: the whole prize or nothing, and the deposit consumed.
ClaimPrizeV2(p) ==
  /\ status = 2 /\ TallyComplete
  /\ p \in deposit
  /\ Size(p) > 0 /\ Prize(p) > 0
  /\ pool - Rent >= Prize(p)
  /\ pool' = pool - Prize(p)
  /\ paid' = [paid EXCEPT ![p] = @ + Prize(p)]
  /\ ConsumesClaim(p)
  /\ UNCHANGED <<clockVars, status, participants, recorded, tallyVars, cardVars>>

Tick ==
  /\ now < Horizon
  /\ now' = now + 1
  /\ UNCHANGED <<close, status, participants, deposit, moneyVars, tallyVars, cardVars>>

Next ==
  \/ \E p \in Players, s \in Starters : Register(p, s)
  \/ \E t \in 0..Horizon : SetWaitlistDeadline(t)
  \/ ActivateSeason
  \/ \E p \in Players, draw \in PackDraws : BuyPack(p, draw)
  \/ \E p \in Players, c \in Cards :
       CreateListing(p, c) \/ CancelListing(p, c)
  \/ \E p, q \in Players, c \in Cards :
       AcceptListing(q, p, c) \/ LootTransfer(p, q, c)
  \/ \E p \in Players, met \in SUBSET Legendary : CheckLegendary(p, met)
  \/ Donate
  \/ \E batch \in SUBSET Players : FinalizeSeasonTally(batch)
  \/ EndSeasonFinal
  \/ \E p \in Players : ClaimPrizeV2(p)
  \/ Tick

Spec == Init /\ [][Next]_vars

-----------------------------------------------------------------------------
(***************************************************************************)
(* Properties.                                                             *)
(***************************************************************************)

\* The tally is at every moment what a fresh count of the players counted so
\* far would give: no card moves between the first batch and the end.
TallyMatchesVaults ==
  /\ status = 1 => tally = TallyBatch(EmptyTally, tallied, Sizes)
  /\ status = 2 => tally = CloseTally(TallyBatch(EmptyTally, tallied, finalSize))

\* Claims never open on a partial tally: when the season has ended everybody
\* who registered has been counted, and nobody twice.
NobodyLeftOut ==
  status = 2 => deposit \subseteq tallied /\ Cardinality(tallied) = participants

\* Until the end the pool covers what is recorded as the players' money, so
\* end_season_final never fails for want of funds.
PoolCoversRecord == status # 2 => pool - Rent >= recorded

\* The pool can pay everybody who has not claimed yet, in any order: no claim
\* ever fails with PrizeUnderfunded.
Solvent ==
  status = 2 =>
    SumFunctionOnSet([p \in Players |-> Prize(p)],
                     {p \in deposit : Size(p) > 0}) <= pool - Rent

\* What the header of claim_prize_v2 promises a player of rank p, from
\* everybody's collections at the end of the season: the champions (complete
\* collections, or else the largest) share tier 1 equally, the others share the
\* pool of their band by size, and an empty band leaves its share to the next
\* one down.
PromisedPrize(p, size, total) ==
  LET top == Max({size[q] : q \in Players})
      Tier(q) == IF size[q] = top THEN 1 ELSE BandOf(size[q])
      Members(b) == {q \in Players : size[q] > 0 /\ Tier(q) = b}
      share == SumFunctionOnSet(BandShare,
                 {a \in 1..Tier(p) : \A e \in a..(Tier(p) - 1) : Members(e) = {}})
      tierPool == (total * share) \div 100
  IN IF size[p] = 0 THEN 0
     ELSE IF Tier(p) = 1 THEN tierPool \div Cardinality(Members(1))
     ELSE (tierPool * size[p]) \div SumFunctionOnSet(size, Members(Tier(p)))

\* A claim is worth what the player's rank at the end of the season earns,
\* before and after anybody else claims or takes cards out of escrow, and it is
\* paid in full, once.
PrizesFollowRank ==
  status = 2 =>
    \A p \in Players :
      LET promised == PromisedPrize(p, finalSize, recorded) IN
      IF p \in deposit
        THEN paid[p] = 0 /\ (Size(p) > 0 => Prize(p) = promised)
        ELSE paid[p] = promised
=============================================================================

----------------------------- MODULE Provenance ------------------------------
(***************************************************************************)
(* What a card carries with it: the CardBattleHistory and CardMintRecord   *)
(* accounts of every mint.  Finished duels are credited to cards one by    *)
(* one, wins earn imprints and, through promote_card, rarity; of each      *)
(* change of owner the wallet that signs goes into a ring of the latest.   *)
(*                                                                         *)
(* A finished duel is its seats, the species each side revealed, and the   *)
(* winner (None after a draw), as module Duel leaves them.                 *)
(***************************************************************************)
EXTENDS Integers, Sequences, FiniteSetsExt

CONSTANTS
  Wallets, Mints, Species, Duels,
  None,           \* the default key
  VeteranWins, ElderWins,      \* imprint thresholds (10, 50)
  LineageOwners,  \* ring length that earns the lineage mark (3)
  ImprintSlots,   \* imprints a card can hold (5)
  StatLimit,      \* max_stat_imprints, by rarity (3, 3, 4, 5)
  PromoteWins,    \* wins to leave rarity 0, 1, 2 (10, 25, 50)
  LegendaryKos,   \* kos to become legendary (30)
  RingSize,       \* entries kept (10)
  LeaseDuration,
  CountMax,       \* where the u32 counters saturate
  Deltas,         \* [wins, kos] the admin may add at once
  GrantKeys,      \* imprints the admin may grant
  GivenSource,    \* acquisition sources a caller states (any u8)
  Horizon,        \* bound on the clock
  MaxChanges      \* bound on the recorded changes of owner

Rarity == 0..3
Sides == 1..2
DuelWon == 2      \* ACQUISITION_DUEL_WON
Source == 0..255  \* acquisition_source, a u8
\* The sources written for the kinds of steal.
LeaseSource == 5
StealSource == 5..8

ASSUME ProvenanceAssumption ==
  /\ None \notin Wallets
  /\ None \notin [species : Species, rarity : Rarity]
  /\ VeteranWins \in Nat \ {0} /\ ElderWins \in Nat \ {0}
  /\ LineageOwners \in Nat /\ ImprintSlots \in Nat
  /\ StatLimit \in [Rarity -> Nat]
  /\ PromoteWins \in [0..2 -> Nat \ {0}]
  /\ LegendaryKos \in Nat
  /\ RingSize \in Nat \ {0}
  /\ LeaseDuration \in Nat /\ Horizon \in Nat /\ MaxChanges \in Nat
  /\ CountMax \in Nat
  /\ Deltas \subseteq [wins : Nat, kos : Nat]
  /\ GivenSource \subseteq Source

Keys == {"Veteran", "Elder", "ElderFrame", "LineageMark"} \cup GrantKeys
Imprint == [key : Keys, cosmetic : BOOLEAN]

VARIABLES
  duel,           \* None, or [seat, fielded, winner] of a finished duel
  settled,        \* <<duel, player, species>> marked in the settle records
  record,         \* None, or the mint's [species, rarity]
  wins, kos,      \* counters of the history
  imprints,       \* imprints in the order they were granted
  ring, dropped,  \* owners_history, newest first, and owners_dropped_count
  source,         \* acquisition_source
  lease,          \* None, or [expires, to] of an active lease
  now,            \* the validator clock
  minted,         \* history: rarity the mint was registered with
  granted,        \* history: wins the admin added
  signers,         \* history: who signed for the changes of owner, newest first
  credited        \* history: the duels whose win a card was given

creditVars == <<duel, settled, credited>>
ownerVars == <<ring, dropped, source, lease, signers>>
vars == <<creditVars, record, wins, kos, imprints, ownerVars, now, minted,
          granted>>

Init ==
  /\ duel = [d \in Duels |-> None]
  /\ settled = {}
  /\ record = [m \in Mints |-> None]
  /\ wins = [m \in Mints |-> 0] /\ kos = [m \in Mints |-> 0]
  /\ imprints = [m \in Mints |-> <<>>]
  /\ ring = [m \in Mints |-> <<>>] /\ dropped = [m \in Mints |-> 0]
  /\ source = [m \in Mints |-> 0]
  /\ lease = [m \in Mints |-> None]
  /\ now = 0
  /\ minted = [m \in Mints |-> 0]
  /\ granted = [m \in Mints |-> 0]
  /\ signers = [m \in Mints |-> <<>>]
  /\ credited = [m \in Mints |-> {}]

-----------------------------------------------------------------------------
SaturatingAdd(a, b) == IF a + b > CountMax THEN CountMax ELSE a + b

HasKey(seq, key) == \E i \in 1..Len(seq) : seq[i].key = key

\* (Mutant of TryGrant: a full card gives up its oldest imprint.)
GrantOverwrites(seq, key, cosmetic) ==
  IF key # "None" /\ HasKey(seq, key) THEN seq
  ELSE Append(IF Len(seq) >= ImprintSlots THEN Tail(seq) ELSE seq,
              [key |-> key, cosmetic |-> cosmetic])

\* try_grant_imprint: nothing when the slots are full or the card has the key;
\* only the key "None" may be held twice.
TryGrant(seq, key, cosmetic) ==
  IF Len(seq) >= ImprintSlots \/ (key # "None" /\ HasKey(seq, key))
    THEN seq
    ELSE Append(seq, [key |-> key, cosmetic |-> cosmetic])

\* (Mutant of ThresholdImprints: the mark is given only at the exact count.)
ImprintsAtExactCount(seq, old, new, len) ==
  IF new = VeteranWins THEN TryGrant(seq, "Veteran", FALSE) ELSE seq

\* apply_threshold_imprints: marks for the thresholds that wins just crossed
\* and, once the ring is long enough, the lineage mark.
ThresholdImprints(seq, old, new, len) ==
  LET veteran == IF old < VeteranWins /\ new >= VeteranWins
                   THEN TryGrant(seq, "Veteran", FALSE) ELSE seq
      elder == IF old < ElderWins /\ new >= ElderWins
                 THEN TryGrant(TryGrant(veteran, "Elder", FALSE), "ElderFrame", TRUE)
                 ELSE veteran
  IN IF len >= LineageOwners THEN TryGrant(elder, "LineageMark", TRUE) ELSE elder

\* Adds to the wins of m, with the imprints that follow.
AddWins(m, n) ==
  LET total == SaturatingAdd(wins[m], n) IN
  /\ wins' = [wins EXCEPT ![m] = total]
  /\ imprints' = [imprints EXCEPT ![m] =
                    ThresholdImprints(@, wins[m], total, Len(ring[m]))]

\* A duel ends; reveal_hand or claim_timeout_win wrote its verdict.
FinishDuel(d, p, q, f, w) ==
  /\ duel[d] = None
  /\ w \in {p, q, None}
  /\ duel' = [duel EXCEPT ![d] = [seat |-> <<p, q>>, fielded |-> f, winner |-> w]]
  /\ UNCHANGED <<settled, credited, record, wins, kos, imprints, ownerVars,
                 now, minted, granted>>

\* init_card_mint_record, by the admin, once per mint.
InitCardMintRecord(m, c, r) ==
  /\ record[m] = None
  /\ record' = [record EXCEPT ![m] = [species |-> c, rarity |-> r]]
  /\ minted' = [minted EXCEPT ![m] = r]
  /\ UNCHANGED <<creditVars, wins, kos, imprints, ownerVars, now, granted>>

\* The side of d that p settles: player_1 is tested first.
SideOf(d, p) == IF p = duel[d].seat[1] THEN 1 ELSE 2

\* (Mutant of SettleAllowed: no bitmap.)
SettleAgain(d, p, m) ==
  /\ duel[d] # None /\ record[m] # None
  /\ \E s \in Sides : duel[d].seat[s] = p
  /\ record[m].species \in duel[d].fielded[SideOf(d, p)]

\* What settle_duel_history requires: a finished duel of p's, a registered mint
\* whose species p revealed in it, and no earlier settlement of that species.
SettleAllowed(d, p, m) ==
  /\ duel[d] # None /\ record[m] # None
  /\ \E s \in Sides : duel[d].seat[s] = p
  /\ record[m].species \in duel[d].fielded[SideOf(d, p)]
  /\ <<d, p, record[m].species>> \notin settled

\* settle_duel_history.  Losses and summons are counted beside the wins and
\* nothing reads them.
SettleDuelHistory(d, p, m) ==
  /\ SettleAllowed(d, p, m)
  /\ settled' = settled \cup {<<d, p, record[m].species>>}
  /\ AddWins(m, IF duel[d].winner = p THEN 1 ELSE 0)
  /\ credited' = IF duel[d].winner = p THEN [credited EXCEPT ![m] = @ \cup {d}]
                                       ELSE credited
  /\ UNCHANGED <<duel, record, kos, ownerVars, now, minted, granted>>

\* update_card_battle_history, by the admin; the mint need not be registered.
UpdateCardBattleHistory(m, delta) ==
  /\ AddWins(m, delta.wins)
  /\ kos' = [kos EXCEPT ![m] = SaturatingAdd(@, delta.kos)]
  /\ granted' = [granted EXCEPT ![m] = @ + (wins'[m] - wins[m])]
  /\ UNCHANGED <<creditVars, record, ownerVars, now, minted>>

StatCount(m) == Cardinality({i \in 1..Len(imprints[m]) : ~imprints[m][i].cosmetic})

\* grant_imprint, by the admin, for a registered mint; stat imprints only up to
\* the limit of the card's rarity.
GrantImprint(m, key, cosmetic) ==
  /\ record[m] # None
  /\ ~cosmetic => StatCount(m) < StatLimit[record[m].rarity]
  /\ imprints' = [imprints EXCEPT ![m] = TryGrant(@, key, cosmetic)]
  /\ UNCHANGED <<creditVars, record, wins, kos, ownerVars, now, minted,
                 granted>>

\* (Mutant of PromotionAllowed: the first threshold is used for every tier.)
PromotedTooEarly(m) ==
  /\ record[m] # None /\ record[m].rarity < 3
  /\ wins[m] >= PromoteWins[0]

\* evaluate_promotion.  The second gate also accepts a legendary kill, but no
\* instruction ever counts one.
PromotionAllowed(m) ==
  /\ record[m] # None /\ record[m].rarity < 3
  /\ wins[m] >= PromoteWins[record[m].rarity]
  /\ record[m].rarity = 1 => dropped[m] >= 1
  /\ record[m].rarity = 2 => source[m] = DuelWon /\ kos[m] >= LegendaryKos

\* promote_card, by the holder: one tier, in place.
PromoteCard(m) ==
  /\ PromotionAllowed(m)
  /\ record' = [record EXCEPT ![m].rarity = @ + 1]
  /\ UNCHANGED <<creditVars, wins, kos, imprints, ownerVars, now, minted,
                 granted>>

\* (Mutant of PushOwner: the newest goes to the far end.)
PushOldestFirst(m, old) ==
  IF Len(ring[m]) < RingSize
    THEN /\ ring' = [ring EXCEPT ![m] = Append(@, old)]
         /\ UNCHANGED dropped
    ELSE /\ ring' = [ring EXCEPT ![m] = Append(Tail(@), old)]
         /\ dropped' = [dropped EXCEPT ![m] = SaturatingAdd(@, 1)]

\* push_owner_to_ring: the newest first; a full ring drops its oldest.
PushOwner(m, old) ==
  IF Len(ring[m]) < RingSize
    THEN /\ ring' = [ring EXCEPT ![m] = <<old>> \o @]
         /\ UNCHANGED dropped
    ELSE /\ ring' = [ring EXCEPT ![m] = <<old>> \o SubSeq(@, 1, RingSize - 1)]
         /\ dropped' = [dropped EXCEPT ![m] = SaturatingAdd(@, 1)]

LeaseExpired(m) == lease[m] # None /\ now >= lease[m].expires

\* What both record_card_owner_change handlers do.  Whoever signs is recorded
\* as the displaced owner: neither handler asks who holds the card.
ChangeOwner(m, old, src) ==
  /\ Len(signers[m]) < MaxChanges
  /\ PushOwner(m, old)
  /\ source' = [source EXCEPT ![m] = src]
  /\ signers' = [signers EXCEPT ![m] = <<old>> \o @]
  /\ UNCHANGED <<creditVars, record, wins, kos, imprints, now, minted,
                 granted>>

\* The lease once an expired one is cleared.
SettledLease(m) ==
  IF LeaseExpired(m) THEN None ELSE lease[m]

\* record_card_owner_change.
RecordCardOwnerChange(m, old, src) ==
  /\ ChangeOwner(m, old, src)
  /\ lease' = [lease EXCEPT ![m] = SettledLease(m)]

\* record_card_owner_change_with_steal.  The hall, starter and legendary checks
\* compare arguments of the caller with one another only, so every kind of steal
\* passes for some arguments.
RecordSteal(m, old, src) ==
  /\ ChangeOwner(m, old, src)
  /\ lease' = [lease EXCEPT ![m] =
                 IF src = LeaseSource
                   THEN [expires |-> now + LeaseDuration, to |-> old]
                   ELSE SettledLease(m)]

Tick ==
  /\ now < Horizon
  /\ now' = now + 1
  /\ UNCHANGED <<creditVars, record, wins, kos, imprints, ownerVars,
                 minted, granted>>

Next ==
  \/ \E d \in Duels, p, q \in Wallets, f \in [Sides -> SUBSET Species],
        w \in Wallets \cup {None} : FinishDuel(d, p, q, f, w)
  \/ \E m \in Mints :
       \/ \E c \in Species, r \in Rarity : InitCardMintRecord(m, c, r)
       \/ \E d \in Duels, p \in Wallets : SettleDuelHistory(d, p, m)
       \/ \E delta \in Deltas : UpdateCardBattleHistory(m, delta)
       \/ \E key \in GrantKeys, cosmetic \in BOOLEAN : GrantImprint(m, key, cosmetic)
       \/ PromoteCard(m)
       \/ \E p \in Wallets :
            \/ \E src \in GivenSource : RecordCardOwnerChange(m, p, src)
            \/ \E src \in StealSource : RecordSteal(m, p, src)
  \/ Tick

Spec == Init /\ [][Next]_vars

-----------------------------------------------------------------------------
(***************************************************************************)
(* Properties.                                                             *)
(***************************************************************************)

Registered == {m \in Mints : record[m] # None}

\* Every account field stays in its range.
TypeOK ==
  /\ duel \in [Duels -> {None} \cup
       [seat : Wallets \X Wallets, fielded : [Sides -> SUBSET Species],
        winner : Wallets \cup {None}]]
  /\ settled \subseteq Duels \X Wallets \X Species
  /\ credited \in [Mints -> SUBSET Duels]
  /\ record \in [Mints -> {None} \cup [species : Species, rarity : Rarity]]
  /\ wins \in [Mints -> 0..CountMax] /\ kos \in [Mints -> 0..CountMax]
  /\ imprints \in [Mints -> Seq(Imprint)]
  /\ ring \in [Mints -> Seq(Wallets)] /\ signers \in [Mints -> Seq(Wallets)]
  /\ \A m \in Mints : Len(imprints[m]) <= ImprintSlots /\ Len(ring[m]) <= RingSize
  /\ dropped \in [Mints -> 0..CountMax]
  /\ source \in [Mints -> Source]
  /\ lease \in [Mints -> {None} \cup [expires : Nat, to : Wallets]]
  /\ now \in 0..Horizon
  /\ minted \in [Mints -> Rarity]
  /\ granted \in [Mints -> Nat] /\ \A m \in Mints : granted[m] <= wins[m]

\* "Forged history is impossible" (settle_duel_history.rs, header): a card has no
\* more wins, the admin's aside, than duels it was given the win of, those were
\* won by somebody who fielded its species, and no copy of the species has the
\* win of the same duel, however often the two players settle and however many
\* copies they hold.
WonWith(d, c) ==
  duel[d] # None /\ \E s \in Sides : /\ duel[d].winner = duel[d].seat[s]
                                     /\ c \in duel[d].fielded[s]
EachWinEngravedOnce ==
  \A m \in Registered :
    /\ wins[m] - granted[m] <= Cardinality(credited[m])
    /\ \A d \in credited[m] : WonWith(d, record[m].species)
    /\ \A n \in Registered \ {m} :
         record[n].species = record[m].species => credited[n] \cap credited[m] = {}

\* Every tier a card rose since it was registered is borne out by its history,
\* whatever came later: the wins of the tier, an entry dropped from the ring
\* before rare, the knockouts before legendary.
EarnedTiers(m) ==
  \A r \in 0..2 :
    minted[m] <= r /\ r < record[m].rarity =>
      /\ wins[m] >= PromoteWins[r]
      /\ r = 1 => dropped[m] >= 1
      /\ r = 2 => kos[m] >= LegendaryKos
RarityEarned == \A m \in Registered : minted[m] <= record[m].rarity /\ EarnedTiers(m)

\* A card that has the wins of a mark has the mark, or had no slot left for it,
\* also when an update of the admin jumps over the threshold or over both.
ImprintsEarned ==
  \A m \in Mints :
    \/ Len(imprints[m]) = ImprintSlots
    \/ /\ wins[m] >= VeteranWins => HasKey(imprints[m], "Veteran")
       /\ wins[m] >= ElderWins => HasKey(imprints[m], "Elder")

\* The ring holds the latest wallets that signed for a change of owner, newest
\* first and each with its place, and the rest are counted.  These are not yet
\* "the wallets that have held it" nor "how many times it has changed hands", as
\* README.md:73-74 has it: no holder is asked for, and the counter stays 0 until
\* the ring is full.
RingKeepsLatest ==
  \A m \in Mints :
    LET n == Len(ring[m]) IN
    /\ n = Min({RingSize, Len(signers[m])})
    /\ ring[m] = SubSeq(signers[m], 1, n)
    /\ dropped[m] = SaturatingAdd(Len(signers[m]) - n, 0)

\* The history is continuous: no step, a promotion included, takes away wins,
\* knockouts, imprints, rarity or a settlement.
OnlyGrows(m) ==
  /\ wins'[m] >= wins[m] /\ kos'[m] >= kos[m]
  /\ Len(imprints'[m]) >= Len(imprints[m])
  /\ SubSeq(imprints'[m], 1, Len(imprints[m])) = imprints[m]
  /\ record[m] # None => /\ record'[m] # None
                         /\ record'[m].species = record[m].species
                         /\ record'[m].rarity >= record[m].rarity
HistoryOnlyGrows == [][settled \subseteq settled' /\ \A m \in Mints : OnlyGrows(m)]_vars
=============================================================================

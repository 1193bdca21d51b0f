-------------------------- MODULE ProvenanceProofs ---------------------------
(***************************************************************************)
(* Proofs about the history of the cards, for any number of cards, players *)
(* and duels and any thresholds, limits and lengths.                       *)
(***************************************************************************)
EXTENDS Provenance, SequenceTheorems, FiniteSetTheorems, TLAPS

-----------------------------------------------------------------------------
(***************************************************************************)
(* Imprints: a grant extends what the card has.                            *)
(***************************************************************************)
Held == {s \in Seq(Imprint) : Len(s) <= ImprintSlots}

\* t is s with further imprints.
Extended(s, t) == Len(s) <= Len(t) /\ \A i \in 1..Len(s) : t[i] = s[i]

\* t has the imprint, or no slot for it.
HasOrFull(t, key) == HasKey(t, key) \/ Len(t) = ImprintSlots

LEMMA ExtendedKeeps ==
  ASSUME NEW s \in Held, NEW t \in Held, Extended(s, t), NEW key
  PROVE  HasOrFull(s, key) => HasOrFull(t, key)
BY ProvenanceAssumption DEF Held, Extended, HasOrFull, HasKey

LEMMA ExtendedTransitive ==
  ASSUME NEW s \in Held, NEW t \in Held, NEW u \in Held, Extended(s, t), Extended(t, u)
  PROVE  Extended(s, u)
BY DEF Held, Extended

LEMMA TryGrantExtends ==
  ASSUME NEW s \in Held, NEW key \in Keys, NEW cosmetic \in BOOLEAN
  PROVE  /\ TryGrant(s, key, cosmetic) \in Held
         /\ Extended(s, TryGrant(s, key, cosmetic))
         /\ HasOrFull(TryGrant(s, key, cosmetic), key)
<1> DEFINE new == [key |-> key, cosmetic |-> cosmetic]
<1>1. new \in Imprint BY DEF Imprint
<1>2. CASE Len(s) >= ImprintSlots \/ (key # "None" /\ HasKey(s, key))
  BY <1>2, ProvenanceAssumption DEF TryGrant, Held, Extended, HasOrFull
<1>3. CASE ~(Len(s) >= ImprintSlots \/ (key # "None" /\ HasKey(s, key)))
  <2>1. TryGrant(s, key, cosmetic) = Append(s, new) BY <1>3 DEF TryGrant
  <2>2. Len(s) < ImprintSlots /\ Len(s) \in Nat BY <1>3, ProvenanceAssumption DEF Held
  <2>3. /\ Append(s, new) \in Seq(Imprint) /\ Len(Append(s, new)) = Len(s) + 1
        /\ Append(s, new)[Len(s) + 1] = new
        /\ \A i \in 1..Len(s) : Append(s, new)[i] = s[i]
    BY <1>1 DEF Held
  <2>4. new.key = key OBVIOUS
  <2> HIDE DEF new
  <2>5. HasKey(Append(s, new), key) BY <2>2, <2>3, <2>4 DEF HasKey
  <2> QED
    BY <2>1, <2>2, <2>3, <2>5, ProvenanceAssumption DEF Held, Extended, HasOrFull
<1> QED BY <1>2, <1>3

\* The marks of the thresholds are extensions too, and none is skipped.
LEMMA ThresholdImprintsExtend ==
  ASSUME NEW s \in Held, NEW old \in Nat, NEW new \in Nat, NEW len \in Nat
  PROVE  /\ ThresholdImprints(s, old, new, len) \in Held
         /\ Extended(s, ThresholdImprints(s, old, new, len))
         /\ old < VeteranWins /\ new >= VeteranWins
              => HasOrFull(ThresholdImprints(s, old, new, len), "Veteran")
         /\ old < ElderWins /\ new >= ElderWins
              => HasOrFull(ThresholdImprints(s, old, new, len), "Elder")
<1> DEFINE a == IF old < VeteranWins /\ new >= VeteranWins
                  THEN TryGrant(s, "Veteran", FALSE) ELSE s
           e == TryGrant(a, "Elder", FALSE)
           f == TryGrant(e, "ElderFrame", TRUE)
           b == IF old < ElderWins /\ new >= ElderWins THEN f ELSE a
           c == IF len >= LineageOwners THEN TryGrant(b, "LineageMark", TRUE) ELSE b
<1>0. /\ {"Veteran", "Elder", "ElderFrame", "LineageMark"} \subseteq Keys
      /\ \A t \in Held : Extended(t, t)
  BY DEF Keys, Extended
<1>1. a \in Held /\ Extended(s, a)
      /\ (old < VeteranWins /\ new >= VeteranWins => HasOrFull(a, "Veteran"))
  BY <1>0, TryGrantExtends
<1>2. e \in Held /\ Extended(a, e) /\ HasOrFull(e, "Elder")
  <2> HIDE DEF a
  <2> QED BY <1>0, <1>1, TryGrantExtends
<1>3. f \in Held /\ Extended(e, f)
  <2> HIDE DEF e
  <2> QED BY <1>0, <1>2, TryGrantExtends
<1>4. b \in Held /\ Extended(a, b)
      /\ (old < ElderWins /\ new >= ElderWins => HasOrFull(b, "Elder"))
  <2> HIDE DEF a, e, f
  <2>1. Extended(a, f) /\ HasOrFull(f, "Elder")
    BY <1>1, <1>2, <1>3, ExtendedTransitive, ExtendedKeeps
  <2> QED BY <1>0, <1>1, <1>3, <2>1
<1>5. c \in Held /\ Extended(b, c)
  <2> HIDE DEF b
  <2> QED BY <1>0, <1>4, TryGrantExtends
<1>6. ThresholdImprints(s, old, new, len) = c BY DEF ThresholdImprints
<1> HIDE DEF a, b, c, e, f
<1>7. Extended(s, c) BY <1>1, <1>4, <1>5, ExtendedTransitive
<1> QED BY <1>1, <1>4, <1>5, <1>6, <1>7, ExtendedTransitive, ExtendedKeeps

-----------------------------------------------------------------------------
(***************************************************************************)
(* Counters.                                                               *)
(***************************************************************************)
LEMMA SaturatingAddBounds ==
  ASSUME NEW a \in 0..CountMax, NEW b \in Nat
  PROVE  SaturatingAdd(a, b) \in 0..CountMax /\ SaturatingAdd(a, b) >= a
BY ProvenanceAssumption DEF SaturatingAdd

\* Nothing a card has is taken away in a step.
Growth ==
  /\ settled \subseteq settled'
  /\ \A m \in Mints :
       /\ wins'[m] >= wins[m] /\ kos'[m] >= kos[m] /\ dropped'[m] >= dropped[m]
       /\ Extended(imprints[m], imprints'[m])
       /\ record[m] # None => /\ record'[m] # None
                              /\ record'[m].species = record[m].species
                              /\ record'[m].rarity >= record[m].rarity

Kept == TypeOK' /\ Growth

LEMMA Typed ==
  ASSUME TypeOK, NEW m \in Mints
  PROVE  /\ wins[m] \in 0..CountMax /\ kos[m] \in 0..CountMax /\ dropped[m] \in 0..CountMax
         /\ imprints[m] \in Held /\ Extended(imprints[m], imprints[m])
         /\ record[m] # None => record[m].species \in Species /\ record[m].rarity \in 0..3
         /\ Len(ring[m]) \in Nat
BY DEF TypeOK, Held, Extended, Rarity

LEMMA CountsTyped ==
  ASSUME TypeOK, NEW m \in Mints
  PROVE  wins[m] \in Nat /\ granted[m] \in Nat /\ granted[m] <= wins[m]
<1>1. /\ wins \in [Mints -> 0..CountMax] /\ granted \in [Mints -> Nat]
      /\ granted[m] <= wins[m]
  BY DEF TypeOK
<1> QED BY <1>1

LEMMA CountsTypedNext ==
  ASSUME TypeOK', NEW m \in Mints
  PROVE  wins'[m] \in Nat /\ granted'[m] \in Nat
<1>1. wins' \in [Mints -> 0..CountMax] /\ granted' \in [Mints -> Nat] BY DEF TypeOK
<1> QED BY <1>1

\* The wins of a card and what follows from them.
LEMMA AddWinsOK ==
  ASSUME TypeOK, NEW m \in Mints, NEW n \in Nat, AddWins(m, n)
  PROVE  /\ wins' \in [Mints -> 0..CountMax]
         /\ imprints' \in [Mints -> Seq(Imprint)]
         /\ \A k \in Mints : /\ wins'[k] >= wins[k] /\ imprints'[k] \in Held
                             /\ Extended(imprints[k], imprints'[k])
                             /\ k # m => wins'[k] = wins[k] /\ imprints'[k] = imprints[k]
         /\ wins[m] < VeteranWins /\ wins'[m] >= VeteranWins
              => HasOrFull(imprints'[m], "Veteran")
         /\ wins[m] < ElderWins /\ wins'[m] >= ElderWins
              => HasOrFull(imprints'[m], "Elder")
<1> DEFINE total == SaturatingAdd(wins[m], n)
           grown == ThresholdImprints(imprints[m], wins[m], total, Len(ring[m]))
<1>1. total \in 0..CountMax /\ total >= wins[m] BY Typed, SaturatingAddBounds
<1>2. /\ wins' = [wins EXCEPT ![m] = total]
      /\ imprints' = [imprints EXCEPT ![m] = grown]
  BY DEF AddWins
<1>3. /\ wins[m] \in Nat /\ total \in Nat /\ Len(ring[m]) \in Nat /\ imprints[m] \in Held
  BY <1>1, Typed
<1> HIDE DEF total
<1>4. /\ grown \in Held /\ Extended(imprints[m], grown)
      /\ wins[m] < VeteranWins /\ total >= VeteranWins => HasOrFull(grown, "Veteran")
      /\ wins[m] < ElderWins /\ total >= ElderWins => HasOrFull(grown, "Elder")
  BY <1>3, ThresholdImprintsExtend
<1> HIDE DEF grown
<1>5. wins' \in [Mints -> 0..CountMax] /\ wins'[m] = total BY <1>1, <1>2 DEF TypeOK
<1>6. /\ imprints' \in [Mints -> Seq(Imprint)] /\ imprints'[m] = grown
  BY <1>2, <1>4 DEF TypeOK, Held
<1>7. \A k \in Mints : k # m => wins'[k] = wins[k] /\ imprints'[k] = imprints[k]
  BY <1>2 DEF TypeOK
<1>8. \A k \in Mints : /\ wins'[k] >= wins[k] /\ imprints'[k] \in Held
                      /\ Extended(imprints[k], imprints'[k])
  <2> TAKE k \in Mints
  <2>1. CASE k = m BY <2>1, <1>1, <1>4, <1>5, <1>6
  <2>2. CASE k # m BY <2>2, <1>7, Typed
  <2> QED BY <2>1, <2>2
<1> QED BY <1>4, <1>5, <1>6, <1>7, <1>8

-----------------------------------------------------------------------------
(***************************************************************************)
(* Every step keeps the types and takes nothing away.                      *)
(***************************************************************************)
LEMMA FinishDuelKeeps ==
  ASSUME TypeOK, NEW d \in Duels, NEW p \in Wallets, NEW q \in Wallets,
         NEW f \in [Sides -> SUBSET Species], NEW w \in Wallets \cup {None},
         FinishDuel(d, p, q, f, w)
  PROVE  Kept
<1>1. UNCHANGED <<settled, credited, record, wins, kos, imprints, ring, dropped, source,
                  lease, signers, now, minted, granted>>
  BY DEF FinishDuel, ownerVars
<1>2. duel' \in [Duels -> {None} \cup
        [seat : Wallets \X Wallets, fielded : [Sides -> SUBSET Species],
         winner : Wallets \cup {None}]]
  BY DEF FinishDuel, TypeOK
<1>3. TypeOK' BY <1>1, <1>2 DEF TypeOK
<1>4. Growth BY <1>1, Typed DEF Growth
<1> QED BY <1>3, <1>4 DEF Kept

LEMMA InitCardMintRecordKeeps ==
  ASSUME TypeOK, NEW m \in Mints, NEW c \in Species, NEW r \in Rarity,
         InitCardMintRecord(m, c, r)
  PROVE  Kept
<1>1. UNCHANGED <<duel, settled, credited, wins, kos, imprints, ring, dropped, source, lease, signers,
                  now, granted>>
  BY DEF InitCardMintRecord, ownerVars, creditVars
<1>2. /\ record' \in [Mints -> {None} \cup [species : Species, rarity : Rarity]]
      /\ minted' \in [Mints -> Rarity]
      /\ \A k \in Mints : record[k] # None => record'[k] = record[k]
  BY DEF InitCardMintRecord, TypeOK
<1>3. TypeOK' BY <1>1, <1>2 DEF TypeOK
<1>4. Growth
  <2>1. \A k \in Mints : record[k] # None => record[k].rarity >= record[k].rarity
    BY Typed
  <2> QED BY <1>1, <1>2, <2>1, Typed DEF Growth
<1> QED BY <1>3, <1>4 DEF Kept

\* What TypeOK says, part by part, of the credit and of the ring.
LEMMA CreditTyped ==
  ASSUME TypeOK, NEW m \in Mints, NEW n \in Nat, AddWins(m, n),
         kos' \in [Mints -> 0..CountMax], settled' \subseteq Duels \X Wallets \X Species,
         credited' \in [Mints -> SUBSET Duels],
         granted' \in [Mints -> Nat], \A k \in Mints : granted'[k] <= wins'[k],
         UNCHANGED <<duel, record, ring, dropped, source, lease, signers, now, minted>>
  PROVE  TypeOK'
<1>1. /\ wins' \in [Mints -> 0..CountMax] /\ imprints' \in [Mints -> Seq(Imprint)]
      /\ \A k \in Mints : Len(imprints'[k]) <= ImprintSlots
  BY AddWinsOK DEF Held
<1> QED BY <1>1 DEF TypeOK

LEMMA SettleDuelHistoryKeeps ==
  ASSUME TypeOK, NEW m \in Mints, NEW d \in Duels, NEW p \in Wallets,
         SettleDuelHistory(d, p, m)
  PROVE  Kept
<1>1. /\ UNCHANGED <<duel, record, kos, ring, dropped, source, lease, signers, now, minted,
                     granted>>
      /\ settled' = settled \cup {<<d, p, record[m].species>>} /\ record[m] # None
  BY DEF SettleDuelHistory, SettleAllowed, ownerVars
<1>2. PICK n \in Nat : AddWins(m, n)
  <2>1. CASE duel[d].winner = p BY <2>1 DEF SettleDuelHistory
  <2>2. CASE duel[d].winner # p BY <2>2 DEF SettleDuelHistory
  <2> QED BY <2>1, <2>2
<1>3. settled' \subseteq Duels \X Wallets \X Species BY <1>1, Typed DEF TypeOK
<1>4. \A k \in Mints : wins'[k] >= wins[k] /\ wins'[k] \in Nat /\ Extended(imprints[k], imprints'[k])
  BY <1>2, AddWinsOK
<1>5. \A k \in Mints : granted'[k] <= wins'[k]
  BY <1>1, <1>4, CountsTyped
<1>8. credited' \in [Mints -> SUBSET Duels] BY DEF SettleDuelHistory, TypeOK
<1>6. TypeOK' BY <1>1, <1>2, <1>3, <1>5, <1>8, CreditTyped DEF TypeOK
<1>7. Growth BY <1>1, <1>4, Typed DEF Growth
<1> QED BY <1>6, <1>7 DEF Kept

LEMMA UpdateCardBattleHistoryKeeps ==
  ASSUME TypeOK, NEW m \in Mints, NEW delta \in Deltas, UpdateCardBattleHistory(m, delta)
  PROVE  Kept
<1>1. /\ AddWins(m, delta.wins)
      /\ kos' = [kos EXCEPT ![m] = SaturatingAdd(@, delta.kos)]
      /\ granted' = [granted EXCEPT ![m] = @ + (wins'[m] - wins[m])]
      /\ UNCHANGED <<duel, settled, credited, record, ring, dropped, source, lease, signers, now, minted>>
  BY DEF UpdateCardBattleHistory, ownerVars, creditVars
<1>2. delta.wins \in Nat /\ delta.kos \in Nat BY ProvenanceAssumption
<1>3. /\ \A k \in Mints : wins'[k] >= wins[k] /\ wins'[k] \in Nat
      /\ \A k \in Mints : k # m => wins'[k] = wins[k]
  BY <1>1, <1>2, AddWinsOK
<1>9. \A k \in Mints : Extended(imprints[k], imprints'[k])
  BY <1>1, <1>2, AddWinsOK
<1>4. SaturatingAdd(kos[m], delta.kos) \in 0..CountMax /\ SaturatingAdd(kos[m], delta.kos) >= kos[m]
  BY <1>2, Typed, SaturatingAddBounds
<1>5. /\ kos' \in [Mints -> 0..CountMax]
      /\ \A k \in Mints : kos'[k] >= kos[k]
  <2>1. \A k \in Mints : kos'[k] = IF k = m THEN SaturatingAdd(kos[m], delta.kos) ELSE kos[k]
    BY <1>1 DEF TypeOK
  <2>2. kos' \in [Mints -> 0..CountMax] BY <1>1, <1>4 DEF TypeOK
  <2> QED BY <1>4, <2>1, <2>2, Typed
<1>6. /\ granted' \in [Mints -> Nat]
      /\ \A k \in Mints : granted'[k] <= wins'[k]
  <2>0. \A k \in Mints : /\ wins[k] \in Nat /\ granted[k] \in Nat /\ granted[k] <= wins[k]
                        /\ wins'[k] \in Nat /\ wins'[k] >= wins[k]
    BY <1>3, Typed DEF TypeOK
  <2>1. /\ wins[m] \in Nat /\ granted[m] \in Nat /\ granted[m] <= wins[m]
        /\ wins'[m] \in Nat /\ wins'[m] >= wins[m]
    BY <2>0
  <2>2. granted[m] + (wins'[m] - wins[m]) \in Nat BY <2>1
  <2>3. \A k \in Mints : granted'[k] = IF k = m THEN granted[m] + (wins'[m] - wins[m])
                                              ELSE granted[k]
    BY <1>1 DEF TypeOK
  <2>4. granted' \in [Mints -> Nat] BY <1>1, <2>2 DEF TypeOK
  <2>5. ASSUME NEW k \in Mints PROVE granted'[k] <= wins'[k]
    <3>1. CASE k = m BY <3>1, <2>1, <2>3
    <3>2. CASE k # m BY <3>2, <2>0, <2>3, <1>3
    <3> QED BY <3>1, <3>2
  <2> QED BY <2>4, <2>5
<1>7. TypeOK'
  <2>1. settled' \subseteq Duels \X Wallets \X Species /\ credited' \in [Mints -> SUBSET Duels]
    BY <1>1 DEF TypeOK
  <2> QED BY <1>1, <1>2, <1>5, <1>6, <2>1, CreditTyped
<1>8. Growth
  <2>2. \A k \in Mints : dropped'[k] >= dropped[k] BY <1>1, Typed
  <2>3. \A k \in Mints : record[k] # None => record'[k] = record[k]
                                             /\ record'[k].rarity >= record[k].rarity
    BY <1>1, Typed
  <2> QED BY <1>1, <1>3, <1>9, <1>5, <2>2, <2>3 DEF Growth
<1> QED BY <1>7, <1>8 DEF Kept

LEMMA GrantImprintKeeps ==
  ASSUME TypeOK, NEW m \in Mints, NEW key \in GrantKeys, NEW cosmetic \in BOOLEAN,
         GrantImprint(m, key, cosmetic)
  PROVE  Kept
<1>1. /\ UNCHANGED <<duel, settled, credited, record, wins, kos, ring, dropped, source, lease, signers,
                     now, minted, granted>>
      /\ imprints' = [imprints EXCEPT ![m] = TryGrant(@, key, cosmetic)]
  BY DEF GrantImprint, ownerVars, creditVars
<1>2. /\ TryGrant(imprints[m], key, cosmetic) \in Held
      /\ Extended(imprints[m], TryGrant(imprints[m], key, cosmetic))
  BY Typed, TryGrantExtends DEF Keys
<1>3. \A k \in Mints : imprints'[k] = IF k = m THEN TryGrant(imprints[m], key, cosmetic)
                                            ELSE imprints[k]
  BY <1>1 DEF TypeOK
<1>4. imprints' \in [Mints -> Seq(Imprint)] BY <1>1, <1>2 DEF TypeOK, Held
<1>5. \A k \in Mints : imprints'[k] \in Held /\ Extended(imprints[k], imprints'[k])
  BY <1>2, <1>3, Typed
<1>6. \A k \in Mints : Len(imprints'[k]) <= ImprintSlots BY <1>5 DEF Held
<1>7. TypeOK' BY <1>1, <1>4, <1>6 DEF TypeOK
<1>8. Growth BY <1>1, <1>5, Typed DEF Growth
<1> QED BY <1>7, <1>8 DEF Kept

LEMMA PromoteCardKeeps ==
  ASSUME TypeOK, NEW m \in Mints, PromoteCard(m)
  PROVE  Kept
<1>1. /\ UNCHANGED <<duel, settled, credited, wins, kos, imprints, ring, dropped, source, lease, signers,
                     now, minted, granted>>
      /\ record[m] # None /\ record[m].rarity < 3
      /\ record' = [record EXCEPT ![m].rarity = @ + 1]
  BY DEF PromoteCard, PromotionAllowed, ownerVars, creditVars
<1>2. record[m] \in [species : Species, rarity : Rarity] BY <1>1 DEF TypeOK
<1>3. [record[m] EXCEPT !.rarity = @ + 1] \in [species : Species, rarity : Rarity]
  BY <1>1, <1>2 DEF Rarity
<1>4. /\ record'[m] = [record[m] EXCEPT !.rarity = @ + 1]
      /\ \A k \in Mints : k # m => record'[k] = record[k]
  BY <1>1 DEF TypeOK
<1>5. record' \in [Mints -> {None} \cup [species : Species, rarity : Rarity]]
  BY <1>1, <1>3 DEF TypeOK
<1>6. TypeOK' BY <1>1, <1>5 DEF TypeOK
<1>7. ASSUME NEW k \in Mints, record[k] # None
      PROVE  record'[k] # None /\ record'[k].species = record[k].species
             /\ record'[k].rarity >= record[k].rarity
  <2>1. CASE k = m BY <1>2, <1>3, <1>4, <2>1, ProvenanceAssumption DEF Rarity
  <2>2. CASE k # m BY <1>4, <1>7, <2>2, Typed
  <2> QED BY <2>1, <2>2
<1>8. Growth BY <1>1, <1>7, Typed DEF Growth
<1> QED BY <1>6, <1>8 DEF Kept

LEMMA TickKeeps == ASSUME TypeOK, Tick PROVE Kept
<1>1. UNCHANGED <<duel, settled, credited, record, wins, kos, imprints, ring, dropped, source, lease,
                  signers, minted, granted>> /\ now' \in 0..Horizon
  BY ProvenanceAssumption DEF Tick, ownerVars, creditVars, TypeOK
<1>2. TypeOK' BY <1>1 DEF TypeOK
<1>3. Growth BY <1>1, Typed DEF Growth
<1> QED BY <1>2, <1>3 DEF Kept

\* A change of owner pushes the wallet that signs on the ring.
LEMMA PushOwnerOK ==
  ASSUME TypeOK, NEW m \in Mints, NEW old \in Wallets, PushOwner(m, old)
  PROVE  /\ ring' \in [Mints -> Seq(Wallets)] /\ dropped' \in [Mints -> 0..CountMax]
         /\ \A k \in Mints : Len(ring'[k]) <= RingSize
         /\ \A k \in Mints : dropped'[k] >= dropped[k]
<1> DEFINE short == <<old>> \o ring[m]
           cut == <<old>> \o SubSeq(ring[m], 1, RingSize - 1)
<1>1. /\ ring[m] \in Seq(Wallets) /\ Len(ring[m]) \in Nat /\ Len(ring[m]) <= RingSize
      /\ <<old>> \in Seq(Wallets) /\ Len(<<old>>) = 1
      /\ RingSize \in Nat \ {0}
  BY ProvenanceAssumption DEF TypeOK
<1>2. CASE Len(ring[m]) < RingSize
  <2>1. ring' = [ring EXCEPT ![m] = short] /\ dropped' = dropped BY <1>2 DEF PushOwner
  <2>2. short \in Seq(Wallets) /\ Len(short) = Len(ring[m]) + 1 BY <1>1, ConcatProperties
  <2> HIDE DEF short
  <2>3. \A k \in Mints : ring'[k] = IF k = m THEN short ELSE ring[k] BY <2>1 DEF TypeOK
  <2>4. \A k \in Mints : Len(ring'[k]) <= RingSize
    <3>1. \A k \in Mints : Len(ring[k]) <= RingSize BY DEF TypeOK
    <3>2. Len(short) <= RingSize BY <1>1, <1>2, <2>2
    <3> QED BY <2>3, <3>1, <3>2
  <2> QED BY <2>1, <2>2, <2>4, Typed DEF TypeOK
<1>3. CASE ~(Len(ring[m]) < RingSize)
  <2>1. /\ ring' = [ring EXCEPT ![m] = cut]
        /\ dropped' = [dropped EXCEPT ![m] = SaturatingAdd(@, 1)]
    BY <1>3 DEF PushOwner
  <2>2. /\ SubSeq(ring[m], 1, RingSize - 1) \in Seq(Wallets)
        /\ Len(SubSeq(ring[m], 1, RingSize - 1)) = RingSize - 1
    <3>1. \A i \in 1..(RingSize - 1) : ring[m][i] \in Wallets
      BY <1>1, <1>3, ElementOfSeq
    <3> QED BY <1>1, <3>1, SubSeqProperties
  <2>3. cut \in Seq(Wallets) /\ Len(cut) = RingSize BY <1>1, <2>2, ConcatProperties
  <2> HIDE DEF cut
  <2>4. \A k \in Mints : ring'[k] = IF k = m THEN cut ELSE ring[k] BY <2>1 DEF TypeOK
  <2>5. \A k \in Mints : Len(ring'[k]) <= RingSize
    <3>1. \A k \in Mints : Len(ring[k]) <= RingSize BY DEF TypeOK
    <3>2. Len(cut) <= RingSize BY <1>1, <2>3
    <3> QED BY <2>4, <3>1, <3>2
  <2>6. SaturatingAdd(dropped[m], 1) \in 0..CountMax /\ SaturatingAdd(dropped[m], 1) >= dropped[m]
    BY Typed, SaturatingAddBounds
  <2>7. \A k \in Mints : dropped'[k] = IF k = m THEN SaturatingAdd(dropped[m], 1) ELSE dropped[k]
    BY <2>1 DEF TypeOK
  <2>8. dropped' \in [Mints -> 0..CountMax] BY <2>1, <2>6 DEF TypeOK
  <2>9. \A k \in Mints : dropped'[k] >= dropped[k] BY <2>6, <2>7, Typed
  <2> QED BY <2>1, <2>3, <2>5, <2>8, <2>9 DEF TypeOK
<1> QED BY <1>2, <1>3

LEMMA ChangeOwnerKeeps ==
  ASSUME TypeOK, NEW m \in Mints, NEW old \in Wallets, NEW src \in GivenSource \cup StealSource,
         ChangeOwner(m, old, src),
         lease' \in [Mints -> {None} \cup [expires : Nat, to : Wallets]]
  PROVE  Kept
<1>1. /\ PushOwner(m, old) /\ source' = [source EXCEPT ![m] = src]
      /\ signers' = [signers EXCEPT ![m] = <<old>> \o @]
      /\ UNCHANGED <<duel, settled, credited, record, wins, kos, imprints, now, minted, granted>>
  BY DEF ChangeOwner, creditVars
<1>2. signers' \in [Mints -> Seq(Wallets)]
  <2>1. <<old>> \o signers[m] \in Seq(Wallets) BY ConcatProperties DEF TypeOK
  <2> QED BY <1>1, <2>1 DEF TypeOK
<1>3. source' \in [Mints -> Source]
  <2>1. src \in Source BY ProvenanceAssumption DEF Source, StealSource
  <2> QED BY <1>1, <2>1 DEF TypeOK
<1>4. /\ ring' \in [Mints -> Seq(Wallets)] /\ dropped' \in [Mints -> 0..CountMax]
      /\ \A k \in Mints : Len(ring'[k]) <= RingSize
      /\ \A k \in Mints : dropped'[k] >= dropped[k]
  BY <1>1, PushOwnerOK
<1>5. TypeOK' BY <1>1, <1>2, <1>3, <1>4 DEF TypeOK
<1>6. Growth
  <2>1. \A k \in Mints : wins'[k] >= wins[k] /\ kos'[k] >= kos[k]
    BY <1>1, Typed
  <2>2. \A k \in Mints : Extended(imprints[k], imprints'[k])
    BY <1>1, Typed
  <2>3. \A k \in Mints : record[k] # None => record'[k] = record[k]
                                             /\ record'[k].rarity >= record[k].rarity
    BY <1>1, Typed
  <2>4. settled \subseteq settled' BY <1>1
  <2> QED BY <1>4, <2>1, <2>2, <2>3, <2>4 DEF Growth
<1> QED BY <1>5, <1>6 DEF Kept

LEMMA RecordKeeps ==
  ASSUME TypeOK, NEW m \in Mints, NEW p \in Wallets,
         \/ \E src \in GivenSource : RecordCardOwnerChange(m, p, src)
         \/ \E src \in StealSource : RecordSteal(m, p, src)
  PROVE  Kept
<1>1. SettledLease(m) \in {None} \cup [expires : Nat, to : Wallets]
  BY DEF SettledLease, TypeOK
<1>2. ASSUME NEW src \in GivenSource, RecordCardOwnerChange(m, p, src) PROVE Kept
  <2>1. lease' \in [Mints -> {None} \cup [expires : Nat, to : Wallets]]
    BY <1>1, <1>2 DEF RecordCardOwnerChange, TypeOK
  <2> QED BY <1>2, <2>1, ChangeOwnerKeeps DEF RecordCardOwnerChange
<1>3. ASSUME NEW src \in StealSource, RecordSteal(m, p, src) PROVE Kept
  <2> DEFINE next == IF src = LeaseSource THEN [expires |-> now + LeaseDuration, to |-> p]
                                          ELSE SettledLease(m)
  <2>1. now + LeaseDuration \in Nat
    <3>1. now \in 0..Horizon /\ Horizon \in Nat /\ LeaseDuration \in Nat
      BY ProvenanceAssumption DEF TypeOK
    <3> QED BY <3>1
  <2>2. next \in {None} \cup [expires : Nat, to : Wallets] BY <1>1, <2>1
  <2>3. lease' = [lease EXCEPT ![m] = next] BY <1>3 DEF RecordSteal
  <2> HIDE DEF next
  <2>4. lease' \in [Mints -> {None} \cup [expires : Nat, to : Wallets]]
    BY <2>2, <2>3 DEF TypeOK
  <2> QED BY <1>3, <2>4, ChangeOwnerKeeps DEF RecordSteal
<1> QED BY <1>2, <1>3

LEMMA NextKeeps == ASSUME TypeOK, Next PROVE Kept
<1>1. ASSUME NEW d \in Duels, NEW p \in Wallets, NEW q \in Wallets,
             NEW f \in [Sides -> SUBSET Species], NEW w \in Wallets \cup {None},
             FinishDuel(d, p, q, f, w)
      PROVE  Kept
  BY <1>1, FinishDuelKeeps
<1>2. ASSUME NEW m \in Mints, NEW c \in Species, NEW r \in Rarity, InitCardMintRecord(m, c, r)
      PROVE  Kept
  BY <1>2, InitCardMintRecordKeeps
<1>3. ASSUME NEW m \in Mints, NEW d \in Duels, NEW p \in Wallets, SettleDuelHistory(d, p, m)
      PROVE  Kept
  BY <1>3, SettleDuelHistoryKeeps
<1>4. ASSUME NEW m \in Mints, NEW delta \in Deltas, UpdateCardBattleHistory(m, delta)
      PROVE  Kept
  BY <1>4, UpdateCardBattleHistoryKeeps
<1>5. ASSUME NEW m \in Mints, NEW key \in GrantKeys, NEW cosmetic \in BOOLEAN,
             GrantImprint(m, key, cosmetic)
      PROVE  Kept
  BY <1>5, GrantImprintKeeps
<1>6. ASSUME NEW m \in Mints, PromoteCard(m) PROVE Kept BY <1>6, PromoteCardKeeps
<1>7. ASSUME NEW m \in Mints, NEW p \in Wallets,
             \/ \E src \in GivenSource : RecordCardOwnerChange(m, p, src)
             \/ \E src \in StealSource : RecordSteal(m, p, src)
      PROVE  Kept
  BY <1>7, RecordKeeps
<1>8. CASE Tick BY <1>8, TickKeeps
<1> QED BY <1>1, <1>2, <1>3, <1>4, <1>5, <1>6, <1>7, <1>8 DEF Next

LEMMA InitTyped == Init => TypeOK
<1> SUFFICES ASSUME Init PROVE TypeOK
  OBVIOUS
<1>1. <<>> \in Seq(Imprint) /\ <<>> \in Seq(Wallets) /\ Len(<<>>) = 0
  BY EmptySeq
<1> QED BY <1>1, ProvenanceAssumption DEF Init, TypeOK, Rarity, Source

\* Every account field stays in its range, and the admin's wins are among the wins.
THEOREM TypesAreKept == Spec => []TypeOK
<1>1. ASSUME TypeOK, [Next]_vars PROVE TypeOK'
  <2>1. CASE Next BY <1>1, <2>1, NextKeeps DEF Kept
  <2>2. CASE UNCHANGED vars
    BY <1>1, <2>2 DEF vars, creditVars, ownerVars, TypeOK
  <2> QED BY <1>1, <2>1, <2>2
<1> QED BY <1>1, InitTyped, PTL DEF Spec

\* No step, a promotion included, takes away wins, knockouts, imprints, rarity or a
\* settlement (promote_card.rs: the card keeps its history).
THEOREM HistoryIsContinuous == Spec => HistoryOnlyGrows
<1>1. ASSUME TypeOK, TypeOK', Growth
      PROVE  settled \subseteq settled' /\ \A m \in Mints : OnlyGrows(m)
  <2> SUFFICES ASSUME NEW m \in Mints PROVE OnlyGrows(m)
    BY <1>1 DEF Growth
  <2> DEFINE s == imprints[m]
             t == imprints'[m]
  <2>1. /\ s \in Seq(Imprint) /\ t \in Seq(Imprint) /\ Len(s) \in Nat /\ Len(t) \in Nat
        /\ Len(s) <= Len(t) /\ \A i \in 1..Len(s) : t[i] = s[i]
    BY <1>1 DEF TypeOK, Growth, Extended
  <2> HIDE DEF s, t
  <2>2. \A i \in 1..Len(s) : t[i] \in Imprint BY <2>1, ElementOfSeq
  <2>3. /\ SubSeq(t, 1, Len(s)) \in Seq(Imprint)
        /\ Len(SubSeq(t, 1, Len(s))) = IF 1 <= Len(s) THEN Len(s) - 1 + 1 ELSE 0
        /\ \A i \in 1..(Len(s) - 1 + 1) : SubSeq(t, 1, Len(s))[i] = t[1 + i - 1]
    BY <2>1, <2>2, SubSeqProperties
  <2>4. /\ Len(SubSeq(t, 1, Len(s))) = Len(s)
        /\ \A i \in 1..Len(s) : SubSeq(t, 1, Len(s))[i] = s[i]
    BY <2>1, <2>3
  <2>5. SubSeq(t, 1, Len(s)) = s BY <2>1, <2>3, <2>4, SeqEqual
  <2> USE DEF s, t
  <2>6. Len(imprints'[m]) >= Len(imprints[m]) BY <2>1
  <2> QED BY <1>1, <2>5, <2>6 DEF Growth, OnlyGrows
<1>2. ASSUME TypeOK, [Next]_vars
      PROVE  [settled \subseteq settled' /\ \A m \in Mints : OnlyGrows(m)]_vars
  <2>1. CASE Next BY <1>1, <1>2, <2>1, NextKeeps DEF Kept
  <2> QED BY <1>2, <2>1
<1> QED BY <1>2, TypesAreKept, PTL DEF Spec, HistoryOnlyGrows

-----------------------------------------------------------------------------
(***************************************************************************)
(* Rarity.                                                                 *)
(***************************************************************************)

\* The steps that write a card's rarity are its registration and its promotion.
LEMMA RarityWriters ==
  ASSUME Next
  PROVE  \/ UNCHANGED <<record, minted>>
         \/ \E m \in Mints, c \in Species, r \in Rarity : InitCardMintRecord(m, c, r)
         \/ \E m \in Mints : PromoteCard(m)
BY DEF Next, FinishDuel, SettleDuelHistory, UpdateCardBattleHistory, GrantImprint,
       RecordCardOwnerChange, RecordSteal, ChangeOwner, Tick

\* What a card has earned it keeps while its rarity stays.
LEMMA EarnedStays ==
  ASSUME TypeOK, Kept, NEW m \in Mints, EarnedTiers(m),
         record'[m] = record[m], minted'[m] = minted[m]
  PROVE  EarnedTiers(m)'
<1>1. /\ wins[m] \in Nat /\ kos[m] \in Nat /\ dropped[m] \in Nat
      /\ wins'[m] \in Nat /\ kos'[m] \in Nat /\ dropped'[m] \in Nat
      /\ wins'[m] >= wins[m] /\ kos'[m] >= kos[m] /\ dropped'[m] >= dropped[m]
  BY DEF Kept, Growth, TypeOK
<1>2. \A r \in 0..2 : PromoteWins[r] \in Nat BY ProvenanceAssumption
<1>3. LegendaryKos \in Nat BY ProvenanceAssumption
<1> SUFFICES ASSUME NEW r \in 0..2, minted[m] <= r, r < record[m].rarity
             PROVE  /\ wins'[m] >= PromoteWins[r]
                    /\ r = 1 => dropped'[m] >= 1
                    /\ r = 2 => kos'[m] >= LegendaryKos
  BY DEF EarnedTiers
<1>4. /\ wins[m] >= PromoteWins[r]
      /\ r = 1 => dropped[m] >= 1
      /\ r = 2 => kos[m] >= LegendaryKos
  BY DEF EarnedTiers
<1> QED BY <1>1, <1>2, <1>3, <1>4

LEMMA RarityStep == ASSUME TypeOK, RarityEarned, Next PROVE RarityEarned'
<1>1. Kept BY NextKeeps
<1> SUFFICES ASSUME NEW m \in Mints, record'[m] # None
             PROVE  minted'[m] <= record'[m].rarity /\ EarnedTiers(m)'
  BY DEF RarityEarned, Registered
<1>2. ASSUME record'[m] = record[m], minted'[m] = minted[m]
      PROVE  minted'[m] <= record'[m].rarity /\ EarnedTiers(m)'
  BY <1>1, <1>2, EarnedStays DEF RarityEarned, Registered
<1>3. CASE UNCHANGED <<record, minted>> BY <1>2, <1>3
<1>4. ASSUME NEW k \in Mints, NEW c \in Species, NEW r \in Rarity, InitCardMintRecord(k, c, r)
      PROVE  minted'[m] <= record'[m].rarity /\ EarnedTiers(m)'
  <2>1. /\ record' = [record EXCEPT ![k] = [species |-> c, rarity |-> r]]
        /\ minted' = [minted EXCEPT ![k] = r]
    BY <1>4 DEF InitCardMintRecord
  <2>2. CASE k = m
    <3>1. record'[m].rarity = r /\ minted'[m] = r BY <2>1, <2>2 DEF TypeOK
    <3> QED BY <3>1 DEF EarnedTiers, Rarity
  <2>3. CASE k # m BY <1>2, <2>1, <2>3 DEF TypeOK
  <2> QED BY <2>2, <2>3
<1>5. ASSUME NEW k \in Mints, PromoteCard(k)
      PROVE  minted'[m] <= record'[m].rarity /\ EarnedTiers(m)'
  <2>1. /\ record' = [record EXCEPT ![k].rarity = @ + 1] /\ minted' = minted
        /\ UNCHANGED <<wins, kos, dropped>> /\ PromotionAllowed(k)
    BY <1>5 DEF PromoteCard, ownerVars
  <2>2. CASE k = m
    <3>1. /\ record[m] # None /\ record[m] \in [species : Species, rarity : Rarity]
          /\ record'[m].rarity = record[m].rarity + 1 /\ minted[m] \in Rarity
      BY <2>1, <2>2 DEF PromotionAllowed, TypeOK
    <3>2. minted[m] <= record[m].rarity /\ EarnedTiers(m)
      BY <3>1 DEF RarityEarned, Registered
    <3>3. /\ wins[m] >= PromoteWins[record[m].rarity]
          /\ record[m].rarity = 1 => dropped[m] >= 1
          /\ record[m].rarity = 2 => kos[m] >= LegendaryKos
      BY <2>1, <2>2 DEF PromotionAllowed
    <3>4. ASSUME NEW r \in 0..2, minted[m] <= r, r < record[m].rarity + 1
          PROVE  /\ wins[m] >= PromoteWins[r]
                 /\ r = 1 => dropped[m] >= 1
                 /\ r = 2 => kos[m] >= LegendaryKos
      <4>1. CASE r < record[m].rarity BY <3>2, <3>4, <4>1 DEF EarnedTiers
      <4>2. CASE ~(r < record[m].rarity)
        <5>1. r = record[m].rarity BY <3>1, <3>4, <4>2 DEF Rarity
        <5> QED BY <3>3, <5>1
      <4> QED BY <4>1, <4>2
    <3>5. EarnedTiers(m)' BY <2>1, <3>1, <3>4 DEF EarnedTiers
    <3> QED BY <2>1, <3>1, <3>2, <3>5 DEF Rarity
  <2>3. CASE k # m BY <1>2, <2>1, <2>3 DEF TypeOK
  <2> QED BY <2>2, <2>3
<1> QED BY <1>3, <1>4, <1>5, RarityWriters

\* Every tier a card rose is borne out by its history (promote_card.rs,
\* evaluate_promotion), whatever came before or after.
THEOREM TiersAreEarned == Spec => []RarityEarned
<1>1. Init => RarityEarned BY DEF Init, RarityEarned, Registered
<1>2. ASSUME TypeOK, RarityEarned, [Next]_vars PROVE RarityEarned'
  <2>1. CASE Next BY <1>2, <2>1, RarityStep
  <2>2. CASE UNCHANGED vars
    BY <1>2, <2>2 DEF vars, creditVars, ownerVars, RarityEarned, Registered, EarnedTiers
  <2> QED BY <1>2, <2>1, <2>2
<1> QED BY <1>1, <1>2, TypesAreKept, PTL DEF Spec

-----------------------------------------------------------------------------
(***************************************************************************)
(* Marks of the thresholds.                                                *)
(***************************************************************************)
MarksHeld(m) ==
  /\ wins[m] >= VeteranWins => HasOrFull(imprints[m], "Veteran")
  /\ wins[m] >= ElderWins => HasOrFull(imprints[m], "Elder")

LEMMA MarksMean == ImprintsEarned <=> \A m \in Mints : MarksHeld(m)
BY DEF ImprintsEarned, MarksHeld, HasOrFull

\* The steps that write a card's wins.
LEMMA WinsWriters ==
  ASSUME Next
  PROVE  UNCHANGED wins \/ \E m \in Mints : \E n \in Nat : AddWins(m, n)
<1>1. ASSUME NEW m \in Mints, NEW delta \in Deltas, UpdateCardBattleHistory(m, delta)
      PROVE  \E n \in Nat : AddWins(m, n)
  BY <1>1, ProvenanceAssumption DEF UpdateCardBattleHistory
<1>2. ASSUME NEW m \in Mints, NEW d \in Duels, NEW p \in Wallets, SettleDuelHistory(d, p, m)
      PROVE  \E n \in Nat : AddWins(m, n)
  <2>1. CASE duel[d].winner = p BY <1>2, <2>1 DEF SettleDuelHistory
  <2>2. CASE duel[d].winner # p BY <1>2, <2>2 DEF SettleDuelHistory
  <2> QED BY <2>1, <2>2
<1> QED
  BY <1>1, <1>2 DEF Next, FinishDuel, InitCardMintRecord, GrantImprint, PromoteCard,
                    RecordCardOwnerChange, RecordSteal, ChangeOwner, Tick

LEMMA MarksStep ==
  ASSUME TypeOK, Next, \A m \in Mints : MarksHeld(m)
  PROVE  \A m \in Mints : MarksHeld(m)'
<1> SUFFICES ASSUME NEW m \in Mints PROVE MarksHeld(m)'
  OBVIOUS
<1>1. /\ imprints[m] \in Held /\ imprints'[m] \in Held
      /\ Extended(imprints[m], imprints'[m])
  BY NextKeeps DEF Kept, Growth, TypeOK, Held
<1>2. \A key : HasOrFull(imprints[m], key) => HasOrFull(imprints'[m], key)
  BY <1>1, ExtendedKeeps
<1>3. CASE wins'[m] = wins[m] BY <1>2, <1>3 DEF MarksHeld
<1>4. CASE wins'[m] # wins[m]
  <2>1. PICK k \in Mints : \E n \in Nat : AddWins(k, n) BY <1>4, WinsWriters
  <2>2. PICK n \in Nat : AddWins(k, n) BY <2>1
  <2>3. k = m BY <1>4, <2>2, AddWinsOK
  <2>4. /\ wins[m] < VeteranWins /\ wins'[m] >= VeteranWins
             => HasOrFull(imprints'[m], "Veteran")
        /\ wins[m] < ElderWins /\ wins'[m] >= ElderWins
             => HasOrFull(imprints'[m], "Elder")
    BY <2>2, <2>3, AddWinsOK
  <2>5. wins[m] \in Nat /\ VeteranWins \in Nat /\ ElderWins \in Nat
    BY ProvenanceAssumption DEF TypeOK
  <2> QED BY <1>2, <2>4, <2>5 DEF MarksHeld
<1> QED BY <1>3, <1>4

\* No mark of a threshold is skipped, by however many wins a card grows at once
\* (update_card_battle_history.rs, apply_threshold_imprints).
THEOREM MarksAreEarned == Spec => []ImprintsEarned
<1>1. Init => ImprintsEarned
  BY ProvenanceAssumption DEF Init, ImprintsEarned
<1>2. ASSUME TypeOK, ImprintsEarned, [Next]_vars PROVE ImprintsEarned'
  <2>1. CASE Next
    <3>1. \A m \in Mints : MarksHeld(m)' BY <1>2, <2>1, MarksStep, MarksMean
    <3> QED BY <3>1 DEF ImprintsEarned, MarksHeld, HasOrFull
  <2>2. CASE UNCHANGED vars
    BY <1>2, <2>2 DEF vars, ImprintsEarned
  <2> QED BY <1>2, <2>1, <2>2
<1> QED BY <1>1, <1>2, TypesAreKept, PTL DEF Spec

-----------------------------------------------------------------------------
(***************************************************************************)
(* The ring of the latest signers.                                         *)
(***************************************************************************)
LEMMA MinOfTwo ==
  ASSUME NEW a \in Nat, NEW b \in Nat
  PROVE  Min({a, b}) = IF a <= b THEN a ELSE b
<1> DEFINE least == IF a <= b THEN a ELSE b
<1>1. least \in {a, b} /\ \A y \in {a, b} : least <= y OBVIOUS
<1>2. \A x \in {a, b} : (\A y \in {a, b} : x <= y) => x = least OBVIOUS
<1> QED BY <1>1, <1>2 DEF Min

LEMMA OwnersTyped ==
  ASSUME TypeOK, NEW m \in Mints
  PROVE  /\ ring[m] \in Seq(Wallets) /\ signers[m] \in Seq(Wallets)
         /\ Len(ring[m]) \in Nat /\ Len(signers[m]) \in Nat
         /\ RingSize \in Nat /\ RingSize # 0
<1>1. ring[m] \in Seq(Wallets) /\ signers[m] \in Seq(Wallets) BY DEF TypeOK
<1>2. RingSize \in Nat /\ RingSize # 0 BY ProvenanceAssumption
<1> QED BY <1>1, <1>2, LenProperties

\* What the ring says of a card, with the choice of Min resolved.
RingOK(m) ==
  /\ Len(ring[m]) = IF RingSize <= Len(signers[m]) THEN RingSize ELSE Len(signers[m])
  /\ \A i \in 1..Len(ring[m]) : ring[m][i] = signers[m][i]
  /\ dropped[m] = SaturatingAdd(Len(signers[m]) - Len(ring[m]), 0)

\* The beginning of a sequence, element by element.
LEMMA BeginningOf ==
  ASSUME NEW S, NEW s \in Seq(S), NEW t \in Seq(S), Len(s) <= Len(t)
  PROVE  s = SubSeq(t, 1, Len(s)) <=> \A i \in 1..Len(s) : s[i] = t[i]
<1>1. Len(s) \in Nat /\ Len(t) \in Nat OBVIOUS
<1>2. \A i \in 1..Len(s) : t[i] \in S BY <1>1, ElementOfSeq
<1>3. /\ SubSeq(t, 1, Len(s)) \in Seq(S)
      /\ Len(SubSeq(t, 1, Len(s))) = IF 1 <= Len(s) THEN Len(s) - 1 + 1 ELSE 0
      /\ \A i \in 1..(Len(s) - 1 + 1) : SubSeq(t, 1, Len(s))[i] = t[1 + i - 1]
  BY <1>1, <1>2, SubSeqProperties
<1>4. /\ Len(SubSeq(t, 1, Len(s))) = Len(s)
      /\ \A i \in 1..Len(s) : SubSeq(t, 1, Len(s))[i] = t[i]
  BY <1>1, <1>3
<1>5. (\A i \in 1..Len(s) : s[i] = t[i]) => s = SubSeq(t, 1, Len(s))
  BY <1>3, <1>4, SeqEqual
<1> QED BY <1>4, <1>5

LEMMA RingMeans == ASSUME TypeOK PROVE RingKeepsLatest <=> \A m \in Mints : RingOK(m)
<1> SUFFICES ASSUME NEW m \in Mints
             PROVE  RingOK(m) <=>
                      /\ Len(ring[m]) = Min({RingSize, Len(signers[m])})
                      /\ ring[m] = SubSeq(signers[m], 1, Len(ring[m]))
                      /\ dropped[m] = SaturatingAdd(Len(signers[m]) - Len(ring[m]), 0)
  BY DEF RingKeepsLatest
<1>1. /\ ring[m] \in Seq(Wallets) /\ signers[m] \in Seq(Wallets) /\ RingSize \in Nat
      /\ Len(ring[m]) \in Nat /\ Len(signers[m]) \in Nat
  BY OwnersTyped
<1>2. Min({RingSize, Len(signers[m])}) = IF RingSize <= Len(signers[m]) THEN RingSize
                                                                      ELSE Len(signers[m])
  BY <1>1, MinOfTwo
<1>3. Len(ring[m]) = Min({RingSize, Len(signers[m])}) =>
        (ring[m] = SubSeq(signers[m], 1, Len(ring[m])) <=>
           \A i \in 1..Len(ring[m]) : ring[m][i] = signers[m][i])
  <2>1. Len(ring[m]) = Min({RingSize, Len(signers[m])}) => Len(ring[m]) <= Len(signers[m])
    BY <1>1, <1>2
  <2> QED BY <1>1, <2>1, BeginningOf
<1> DEFINE least == Min({RingSize, Len(signers[m])})
<1> HIDE DEF least
<1>4. least = IF RingSize <= Len(signers[m]) THEN RingSize ELSE Len(signers[m])
  BY <1>2 DEF least
<1>5. Len(ring[m]) = least =>
        (ring[m] = SubSeq(signers[m], 1, Len(ring[m])) <=>
           \A i \in 1..Len(ring[m]) : ring[m][i] = signers[m][i])
  BY <1>3 DEF least
<1>6. RingOK(m) <=> /\ Len(ring[m]) = least
                    /\ ring[m] = SubSeq(signers[m], 1, Len(ring[m]))
                    /\ dropped[m] = SaturatingAdd(Len(signers[m]) - Len(ring[m]), 0)
  BY <1>4, <1>5 DEF RingOK
<1> QED BY <1>6 DEF least

\* One more entry, in front.
LEMMA Prepended ==
  ASSUME NEW S, NEW x \in S, NEW s \in Seq(S)
  PROVE  /\ <<x>> \o s \in Seq(S) /\ Len(<<x>> \o s) = Len(s) + 1
         /\ (<<x>> \o s)[1] = x
         /\ \A i \in 1..Len(s) : (<<x>> \o s)[i + 1] = s[i]
         /\ \A i \in 2..(Len(s) + 1) : (<<x>> \o s)[i] = s[i - 1]
<1>1. <<x>> \in Seq(S) /\ Len(<<x>>) = 1 /\ <<x>>[1] = x /\ Len(s) \in Nat OBVIOUS
<1>2. /\ <<x>> \o s \in Seq(S) /\ Len(<<x>> \o s) = 1 + Len(s)
      /\ \A i \in 1..(1 + Len(s)) : (<<x>> \o s)[i] = IF i <= 1 THEN <<x>>[i] ELSE s[i - 1]
  BY <1>1, ConcatProperties
<1> QED BY <1>1, <1>2

LEMMA ChangeOwnerRing ==
  ASSUME TypeOK, NEW m \in Mints, NEW old \in Wallets, NEW src,
         ChangeOwner(m, old, src), \A k \in Mints : RingOK(k)
  PROVE  \A k \in Mints : RingOK(k)'
<1> DEFINE r == ring[m]
           o == signers[m]
           L == Len(signers[m])
           R == RingSize
<1>1. /\ r \in Seq(Wallets) /\ o \in Seq(Wallets) /\ L \in Nat /\ L = Len(o)
      /\ Len(r) = IF R <= L THEN R ELSE L
      /\ \A i \in 1..Len(r) : r[i] = o[i]
      /\ dropped[m] = SaturatingAdd(L - Len(r), 0)
      /\ R \in Nat \ {0}
  <2>1. RingOK(m) OBVIOUS
  <2> QED BY <2>1, OwnersTyped DEF RingOK
<1>2. PushOwner(m, old) /\ signers' = [signers EXCEPT ![m] = <<old>> \o @] BY DEF ChangeOwner
<1>3. signers'[m] = <<old>> \o o BY <1>2 DEF TypeOK
<1>4. /\ Len(signers'[m]) = L + 1 /\ signers'[m][1] = old
      /\ \A i \in 2..(L + 1) : signers'[m][i] = o[i - 1]
  BY <1>1, <1>3, Prepended
<1>5. RingOK(m)'
  <2>1. CASE Len(r) < R
    <3>1. ring'[m] = <<old>> \o r /\ dropped'[m] = dropped[m]
      BY <1>2, <2>1 DEF PushOwner, TypeOK
    <3>2. Len(r) = L /\ L < R BY <1>1, <2>1
    <3>3. /\ Len(ring'[m]) = L + 1 /\ ring'[m][1] = old
          /\ \A i \in 2..(L + 1) : ring'[m][i] = r[i - 1]
      BY <1>1, <3>1, <3>2, Prepended
    <3> HIDE DEF r, o, L, R
    <3>4. \A i \in 1..(L + 1) : ring'[m][i] = signers'[m][i]
      BY <1>1, <1>4, <3>2, <3>3
    <3>5. SaturatingAdd(L + 1 - (L + 1), 0) = SaturatingAdd(L - Len(r), 0)
      BY <1>1, <3>2 DEF SaturatingAdd
    <3> USE DEF R
    <3>6. L + 1 = IF RingSize <= L + 1 THEN RingSize ELSE L + 1 BY <1>1, <3>2
    <3>7. dropped'[m] = SaturatingAdd(Len(signers'[m]) - Len(ring'[m]), 0)
      <4>1. dropped'[m] = SaturatingAdd(L - Len(r), 0) BY <1>1, <3>1
      <4>2. Len(signers'[m]) - Len(ring'[m]) = L + 1 - (L + 1) BY <1>1, <1>4, <3>3
      <4> QED BY <3>5, <4>1, <4>2
    <3> QED BY <1>4, <3>3, <3>4, <3>6, <3>7 DEF RingOK
  <2>2. CASE ~(Len(r) < R)
    <3>1. /\ ring'[m] = <<old>> \o SubSeq(r, 1, R - 1)
          /\ dropped'[m] = SaturatingAdd(dropped[m], 1)
      BY <1>2, <2>2 DEF PushOwner, TypeOK
    <3>2. Len(r) = R /\ R <= L BY <1>1, <2>2
    <3>3. /\ SubSeq(r, 1, R - 1) \in Seq(Wallets)
          /\ Len(SubSeq(r, 1, R - 1)) = R - 1
          /\ \A i \in 1..(R - 1) : SubSeq(r, 1, R - 1)[i] = r[i]
      <4>1. \A i \in 1..(R - 1) : r[i] \in Wallets BY <1>1, <3>2, ElementOfSeq
      <4>2. /\ SubSeq(r, 1, R - 1) \in Seq(Wallets)
            /\ Len(SubSeq(r, 1, R - 1)) = IF 1 <= R - 1 THEN R - 1 - 1 + 1 ELSE 0
            /\ \A i \in 1..(R - 1 - 1 + 1) : SubSeq(r, 1, R - 1)[i] = r[1 + i - 1]
        BY <1>1, <4>1, SubSeqProperties
      <4> QED BY <1>1, <4>2
    <3>4. /\ Len(ring'[m]) = R /\ ring'[m][1] = old
          /\ \A i \in 2..R : ring'[m][i] = SubSeq(r, 1, R - 1)[i - 1]
      BY <1>1, <3>1, <3>3, Prepended
    <3> HIDE DEF r, o, L, R
    <3>5. \A i \in 2..R : ring'[m][i] = signers'[m][i]
      <4> SUFFICES ASSUME NEW i \in 2..R PROVE ring'[m][i] = signers'[m][i]
        OBVIOUS
      <4>1. i - 1 \in 1..(R - 1) /\ i - 1 \in 1..Len(r) /\ i \in 2..(L + 1)
        BY <1>1, <3>2
      <4> QED BY <1>1, <1>4, <3>3, <3>4, <4>1
    <3>6. \A i \in 1..R : ring'[m][i] = signers'[m][i] BY <1>1, <1>4, <3>4, <3>5
    <3>7. SaturatingAdd(L + 1 - R, 0) = SaturatingAdd(SaturatingAdd(L - R, 0), 1)
      BY <1>1, <3>2, ProvenanceAssumption DEF SaturatingAdd
    <3>9. dropped'[m] = SaturatingAdd(Len(signers'[m]) - Len(ring'[m]), 0)
      <4>1. Len(signers'[m]) - Len(ring'[m]) = L + 1 - R BY <1>1, <1>4, <3>4
      <4>2. dropped[m] = SaturatingAdd(L - R, 0) BY <1>1, <3>2
      <4>3. dropped'[m] = SaturatingAdd(dropped[m], 1) BY <3>1
      <4> QED BY <3>7, <4>1, <4>2, <4>3
    <3> USE DEF R
    <3>8. R = IF RingSize <= L + 1 THEN RingSize ELSE L + 1 BY <1>1, <3>2
    <3>10. /\ Len(ring'[m]) = IF RingSize <= Len(signers'[m]) THEN RingSize ELSE Len(signers'[m])
           /\ \A i \in 1..Len(ring'[m]) : ring'[m][i] = signers'[m][i]
      BY <1>4, <3>4, <3>6, <3>8
    <3> QED BY <3>9, <3>10 DEF RingOK
  <2> QED BY <2>1, <2>2
<1>6. ASSUME NEW k \in Mints, k # m PROVE RingOK(k)'
  <2>1. ring'[k] = ring[k] /\ signers'[k] = signers[k] /\ dropped'[k] = dropped[k]
    BY <1>2, <1>6 DEF PushOwner, TypeOK
  <2> QED BY <2>1 DEF RingOK
<1> QED BY <1>5, <1>6

\* The ring holds the latest signers, newest first, and the others are counted
\* (state.rs, push_owner_to_ring).
THEOREM LatestOwnersAreKept == Spec => []RingKeepsLatest
<1>1. Init => \A m \in Mints : RingOK(m)
  <2> SUFFICES ASSUME Init, NEW m \in Mints PROVE RingOK(m)
    OBVIOUS
  <2>1. ring[m] = <<>> /\ signers[m] = <<>> /\ dropped[m] = 0 BY DEF Init
  <2>2. Len(<<>>) = 0 OBVIOUS
  <2> QED BY <2>1, <2>2, ProvenanceAssumption DEF RingOK, SaturatingAdd
<1>2. ASSUME TypeOK, \A m \in Mints : RingOK(m), [Next]_vars
      PROVE  \A m \in Mints : RingOK(m)'
  <2>1. CASE UNCHANGED <<ring, dropped, signers>> BY <1>2, <2>1 DEF RingOK
  <2>2. ASSUME NEW m \in Mints, NEW p \in Wallets, NEW src, ChangeOwner(m, p, src)
        PROVE  \A k \in Mints : RingOK(k)'
    BY <1>2, <2>2, ChangeOwnerRing
  <2> QED
    BY <1>2, <2>1, <2>2
    DEF Next, FinishDuel, InitCardMintRecord, SettleDuelHistory, UpdateCardBattleHistory,
        GrantImprint, PromoteCard, RecordCardOwnerChange, RecordSteal, Tick, ownerVars, vars
<1> DEFINE All == \A m \in Mints : RingOK(m)
<1>3. ASSUME TypeOK, All, [Next]_vars PROVE All' BY <1>2, <1>3
<1>4. TypeOK /\ All => RingKeepsLatest BY RingMeans
<1> HIDE DEF All
<1>5. Init => All BY <1>1 DEF All
<1> QED BY <1>3, <1>4, <1>5, TypesAreKept, PTL DEF Spec

-----------------------------------------------------------------------------
(***************************************************************************)
(* Credit.                                                                 *)
(***************************************************************************)

\* What a card was given is settled, for the winner and the card's species; it is
\* finite, and worth the wins the card has.
Credit(m) ==
  /\ IsFiniteSet(credited[m])
  /\ wins[m] - granted[m] <= Cardinality(credited[m])
  /\ \A d \in credited[m] :
       /\ record[m] # None /\ WonWith(d, record[m].species)
       /\ <<d, duel[d].winner, record[m].species>> \in settled

\* No two copies of a species have the same win.
CreditOnce ==
  \A m, n \in Registered :
    m # n /\ record[n].species = record[m].species => credited[n] \cap credited[m] = {}

CreditInv == CreditOnce /\ \A m \in Mints : Credit(m)

\* Duels that are over stay as they are, and cards keep their species.
LEMMA CreditStands ==
  ASSUME TypeOK, Next, CreditInv
  PROVE  \A m \in Mints : \A d \in credited[m] :
           /\ duel'[d] = duel[d] /\ record'[m] # None
           /\ record'[m].species = record[m].species
           /\ WonWith(d, record[m].species)'
           /\ <<d, duel'[d].winner, record'[m].species>> \in settled'
<1> SUFFICES ASSUME NEW m \in Mints, NEW d \in credited[m]
             PROVE  /\ duel'[d] = duel[d] /\ record'[m] # None
                    /\ record'[m].species = record[m].species
                    /\ WonWith(d, record[m].species)'
                    /\ <<d, duel'[d].winner, record'[m].species>> \in settled'
  OBVIOUS
<1>1. /\ record[m] # None /\ WonWith(d, record[m].species)
      /\ <<d, duel[d].winner, record[m].species>> \in settled /\ duel[d] # None
  BY DEF CreditInv, Credit, WonWith
<1>2. duel'[d] = duel[d]
  BY <1>1 DEF Next, FinishDuel, InitCardMintRecord, SettleDuelHistory, UpdateCardBattleHistory,
              GrantImprint, PromoteCard, RecordCardOwnerChange, RecordSteal, ChangeOwner, Tick,
              creditVars, TypeOK
<1>3. /\ record'[m] # None /\ record'[m].species = record[m].species
      /\ settled \subseteq settled'
  BY <1>1, NextKeeps DEF Kept, Growth
<1> QED BY <1>1, <1>2, <1>3 DEF WonWith

\* Steps that give no card a duel, and let no card's own wins grow.
LEMMA NoCredit ==
  ASSUME TypeOK, Next, CreditInv, credited' = credited,
         \A m \in Mints : wins'[m] - granted'[m] = wins[m] - granted[m],
         \A m \in Mints : record[m] = None => record'[m] = None \/ credited[m] = {}
  PROVE  CreditInv'
<1>1. ASSUME NEW m \in Mints PROVE Credit(m)'
  BY CreditStands DEF CreditInv, Credit
<1>2. CreditOnce'
  <2> SUFFICES ASSUME NEW m \in Mints, NEW n \in Mints, m # n,
                      record'[n].species = record'[m].species
               PROVE  credited[n] \cap credited[m] = {}
    BY DEF CreditOnce, Registered
  <2> SUFFICES ASSUME NEW d \in credited[n], d \in credited[m] PROVE FALSE
    OBVIOUS
  <2>1. record[n] # None /\ record[m] # None /\ record[n].species = record[m].species
    BY CreditStands DEF CreditInv, Credit
  <2> QED BY <2>1 DEF CreditInv, CreditOnce, Registered
<1> QED BY <1>1, <1>2 DEF CreditInv

\* A card gets the win of a duel: no copy has it, for it was not settled.
LEMMA WinCredited ==
  ASSUME TypeOK, Next, CreditInv, NEW d \in Duels, NEW p \in Wallets, NEW m \in Mints,
         SettleDuelHistory(d, p, m), duel[d].winner = p
  PROVE  CreditInv'
<1> DEFINE c == record[m].species
<1>1. /\ duel[d] # None /\ record[m] # None /\ <<d, p, c>> \notin settled
      /\ settled' = settled \cup {<<d, p, c>>}
      /\ \E s \in Sides : duel[d].seat[s] = p /\ c \in duel[d].fielded[s]
      /\ credited' = [credited EXCEPT ![m] = @ \cup {d}]
      /\ UNCHANGED <<duel, record, granted>> /\ AddWins(m, 1)
  <2>1. duel[d] \in [seat : Wallets \X Wallets, fielded : [Sides -> SUBSET Species],
                     winner : Wallets \cup {None}]
    BY DEF SettleDuelHistory, SettleAllowed, TypeOK
  <2>2. duel[d].seat[SideOf(d, p)] = p /\ SideOf(d, p) \in Sides
    BY <2>1 DEF SettleDuelHistory, SettleAllowed, SideOf, Sides
  <2>3. c \in duel[d].fielded[SideOf(d, p)] BY DEF SettleDuelHistory, SettleAllowed
  <2> QED BY <2>2, <2>3 DEF SettleDuelHistory, SettleAllowed
<1>2. \A n \in Mints : credited'[n] = IF n = m THEN credited[m] \cup {d} ELSE credited[n]
  BY <1>1 DEF TypeOK
<1>3. ASSUME NEW n \in Mints, record[n].species = c PROVE d \notin credited[n]
  BY <1>1, <1>3 DEF CreditInv, Credit
<1>4. wins'[m] <= wins[m] + 1 /\ \A n \in Mints : n # m => wins'[n] = wins[n]
  <2>1. wins'[m] = SaturatingAdd(wins[m], 1) BY <1>1 DEF AddWins, TypeOK
  <2>2. SaturatingAdd(wins[m], 1) <= wins[m] + 1
    BY Typed, ProvenanceAssumption DEF SaturatingAdd
  <2> QED BY <1>1, <2>1, <2>2 DEF AddWins, TypeOK
<1>5. WonWith(d, c)' /\ <<d, duel'[d].winner, c>> \in settled'
  BY <1>1 DEF WonWith
<1>6. ASSUME NEW n \in Mints PROVE Credit(n)'
  <2>1. CASE n # m
    BY <1>1, <1>2, <1>4, <2>1, CreditStands DEF CreditInv, Credit
  <2>2. CASE n = m
    <3>1. IsFiniteSet(credited[m]) /\ wins[m] - granted[m] <= Cardinality(credited[m])
      BY DEF CreditInv, Credit
    <3>2. /\ IsFiniteSet(credited'[m])
          /\ Cardinality(credited'[m]) = Cardinality(credited[m]) + 1
          /\ Cardinality(credited[m]) \in Nat
      BY <1>2, <1>3, <3>1, FS_AddElement, FS_CardinalityType
    <3>3. /\ wins[m] \in Int /\ wins'[m] \in Int /\ granted[m] \in Int
          /\ granted'[m] = granted[m]
      BY <1>1, NextKeeps, CountsTyped, CountsTypedNext DEF Kept
    <3>4. wins'[m] - granted'[m] <= Cardinality(credited'[m])
      BY <1>4, <3>1, <3>2, <3>3
    <3>5. \A e \in credited'[m] :
            /\ record'[m] # None /\ WonWith(e, record[m].species)'
            /\ <<e, duel'[e].winner, record'[m].species>> \in settled'
      BY <1>1, <1>2, <1>5, CreditStands
    <3> QED BY <1>1, <2>2, <3>2, <3>4, <3>5 DEF Credit
  <2> QED BY <2>1, <2>2
<1>7. CreditOnce'
  <2> SUFFICES ASSUME NEW k \in Registered, NEW n \in Registered, k # n,
                      record[n].species = record[k].species
               PROVE  credited'[n] \cap credited'[k] = {}
    BY <1>1 DEF CreditOnce, Registered
  <2>1. credited[n] \cap credited[k] = {} BY DEF CreditInv, CreditOnce
  <2> QED BY <1>2, <1>3, <2>1 DEF Registered
<1> QED BY <1>6, <1>7 DEF CreditInv

\* A settlement by the one who did not win gives nothing.
LEMMA NothingCredited ==
  ASSUME TypeOK, Next, CreditInv, NEW d \in Duels, NEW p \in Wallets, NEW m \in Mints,
         SettleDuelHistory(d, p, m), duel[d].winner # p
  PROVE  CreditInv'
<1>1. AddWins(m, 0) /\ UNCHANGED <<record, granted, credited>>
  BY DEF SettleDuelHistory
<1>2. SaturatingAdd(wins[m], 0) = wins[m]
  BY Typed, ProvenanceAssumption DEF SaturatingAdd
<1>3. \A n \in Mints : wins'[n] = wins[n] BY <1>1, <1>2 DEF AddWins, TypeOK
<1> QED BY <1>1, <1>3, NoCredit

\* The admin's wins are counted apart.
LEMMA AdminCredits ==
  ASSUME TypeOK, Next, CreditInv, NEW m \in Mints, NEW delta \in Deltas,
         UpdateCardBattleHistory(m, delta)
  PROVE  CreditInv'
<1>1. /\ AddWins(m, delta.wins) /\ UNCHANGED <<record, credited>>
      /\ granted' = [granted EXCEPT ![m] = @ + (wins'[m] - wins[m])]
  BY DEF UpdateCardBattleHistory, creditVars
<1>2. \A n \in Mints : wins[n] \in Int /\ wins'[n] \in Int /\ granted[n] \in Int
  BY NextKeeps, CountsTyped, CountsTypedNext DEF Kept
<1>3. \A n \in Mints : n # m => wins'[n] = wins[n] /\ granted'[n] = granted[n]
  BY <1>1 DEF AddWins, TypeOK
<1>4. granted'[m] = granted[m] + (wins'[m] - wins[m]) BY <1>1 DEF TypeOK
<1>5. ASSUME NEW n \in Mints PROVE wins'[n] - granted'[n] = wins[n] - granted[n]
  <2>1. CASE n = m BY <1>2, <1>4, <2>1
  <2>2. CASE n # m BY <1>3, <2>2
  <2> QED BY <2>1, <2>2
<1> QED BY <1>1, <1>5, NoCredit

\* "Forged history is impossible": every win of a card is the win of a duel that
\* its species was fielded in, and no two copies share one (settle_duel_history.rs).
THEOREM WinsAreEngravedOnce == Spec => []EachWinEngravedOnce
<1>1. Init => CreditInv
  <2> SUFFICES ASSUME Init PROVE CreditInv
    OBVIOUS
  <2>1. \A m \in Mints : credited[m] = {} /\ wins[m] = 0 /\ granted[m] = 0 BY DEF Init
  <2>2. IsFiniteSet({}) /\ Cardinality({}) = 0 BY FS_EmptySet
  <2> QED BY <2>1, <2>2 DEF CreditInv, CreditOnce, Credit, Registered
<1>2. ASSUME TypeOK, CreditInv, [Next]_vars PROVE CreditInv'
  <2>1. CASE UNCHANGED vars
    BY <1>2, <2>1 DEF vars, creditVars, CreditInv, CreditOnce, Credit, Registered, WonWith
  <2>2. CASE Next
    <3>1. ASSUME NEW m \in Mints, NEW d \in Duels, NEW p \in Wallets, SettleDuelHistory(d, p, m)
          PROVE  CreditInv'
      BY <1>2, <2>2, <3>1, WinCredited, NothingCredited
    <3>2. ASSUME NEW m \in Mints, NEW delta \in Deltas, UpdateCardBattleHistory(m, delta)
          PROVE  CreditInv'
      BY <1>2, <2>2, <3>2, AdminCredits
    <3>3. CASE UNCHANGED <<wins, granted, credited>>
      BY <1>2, <2>2, <3>3, NoCredit DEF CreditInv, Credit
    <3> QED
      BY <2>2, <3>1, <3>2, <3>3
      DEF Next, FinishDuel, InitCardMintRecord, GrantImprint, PromoteCard,
          RecordCardOwnerChange, RecordSteal, ChangeOwner, Tick, creditVars
  <2> QED BY <1>2, <2>1, <2>2
<1>3. CreditInv => EachWinEngravedOnce
  BY DEF CreditInv, CreditOnce, Credit, EachWinEngravedOnce, Registered
<1> QED BY <1>1, <1>2, <1>3, TypesAreKept, PTL DEF Spec
=============================================================================

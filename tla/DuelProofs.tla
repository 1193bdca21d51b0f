----------------------------- MODULE DuelProofs -----------------------------
(***************************************************************************)
(* Machine-checked proofs about Duel, for every set of wallets, duels,     *)
(* plays and species, every battle function, and every number of rounds,   *)
(* wins, energy and timeout the assumptions of Duel allow.                 *)
(***************************************************************************)
EXTENDS Duel, FiniteSetTheorems, TLAPS

\* Spending after regeneration keeps an account between empty and full.
LEMMA SpendStaysInRange ==
  ASSUME NEW e \in 0..EnergyMax, NEW age \in Nat,
         CanSpend(e, 0, age, EnergyCost)
  PROVE  SettleAndSpend(e, 0, age, EnergyCost).energy \in 0..EnergyMax
<1> DEFINE gained == (age - 0) \div RegenInterval
           acct == RegeneratedEnergy(e, 0, age)
<1>1. gained \in Nat
  BY EnergyAssumption
<1>2. acct.energy \in 0..EnergyMax
  BY <1>1, EnergyAssumption DEF RegeneratedEnergy
<1>3. acct.energy >= EnergyCost
  BY DEF CanSpend
<1>4. QED
  BY <1>2, <1>3, DuelAssumption, EnergyAssumption DEF SettleAndSpend

\* Sides are two, and each is the other's other.
LEMMA Sides ==
  /\ \A s \in Side : Other(s) \in Side /\ Other(s) # s
  /\ \A d, p : SideOf(d, p) \in Side
BY DEF Side, Other, SideOf

\* Rounds are integers, hence comparable.
LEMMA RoundsAreOrdered ==
  \A i, j \in Rounds :
    /\ i \in Int
    /\ i < j \/ i = j \/ i > j
    /\ i < j + 1 => i < j \/ i = j
    /\ i > j + 1 => i > j
BY DuelAssumption DEF Rounds

THEOREM InitIInv == Init => IInv
<1> SUFFICES ASSUME Init PROVE IInv
  OBVIOUS
<1> USE DEF Init, Side, Rounds, Blank
<1>1. TypeOK
  <2>1. FullRegen \in Nat
    BY EnergyAssumption DEF FullRegen
  <2>2. 1 \in Rounds
    BY DuelAssumption
  <2>3. QED
    BY <2>1, <2>2, DuelAssumption, EnergyAssumption DEF TypeOK, Slots
<1>2. ASSUME NEW d \in DuelIds PROVE DuelInv(d)
  <2>1. Seated(d)
    BY DEF Seated, Exists
  <2>2. InOrder(d)
    BY DuelAssumption DEF InOrder, BothRevealed
  <2>3. Undecided(d)
    BY DuelAssumption DEF Undecided, BothRevealed
  <2>4. Justified(d)
    BY DEF Justified
  <2>5. QED
    BY <2>1, <2>2, <2>3, <2>4 DEF DuelInv
<1>3. QED
  BY <1>1, <1>2 DEF IInv

\* The invariant of a duel depends on that duel's account alone.
LEMMA OtherDuelsKeepInv ==
  ASSUME NEW d \in DuelIds, DuelInv(d),
         seat'[d] = seat[d], round'[d] = round[d], ended'[d] = ended[d],
         winner'[d] = winner[d], commitment'[d] = commitment[d],
         revealed'[d] = revealed[d], wins'[d] = wins[d]
  PROVE  DuelInv(d)'
BY DEF DuelInv, Seated, Exists, InOrder, Undecided, Justified, BothRevealed,
       OpponentOwes

LEMMA InitDuelKeepsInv ==
  ASSUME IInv, NEW d \in DuelIds, NEW p \in Players, NEW q \in Players,
         InitDuel(d, p, q)
  PROVE  IInv'
<1> USE DEF InitDuel, duelVars, playerVars, lootVars
<1>1. TypeOK'
  BY DuelAssumption DEF IInv, TypeOK, Side
<1>2. ASSUME NEW e \in DuelIds, e # d PROVE DuelInv(e)'
  BY <1>2, OtherDuelsKeepInv DEF IInv, TypeOK
<1>3. DuelInv(d)'
  <2>1. /\ seat'[d] = [s \in Side |-> IF s = 1 THEN p ELSE q]
        /\ ~ended[d] /\ round[d] = 1
        /\ commitment[d] = Blank /\ revealed[d] = Blank
        /\ wins[d] = [s \in Side |-> 0]
    BY DEF IInv, TypeOK, DuelInv, Seated
  <2>2. Seated(d)'
    BY <2>1, DuelAssumption DEF Seated, Exists, Side, Blank
  <2>3. InOrder(d)'
    BY <2>1, DuelAssumption DEF InOrder, BothRevealed, Blank, Side, Rounds
  <2>4. Undecided(d)' /\ Justified(d)'
    BY <2>1, DuelAssumption DEF Undecided, Justified, BothRevealed, Blank, Side, Rounds
  <2>5. QED
    BY <2>2, <2>3, <2>4 DEF DuelInv
<1>4. QED
  BY <1>1, <1>2, <1>3 DEF IInv

LEMMA CommitHandKeepsInv ==
  ASSUME IInv, NEW d \in DuelIds, NEW p \in Players, NEW r \in Rounds,
         NEW h \in Plays, CommitHand(d, p, r, h)
  PROVE  IInv'
<1> DEFINE s == SideOf(d, p)
<1>0. s \in Side /\ Other(s) \in Side /\ Other(s) # s
  BY Sides
<1>1. TypeOK'
  <2>1. commitment' \in Slots(Commitments \cup {None})
    BY <1>0, DuelAssumption DEF IInv, TypeOK, Slots, CommitHand
  <2>2. ASSUME r = 1
        PROVE  /\ energy' \in [Players -> 0..EnergyMax]
               /\ regenAge' \in [Players -> 0..FullRegen]
               /\ charged' \in [Players -> Nat]
    <3>1. /\ CanSpend(energy[p], 0, regenAge[p], EnergyCost)
          /\ energy' = [energy EXCEPT ![p] =
               SettleAndSpend(energy[p], 0, regenAge[p], EnergyCost).energy]
          /\ regenAge' = [regenAge EXCEPT ![p] = 0]
          /\ charged' = [charged EXCEPT ![p] = @ + 1]
      BY <2>2 DEF CommitHand, CommitAllowed, PaysEntry
    <3>2. FullRegen \in Nat
      BY EnergyAssumption DEF FullRegen
    <3>3. energy' \in [Players -> 0..EnergyMax]
      BY <3>1, <3>2, SpendStaysInRange DEF IInv, TypeOK
    <3>4. QED
      BY <3>1, <3>2, <3>3 DEF IInv, TypeOK
  <2>3. ASSUME r # 1
        PROVE  /\ energy' \in [Players -> 0..EnergyMax]
               /\ regenAge' \in [Players -> 0..FullRegen]
               /\ charged' \in [Players -> Nat]
    BY <2>3 DEF IInv, TypeOK, CommitHand, PaysEntry, playerVars
  <2>4. idle' \in [DuelIds -> 0..StallTimeout]
    BY DuelAssumption DEF IInv, TypeOK, CommitHand
  <2>5. QED
    BY <2>1, <2>2, <2>3, <2>4 DEF IInv, TypeOK, CommitHand, lootVars
<1>2. ASSUME NEW e \in DuelIds, e # d PROVE DuelInv(e)'
  BY <1>2, OtherDuelsKeepInv DEF IInv, TypeOK, CommitHand
<1>3. DuelInv(d)'
  <2>1. /\ DuelInv(d) /\ Exists(d) /\ ~ended[d] /\ round[d] = r
        /\ commitment[d][s][r] = None
        /\ commitment'[d] = [commitment[d] EXCEPT ![s][r] = Seal[h]]
        /\ UNCHANGED <<seat, round, ended, winner, revealed, wins>>
    <3>1. DuelInv(d)
      BY DEF IInv
    <3>2. commitment'[d] = [commitment[d] EXCEPT ![s][r] = Seal[h]]
      BY DEF IInv, TypeOK, Slots, CommitHand
    <3>3. QED
      BY <3>1, <3>2 DEF CommitHand, CommitAllowed, Participant
  <2>2. revealed[d][s][r] = None
    <3>1. revealed[d][s][r] \in Plays \cup {None}
      BY <1>0 DEF IInv, TypeOK, Slots
    <3>2. QED
      BY <1>0, <2>1, <3>1, DuelAssumption DEF DuelInv, InOrder
  <2>3. Seated(d)'
    <3>1. seat[d][2] # None /\ Exists(d)'
      BY <2>1 DEF DuelInv, Seated, Exists
    <3>2. ASSUME seat[d][1] = seat[d][2], NEW t \in Rounds
          PROVE  commitment'[d][2][t] = None
      <4>1. s = 1
        BY <3>2 DEF CommitHand, CommitAllowed, Participant, SideOf, Side
      <4>2. commitment[d][2][t] = None
        BY <2>1, <3>2 DEF DuelInv, Seated
      <4>3. QED
        BY <2>1, <4>1, <4>2 DEF IInv, TypeOK, Slots, Side
    <3>3. QED
      BY <2>1, <3>1, <3>2 DEF Seated, Exists
  <2>4. InOrder(d)'
    <3> SUFFICES ASSUME NEW t \in Rounds
                 PROVE  /\ t < round[d] => BothRevealed(d, t)
                        /\ t > round[d] =>
                             \A z \in Side : commitment'[d][z][t] = None
                        /\ \A z \in Side :
                             revealed[d][z][t] # None =>
                               Seal[revealed[d][z][t]] = commitment'[d][z][t]
      BY <2>1 DEF InOrder, BothRevealed
    <3>1. ~(r > r)
      BY DEF Rounds
    <3>2. QED
      BY <1>0, <2>1, <2>2, <3>1 DEF DuelInv, InOrder, IInv, TypeOK, Slots
  <2>5. Undecided(d)' /\ Justified(d)'
    BY <2>1 DEF DuelInv, Undecided, Justified, BothRevealed
  <2>6. QED
    BY <2>3, <2>4, <2>5 DEF DuelInv
<1>4. QED
  BY <1>1, <1>2, <1>3 DEF IInv

\* A round has at most one scorer.
LEMMA OneScorer ==
  ASSUME NEW bp \in Nat \X Nat
  PROVE  RoundPoint(bp) \in {{}, {1}, {2}}
BY DEF RoundPoint

\* duel_outcome, for tallies neither of which was a majority before a round
\* with at most one scorer: play goes on exactly when there is still no
\* majority and a round left, and otherwise the verdict names the side ahead.
LEMMA OutcomeIsSideAhead ==
  ASSUME NEW v \in [Side -> 0..RoundsToWin], \A z \in Side : v[z] < RoundsToWin,
         NEW X \in {{}, {1}, {2}}, NEW r \in Rounds,
         NEW w, w = [z \in Side |-> IF z \in X THEN v[z] + 1 ELSE v[z]]
  PROVE  /\ w \in [Side -> 0..RoundsToWin]
         /\ DuelOutcome(w, r) = "continue" =>
              r < RoundLimit /\ \A z \in Side : w[z] < RoundsToWin
         /\ DuelOutcome(w, r) # "continue" =>
              /\ (\E z \in Side : w[z] = RoundsToWin) \/ r = RoundLimit
              /\ DuelOutcome(w, r) = "p1" <=> w[1] > w[2]
              /\ DuelOutcome(w, r) = "p2" <=> w[2] > w[1]
<1> USE DuelAssumption DEF Side, Rounds
<1>1. /\ v[1] \in 0..RoundsToWin /\ v[2] \in 0..RoundsToWin
      /\ v[1] < RoundsToWin /\ v[2] < RoundsToWin
  OBVIOUS
<1>2. /\ w[1] = IF 1 \in X THEN v[1] + 1 ELSE v[1]
      /\ w[2] = IF 2 \in X THEN v[2] + 1 ELSE v[2]
  OBVIOUS
<1>3. /\ w[1] \in 0..RoundsToWin /\ w[2] \in 0..RoundsToWin
      /\ ~(w[1] = RoundsToWin /\ w[2] = RoundsToWin)
  BY <1>1, <1>2
<1>4. w \in [Side -> 0..RoundsToWin]
  BY <1>3
<1>5. DuelOutcome(w, r) = "continue" =>
        r < RoundLimit /\ \A z \in Side : w[z] < RoundsToWin
  BY <1>3 DEF DuelOutcome
<1>6. DuelOutcome(w, r) # "continue" =>
        /\ (\E z \in Side : w[z] = RoundsToWin) \/ r = RoundLimit
        /\ DuelOutcome(w, r) = "p1" <=> w[1] > w[2]
        /\ DuelOutcome(w, r) = "p2" <=> w[2] > w[1]
  <2>1. CASE w[1] >= RoundsToWin \/ w[2] >= RoundsToWin
    <3>1. DuelOutcome(w, r) = IF w[1] > w[2] THEN "p1" ELSE "p2"
      BY <2>1 DEF DuelOutcome
    <3>2. w[1] > w[2] \/ w[2] > w[1]
      BY <1>3, <2>1
    <3>3. \E z \in Side : w[z] = RoundsToWin
      BY <1>3, <2>1
    <3>4. QED
      BY <1>3, <3>1, <3>2, <3>3
  <2>2. CASE ~(w[1] >= RoundsToWin \/ w[2] >= RoundsToWin) /\ r < RoundLimit
    BY <2>2 DEF DuelOutcome
  <2>3. CASE ~(w[1] >= RoundsToWin \/ w[2] >= RoundsToWin) /\ ~(r < RoundLimit)
    <3>1. DuelOutcome(w, r) = IF w[1] > w[2] THEN "p1"
                              ELSE IF w[2] > w[1] THEN "p2" ELSE "draw"
      BY <2>3 DEF DuelOutcome
    <3>2. r = RoundLimit
      BY <2>3
    <3>3. QED
      BY <1>3, <3>1, <3>2
  <2>4. QED
    BY <2>1, <2>2, <2>3
<1>7. QED
  BY <1>4, <1>5, <1>6

\* What a reveal does to the account it reveals in.
LEMMA RevealEffect ==
  ASSUME IInv, NEW d \in DuelIds, NEW p \in Players, NEW r \in Rounds,
         NEW h \in Plays, RevealHand(d, p, r, h), NEW s \in Side, s = SideOf(d, p)
  PROVE  /\ DuelInv(d) /\ Exists(d) /\ ~ended[d]
         /\ round[d] = r
         /\ UNCHANGED <<seat, commitment>>
         /\ revealed' = [revealed EXCEPT ![d] = [revealed[d] EXCEPT ![s][r] = h]]
         /\ revealed'[d] = [revealed[d] EXCEPT ![s][r] = h]
         /\ revealed' \in Slots(Plays \cup {None})
<1>1. DuelInv(d) /\ Exists(d) /\ ~ended[d]
  BY DEF IInv, RevealHand, RevealAllowed, Participant
<1>2. /\ commitment[d][s][r] = Seal[h] /\ Seal[h] # None
      /\ revealed[d][s][r] = None
      /\ UNCHANGED <<seat, commitment>>
      /\ revealed' = [revealed EXCEPT ![d] = [revealed[d] EXCEPT ![s][r] = h]]
  BY DEF RevealHand, RevealAllowed
<1>3. round[d] = r
  <2>1. ~(r < round[d])
    BY <1>1, <1>2 DEF DuelInv, InOrder, BothRevealed
  <2>2. ~(r > round[d])
    BY <1>1, <1>2 DEF DuelInv, InOrder
  <2>3. round[d] \in Rounds
    BY DEF IInv, TypeOK
  <2>4. QED
    BY <2>1, <2>2, <2>3, RoundsAreOrdered
<1>4. revealed'[d] = [revealed[d] EXCEPT ![s][r] = h]
  BY <1>2 DEF IInv, TypeOK, Slots
<1>5. revealed' \in Slots(Plays \cup {None})
  BY <1>1, <1>2 DEF IInv, TypeOK, Slots
<1>6. QED
  BY <1>1, <1>2, <1>3, <1>4, <1>5

\* A first reveal of the round: nothing is resolved.
LEMMA FirstRevealKeepsInv ==
  ASSUME IInv, NEW d \in DuelIds, NEW p \in Players, NEW r \in Rounds,
         NEW h \in Plays, RevealHand(d, p, r, h), ~BothRevealed(d, r)'
  PROVE  IInv'
<1> DEFINE s == SideOf(d, p)
           rev == [revealed[d] EXCEPT ![s][r] = h]
<1>0. s \in Side
  BY Sides
<1>1. /\ DuelInv(d) /\ Exists(d) /\ ~ended[d]
      /\ round[d] = r
      /\ UNCHANGED <<seat, commitment>>
      /\ revealed' = [revealed EXCEPT ![d] = rev]
      /\ revealed'[d] = rev
      /\ revealed' \in Slots(Plays \cup {None})
  BY <1>0, RevealEffect
<1>2. ~(rev[1][r] # None /\ rev[2][r] # None)
  BY <1>1 DEF BothRevealed, Side
<1>3. UNCHANGED <<round, ended, winner, wins, energy, regenAge, charged,
                  vault, looted, window>>
  BY <1>2 DEF RevealHand, playerVars, lootVars
<1>4. idle' \in [DuelIds -> 0..StallTimeout]
  BY DuelAssumption DEF RevealHand, IInv, TypeOK
<1>5. TypeOK'
  BY <1>1, <1>3, <1>4 DEF IInv, TypeOK, Slots
<1>6. ASSUME NEW e \in DuelIds, e # d PROVE DuelInv(e)'
  <2>1. revealed'[e] = revealed[e]
    BY <1>1, <1>6 DEF IInv, TypeOK, Slots
  <2>2. QED
    BY <1>1, <1>3, <2>1, OtherDuelsKeepInv DEF IInv
<1>7. DuelInv(d)'
  <2>1. Seated(d)'
    BY <1>1, <1>3 DEF DuelInv, Seated, Exists
  <2>2. InOrder(d)'
    <3> SUFFICES ASSUME NEW t \in Rounds
                 PROVE  /\ t < r => BothRevealed(d, t)'
                        /\ t > r => \A z \in Side : commitment[d][z][t] = None
                        /\ \A z \in Side :
                             rev[z][t] # None => Seal[rev[z][t]] = commitment[d][z][t]
      BY <1>1, <1>3 DEF InOrder
    <3>1. t < r => BothRevealed(d, t) /\ t # r
      BY <1>1, RoundsAreOrdered DEF DuelInv, InOrder
    <3>2. t < r => BothRevealed(d, t)'
      BY <1>1, <3>1 DEF BothRevealed, IInv, TypeOK, Slots
    <3>3. t > r => \A z \in Side : commitment[d][z][t] = None
      BY <1>1 DEF DuelInv, InOrder
    <3>4. \A z \in Side :
            rev[z][t] # None => Seal[rev[z][t]] = commitment[d][z][t]
      <4>1. commitment[d][s][r] = Seal[h]
        BY DEF RevealHand, RevealAllowed
      <4>2. QED
        BY <1>1, <4>1 DEF DuelInv, InOrder, IInv, TypeOK, Slots
    <3>5. QED
      BY <3>2, <3>3, <3>4
  <2>3. Undecided(d)' /\ Justified(d)'
    BY <1>1, <1>3 DEF DuelInv, Undecided, Justified, BothRevealed
  <2>4. QED
    BY <2>1, <2>2, <2>3 DEF DuelInv
<1>8. QED
  BY <1>5, <1>6, <1>7 DEF IInv

\* What the second reveal of a round does: w is the new tally, with at most one
\* side of X scoring, and the duel goes on or ends as duel_outcome says.
LEMMA SecondRevealEffect ==
  ASSUME IInv, NEW d \in DuelIds, NEW p \in Players, NEW r \in Rounds,
         NEW h \in Plays, RevealHand(d, p, r, h), BothRevealed(d, r)'
  PROVE  \E X \in {{}, {1}, {2}}, w \in [Side -> 0..RoundsToWin] :
           /\ w = [z \in Side |-> IF z \in X THEN wins[d][z] + 1 ELSE wins[d][z]]
           /\ wins' = [wins EXCEPT ![d] = w]
           /\ idle' = [idle EXCEPT ![d] = 0]
           /\ UNCHANGED <<energy, regenAge, charged, vault, looted, window>>
           /\ DuelOutcome(w, r) = "continue" =>
                /\ round' = [round EXCEPT ![d] = @ + 1]
                /\ UNCHANGED <<ended, winner>>
                /\ r < RoundLimit /\ \A z \in Side : w[z] < RoundsToWin
           /\ DuelOutcome(w, r) # "continue" =>
                /\ UNCHANGED round
                /\ ended' = [ended EXCEPT ![d] = TRUE]
                /\ winner' = [winner EXCEPT ![d] =
                                IF w[1] > w[2] THEN seat[d][1]
                                ELSE IF w[2] > w[1] THEN seat[d][2] ELSE None]
                /\ (\E z \in Side : w[z] = RoundsToWin) \/ r = RoundLimit
<1>0. PICK s \in Side : s = SideOf(d, p)
  BY Sides
<1> DEFINE rev == [revealed[d] EXCEPT ![s][r] = h]
           bp == BattlePower[<<rev[1][r], rev[2][r], r>>]
           X == RoundPoint(bp)
           w == [z \in Side |-> IF z \in X THEN wins[d][z] + 1 ELSE wins[d][z]]
           outcome == DuelOutcome(w, r)
<1>1. /\ DuelInv(d) /\ Exists(d) /\ ~ended[d]
      /\ round[d] = r
      /\ UNCHANGED <<seat, commitment>>
      /\ revealed' = [revealed EXCEPT ![d] = rev]
      /\ revealed'[d] = rev
      /\ revealed' \in Slots(Plays \cup {None})
  BY <1>0, RevealEffect
<1>2. rev[1][r] # None /\ rev[2][r] # None
  BY <1>1 DEF BothRevealed, Side
<1>3. ResolveRound(d, r, rev) /\ idle' = [idle EXCEPT ![d] = 0]
      /\ UNCHANGED <<energy, regenAge, charged, vault, looted, window>>
  BY <1>0, <1>2 DEF RevealHand, playerVars, lootVars
<1>4. /\ wins' = [wins EXCEPT ![d] = w]
      /\ outcome = "continue" => /\ round' = [round EXCEPT ![d] = @ + 1]
                                 /\ UNCHANGED <<ended, winner>>
      /\ outcome # "continue" =>
           /\ ended' = [ended EXCEPT ![d] = TRUE]
           /\ winner' = [winner EXCEPT ![d] =
                           IF outcome = "p1" THEN seat[d][1]
                           ELSE IF outcome = "p2" THEN seat[d][2]
                           ELSE None]
           /\ UNCHANGED round
  BY <1>3 DEF ResolveRound
<1>5. X \in {{}, {1}, {2}}
  <2>1. revealed'[d] \in [Side -> [Rounds -> Plays \cup {None}]]
    BY <1>1 DEF Slots
  <2>2. rev[1][r] \in Plays /\ rev[2][r] \in Plays
    BY <1>1, <1>2, <2>1 DEF Side
  <2>3. bp \in Nat \X Nat
    BY <2>2, DuelAssumption
  <2>4. QED
    BY <2>3, OneScorer
<1>6. /\ wins[d] \in [Side -> 0..RoundsToWin]
      /\ \A z \in Side : wins[d][z] < RoundsToWin
  BY <1>1 DEF IInv, TypeOK, DuelInv, Undecided
<1> HIDE DEF X
<1>7. /\ w \in [Side -> 0..RoundsToWin]
      /\ outcome = "continue" =>
           r < RoundLimit /\ \A z \in Side : w[z] < RoundsToWin
      /\ outcome # "continue" =>
           /\ (\E z \in Side : w[z] = RoundsToWin) \/ r = RoundLimit
           /\ outcome = "p1" <=> w[1] > w[2]
           /\ outcome = "p2" <=> w[2] > w[1]
  BY <1>5, <1>6, OutcomeIsSideAhead
<1>8. w = [z \in Side |-> IF z \in X THEN wins[d][z] + 1 ELSE wins[d][z]]
  OBVIOUS
<1> HIDE DEF w, outcome
<1>9. outcome # "continue" =>
        winner' = [winner EXCEPT ![d] =
                     IF w[1] > w[2] THEN seat[d][1]
                     ELSE IF w[2] > w[1] THEN seat[d][2] ELSE None]
  BY <1>4, <1>7
<1>10. QED
  <2> USE <1>5, <1>7
  <2> WITNESS X \in {{}, {1}, {2}}, w \in [Side -> 0..RoundsToWin]
  <2> QED
    BY <1>3, <1>4, <1>7, <1>8, <1>9 DEF outcome

\* The second reveal of the round: it is scored, and the duel goes on or ends.
LEMMA SecondRevealKeepsInv ==
  ASSUME IInv, NEW d \in DuelIds, NEW p \in Players, NEW r \in Rounds,
         NEW h \in Plays, RevealHand(d, p, r, h), BothRevealed(d, r)'
  PROVE  IInv'
<1>1. PICK s \in Side : s = SideOf(d, p)
  BY Sides
<1> DEFINE rev == [revealed[d] EXCEPT ![s][r] = h]
<1>2. /\ DuelInv(d) /\ Exists(d) /\ ~ended[d]
      /\ round[d] = r
      /\ UNCHANGED <<seat, commitment>>
      /\ revealed' = [revealed EXCEPT ![d] = rev]
      /\ revealed'[d] = rev
      /\ revealed' \in Slots(Plays \cup {None})
  BY <1>1, RevealEffect
<1>3. PICK w \in [Side -> 0..RoundsToWin] :
        /\ wins' = [wins EXCEPT ![d] = w]
        /\ idle' = [idle EXCEPT ![d] = 0]
        /\ UNCHANGED <<energy, regenAge, charged, vault, looted, window>>
        /\ DuelOutcome(w, r) = "continue" =>
             /\ round' = [round EXCEPT ![d] = @ + 1]
             /\ UNCHANGED <<ended, winner>>
             /\ r < RoundLimit /\ \A z \in Side : w[z] < RoundsToWin
        /\ DuelOutcome(w, r) # "continue" =>
             /\ UNCHANGED round
             /\ ended' = [ended EXCEPT ![d] = TRUE]
             /\ winner' = [winner EXCEPT ![d] =
                             IF w[1] > w[2] THEN seat[d][1]
                             ELSE IF w[2] > w[1] THEN seat[d][2] ELSE None]
             /\ (\E z \in Side : w[z] = RoundsToWin) \/ r = RoundLimit
  BY SecondRevealEffect
<1> DEFINE outcome == DuelOutcome(w, r)
<1> HIDE DEF outcome
<1>4. wins' = [wins EXCEPT ![d] = w]
  BY <1>3
<1>5. outcome = "continue" =>
        /\ round' = [round EXCEPT ![d] = @ + 1]
        /\ UNCHANGED <<ended, winner>>
        /\ r < RoundLimit /\ \A z \in Side : w[z] < RoundsToWin
  BY <1>3 DEF outcome
<1>6. outcome # "continue" =>
        /\ UNCHANGED round
        /\ ended' = [ended EXCEPT ![d] = TRUE]
        /\ winner' = [winner EXCEPT ![d] =
                        IF w[1] > w[2] THEN seat[d][1]
                        ELSE IF w[2] > w[1] THEN seat[d][2] ELSE None]
        /\ (\E z \in Side : w[z] = RoundsToWin) \/ r = RoundLimit
  BY <1>3 DEF outcome
<1>7. TypeOK'
  <2>1. outcome = "continue" => r + 1 \in Rounds
    BY <1>5, DuelAssumption DEF Rounds
  <2>2. round' \in [DuelIds -> Rounds]
    BY <1>2, <1>5, <1>6, <2>1 DEF IInv, TypeOK
  <2>3. ended' \in [DuelIds -> BOOLEAN]
    BY <1>5, <1>6 DEF IInv, TypeOK
  <2>4. winner' \in [DuelIds -> Players \cup {None}]
    <3>1. seat[d][1] \in Players \cup {None} /\ seat[d][2] \in Players \cup {None}
      BY DEF IInv, TypeOK, Side
    <3>2. QED
      BY <1>5, <1>6, <3>1 DEF IInv, TypeOK
  <2>5. wins' \in [DuelIds -> [Side -> 0..RoundsToWin]]
    BY <1>4 DEF IInv, TypeOK
  <2>6. idle' \in [DuelIds -> 0..StallTimeout]
    BY <1>3, DuelAssumption DEF IInv, TypeOK
  <2>7. QED
    BY <1>2, <1>3, <2>2, <2>3, <2>4, <2>5, <2>6 DEF IInv, TypeOK, Slots
<1>8. ASSUME NEW e \in DuelIds, e # d PROVE DuelInv(e)'
  <2>1. revealed'[e] = revealed[e]
    BY <1>2, <1>8 DEF IInv, TypeOK, Slots
  <2>2. /\ wins'[e] = wins[e] /\ round'[e] = round[e]
        /\ ended'[e] = ended[e] /\ winner'[e] = winner[e]
    BY <1>4, <1>5, <1>6, <1>8 DEF IInv, TypeOK
  <2>3. QED
    BY <1>2, <2>1, <2>2, OtherDuelsKeepInv DEF IInv
<1>9. DuelInv(d)'
  <2>1. Seated(d)'
    BY <1>2 DEF DuelInv, Seated, Exists
  <2>2. wins'[d] = w
    BY <1>4 DEF IInv, TypeOK
  <2>3. \A t \in Rounds : t # r => rev[1][t] = revealed[d][1][t]
                                /\ rev[2][t] = revealed[d][2][t]
    BY <1>2 DEF IInv, TypeOK, Slots, Side
  <2>4. \A t \in Rounds : t < r \/ t = r => BothRevealed(d, t)'
    <3> SUFFICES ASSUME NEW t \in Rounds, t < r PROVE BothRevealed(d, t)'
      OBVIOUS
    <3>1. BothRevealed(d, t) /\ t # r
      BY <1>2, RoundsAreOrdered DEF DuelInv, InOrder
    <3>2. QED
      BY <1>2, <2>3, <3>1 DEF BothRevealed, Side
  <2>5. \A t \in Rounds : t > r => \A z \in Side : commitment[d][z][t] = None
    BY <1>2 DEF DuelInv, InOrder
  <2>6. \A t \in Rounds, z \in Side :
           rev[z][t] # None => Seal[rev[z][t]] = commitment[d][z][t]
    <3>1. commitment[d][s][r] = Seal[h]
      BY <1>1 DEF RevealHand, RevealAllowed
    <3>2. QED
      BY <1>2, <3>1 DEF DuelInv, InOrder, IInv, TypeOK, Slots
  <2>7. CASE outcome = "continue"
    <3>1. /\ round'[d] = r + 1 /\ ~ended'[d]
          /\ r + 1 \in Rounds /\ r \in Int
      BY <1>2, <1>5, <2>7, DuelAssumption, RoundsAreOrdered
      DEF IInv, TypeOK, Rounds
    <3>2. \A t \in Rounds : t < r + 1 => t < r \/ t = r
      BY <3>1, RoundsAreOrdered
    <3>3. \A t \in Rounds : t > r + 1 => t > r
      BY <3>1, RoundsAreOrdered
    <3>4. InOrder(d)'
      BY <1>2, <2>4, <2>5, <2>6, <3>1, <3>2, <3>3 DEF InOrder
    <3>5. rev[1][r + 1] = None
      <4>1. r + 1 > r
        BY <3>1
      <4>2. commitment[d][1][r + 1] = None
        BY <2>5, <3>1, <4>1 DEF Side
      <4>3. rev[1][r + 1] \in Plays \cup {None}
        BY <1>2, <3>1 DEF IInv, TypeOK, Slots, Side
      <4>4. QED
        BY <2>6, <3>1, <4>2, <4>3, DuelAssumption DEF Side
    <3>6. Undecided(d)'
      BY <1>2, <1>5, <2>2, <2>7, <3>1, <3>5 DEF Undecided, BothRevealed, Side
    <3>7. Justified(d)'
      BY <3>1 DEF Justified
    <3>8. QED
      BY <2>1, <3>4, <3>6, <3>7 DEF DuelInv
  <2>8. CASE outcome # "continue"
    <3>1. /\ round'[d] = r /\ ended'[d]
          /\ winner'[d] = IF w[1] > w[2] THEN seat[d][1]
                          ELSE IF w[2] > w[1] THEN seat[d][2] ELSE None
      BY <1>2, <1>6, <2>8 DEF IInv, TypeOK
    <3>2. InOrder(d)'
      BY <1>2, <2>4, <2>5, <2>6, <3>1 DEF InOrder
    <3>3. Undecided(d)'
      BY <3>1 DEF Undecided
    <3>4. Justified(d)'
      BY <1>2, <1>6, <2>2, <2>4, <2>8, <3>1 DEF Justified
    <3>5. QED
      BY <2>1, <3>2, <3>3, <3>4 DEF DuelInv
  <2>9. QED
    BY <2>7, <2>8
<1>10. QED
  BY <1>7, <1>8, <1>9 DEF IInv

LEMMA ClaimTimeoutWinKeepsInv ==
  ASSUME IInv, NEW d \in DuelIds, NEW p \in Players, ClaimTimeoutWin(d, p)
  PROVE  IInv'
<1>0. PICK s \in Side : s = SideOf(d, p)
  BY Sides
<1>1. /\ s \in Side /\ Other(s) \in Side /\ Other(s) # s
      /\ DuelInv(d) /\ Exists(d) /\ ~ended[d]
  BY <1>0, Sides DEF IInv, ClaimTimeoutWin, ClaimAllowed, Participant
<1>2. /\ UNCHANGED <<seat, round, commitment, revealed, wins, idle,
                      energy, regenAge, charged, vault, looted, window>>
      /\ winner' = [winner EXCEPT ![d] = p]
      /\ ended' = [ended EXCEPT ![d] = TRUE]
  BY DEF ClaimTimeoutWin, ClaimAllowed, playerVars, lootVars
<1>3. TypeOK'
  BY <1>2 DEF IInv, TypeOK
<1>4. ASSUME NEW e \in DuelIds, e # d PROVE DuelInv(e)'
  BY <1>2, <1>4, OtherDuelsKeepInv DEF IInv, TypeOK
<1>5. winner'[d] = p /\ ended'[d]
  BY <1>2 DEF IInv, TypeOK
<1>6. seat[d][s] = p
  BY <1>0 DEF ClaimTimeoutWin, ClaimAllowed, Participant, SideOf, Side
<1>7. OpponentOwes(d, s)
  BY <1>0 DEF ClaimTimeoutWin, ClaimAllowed, OpponentIsStalled, OpponentOwes
<1>8. Justified(d)'
  <2>1. ~BothRevealed(d, round[d])
    BY <1>1 DEF DuelInv, Undecided
  <2>2. OpponentOwes(d, s)' /\ ~BothRevealed(d, round[d])'
    BY <1>2, <1>7, <2>1 DEF OpponentOwes, BothRevealed
  <2>3. QED
    BY <1>1, <1>2, <1>5, <1>6, <2>2 DEF Justified
<1>9. Seated(d)' /\ InOrder(d)' /\ Undecided(d)'
  BY <1>1, <1>2, <1>5
  DEF DuelInv, Seated, Exists, InOrder, Undecided, BothRevealed
<1>10. QED
  BY <1>3, <1>4, <1>8, <1>9 DEF IInv, DuelInv

\* The actions that touch no duel account, and the clock, which touches only
\* the ages.
LEMMA OtherStepsKeepInv ==
  ASSUME IInv, TypeOK', UNCHANGED <<seat, round, ended, winner, commitment,
                                    revealed, wins>>
  PROVE  IInv'
BY OtherDuelsKeepInv DEF IInv

LEMMA TickKeepsTypes ==
  ASSUME IInv, Tick
  PROVE  TypeOK'
<1>1. idle' \in [DuelIds -> 0..StallTimeout]
  BY DuelAssumption DEF IInv, TypeOK, Tick
<1>2. regenAge' \in [Players -> 0..FullRegen]
  <2>1. FullRegen \in Nat
    BY EnergyAssumption DEF FullRegen
  <2>2. QED
    BY <2>1 DEF IInv, TypeOK, Tick
<1>3. QED
  BY <1>1, <1>2 DEF IInv, TypeOK, Tick, lootVars

\* The invariant is inductive: no action, in any state satisfying it, leaves it.
THEOREM StepIInv == IInv /\ [Next]_vars => IInv'
<1> SUFFICES ASSUME IInv, [Next]_vars PROVE IInv'
  OBVIOUS
<1>1. ASSUME NEW d \in DuelIds, NEW p \in Players, NEW q \in Players,
             InitDuel(d, p, q)
      PROVE  IInv'
  BY <1>1, InitDuelKeepsInv
<1>2. ASSUME NEW d \in DuelIds, NEW p \in Players, NEW r \in Rounds,
             NEW h \in Plays, CommitHand(d, p, r, h)
      PROVE  IInv'
  BY <1>2, CommitHandKeepsInv
<1>3. ASSUME NEW d \in DuelIds, NEW p \in Players, NEW r \in Rounds,
             NEW h \in Plays, RevealHand(d, p, r, h)
      PROVE  IInv'
  BY <1>3, FirstRevealKeepsInv, SecondRevealKeepsInv
<1>4. ASSUME NEW d \in DuelIds, NEW p \in Players, ClaimTimeoutWin(d, p)
      PROVE  IInv'
  BY <1>4, ClaimTimeoutWinKeepsInv
<1>5. ASSUME NEW d \in DuelIds, NEW p \in Players, NEW c \in Species,
             ClaimBattleLoot(d, p, c)
      PROVE  IInv'
  <2>1. vault' \in [Players -> SUBSET Species]
    BY <1>5 DEF IInv, TypeOK, ClaimBattleLoot
  <2>2. TypeOK'
    BY <1>5, <2>1 DEF IInv, TypeOK, ClaimBattleLoot, duelVars, playerVars
  <2>3. QED
    BY <1>5, <2>2, OtherStepsKeepInv DEF ClaimBattleLoot, duelVars
<1>6. ASSUME NEW p \in Players, RefillEnergy(p) PROVE IInv'
  <2>1. FullRegen \in Nat /\ EnergyMax \in 0..EnergyMax
    BY EnergyAssumption DEF FullRegen
  <2>2. TypeOK'
    BY <1>6, <2>1 DEF IInv, TypeOK, RefillEnergy, duelVars, lootVars
  <2>3. QED
    BY <1>6, <2>2, OtherStepsKeepInv DEF RefillEnergy, duelVars
<1>7. ASSUME AdvanceWindow PROVE IInv'
  <2>1. TypeOK'
    BY <1>7 DEF IInv, TypeOK, AdvanceWindow, duelVars, playerVars
  <2>2. QED
    BY <1>7, <2>1, OtherStepsKeepInv DEF AdvanceWindow, duelVars
<1>8. ASSUME Tick PROVE IInv'
  BY <1>8, TickKeepsTypes, OtherStepsKeepInv DEF Tick
<1>9. ASSUME UNCHANGED vars PROVE IInv'
  <2>1. TypeOK'
    BY <1>9 DEF IInv, TypeOK, vars, duelVars, playerVars, lootVars
  <2>2. QED
    BY <1>9, <2>1, OtherStepsKeepInv DEF vars, duelVars
<1>10. QED
  BY <1>1, <1>2, <1>3, <1>4, <1>5, <1>6, <1>7, <1>8, <1>9 DEF Next, ProgramStep

THEOREM Invariance == Spec => []IInv
  BY InitIInv, StepIInv, PTL DEF Spec

\* Every DuelState, PlayerState and loot record stays well formed, and the
\* round counter inside the arrays it indexes.
THEOREM TypesAreKept == Spec => []TypeOK
<1>1. IInv => TypeOK
  BY DEF IInv
<1>2. QED
  BY <1>1, Invariance, PTL

\* reveal_hand never opens a hand of any round but the current one, although
\* it does not compare its round argument with duel.round.
THEOREM PlayIsInOrder == Spec => []RoundsInOrder
<1>1. IInv => RoundsInOrder
  BY DEF IInv, DuelInv, RoundsInOrder
<1>2. QED
  BY <1>1, Invariance, PTL

\* No duel is left open once its current round is revealed by both sides or
\* one of them has the majority.
THEOREM DecidedDuelsEnd == Spec => []OpenMeansUndecided
<1>1. IInv => OpenMeansUndecided
  BY DEF IInv, DuelInv, OpenMeansUndecided
<1>2. QED
  BY <1>1, Invariance, PTL

\* A verdict is the side ahead of a duel played out, or the side whose opponent
\* owed the next action of a duel cut short.
THEOREM VerdictsAreJustified == Spec => []VerdictJustified
<1>1. IInv => VerdictJustified
  BY DEF IInv, DuelInv, VerdictJustified
<1>2. QED
  BY <1>1, Invariance, PTL

\* What no step takes back, action by action.
LEMMA StepAppends ==
  ASSUME IInv, [Next]_vars, NEW d \in DuelIds
  PROVE  AppendOnly(d)
<1> USE DEF AppendOnly
<1>1. ASSUME NEW e \in DuelIds, NEW p \in Players, NEW q \in Players,
             InitDuel(e, p, q)
      PROVE  AppendOnly(d)
  BY <1>1 DEF InitDuel
<1>2. ASSUME NEW e \in DuelIds, NEW p \in Players, NEW r \in Rounds,
             NEW h \in Plays, CommitHand(e, p, r, h)
      PROVE  AppendOnly(d)
  <2>1. /\ ~ended[e] /\ commitment[e][SideOf(e, p)][r] = None
        /\ commitment' = [commitment EXCEPT ![e][SideOf(e, p)][r] = Seal[h]]
        /\ UNCHANGED <<round, ended, winner, revealed, wins>>
    BY <1>2 DEF CommitHand, CommitAllowed
  <2>2. QED
    BY <2>1, Sides DEF IInv, TypeOK, Slots
<1>3. ASSUME NEW e \in DuelIds, NEW p \in Players, NEW r \in Rounds,
             NEW h \in Plays, RevealHand(e, p, r, h)
      PROVE  AppendOnly(d)
  <2>1. PICK s \in Side : s = SideOf(e, p)
    BY Sides
  <2>2. /\ ~ended[e] /\ revealed[e][s][r] = None
        /\ revealed' = [revealed EXCEPT ![e] = [revealed[e] EXCEPT ![s][r] = h]]
        /\ UNCHANGED commitment
    BY <1>3, <2>1 DEF RevealHand, RevealAllowed
  <2>3. e # d => /\ round'[d] = round[d] /\ ended'[d] = ended[d]
                 /\ winner'[d] = winner[d] /\ wins'[d] = wins[d]
    <3>1. CASE UNCHANGED <<round, ended, winner, wins>>
      BY <3>1
    <3>2. CASE ResolveRound(e, r, [revealed[e] EXCEPT ![s][r] = h])
      BY <3>2 DEF ResolveRound, IInv, TypeOK
    <3>3. QED
      BY <1>3, <2>1, <3>1, <3>2 DEF RevealHand
  <2>4. QED
    BY <2>2, <2>3 DEF IInv, TypeOK, Slots
<1>4. ASSUME NEW e \in DuelIds, NEW p \in Players, ClaimTimeoutWin(e, p)
      PROVE  AppendOnly(d)
  BY <1>4 DEF ClaimTimeoutWin, ClaimAllowed, IInv, TypeOK
<1>5. ASSUME UNCHANGED <<round, ended, winner, commitment, revealed, wins>>
      PROVE  AppendOnly(d)
  BY <1>5
<1>6. QED
  BY <1>1, <1>2, <1>3, <1>4, <1>5
  DEF Next, ProgramStep, vars, duelVars, ClaimBattleLoot, RefillEnergy, AdvanceWindow, Tick

\* No transaction overwrites a stored commitment or reveal, or touches a duel
\* that has ended.
THEOREM HistoryIsKept == Spec => AccountIsAppendOnly
<1>1. IInv /\ [Next]_vars => [\A d \in DuelIds : AppendOnly(d)]_vars
  BY StepAppends
<1>2. QED
  BY <1>1, Invariance, PTL DEF Spec, AccountIsAppendOnly

-----------------------------------------------------------------------------
(***************************************************************************)
(* The tallies, replayed from the revealed hands.                          *)
(***************************************************************************)

\* The rounds a side won are finitely many.
LEMMA RoundsFinite ==
  ASSUME NEW d, NEW s
  PROVE  IsFiniteSet(RoundsWonBy(d, s))
<1>1. IsFiniteSet(Rounds) BY DuelAssumption, FS_Interval DEF Rounds
<1> QED BY <1>1, FS_Subset DEF RoundsWonBy

\* A step that leaves the reveals and the wins of a duel alone.
LEMMA SameTally ==
  ASSUME NEW d \in DuelIds, NEW s \in Side,
         revealed'[d] = revealed[d], wins'[d] = wins[d],
         wins[d][s] = Cardinality(RoundsWonBy(d, s))
  PROVE  wins'[d][s] = Cardinality(RoundsWonBy(d, s)')
<1>1. RoundsWonBy(d, s)' = RoundsWonBy(d, s) BY DEF RoundsWonBy, BothRevealed
<1> QED BY <1>1

\* A reveal completes the pair of its round, which then is scored, or leaves what
\* can be scored as it was.
LEMMA RevealTally ==
  ASSUME IInv, NEW d \in DuelIds, NEW p \in Players, NEW r \in Rounds, NEW h \in Plays,
         RevealHand(d, p, r, h), NEW z \in Side,
         wins[d][z] = Cardinality(RoundsWonBy(d, z))
  PROVE  wins'[d][z] = Cardinality(RoundsWonBy(d, z)')
<1>1. PICK s \in Side : s = SideOf(d, p) BY Sides
<1> DEFINE rev == [revealed[d] EXCEPT ![s][r] = h]
           scored == RoundPoint(BattlePower[<<rev[1][r], rev[2][r], r>>])
<1>2. /\ revealed'[d] = rev /\ revealed[d][s][r] = None
      /\ IF rev[1][r] # None /\ rev[2][r] # None
           THEN ResolveRound(d, r, rev) ELSE UNCHANGED wins
  <2>1. revealed' = [revealed EXCEPT ![d] = rev] BY <1>1 DEF RevealHand
  <2> QED BY <1>1, <2>1 DEF RevealHand, RevealAllowed, IInv, TypeOK, Slots
<1>3. /\ rev \in [Side -> [Rounds -> Plays \cup {None}]]
      /\ \A t \in Side, q \in Rounds : q # r => rev[t][q] = revealed[d][t][q]
  BY DEF IInv, TypeOK, Slots
<1> HIDE DEF rev
<1>4. \A q \in Rounds : q # r => (q \in RoundsWonBy(d, z)' <=> q \in RoundsWonBy(d, z))
  <2> SUFFICES ASSUME NEW q \in Rounds, q # r
               PROVE  q \in RoundsWonBy(d, z)' <=> q \in RoundsWonBy(d, z)
    OBVIOUS
  <2>1. \A t \in Side : revealed'[d][t][q] = revealed[d][t][q] BY <1>2, <1>3
  <2>2. 1 \in Side /\ 2 \in Side BY DEF Side
  <2> QED BY <2>1, <2>2 DEF RoundsWonBy, BothRevealed
<1>5. r \notin RoundsWonBy(d, z) BY <1>2 DEF RoundsWonBy, BothRevealed
<1>6. RoundsWonBy(d, z) \subseteq Rounds /\ RoundsWonBy(d, z)' \subseteq Rounds
  BY DEF RoundsWonBy
<1>7. CASE rev[1][r] # None /\ rev[2][r] # None
  <2>1. r \in RoundsWonBy(d, z)' <=> z \in scored
    BY <1>2, <1>7 DEF RoundsWonBy, BothRevealed, Side
  <2>2. wins'[d][z] = IF z \in scored THEN wins[d][z] + 1 ELSE wins[d][z]
    <3>1. wins' = [wins EXCEPT ![d] = [t \in Side |->
                    IF t \in scored THEN wins[d][t] + 1 ELSE wins[d][t]]]
      BY <1>2, <1>7 DEF ResolveRound
    <3> HIDE DEF scored
    <3> QED BY <3>1 DEF IInv, TypeOK
  <2>3. RoundsWonBy(d, z)' = IF z \in scored THEN RoundsWonBy(d, z) \cup {r}
                                               ELSE RoundsWonBy(d, z)
    BY <1>4, <1>5, <1>6, <2>1
  <2>4. Cardinality(RoundsWonBy(d, z) \cup {r}) = Cardinality(RoundsWonBy(d, z)) + 1
    BY <1>5, RoundsFinite, FS_AddElement
  <2> QED BY <2>2, <2>3, <2>4
<1>8. CASE ~(rev[1][r] # None /\ rev[2][r] # None)
  <2>1. wins' = wins BY <1>2, <1>8
  <2>2. r \notin RoundsWonBy(d, z)' BY <1>2, <1>8 DEF RoundsWonBy, BothRevealed, Side
  <2>3. RoundsWonBy(d, z)' = RoundsWonBy(d, z) BY <1>4, <1>5, <1>6, <2>2
  <2> QED BY <2>1, <2>3
<1> QED BY <1>7, <1>8

LEMMA TallyStep == ASSUME IInv, TallyIsReplay, [Next]_vars PROVE TallyIsReplay'
<1> SUFFICES ASSUME NEW d \in DuelIds, NEW s \in Side
             PROVE  wins'[d][s] = Cardinality(RoundsWonBy(d, s)')
  BY DEF TallyIsReplay
<1>0. wins[d][s] = Cardinality(RoundsWonBy(d, s)) BY DEF TallyIsReplay
<1>1. CASE revealed'[d] = revealed[d] /\ wins'[d] = wins[d] BY <1>0, <1>1, SameTally
<1>2. ASSUME NEW e \in DuelIds, NEW p \in Players, NEW r \in Rounds, NEW h \in Plays,
             RevealHand(e, p, r, h)
      PROVE  wins'[d][s] = Cardinality(RoundsWonBy(d, s)')
  <2>1. CASE e = d BY <1>0, <1>2, <2>1, RevealTally
  <2>2. CASE e # d
    <3>1. revealed'[d] = revealed[d] BY <1>2, <2>2 DEF RevealHand, IInv, TypeOK, Slots
    <3>2. wins'[d] = wins[d]
      <4>1. wins' = wins \/ \E w : wins' = [wins EXCEPT ![e] = w]
        BY <1>2 DEF RevealHand, ResolveRound
      <4> QED BY <2>2, <4>1 DEF IInv, TypeOK
    <3> QED BY <1>1, <3>1, <3>2
  <2> QED BY <2>1, <2>2
<1> QED
  BY <1>1, <1>2 DEF Next, ProgramStep, vars, duelVars, InitDuel, CommitHand, ClaimTimeoutWin,
                    ClaimBattleLoot, RefillEnergy, AdvanceWindow, Tick

\* The wins on the account are those a replay of the revealed hands gives: no round
\* is scored twice or skipped (reveal_hand.rs, round_point).
THEOREM TalliesReplay == Spec => []TallyIsReplay
<1>1. Init => TallyIsReplay
  <2> SUFFICES ASSUME Init, NEW d \in DuelIds, NEW s \in Side
               PROVE  wins[d][s] = Cardinality(RoundsWonBy(d, s))
    BY DEF TallyIsReplay
  <2>1. RoundsWonBy(d, s) = {} BY DEF Init, Blank, RoundsWonBy, BothRevealed, Side
  <2> QED BY <2>1, FS_EmptySet DEF Init
<1> QED BY <1>1, TallyStep, Invariance, PTL DEF Spec

-----------------------------------------------------------------------------
(***************************************************************************)
(* The price of entering, and of losing.                                   *)
(***************************************************************************)

\* What a wallet has paid for, with the finiteness its count needs.
EntryPaid(p) == IsFiniteSet(EnteredDuels(p)) /\ charged[p] = Cardinality(EnteredDuels(p))

\* Where nothing is written that an entry is read from, nothing changes.
LEMMA SameEntries ==
  ASSUME NEW p, charged'[p] = charged[p], EntryPaid(p),
         \A d \in DuelIds : d \in EnteredDuels(p)' <=> d \in EnteredDuels(p)
  PROVE  EntryPaid(p)'
<1>1. EnteredDuels(p)' = EnteredDuels(p) BY DEF EnteredDuels
<1> QED BY <1>1 DEF EntryPaid

\* A participant sits where it acts.
LEMMA OwnSeat ==
  ASSUME NEW d, NEW p, Participant(d, p)
  PROVE  seat[d][SideOf(d, p)] = p
BY DEF Participant, SideOf, Side

LEMMA InitDuelEntries ==
  ASSUME IInv, NEW e \in DuelIds, NEW a \in Players, NEW b \in Players, InitDuel(e, a, b),
         NEW p \in Players, EntryPaid(p)
  PROVE  EntryPaid(p)'
<1>1. /\ ~Exists(e) /\ UNCHANGED <<commitment, charged>>
      /\ \A d \in DuelIds : d # e => seat'[d] = seat[d]
  BY DEF InitDuel, playerVars, IInv, TypeOK
<1>2. commitment[e] = Blank BY <1>1 DEF IInv, DuelInv, Seated
<1>3. e \notin EnteredDuels(p) /\ e \notin EnteredDuels(p)'
  <2>1. 1 \in Rounds BY DuelAssumption DEF Rounds
  <2>2. SideOf(e, p)' \in Side BY DEF SideOf, Side
  <2>3. commitment'[e][SideOf(e, p)'][1] = None BY <1>1, <1>2, <2>1, <2>2 DEF Blank
  <2> QED BY <1>1, <2>3 DEF EnteredDuels, Participant
<1>4. \A d \in DuelIds : d \in EnteredDuels(p)' <=> d \in EnteredDuels(p)
  BY <1>1, <1>3 DEF EnteredDuels, Participant, Exists, SideOf
<1> QED BY <1>1, <1>4, SameEntries

LEMMA CommitEntries ==
  ASSUME IInv, NEW e \in DuelIds, NEW q \in Players, NEW r \in Rounds, NEW h \in Plays,
         CommitHand(e, q, r, h), NEW p \in Players, EntryPaid(p)
  PROVE  EntryPaid(p)'
<1>1. PICK s \in Side : s = SideOf(e, q) BY Sides
<1>2. /\ Participant(e, q) /\ seat' = seat /\ commitment[e][s][r] = None
      /\ commitment' = [commitment EXCEPT ![e][s][r] = Seal[h]]
  BY <1>1 DEF CommitHand, CommitAllowed
<1>3. Seal[h] # None BY DuelAssumption
<1>4. 1 \in Rounds BY DuelAssumption DEF Rounds
<1>5. \A d \in DuelIds, t \in Side :
        commitment'[d][t][1] = IF d = e /\ t = s /\ r = 1 THEN Seal[h] ELSE commitment[d][t][1]
  BY <1>2, <1>4 DEF IInv, TypeOK, Slots
<1>6. \A d \in DuelIds : SideOf(d, p) \in Side /\ SideOf(d, p)' = SideOf(d, p)
                        /\ Participant(d, p)' = Participant(d, p)
  BY <1>2 DEF SideOf, Side, Participant, Exists
<1>7. CASE r = 1 /\ p = q
  <2>1. charged' = [charged EXCEPT ![p] = @ + 1] BY <1>7 DEF CommitHand, CommitAllowed, PaysEntry
  <2>2. charged'[p] = charged[p] + 1 BY <2>1 DEF IInv, TypeOK
  <2>3. e \notin EnteredDuels(p) BY <1>1, <1>2, <1>7 DEF EnteredDuels
  <2>4. EnteredDuels(p)' = EnteredDuels(p) \cup {e}
    <3>1. e \in EnteredDuels(p)' BY <1>1, <1>2, <1>3, <1>5, <1>6, <1>7 DEF EnteredDuels
    <3>2. \A d \in DuelIds : d # e => (d \in EnteredDuels(p)' <=> d \in EnteredDuels(p))
      BY <1>5, <1>6 DEF EnteredDuels
    <3>3. EnteredDuels(p) \subseteq DuelIds /\ EnteredDuels(p)' \subseteq DuelIds
      BY DEF EnteredDuels
    <3> QED BY <3>1, <3>2, <3>3
  <2> QED BY <2>2, <2>3, <2>4, FS_AddElement DEF EntryPaid
<1>8. CASE ~(r = 1 /\ p = q)
  <2>1. charged'[p] = charged[p]
    <3>1. charged' = charged \/ (r = 1 /\ charged' = [charged EXCEPT ![q] = @ + 1])
      BY DEF CommitHand, PaysEntry, playerVars
    <3> QED BY <1>8, <3>1 DEF IInv, TypeOK
  <2>2. \A d \in DuelIds : d \in EnteredDuels(p)' <=> d \in EnteredDuels(p)
    <3> SUFFICES ASSUME NEW d \in DuelIds, Participant(d, p)
                 PROVE  commitment'[d][SideOf(d, p)][1] = commitment[d][SideOf(d, p)][1]
      BY <1>6 DEF EnteredDuels
    <3>1. ~(d = e /\ SideOf(d, p) = s /\ r = 1)
      BY <1>1, <1>2, <1>8, OwnSeat
    <3> QED BY <1>5, <1>6, <3>1
  <2> QED BY <2>1, <2>2, SameEntries
<1> QED BY <1>7, <1>8

LEMMA EntriesStep ==
  ASSUME IInv, \A p \in Players : EntryPaid(p), [Next]_vars
  PROVE  \A p \in Players : EntryPaid(p)'
<1> SUFFICES ASSUME NEW p \in Players PROVE EntryPaid(p)'
  OBVIOUS
<1>1. ASSUME UNCHANGED <<seat, commitment, charged>> PROVE EntryPaid(p)'
  BY <1>1 DEF EntryPaid, EnteredDuels, Participant, Exists, SideOf
<1>2. ASSUME NEW d \in DuelIds, NEW a \in Players, NEW b \in Players, InitDuel(d, a, b)
      PROVE  EntryPaid(p)'
  BY <1>2, InitDuelEntries
<1>3. ASSUME NEW d \in DuelIds, NEW q \in Players, NEW r \in Rounds, NEW h \in Plays,
             CommitHand(d, q, r, h)
      PROVE  EntryPaid(p)'
  BY <1>3, CommitEntries
<1>4. ASSUME NEW d \in DuelIds, NEW q \in Players, NEW r \in Rounds, NEW h \in Plays,
             RevealHand(d, q, r, h)
      PROVE  EntryPaid(p)'
  BY <1>1, <1>4 DEF RevealHand, playerVars
<1>5. ASSUME NEW d \in DuelIds, NEW q \in Players,
             ClaimTimeoutWin(d, q) \/ \E c \in Species : ClaimBattleLoot(d, q, c)
      PROVE  EntryPaid(p)'
  BY <1>1, <1>5 DEF ClaimTimeoutWin, ClaimBattleLoot, playerVars, duelVars
<1>6. CASE (\E q \in Players : RefillEnergy(q)) \/ AdvanceWindow \/ Tick \/ UNCHANGED vars
  BY <1>1, <1>6 DEF RefillEnergy, AdvanceWindow, Tick, vars, duelVars, playerVars
<1> QED BY <1>2, <1>3, <1>4, <1>5, <1>6 DEF Next, ProgramStep

\* A wallet pays for a duel once, with its first commitment (commit_hand.rs, energy),
\* for any number of duels, seats and attempts.
THEOREM EntriesArePaidOnce == Spec => []EntryChargedOnce
<1> DEFINE All == \A p \in Players : EntryPaid(p)
<1>1. Init => All
  <2> SUFFICES ASSUME Init, NEW p \in Players PROVE EntryPaid(p)
    OBVIOUS
  <2>1. EnteredDuels(p) = {} BY DEF Init, EnteredDuels, Participant, Exists, Side
  <2> QED BY <2>1, FS_EmptySet DEF Init, EntryPaid
<1>2. ASSUME IInv, All, [Next]_vars PROVE All' BY <1>2, EntriesStep
<1>3. All => EntryChargedOnce BY DEF EntryPaid, EntryChargedOnce
<1> HIDE DEF All
<1> QED BY <1>1, <1>2, <1>3, Invariance, PTL DEF Spec

\* The looted duels p lost.
LostLooted(p) == {d \in looted : Participant(d, p) /\ winner[d] # p}

\* What p started with, p has or lost by at most a card per looted duel; looted
\* duels are finitely many and over.
LossBounded(p) == Cardinality(StartVault[p]) <= Cardinality(vault[p]) + Cardinality(LostLooted(p))
LootInv ==
  /\ IsFiniteSet(looted) /\ \A d \in looted : Exists(d) /\ ended[d]
  /\ \A p \in Players : LossBounded(p)

\* Everything that is counted is finite.
LEMMA LootCounts ==
  ASSUME IInv, LootInv, NEW p \in Players
  PROVE  /\ IsFiniteSet(vault[p]) /\ IsFiniteSet(LostLooted(p)) /\ IsFiniteSet(StartVault[p])
         /\ Cardinality(vault[p]) \in Nat /\ Cardinality(LostLooted(p)) \in Nat
         /\ Cardinality(StartVault[p]) \in Nat
<1>1. IsFiniteSet(vault[p]) /\ IsFiniteSet(StartVault[p])
  BY DuelAssumption, FS_Subset DEF IInv, TypeOK
<1>2. IsFiniteSet(LostLooted(p)) BY FS_Subset DEF LootInv, LostLooted
<1> QED BY <1>1, <1>2, FS_CardinalityType

\* A duel that is over keeps its seats and its verdict.
LEMMA OverStays ==
  ASSUME IInv, [Next]_vars, NEW d \in DuelIds, Exists(d), ended[d]
  PROVE  seat'[d] = seat[d] /\ ended'[d] /\ winner'[d] = winner[d]
<1>1. ended'[d] = ended[d] /\ winner'[d] = winner[d] BY StepAppends DEF AppendOnly
<1>2. seat'[d] = seat[d]
  <2>1. ASSUME NEW e \in DuelIds, NEW a \in Players, NEW b \in Players, InitDuel(e, a, b)
        PROVE  seat'[d] = seat[d]
    BY <2>1 DEF InitDuel, IInv, TypeOK
  <2>2. CASE UNCHANGED seat BY <2>2
  <2>3. ASSUME NEW e \in DuelIds, NEW q \in Players, NEW r \in Rounds, NEW h \in Plays,
               CommitHand(e, q, r, h) \/ RevealHand(e, q, r, h)
        PROVE  UNCHANGED seat
    BY <2>3 DEF CommitHand, RevealHand
  <2> QED
    BY <2>1, <2>2, <2>3 DEF Next, ProgramStep, ClaimTimeoutWin, ClaimBattleLoot, RefillEnergy,
       AdvanceWindow, Tick, vars, duelVars
<1> QED BY <1>1, <1>2

\* Where no card moves, nothing that is counted changes.
LEMMA NoLootStep ==
  ASSUME IInv, LootInv, [Next]_vars, UNCHANGED <<vault, looted>>
  PROVE  LootInv'
<1>1. looted \subseteq DuelIds BY DEF IInv, TypeOK
<1>2. \A d \in looted : seat'[d] = seat[d] /\ ended'[d] /\ winner'[d] = winner[d]
  BY <1>1, OverStays DEF LootInv
<1>3. \A p \in Players : LostLooted(p)' = LostLooted(p)
  BY <1>2 DEF LostLooted, Participant, Exists
<1> QED BY <1>2, <1>3 DEF LootInv, LossBounded, Exists

\* The loser's card goes to the winner, and the duel counts as lost and looted.
LEMMA LootStep ==
  ASSUME IInv, LootInv, NEW d \in DuelIds, NEW p \in Players, NEW c \in Species,
         ClaimBattleLoot(d, p, c)
  PROVE  LootInv'
<1> DEFINE s == IF seat[d][1] # p THEN 1 ELSE 2
           loser == seat[d][s]
<1>1. /\ Exists(d) /\ ended[d] /\ winner[d] = p /\ loser # p /\ loser \in Players
      /\ d \notin looted /\ looted' = looted \cup {d}
      /\ vault' = [vault EXCEPT ![loser] = @ \ {c}, ![p] = @ \cup {c}]
      /\ UNCHANGED <<seat, ended, winner>> /\ s \in Side
  BY DuelAssumption DEF ClaimBattleLoot, LootAllowed, duelVars, Side
<1> HIDE DEF loser
<1>2. \A q \in Players : vault'[q] = IF q = p THEN vault[p] \cup {c}
                                    ELSE IF q = loser THEN vault[loser] \ {c} ELSE vault[q]
  BY <1>1 DEF IInv, TypeOK
<1>3. Participant(d, loser) BY <1>1 DEF Participant, loser
<1>4. \A q \in Players : LostLooted(q)' = IF Participant(d, q) /\ q # p THEN LostLooted(q) \cup {d}
                                                                     ELSE LostLooted(q)
  BY <1>1 DEF LostLooted, Participant, Exists
<1>5. ASSUME NEW q \in Players PROVE LossBounded(q)'
  <2> DEFINE V == vault[q]
             L == LostLooted(q)
             N == Cardinality(StartVault[q])
  <2>1. /\ IsFiniteSet(V) /\ IsFiniteSet(L) /\ Cardinality(V) \in Nat
        /\ Cardinality(L) \in Nat /\ N \in Nat
        /\ N <= Cardinality(V) + Cardinality(L)
    BY LootCounts DEF LootInv, LossBounded
  <2>2. d \notin L BY <1>1 DEF LostLooted
  <2> HIDE DEF V, L, N
  <2>3. /\ Cardinality(V \cup {c}) \in Nat /\ Cardinality(V \cup {c}) >= Cardinality(V)
        /\ Cardinality(V \ {c}) \in Nat /\ Cardinality(V \ {c}) >= Cardinality(V) - 1
        /\ Cardinality(L \cup {d}) = Cardinality(L) + 1
    BY <2>1, <2>2, FS_AddElement, FS_RemoveElement, FS_CardinalityType
  <2>4. /\ vault'[q] = IF q = p THEN V \cup {c} ELSE IF q = loser THEN V \ {c} ELSE V
        /\ LostLooted(q)' = IF Participant(d, q) /\ q # p THEN L \cup {d} ELSE L
    BY <1>2, <1>4 DEF V, L
  <2>5. N <= Cardinality(vault'[q]) + Cardinality(LostLooted(q)')
    <3>1. CASE q = p BY <3>1, <2>1, <2>3, <2>4
    <3>2. CASE q # p /\ q = loser BY <3>2, <1>3, <2>1, <2>3, <2>4
    <3>3. CASE q # p /\ q # loser
      <4>1. vault'[q] = V BY <3>3, <2>4
      <4>2. LostLooted(q)' = L \/ LostLooted(q)' = L \cup {d} BY <2>4
      <4>3. CASE LostLooted(q)' = L BY <4>1, <4>3, <2>1
      <4>4. CASE LostLooted(q)' = L \cup {d}
        <5>1. N <= Cardinality(V) + Cardinality(L \cup {d}) BY <2>1, <2>3
        <5> QED BY <5>1, <4>1, <4>4
      <4> QED BY <4>2, <4>3, <4>4
    <3> QED BY <3>1, <3>2, <3>3
  <2> QED BY <2>5 DEF LossBounded, N
<1>6. IsFiniteSet(looted') BY <1>1, FS_AddElement DEF LootInv
<1>7. \A e \in looted' : Exists(e)' /\ ended'[e] BY <1>1 DEF LootInv, Exists
<1> QED BY <1>5, <1>6, <1>7 DEF LootInv

\* Losing costs at most a card per duel, over any number of claims by anybody
\* (claim_battle_loot.rs, DuelLootRecord).
THEOREM LossesAreBounded == Spec => []LootBounded
<1>1. Init => LootInv
  <2> SUFFICES ASSUME Init PROVE LootInv
    OBVIOUS
  <2>1. looted = {} /\ vault = StartVault BY DEF Init
  <2>2. ASSUME NEW p \in Players PROVE LossBounded(p)
    <3>1. LostLooted(p) = {} /\ vault[p] = StartVault[p] BY <2>1 DEF LostLooted
    <3>2. Cardinality(StartVault[p]) \in Nat
      BY DuelAssumption, FS_Subset, FS_CardinalityType
    <3> QED BY <3>1, <3>2, FS_EmptySet DEF LossBounded
  <2> QED BY <2>1, <2>2, FS_EmptySet DEF LootInv
<1>2. ASSUME IInv, LootInv, [Next]_vars PROVE LootInv'
  <2>1. CASE UNCHANGED <<vault, looted>> BY <1>2, <2>1, NoLootStep
  <2>2. ASSUME NEW d \in DuelIds, NEW p \in Players, NEW c \in Species, ClaimBattleLoot(d, p, c)
        PROVE  LootInv'
    BY <1>2, <2>2, LootStep
  <2>3. ASSUME NEW d \in DuelIds, NEW q \in Players, NEW r \in Rounds, NEW h \in Plays,
               CommitHand(d, q, r, h) \/ RevealHand(d, q, r, h)
        PROVE  UNCHANGED <<vault, looted>>
    BY <2>3 DEF CommitHand, RevealHand, lootVars
  <2> QED
    BY <1>2, <2>1, <2>2, <2>3 DEF Next, ProgramStep, InitDuel, ClaimTimeoutWin, RefillEnergy,
       AdvanceWindow, Tick, vars, lootVars
<1>3. LootInv => LootBounded BY DEF LootInv, LossBounded, LootBounded, LostLooted
<1> QED BY <1>1, <1>2, <1>3, Invariance, PTL DEF Spec

-----------------------------------------------------------------------------
(***************************************************************************)
(* The duel accounts implement Match, for every instance: the last reveal  *)
(* of a round is a PlayRound step, claim_timeout_win is a Forfeit step, and*)
(* every other transaction is invisible.                                   *)
(***************************************************************************)

\* The rounds of a duel are numbers, in the form the provers need them.
LEMMA RoundArithmetic ==
  ASSUME IInv, NEW d \in DuelIds
  PROVE  /\ round[d] \in Rounds /\ round[d] \in Int
         /\ 1 <= round[d] /\ round[d] <= RoundLimit /\ RoundLimit \in Nat
BY DuelAssumption DEF IInv, TypeOK, Rounds

LEMMA InitRefines == Init => Matches!MatchInit
<1> SUFFICES ASSUME Init PROVE Matches!MatchInit
  OBVIOUS
<1>1. \A d \in DuelIds : RoundsPlayed(d) = 0
  BY DuelAssumption DEF Init, RoundsPlayed, BothRevealed, Blank, Side, Rounds
<1>2. \A d \in DuelIds : ResultOf(d) = "open"
  BY DEF Init, ResultOf
<1>3. QED
  BY <1>1, <1>2 DEF Matches!MatchInit, Init, Side

\* A step that leaves rounds, reveals, verdicts and tallies alone, and the
\* seats of decided duels, is invisible.
LEMMA StutterRefines ==
  ASSUME UNCHANGED <<round, ended, winner, revealed, wins>>,
         \A d \in DuelIds : ended[d] => seat'[d] = seat[d]
  PROVE  UNCHANGED Matches!matchVars
<1>1. \A d \in DuelIds : RoundsPlayed(d)' = RoundsPlayed(d)
  BY DEF RoundsPlayed, BothRevealed
<1>2. \A d \in DuelIds : ResultOf(d)' = ResultOf(d)
  BY DEF ResultOf
<1>3. QED
  BY <1>1, <1>2 DEF Matches!matchVars

LEMMA TimeoutRefines ==
  ASSUME IInv, NEW d \in DuelIds, NEW p \in Players, ClaimTimeoutWin(d, p)
  PROVE  Matches!Forfeit(d)
<1>1. /\ ~ended[d] /\ UNCHANGED <<seat, round, revealed, wins>>
      /\ winner' = [winner EXCEPT ![d] = p]
      /\ ended' = [ended EXCEPT ![d] = TRUE]
      /\ p # None
  BY DuelAssumption DEF ClaimTimeoutWin, ClaimAllowed
<1>2. \A e \in DuelIds : RoundsPlayed(e)' = RoundsPlayed(e)
  BY <1>1 DEF RoundsPlayed, BothRevealed
<1>3. \A e \in DuelIds : e # d => ResultOf(e)' = ResultOf(e)
  BY <1>1 DEF ResultOf, IInv, TypeOK
<1>4. ResultOf(d) = "open" /\ ResultOf(d)' \in {"p1", "p2"}
  BY <1>1 DEF ResultOf, IInv, TypeOK
<1>5. QED
  BY <1>1, <1>2, <1>3, <1>4 DEF Matches!Forfeit

LEMMA FirstRevealRefines ==
  ASSUME IInv, NEW d \in DuelIds, NEW p \in Players, NEW r \in Rounds,
         NEW h \in Plays, RevealHand(d, p, r, h), ~BothRevealed(d, r)'
  PROVE  UNCHANGED Matches!matchVars
<1>1. PICK s \in Side : s = SideOf(d, p)
  BY Sides
<1>2. /\ round[d] = r /\ ~ended[d] /\ DuelInv(d)
      /\ revealed' = [revealed EXCEPT ![d] = [revealed[d] EXCEPT ![s][r] = h]]
      /\ revealed'[d] = [revealed[d] EXCEPT ![s][r] = h]
      /\ UNCHANGED seat
  BY <1>1, RevealEffect
<1>3. UNCHANGED <<round, ended, winner, wins>>
  BY <1>1, <1>2 DEF RevealHand, BothRevealed, Side
<1>4. \A e \in DuelIds : BothRevealed(e, round[e])' <=> BothRevealed(e, round[e])
  <2>1. ~BothRevealed(d, round[d])' /\ ~BothRevealed(d, round[d])
    BY <1>2, <1>3 DEF DuelInv, Undecided, BothRevealed
  <2>2. ASSUME NEW e \in DuelIds, e # d
        PROVE  BothRevealed(e, round[e])' <=> BothRevealed(e, round[e])
    BY <1>2, <1>3, <2>2 DEF BothRevealed, IInv, TypeOK, Slots
  <2>3. QED
    BY <2>1, <2>2
<1>5. \A e \in DuelIds : RoundsPlayed(e)' = RoundsPlayed(e)
  BY <1>3, <1>4 DEF RoundsPlayed
<1>6. \A e \in DuelIds : ResultOf(e)' = ResultOf(e)
  BY <1>2, <1>3 DEF ResultOf
<1>7. QED
  BY <1>3, <1>5, <1>6 DEF Matches!matchVars

LEMMA SecondRevealRefines ==
  ASSUME IInv, IInv', NEW d \in DuelIds, NEW p \in Players, NEW r \in Rounds,
         NEW h \in Plays, RevealHand(d, p, r, h), BothRevealed(d, r)'
  PROVE  \E X \in {{}, {1}, {2}} : Matches!PlayRound(d, X)
<1>1. PICK s \in Side : s = SideOf(d, p)
  BY Sides
<1>2. /\ DuelInv(d) /\ Exists(d) /\ ~ended[d]
      /\ round[d] = r
      /\ UNCHANGED <<seat, commitment>>
      /\ revealed' = [revealed EXCEPT ![d] = [revealed[d] EXCEPT ![s][r] = h]]
      /\ revealed'[d] = [revealed[d] EXCEPT ![s][r] = h]
  BY <1>1, RevealEffect
<1>3. PICK X \in {{}, {1}, {2}}, w \in [Side -> 0..RoundsToWin] :
        /\ w = [z \in Side |-> IF z \in X THEN wins[d][z] + 1 ELSE wins[d][z]]
        /\ wins' = [wins EXCEPT ![d] = w]
        /\ DuelOutcome(w, r) = "continue" =>
             /\ round' = [round EXCEPT ![d] = @ + 1]
             /\ UNCHANGED <<ended, winner>>
             /\ r < RoundLimit /\ \A z \in Side : w[z] < RoundsToWin
        /\ DuelOutcome(w, r) # "continue" =>
             /\ UNCHANGED round
             /\ ended' = [ended EXCEPT ![d] = TRUE]
             /\ winner' = [winner EXCEPT ![d] =
                             IF w[1] > w[2] THEN seat[d][1]
                             ELSE IF w[2] > w[1] THEN seat[d][2] ELSE None]
             /\ (\E z \in Side : w[z] = RoundsToWin) \/ r = RoundLimit
  BY SecondRevealEffect
<1> DEFINE goesOn == DuelOutcome(w, r) = "continue"
           decided == (\E z \in Side : w[z] >= RoundsToWin) \/ r = RoundLimit
<1>4. r \in Int /\ 1 <= r /\ r <= RoundLimit /\ RoundLimit \in Nat
  BY <1>2, RoundArithmetic
<1>5. goesOn <=> ~decided
  BY <1>3, <1>4, DuelAssumption DEF Side
<1> HIDE DEF goesOn, decided
<1>6. RoundsPlayed(d) = r - 1 /\ RoundsPlayed(d)' = r
  <2>1. ~BothRevealed(d, round[d])
    BY <1>2 DEF DuelInv, Undecided
  <2>2. CASE goesOn
    <3>1. round'[d] = r + 1 /\ ~ended'[d]
      BY <1>2, <1>3, <2>2 DEF IInv, TypeOK, goesOn
    <3>2. ~BothRevealed(d, round[d])'
      BY <3>1 DEF IInv, DuelInv, Undecided
    <3>3. QED
      BY <1>2, <1>4, <2>1, <3>1, <3>2 DEF RoundsPlayed
  <2>3. CASE ~goesOn
    BY <1>2, <1>3, <2>1, <2>3 DEF RoundsPlayed, BothRevealed, goesOn
  <2>4. QED
    BY <2>2, <2>3
<1>7. ASSUME NEW e \in DuelIds, e # d
      PROVE  RoundsPlayed(e)' = RoundsPlayed(e) /\ ResultOf(e)' = ResultOf(e)
  <2>1. /\ round'[e] = round[e] /\ ended'[e] = ended[e]
        /\ winner'[e] = winner[e] /\ seat'[e] = seat[e]
    BY <1>2, <1>3, <1>7 DEF IInv, TypeOK
  <2>2. revealed'[e] = revealed[e]
    BY <1>2, <1>7 DEF IInv, TypeOK, Slots
  <2>3. QED
    BY <2>1, <2>2 DEF RoundsPlayed, ResultOf, BothRevealed
<1>8. ResultOf(d) = "open"
  BY <1>2 DEF ResultOf
<1>9. ResultOf(d)' = IF decided THEN Matches!Ahead(w) ELSE "open"
  <2>1. CASE goesOn
    BY <1>2, <1>3, <1>5, <2>1 DEF ResultOf, goesOn
  <2>2. CASE ~goesOn
    <3>1. ended'[d] /\ winner'[d] = IF w[1] > w[2] THEN seat[d][1]
                                    ELSE IF w[2] > w[1] THEN seat[d][2] ELSE None
      BY <1>2, <1>3, <2>2 DEF IInv, TypeOK, goesOn
    <3>2. seat[d][1] # None /\ seat[d][2] # None
      BY <1>2 DEF DuelInv, Seated, Exists
    <3>3. seat[d][1] # seat[d][2]
      <4>1. commitment[d][2][r] # None
        <5>1. revealed'[d][2][r] # None /\ InOrder(d)'
          BY DEF IInv, DuelInv, BothRevealed, Side
        <5>2. revealed'[d][2][r] \in Plays /\ commitment'[d][2][r] = commitment[d][2][r]
          BY <1>2, <5>1 DEF IInv, TypeOK, Slots, Side
        <5>3. Seal[revealed'[d][2][r]] = commitment'[d][2][r]
          BY <5>1 DEF InOrder, Side
        <5>4. QED
          BY <5>2, <5>3, DuelAssumption
      <4>2. QED
        BY <1>2, <4>1 DEF DuelInv, Seated
    <3>4. w[1] \in Int /\ w[2] \in Int
      BY DuelAssumption DEF Side
    <3>5. ~(w[1] > w[2] /\ w[2] > w[1])
      BY <3>4
    <3>6. QED
      BY <1>2, <1>5, <2>2, <3>1, <3>2, <3>3, <3>5 DEF ResultOf, Matches!Ahead
  <2>3. QED
    BY <2>1, <2>2
<1>10. Side = 1..2
  BY DEF Side
<1>11. /\ [e \in DuelIds |-> RoundsPlayed(e)]'
            = [[e \in DuelIds |-> RoundsPlayed(e)] EXCEPT ![d] = @ + 1]
       /\ [e \in DuelIds |-> ResultOf(e)]'
            = [[e \in DuelIds |-> ResultOf(e)] EXCEPT ![d] =
                 IF decided THEN Matches!Ahead(w) ELSE "open"]
  <2>1. \A e \in DuelIds :
          RoundsPlayed(e)' = IF e = d THEN RoundsPlayed(d) + 1 ELSE RoundsPlayed(e)
    BY <1>4, <1>6, <1>7
  <2>2. \A e \in DuelIds :
          ResultOf(e)' = IF e = d THEN IF decided THEN Matches!Ahead(w) ELSE "open"
                         ELSE ResultOf(e)
    BY <1>7, <1>9
  <2>3. [e \in DuelIds |-> RoundsPlayed(e)']
          = [[e \in DuelIds |-> RoundsPlayed(e)] EXCEPT ![d] = @ + 1]
    BY <2>1
  <2>4. [e \in DuelIds |-> ResultOf(e)']
          = [[e \in DuelIds |-> ResultOf(e)] EXCEPT ![d] =
               IF decided THEN Matches!Ahead(w) ELSE "open"]
    BY <2>2
  <2>5. QED
    BY <2>3, <2>4
<1>12. w = [z \in 1..2 |-> IF z \in X THEN wins[d][z] + 1 ELSE wins[d][z]]
  BY <1>3, <1>10
<1>13. decided <=> \/ \E z \in 1..2 : w[z] >= RoundsToWin
                   \/ [e \in DuelIds |-> RoundsPlayed(e)][d] + 1 = RoundLimit
  BY <1>4, <1>6, <1>10 DEF decided
<1>14. [e \in DuelIds |-> RoundsPlayed(e)][d] < RoundLimit
  BY <1>4, <1>6
<1>15. wins' = [wins EXCEPT ![d] = w]
  BY <1>3
<1> HIDE DEF decided
<1>16. Matches!PlayRound(d, X)
  BY <1>8, <1>11, <1>12, <1>13, <1>14, <1>15 DEF Matches!PlayRound
<1>17. QED
  BY <1>16

LEMMA StepRefines ==
  IInv /\ IInv' /\ [Next]_vars => [Matches!MatchNext]_Matches!matchVars
<1> SUFFICES ASSUME IInv, IInv', [Next]_vars
             PROVE  Matches!MatchNext \/ UNCHANGED Matches!matchVars
  OBVIOUS
<1>1. ASSUME NEW d \in DuelIds, NEW p \in Players, NEW r \in Rounds,
             NEW h \in Plays, RevealHand(d, p, r, h)
      PROVE  Matches!MatchNext \/ UNCHANGED Matches!matchVars
  BY <1>1, FirstRevealRefines, SecondRevealRefines DEF Matches!MatchNext
<1>2. ASSUME NEW d \in DuelIds, NEW p \in Players, ClaimTimeoutWin(d, p)
      PROVE  Matches!MatchNext
  BY <1>2, TimeoutRefines DEF Matches!MatchNext
<1>3. ASSUME NEW d \in DuelIds, NEW p \in Players, NEW q \in Players,
             InitDuel(d, p, q)
      PROVE  UNCHANGED Matches!matchVars
  <2>1. \A e \in DuelIds : ended[e] => seat'[e] = seat[e]
    BY <1>3 DEF InitDuel, IInv, DuelInv, Seated
  <2>2. QED
    BY <1>3, <2>1, StutterRefines DEF InitDuel
<1>4. ASSUME UNCHANGED <<seat, round, ended, winner, revealed, wins>>
      PROVE  UNCHANGED Matches!matchVars
  BY <1>4, StutterRefines
<1>5. QED
  BY <1>1, <1>2, <1>3, <1>4
  DEF Next, ProgramStep, vars, duelVars, CommitHand, ClaimBattleLoot, RefillEnergy,
      AdvanceWindow, Tick

\* Read as rounds, tallies and verdicts, the accounts behave as the matches of
\* the abstract specification: reveal by reveal, claim by claim.
THEOREM DuelsImplementMatches == Spec => DuelsAreMatches
  BY InitRefines, StepRefines, Invariance, PTL
  DEF Spec, DuelsAreMatches, Matches!MatchSpec
=============================================================================

-------------------------------- MODULE Duel --------------------------------
(***************************************************************************)
(* The on-chain commit/reveal duel: init_duel, commit_hand, reveal_hand,   *)
(* claim_timeout_win and claim_battle_loot over the DuelState accounts, the*)
(* players' energy and their card vaults.                                  *)
(*                                                                         *)
(* A "play" is an array of ten card ids together with its salt.  Seal is   *)
(* the commitment recomputed from a play: pack_cards adds the ids up at    *)
(* fixed offsets and hashes the sum with the salt, so plays of equal sums  *)
(* share a seal.  Provable are the plays the circuit accepts (five distinct*)
(* ids in 1..60, the rest 0), Field the ids of a play in 1..60, and        *)
(* BattlePower the BP totals damage_calc computes from two revealed plays. *)
(*                                                                         *)
(* Timestamps appear in the code only as differences from an anchor, so    *)
(* the model keeps ages: idle[d] is now - max(last_progress_at, started_at)*)
(* of duel d and regenAge[p] is now - last_energy_regen_at of player p,    *)
(* each saturating where a longer wait changes nothing.                    *)
(***************************************************************************)
EXTENDS EnergyMath, FiniteSets

CONSTANTS
  Players,       \* wallets
  DuelIds,       \* the duel_id values DuelState accounts are derived from
  Species,       \* card species (1..60 in the code)
  Plays,         \* arrays of card ids with their salts
  Provable,      \* the plays a valid proof can commit
  Commitments,   \* field elements
  Seal,          \* [Plays -> Commitments], compute_hand_commitment
  Field,         \* [Plays -> SUBSET Species]
  BattlePower,   \* [Plays \X Plays \X Rounds -> Nat \X Nat]
  RoundLimit,    \* rounds in a duel (5)
  RoundsToWin,   \* DuelState::ROUNDS_TO_WIN (3)
  StallTimeout,  \* DUEL_STALL_TIMEOUT_SECONDS (600), in ticks
  EnergyCost,    \* ENERGY_COST_PER_DUEL (1)
  Registered,    \* players with deposit_amount > 0
  StartVault,    \* [Players -> SUBSET Species], what each owns at the start
  None           \* the all-zero commitment, hand or key

Side == {1, 2}
Other(s) == 3 - s
Rounds == 1..RoundLimit

ASSUME DuelAssumption ==
  /\ RoundLimit \in Nat \ {0}
  /\ RoundsToWin \in Nat \ {0}
  /\ StallTimeout \in Nat
  /\ EnergyCost \in 0..EnergyMax
  /\ Provable \subseteq Plays
  /\ Seal \in [Plays -> Commitments]
  /\ Field \in [Plays -> SUBSET Species]
  /\ BattlePower \in [Plays \X Plays \X Rounds -> Nat \X Nat]
  /\ Registered \subseteq Players
  /\ StartVault \in [Players -> SUBSET Species]
  /\ None \notin Plays \cup Commitments
  /\ None \notin Players
  /\ IsFiniteSet(Species)

VARIABLES
  seat,        \* [DuelIds -> [Side -> player_1 / player_2]]; None: no account
  round,       \* the current round of each duel
  ended,       \* ended_at # 0
  winner,      \* the winner's key; None is Pubkey::default()
  commitment,  \* player_N_commitment, per duel, side and round
  revealed,    \* player_N_revealed with player_N_salt
  wins,        \* player_N_round_wins
  idle,        \* time since last progress, saturating at StallTimeout
  energy,      \* PlayerState.energy
  regenAge,    \* time since the energy anchor, saturating at a full regen
  vault,       \* species each player owns (PlayerState.vault)
  looted,      \* duels whose DuelLootRecord exists
  window,      \* the season's collection window
  charged      \* history: duel entries each player has paid for

duelVars == <<seat, round, ended, winner, commitment, revealed, wins, idle>>
playerVars == <<energy, regenAge, charged>>
lootVars == <<vault, looted, window>>
vars == <<duelVars, playerVars, lootVars>>

-----------------------------------------------------------------------------
Exists(d) == seat[d][1] # None

Participant(d, p) == Exists(d) /\ \E s \in Side : seat[d][s] = p

\* is_p1 is tested first: a wallet seated twice always acts as player 1.
SideOf(d, p) == IF seat[d][1] = p THEN 1 ELSE 2

FullRegen == EnergyMax * RegenInterval

\* (Mutant of RoundPoint: a tie scores for both.)
TieScoresBoth(bp) == {s \in Side : bp[s] >= bp[Other(s)]}

\* round_point: the side with more battle power scores, equal totals do not.
RoundPoint(bp) ==
  IF bp[1] > bp[2] THEN {1} ELSE IF bp[2] > bp[1] THEN {2} ELSE {}

\* duel_outcome after round r with w[s] rounds won by side s.
DuelOutcome(w, r) ==
  IF w[1] >= RoundsToWin \/ w[2] >= RoundsToWin
    THEN IF w[1] > w[2] THEN "p1" ELSE "p2"
  ELSE IF r < RoundLimit THEN "continue"
  ELSE IF w[1] > w[2] THEN "p1"
  ELSE IF w[2] > w[1] THEN "p2"
  ELSE "draw"

\* (Mutants of OpponentIsStalled: the claimant's own reveal not asked for; a
\* missing reveal not counted as a stall.)
StalledWithoutOwnReveal(myCommit, oppCommit, myReveal, oppReveal) ==
  myCommit /\ (~oppCommit \/ ~oppReveal)
StalledOnCommitOnly(myCommit, oppCommit, myReveal, oppReveal) ==
  myCommit /\ ~oppCommit

\* opponent_is_stalled, from the four presence flags of the current round.
OpponentIsStalled(myCommit, oppCommit, myReveal, oppReveal) ==
  \/ myCommit /\ ~oppCommit
  \/ myCommit /\ oppCommit /\ myReveal /\ ~oppReveal

\* derive_loot_pool: the species side s revealed in any round, still owned.
LootPool(d, s) ==
  {c \in vault[seat[d][s]] :
     \E r \in Rounds : revealed[d][s][r] # None /\ c \in Field[revealed[d][s][r]]}

-----------------------------------------------------------------------------
Blank == [s \in Side |-> [r \in Rounds |-> None]]

Init ==
  /\ seat = [d \in DuelIds |-> [s \in Side |-> None]]
  /\ round = [d \in DuelIds |-> 1]
  /\ ended = [d \in DuelIds |-> FALSE]
  /\ winner = [d \in DuelIds |-> None]
  /\ commitment = [d \in DuelIds |-> Blank]
  /\ revealed = [d \in DuelIds |-> Blank]
  /\ wins = [d \in DuelIds |-> [s \in Side |-> 0]]
  /\ idle = [d \in DuelIds |-> 0]
  \* A new PlayerState has energy 0 and anchor 0, so it regenerates to full.
  /\ energy = [p \in Players |-> 0]
  /\ regenAge = [p \in Players |-> FullRegen]
  /\ vault = StartVault
  /\ looted = {}
  /\ window = "before"
  /\ charged = [p \in Players |-> 0]

\* init_duel: anyone may create the account of an unused duel_id and seat any
\* two wallets in it, the same one twice included.
InitDuel(d, p, q) ==
  /\ ~Exists(d)
  /\ seat' = [seat EXCEPT ![d] = [s \in Side |-> IF s = 1 THEN p ELSE q]]
  /\ idle' = [idle EXCEPT ![d] = 0]
  /\ UNCHANGED <<round, ended, winner, commitment, revealed, wins,
                 playerVars, lootVars>>

\* (Mutants of CommitAllowed: the WrongRound guard, the AlreadyCommitted guard
\* dropped.)
CommitInAnyRound(d, p, r) ==
  Participant(d, p) /\ ~ended[d] /\ commitment[d][SideOf(d, p)][r] = None
CommitAgain(d, p, r) == Participant(d, p) /\ ~ended[d] /\ round[d] = r

\* What commit_hand requires: a live duel, the current round, once per side.
CommitAllowed(d, p, r) ==
  /\ Participant(d, p)
  /\ ~ended[d]
  /\ round[d] = r
  /\ commitment[d][SideOf(d, p)][r] = None

\* (Mutant of PaysEntry: a commitment of any round pays.)
PaysEveryRound(d, p, r) == commitment[d][SideOf(d, p)][r] = None

\* first_commit: entry is paid with the commitment of round 1, unless one of the
\* player's side is stored already.
PaysEntry(d, p, r) == r = 1 /\ commitment[d][SideOf(d, p)][1] = None

\* commit_hand: store the commitment of the play h a valid proof knows.
CommitHand(d, p, r, h) ==
  /\ h \in Provable
  /\ CommitAllowed(d, p, r)
  /\ IF PaysEntry(d, p, r)
       THEN LET acct == SettleAndSpend(energy[p], 0, regenAge[p], EnergyCost) IN
            /\ CanSpend(energy[p], 0, regenAge[p], EnergyCost)
            /\ energy' = [energy EXCEPT ![p] = acct.energy]
            /\ regenAge' = [regenAge EXCEPT ![p] = 0]
            /\ charged' = [charged EXCEPT ![p] = @ + 1]
       ELSE UNCHANGED playerVars
  /\ commitment' = [commitment EXCEPT ![d][SideOf(d, p)][r] = Seal[h]]
  /\ idle' = [idle EXCEPT ![d] = 0]
  /\ UNCHANGED <<seat, round, ended, winner, revealed, wins, lootVars>>

\* The second half of reveal_hand: score round r of duel d from the two
\* revealed plays, then decide the duel or move to the next round.
ResolveRound(d, r, rev) ==
  LET bp == BattlePower[<<rev[1][r], rev[2][r], r>>]
      w == [s \in Side |->
              IF s \in RoundPoint(bp) THEN wins[d][s] + 1 ELSE wins[d][s]]
      outcome == DuelOutcome(w, r)
  IN /\ wins' = [wins EXCEPT ![d] = w]
     /\ IF outcome = "continue"
          THEN /\ round' = [round EXCEPT ![d] = @ + 1]
               /\ UNCHANGED <<ended, winner>>
          ELSE /\ ended' = [ended EXCEPT ![d] = TRUE]
               /\ winner' = [winner EXCEPT ![d] =
                               IF outcome = "p1" THEN seat[d][1]
                               ELSE IF outcome = "p2" THEN seat[d][2]
                               ELSE None]
               /\ UNCHANGED round

\* (Mutant of RevealAllowed: the HandAlreadyRevealed guard dropped.)
RevealAgain(d, p, r, h) ==
  /\ Participant(d, p) /\ ~ended[d]
  /\ commitment[d][SideOf(d, p)][r] = Seal[h]
  /\ Field[h] \subseteq vault[p]

\* What reveal_hand requires: a play with the stored seal, once, its species in
\* the LIVE vault.  Neither duel.round nor the opponent's commitment is looked at.
RevealAllowed(d, p, r, h) ==
  LET s == SideOf(d, p) IN
  /\ Participant(d, p)
  /\ ~ended[d]
  /\ commitment[d][s][r] # None
  /\ revealed[d][s][r] = None
  /\ commitment[d][s][r] = Seal[h]
  /\ Field[h] \subseteq vault[p]

\* reveal_hand: publish the play, and resolve the round when this completes
\* its pair of reveals.
RevealHand(d, p, r, h) ==
  LET rev == [revealed[d] EXCEPT ![SideOf(d, p)][r] = h]
  IN /\ RevealAllowed(d, p, r, h)
     /\ revealed' = [revealed EXCEPT ![d] = rev]
     /\ idle' = [idle EXCEPT ![d] = 0]
     /\ IF rev[1][r] # None /\ rev[2][r] # None
          THEN ResolveRound(d, r, rev)
          ELSE UNCHANGED <<round, ended, winner, wins>>
     /\ UNCHANGED <<seat, commitment, playerVars, lootVars>>

\* What claim_timeout_win requires: a full stall, in which the claimant's side
\* has done its part of the current round and the other has not.
ClaimAllowed(d, p) ==
  LET s == SideOf(d, p)
      r == round[d]
      Committed(t) == commitment[d][t][r] # None
      Revealed(t) == revealed[d][t][r] # None
  IN /\ Participant(d, p)
     /\ ~ended[d]
     /\ idle[d] >= StallTimeout
     /\ OpponentIsStalled(Committed(s), Committed(Other(s)),
                          Revealed(s), Revealed(Other(s)))

\* claim_timeout_win: the claimant takes the duel.
ClaimTimeoutWin(d, p) ==
  /\ ClaimAllowed(d, p)
  /\ winner' = [winner EXCEPT ![d] = p]
  /\ ended' = [ended EXCEPT ![d] = TRUE]
  /\ UNCHANGED <<seat, round, commitment, revealed, wins, idle,
                 playerVars, lootVars>>

\* refill_energy: pay the fee, fill to the maximum, restart the regen clock.
RefillEnergy(p) ==
  /\ energy' = [energy EXCEPT ![p] = EnergyMax]
  /\ regenAge' = [regenAge EXCEPT ![p] = 0]
  /\ UNCHANGED <<charged, duelVars, lootVars>>

\* (Mutant of LootAllowed: no loot record, so the duel can be looted again.)
LootAgain(d, p, loser) ==
  /\ Exists(d) /\ ended[d] /\ winner[d] = p /\ loser # p
  /\ window = "open" /\ {p, loser} \subseteq Registered

\* What claim_battle_loot requires: p won the ended duel d, it was not looted
\* before, the collection window is open and both players are registered.
LootAllowed(d, p, loser) ==
  /\ Exists(d)
  /\ ended[d]
  /\ winner[d] = p
  /\ loser # p
  /\ d \notin looted
  /\ window = "open"
  /\ {p, loser} \subseteq Registered

\* claim_battle_loot: the winner takes one species the loser revealed and still
\* owns; the slot hash picks c from the pool.
ClaimBattleLoot(d, p, c) ==
  LET s == IF seat[d][1] # p THEN 1 ELSE 2   \* the loser's side
      loser == seat[d][s]
  IN /\ LootAllowed(d, p, loser)
     /\ c \in LootPool(d, s)
     /\ vault' = [vault EXCEPT ![loser] = @ \ {c}, ![p] = @ \cup {c}]
     /\ looted' = looted \cup {d}
     /\ UNCHANGED <<window, duelVars, playerVars>>

\* require_collection_open turns true when the season is active and started,
\* and false for good at its end or with the first tally batch.
AdvanceWindow ==
  /\ \/ window = "before" /\ window' = "open"
     \/ window = "open" /\ window' = "frozen"
  /\ UNCHANGED <<vault, looted, duelVars, playerVars>>

\* One tick of the validator clock; ages saturate.
Tick ==
  /\ idle' = [d \in DuelIds |->
                IF Exists(d) /\ ~ended[d] /\ idle[d] < StallTimeout
                  THEN idle[d] + 1 ELSE idle[d]]
  /\ regenAge' = [p \in Players |->
                    IF regenAge[p] < FullRegen THEN regenAge[p] + 1
                                               ELSE regenAge[p]]
  /\ UNCHANGED <<seat, round, ended, winner, commitment, revealed, wins,
                 energy, charged, lootVars>>

\* A transaction of anyone, or a change of the season.
ProgramStep ==
  \/ \E d \in DuelIds, p, q \in Players : InitDuel(d, p, q)
  \/ \E d \in DuelIds, p \in Players, r \in Rounds, h \in Plays :
       \/ CommitHand(d, p, r, h)
       \/ RevealHand(d, p, r, h)
  \/ \E d \in DuelIds, p \in Players : ClaimTimeoutWin(d, p)
  \/ \E d \in DuelIds, p \in Players, c \in Species : ClaimBattleLoot(d, p, c)
  \/ \E p \in Players : RefillEnergy(p)
  \/ AdvanceWindow

Next == ProgramStep \/ Tick

Spec == Init /\ [][Next]_vars

-----------------------------------------------------------------------------
(***************************************************************************)
(* Properties.                                                             *)
(***************************************************************************)
Slots(S) == [DuelIds -> [Side -> [Rounds -> S]]]

\* Every account field stays in its range; in particular the round counter
\* stays within the five rows of the DuelState arrays it indexes.
TypeOK ==
  /\ seat \in [DuelIds -> [Side -> Players \cup {None}]]
  /\ round \in [DuelIds -> Rounds]
  /\ ended \in [DuelIds -> BOOLEAN]
  /\ winner \in [DuelIds -> Players \cup {None}]
  /\ commitment \in Slots(Commitments \cup {None})
  /\ revealed \in Slots(Plays \cup {None})
  /\ wins \in [DuelIds -> [Side -> 0..RoundsToWin]]
  /\ idle \in [DuelIds -> 0..StallTimeout]
  /\ energy \in [Players -> 0..EnergyMax]
  /\ regenAge \in [Players -> 0..FullRegen]
  /\ vault \in [Players -> SUBSET Species]
  /\ looted \subseteq DuelIds
  /\ window \in {"before", "open", "frozen"}
  /\ charged \in [Players -> Nat]

BothRevealed(d, r) == \A s \in Side : revealed[d][s][r] # None

\* reveal_hand has no check against duel.round, yet play goes strictly round
\* by round: earlier rounds are fully revealed by both sides, later ones
\* untouched, and every revealed play opens the commitment of its owner.
InOrder(d) ==
  \A r \in Rounds :
    /\ r < round[d] => BothRevealed(d, r)
    /\ r > round[d] => \A s \in Side : commitment[d][s][r] = None
    /\ \A s \in Side : revealed[d][s][r] # None
                         => Seal[revealed[d][s][r]] = commitment[d][s][r]
RoundsInOrder == \A d \in DuelIds : InOrder(d)

\* A live duel always has something left to decide: its current round is not
\* fully revealed and nobody has a majority yet.
Undecided(d) ==
  ~ended[d] => /\ ~BothRevealed(d, round[d])
               /\ \A s \in Side : wins[d][s] < RoundsToWin
OpenMeansUndecided == \A d \in DuelIds : Undecided(d)

\* The rounds side s won, replayed from the revealed hands alone.
RoundsWonBy(d, s) ==
  {r \in Rounds : /\ BothRevealed(d, r)
                  /\ s \in RoundPoint(BattlePower[<<revealed[d][1][r],
                                                    revealed[d][2][r], r>>])}

\* Each round is scored exactly once: the running tallies are always what a
\* replay of the revealed hands gives.
TallyIsReplay ==
  \A d \in DuelIds, s \in Side :
    wins[d][s] = Cardinality(RoundsWonBy(d, s))

\* Side s has acted in the current round of d as far as it can without its
\* opponent, who has not.
OpponentOwes(d, s) ==
  LET r == round[d] IN
  /\ commitment[d][s][r] # None
  /\ \/ commitment[d][Other(s)][r] = None
     \/ revealed[d][s][r] # None /\ revealed[d][Other(s)][r] = None

\* A verdict is justified by the account it stands in: a duel played out goes
\* to the side ahead (to nobody only after the last round, at equal wins), a
\* duel cut short goes to a side whose opponent owed the next action.  So a
\* player who has done their part of every round is never beaten by a timeout.
Justified(d) ==
  ended[d] =>
    IF BothRevealed(d, round[d])
      THEN /\ \/ \E s \in Side : wins[d][s] = RoundsToWin
              \/ round[d] = RoundLimit
           /\ winner[d] = IF wins[d][1] > wins[d][2] THEN seat[d][1]
                          ELSE IF wins[d][2] > wins[d][1] THEN seat[d][2]
                          ELSE None
      ELSE \E s \in Side : winner[d] = seat[d][s] /\ OpponentOwes(d, s)
VerdictJustified == \A d \in DuelIds : Justified(d)

\* What a duel id no account exists for looks like, that both seats of an
\* account are taken, and that a wallet in both seats only acts as player 1:
\* the facts about seats the other invariants and the refinement rest on.
Seated(d) ==
  IF Exists(d)
    THEN /\ seat[d][2] # None
         /\ seat[d][1] = seat[d][2] => \A r \in Rounds : commitment[d][2][r] = None
    ELSE /\ seat[d][2] = None
         /\ ~ended[d] /\ round[d] = 1
         /\ commitment[d] = Blank /\ revealed[d] = Blank
         /\ wins[d] = [s \in Side |-> 0]

\* The inductive invariant: each duel on its own, and the types.
DuelInv(d) == Seated(d) /\ InOrder(d) /\ Undecided(d) /\ Justified(d)
IInv == TypeOK /\ \A d \in DuelIds : DuelInv(d)

\* Duel entry is charged exactly once per duel and player, in the first of its
\* rounds, whatever the re-commits attempted or the seats taken.
EnteredDuels(p) ==
  {d \in DuelIds : Participant(d, p) /\ commitment[d][SideOf(d, p)][1] # None}
EntryChargedOnce == \A p \in Players : charged[p] = Cardinality(EnteredDuels(p))

\* A lost duel costs its loser at most one card, over any number of claims.
LootBounded ==
  \A p \in Players :
    Cardinality(StartVault[p]) <=
      Cardinality(vault[p])
        + Cardinality({d \in looted : Participant(d, p) /\ winner[d] # p})

\* Once written, a commitment, a reveal and a verdict never change, and an
\* ended duel takes no further action.
AppendOnly(d) ==
  /\ \A s \in Side, r \in Rounds :
       /\ commitment[d][s][r] # None => commitment'[d][s][r] = commitment[d][s][r]
       /\ revealed[d][s][r] # None => revealed'[d][s][r] = revealed[d][s][r]
  /\ ended[d] => /\ <<ended[d], winner[d], round[d], wins[d]>>'
                      = <<ended[d], winner[d], round[d], wins[d]>>
                 /\ <<commitment[d], revealed[d]>>' = <<commitment[d], revealed[d]>>
AccountIsAppendOnly == [][\A d \in DuelIds : AppendOnly(d)]_vars

\* The duel accounts implement Match: a round counts as played once both hands
\* of it are revealed, and a verdict is read off the winner's seat.
RoundsPlayed(d) == IF BothRevealed(d, round[d]) THEN round[d] ELSE round[d] - 1
ResultOf(d) ==
  IF ~ended[d] THEN "open"
  ELSE IF winner[d] = None THEN "draw"
  ELSE IF winner[d] = seat[d][1] THEN "p1" ELSE "p2"
Matches ==
  INSTANCE Match WITH
    played <- [d \in DuelIds |-> RoundsPlayed(d)],
    score  <- wins,
    result <- [d \in DuelIds |-> ResultOf(d)]
DuelsAreMatches == Matches!MatchSpec
=============================================================================

---------------------------- MODULE BattleClient ----------------------------
(***************************************************************************)
(* The two browsers of one duel, over the accounts of Duel: the screens    *)
(* preparation, interruption, reveal and loot, the battle state they share,*)
(* the transactions they await, and the hands they show each other through *)
(* the relay.                                                              *)
(*                                                                         *)
(* A call is simulated, signed, sent and awaited (buildAndSend).  It may   *)
(* fail before anything is sent, and it may fail to hear of a transaction  *)
(* that lands all the same.  A confirmation does not say that the program  *)
(* accepted: the error field of confirmTransaction is never read.  A play  *)
(* is a hand with the salt drawn for it, so a retry seals another play.    *)
(* Meanwhile the program goes on with other duels, whose loot may take a   *)
(* card of a hand that is put up here.                                     *)
(*                                                                         *)
(* Only the clients in Steady are without accidents: their wallet signs   *)
(* what the screen in front of it asks, no answer is lost, the page is not *)
(* reloaded, and they enter no other duel meanwhile.                       *)
(***************************************************************************)
EXTENDS Duel

CONSTANTS
  TheDuel,   \* the duel_id the server gave both
  Host,      \* the client that initialises the account and sits in seat 1
  Guest,
  Steady     \* the clients without accidents

Clients == {Host, Guest}
Rival(p) == IF p = Host THEN Guest ELSE Host
SeatOf(p) == IF p = Host THEN 1 ELSE 2

Screens == {"preparation", "interruption", "reveal", "loot", "home"}
Ops == {"init", "commit", "reveal", "claim"}

\* Transactions, awaited calls, and what the bridge to the next round shows.
Transaction == [op : Ops, round : Rounds, play : Plays \cup {None}]
Call == [tx : Transaction, sent : BOOLEAN]
Bridge == [round : Rounds, wins : [Side -> 0..RoundsToWin]]

ASSUME ClientAssumption ==
  /\ TheDuel \in DuelIds
  /\ Host \in Players /\ Guest \in Players /\ Host # Guest
  /\ Steady \subseteq {Host, Guest}
  /\ None \notin Call /\ None \notin Bridge

VARIABLES
  screen,     \* the mounted screen
  at,         \* the client's round
  tally,      \* p1RoundWins and p2RoundWins
  victory,    \* isWinner
  hand,       \* the play put up: fieldCards with the salt drawn for them, or None
  salted,     \* whether the salt is still there
  rivalHand,  \* opponentField
  call,       \* the transaction being awaited and whether it was sent, or None
  air,        \* each client's transactions sent and not executed
  relayed,    \* hands on their way through the relay
  stage,      \* the module variables of the reveal screen
  robbed      \* history: <<p, r, h>>, a card of h was taken from p through another
              \* duel while p had h put up for its round r

clientVars == <<screen, at, tally, victory, hand, salted, rivalHand, call, air,
                relayed, stage>>
allVars == <<vars, clientVars, robbed>>

\* What mount resets: _revealReady and _revealFailed, _playbackDone, the seconds
\* waited (saturating at the stall timeout) and the bridge to the next round.
FreshStage == [own |-> "pending", played |-> FALSE, waited |-> 0, bridge |-> None]

ClientStart ==
  /\ screen = [p \in Clients |-> "preparation"]
  /\ at = [p \in Clients |-> 1]
  /\ tally = [p \in Clients |-> [s \in Side |-> 0]]
  /\ victory = [p \in Clients |-> FALSE]
  /\ hand = [p \in Clients |-> None]
  /\ salted = [p \in Clients |-> FALSE]
  /\ rivalHand = [p \in Clients |-> None]
  /\ call = [p \in Clients |-> None]
  /\ air = [p \in Clients |-> {}]
  /\ relayed = {}
  /\ stage = [p \in Clients |-> FreshStage]
  /\ robbed = {}

ClientInit == Init /\ ClientStart

-----------------------------------------------------------------------------
(***************************************************************************)
(* Transactions.                                                           *)
(***************************************************************************)
Tx(op, p, h) == [op |-> op, round |-> at[p], play |-> h]
Awaiting(op, p, h) == [tx |-> Tx(op, p, h), sent |-> FALSE]
IsAwaiting(p, op) == call[p] # None /\ call[p].tx.op = op

\* Whether the program accepts a transaction of p now, which is also what the
\* simulation before the wallet prompt answers.
Accepted(p, tx) ==
  CASE tx.op = "init"   -> ~Exists(TheDuel)
    [] tx.op = "commit" -> /\ tx.play \in Provable
                           /\ CommitAllowed(TheDuel, p, tx.round)
                           /\ PaysEntry(TheDuel, p, tx.round)
                                => CanSpend(energy[p], 0, regenAge[p], EnergyCost)
    [] tx.op = "reveal" -> RevealAllowed(TheDuel, p, tx.round, tx.play)
    [] tx.op = "claim"  -> ClaimAllowed(TheDuel, p)

Executes(p, tx) ==
  \/ tx.op = "init" /\ InitDuel(TheDuel, Host, Guest)
  \/ tx.op = "commit" /\ CommitHand(TheDuel, p, tx.round, tx.play)
  \/ tx.op = "reveal" /\ RevealHand(TheDuel, p, tx.round, tx.play)
  \/ tx.op = "claim" /\ ClaimTimeoutWin(TheDuel, p)

\* The simulation passes, the wallet signs and the transaction is sent.
Send(p) ==
  /\ call[p] # None /\ ~call[p].sent
  /\ Accepted(p, call[p].tx)
  /\ call' = [call EXCEPT ![p].sent = TRUE]
  /\ air' = [air EXCEPT ![p] = @ \cup {call[p].tx}]
  /\ UNCHANGED <<vars, robbed, salted, screen, at, tally, victory, hand,
                 rivalHand, relayed, stage>>

\* A transaction is executed, or included without effect when the program
\* refuses it by now.
Land(p, tx) ==
  /\ tx \in air[p]
  /\ air' = [air EXCEPT ![p] = @ \ {tx}]
  /\ IF Accepted(p, tx) THEN Executes(p, tx) ELSE UNCHANGED vars
  /\ UNCHANGED <<robbed, salted, screen, at, tally, victory, hand, rivalHand,
                 call, relayed, stage>>

\* A transaction nobody awaits any more expires.
Expire(p, tx) ==
  /\ p \notin Steady
  /\ tx \in air[p] /\ ~(call[p] # None /\ call[p].tx = tx)
  /\ air' = [air EXCEPT ![p] = @ \ {tx}]
  /\ UNCHANGED <<vars, robbed, salted, screen, at, tally, victory, hand,
                 rivalHand, call, relayed, stage>>

\* (Mutant of AfterFailure: a failed seal keeps its commitment.)
KeepsSeal(p, op) == hand[p]

\* What is left of the hand when the call op throws: the catch of onConfirm
\* clears the commitment, and the next attempt puts up a hand with a new salt.
AfterFailure(p, op) == IF op \in {"init", "commit"} THEN None ELSE hand[p]

\* The awaited call throws: the screen unlocks and can be used again.
Throws(p) ==
  LET op == call[p].tx.op IN
  /\ call' = [call EXCEPT ![p] = None]
  /\ hand' = [hand EXCEPT ![p] = AfterFailure(p, op)]
  /\ stage' = IF op = "reveal" THEN [stage EXCEPT ![p].own = "failed"] ELSE stage
  /\ UNCHANGED <<vars, robbed, salted, screen, at, tally, victory, rivalHand,
                 air, relayed>>

\* ... because the simulation reports a program error or the user declines;
SendFails(p) ==
  /\ call[p] # None /\ ~call[p].sent
  /\ p \in Steady => ~Accepted(p, call[p].tx)
  /\ Throws(p)

\* ... or because the confirmation does not come, whatever became of it.
ConfirmationLost(p) ==
  /\ p \notin Steady
  /\ call[p] # None /\ call[p].sent
  /\ Throws(p)

\* (Mutant of Included: sent is taken for included.)
IncludedWhenSent(p, op) == IsAwaiting(p, op) /\ call[p].sent

\* confirmTransaction returns: the transaction was included.
Included(p, op) ==
  IsAwaiting(p, op) /\ call[p].sent /\ call[p].tx \notin air[p]

-----------------------------------------------------------------------------
(***************************************************************************)
(* Preparation and interruption.                                           *)
(***************************************************************************)

\* The host sends initDuel before every commitHand.
FirstCall(p) == IF p = Host THEN "init" ELSE "commit"

\* onConfirm, by the button or the timer, up to its first transaction: the hand
\* is frozen, salted, hashed and proved.
Confirm(p, h) ==
  /\ screen[p] = "preparation"
  /\ call[p] = None /\ hand[p] = None
  /\ h \in Provable /\ Field[h] \subseteq vault[p]
  /\ hand' = [hand EXCEPT ![p] = h]
  /\ call' = [call EXCEPT ![p] = Awaiting(FirstCall(p), p, h)]
  /\ salted' = [salted EXCEPT ![p] = TRUE]
  /\ UNCHANGED <<vars, robbed, screen, at, tally, victory, rivalHand, air,
                 relayed, stage>>

\* onConfirm continues after initDuel.
DuelOpened(p) ==
  /\ Included(p, "init")
  /\ call' = [call EXCEPT ![p] = Awaiting("commit", p, hand[p])]
  /\ UNCHANGED <<vars, robbed, salted, screen, at, tally, victory, hand,
                 rivalHand, air, relayed, stage>>

\* onConfirm continues after commitHand.
HandSealed(p) ==
  /\ Included(p, "commit")
  /\ call' = [call EXCEPT ![p] = None]
  /\ screen' = [screen EXCEPT ![p] = "interruption"]
  /\ UNCHANGED <<vars, robbed, salted, at, tally, victory, hand, rivalHand,
                 air, relayed, stage>>

\* lockIn, by the button or after 60 seconds, and the mount of the reveal
\* screen, which submits the reveal at once when the salt is still there.
LockIn(p) ==
  /\ screen[p] = "interruption"
  /\ screen' = [screen EXCEPT ![p] = "reveal"]
  /\ IF salted[p]
       THEN /\ stage' = [stage EXCEPT ![p] = FreshStage]
            /\ call' = [call EXCEPT ![p] = Awaiting("reveal", p, hand[p])]
       ELSE /\ stage' = [stage EXCEPT ![p] = [FreshStage EXCEPT !.own = "failed"]]
            /\ UNCHANGED call
  /\ UNCHANGED <<vars, robbed, salted, at, tally, victory, hand, rivalHand,
                 air, relayed>>

-----------------------------------------------------------------------------
(***************************************************************************)
(* The reveal screen.                                                      *)
(***************************************************************************)

\* The retry button; without a salt the attempt fails again.
RetryReveal(p) ==
  /\ screen[p] = "reveal" /\ stage[p].own = "failed"
  /\ call[p] = None /\ salted[p]
  /\ call' = [call EXCEPT ![p] = Awaiting("reveal", p, hand[p])]
  /\ stage' = [stage EXCEPT ![p].own = "pending"]
  /\ UNCHANGED <<vars, robbed, salted, screen, at, tally, victory, hand,
                 rivalHand, air, relayed>>

Shown(p) == [from |-> p, round |-> at[p], play |-> hand[p]]

\* submitReveal continues: the hand goes to the opponent through the relay.
RevealConfirmed(p) ==
  /\ Included(p, "reveal")
  /\ call' = [call EXCEPT ![p] = None]
  /\ stage' = [stage EXCEPT ![p].own = "ready"]
  /\ relayed' = relayed \cup {Shown(p)}
  /\ UNCHANGED <<vars, robbed, salted, screen, at, tally, victory, hand,
                 rivalHand, air>>

\* maybeStartResolution: the playback is over and the own reveal is confirmed.
Resolving(p) ==
  screen[p] = "reveal" /\ stage[p].played /\ stage[p].own = "ready"

\* (Mutant of Accepts: the round of the message is not looked at.)
AcceptsAnyRound(p, m) ==
  screen[p] = "reveal" /\ rivalHand[p] = None /\ ~Resolving(p)

\* What the duel_hand_revealed listener takes: the first hand of this round,
\* while the resolution has not begun.
Accepts(p, m) ==
  /\ screen[p] = "reveal" /\ rivalHand[p] = None /\ ~Resolving(p)
  /\ m.round = at[p]

\* The relay delivers a hand to the other client, which may not be listening.
Deliver(p, m) ==
  /\ m \in relayed /\ m.from = Rival(p)
  /\ relayed' = relayed \ {m}
  /\ rivalHand' = IF Accepts(p, m) THEN [rivalHand EXCEPT ![p] = m.play]
                                   ELSE rivalHand
  /\ UNCHANGED <<vars, robbed, salted, screen, at, tally, victory, hand, call,
                 air, stage>>

\* The replay: the seed is read off the account once both have revealed, and
\* damageCalc is run with the own hand first.  Its winner is shown meanwhile.
Replay(p) ==
  /\ screen[p] = "reveal" /\ ~stage[p].played
  /\ rivalHand[p] # None /\ hand[p] # None
  /\ BothRevealed(TheDuel, at[p])
  /\ victory' = [victory EXCEPT ![p] =
       RoundPoint(BattlePower[<<hand[p], rivalHand[p], at[p]>>]) = {1}]
  /\ stage' = [stage EXCEPT ![p].played = TRUE]
  /\ UNCHANGED <<vars, robbed, salted, screen, at, tally, hand, rivalHand,
                 call, air, relayed>>

\* No replay: eight seconds after the own reveal no hand has come, or the seed
\* cannot be read.
SkipReplay(p) ==
  /\ screen[p] = "reveal" /\ ~stage[p].played /\ stage[p].own = "ready"
  /\ stage' = [stage EXCEPT ![p].played = TRUE]
  /\ UNCHANGED <<vars, robbed, salted, screen, at, tally, victory, hand,
                 rivalHand, call, air, relayed>>

\* Leaving the screen does not take back what the wallet still has: a claim not
\* sent yet may be signed later.
Abandon(p) ==
  /\ call' = [call EXCEPT ![p] = None]
  /\ \/ UNCHANGED air
     \/ /\ p \notin Steady
        /\ IsAwaiting(p, "claim") /\ ~call[p].sent
        /\ air' = [air EXCEPT ![p] = @ \cup {call[p].tx}]

\* (Mutant of Result: the player ahead in the tally is shown as the winner.)
ResultByTally(p) == wins[TheDuel][SeatOf(p)] > wins[TheDuel][3 - SeatOf(p)]

\* _endDuel reads the winner off the account.
Result(p) == winner[TheDuel] = p

\* _chainResolve finds the duel ended.
ShowResult(p) ==
  /\ Resolving(p) /\ stage[p].bridge = None
  /\ ended[TheDuel]
  /\ screen' = [screen EXCEPT ![p] = "loot"]
  /\ victory' = [victory EXCEPT ![p] = Result(p)]
  /\ tally' = [tally EXCEPT ![p] = wins[TheDuel]]
  /\ stage' = [stage EXCEPT ![p] = FreshStage]
  /\ Abandon(p)
  /\ UNCHANGED <<vars, robbed, salted, at, hand, rivalHand, relayed>>

\* (Mutant of RoundAdvanced: the current round counts as a later one.)
RoundNotBehind(p) == round[TheDuel] >= at[p]

RoundAdvanced(p) == round[TheDuel] > at[p]

\* _chainResolve finds a later round and shows the bridge to it.
ShowBridge(p) ==
  /\ Resolving(p) /\ stage[p].bridge = None
  /\ ~ended[TheDuel] /\ RoundAdvanced(p)
  /\ stage' = [stage EXCEPT ![p].bridge =
                 [round |-> round[TheDuel], wins |-> wins[TheDuel]]]
  /\ UNCHANGED <<vars, robbed, salted, screen, at, tally, victory, hand,
                 rivalHand, call, air, relayed>>

\* The bridge is over: advanceRound clears the per-round column and mounts the
\* preparation screen.
AdvanceRound(p) ==
  LET next == stage[p].bridge IN
  /\ screen[p] = "reveal" /\ next # None
  /\ screen' = [screen EXCEPT ![p] = "preparation"]
  /\ at' = [at EXCEPT ![p] = next.round]
  /\ tally' = [tally EXCEPT ![p] = next.wins]
  /\ hand' = [hand EXCEPT ![p] = None]
  /\ salted' = [salted EXCEPT ![p] = FALSE]
  /\ rivalHand' = [rivalHand EXCEPT ![p] = None]
  /\ stage' = [stage EXCEPT ![p] = FreshStage]
  /\ Abandon(p)
  /\ UNCHANGED <<vars, robbed, victory, relayed>>

\* The claim button, shown after stallSecs of waiting for the opponent.
ClaimOffered(p) == Resolving(p) /\ stage[p].waited >= StallTimeout

ClaimTimeout(p) ==
  /\ ClaimOffered(p) /\ call[p] = None
  /\ call' = [call EXCEPT ![p] = Awaiting("claim", p, None)]
  /\ UNCHANGED <<vars, robbed, salted, screen, at, tally, victory, hand,
                 rivalHand, air, relayed, stage>>

\* _onClaimTimeout continues; the polls that follow find the verdict.
ClaimConfirmed(p) ==
  /\ Included(p, "claim")
  /\ call' = [call EXCEPT ![p] = None]
  /\ UNCHANGED <<vars, robbed, salted, screen, at, tally, victory, hand,
                 rivalHand, air, relayed, stage>>

\* onContinue: resetBattle and the home screen.
Continue(p) ==
  /\ screen[p] = "loot"
  /\ screen' = [screen EXCEPT ![p] = "home"]
  /\ at' = [at EXCEPT ![p] = 1]
  /\ tally' = [tally EXCEPT ![p] = [s \in Side |-> 0]]
  /\ victory' = [victory EXCEPT ![p] = FALSE]
  /\ hand' = [hand EXCEPT ![p] = None]
  /\ salted' = [salted EXCEPT ![p] = FALSE]
  /\ rivalHand' = [rivalHand EXCEPT ![p] = None]
  /\ UNCHANGED <<vars, robbed, call, air, relayed, stage>>

\* The page is reloaded: the state comes back from sessionStorage without the
\* salt, the proof and the commitment, and its screen is mounted again.  The
\* preparation screen starts from an empty field; the others show the old one.
Reload(p) ==
  /\ p \notin Steady /\ screen[p] # "home"
  /\ salted' = [salted EXCEPT ![p] = FALSE]
  /\ hand' = IF screen[p] = "preparation" THEN [hand EXCEPT ![p] = None] ELSE hand
  /\ call' = [call EXCEPT ![p] = None]
  /\ stage' = [stage EXCEPT ![p] =
       [FreshStage EXCEPT !.own = IF screen[p] = "reveal" THEN "failed" ELSE "pending"]]
  /\ UNCHANGED <<vars, robbed, screen, at, tally, victory, rivalHand, air,
                 relayed>>

\* A tick of the clock, on chain and on the screens that wait.  A transaction of
\* a client without accidents is executed within the life of its blockhash, a
\* minute or so, which is far less than the stall timeout.
ClientTick ==
  /\ \A p \in Steady : air[p] = {}
  /\ Tick
  /\ stage' = [p \in Clients |->
       IF Resolving(p) /\ stage[p].waited < StallTimeout
         THEN [stage[p] EXCEPT !.waited = @ + 1] ELSE stage[p]]
  /\ UNCHANGED <<robbed, salted, screen, at, tally, victory, hand, rivalHand,
                 call, air, relayed>>

-----------------------------------------------------------------------------
SealingStep(p) ==
  \/ \E h \in Plays : Confirm(p, h)
  \/ DuelOpened(p) \/ HandSealed(p) \/ LockIn(p)
RevealStep(p) == RetryReveal(p) \/ RevealConfirmed(p)
ReplayStep(p) == Replay(p) \/ SkipReplay(p)
ResolveStep(p) == ShowResult(p) \/ ShowBridge(p) \/ AdvanceRound(p)
ClaimStep(p) == ClaimTimeout(p) \/ ClaimConfirmed(p)
WalletStep(p) == Send(p) \/ SendFails(p)
NetworkStep(p) == \E tx \in air[p] : Land(p, tx) \/ Expire(p, tx)
Accident(p) == ConfirmationLost(p) \/ Reload(p)

ClientAction ==
  \E p \in Clients :
    \/ SealingStep(p) \/ RevealStep(p) \/ ReplayStep(p)
    \/ ResolveStep(p) \/ ClaimStep(p) \/ WalletStep(p)
    \/ NetworkStep(p) \/ Accident(p) \/ Continue(p)
    \/ \E m \in relayed : Deliver(p, m)

\* The plays put up and not yet revealed that lose a card in this step.
Robbed(p) ==
  /\ hand[p] # None /\ revealed[TheDuel][SeatOf(p)][at[p]] = None
  /\ Field[hand[p]] \subseteq vault[p] /\ ~(Field[hand[p]] \subseteq vault'[p])
Robs == {<<p, at[p], hand[p]>> : p \in {q \in Clients : Robbed(q)}}

\* Everything else that goes on in the program and leaves the account of this
\* duel alone: other duels, the loot of any duel, energy bought, the season.
Elsewhere ==
  /\ ProgramStep
  /\ UNCHANGED <<seat[TheDuel], round[TheDuel], ended[TheDuel],
                 winner[TheDuel], commitment[TheDuel], revealed[TheDuel],
                 wins[TheDuel], idle[TheDuel]>>
  /\ \A p \in Steady : charged'[p] = charged[p]
  /\ robbed' = robbed \cup Robs
  /\ UNCHANGED clientVars

ClientNext == ClientAction \/ ClientTick \/ Elsewhere

ClientSpec == ClientInit /\ [][ClientNext]_allVars

\* Fairness: a client without accidents does whatever its screen offers and has
\* its transactions executed; nothing is assumed of the other.  Leaving the
\* result is not a duty.
PlayFairness ==
  \A p \in Steady :
    /\ WF_allVars(SealingStep(p)) /\ WF_allVars(RevealStep(p))
    /\ WF_allVars(ReplayStep(p)) /\ WF_allVars(ResolveStep(p))
    /\ WF_allVars(ClaimStep(p)) /\ WF_allVars(WalletStep(p))
    /\ WF_allVars(NetworkStep(p))

\* Time passes, too.
ClientFairness == PlayFairness /\ WF_allVars(ClientTick)

FairClientSpec == ClientSpec /\ ClientFairness

-----------------------------------------------------------------------------
(***************************************************************************)
(* Properties.                                                             *)
(***************************************************************************)

\* A client may be behind the account, never ahead of it, and never by more
\* than the round it is about to be shown; a bridge leads exactly to where the
\* account is.
FollowsChain ==
  \A p \in Clients : screen[p] # "home" =>
    /\ at[p] <= round[TheDuel] /\ round[TheDuel] <= at[p] + 1
    /\ stage[p].bridge # None => /\ stage[p].bridge.round = round[TheDuel]
                                 /\ stage[p].bridge.wins = wins[TheDuel]

\* The result screen tells what the account says, whatever the replay showed
\* and whoever ended the duel.
ResultIsVerdict ==
  \A p \in Clients : screen[p] = "loot" =>
    /\ ended[TheDuel]
    /\ victory[p] = (winner[TheDuel] = p)
    /\ tally[p] = wins[TheDuel]

\* A hand travels through the relay, or stands on the opponent's screen, only
\* when its owner has revealed it on chain in that round, or the duel was over
\* before the reveal arrived, or a card of it was taken through another duel
\* while it was put up: then reveal_hand refuses it, and when that happens after
\* the simulation nobody reads the error.  (Short of interruption.js: "The single
\* reveal path is the gated one in reveal.js that fires only after the on-chain
\* reveal_hand tx confirms.")
OnAccount(p, r, h) ==
  ended[TheDuel] \/ revealed[TheDuel][SeatOf(p)][r] = h \/ <<p, r, h>> \in robbed
NothingShownEarly ==
  /\ \A m \in relayed : OnAccount(m.from, m.round, m.play)
  /\ \A p \in Clients : rivalHand[p] # None => OnAccount(Rival(p), at[p], rivalHand[p])

\* Past the preparation screen a client without accidents holds the play that
\* opens its commitment, unless the duel ended under way: nothing it does
\* replaces a hand that is sealed.
SealedHandOpens ==
  \A p \in Steady : screen[p] \in {"interruption", "reveal"} =>
    \/ ended[TheDuel]
    \/ /\ hand[p] # None
       /\ commitment[TheDuel][SeatOf(p)][at[p]] = Seal[hand[p]]

\* A guest without accidents reaches the result of every duel it sits in,
\* whatever the host does, stops doing or loses (its salt with a reload, for
\* one), unless the host was awarded the duel, or loot from another duel took a
\* card of the hand put up or left the guest without a hand.  (A host is refused
\* initDuel in round 2 and may have to wait for good: EveryRoundPlayed.)
HeldUp(p) ==
  \/ <<p, at[p], hand[p]>> \in robbed
  \/ \A h \in Provable : ~(Field[h] \subseteq vault[p])
DuelReachesResult ==
  \A p \in Steady \cap {Guest} :
    Participant(TheDuel, p) ~>
      screen[p] \in {"loot", "home"} \/ winner[TheDuel] = Rival(p) \/ HeldUp(p)

\* main-screen.js, the lobby: "Play each round. First to three wins takes the
\* duel."  Two clients without accidents play a duel they opened to its end
\* while the stall timeout stays out of it.
EveryRoundPlayed == Exists(TheDuel) ~> ended[TheDuel]
=============================================================================

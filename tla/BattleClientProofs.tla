------------------------- MODULE BattleClientProofs --------------------------
(***************************************************************************)
(* Proofs about the two browsers of a duel, for any number of rounds, any  *)
(* plays, energy and timeout, and whichever of the two is without          *)
(* accidents: what they show is what the accounts say.                     *)
(***************************************************************************)
EXTENDS BattleClient, DuelProofs

\* The commitment and the play revealed of p's seat in round r.
SealOf(p, r) == commitment[TheDuel][SeatOf(p)][r]
OpenOf(p, r) == revealed[TheDuel][SeatOf(p)][r]

Stage == [own : {"pending", "ready", "failed"}, played : BOOLEAN, waited : Nat,
          bridge : {None} \cup Bridge]
\* What a client sends: every call but a claim names a play.
Sent == {tx \in Transaction : tx.op # "claim" => tx.play # None}
Message == [from : Clients, round : Rounds, play : Plays]

ClientTypes ==
  /\ screen \in [Clients -> Screens] /\ at \in [Clients -> Rounds]
  /\ tally \in [Clients -> [Side -> 0..RoundsToWin]] /\ victory \in [Clients -> BOOLEAN]
  /\ hand \in [Clients -> Plays \cup {None}] /\ rivalHand \in [Clients -> Plays \cup {None}]
  /\ call \in [Clients -> {None} \cup Call] /\ air \in [Clients -> SUBSET Sent]
  /\ relayed \subseteq Message /\ stage \in [Clients -> Stage]
  /\ salted \in [Clients -> BOOLEAN] /\ robbed \subseteq Clients \X Rounds \X Plays

\* The seats are those the server gave out.
Placed == Exists(TheDuel) => \A p \in Clients : seat[TheDuel][SeatOf(p)] = p

\* What is awaited was asked for by the mounted screen, in its round, and the
\* screens past the preparation have a hand to show.
Awaited(p) ==
  /\ screen[p] \in {"interruption", "reveal"} => hand[p] # None
  /\ call[p] # None =>
       /\ call[p].tx.round = at[p]
       /\ call[p].tx.op \in {"init", "commit"} => screen[p] = "preparation"
       /\ call[p].tx.op \in {"reveal", "claim"} => screen[p] = "reveal"
       /\ call[p].tx.op # "claim" => call[p].tx.play = hand[p] /\ hand[p] # None

\* Nothing of p is for a later round than its own, and so the account is there,
\* or at the next, to which the bridge leads.
Follows(p) ==
  /\ screen[p] \in {"loot", "home"} => ended[TheDuel]
  /\ stage[p].bridge # None => screen[p] = "reveal"
  /\ screen[p] # "home" =>
       /\ at[p] <= round[TheDuel]
       /\ \A tx \in air[p] : tx.round <= at[p]
       /\ \A r \in Rounds : r > at[p] => SealOf(p, r) = None
       /\ stage[p].bridge # None => /\ stage[p].bridge.round = round[TheDuel]
                                    /\ stage[p].bridge.wins = wins[TheDuel]
                                    /\ at[p] < round[TheDuel]

\* The result screen.
Tells(p) ==
  screen[p] = "loot" =>
    victory[p] = (winner[TheDuel] = p) /\ tally[p] = wins[TheDuel]

\* One play at most is revealed, or on its way to be, in the round of p.
IsReveal(p, tx) == tx.op = "reveal" /\ tx.round = at[p]
OnePlay(p) ==
  /\ screen[p] \in {"preparation", "interruption"} =>
       OpenOf(p, at[p]) = None /\ ~\E tx \in air[p] : IsReveal(p, tx)
  /\ screen[p] = "reveal" =>
       \E h \in Plays \cup {None} :
         /\ hand[p] \in {None, h} /\ OpenOf(p, at[p]) \in {None, h}
         /\ \A tx \in air[p] : IsReveal(p, tx) => tx.play = h

\* An awaited reveal that was sent is about to be executed, or was, or came too
\* late, or a card of it was taken.
RevealReady(p) ==
  /\ Exists(TheDuel) /\ SealOf(p, at[p]) # None /\ SealOf(p, at[p]) = Seal[hand[p]]
  /\ OpenOf(p, at[p]) = None /\ Field[hand[p]] \subseteq vault[p]
RevealUnderWay(p) ==
  IsAwaiting(p, "reveal") /\ call[p].sent =>
    \/ OnAccount(p, at[p], hand[p])
    \/ call[p].tx \in air[p] /\ RevealReady(p)

\* What the opponent's screen shows, and what the relay carries, is on the account.
ShowsOpened(p) ==
  rivalHand[p] # None => OnAccount(Rival(p), at[p], rivalHand[p])
RelaysOpened == \A m \in relayed : OnAccount(m.from, m.round, m.play)

\* A client without accidents: its commitment is the one it awaits, and nothing
\* can come in between; then it holds the play that was sealed.
Sealed(p) == ended[TheDuel] \/ (hand[p] # None /\ SealOf(p, at[p]) = Seal[hand[p]])
CommitReady(p) ==
  /\ Exists(TheDuel) /\ round[TheDuel] = at[p] /\ SealOf(p, at[p]) = None
  /\ at[p] = 1 => CanSpend(energy[p], 0, regenAge[p], EnergyCost)
  /\ hand[p] \in Provable
CommitUnderWay(p) ==
  /\ \A tx \in air[p] : tx.op = "commit" => call[p] = [tx |-> tx, sent |-> TRUE]
  /\ IsAwaiting(p, "commit") /\ call[p].sent =>
       \/ Sealed(p)
       \/ call[p].tx \in air[p] /\ CommitReady(p)
SealHeld(p) ==
  /\ CommitUnderWay(p)
  /\ screen[p] \in {"interruption", "reveal"} => Sealed(p)

\* All of it, for one client and for both.
Own(p) ==
  /\ Awaited(p) /\ Follows(p) /\ Tells(p)
  /\ OnePlay(p) /\ RevealUnderWay(p) /\ ShowsOpened(p)
  /\ p \in Steady => SealHeld(p)

ClientInv ==
  /\ IInv /\ ClientTypes /\ Placed /\ RelaysOpened
  /\ \A p \in Clients : Own(p)

-----------------------------------------------------------------------------
(***************************************************************************)
(* What the screens do, without a change of the accounts.                  *)
(***************************************************************************)
Mine(p) == <<screen[p], at[p], tally[p], victory[p], hand[p], rivalHand[p], call[p],
             air[p], stage[p]>>

LEMMA ClientsAre ==
  /\ Clients \subseteq Players /\ Steady \subseteq Clients /\ TheDuel \in DuelIds
  /\ \A p \in Clients : SeatOf(p) \in Side /\ Rival(p) \in Clients /\ Rival(p) # p
                        /\ SeatOf(Rival(p)) = Other(SeatOf(p)) /\ Rival(Rival(p)) = p
BY ClientAssumption DEF Clients, SeatOf, Side, Rival, Other

\* Nothing changes for a client whose part stays as it is.
LEMMA Untouched ==
  ASSUME UNCHANGED <<vars, robbed>>, NEW p \in Clients, Own(p), Mine(p)' = Mine(p)
  PROVE  Own(p)'
<1>1. /\ UNCHANGED <<screen[p], at[p], tally[p], victory[p], hand[p], rivalHand[p], call[p],
                     air[p], stage[p]>>
      /\ UNCHANGED <<seat, round, ended, winner, commitment, revealed, wins, idle, energy,
                     regenAge, charged, vault, looted, window, robbed>>
  BY DEF Mine, vars, duelVars, playerVars, lootVars
<1>2. (Awaited(p) /\ Follows(p) /\ Tells(p))'
  BY <1>1 DEF Own, Awaited, Follows, Tells, SealOf
<1>3. (OnePlay(p) /\ RevealUnderWay(p) /\ ShowsOpened(p))'
  BY <1>1 DEF Own, OnePlay, RevealUnderWay, ShowsOpened, OpenOf, OnAccount, SealOf, IsReveal,
              IsAwaiting, RevealReady, Exists
<1>4. p \in Steady => SealHeld(p)'
  BY <1>1 DEF Own, SealHeld, CommitUnderWay, Sealed, SealOf, IsAwaiting, CommitReady, Exists
<1> QED BY <1>2, <1>3, <1>4 DEF Own

LEMMA ScreenStep ==
  ASSUME ClientInv, UNCHANGED <<vars, robbed>>, NEW q \in Clients, ClientTypes', Own(q)', RelaysOpened',
         \A p \in Clients \ {q} : Mine(p)' = Mine(p)
  PROVE  ClientInv'
<1>1. \A p \in Clients : Own(p)' BY Untouched DEF ClientInv
<1>2. IInv' /\ Placed'
  BY DEF ClientInv, Placed, Exists, vars, duelVars, playerVars, lootVars, IInv, TypeOK, Slots,
         DuelInv, Seated, InOrder, Undecided, Justified, BothRevealed, OpponentOwes
<1> QED BY <1>1, <1>2 DEF ClientInv

\* What an awaited call is.
LEMMA CallIs ==
  ASSUME ClientTypes, NEW p \in Clients, call[p] # None
  PROVE  /\ call[p] \in Call /\ call[p].tx \in Transaction /\ call[p].sent \in BOOLEAN
         /\ call[p].tx.op \in Ops /\ call[p].tx.round \in Rounds
         /\ call[p].tx.play \in Plays \cup {None}
<1>1. call[p] \in Call BY DEF ClientTypes
<1> QED BY <1>1 DEF Call, Transaction

\* No commitment is on its way while no sent commitment is awaited.
LEMMA NoCommit ==
  ASSUME ClientTypes, NEW p \in Clients, CommitUnderWay(p),
         \/ call[p] = None \/ ~call[p].sent
         \/ call[p].tx.op # "commit" \/ call[p].tx \notin air[p]
  PROVE  \A tx \in air[p] : tx.op # "commit"
<1> SUFFICES ASSUME NEW tx \in air[p], tx.op = "commit" PROVE FALSE
  OBVIOUS
<1>1. call[p] = [tx |-> tx, sent |-> TRUE] BY DEF CommitUnderWay
<1>2. [tx |-> tx, sent |-> TRUE] \in Call BY DEF ClientTypes, Sent, Call
<1>3. call[p] # None BY <1>1, <1>2, ClientAssumption
<1>4. call[p].sent = TRUE /\ call[p].tx = tx BY <1>1
<1> QED BY <1>3, <1>4

\* Where nothing is sealed nothing is opened.
LEMMA Unopened ==
  ASSUME IInv, NEW p \in Clients, NEW r \in Rounds, SealOf(p, r) = None
  PROVE  OpenOf(p, r) = None
<1>1. /\ TheDuel \in DuelIds /\ SeatOf(p) \in Side BY ClientsAre
<1>2. OpenOf(p, r) \in Plays \cup {None} BY <1>1 DEF IInv, TypeOK, Slots, OpenOf
<1>3. OpenOf(p, r) # None => Seal[OpenOf(p, r)] = SealOf(p, r)
  BY <1>1 DEF IInv, DuelInv, InOrder, OpenOf, SealOf
<1> QED BY <1>2, <1>3, DuelAssumption

-----------------------------------------------------------------------------
(***************************************************************************)
(* What each part of the invariant rests on, while the accounts stay.      *)
(***************************************************************************)
SameChain ==
  UNCHANGED <<seat, round, ended, winner, commitment, revealed, wins, energy, regenAge, vault,
              robbed>>

LEMMA ChainIs == UNCHANGED <<vars, robbed>> => SameChain
BY DEF SameChain, vars, duelVars, playerVars, lootVars

LEMMA FollowsFrame ==
  ASSUME SameChain, NEW q \in Clients, Follows(q), at[q] \in Rounds,
         UNCHANGED <<screen[q], at[q], stage[q].bridge>>,
         \A tx \in air'[q] : tx \in air[q] \/ tx.round = at[q]
  PROVE  Follows(q)'
<1>1. UNCHANGED <<round, ended, wins, commitment>> BY DEF SameChain
<1>2. \A tx : tx.round = at[q] => tx.round <= at[q] BY DuelAssumption DEF Rounds
<1>3. screen[q] # "home" => \A tx \in air'[q] : tx.round <= at[q] BY <1>2 DEF Follows
<1>4. screen'[q] = screen[q] /\ at'[q] = at[q] /\ stage'[q].bridge = stage[q].bridge
  OBVIOUS
<1> QED BY <1>1, <1>3, <1>4 DEF Follows, SealOf

LEMMA TellsFrame ==
  ASSUME SameChain, NEW q \in Clients, Tells(q),
         screen'[q] = "loot" => UNCHANGED <<screen[q], victory[q], tally[q]>>
  PROVE  Tells(q)'
BY DEF Tells, SameChain

\* A client that shows or seals no new play.
LEMMA OnePlayFrame ==
  ASSUME SameChain, NEW q \in Clients, OnePlay(q), UNCHANGED <<screen[q], at[q]>>,
         \A tx \in air'[q] : tx \in air[q] \/ tx.op # "reveal",
         screen[q] = "reveal" => hand'[q] \in {None, hand[q]}
  PROVE  OnePlay(q)'
<1>1. revealed' = revealed BY DEF SameChain
<1>2. OpenOf(q, at[q])' = OpenOf(q, at[q]) BY <1>1 DEF OpenOf
<1>3. \A tx \in air'[q] : IsReveal(q, tx)' => tx \in air[q] /\ IsReveal(q, tx)
  BY DEF IsReveal
<1> QED BY <1>2, <1>3 DEF OnePlay

LEMMA NoReveal ==
  ASSUME NEW q \in Clients, call'[q] = None \/ ~call'[q].sent \/ call'[q].tx.op # "reveal"
  PROVE  RevealUnderWay(q)'
BY DEF RevealUnderWay, IsAwaiting

LEMMA ShowsFrame ==
  ASSUME SameChain, NEW q \in Clients, ShowsOpened(q), UNCHANGED <<at[q], rivalHand[q]>>
  PROVE  ShowsOpened(q)'
BY DEF ShowsOpened, SameChain, OpenOf, OnAccount

LEMMA RelayFrame ==
  ASSUME SameChain, RelaysOpened, relayed' \subseteq relayed
  PROVE  RelaysOpened'
BY DEF RelaysOpened, SameChain, OpenOf, OnAccount

\* No commitment is awaited once it is sealed, or none is on its way at all.
LEMMA SealFrame ==
  ASSUME SameChain, NEW q \in Clients, SealHeld(q),
         \A tx \in air[q] : tx.op # "commit",
         \A tx \in air'[q] : tx \in air[q] \/ tx.op # "commit",
         call'[q] = None \/ ~call'[q].sent \/ call'[q].tx.op # "commit",
         screen'[q] \in {"interruption", "reveal"} =>
           screen[q] \in {"interruption", "reveal"} /\ UNCHANGED <<at[q], hand[q]>>
  PROVE  SealHeld(q)'
<1>1. UNCHANGED <<ended, commitment>> BY DEF SameChain
<1>2. CommitUnderWay(q)' BY DEF CommitUnderWay, IsAwaiting
<1>3. screen'[q] \in {"interruption", "reveal"} => Sealed(q)'
  BY <1>1 DEF SealHeld, Sealed, SealOf
<1> QED BY <1>2, <1>3 DEF SealHeld

\* What an untouched client and the accounts leave to show for one step of q.
LEMMA OwnStep ==
  ASSUME ClientInv, UNCHANGED <<vars, robbed>>, NEW q \in Clients, ClientTypes',
         Awaited(q)', Follows(q)', Tells(q)', OnePlay(q)', RevealUnderWay(q)', ShowsOpened(q)',
         q \in Steady => SealHeld(q)', RelaysOpened',
         \A p \in Clients \ {q} : Mine(p)' = Mine(p)
  PROVE  ClientInv'
<1>1. Own(q)' BY DEF Own
<1> QED BY <1>1, ScreenStep

\* The parts of the invariant that are about one client.
LEMMA Parts ==
  ASSUME ClientInv, NEW q \in Clients
  PROVE  /\ ClientTypes /\ IInv /\ Placed /\ RelaysOpened
         /\ Awaited(q) /\ Follows(q) /\ Tells(q) /\ OnePlay(q) /\ RevealUnderWay(q)
         /\ ShowsOpened(q) /\ (q \in Steady => SealHeld(q) /\ CommitUnderWay(q))
BY DEF ClientInv, Own, SealHeld

\* A client awaits another transaction.
LEMMA CallSet ==
  ASSUME ClientTypes, NEW q \in Clients, NEW op \in Ops, NEW h \in Plays \cup {None},
         call' = [call EXCEPT ![q] = Awaiting(op, q, h)]
  PROVE  /\ call'[q] # None /\ call'[q].tx.op = op /\ call'[q].tx.round = at[q]
         /\ call'[q].tx.play = h /\ ~call'[q].sent
         /\ call' \in [Clients -> {None} \cup Call]
<1>1. Awaiting(op, q, h) \in Call
  BY DEF Awaiting, Call, Tx, Transaction, ClientTypes
<1>2. call'[q] = Awaiting(op, q, h) BY DEF ClientTypes
<1>3. call' \in [Clients -> {None} \cup Call] BY <1>1 DEF ClientTypes
<1> QED BY <1>1, <1>2, <1>3, ClientAssumption DEF Awaiting, Tx

\* What is under way stays under way while nothing of it changes.
LEMMA UnderWayFrame ==
  ASSUME SameChain, NEW q \in Clients, UNCHANGED <<call[q], air[q], hand[q], at[q]>>
  PROVE  /\ RevealUnderWay(q) => RevealUnderWay(q)'
         /\ CommitUnderWay(q) => CommitUnderWay(q)'
         /\ Sealed(q) => Sealed(q)'
BY DEF SameChain, RevealUnderWay, RevealReady, CommitUnderWay, CommitReady, Sealed, SealOf,
       OpenOf, OnAccount, IsAwaiting, Exists

\* Each client acts on its own seat.
LEMMA SeatIs ==
  ASSUME Placed, Exists(TheDuel), NEW q \in Clients
  PROVE  SideOf(TheDuel, q) = SeatOf(q)
<1>1. \A p \in Clients : seat[TheDuel][SeatOf(p)] = p BY DEF Placed
<1> QED BY <1>1, ClientAssumption DEF Clients, SeatOf, SideOf

\* No commitment of a client is on its way once it is past the preparation.
LEMMA NoLateCommit ==
  ASSUME ClientInv, NEW q \in Clients, q \in Steady, screen[q] # "preparation"
  PROVE  \A tx \in air[q] : tx.op # "commit"
<1>1. call[q] = None \/ call[q].tx.op # "commit" BY Parts DEF Awaited
<1> QED BY <1>1, Parts, NoCommit

-----------------------------------------------------------------------------
(***************************************************************************)
(* The steps of the screens.  Each changes the part of one client: its     *)
(* lemma says what (<1>1, <1>3) and takes the invariant apart, one conjunct*)
(* a step.                                                                 *)
(***************************************************************************)
LEMMA Confirms ==
  ASSUME ClientInv, NEW q \in Clients, NEW h \in Plays, Confirm(q, h)
  PROVE  ClientInv'
<1>1. /\ screen[q] = "preparation" /\ call[q] = None
      /\ hand' = [hand EXCEPT ![q] = h]
      /\ call' = [call EXCEPT ![q] = Awaiting(FirstCall(q), q, h)]
      /\ salted' = [salted EXCEPT ![q] = TRUE]
      /\ UNCHANGED <<vars, robbed, screen, at, tally, victory, rivalHand, air, relayed, stage>>
  BY DEF Confirm
<1>2. SameChain /\ at[q] \in Rounds BY <1>1, Parts, ChainIs DEF ClientTypes
<1>3. /\ call'[q] # None /\ call'[q].tx.op = FirstCall(q) /\ call'[q].tx.round = at[q]
      /\ call'[q].tx.play = h /\ ~call'[q].sent
      /\ call' \in [Clients -> {None} \cup Call]
      /\ FirstCall(q) \in {"init", "commit"} /\ hand'[q] = h /\ h # None
  <2>1. FirstCall(q) \in {"init", "commit"} /\ FirstCall(q) \in Ops BY DEF FirstCall, Ops
  <2>2. hand'[q] = h /\ h # None BY <1>1, Parts, DuelAssumption DEF ClientTypes
  <2> QED BY <1>1, <2>1, <2>2, Parts, CallSet
<1>4. ClientTypes' BY <1>1, <1>3, Parts DEF ClientTypes
<1>5. \A p \in Clients \ {q} : Mine(p)' = Mine(p) BY <1>1, Parts DEF ClientTypes, Mine
<1>6. Awaited(q)' BY <1>1, <1>3, Parts DEF Awaited
<1>7. Follows(q)' BY <1>1, <1>2, <1>3, Parts, FollowsFrame
<1>8. Tells(q)' BY <1>1, <1>2, <1>3, Parts, TellsFrame
<1>9. OnePlay(q)' BY <1>1, <1>2, <1>3, Parts, OnePlayFrame
<1>10. RevealUnderWay(q)' BY <1>1, <1>3, Parts, NoReveal
<1>11. ShowsOpened(q)' BY <1>1, <1>2, <1>3, Parts, ShowsFrame
<1>12. RelaysOpened' BY <1>1, <1>2, <1>3, Parts, RelayFrame
<1>13. q \in Steady => SealHeld(q)' BY <1>1, <1>2, <1>3, Parts, NoCommit, SealFrame
<1> QED
  BY <1>1, <1>4, <1>5, <1>6, <1>7, <1>8, <1>9, <1>10, <1>11, <1>12, <1>13, OwnStep

LEMMA DuelOpens ==
  ASSUME ClientInv, NEW q \in Clients, DuelOpened(q)
  PROVE  ClientInv'
<1>1. /\ call[q] # None /\ call[q].tx.op = "init"
      /\ call' = [call EXCEPT ![q] = Awaiting("commit", q, hand[q])]
      /\ UNCHANGED <<vars, robbed, salted, screen, at, tally, victory, hand, rivalHand, air, relayed, stage>>
  BY DEF DuelOpened, Included, IsAwaiting
<1>2. SameChain /\ at[q] \in Rounds BY <1>1, Parts, ChainIs DEF ClientTypes
<1>3. /\ call'[q] # None /\ call'[q].tx.op = "commit" /\ call'[q].tx.round = at[q]
      /\ call'[q].tx.play = hand[q] /\ ~call'[q].sent
      /\ call' \in [Clients -> {None} \cup Call]
      /\ screen[q] = "preparation" /\ hand[q] # None
  <2>1. "commit" \in Ops /\ hand[q] \in Plays \cup {None} /\ ClientTypes
    BY Parts DEF Ops, ClientTypes
  <2>2. screen[q] = "preparation" /\ hand[q] # None BY <1>1, Parts DEF Awaited
  <2>3. call' = [call EXCEPT ![q] = Awaiting("commit", q, hand[q])] BY <1>1
  <2>4. /\ call'[q] # None /\ call'[q].tx.op = "commit" /\ call'[q].tx.round = at[q]
        /\ call'[q].tx.play = hand[q] /\ ~call'[q].sent
        /\ call' \in [Clients -> {None} \cup Call]
    <3>1. PICK h \in Plays \cup {None} : h = hand[q] BY <2>1
    <3>2. call' = [call EXCEPT ![q] = Awaiting("commit", q, h)] BY <2>3, <3>1
    <3>3. call'[q] # None /\ call'[q].tx.op = "commit" /\ call'[q].tx.round = at[q]
      BY <2>1, <3>1, <3>2, CallSet
    <3>4. call'[q].tx.play = h /\ ~call'[q].sent
      BY <2>1, <3>2 DEF Awaiting, Tx, ClientTypes
    <3>5. call' \in [Clients -> {None} \cup Call]
      BY <2>1, <3>1, <3>2, CallSet
    <3> QED BY <3>1, <3>3, <3>4, <3>5
  <2> QED BY <2>2, <2>4
<1>4. ClientTypes' BY <1>1, <1>3, Parts DEF ClientTypes
<1>5. \A p \in Clients \ {q} : Mine(p)' = Mine(p) BY <1>1, Parts DEF ClientTypes, Mine
<1>6. Awaited(q)' BY <1>1, <1>3, Parts DEF Awaited
<1>7. Follows(q)' BY <1>1, <1>2, <1>3, Parts, FollowsFrame
<1>8. Tells(q)' BY <1>1, <1>2, <1>3, Parts, TellsFrame
<1>9. OnePlay(q)' BY <1>1, <1>2, <1>3, Parts, OnePlayFrame
<1>10. RevealUnderWay(q)' BY <1>1, <1>3, Parts, NoReveal
<1>11. ShowsOpened(q)' BY <1>1, <1>2, <1>3, Parts, ShowsFrame
<1>12. RelaysOpened' BY <1>1, <1>2, <1>3, Parts, RelayFrame
<1>13. q \in Steady => SealHeld(q)' BY <1>1, <1>2, <1>3, Parts, NoCommit, SealFrame
<1> QED
  BY <1>1, <1>4, <1>5, <1>6, <1>7, <1>8, <1>9, <1>10, <1>11, <1>12, <1>13, OwnStep

LEMMA HandSeals ==
  ASSUME ClientInv, NEW q \in Clients, HandSealed(q)
  PROVE  ClientInv'
<1>1. /\ call[q] # None /\ call[q].tx.op = "commit" /\ call[q].sent /\ call[q].tx \notin air[q]
      /\ call' = [call EXCEPT ![q] = None]
      /\ screen' = [screen EXCEPT ![q] = "interruption"]
      /\ UNCHANGED <<vars, robbed, salted, at, tally, victory, hand, rivalHand, air, relayed, stage>>
  BY DEF HandSealed, Included, IsAwaiting
<1>2. SameChain /\ at[q] \in Rounds BY <1>1, Parts, ChainIs DEF ClientTypes
<1>3. /\ call'[q] = None /\ screen'[q] = "interruption" /\ screen[q] = "preparation"
  BY <1>1, Parts DEF ClientTypes, Awaited
<1>4. ClientTypes' BY <1>1, <1>3, Parts DEF ClientTypes, Screens
<1>5. \A p \in Clients \ {q} : Mine(p)' = Mine(p) BY <1>1, Parts DEF ClientTypes, Mine
<1>6. Awaited(q)' BY <1>1, <1>3, Parts DEF Awaited
<1>7. Follows(q)' BY <1>1, <1>2, <1>3, Parts DEF SameChain, Follows, SealOf
<1>8. Tells(q)' BY <1>1, <1>2, <1>3, Parts, TellsFrame
<1>9. OnePlay(q)' BY <1>1, <1>2, <1>3, Parts DEF SameChain, OnePlay, OpenOf, IsReveal
<1>10. RevealUnderWay(q)' BY <1>1, <1>3, Parts, NoReveal
<1>11. ShowsOpened(q)' BY <1>1, <1>2, <1>3, Parts, ShowsFrame
<1>12. RelaysOpened' BY <1>1, <1>2, <1>3, Parts, RelayFrame
<1>13. q \in Steady => SealHeld(q)'
  <2>1. q \in Steady => Sealed(q)
    BY <1>1, Parts DEF CommitUnderWay, IsAwaiting
  <2>2. q \in Steady => \A tx \in air[q] : tx.op # "commit" BY <1>1, Parts, NoCommit
  <2> QED BY <1>1, <1>2, <1>3, <2>1, <2>2
         DEF SealHeld, Sealed, CommitUnderWay, IsAwaiting, SameChain, SealOf
<1> QED
  BY <1>1, <1>4, <1>5, <1>6, <1>7, <1>8, <1>9, <1>10, <1>11, <1>12, <1>13, OwnStep

LEMMA LocksIn ==
  ASSUME ClientInv, NEW q \in Clients, LockIn(q)
  PROVE  ClientInv'
<1>1. /\ screen[q] = "interruption"
      /\ screen' = [screen EXCEPT ![q] = "reveal"]
      /\ \/ /\ stage' = [stage EXCEPT ![q] = FreshStage]
            /\ call' = [call EXCEPT ![q] = Awaiting("reveal", q, hand[q])]
         \/ /\ stage' = [stage EXCEPT ![q] = [FreshStage EXCEPT !.own = "failed"]]
            /\ call' = call
      /\ UNCHANGED <<vars, robbed, salted, at, tally, victory, hand, rivalHand, air, relayed>>
  BY DEF LockIn
<1>2. SameChain /\ at[q] \in Rounds BY <1>1, Parts, ChainIs DEF ClientTypes
<1>3. /\ screen'[q] = "reveal" /\ stage'[q].bridge = None /\ stage'[q] \in Stage
      /\ \/ call'[q] = None
         \/ /\ call'[q] # None /\ call'[q].tx.op = "reveal" /\ call'[q].tx.round = at[q]
            /\ call'[q].tx.play = hand[q] /\ ~call'[q].sent
      /\ call[q] = None /\ hand[q] # None /\ call' \in [Clients -> {None} \cup Call]
  <2>1. "reveal" \in Ops /\ hand[q] \in Plays \cup {None} /\ ClientTypes
    BY Parts DEF Ops, ClientTypes
  <2>2. call[q] = None /\ hand[q] # None
    <3>1. call[q] # None => call[q].tx.op \in Ops BY <2>1, CallIs
    <3> QED BY <1>1, <3>1, Parts DEF Awaited, Ops
  <2>3. screen'[q] = "reveal" /\ stage'[q].bridge = None /\ stage'[q] \in Stage
    <3>1. CASE stage' = [stage EXCEPT ![q] = FreshStage]
      BY <1>1, <2>1, <3>1 DEF ClientTypes, FreshStage, Stage
    <3>2. CASE stage' = [stage EXCEPT ![q] = [FreshStage EXCEPT !.own = "failed"]]
      BY <1>1, <2>1, <3>2 DEF ClientTypes, FreshStage, Stage
    <3> QED BY <1>1, <3>1, <3>2
  <2>4. CASE call' = call BY <1>1, <2>1, <2>2, <2>3, <2>4 DEF ClientTypes
  <2>5. CASE call' = [call EXCEPT ![q] = Awaiting("reveal", q, hand[q])]
    BY <2>1, <2>2, <2>3, <2>5, CallSet
  <2> QED BY <1>1, <2>4, <2>5
<1>4. ClientTypes' BY <1>1, <1>3, Parts DEF ClientTypes, Screens
<1>5. \A p \in Clients \ {q} : Mine(p)' = Mine(p) BY <1>1, Parts DEF ClientTypes, Mine
<1>6. Awaited(q)' BY <1>1, <1>3, Parts DEF Awaited
<1>7. Follows(q)' BY <1>1, <1>2, <1>3, Parts DEF SameChain, Follows, SealOf
<1>8. Tells(q)' BY <1>1, <1>2, <1>3, Parts, TellsFrame
<1>9. OnePlay(q)'
  <2>1. OpenOf(q, at[q]) = None /\ \A tx \in air[q] : ~IsReveal(q, tx)
    BY <1>1, Parts DEF OnePlay
  <2>2. OpenOf(q, at[q])' = None /\ \A tx \in air'[q] : ~IsReveal(q, tx)'
    BY <1>1, <1>2, <2>1 DEF SameChain, OpenOf, IsReveal
  <2>3. hand'[q] \in Plays \cup {None} BY <1>1, Parts DEF ClientTypes
  <2> QED BY <1>3, <2>2, <2>3 DEF OnePlay
<1>10. RevealUnderWay(q)' BY <1>1, <1>3, Parts, NoReveal
<1>11. ShowsOpened(q)' BY <1>1, <1>2, <1>3, Parts, ShowsFrame
<1>12. RelaysOpened' BY <1>1, <1>2, <1>3, Parts, RelayFrame
<1>13. q \in Steady => SealHeld(q)' BY <1>1, <1>2, <1>3, Parts, NoCommit, SealFrame
<1> QED
  BY <1>1, <1>4, <1>5, <1>6, <1>7, <1>8, <1>9, <1>10, <1>11, <1>12, <1>13, OwnStep

LEMMA RetriesReveal ==
  ASSUME ClientInv, NEW q \in Clients, RetryReveal(q)
  PROVE  ClientInv'
<1>1. /\ screen[q] = "reveal" /\ call[q] = None
      /\ call' = [call EXCEPT ![q] = Awaiting("reveal", q, hand[q])]
      /\ stage' = [stage EXCEPT ![q].own = "pending"]
      /\ UNCHANGED <<vars, robbed, salted, screen, at, tally, victory, hand, rivalHand, air, relayed>>
  BY DEF RetryReveal
<1>2. SameChain /\ at[q] \in Rounds BY <1>1, Parts, ChainIs DEF ClientTypes
<1>3. /\ call'[q] # None /\ call'[q].tx.op = "reveal" /\ call'[q].tx.round = at[q]
      /\ call'[q].tx.play = hand[q] /\ ~call'[q].sent
      /\ call' \in [Clients -> {None} \cup Call]
      /\ stage'[q].bridge = stage[q].bridge /\ stage' \in [Clients -> Stage]
  <2>1. "reveal" \in Ops /\ hand[q] \in Plays \cup {None} /\ ClientTypes
    BY Parts DEF Ops, ClientTypes
  <2>2. stage'[q].bridge = stage[q].bridge /\ stage' \in [Clients -> Stage]
    BY <1>1, Parts DEF ClientTypes, Stage
  <2>3. call' = [call EXCEPT ![q] = Awaiting("reveal", q, hand[q])] BY <1>1
  <2>4. /\ call'[q] # None /\ call'[q].tx.op = "reveal" /\ call'[q].tx.round = at[q]
        /\ call'[q].tx.play = hand[q] /\ ~call'[q].sent
        /\ call' \in [Clients -> {None} \cup Call]
    <3>1. PICK h \in Plays \cup {None} : h = hand[q] BY <2>1
    <3>2. call' = [call EXCEPT ![q] = Awaiting("reveal", q, h)] BY <2>3, <3>1
    <3>3. call'[q] # None /\ call'[q].tx.op = "reveal" /\ call'[q].tx.round = at[q]
      BY <2>1, <3>1, <3>2, CallSet
    <3>4. call'[q].tx.play = h /\ ~call'[q].sent
      BY <2>1, <3>2 DEF Awaiting, Tx, ClientTypes
    <3>5. call' \in [Clients -> {None} \cup Call]
      BY <2>1, <3>1, <3>2, CallSet
    <3> QED BY <3>1, <3>3, <3>4, <3>5
  <2> QED BY <2>2, <2>4
<1>4. ClientTypes' BY <1>1, <1>3, Parts DEF ClientTypes
<1>5. \A p \in Clients \ {q} : Mine(p)' = Mine(p) BY <1>1, Parts DEF ClientTypes, Mine
<1>6. Awaited(q)' BY <1>1, <1>3, Parts DEF Awaited
<1>7. Follows(q)' BY <1>1, <1>2, <1>3, Parts, FollowsFrame
<1>8. Tells(q)' BY <1>1, <1>2, <1>3, Parts, TellsFrame
<1>9. OnePlay(q)' BY <1>1, <1>2, <1>3, Parts, OnePlayFrame
<1>10. RevealUnderWay(q)' BY <1>1, <1>3, Parts, NoReveal
<1>11. ShowsOpened(q)' BY <1>1, <1>2, <1>3, Parts, ShowsFrame
<1>12. RelaysOpened' BY <1>1, <1>2, <1>3, Parts, RelayFrame
<1>13. q \in Steady => SealHeld(q)' BY <1>1, <1>2, <1>3, Parts, NoCommit, SealFrame
<1> QED
  BY <1>1, <1>4, <1>5, <1>6, <1>7, <1>8, <1>9, <1>10, <1>11, <1>12, <1>13, OwnStep

LEMMA RevealConfirms ==
  ASSUME ClientInv, NEW q \in Clients, RevealConfirmed(q)
  PROVE  ClientInv'
<1>1. /\ call[q] # None /\ call[q].tx.op = "reveal" /\ call[q].sent /\ call[q].tx \notin air[q]
      /\ call' = [call EXCEPT ![q] = None]
      /\ stage' = [stage EXCEPT ![q].own = "ready"]
      /\ relayed' = relayed \cup {Shown(q)}
      /\ UNCHANGED <<vars, robbed, salted, screen, at, tally, victory, hand, rivalHand, air>>
  BY DEF RevealConfirmed, Included, IsAwaiting
<1>2. SameChain /\ at[q] \in Rounds BY <1>1, Parts, ChainIs DEF ClientTypes
<1>3. /\ call'[q] = None /\ stage'[q].bridge = stage[q].bridge /\ stage' \in [Clients -> Stage]
      /\ hand[q] # None /\ Shown(q) \in Message
      /\ OnAccount(q, at[q], hand[q])
  <2>1. hand[q] # None BY <1>1, Parts DEF Awaited
  <2>2. Shown(q) \in Message BY <2>1, Parts DEF Shown, Message, ClientTypes
  <2>3. OnAccount(q, at[q], hand[q])
    BY <1>1, Parts DEF RevealUnderWay, IsAwaiting
  <2>4. call'[q] = None /\ stage'[q].bridge = stage[q].bridge /\ stage' \in [Clients -> Stage]
    BY <1>1, Parts DEF ClientTypes, Stage
  <2> QED BY <2>1, <2>2, <2>3, <2>4
<1>4. ClientTypes' BY <1>1, <1>3, Parts DEF ClientTypes
<1>5. \A p \in Clients \ {q} : Mine(p)' = Mine(p) BY <1>1, Parts DEF ClientTypes, Mine
<1>6. Awaited(q)' BY <1>1, <1>3, Parts DEF Awaited
<1>7. Follows(q)' BY <1>1, <1>2, <1>3, Parts, FollowsFrame
<1>8. Tells(q)' BY <1>1, <1>2, <1>3, Parts, TellsFrame
<1>9. OnePlay(q)' BY <1>1, <1>2, <1>3, Parts, OnePlayFrame
<1>10. RevealUnderWay(q)' BY <1>1, <1>3, Parts, NoReveal
<1>11. ShowsOpened(q)' BY <1>1, <1>2, <1>3, Parts, ShowsFrame
<1>12. RelaysOpened'
  <2>1. \A m \in relayed : OnAccount(m.from, m.round, m.play) BY Parts DEF RelaysOpened
  <2>2. OnAccount(Shown(q).from, Shown(q).round, Shown(q).play) BY <1>3 DEF Shown
  <2>3. \A m \in relayed' : OnAccount(m.from, m.round, m.play) BY <1>1, <2>1, <2>2
  <2> QED BY <1>2, <2>3 DEF RelaysOpened, OnAccount, SameChain
<1>13. q \in Steady => SealHeld(q)' BY <1>1, <1>2, <1>3, Parts, NoCommit, SealFrame
<1> QED
  BY <1>1, <1>4, <1>5, <1>6, <1>7, <1>8, <1>9, <1>10, <1>11, <1>12, <1>13, OwnStep

LEMMA Delivers ==
  ASSUME ClientInv, NEW q \in Clients, NEW m \in relayed, Deliver(q, m)
  PROVE  ClientInv'
<1>1. /\ m.from = Rival(q)
      /\ Accepts(q, m) => rivalHand' = [rivalHand EXCEPT ![q] = m.play]
      /\ ~Accepts(q, m) => rivalHand' = rivalHand
      /\ relayed' = relayed \ {m}
      /\ UNCHANGED <<vars, robbed, salted, screen, at, tally, victory, hand, call, air, stage>>
  BY DEF Deliver
<1>2. SameChain /\ at[q] \in Rounds BY <1>1, Parts, ChainIs DEF ClientTypes
<1>3. /\ rivalHand'[q] = rivalHand[q] \/ (rivalHand'[q] = m.play /\ m.round = at[q])
      /\ rivalHand' \in [Clients -> Plays \cup {None}]
      /\ \A p \in Clients \ {q} : rivalHand'[p] = rivalHand[p]
  BY <1>1, Parts DEF Accepts, ClientTypes, Message
<1>4. ClientTypes' BY <1>1, <1>3, Parts DEF ClientTypes
<1>5. \A p \in Clients \ {q} : Mine(p)' = Mine(p) BY <1>1, Parts DEF ClientTypes, Mine
<1>6. Awaited(q)' BY <1>1, <1>3, Parts DEF Awaited
<1>7. Follows(q)' BY <1>1, <1>2, <1>3, Parts, FollowsFrame
<1>8. Tells(q)' BY <1>1, <1>2, <1>3, Parts, TellsFrame
<1>9. OnePlay(q)' BY <1>1, <1>2, <1>3, Parts, OnePlayFrame
<1>10. RevealUnderWay(q)' BY <1>1, <1>2, <1>3, Parts, UnderWayFrame
<1>11. ShowsOpened(q)' BY <1>1, <1>2, <1>3, Parts DEF ShowsOpened, RelaysOpened, OpenOf, OnAccount, SameChain
<1>12. RelaysOpened' BY <1>1, <1>2, <1>3, Parts, RelayFrame
<1>13. q \in Steady => SealHeld(q)' BY <1>1, <1>2, <1>3, Parts, UnderWayFrame DEF SealHeld
<1> QED
  BY <1>1, <1>4, <1>5, <1>6, <1>7, <1>8, <1>9, <1>10, <1>11, <1>12, <1>13, OwnStep

LEMMA Replays ==
  ASSUME ClientInv, NEW q \in Clients, Replay(q)
  PROVE  ClientInv'
<1>1. /\ screen[q] = "reveal"
      /\ victory' = [victory EXCEPT ![q] =
          RoundPoint(BattlePower[<<hand[q], rivalHand[q], at[q]>>]) = {1}]
      /\ stage' = [stage EXCEPT ![q].played = TRUE]
      /\ UNCHANGED <<vars, robbed, salted, screen, at, tally, hand, rivalHand, call, air, relayed>>
  BY DEF Replay
<1>2. SameChain /\ at[q] \in Rounds BY <1>1, Parts, ChainIs DEF ClientTypes
<1>3. /\ stage'[q].bridge = stage[q].bridge /\ stage' \in [Clients -> Stage]
      /\ victory' \in [Clients -> BOOLEAN]
  <2>1. stage'[q].bridge = stage[q].bridge /\ stage' \in [Clients -> Stage]
    BY <1>1, Parts DEF ClientTypes, Stage
  <2>2. victory' \in [Clients -> BOOLEAN] BY <1>1, Parts DEF ClientTypes
  <2> QED BY <2>1, <2>2
<1>4. ClientTypes' BY <1>1, <1>3, Parts DEF ClientTypes
<1>5. \A p \in Clients \ {q} : Mine(p)' = Mine(p) BY <1>1, Parts DEF ClientTypes, Mine
<1>6. Awaited(q)' BY <1>1, <1>3, Parts DEF Awaited
<1>7. Follows(q)' BY <1>1, <1>2, <1>3, Parts, FollowsFrame
<1>8. Tells(q)' BY <1>1, <1>2, <1>3, Parts, TellsFrame
<1>9. OnePlay(q)' BY <1>1, <1>2, <1>3, Parts, OnePlayFrame
<1>10. RevealUnderWay(q)' BY <1>1, <1>2, <1>3, Parts, UnderWayFrame
<1>11. ShowsOpened(q)' BY <1>1, <1>2, <1>3, Parts, ShowsFrame
<1>12. RelaysOpened' BY <1>1, <1>2, <1>3, Parts, RelayFrame
<1>13. q \in Steady => SealHeld(q)' BY <1>1, <1>2, <1>3, Parts, UnderWayFrame DEF SealHeld
<1> QED
  BY <1>1, <1>4, <1>5, <1>6, <1>7, <1>8, <1>9, <1>10, <1>11, <1>12, <1>13, OwnStep

LEMMA SkipsReplay ==
  ASSUME ClientInv, NEW q \in Clients, SkipReplay(q)
  PROVE  ClientInv'
<1>1. /\ screen[q] = "reveal"
      /\ stage' = [stage EXCEPT ![q].played = TRUE]
      /\ UNCHANGED <<vars, robbed, salted, screen, at, tally, victory, hand, rivalHand, call, air, relayed>>
  BY DEF SkipReplay
<1>2. SameChain /\ at[q] \in Rounds BY <1>1, Parts, ChainIs DEF ClientTypes
<1>3. stage'[q].bridge = stage[q].bridge /\ stage' \in [Clients -> Stage]
  BY <1>1, Parts DEF ClientTypes, Stage
<1>4. ClientTypes' BY <1>1, <1>3, Parts DEF ClientTypes
<1>5. \A p \in Clients \ {q} : Mine(p)' = Mine(p) BY <1>1, Parts DEF ClientTypes, Mine
<1>6. Awaited(q)' BY <1>1, <1>3, Parts DEF Awaited
<1>7. Follows(q)' BY <1>1, <1>2, <1>3, Parts, FollowsFrame
<1>8. Tells(q)' BY <1>1, <1>2, <1>3, Parts, TellsFrame
<1>9. OnePlay(q)' BY <1>1, <1>2, <1>3, Parts, OnePlayFrame
<1>10. RevealUnderWay(q)' BY <1>1, <1>2, <1>3, Parts, UnderWayFrame
<1>11. ShowsOpened(q)' BY <1>1, <1>2, <1>3, Parts, ShowsFrame
<1>12. RelaysOpened' BY <1>1, <1>2, <1>3, Parts, RelayFrame
<1>13. q \in Steady => SealHeld(q)' BY <1>1, <1>2, <1>3, Parts, UnderWayFrame DEF SealHeld
<1> QED
  BY <1>1, <1>4, <1>5, <1>6, <1>7, <1>8, <1>9, <1>10, <1>11, <1>12, <1>13, OwnStep

LEMMA BridgeShows ==
  ASSUME ClientInv, NEW q \in Clients, ShowBridge(q)
  PROVE  ClientInv'
<1>1. /\ screen[q] = "reveal" /\ at[q] < round[TheDuel]
      /\ stage' = [stage EXCEPT ![q].bridge = [round |-> round[TheDuel], wins |-> wins[TheDuel]]]
      /\ UNCHANGED <<vars, robbed, salted, screen, at, tally, victory, hand, rivalHand, call, air, relayed>>
  BY DEF ShowBridge, Resolving, RoundAdvanced
<1>2. SameChain /\ at[q] \in Rounds BY <1>1, Parts, ChainIs DEF ClientTypes
<1>3. /\ stage'[q].bridge.round = round[TheDuel] /\ stage'[q].bridge.wins = wins[TheDuel]
      /\ stage' \in [Clients -> Stage]
  <2>1. [round |-> round[TheDuel], wins |-> wins[TheDuel]] \in Bridge
    BY Parts, ClientAssumption DEF Bridge, IInv, TypeOK
  <2> QED BY <1>1, <2>1, Parts DEF ClientTypes, Stage
<1>4. ClientTypes' BY <1>1, <1>3, Parts DEF ClientTypes
<1>5. \A p \in Clients \ {q} : Mine(p)' = Mine(p) BY <1>1, Parts DEF ClientTypes, Mine
<1>6. Awaited(q)' BY <1>1, <1>3, Parts DEF Awaited
<1>7. Follows(q)' BY <1>1, <1>2, <1>3, Parts DEF SameChain, Follows, SealOf
<1>8. Tells(q)' BY <1>1, <1>2, <1>3, Parts, TellsFrame
<1>9. OnePlay(q)' BY <1>1, <1>2, <1>3, Parts, OnePlayFrame
<1>10. RevealUnderWay(q)' BY <1>1, <1>2, <1>3, Parts, UnderWayFrame
<1>11. ShowsOpened(q)' BY <1>1, <1>2, <1>3, Parts, ShowsFrame
<1>12. RelaysOpened' BY <1>1, <1>2, <1>3, Parts, RelayFrame
<1>13. q \in Steady => SealHeld(q)' BY <1>1, <1>2, <1>3, Parts, UnderWayFrame DEF SealHeld
<1> QED
  BY <1>1, <1>4, <1>5, <1>6, <1>7, <1>8, <1>9, <1>10, <1>11, <1>12, <1>13, OwnStep

LEMMA ClaimAsked ==
  ASSUME ClientInv, NEW q \in Clients, ClaimTimeout(q)
  PROVE  ClientInv'
<1>1. /\ screen[q] = "reveal" /\ call[q] = None
      /\ call' = [call EXCEPT ![q] = Awaiting("claim", q, None)]
      /\ UNCHANGED <<vars, robbed, salted, screen, at, tally, victory, hand, rivalHand, air, relayed, stage>>
  BY DEF ClaimTimeout, ClaimOffered, Resolving
<1>2. SameChain /\ at[q] \in Rounds BY <1>1, Parts, ChainIs DEF ClientTypes
<1>3. /\ call'[q] # None /\ call'[q].tx.op = "claim" /\ call'[q].tx.round = at[q]
      /\ call'[q].tx.play = None /\ ~call'[q].sent
      /\ call' \in [Clients -> {None} \cup Call]
  <2>1. call' = [call EXCEPT ![q] = Awaiting("claim", q, None)] BY <1>1
  <2>2. "claim" \in Ops /\ None \in Plays \cup {None} /\ ClientTypes BY Parts DEF Ops
  <2> QED BY <2>1, <2>2, CallSet
<1>4. ClientTypes' BY <1>1, <1>3, Parts DEF ClientTypes
<1>5. \A p \in Clients \ {q} : Mine(p)' = Mine(p) BY <1>1, Parts DEF ClientTypes, Mine
<1>6. Awaited(q)' BY <1>1, <1>3, Parts DEF Awaited
<1>7. Follows(q)' BY <1>1, <1>2, <1>3, Parts, FollowsFrame
<1>8. Tells(q)' BY <1>1, <1>2, <1>3, Parts, TellsFrame
<1>9. OnePlay(q)' BY <1>1, <1>2, <1>3, Parts, OnePlayFrame
<1>10. RevealUnderWay(q)' BY <1>1, <1>3, Parts, NoReveal
<1>11. ShowsOpened(q)' BY <1>1, <1>2, <1>3, Parts, ShowsFrame
<1>12. RelaysOpened' BY <1>1, <1>2, <1>3, Parts, RelayFrame
<1>13. q \in Steady => SealHeld(q)' BY <1>1, <1>2, <1>3, Parts, NoCommit, SealFrame
<1> QED
  BY <1>1, <1>4, <1>5, <1>6, <1>7, <1>8, <1>9, <1>10, <1>11, <1>12, <1>13, OwnStep

LEMMA ClaimConfirms ==
  ASSUME ClientInv, NEW q \in Clients, ClaimConfirmed(q)
  PROVE  ClientInv'
<1>1. /\ call[q] # None /\ call[q].tx.op = "claim"
      /\ call' = [call EXCEPT ![q] = None]
      /\ UNCHANGED <<vars, robbed, salted, screen, at, tally, victory, hand, rivalHand, air, relayed, stage>>
  BY DEF ClaimConfirmed, Included, IsAwaiting
<1>2. SameChain /\ at[q] \in Rounds BY <1>1, Parts, ChainIs DEF ClientTypes
<1>3. call'[q] = None
  BY <1>1, Parts DEF ClientTypes
<1>4. ClientTypes' BY <1>1, <1>3, Parts DEF ClientTypes
<1>5. \A p \in Clients \ {q} : Mine(p)' = Mine(p) BY <1>1, Parts DEF ClientTypes, Mine
<1>6. Awaited(q)' BY <1>1, <1>3, Parts DEF Awaited
<1>7. Follows(q)' BY <1>1, <1>2, <1>3, Parts, FollowsFrame
<1>8. Tells(q)' BY <1>1, <1>2, <1>3, Parts, TellsFrame
<1>9. OnePlay(q)' BY <1>1, <1>2, <1>3, Parts, OnePlayFrame
<1>10. RevealUnderWay(q)' BY <1>1, <1>3, Parts, NoReveal
<1>11. ShowsOpened(q)' BY <1>1, <1>2, <1>3, Parts, ShowsFrame
<1>12. RelaysOpened' BY <1>1, <1>2, <1>3, Parts, RelayFrame
<1>13. q \in Steady => SealHeld(q)' BY <1>1, <1>2, <1>3, Parts, NoCommit, SealFrame
<1> QED
  BY <1>1, <1>4, <1>5, <1>6, <1>7, <1>8, <1>9, <1>10, <1>11, <1>12, <1>13, OwnStep

LEMMA ResultShows ==
  ASSUME ClientInv, NEW q \in Clients, ShowResult(q)
  PROVE  ClientInv'
<1>1. /\ screen[q] = "reveal" /\ ended[TheDuel]
      /\ air' = air \/ /\ q \notin Steady /\ call[q] # None /\ call[q].tx.op = "claim"
                       /\ air' = [air EXCEPT ![q] = @ \cup {call[q].tx}]
      /\ screen' = [screen EXCEPT ![q] = "loot"]
      /\ victory' = [victory EXCEPT ![q] = (winner[TheDuel] = q)]
      /\ tally' = [tally EXCEPT ![q] = wins[TheDuel]]
      /\ stage' = [stage EXCEPT ![q] = FreshStage]
      /\ call' = [call EXCEPT ![q] = None]
      /\ UNCHANGED <<vars, robbed, salted, at, hand, rivalHand, relayed>>
  BY DEF ShowResult, Resolving, Result, Abandon, IsAwaiting
<1>2. SameChain /\ at[q] \in Rounds BY <1>1, Parts, ChainIs DEF ClientTypes
<1>2a. /\ air' \in [Clients -> SUBSET Sent] /\ \A p \in Clients \ {q} : air'[p] = air[p]
       /\ \A tx \in air'[q] : tx \in air[q] \/ (tx.op = "claim" /\ tx.round = at[q])
  <2>1. CASE air' = air BY <2>1, Parts DEF ClientTypes
  <2>2. CASE air' # air
    <3>1. /\ call[q] # None /\ call[q].tx.op = "claim"
          /\ air' = [air EXCEPT ![q] = @ \cup {call[q].tx}]
      BY <1>1, <2>2
    <3>2. call[q].tx \in Transaction /\ call[q].tx.round = at[q]
      BY <3>1, Parts, CallIs DEF Awaited
    <3>3. call[q].tx \in Sent BY <3>1, <3>2 DEF Sent
    <3> QED BY <3>1, <3>2, <3>3, Parts DEF ClientTypes
  <2> QED BY <2>1, <2>2
<1>3. /\ screen'[q] = "loot" /\ victory'[q] = (winner[TheDuel] = q) /\ tally'[q] = wins[TheDuel]
      /\ call'[q] = None /\ stage'[q].bridge = None /\ stage' \in [Clients -> Stage]
      /\ victory' \in [Clients -> BOOLEAN] /\ tally' \in [Clients -> [Side -> 0..RoundsToWin]]
  <2>1. wins[TheDuel] \in [Side -> 0..RoundsToWin] BY Parts, ClientAssumption DEF IInv, TypeOK
  <2>2. screen'[q] = "loot" /\ call'[q] = None BY <1>1, Parts DEF ClientTypes
  <2>3. stage'[q].bridge = None /\ stage' \in [Clients -> Stage]
    BY <1>1, Parts DEF ClientTypes, FreshStage, Stage
  <2>4. victory'[q] = (winner[TheDuel] = q) /\ victory' \in [Clients -> BOOLEAN]
    BY <1>1, Parts DEF ClientTypes
  <2>5. tally'[q] = wins[TheDuel] /\ tally' \in [Clients -> [Side -> 0..RoundsToWin]]
    BY <1>1, <2>1, Parts DEF ClientTypes
  <2> QED BY <2>2, <2>3, <2>4, <2>5
<1>4. ClientTypes' BY <1>1, <1>3, Parts, <1>2a DEF ClientTypes, Screens
<1>5. \A p \in Clients \ {q} : Mine(p)' = Mine(p) BY <1>1, Parts DEF ClientTypes, Mine
<1>6. Awaited(q)' BY <1>1, <1>3, <1>2a, Parts DEF Awaited
<1>7. Follows(q)'
  <2>1. at[q] <= at[q] BY <1>2, DuelAssumption DEF Rounds
  <2>2. \A tx \in air[q] : tx.round <= at[q] BY <1>1, Parts DEF Follows
  <2>3. \A tx \in air'[q] : tx.round <= at[q] BY <1>2a, <2>1, <2>2
  <2> QED BY <1>1, <1>2, <1>3, <2>3, Parts DEF SameChain, Follows, SealOf
<1>8. Tells(q)' BY <1>1, <1>2, <1>3 DEF SameChain, Tells
<1>9. OnePlay(q)' BY <1>3 DEF OnePlay
<1>10. RevealUnderWay(q)' BY <1>1, <1>3, <1>2a, Parts, NoReveal
<1>11. ShowsOpened(q)' BY <1>1, <1>2, <1>3, <1>2a, Parts, ShowsFrame
<1>12. RelaysOpened' BY <1>1, <1>2, <1>3, <1>2a, Parts, RelayFrame
<1>13. q \in Steady => SealHeld(q)' BY <1>1, <1>2, <1>3, <1>2a, Parts, NoLateCommit, SealFrame
<1> QED
  BY <1>1, <1>4, <1>5, <1>6, <1>7, <1>8, <1>9, <1>10, <1>11, <1>12, <1>13, OwnStep

LEMMA RoundAdvances ==
  ASSUME ClientInv, NEW q \in Clients, AdvanceRound(q)
  PROVE  ClientInv'
<1>1. /\ screen[q] = "reveal" /\ stage[q].bridge # None
      /\ air' = air \/ /\ q \notin Steady /\ call[q] # None /\ call[q].tx.op = "claim"
                       /\ air' = [air EXCEPT ![q] = @ \cup {call[q].tx}]
      /\ screen' = [screen EXCEPT ![q] = "preparation"]
      /\ at' = [at EXCEPT ![q] = stage[q].bridge.round]
      /\ tally' = [tally EXCEPT ![q] = stage[q].bridge.wins]
      /\ hand' = [hand EXCEPT ![q] = None]
      /\ rivalHand' = [rivalHand EXCEPT ![q] = None]
      /\ stage' = [stage EXCEPT ![q] = FreshStage]
      /\ call' = [call EXCEPT ![q] = None]
      /\ salted' = [salted EXCEPT ![q] = FALSE]
      /\ UNCHANGED <<vars, robbed, victory, relayed>>
  BY DEF AdvanceRound, Abandon, IsAwaiting
<1>2. SameChain /\ at[q] \in Rounds BY <1>1, Parts, ChainIs DEF ClientTypes
<1>2a. /\ air' \in [Clients -> SUBSET Sent] /\ \A p \in Clients \ {q} : air'[p] = air[p]
       /\ \A tx \in air'[q] : tx \in air[q] \/ (tx.op = "claim" /\ tx.round = at[q])
  <2>1. CASE air' = air BY <2>1, Parts DEF ClientTypes
  <2>2. CASE air' # air
    <3>1. /\ call[q] # None /\ call[q].tx.op = "claim"
          /\ air' = [air EXCEPT ![q] = @ \cup {call[q].tx}]
      BY <1>1, <2>2
    <3>2. call[q].tx \in Transaction /\ call[q].tx.round = at[q]
      BY <3>1, Parts, CallIs DEF Awaited
    <3>3. call[q].tx \in Sent BY <3>1, <3>2 DEF Sent
    <3> QED BY <3>1, <3>2, <3>3, Parts DEF ClientTypes
  <2> QED BY <2>1, <2>2
<1>3. /\ screen'[q] = "preparation" /\ call'[q] = None /\ hand'[q] = None /\ rivalHand'[q] = None
      /\ at'[q] = round[TheDuel] /\ at[q] < at'[q] /\ at' \in [Clients -> Rounds]
      /\ stage'[q].bridge = None /\ stage' \in [Clients -> Stage]
      /\ tally' \in [Clients -> [Side -> 0..RoundsToWin]]
  <2>1. round[TheDuel] \in Rounds /\ wins[TheDuel] \in [Side -> 0..RoundsToWin]
    BY Parts, ClientAssumption DEF IInv, TypeOK
  <2>2. /\ stage[q].bridge.round = round[TheDuel] /\ stage[q].bridge.wins = wins[TheDuel]
        /\ at[q] < round[TheDuel]
    BY <1>1, Parts DEF Follows
  <2>3. screen'[q] = "preparation" /\ call'[q] = None /\ hand'[q] = None /\ rivalHand'[q] = None
    BY <1>1, Parts DEF ClientTypes
  <2>4. at'[q] = round[TheDuel] /\ at' \in [Clients -> Rounds]
    BY <1>1, <2>1, <2>2, Parts DEF ClientTypes
  <2>5. stage'[q].bridge = None /\ stage' \in [Clients -> Stage]
    BY <1>1, Parts DEF ClientTypes, FreshStage, Stage
  <2>6. tally' \in [Clients -> [Side -> 0..RoundsToWin]] BY <1>1, <2>1, <2>2, Parts DEF ClientTypes
  <2> QED BY <2>2, <2>3, <2>4, <2>5, <2>6
<1>4. ClientTypes' BY <1>1, <1>3, Parts, <1>2a DEF ClientTypes, Screens
<1>5. \A p \in Clients \ {q} : Mine(p)' = Mine(p) BY <1>1, Parts DEF ClientTypes, Mine
<1>6. Awaited(q)' BY <1>1, <1>3, <1>2a, Parts DEF Awaited
<1>7. Follows(q)'
  <2>1. at[q] \in Nat /\ at'[q] \in Nat /\ \A r \in Rounds : r \in Nat
    BY <1>2, <1>3, Parts, DuelAssumption DEF Rounds, ClientTypes
  <2>2. \A tx \in air[q] : tx.round \in Rounds /\ tx.round <= at[q]
    BY <1>1, Parts DEF ClientTypes, Sent, Transaction, Follows
  <2>3. \A tx \in air'[q] : tx.round <= at'[q] BY <1>2, <1>3, <1>2a, <2>1, <2>2
  <2>4. \A r \in Rounds : r > at'[q] => SealOf(q, r) = None
    BY <1>1, <1>3, <2>1, Parts DEF Follows
  <2>5. UNCHANGED <<round, commitment>> BY <1>2 DEF SameChain
  <2> QED BY <1>3, <2>1, <2>3, <2>4, <2>5 DEF Follows, SealOf
<1>8. Tells(q)' BY <1>3 DEF Tells
<1>9. OnePlay(q)'
  <2>1. at[q] \in Nat /\ at'[q] \in Nat /\ \A r \in Rounds : r \in Nat
    BY <1>2, <1>3, Parts, DuelAssumption DEF Rounds, ClientTypes
  <2>2. \A tx \in air[q] : tx.round \in Rounds /\ tx.round <= at[q]
    BY <1>1, Parts DEF ClientTypes, Sent, Transaction, Follows
  <2>3. \A tx \in air'[q] : ~IsReveal(q, tx)'
    BY <1>2, <1>3, <1>2a, <2>1, <2>2 DEF IsReveal
  <2>4. at'[q] \in Rounds BY <1>3
  <2>5. SealOf(q, at'[q]) = None BY <1>1, <1>3, <2>1, <2>4, Parts DEF Follows
  <2>6. OpenOf(q, at'[q]) = None BY <2>4, <2>5, Parts, Unopened
  <2>7. revealed' = revealed BY <1>2 DEF SameChain
  <2> QED BY <1>3, <2>3, <2>6, <2>7 DEF OnePlay, OpenOf
<1>10. RevealUnderWay(q)' BY <1>1, <1>3, <1>2a, Parts, NoReveal
<1>11. ShowsOpened(q)' BY <1>3 DEF ShowsOpened
<1>12. RelaysOpened' BY <1>1, <1>2, <1>3, <1>2a, Parts, RelayFrame
<1>13. q \in Steady => SealHeld(q)' BY <1>1, <1>2, <1>3, <1>2a, Parts, NoLateCommit, SealFrame
<1> QED
  BY <1>1, <1>4, <1>5, <1>6, <1>7, <1>8, <1>9, <1>10, <1>11, <1>12, <1>13, OwnStep

LEMMA Continues ==
  ASSUME ClientInv, NEW q \in Clients, Continue(q)
  PROVE  ClientInv'
<1>1. /\ screen[q] = "loot"
      /\ screen' = [screen EXCEPT ![q] = "home"]
      /\ at' = [at EXCEPT ![q] = 1]
      /\ tally' = [tally EXCEPT ![q] = [s \in Side |-> 0]]
      /\ victory' = [victory EXCEPT ![q] = FALSE]
      /\ hand' = [hand EXCEPT ![q] = None]
      /\ rivalHand' = [rivalHand EXCEPT ![q] = None]
      /\ salted' = [salted EXCEPT ![q] = FALSE]
      /\ UNCHANGED <<vars, robbed, call, air, relayed, stage>>
  BY DEF Continue
<1>2. SameChain /\ at[q] \in Rounds BY <1>1, Parts, ChainIs DEF ClientTypes
<1>3. /\ screen'[q] = "home" /\ call[q] = None /\ call'[q] = None /\ rivalHand'[q] = None
      /\ at' \in [Clients -> Rounds] /\ tally' \in [Clients -> [Side -> 0..RoundsToWin]]
  <2>1. call[q] # None => call[q].tx.op \in Ops BY Parts, CallIs
  <2>2. call[q] = None BY <1>1, <2>1, Parts DEF Awaited, Ops
  <2>3. screen'[q] = "home" /\ rivalHand'[q] = None BY <1>1, Parts DEF ClientTypes
  <2>4. at' \in [Clients -> Rounds] BY <1>1, Parts, DuelAssumption DEF ClientTypes, Rounds
  <2>5. tally' \in [Clients -> [Side -> 0..RoundsToWin]]
    BY <1>1, Parts, DuelAssumption DEF ClientTypes
  <2> QED BY <1>1, <2>2, <2>3, <2>4, <2>5
<1>4. ClientTypes' BY <1>1, <1>3, Parts DEF ClientTypes, Screens
<1>5. \A p \in Clients \ {q} : Mine(p)' = Mine(p) BY <1>1, Parts DEF ClientTypes, Mine
<1>6. Awaited(q)' BY <1>1, <1>3, Parts DEF Awaited
<1>7. Follows(q)' BY <1>1, <1>2, <1>3, Parts DEF SameChain, Follows
<1>8. Tells(q)' BY <1>3 DEF Tells
<1>9. OnePlay(q)' BY <1>3 DEF OnePlay
<1>10. RevealUnderWay(q)' BY <1>1, <1>3, Parts, NoReveal
<1>11. ShowsOpened(q)' BY <1>3 DEF ShowsOpened
<1>12. RelaysOpened' BY <1>1, <1>2, <1>3, Parts, RelayFrame
<1>13. q \in Steady => SealHeld(q)' BY <1>1, <1>2, <1>3, Parts, NoLateCommit, SealFrame
<1> QED
  BY <1>1, <1>4, <1>5, <1>6, <1>7, <1>8, <1>9, <1>10, <1>11, <1>12, <1>13, OwnStep

LEMMA Reloads ==
  ASSUME ClientInv, NEW q \in Clients, Reload(q)
  PROVE  ClientInv'
<1>1. /\ q \notin Steady /\ screen[q] # "home"
      /\ hand' = IF screen[q] = "preparation" THEN [hand EXCEPT ![q] = None] ELSE hand
      /\ call' = [call EXCEPT ![q] = None]
      /\ stage' = [stage EXCEPT ![q] =
            [FreshStage EXCEPT !.own = IF screen[q] = "reveal" THEN "failed" ELSE "pending"]]
      /\ salted' = [salted EXCEPT ![q] = FALSE]
      /\ UNCHANGED <<vars, robbed, screen, at, tally, victory, rivalHand, air, relayed>>
  BY DEF Reload
<1>2. SameChain /\ at[q] \in Rounds BY <1>1, Parts, ChainIs DEF ClientTypes
<1>3. /\ call'[q] = None /\ hand'[q] \in {None, hand[q]} /\ stage'[q].bridge = None
      /\ screen[q] # "preparation" => hand'[q] = hand[q]
      /\ hand' \in [Clients -> Plays \cup {None}]
      /\ \A p \in Clients \ {q} : hand'[p] = hand[p]
      /\ stage' \in [Clients -> Stage]
  <2>1. [FreshStage EXCEPT !.own = IF screen[q] = "reveal" THEN "failed" ELSE "pending"] \in Stage
    BY DEF FreshStage, Stage
  <2>2. stage'[q].bridge = None BY <1>1, Parts DEF ClientTypes, FreshStage
  <2>3. stage' \in [Clients -> Stage] BY <1>1, <2>1, Parts DEF ClientTypes
  <2>4. /\ hand'[q] \in {None, hand[q]} /\ hand' \in [Clients -> Plays \cup {None}]
        /\ screen[q] # "preparation" => hand'[q] = hand[q]
        /\ \A p \in Clients \ {q} : hand'[p] = hand[p]
    <3>1. CASE screen[q] = "preparation" BY <1>1, <3>1, Parts DEF ClientTypes
    <3>2. CASE screen[q] # "preparation" BY <1>1, <3>2, Parts DEF ClientTypes
    <3> QED BY <3>1, <3>2
  <2>5. call'[q] = None BY <1>1, Parts DEF ClientTypes
  <2> QED BY <2>2, <2>3, <2>4, <2>5
<1>4. ClientTypes' BY <1>1, <1>3, Parts DEF ClientTypes
<1>5. \A p \in Clients \ {q} : Mine(p)' = Mine(p) BY <1>1, Parts DEF ClientTypes, Mine
<1>6. Awaited(q)' BY <1>1, <1>3, Parts DEF Awaited
<1>7. Follows(q)' BY <1>1, <1>2, <1>3, Parts DEF SameChain, Follows, SealOf
<1>8. Tells(q)' BY <1>1, <1>2, <1>3, Parts, TellsFrame
<1>9. OnePlay(q)' BY <1>1, <1>2, <1>3, Parts, OnePlayFrame
<1>10. RevealUnderWay(q)' BY <1>1, <1>3, Parts, NoReveal
<1>11. ShowsOpened(q)' BY <1>1, <1>2, <1>3, Parts, ShowsFrame
<1>12. RelaysOpened' BY <1>1, <1>2, <1>3, Parts, RelayFrame
<1>13. q \in Steady => SealHeld(q)' BY <1>1
<1> QED
  BY <1>1, <1>4, <1>5, <1>6, <1>7, <1>8, <1>9, <1>10, <1>11, <1>12, <1>13, OwnStep

LEMMA FailsToSend ==
  ASSUME ClientInv, NEW q \in Clients, SendFails(q)
  PROVE  ClientInv'
<1>1. /\ call[q] # None /\ ~call[q].sent
      /\ stage' = IF call[q].tx.op = "reveal" THEN [stage EXCEPT ![q].own = "failed"] ELSE stage
      /\ hand' = [hand EXCEPT ![q] = AfterFailure(q, call[q].tx.op)]
      /\ call' = [call EXCEPT ![q] = None]
      /\ UNCHANGED <<vars, robbed, salted, screen, at, tally, victory, rivalHand, air, relayed>>
  BY DEF SendFails, Throws
<1>2. SameChain /\ at[q] \in Rounds BY <1>1, Parts, ChainIs DEF ClientTypes
<1>3. /\ call'[q] = None /\ hand'[q] \in {None, hand[q]} /\ hand' \in [Clients -> Plays \cup {None}]
      /\ screen[q] \in {"interruption", "reveal"} => hand'[q] = hand[q]
      /\ stage'[q].bridge = stage[q].bridge /\ stage' \in [Clients -> Stage]
      /\ \A p \in Clients \ {q} : stage'[p] = stage[p]
  <2>1. hand'[q] = AfterFailure(q, call[q].tx.op) /\ call'[q] = None BY <1>1, Parts DEF ClientTypes
  <2>2. AfterFailure(q, call[q].tx.op) \in {None, hand[q]} BY DEF AfterFailure
  <2>3. hand' \in [Clients -> Plays \cup {None}] BY <1>1, <2>2, Parts DEF ClientTypes
  <2>4. screen[q] \in {"interruption", "reveal"} => hand'[q] = hand[q]
    BY <1>1, <2>1, Parts DEF Awaited, AfterFailure
  <2>5. CASE stage' = stage BY <2>1, <2>2, <2>3, <2>4, <2>5, Parts DEF ClientTypes
  <2>6. CASE stage' = [stage EXCEPT ![q].own = "failed"]
    <3>1. stage'[q].bridge = stage[q].bridge /\ stage' \in [Clients -> Stage]
      BY <2>6, Parts DEF ClientTypes, Stage
    <3>2. \A p \in Clients \ {q} : stage'[p] = stage[p] BY <2>6, Parts DEF ClientTypes
    <3> QED BY <2>1, <2>2, <2>3, <2>4, <3>1, <3>2
  <2> QED BY <1>1, <2>5, <2>6
<1>4. ClientTypes' BY <1>1, <1>3, Parts DEF ClientTypes
<1>5. \A p \in Clients \ {q} : Mine(p)' = Mine(p) BY <1>1, Parts DEF ClientTypes, Mine
<1>6. Awaited(q)' BY <1>1, <1>3, Parts DEF Awaited
<1>7. Follows(q)' BY <1>1, <1>2, <1>3, Parts, FollowsFrame
<1>8. Tells(q)' BY <1>1, <1>2, <1>3, Parts, TellsFrame
<1>9. OnePlay(q)' BY <1>1, <1>2, <1>3, Parts, OnePlayFrame
<1>10. RevealUnderWay(q)' BY <1>1, <1>3, Parts, NoReveal
<1>11. ShowsOpened(q)' BY <1>1, <1>2, <1>3, Parts, ShowsFrame
<1>12. RelaysOpened' BY <1>1, <1>2, <1>3, Parts, RelayFrame
<1>13. q \in Steady => SealHeld(q)' BY <1>1, <1>2, <1>3, Parts, NoCommit, SealFrame
<1> QED
  BY <1>1, <1>4, <1>5, <1>6, <1>7, <1>8, <1>9, <1>10, <1>11, <1>12, <1>13, OwnStep

LEMMA LosesConfirmation ==
  ASSUME ClientInv, NEW q \in Clients, ConfirmationLost(q)
  PROVE  ClientInv'
<1>1. /\ call[q] # None /\ q \notin Steady
      /\ stage' = IF call[q].tx.op = "reveal" THEN [stage EXCEPT ![q].own = "failed"] ELSE stage
      /\ hand' = [hand EXCEPT ![q] = AfterFailure(q, call[q].tx.op)]
      /\ call' = [call EXCEPT ![q] = None]
      /\ UNCHANGED <<vars, robbed, salted, screen, at, tally, victory, rivalHand, air, relayed>>
  BY DEF ConfirmationLost, Throws
<1>2. SameChain /\ at[q] \in Rounds BY <1>1, Parts, ChainIs DEF ClientTypes
<1>3. /\ call'[q] = None /\ hand'[q] \in {None, hand[q]} /\ hand' \in [Clients -> Plays \cup {None}]
      /\ screen[q] \in {"interruption", "reveal"} => hand'[q] = hand[q]
      /\ stage'[q].bridge = stage[q].bridge /\ stage' \in [Clients -> Stage]
      /\ \A p \in Clients \ {q} : stage'[p] = stage[p]
  <2>1. hand'[q] = AfterFailure(q, call[q].tx.op) /\ call'[q] = None BY <1>1, Parts DEF ClientTypes
  <2>2. AfterFailure(q, call[q].tx.op) \in {None, hand[q]} BY DEF AfterFailure
  <2>3. hand' \in [Clients -> Plays \cup {None}] BY <1>1, <2>2, Parts DEF ClientTypes
  <2>4. screen[q] \in {"interruption", "reveal"} => hand'[q] = hand[q]
    BY <1>1, <2>1, Parts DEF Awaited, AfterFailure
  <2>5. CASE stage' = stage BY <2>1, <2>2, <2>3, <2>4, <2>5, Parts DEF ClientTypes
  <2>6. CASE stage' = [stage EXCEPT ![q].own = "failed"]
    <3>1. stage'[q].bridge = stage[q].bridge /\ stage' \in [Clients -> Stage]
      BY <2>6, Parts DEF ClientTypes, Stage
    <3>2. \A p \in Clients \ {q} : stage'[p] = stage[p] BY <2>6, Parts DEF ClientTypes
    <3> QED BY <2>1, <2>2, <2>3, <2>4, <3>1, <3>2
  <2> QED BY <1>1, <2>5, <2>6
<1>4. ClientTypes' BY <1>1, <1>3, Parts DEF ClientTypes
<1>5. \A p \in Clients \ {q} : Mine(p)' = Mine(p) BY <1>1, Parts DEF ClientTypes, Mine
<1>6. Awaited(q)' BY <1>1, <1>3, Parts DEF Awaited
<1>7. Follows(q)' BY <1>1, <1>2, <1>3, Parts, FollowsFrame
<1>8. Tells(q)' BY <1>1, <1>2, <1>3, Parts, TellsFrame
<1>9. OnePlay(q)' BY <1>1, <1>2, <1>3, Parts, OnePlayFrame
<1>10. RevealUnderWay(q)' BY <1>1, <1>3, Parts, NoReveal
<1>11. ShowsOpened(q)' BY <1>1, <1>2, <1>3, Parts, ShowsFrame
<1>12. RelaysOpened' BY <1>1, <1>2, <1>3, Parts, RelayFrame
<1>13. q \in Steady => SealHeld(q)' BY <1>1, <1>2, <1>3, Parts, NoCommit, SealFrame
<1> QED
  BY <1>1, <1>4, <1>5, <1>6, <1>7, <1>8, <1>9, <1>10, <1>11, <1>12, <1>13, OwnStep

LEMMA Expires ==
  ASSUME ClientInv, NEW q \in Clients, NEW tx \in air[q], Expire(q, tx)
  PROVE  ClientInv'
<1>1. /\ q \notin Steady /\ ~(call[q] # None /\ call[q].tx = tx)
      /\ air' = [air EXCEPT ![q] = @ \ {tx}]
      /\ UNCHANGED <<vars, robbed, salted, screen, at, tally, victory, hand, rivalHand, call, relayed, stage>>
  BY DEF Expire
<1>2. SameChain /\ at[q] \in Rounds BY <1>1, Parts, ChainIs DEF ClientTypes
<1>3. /\ air'[q] = air[q] \ {tx} /\ air' \in [Clients -> SUBSET Sent]
  BY <1>1, Parts DEF ClientTypes
<1>4. ClientTypes' BY <1>1, <1>3, Parts DEF ClientTypes
<1>5. \A p \in Clients \ {q} : Mine(p)' = Mine(p) BY <1>1, Parts DEF ClientTypes, Mine
<1>6. Awaited(q)' BY <1>1, <1>3, Parts DEF Awaited
<1>7. Follows(q)' BY <1>1, <1>2, <1>3, Parts, FollowsFrame
<1>8. Tells(q)' BY <1>1, <1>2, <1>3, Parts, TellsFrame
<1>9. OnePlay(q)' BY <1>1, <1>2, <1>3, Parts, OnePlayFrame
<1>10. RevealUnderWay(q)'
  <2>1. RevealReady(q)' = RevealReady(q)
    BY <1>1, <1>2 DEF RevealReady, Exists, SealOf, OpenOf, SameChain
  <2>2. UNCHANGED <<ended, revealed>> BY <1>2 DEF SameChain
  <2> QED BY <1>1, <1>3, <2>1, <2>2, Parts DEF RevealUnderWay, IsAwaiting, OpenOf, OnAccount
<1>11. ShowsOpened(q)' BY <1>1, <1>2, <1>3, Parts, ShowsFrame
<1>12. RelaysOpened' BY <1>1, <1>2, <1>3, Parts, RelayFrame
<1>13. q \in Steady => SealHeld(q)' BY <1>1
<1> QED
  BY <1>1, <1>4, <1>5, <1>6, <1>7, <1>8, <1>9, <1>10, <1>11, <1>12, <1>13, OwnStep

LEMMA Sends ==
  ASSUME ClientInv, NEW q \in Clients, Send(q)
  PROVE  ClientInv'
<1>1. /\ call[q] # None /\ ~call[q].sent /\ Accepted(q, call[q].tx)
      /\ call' = [call EXCEPT ![q].sent = TRUE]
      /\ air' = [air EXCEPT ![q] = @ \cup {call[q].tx}]
      /\ UNCHANGED <<vars, robbed, salted, screen, at, tally, victory, hand, rivalHand, relayed, stage>>
  BY DEF Send
<1>2. SameChain /\ at[q] \in Rounds BY <1>1, Parts, ChainIs DEF ClientTypes
<1>3. /\ call'[q] # None /\ call'[q].tx = call[q].tx
      /\ call'[q] = [tx |-> call[q].tx, sent |-> TRUE]
      /\ call' \in [Clients -> {None} \cup Call]
      /\ air'[q] = air[q] \cup {call[q].tx} /\ air' \in [Clients -> SUBSET Sent]
      /\ call[q].tx.round = at[q]
      /\ call[q].tx.op # "claim" => call[q].tx.play = hand[q] /\ hand[q] # None
  <2>1. call[q] \in Call /\ call[q].tx \in Transaction /\ call[q].sent \in BOOLEAN
    BY <1>1, Parts, CallIs
  <2>2. call'[q] = [call[q] EXCEPT !.sent = TRUE] BY <1>1, Parts DEF ClientTypes
  <2>3. call'[q] = [tx |-> call[q].tx, sent |-> TRUE] BY <2>1, <2>2 DEF Call
  <2>4. call'[q] \in Call BY <2>1, <2>3 DEF Call
  <2>5. call' \in [Clients -> {None} \cup Call]
    <3>1. [call[q] EXCEPT !.sent = TRUE] \in Call BY <2>2, <2>4
    <3> QED BY <1>1, <3>1, Parts DEF ClientTypes
  <2>6. /\ call[q].tx.round = at[q]
        /\ call[q].tx.op # "claim" => call[q].tx.play = hand[q] /\ hand[q] # None
    BY <1>1, Parts DEF Awaited
  <2>7. air'[q] = air[q] \cup {call[q].tx} /\ air' \in [Clients -> SUBSET Sent]
    <3>1. call[q].tx \in Sent BY <2>1, <2>6 DEF Sent
    <3> QED BY <1>1, <3>1, Parts DEF ClientTypes
  <2>8. call'[q] # None BY <2>4, ClientAssumption
  <2> QED BY <2>3, <2>5, <2>6, <2>7, <2>8
<1>4. ClientTypes' BY <1>1, <1>3, Parts DEF ClientTypes
<1>5. \A p \in Clients \ {q} : Mine(p)' = Mine(p) BY <1>1, Parts DEF ClientTypes, Mine
<1>6. Awaited(q)' BY <1>1, <1>3, Parts DEF Awaited
<1>7. Follows(q)' BY <1>1, <1>2, <1>3, Parts, FollowsFrame
<1>8. Tells(q)' BY <1>1, <1>2, <1>3, Parts, TellsFrame
<1>9. OnePlay(q)'
  <2>1. UNCHANGED <<revealed, screen, at, hand>> BY <1>1, <1>2 DEF SameChain
  <2>2. screen[q] \in {"preparation", "interruption"} => call[q].tx.op # "reveal"
    BY <1>1, Parts DEF Awaited
  <2>3. \A tx \in air'[q] : IsReveal(q, tx)' =>
          (tx \in air[q] /\ IsReveal(q, tx)) \/ (tx = call[q].tx /\ tx.op = "reveal")
    BY <1>3, <2>1 DEF IsReveal
  <2>4. CASE screen[q] = "reveal"
    <3>1. PICK h \in Plays \cup {None} :
            /\ hand[q] \in {None, h} /\ OpenOf(q, at[q]) \in {None, h}
            /\ \A tx \in air[q] : IsReveal(q, tx) => tx.play = h
      BY <2>4, Parts DEF OnePlay
    <3>2. \A tx \in air'[q] : IsReveal(q, tx)' => tx.play = h BY <1>3, <2>3, <3>1
    <3> QED BY <2>1, <2>4, <3>1, <3>2 DEF OnePlay, OpenOf
  <2>5. CASE screen[q] # "reveal" BY <2>1, <2>2, <2>3, <2>5, Parts DEF OnePlay, OpenOf
  <2> QED BY <2>4, <2>5
<1>10. RevealUnderWay(q)'
  <2> SUFFICES ASSUME call[q].tx.op = "reveal" PROVE call'[q].tx \in air'[q] /\ RevealReady(q)'
    BY <1>3 DEF RevealUnderWay, IsAwaiting
  <2>1. RevealAllowed(TheDuel, q, at[q], hand[q]) BY <1>1, <1>3 DEF Accepted
  <2>2. Exists(TheDuel) BY <2>1 DEF RevealAllowed, Participant
  <2>3. SideOf(TheDuel, q) = SeatOf(q) BY <2>2, Parts, SeatIs
  <2>4. RevealReady(q) BY <2>1, <2>2, <2>3 DEF RevealAllowed, RevealReady, SealOf, OpenOf
  <2>5. RevealReady(q)' BY <1>1, <1>2, <2>4 DEF RevealReady, Exists, SealOf, OpenOf, SameChain
  <2> QED BY <1>3, <2>5
<1>11. ShowsOpened(q)' BY <1>1, <1>2, <1>3, Parts, ShowsFrame
<1>12. RelaysOpened' BY <1>1, <1>2, <1>3, Parts, RelayFrame
<1>13. q \in Steady => SealHeld(q)'
  <2> SUFFICES ASSUME q \in Steady PROVE SealHeld(q)'
    OBVIOUS
  <2>1. \A tx \in air[q] : tx.op # "commit" BY <1>1, Parts, NoCommit
  <2>2. \A tx \in air'[q] : tx.op = "commit" => call'[q] = [tx |-> tx, sent |-> TRUE]
    BY <1>3, <2>1
  <2>3. ASSUME call[q].tx.op = "commit" PROVE CommitReady(q)'
    <3>1. /\ hand[q] \in Provable /\ CommitAllowed(TheDuel, q, at[q])
          /\ PaysEntry(TheDuel, q, at[q]) => CanSpend(energy[q], 0, regenAge[q], EnergyCost)
      BY <1>1, <1>3, <2>3 DEF Accepted
    <3>2. Exists(TheDuel) BY <3>1 DEF CommitAllowed, Participant
    <3>3. SideOf(TheDuel, q) = SeatOf(q) BY <3>2, Parts, SeatIs
    <3>4. CommitReady(q) BY <3>1, <3>2, <3>3 DEF CommitAllowed, CommitReady, SealOf, PaysEntry
    <3> QED BY <1>1, <1>2, <3>4 DEF CommitReady, Exists, SealOf, SameChain
  <2>4. CommitUnderWay(q)' BY <1>3, <2>2, <2>3 DEF CommitUnderWay, IsAwaiting
  <2>5. screen'[q] \in {"interruption", "reveal"} => Sealed(q)'
    BY <1>1, <1>2, Parts DEF SealHeld, Sealed, SealOf, SameChain
  <2> QED BY <2>4, <2>5 DEF SealHeld
<1> QED
  BY <1>1, <1>4, <1>5, <1>6, <1>7, <1>8, <1>9, <1>10, <1>11, <1>12, <1>13, OwnStep

-----------------------------------------------------------------------------
(***************************************************************************)
(* The steps that reach the accounts.                                      *)
(***************************************************************************)

\* A transaction that the program refuses by now changes no account, and leaves
\* no awaited reveal or commitment behind that could still have been accepted.
LEMMA Refused ==
  ASSUME ClientInv, NEW q \in Clients, NEW tx \in air[q], Land(q, tx), ~Accepted(q, tx)
  PROVE  ClientInv'
<1>1. /\ air' = [air EXCEPT ![q] = @ \ {tx}]
      /\ UNCHANGED <<vars, robbed, salted, screen, at, tally, victory, hand, rivalHand, call, relayed, stage>>
  BY DEF Land
<1>2. SameChain /\ at[q] \in Rounds BY <1>1, Parts, ChainIs DEF ClientTypes
<1>3. air'[q] = air[q] \ {tx} /\ air' \in [Clients -> SUBSET Sent]
  BY <1>1, Parts DEF ClientTypes
<1>4. ClientTypes' BY <1>1, <1>3, Parts DEF ClientTypes
<1>5. \A p \in Clients \ {q} : Mine(p)' = Mine(p) BY <1>1, Parts DEF ClientTypes, Mine
<1>6. Awaited(q)' BY <1>1, <1>3, Parts DEF Awaited
<1>7. Follows(q)' BY <1>1, <1>2, <1>3, Parts, FollowsFrame
<1>8. Tells(q)' BY <1>1, <1>2, <1>3, Parts, TellsFrame
<1>9. OnePlay(q)' BY <1>1, <1>2, <1>3, Parts, OnePlayFrame
<1>10. Exists(TheDuel) => Participant(TheDuel, q) /\ SideOf(TheDuel, q) = SeatOf(q)
  <2>1. Exists(TheDuel) => seat[TheDuel][SeatOf(q)] = q BY Parts DEF Placed
  <2> QED BY <2>1, Parts, SeatIs, ClientsAre DEF Participant
<1>11. RevealUnderWay(q)'
  <2> SUFFICES ASSUME IsAwaiting(q, "reveal"), call[q].sent
               PROVE  \/ OnAccount(q, at[q], hand[q])
                      \/ call[q].tx \in air'[q] /\ RevealReady(q)
    BY <1>1, <1>2
    DEF RevealUnderWay, IsAwaiting, RevealReady, Exists, SealOf, OpenOf, OnAccount, SameChain
  <2>1. CASE call[q].tx = tx
    <3>1. tx.op = "reveal" /\ tx.round = at[q] /\ tx.play = hand[q]
      BY <2>1, Parts DEF IsAwaiting, Awaited
    <3>2. ~RevealAllowed(TheDuel, q, at[q], hand[q]) BY <3>1 DEF Accepted
    <3>3. RevealReady(q) => ended[TheDuel]
      BY <1>10, <3>2 DEF RevealReady, RevealAllowed, SealOf, OpenOf
    <3> QED BY <3>3, Parts DEF RevealUnderWay, OnAccount
  <2>2. CASE call[q].tx # tx BY <1>3, <2>2, Parts DEF RevealUnderWay
  <2> QED BY <2>1, <2>2
<1>12. ShowsOpened(q)' BY <1>1, <1>2, <1>3, Parts, ShowsFrame
<1>13. RelaysOpened' BY <1>1, <1>2, <1>3, Parts, RelayFrame
<1>14. q \in Steady => SealHeld(q)'
  <2> SUFFICES ASSUME q \in Steady PROVE SealHeld(q)'
    OBVIOUS
  <2>1. Sealed(q) => Sealed(q)' BY <1>1, <1>2 DEF Sealed, SealOf, SameChain
  <2>2. CommitReady(q) => CommitReady(q)'
    BY <1>1, <1>2 DEF CommitReady, Exists, SealOf, SameChain
  <2>3. ASSUME IsAwaiting(q, "commit"), call[q].sent
        PROVE  Sealed(q) \/ (call[q].tx \in air'[q] /\ CommitReady(q))
    <3>1. CASE call[q].tx = tx
      <4>1. tx.op = "commit" /\ tx.round = at[q] /\ tx.play = hand[q]
        BY <2>3, <3>1, Parts DEF IsAwaiting, Awaited
      <4>2. CommitReady(q) => ended[TheDuel]
        BY <1>10, <4>1 DEF CommitReady, CommitAllowed, Accepted, SealOf, PaysEntry
      <4> QED BY <2>3, <4>2, Parts DEF CommitUnderWay, Sealed
    <3>2. CASE call[q].tx # tx BY <1>3, <2>3, <3>2, Parts DEF CommitUnderWay
    <3> QED BY <3>1, <3>2
  <2>4. CommitUnderWay(q)'
    BY <1>1, <1>3, <2>1, <2>2, <2>3, Parts DEF CommitUnderWay, IsAwaiting
  <2>5. screen'[q] \in {"interruption", "reveal"} => Sealed(q)'
    BY <1>1, <2>1, Parts DEF SealHeld
  <2> QED BY <2>4, <2>5 DEF SealHeld
<1> QED
  BY <1>1, <1>4, <1>5, <1>6, <1>7, <1>8, <1>9, <1>11, <1>12, <1>13, <1>14, OwnStep

\* What is said of the accounts stays true of accounts that only grow, while the
\* screens stay.
ScreensStay ==
  /\ UNCHANGED <<screen, at, tally, victory, hand, rivalHand, call, relayed>>
  /\ robbed \subseteq robbed'

LEMMA Grows ==
  ASSUME ClientInv, AppendOnly(TheDuel), NEW p \in Clients, NEW r \in Rounds
  PROVE  /\ ended[TheDuel] => ended'[TheDuel]
         /\ SealOf(p, r) # None => SealOf(p, r)' = SealOf(p, r)
         /\ OpenOf(p, r) # None => OpenOf(p, r)' = OpenOf(p, r)
BY ClientsAre DEF AppendOnly, SealOf, OpenOf

LEMMA ChainFrame ==
  ASSUME ClientInv, AppendOnly(TheDuel), ScreensStay, NEW p \in Clients
  PROVE  /\ Awaited(p)' /\ Tells(p)' /\ ShowsOpened(p)'
         /\ Sealed(p) => Sealed(p)'
<1>1. UNCHANGED <<screen, at, tally, victory, hand, rivalHand, call>> BY DEF ScreensStay
<1>2. at[p] \in Rounds /\ hand[p] \in Plays \cup {None} /\ Rival(p) \in Clients
  BY Parts, ClientsAre DEF ClientTypes
<1>3. Awaited(p)' BY <1>1, Parts DEF Awaited
<1>4. Tells(p)'
  <2>1. ended[TheDuel] => UNCHANGED <<winner[TheDuel], wins[TheDuel]>> BY DEF AppendOnly
  <2> QED BY <1>1, <2>1, Parts DEF Tells, Follows
<1>5. ShowsOpened(p)'
  <2>1. /\ ended[TheDuel] => ended'[TheDuel]
        /\ OpenOf(Rival(p), at[p]) # None =>
             OpenOf(Rival(p), at[p])' = OpenOf(Rival(p), at[p])
    <3>1. PICK r \in Rounds : r = at[p] BY <1>2
    <3>2. OpenOf(Rival(p), r) # None => OpenOf(Rival(p), r)' = OpenOf(Rival(p), r)
      BY <1>2, Grows
    <3>3. OpenOf(Rival(p), at[p])' = OpenOf(Rival(p), r)' BY <1>1, <3>1 DEF OpenOf
    <3> QED BY <3>1, <3>2, <3>3 DEF AppendOnly
  <2>2. rivalHand[p] # None => OnAccount(Rival(p), at[p], rivalHand[p])
    BY Parts DEF ShowsOpened
  <2>3. OnAccount(Rival(p), at[p], rivalHand[p]) /\ rivalHand[p] # None
          => OnAccount(Rival(p), at[p], rivalHand[p])'
    BY <1>1, <2>1 DEF OnAccount, OpenOf, ScreensStay
  <2> QED BY <1>1, <2>2, <2>3 DEF ShowsOpened
<1>6. Sealed(p) => Sealed(p)'
  <2>1. hand[p] # None => Seal[hand[p]] # None BY <1>2, DuelAssumption
  <2>2. PICK r \in Rounds : r = at[p] BY <1>2
  <2>3. SealOf(p, r) # None => SealOf(p, r)' = SealOf(p, r) BY Grows
  <2>4. SealOf(p, at[p])' = SealOf(p, r)' BY <1>1, <2>2 DEF SealOf
  <2>5. ended[TheDuel] => ended'[TheDuel] BY DEF AppendOnly
  <2> QED BY <1>1, <2>1, <2>2, <2>3, <2>4, <2>5 DEF Sealed
<1> QED BY <1>3, <1>4, <1>5, <1>6

LEMMA RelayKept ==
  ASSUME ClientInv, AppendOnly(TheDuel), ScreensStay
  PROVE  RelaysOpened'
<1>1. relayed' = relayed BY DEF ScreensStay
<1> SUFFICES ASSUME NEW m \in relayed
             PROVE  OnAccount(m.from, m.round, m.play)'
  BY <1>1 DEF RelaysOpened
<1>2. m.from \in Clients /\ m.round \in Rounds /\ m.play # None
  BY DuelAssumption DEF ClientInv, ClientTypes, Message
<1>3. OnAccount(m.from, m.round, m.play) BY DEF ClientInv, RelaysOpened
<1>4. OpenOf(m.from, m.round) # None =>
        OpenOf(m.from, m.round)' = OpenOf(m.from, m.round)
  BY <1>2, Grows
<1> QED BY <1>2, <1>3, <1>4 DEF AppendOnly, OnAccount, OpenOf, ScreensStay

\* What a step of the accounts leaves to show.
LEMMA ChainStep ==
  ASSUME ClientInv, [Next]_vars, ScreensStay, ClientTypes', Placed',
         \A p \in Clients : /\ Follows(p)' /\ OnePlay(p)' /\ RevealUnderWay(p)'
                            /\ p \in Steady => CommitUnderWay(p)'
  PROVE  ClientInv'
<1>1. IInv' BY StepIInv DEF ClientInv
<1>2. AppendOnly(TheDuel) BY StepAppends, ClientAssumption DEF ClientInv
<1>3. RelaysOpened' BY <1>2, RelayKept
<1>4. ASSUME NEW p \in Clients PROVE Own(p)'
  <2>1. Awaited(p)' /\ Tells(p)' /\ ShowsOpened(p)' /\ (Sealed(p) => Sealed(p)')
    BY <1>2, ChainFrame
  <2>2. p \in Steady => SealHeld(p)'
    BY <2>1, Parts DEF SealHeld, ScreensStay
  <2> QED BY <2>1, <2>2 DEF Own
<1> QED BY <1>1, <1>3, <1>4 DEF ClientInv

\* What an accepted transaction is, and does to everything but the accounts.
LEMMA Landing ==
  ASSUME ClientInv, NEW q \in Clients, NEW tx \in air[q], Land(q, tx), Accepted(q, tx)
  PROVE  /\ Executes(q, tx) /\ Next /\ ScreensStay /\ stage' = stage
         /\ air'[q] = air[q] \ {tx} /\ \A p \in Clients \ {q} : air'[p] = air[p]
         /\ \A p \in Clients : air'[p] \subseteq air[p]
         /\ ClientTypes' /\ AppendOnly(TheDuel)
         /\ tx \in Sent /\ tx.round \in Rounds /\ (tx.op # "claim" => tx.play \in Plays)
<1>1. /\ Executes(q, tx) /\ air' = [air EXCEPT ![q] = @ \ {tx}] /\ stage' = stage
      /\ UNCHANGED <<screen, at, tally, victory, hand, rivalHand, call, relayed, salted, robbed>>
  BY DEF Land
<1>2. /\ tx \in Sent /\ tx.round \in Rounds /\ (tx.op # "claim" => tx.play \in Plays)
  BY Parts DEF ClientTypes, Sent, Transaction
<1>3. /\ air'[q] = air[q] \ {tx} /\ \A p \in Clients \ {q} : air'[p] = air[p]
      /\ \A p \in Clients : air'[p] \subseteq air[p]
      /\ air' \in [Clients -> SUBSET Sent]
  BY <1>1, Parts DEF ClientTypes
<1>4. ClientTypes' BY <1>1, <1>3, Parts DEF ClientTypes
<1>5. Next
  <2>1. q \in Players /\ Host \in Players /\ Guest \in Players /\ TheDuel \in DuelIds
    BY ClientAssumption DEF Clients
  <2>2. CASE tx.op = "init" /\ InitDuel(TheDuel, Host, Guest) BY <2>1, <2>2 DEF Next, ProgramStep
  <2>3. CASE tx.op = "commit" /\ CommitHand(TheDuel, q, tx.round, tx.play)
    BY <1>2, <2>1, <2>3 DEF Next, ProgramStep
  <2>4. CASE tx.op = "reveal" /\ RevealHand(TheDuel, q, tx.round, tx.play)
    BY <1>2, <2>1, <2>4 DEF Next, ProgramStep
  <2>5. CASE tx.op = "claim" /\ ClaimTimeoutWin(TheDuel, q) BY <2>1, <2>5 DEF Next, ProgramStep
  <2> QED BY <1>1, <2>2, <2>3, <2>4, <2>5 DEF Executes
<1>6. AppendOnly(TheDuel) BY <1>5, StepAppends, ClientAssumption DEF ClientInv
<1> QED BY <1>1, <1>2, <1>3, <1>4, <1>5, <1>6 DEF ScreensStay

\* A revealed play under way stays so, unless it is executed itself.
LEMMA RevealKept ==
  ASSUME ClientInv, AppendOnly(TheDuel), ScreensStay, NEW p \in Clients,
         UNCHANGED <<seat, vault>> \/ ~Exists(TheDuel),
         \/ /\ OpenOf(p, at[p])' = OpenOf(p, at[p])
            /\ call[p] # None /\ call[p].tx \in air[p] => call[p].tx \in air'[p]
         \/ ended'[TheDuel] \/ (IsAwaiting(p, "reveal") => OpenOf(p, at[p])' = hand[p])
         \/ ~IsAwaiting(p, "reveal")
  PROVE  RevealUnderWay(p)'
<1>1. UNCHANGED <<screen, at, tally, victory, hand, rivalHand, call>> BY DEF ScreensStay
<1>2. PICK r \in Rounds : r = at[p] BY Parts DEF ClientTypes
<1>3. /\ SealOf(p, at[p]) # None => SealOf(p, at[p])' = SealOf(p, at[p])
      /\ OpenOf(p, at[p]) # None => OpenOf(p, at[p])' = OpenOf(p, at[p])
  <2>1. SealOf(p, at[p])' = SealOf(p, r)' /\ OpenOf(p, at[p])' = OpenOf(p, r)'
    BY <1>1, <1>2 DEF SealOf, OpenOf
  <2> QED BY <1>2, <2>1, Grows
<1>4. ended[TheDuel] => ended'[TheDuel] BY DEF AppendOnly
<1> SUFFICES ASSUME IsAwaiting(p, "reveal"), call[p].sent, ~ended'[TheDuel],
                    OpenOf(p, at[p])' # hand[p],
                    <<p, at[p], hand[p]>> \notin robbed'
             PROVE  call[p].tx \in air'[p] /\ RevealReady(p)'
  BY <1>1 DEF RevealUnderWay, IsAwaiting, OnAccount, OpenOf
<1>5. hand[p] # None BY Parts DEF IsAwaiting, Awaited
<1>6. OpenOf(p, at[p]) # hand[p] /\ ~ended[TheDuel] BY <1>3, <1>4, <1>5
<1>7. call[p].tx \in air[p] /\ RevealReady(p)
  <2>1. <<p, at[p], hand[p]>> \notin robbed BY DEF ScreensStay
  <2> QED BY <1>6, <2>1, Parts DEF RevealUnderWay, OnAccount, OpenOf
<1>8. UNCHANGED <<seat, vault>> BY <1>7 DEF RevealReady
<1>9. /\ OpenOf(p, at[p])' = OpenOf(p, at[p]) /\ call[p].tx \in air'[p]
  BY <1>7 DEF IsAwaiting
<1> QED BY <1>1, <1>3, <1>7, <1>8, <1>9 DEF RevealReady, Exists

\* A commitment under way stays so while its round, its seal and what pays for
\* it do, or it is sealed.
LEMMA CommitKept ==
  ASSUME ClientInv, AppendOnly(TheDuel), ScreensStay, NEW p \in Clients, p \in Steady,
         air'[p] \subseteq air[p],
         \/ Sealed(p)'
         \/ CommitReady(p) =>
              /\ air'[p] = air[p] /\ UNCHANGED <<seat, energy[p], regenAge[p]>>
              /\ round'[TheDuel] = round[TheDuel] /\ SealOf(p, at[p])' = SealOf(p, at[p])
  PROVE  CommitUnderWay(p)'
<1>1. UNCHANGED <<screen, at, tally, victory, hand, rivalHand, call>> BY DEF ScreensStay
<1>2. CommitUnderWay(p) /\ (Sealed(p) => Sealed(p)') BY Parts, ChainFrame
<1>3. \A tx \in air'[p] : tx.op = "commit" => call'[p] = [tx |-> tx, sent |-> TRUE]
  BY <1>1, <1>2 DEF CommitUnderWay
<1>4. CASE Sealed(p)' BY <1>3, <1>4 DEF CommitUnderWay
<1>5. CASE ~Sealed(p)'
  <2> SUFFICES ASSUME IsAwaiting(p, "commit"), call[p].sent
               PROVE  call[p].tx \in air'[p] /\ CommitReady(p)'
    BY <1>1, <1>3 DEF CommitUnderWay, IsAwaiting
  <2>1. call[p].tx \in air[p] /\ CommitReady(p) BY <1>2, <1>5 DEF CommitUnderWay
  <2> QED BY <1>1, <1>5, <2>1 DEF CommitReady, Exists
<1> QED BY <1>4, <1>5

\* init_duel: the seats are taken by the two clients.
LEMMA InitLands ==
  ASSUME ClientInv, NEW q \in Clients, NEW tx \in air[q], Land(q, tx), Accepted(q, tx),
         InitDuel(TheDuel, Host, Guest)
  PROVE  ClientInv'
<1>1. /\ Next /\ ScreensStay /\ stage' = stage /\ ClientTypes' /\ AppendOnly(TheDuel)
      /\ \A p \in Clients : air'[p] \subseteq air[p]
  BY Landing
<1>2. /\ ~Exists(TheDuel)
      /\ UNCHANGED <<round, ended, winner, commitment, revealed, wins, energy, vault>>
  BY DEF InitDuel, playerVars, lootVars
<1>3. UNCHANGED <<screen, at, tally, victory, hand, rivalHand, call>> BY <1>1 DEF ScreensStay
<1>4. Placed'
  <2>1. seat'[TheDuel] = [s \in Side |-> IF s = 1 THEN Host ELSE Guest]
    BY ClientAssumption DEF InitDuel, ClientInv, IInv, TypeOK
  <2> QED BY <2>1, ClientAssumption DEF Placed, Clients, SeatOf, Side
<1>5. ASSUME NEW p \in Clients
      PROVE  /\ Follows(p)' /\ OnePlay(p)' /\ RevealUnderWay(p)'
             /\ p \in Steady => CommitUnderWay(p)'
  <2>1. Follows(p)' BY <1>1, <1>2, <1>3, Parts DEF Follows, SealOf
  <2>2. OnePlay(p)'
    <3>1. OpenOf(p, at[p])' = OpenOf(p, at[p]) BY <1>2, <1>3 DEF OpenOf
    <3>2. \A t \in air'[p] : t \in air[p] /\ (IsReveal(p, t)' = IsReveal(p, t))
      BY <1>1, <1>3 DEF IsReveal
    <3> QED BY <1>3, <3>1, <3>2, Parts DEF OnePlay
  <2>3. RevealUnderWay(p)'
    <3>1. ~RevealReady(p) BY <1>2 DEF RevealReady
    <3> QED BY <1>1, <1>2, <1>3, <3>1, Parts
       DEF RevealUnderWay, IsAwaiting, OpenOf, OnAccount, ScreensStay
  <2>4. ASSUME p \in Steady PROVE CommitUnderWay(p)'
    <3>1. ~CommitReady(p) BY <1>2 DEF CommitReady
    <3> QED BY <1>1, <2>4, <3>1, CommitKept
  <2> QED BY <2>1, <2>2, <2>3, <2>4
<1> QED BY <1>1, <1>4, <1>5, ChainStep

\* claim_timeout_win: the duel is over.
LEMMA ClaimLands ==
  ASSUME ClientInv, NEW q \in Clients, NEW tx \in air[q], Land(q, tx), Accepted(q, tx),
         ClaimTimeoutWin(TheDuel, q)
  PROVE  ClientInv'
<1>1. /\ Next /\ ScreensStay /\ stage' = stage /\ ClientTypes' /\ AppendOnly(TheDuel)
      /\ \A p \in Clients : air'[p] \subseteq air[p]
  BY Landing
<1>2. /\ ended'[TheDuel] /\ UNCHANGED <<seat, round, commitment, revealed, wins>>
  BY ClientAssumption DEF ClaimTimeoutWin, ClientInv, IInv, TypeOK
<1>3. UNCHANGED <<screen, at, tally, victory, hand, rivalHand, call>> BY <1>1 DEF ScreensStay
<1>4. Placed' BY <1>2 DEF ClientInv, Placed, Exists
<1>5. ASSUME NEW p \in Clients
      PROVE  /\ Follows(p)' /\ OnePlay(p)' /\ RevealUnderWay(p)'
             /\ p \in Steady => CommitUnderWay(p)'
  <2>1. Follows(p)' BY <1>1, <1>2, <1>3, Parts DEF Follows, SealOf
  <2>2. OnePlay(p)'
    <3>1. OpenOf(p, at[p])' = OpenOf(p, at[p]) BY <1>2, <1>3 DEF OpenOf
    <3>2. \A t \in air'[p] : t \in air[p] /\ (IsReveal(p, t)' = IsReveal(p, t))
      BY <1>1, <1>3 DEF IsReveal
    <3> QED BY <1>3, <3>1, <3>2, Parts DEF OnePlay
  <2>3. RevealUnderWay(p)' BY <1>2 DEF RevealUnderWay, OnAccount
  <2>4. Sealed(p)' BY <1>2 DEF Sealed
  <2>5. p \in Steady => CommitUnderWay(p)' BY <1>1, <2>4, CommitKept
  <2> QED BY <2>1, <2>2, <2>3, <2>5
<1> QED BY <1>1, <1>4, <1>5, ChainStep

\* commit_hand: the seal of the play in hand, if the client is one without
\* accidents, in the round it is in.
LEMMA CommitLands ==
  ASSUME ClientInv, NEW q \in Clients, NEW tx \in air[q], Land(q, tx), Accepted(q, tx),
         tx.op = "commit", CommitHand(TheDuel, q, tx.round, tx.play)
  PROVE  ClientInv'
<1>1. /\ Next /\ ScreensStay /\ stage' = stage /\ ClientTypes' /\ AppendOnly(TheDuel)
      /\ air'[q] = air[q] \ {tx} /\ \A p \in Clients \ {q} : air'[p] = air[p]
      /\ \A p \in Clients : air'[p] \subseteq air[p]
      /\ tx.round \in Rounds /\ tx.play \in Plays
  BY Landing
<1>2. UNCHANGED <<screen, at, tally, victory, hand, rivalHand, call>> BY <1>1 DEF ScreensStay
<1>3. Exists(TheDuel) /\ ~ended[TheDuel] BY DEF CommitHand, CommitAllowed, Participant
<1>4. SideOf(TheDuel, q) = SeatOf(q) BY <1>3, Parts, SeatIs
<1>5. /\ UNCHANGED <<seat, round, ended, winner, revealed, wins, vault>>
      /\ commitment' = [commitment EXCEPT ![TheDuel][SeatOf(q)][tx.round] = Seal[tx.play]]
  BY <1>4 DEF CommitHand, lootVars
<1>6. \A p \in Clients \ {q} : UNCHANGED <<energy[p], regenAge[p]>>
  <2>1. CASE PaysEntry(TheDuel, q, tx.round)
    BY <2>1, ClientsAre DEF CommitHand, ClientInv, IInv, TypeOK
  <2>2. CASE ~PaysEntry(TheDuel, q, tx.round) BY <2>2 DEF CommitHand, playerVars
  <2> QED BY <2>1, <2>2
<1>7. /\ \A p \in Clients \ {q}, r \in Rounds : SealOf(p, r)' = SealOf(p, r)
      /\ \A r \in Rounds \ {tx.round} : SealOf(q, r)' = SealOf(q, r)
      /\ SealOf(q, tx.round)' = Seal[tx.play]
  <2>1. commitment \in Slots(Commitments \cup {None}) BY DEF ClientInv, IInv, TypeOK
  <2>2. \A p \in Clients \ {q} : SeatOf(p) \in Side /\ SeatOf(p) # SeatOf(q)
    BY ClientAssumption DEF Clients, SeatOf, Side
  <2> QED BY <1>1, <1>5, <2>1, <2>2, ClientsAre DEF SealOf, Slots
<1>8. Placed' BY <1>5 DEF ClientInv, Placed, Exists
<1>9. ASSUME NEW p \in Clients
      PROVE  /\ Follows(p)' /\ OnePlay(p)' /\ RevealUnderWay(p)'
             /\ p \in Steady => CommitUnderWay(p)'
  <2>1. Follows(p)'
    <3>1. ASSUME screen[p] # "home", NEW r \in Rounds, r > at[p] PROVE SealOf(p, r)' = None
      <4>1. SealOf(p, r) = None BY <3>1, Parts DEF Follows
      <4>2. p = q => r # tx.round
        <5>1. p = q => tx.round <= at[p] BY <3>1, Parts DEF Follows
        <5>2. at[p] \in Rounds BY Parts DEF ClientTypes
        <5> QED BY <1>1, <3>1, <5>1, <5>2, DuelAssumption DEF Rounds
      <4> QED BY <1>7, <4>1, <4>2
    <3>2. \A r \in Rounds : screen[p] # "home" /\ r > at[p] => SealOf(p, r)' = None BY <3>1
    <3>3. \A t \in air'[p] : t \in air[p] BY <1>1
    <3> QED BY <1>1, <1>2, <1>5, <3>2, <3>3, Parts DEF Follows, SealOf
  <2>2. OnePlay(p)'
    <3>1. OpenOf(p, at[p])' = OpenOf(p, at[p]) BY <1>2, <1>5 DEF OpenOf
    <3>2. \A t \in air'[p] : t \in air[p] /\ (IsReveal(p, t)' = IsReveal(p, t))
      BY <1>1, <1>2 DEF IsReveal
    <3> QED BY <1>2, <3>1, <3>2, Parts DEF OnePlay
  <2>3. RevealUnderWay(p)'
    <3>1. OpenOf(p, at[p])' = OpenOf(p, at[p]) BY <1>2, <1>5 DEF OpenOf
    <3>2. IsAwaiting(p, "reveal") => call[p] # None /\ call[p].tx # tx BY DEF IsAwaiting
    <3>3. IsAwaiting(p, "reveal") /\ call[p].tx \in air[p] => call[p].tx \in air'[p]
      BY <1>1, <3>2
    <3> QED BY <1>1, <1>5, <3>1, <3>3, RevealKept
  <2>4. ASSUME p \in Steady PROVE CommitUnderWay(p)'
    <3>1. CASE p = q
      <4>1. call[q] = [tx |-> tx, sent |-> TRUE] BY <2>4, <3>1, Parts DEF CommitUnderWay
      <4>2. call[q] # None
        <5>1. [tx |-> tx, sent |-> TRUE] \in Call BY Parts DEF ClientTypes, Sent, Call
        <5> QED BY <4>1, <5>1, ClientAssumption
      <4>3. call[q].tx = tx BY <4>1
      <4>4. tx.round = at[q] /\ tx.play = hand[q] /\ hand[q] # None
        BY <4>2, <4>3, Parts DEF Awaited
      <4>5. SealOf(q, at[q])' = Seal[hand[q]]
        BY <1>2, <1>7, <4>4 DEF SealOf
      <4>6. Sealed(q)' BY <1>2, <4>4, <4>5 DEF Sealed
      <4> QED BY <1>1, <2>4, <3>1, <4>6, CommitKept
    <3>2. CASE p # q
      <4>1. at[p] \in Rounds BY Parts DEF ClientTypes
      <4>2. SealOf(p, at[p])' = SealOf(p, at[p])
        <5>1. PICK r \in Rounds : r = at[p] BY <4>1
        <5>2. SealOf(p, r)' = SealOf(p, r) BY <1>7, <3>2
        <5> QED BY <1>2, <5>1, <5>2 DEF SealOf
      <4>3. air'[p] = air[p] /\ UNCHANGED <<energy[p], regenAge[p]>> BY <1>1, <1>6, <3>2
      <4> QED BY <1>1, <1>5, <2>4, <4>2, <4>3, CommitKept
    <3> QED BY <3>1, <3>2
  <2> QED BY <2>1, <2>2, <2>3, <2>4
<1> QED BY <1>1, <1>8, <1>9, ChainStep

\* reveal_hand: the play in hand is shown, in the round the client is in, and
\* nobody is past the round it may resolve.
LEMMA RevealLands ==
  ASSUME ClientInv, NEW q \in Clients, NEW tx \in air[q], Land(q, tx), Accepted(q, tx),
         tx.op = "reveal", RevealHand(TheDuel, q, tx.round, tx.play)
  PROVE  ClientInv'
<1>1. /\ Next /\ ScreensStay /\ stage' = stage /\ ClientTypes' /\ AppendOnly(TheDuel)
      /\ air'[q] = air[q] \ {tx} /\ \A p \in Clients \ {q} : air'[p] = air[p]
      /\ \A p \in Clients : air'[p] \subseteq air[p]
      /\ tx.round \in Rounds /\ tx.play \in Plays
  BY Landing
<1>2. UNCHANGED <<screen, at, tally, victory, hand, rivalHand, call>> BY <1>1 DEF ScreensStay
<1>3. /\ Exists(TheDuel) /\ ~ended[TheDuel]
      /\ UNCHANGED <<energy, regenAge, vault>>
  BY DEF RevealHand, RevealAllowed, Participant, playerVars, lootVars
<1>4. SideOf(TheDuel, q) = SeatOf(q) BY <1>3, Parts, SeatIs
<1>5. /\ round[TheDuel] = tx.round
      /\ UNCHANGED <<seat, commitment>>
      /\ revealed'[TheDuel] = [revealed[TheDuel] EXCEPT ![SeatOf(q)][tx.round] = tx.play]
  <2>1. q \in Players /\ TheDuel \in DuelIds /\ SeatOf(q) \in Side BY ClientsAre
  <2> QED BY <1>1, <1>4, <2>1, Parts, RevealEffect
<1>6. SealOf(q, tx.round) # None BY <1>4 DEF RevealHand, RevealAllowed, SealOf
<1>7. /\ \A p \in Clients \ {q}, r \in Rounds : OpenOf(p, r)' = OpenOf(p, r)
      /\ OpenOf(q, tx.round)' = tx.play
      /\ \A p \in Clients, r \in Rounds : SealOf(p, r)' = SealOf(p, r)
  <2>1. revealed \in Slots(Plays \cup {None}) BY DEF ClientInv, IInv, TypeOK
  <2>2. \A p \in Clients \ {q} : SeatOf(p) \in Side /\ SeatOf(p) # SeatOf(q)
    BY ClientAssumption DEF Clients, SeatOf, Side
  <2> QED BY <1>1, <1>5, <2>1, <2>2, ClientsAre DEF SealOf, OpenOf, Slots
<1>8. /\ round[TheDuel] \in Nat /\ round'[TheDuel] \in {round[TheDuel], round[TheDuel] + 1}
      /\ ~BothRevealed(TheDuel, tx.round)' =>
           UNCHANGED <<round[TheDuel], wins[TheDuel]>>
  <2> DEFINE rev == [revealed[TheDuel] EXCEPT ![SideOf(TheDuel, q)][tx.round] = tx.play]
  <2>1. round \in [DuelIds -> Rounds] /\ TheDuel \in DuelIds
    BY ClientsAre DEF ClientInv, IInv, TypeOK
  <2>2. round[TheDuel] \in Nat BY <2>1, DuelAssumption DEF Rounds
  <2>3. CASE rev[1][tx.round] # None /\ rev[2][tx.round] # None
    <3>1. BothRevealed(TheDuel, tx.round)' BY <1>4, <1>5, <2>3 DEF BothRevealed, Side
    <3>2. ResolveRound(TheDuel, tx.round, rev) BY <2>3 DEF RevealHand
    <3>3. round' = round \/ round' = [round EXCEPT ![TheDuel] = @ + 1]
      BY <3>2 DEF ResolveRound
    <3> QED BY <2>1, <2>2, <3>1, <3>3
  <2>4. CASE ~(rev[1][tx.round] # None /\ rev[2][tx.round] # None)
    <3>1. UNCHANGED <<round, wins>> BY <2>4 DEF RevealHand
    <3> QED BY <2>2, <3>1
  <2> QED BY <2>3, <2>4
\* A client that has not sealed the round keeps it from being resolved.
<1>9. ASSUME NEW p \in Clients, SealOf(p, tx.round) = None
      PROVE  p # q /\ UNCHANGED <<round[TheDuel], wins[TheDuel]>>
  <2>1. OpenOf(p, tx.round) = None BY <1>1, <1>9, Parts, Unopened
  <2>2. OpenOf(p, tx.round)' = None BY <1>1, <1>6, <1>7, <1>9, <2>1
  <2>3. ~BothRevealed(TheDuel, tx.round)' BY <2>2, ClientsAre DEF BothRevealed, OpenOf
  <2> QED BY <1>6, <1>8, <1>9, <2>3
<1>10. Placed' BY <1>5 DEF ClientInv, Placed, Exists
\* The client is in the round it reveals.
<1>11. ASSUME NEW p \in Clients
       PROVE  /\ screen[p] \in {"preparation", "interruption", "reveal"}
              /\ at[p] \in Rounds /\ at[p] <= tx.round
              /\ p = q => at[p] = tx.round
  <2>1. screen[p] \in {"preparation", "interruption", "reveal"}
    BY <1>3, Parts DEF ClientTypes, Screens, Follows
  <2>2. at[p] \in Rounds /\ at[p] <= tx.round
    BY <1>5, <2>1, Parts DEF ClientTypes, Follows
  <2>3. p = q => ~(tx.round > at[p]) BY <1>1, <1>6, <2>1, Parts DEF Follows
  <2> QED BY <1>1, <2>1, <2>2, <2>3, DuelAssumption DEF Rounds
<1>12. ASSUME NEW p \in Clients
       PROVE  Follows(p)' /\ OnePlay(p)' /\ RevealUnderWay(p)'
  <2>1. Follows(p)'
    <3>1. screen'[p] \notin {"loot", "home"} BY <1>2, <1>11
    <3>2. at'[p] <= round'[TheDuel]
      <4>1. at[p] \in Nat /\ at[p] <= round[TheDuel] BY <1>5, <1>11, DuelAssumption DEF Rounds
      <4> QED BY <1>2, <1>8, <4>1
    <3>3. \A t \in air'[p] : t.round <= at'[p] BY <1>1, <1>2, <1>11, Parts DEF Follows
    <3>4. \A r \in Rounds : r > at'[p] => SealOf(p, r)' = None
      BY <1>2, <1>7, <1>11, Parts DEF Follows
    <3>5. stage[p].bridge # None =>
            UNCHANGED <<round[TheDuel], wins[TheDuel]>>
      <4>1. stage[p].bridge # None => tx.round > at[p]
        BY <1>1, <1>5, <1>11, Parts, DuelAssumption DEF Follows, Rounds
      <4>2. stage[p].bridge # None => SealOf(p, tx.round) = None
        BY <1>1, <1>11, <4>1, Parts DEF Follows
      <4> QED BY <1>9, <4>2
    <3>6. stage'[p].bridge # None =>
            /\ screen'[p] = "reveal"
            /\ stage'[p].bridge.round = round'[TheDuel]
            /\ stage'[p].bridge.wins = wins'[TheDuel]
            /\ at'[p] < round'[TheDuel]
      BY <1>1, <1>2, <1>11, <3>5, Parts DEF Follows
    <3> QED BY <3>1, <3>2, <3>3, <3>4, <3>6 DEF Follows, SealOf
  <2>2. \A t \in air'[p] : t \in air[p] /\ (IsReveal(p, t)' = IsReveal(p, t))
    BY <1>1, <1>2 DEF IsReveal
  <2>3. CASE p = q
    <3>1. IsReveal(q, tx) BY <1>11, <2>3 DEF IsReveal
    <3>2. screen[q] = "reveal" BY <1>11, <3>1, Parts DEF OnePlay
    <3>3. PICK h \in Plays \cup {None} :
            /\ hand[q] \in {None, h} /\ OpenOf(q, at[q]) \in {None, h}
            /\ \A t \in air[q] : IsReveal(q, t) => t.play = h
      BY <3>2, Parts DEF OnePlay
    <3>4. h = tx.play BY <3>1, <3>3
    <3>5. OpenOf(q, at[q])' = h
      <4>1. at'[q] = tx.round BY <1>2, <1>11
      <4> QED BY <1>7, <3>4, <4>1 DEF OpenOf
    <3>6. OnePlay(q)' BY <1>2, <2>2, <2>3, <3>2, <3>3, <3>5 DEF OnePlay
    <3>7. IsAwaiting(q, "reveal") => OpenOf(q, at[q])' = hand[q]
      BY <3>3, <3>5, Parts DEF IsAwaiting, Awaited
    <3>8. RevealUnderWay(q)' BY <1>1, <1>3, <1>5, <3>7, RevealKept
    <3> QED BY <2>1, <2>3, <3>6, <3>8
  <2>4. CASE p # q
    <3>1. OpenOf(p, at[p])' = OpenOf(p, at[p])
      <4>1. PICK r \in Rounds : r = at[p] BY <1>11
      <4>2. OpenOf(p, r)' = OpenOf(p, r) BY <1>7, <2>4
      <4> QED BY <1>2, <4>1, <4>2 DEF OpenOf
    <3>2. OnePlay(p)' BY <1>2, <2>2, <3>1, Parts DEF OnePlay
    <3>3. RevealUnderWay(p)' BY <1>1, <1>3, <1>5, <2>4, <3>1, RevealKept
    <3> QED BY <2>1, <3>2, <3>3
  <2> QED BY <2>3, <2>4
<1>13. ASSUME NEW p \in Clients, p \in Steady PROVE CommitUnderWay(p)'
  <2>1. SealOf(p, at[p])' = SealOf(p, at[p])
    <3>1. PICK r \in Rounds : r = at[p] BY <1>11, <1>13
    <3>2. SealOf(p, r)' = SealOf(p, r) BY <1>7
    <3> QED BY <1>2, <3>1, <3>2 DEF SealOf
  <2>2. CommitReady(p) => p # q /\ round'[TheDuel] = round[TheDuel]
    <3>1. CommitReady(p) => SealOf(p, tx.round) = None BY <1>5 DEF CommitReady
    <3> QED BY <1>9, <3>1
  <2> QED BY <1>1, <1>3, <1>5, <1>13, <2>1, <2>2, CommitKept
<1> QED BY <1>1, <1>10, <1>12, <1>13, ChainStep

\* Whatever lands.
LEMMA Lands ==
  ASSUME ClientInv, NEW q \in Clients, NEW tx \in air[q], Land(q, tx)
  PROVE  ClientInv'
<1>1. CASE ~Accepted(q, tx) BY <1>1, Refused
<1>2. CASE Accepted(q, tx)
  <2>1. Executes(q, tx) BY <1>2, Landing
  <2> QED BY <1>2, <2>1, InitLands, CommitLands, RevealLands, ClaimLands DEF Executes
<1> QED BY <1>1, <1>2

\* The clock: only ages and the seconds waited move.
LEMMA Ticks ==
  ASSUME ClientInv, ClientTick
  PROVE  ClientInv'
<1>1. /\ Tick /\ ScreensStay /\ air' = air /\ UNCHANGED <<salted, robbed>>
      /\ \A p \in Steady : air[p] = {}
      /\ stage' = [p \in Clients |->
           IF Resolving(p) /\ stage[p].waited < StallTimeout
             THEN [stage[p] EXCEPT !.waited = @ + 1] ELSE stage[p]]
  BY DEF ClientTick, ScreensStay
<1>2. UNCHANGED <<screen, at, tally, victory, hand, rivalHand, call, relayed>>
  BY <1>1 DEF ScreensStay
<1>3. /\ Next /\ AppendOnly(TheDuel)
      /\ UNCHANGED <<seat, round, ended, winner, commitment, revealed, wins, energy, vault>>
  BY <1>1, StepAppends, ClientAssumption DEF ClientInv, Next, Tick, lootVars
<1>4. \A p \in Clients : stage'[p].bridge = stage[p].bridge /\ stage'[p] \in Stage
  <2> SUFFICES ASSUME NEW p \in Clients
               PROVE  stage'[p].bridge = stage[p].bridge /\ stage'[p] \in Stage
    OBVIOUS
  <2>1. stage[p] \in Stage BY DEF ClientInv, ClientTypes
  <2>2. [stage[p] EXCEPT !.waited = @ + 1] \in Stage
    BY <2>1 DEF Stage
  <2>3. [stage[p] EXCEPT !.waited = @ + 1].bridge = stage[p].bridge
    BY <2>1 DEF Stage
  <2> QED BY <1>1, <2>1, <2>2, <2>3
<1>5. ClientTypes'
  <2>1. stage' \in [Clients -> Stage] BY <1>1, <1>4
  <2> QED BY <1>1, <1>2, <2>1 DEF ClientInv, ClientTypes
<1>6. Placed' BY <1>3 DEF ClientInv, Placed, Exists
<1>7. ASSUME NEW p \in Clients
      PROVE  /\ Follows(p)' /\ OnePlay(p)' /\ RevealUnderWay(p)'
             /\ p \in Steady => CommitUnderWay(p)'
  <2>1. Follows(p)' BY <1>1, <1>2, <1>3, <1>4, <1>7, Parts DEF Follows, SealOf
  <2>2. OnePlay(p)' BY <1>1, <1>2, <1>3, <1>7, Parts DEF OnePlay, OpenOf, IsReveal
  <2>3. RevealUnderWay(p)'
    BY <1>1, <1>2, <1>3, <1>7, Parts
    DEF RevealUnderWay, IsAwaiting, RevealReady, Exists, SealOf, OpenOf, OnAccount
  <2>4. ASSUME p \in Steady PROVE CommitUnderWay(p)'
    <3>1. air[p] = {} BY <1>1, <2>4
    <3> QED BY <1>1, <1>2, <1>3, <2>4, <3>1, Parts
            DEF CommitUnderWay, IsAwaiting, Sealed, SealOf
  <2> QED BY <2>1, <2>2, <2>3, <2>4
<1> QED BY <1>1, <1>3, <1>5, <1>6, <1>7, ChainStep

\* A step elsewhere spends nothing of a client that pays for no entry.
LEMMA EnergyKept ==
  ASSUME IInv, ProgramStep, NEW p \in Players, charged'[p] = charged[p],
         CanSpend(energy[p], 0, regenAge[p], EnergyCost)
  PROVE  CanSpend(energy[p], 0, regenAge[p], EnergyCost)'
<1>1. /\ energy \in [Players -> 0..EnergyMax] /\ regenAge \in [Players -> 0..FullRegen]
      /\ charged \in [Players -> Nat]
  BY DEF IInv, TypeOK
<1>2. CASE UNCHANGED <<energy[p], regenAge[p]>> BY <1>2
<1>3. ASSUME NEW q \in Players, RefillEnergy(q)
      PROVE  \/ UNCHANGED <<energy[p], regenAge[p]>>
             \/ energy'[p] = EnergyMax /\ regenAge'[p] = 0
  BY <1>1, <1>3 DEF RefillEnergy
<1>4. CASE energy'[p] = EnergyMax /\ regenAge'[p] = 0
  BY <1>4, DuelAssumption, EnergyAssumption DEF CanSpend, RegeneratedEnergy
<1>5. ASSUME NEW d \in DuelIds, NEW q \in Players, NEW r \in Rounds, NEW h \in Plays,
             CommitHand(d, q, r, h)
      PROVE  UNCHANGED <<energy[p], regenAge[p]>>
  <2>1. CASE PaysEntry(d, q, r)
    <3>1. q # p
      <4>1. charged' = [charged EXCEPT ![q] = @ + 1] BY <1>5, <2>1 DEF CommitHand
      <4> QED BY <1>1, <4>1
    <3> QED BY <1>1, <1>5, <2>1, <3>1 DEF CommitHand
  <2>2. CASE ~PaysEntry(d, q, r) BY <1>5, <2>2 DEF CommitHand, playerVars
  <2> QED BY <2>1, <2>2
<1>6. CASE UNCHANGED playerVars BY <1>2, <1>6 DEF playerVars
<1>7. \/ UNCHANGED playerVars
      \/ \E q \in Players : RefillEnergy(q)
      \/ \E d \in DuelIds, q \in Players, r \in Rounds, h \in Plays : CommitHand(d, q, r, h)
  <2>1. ASSUME NEW d \in DuelIds, NEW q \in Players, NEW r \in Rounds, NEW h \in Plays,
               RevealHand(d, q, r, h)
        PROVE  UNCHANGED playerVars
    BY <2>1 DEF RevealHand
  <2>2. ASSUME NEW d \in DuelIds, NEW q \in Players, NEW c \in Species,
               ClaimBattleLoot(d, q, c)
        PROVE  UNCHANGED playerVars
    BY <2>2 DEF ClaimBattleLoot
  <2>3. ASSUME NEW d \in DuelIds, NEW q \in Players,
               ClaimTimeoutWin(d, q) \/ \E u \in Players : InitDuel(d, q, u)
        PROVE  UNCHANGED playerVars
    BY <2>3 DEF ClaimTimeoutWin, InitDuel
  <2>4. AdvanceWindow => UNCHANGED playerVars BY DEF AdvanceWindow
  <2> QED BY <2>1, <2>2, <2>3, <2>4 DEF ProgramStep
<1> QED BY <1>2, <1>3, <1>4, <1>5, <1>6, <1>7

\* What goes on elsewhere leaves the account alone, and may take a card of a
\* hand that is under way: it is among the plays robbed from then on.
LEMMA ElsewhereKeeps ==
  ASSUME ClientInv, Elsewhere
  PROVE  ClientInv'
<1>1. /\ ProgramStep /\ robbed' = robbed \cup Robs
      /\ UNCHANGED <<seat[TheDuel], round[TheDuel], ended[TheDuel], wins[TheDuel]>>
      /\ UNCHANGED <<commitment[TheDuel], revealed[TheDuel]>>
      /\ UNCHANGED <<screen, at, tally, victory, hand, salted, rivalHand, call, air,
                     relayed, stage>>
      /\ \A p \in Steady : charged'[p] = charged[p]
  BY DEF Elsewhere, clientVars
<1>2. Next /\ ScreensStay BY <1>1 DEF Next, ScreensStay
<1>3. ClientTypes'
  <2>1. Robs \subseteq Clients \X Rounds \X Plays
    BY Parts DEF Robs, Robbed, ClientInv, ClientTypes
  <2> QED BY <1>1, <2>1 DEF ClientInv, ClientTypes
<1>4. Placed' BY <1>1 DEF ClientInv, Placed, Exists
<1>5. ASSUME NEW p \in Clients
      PROVE  /\ Follows(p)' /\ OnePlay(p)' /\ RevealUnderWay(p)'
             /\ p \in Steady => CommitUnderWay(p)'
  <2>1. Follows(p)' BY <1>1, <1>5, Parts DEF Follows, SealOf
  <2>2. OnePlay(p)' BY <1>1, <1>5, Parts DEF OnePlay, OpenOf, IsReveal
  <2>3. OnAccount(p, at[p], hand[p]) => OnAccount(p, at[p], hand[p])'
    BY <1>1 DEF OnAccount
  <2>4. RevealReady(p) /\ hand[p] # None
          => RevealReady(p)' \/ <<p, at[p], hand[p]>> \in robbed'
    <3>1. RevealReady(p) /\ ~(Field[hand[p]] \subseteq vault'[p]) /\ hand[p] # None
            => <<p, at[p], hand[p]>> \in Robs
      BY DEF Robs, Robbed, RevealReady, OpenOf
    <3> QED BY <1>1, <3>1 DEF RevealReady, Exists, SealOf, OpenOf
  <2>5. RevealUnderWay(p)'
    <3>1. IsAwaiting(p, "reveal") => hand[p] # None BY <1>5, Parts DEF IsAwaiting, Awaited
    <3> QED BY <1>1, <1>5, <2>3, <2>4, <3>1, Parts DEF RevealUnderWay, IsAwaiting, OnAccount
  <2>6. ASSUME p \in Steady PROVE CommitUnderWay(p)'
    <3>1. charged'[p] = charged[p] /\ p \in Players BY <1>1, <2>6, ClientsAre
    <3>2. CommitReady(p) => CommitReady(p)'
      BY <1>1, <3>1, Parts, EnergyKept DEF CommitReady, Exists, SealOf
    <3>3. Sealed(p) => Sealed(p)' BY <1>1 DEF Sealed, SealOf
    <3> QED BY <1>1, <2>6, <3>2, <3>3, Parts DEF CommitUnderWay, IsAwaiting
  <2> QED BY <2>1, <2>2, <2>5, <2>6
<1> QED BY <1>2, <1>3, <1>4, <1>5, ChainStep

-----------------------------------------------------------------------------
(***************************************************************************)
(* The invariant and what follows from it.                                 *)
(***************************************************************************)
LEMMA ClientStarts == ClientInit => ClientInv
<1> SUFFICES ASSUME ClientInit PROVE ClientInv
  OBVIOUS
<1>1. IInv BY InitIInv DEF ClientInit
<1>2. /\ seat[TheDuel] = [s \in Side |-> None] /\ round[TheDuel] = 1
      /\ commitment[TheDuel] = Blank /\ revealed[TheDuel] = Blank
  BY ClientsAre DEF ClientInit, ClientStart, Init
<1>3. ClientTypes
  BY DuelAssumption
  DEF ClientInit, ClientStart, ClientTypes, Screens, Rounds, Side, FreshStage, Stage
<1>4. Placed BY <1>2 DEF Placed, Exists, Side
<1>5. ASSUME NEW p \in Clients PROVE Own(p)
  <2>1. /\ screen[p] = "preparation" /\ at[p] = 1 /\ rivalHand[p] = None /\ call[p] = None
        /\ air[p] = {} /\ stage[p].bridge = None
    BY DEF ClientInit, ClientStart, FreshStage
  <2>2. \A r \in Rounds : SealOf(p, r) = None /\ OpenOf(p, r) = None
    BY <1>2, ClientsAre DEF SealOf, OpenOf, Blank
  <2>3. at[p] \in Rounds BY <1>3 DEF ClientTypes
  <2>4. Awaited(p) /\ Follows(p) /\ Tells(p)
    BY <1>2, <2>1, <2>2 DEF Awaited, Follows, Tells
  <2>5. OnePlay(p) /\ RevealUnderWay(p) /\ ShowsOpened(p)
    BY <2>1, <2>2, <2>3 DEF OnePlay, RevealUnderWay, ShowsOpened, IsAwaiting
  <2>6. SealHeld(p) BY <2>1 DEF SealHeld, CommitUnderWay, IsAwaiting
  <2> QED BY <2>4, <2>5, <2>6 DEF Own
<1>6. RelaysOpened BY DEF ClientInit, ClientStart, RelaysOpened
<1> QED BY <1>1, <1>3, <1>4, <1>5, <1>6 DEF ClientInv

LEMMA ActionKeeps ==
  ASSUME ClientInv, NEW q \in Clients,
         \/ SealingStep(q) \/ RevealStep(q) \/ ReplayStep(q)
         \/ ResolveStep(q) \/ ClaimStep(q) \/ WalletStep(q)
         \/ NetworkStep(q) \/ Accident(q) \/ Continue(q)
         \/ \E m \in relayed : Deliver(q, m)
  PROVE  ClientInv'
<1>1. CASE SealingStep(q)
  BY <1>1, Confirms, DuelOpens, HandSeals, LocksIn DEF SealingStep
<1>2. CASE RevealStep(q) \/ ReplayStep(q)
  BY <1>2, RetriesReveal, RevealConfirms, Replays, SkipsReplay DEF RevealStep, ReplayStep
<1>3. CASE ResolveStep(q) \/ ClaimStep(q)
  BY <1>3, ResultShows, BridgeShows, RoundAdvances, ClaimAsked, ClaimConfirms
  DEF ResolveStep, ClaimStep
<1>4. CASE WalletStep(q) \/ Accident(q)
  BY <1>4, Sends, FailsToSend, LosesConfirmation, Reloads DEF WalletStep, Accident
<1>5. CASE NetworkStep(q) BY <1>5, Lands, Expires DEF NetworkStep
<1>6. CASE Continue(q) \/ \E m \in relayed : Deliver(q, m) BY <1>6, Continues, Delivers
<1> QED BY <1>1, <1>2, <1>3, <1>4, <1>5, <1>6

\* The invariant is inductive.
THEOREM ClientStep == ClientInv /\ [ClientNext]_allVars => ClientInv'
<1> SUFFICES ASSUME ClientInv, [ClientNext]_allVars PROVE ClientInv'
  OBVIOUS
<1>1. CASE ClientAction BY <1>1, ActionKeeps DEF ClientAction
<1>2. CASE ClientTick BY <1>2, Ticks
<1>3. CASE UNCHANGED allVars
  <2>1. UNCHANGED <<vars, robbed>> /\ \A p \in Clients : Mine(p)' = Mine(p)
    BY <1>3 DEF allVars, clientVars, Mine
  <2>2. \A p \in Clients : Own(p)' BY <2>1, Untouched DEF ClientInv
  <2>3. ClientTypes' BY <1>3 DEF ClientInv, ClientTypes, allVars, clientVars
  <2>4. RelaysOpened'
    BY <1>3, <2>1, ChainIs, RelayFrame DEF ClientInv, allVars, clientVars
  <2>5. IInv' BY <2>1, StepIInv DEF ClientInv
  <2>6. Placed' BY <2>1 DEF ClientInv, Placed, Exists, vars, duelVars
  <2> QED BY <2>2, <2>3, <2>4, <2>5, <2>6 DEF ClientInv
<1>4. CASE Elsewhere BY <1>4, ElsewhereKeeps
<1> QED BY <1>1, <1>2, <1>3, <1>4 DEF ClientNext

\* It holds of everything the two browsers may do, accidents included.
THEOREM ClientInvariance == ClientSpec => []ClientInv
  BY ClientStarts, ClientStep, PTL DEF ClientSpec

\* No client is ever ahead of the account, nor more than a round behind it,
\* whichever of the two has accidents and however long a transaction takes.
THEOREM ClientsFollow == ClientSpec => []FollowsChain
<1>1. ClientInv => FollowsChain
  <2> SUFFICES ASSUME ClientInv, NEW p \in Clients, screen[p] # "home"
               PROVE  /\ at[p] <= round[TheDuel] /\ round[TheDuel] <= at[p] + 1
                      /\ stage[p].bridge # None =>
                           /\ stage[p].bridge.round = round[TheDuel]
                           /\ stage[p].bridge.wins = wins[TheDuel]
    BY DEF FollowsChain
  <2>1. at[p] \in Rounds /\ round[TheDuel] \in Rounds
    BY Parts, ClientsAre DEF ClientTypes, IInv, TypeOK
  <2>2. ~(round[TheDuel] > at[p] + 1)
    <3> SUFFICES ASSUME round[TheDuel] > at[p] + 1 PROVE FALSE
      BY <2>1
    <3>1. /\ at[p] + 1 \in Rounds /\ at[p] + 1 < round[TheDuel] /\ at[p] + 1 > at[p]
      BY <2>1, DuelAssumption DEF Rounds
    <3>2. BothRevealed(TheDuel, at[p] + 1)
      BY <3>1, Parts, ClientsAre DEF IInv, DuelInv, InOrder
    <3>3. SealOf(p, at[p] + 1) = None BY <3>1, Parts DEF Follows
    <3>4. OpenOf(p, at[p] + 1) = None BY <3>1, <3>3, Parts, Unopened
    <3> QED BY <3>2, <3>4, ClientsAre DEF BothRevealed, OpenOf
  <2> QED BY <2>1, <2>2, Parts, DuelAssumption DEF Follows, Rounds
<1> QED BY <1>1, ClientInvariance, PTL

\* The result screen tells the verdict of the account, whatever the replay
\* showed before.
THEOREM ResultsAreVerdicts == ClientSpec => []ResultIsVerdict
<1>1. ClientInv => ResultIsVerdict
  BY DEF ClientInv, Own, Follows, Tells, ResultIsVerdict
<1> QED BY <1>1, ClientInvariance, PTL

\* No hand is relayed or shown to the opponent before the program has it, unless
\* the duel was over or a card of that hand was taken through another duel.
THEOREM NothingIsShownEarly == ClientSpec => []NothingShownEarly
<1>1. ClientInv => NothingShownEarly
  BY DEF ClientInv, Own, RelaysOpened, ShowsOpened, OpenOf, OnAccount, NothingShownEarly
<1> QED BY <1>1, ClientInvariance, PTL

\* A client without accidents never loses the play it has sealed before it has
\* shown it.
THEOREM SealedHandsOpen == ClientSpec => []SealedHandOpens
<1>1. ClientInv => SealedHandOpens
  BY ClientsAre DEF ClientInv, Own, SealHeld, Sealed, SealOf, SealedHandOpens
<1> QED BY <1>1, ClientInvariance, PTL

\* What one client does leaves the accounts alone, unless a transaction lands.
LEMMA ActionAllowed ==
  ASSUME ClientInv, NEW q \in Clients,
         \/ SealingStep(q) \/ RevealStep(q) \/ ReplayStep(q)
         \/ ResolveStep(q) \/ ClaimStep(q) \/ WalletStep(q)
         \/ NetworkStep(q) \/ Accident(q) \/ Continue(q)
         \/ \E m \in relayed : Deliver(q, m)
  PROVE  Next \/ UNCHANGED vars
<1>1. CASE SealingStep(q) \/ RevealStep(q) \/ ReplayStep(q)
  BY <1>1 DEF SealingStep, Confirm, DuelOpened, HandSealed, LockIn, RevealStep, RetryReveal,
              RevealConfirmed, ReplayStep, Replay, SkipReplay
<1>2. CASE ResolveStep(q) \/ ClaimStep(q) \/ WalletStep(q)
  BY <1>2 DEF ResolveStep, ShowResult, ShowBridge, AdvanceRound, ClaimStep, ClaimTimeout,
              ClaimConfirmed, WalletStep, Send, SendFails, Throws
<1>3. CASE Accident(q) \/ Continue(q) \/ \E m \in relayed : Deliver(q, m)
  BY <1>3 DEF Accident, ConfirmationLost, Throws, Reload, Continue, Deliver
<1>4. CASE NetworkStep(q)
  <2>1. ASSUME NEW tx \in air[q], Land(q, tx) PROVE Next \/ UNCHANGED vars
    <3>1. CASE Accepted(q, tx) BY <2>1, <3>1, Landing
    <3>2. CASE ~Accepted(q, tx) BY <2>1, <3>2 DEF Land
    <3> QED BY <3>1, <3>2
  <2>2. ASSUME NEW tx \in air[q], Expire(q, tx) PROVE UNCHANGED vars BY <2>2 DEF Expire
  <2> QED BY <1>4, <2>1, <2>2 DEF NetworkStep
<1> QED BY <1>1, <1>2, <1>3, <1>4

\* The two browsers can only do to the accounts what the program allows to
\* anyone, so whatever is proved of the duels holds of theirs.
THEOREM ClientsObeyProgram == ClientSpec => Spec
<1>1. ClientInit => Init BY DEF ClientInit
<1>2. ClientInv /\ [ClientNext]_allVars => [Next]_vars
  <2> SUFFICES ASSUME ClientInv, [ClientNext]_allVars PROVE [Next]_vars
    OBVIOUS
  <2>1. CASE ClientAction BY <2>1, ActionAllowed DEF ClientAction
  <2>2. CASE ClientTick BY <2>2 DEF ClientTick, Next
  <2>3. CASE UNCHANGED allVars BY <2>3 DEF allVars
  <2>4. CASE Elsewhere BY <2>4 DEF Elsewhere, Next
  <2> QED BY <2>1, <2>2, <2>3, <2>4 DEF ClientNext
<1> QED BY <1>1, <1>2, ClientInvariance, PTL DEF ClientSpec, Spec
=============================================================================

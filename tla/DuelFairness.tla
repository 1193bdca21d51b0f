---------------------------- MODULE DuelFairness ----------------------------
(***************************************************************************)
(* Progress of duels.  The chain never acts on its own: a duel ends only   *)
(* because a player sends a transaction.  What the program owes an honest  *)
(* player is that their own transactions are enough, whatever the opponent *)
(* does or stops doing.                                                    *)
(***************************************************************************)
EXTENDS Duel

CONSTANT Honest   \* the players who keep playing, on owned cards only

ASSUME HonestAssumption == Honest \subseteq Players

\* An honest player fields what they own; everybody else does as they please.
HonestCommits ==
  \A d \in DuelIds, p \in Honest, r \in Rounds, h \in Plays :
    CommitHand(d, p, r, h) => Field[h] \subseteq vault[p]

HonestNext == Next /\ HonestCommits

CommitOwned(d, p) ==
  \E r \in Rounds, h \in Plays : Field[h] \subseteq vault[p] /\ CommitHand(d, p, r, h)
RevealOwn(d, p) == \E r \in Rounds, h \in Plays : RevealHand(d, p, r, h)

\* Fairness: the clock advances, and an honest client eventually sends each
\* transaction the program keeps accepting.  Nothing is assumed of the others.
Fairness ==
  /\ WF_vars(Tick)
  /\ \A d \in DuelIds, p \in Honest :
       /\ WF_vars(CommitOwned(d, p))
       /\ WF_vars(RevealOwn(d, p))
       /\ WF_vars(ClaimTimeoutWin(d, p))

FairSpec == Init /\ [][HonestNext]_vars /\ Fairness

\* Every duel an honest player sits in ends: by being played out, or by the
\* claim the program grants against an opponent who stopped.  Each commit and
\* reveal restarts the stall clock, so this also says nobody can restart it
\* forever.  (README, How a duel works: "A stalled duel can't hold a player
\* hostage.")
StalledDuelEnds ==
  \A d \in DuelIds, p \in Honest : Participant(d, p) ~> ended[d]
=============================================================================

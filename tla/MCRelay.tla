------------------------------- MODULE MCRelay -------------------------------
(***************************************************************************)
(* An instance of DamageConsensus, and with it of Rooms, for TLC.          *)
(***************************************************************************)
EXTENDS DamageConsensus, FiniteSets, TLC

CONSTANTS ann, ben, cat, round1, hit, miss

\* Clients are interchangeable, and so are the deltas.
RelaySymmetry == Permutations(Clients) \cup Permutations(Deltas)

\* Claims about rounds are made by authenticated players, in two rooms at most,
\* once nobody is in the queue or about to leave; players authenticate before
\* anybody enters a room, or not at all; and at most one connection is lost.
Claimed == \E k \in Keys : claims[k] # NoClaims
Settled ==
  /\ \A c \in Clients : authenticated[c] /\ conn[c] # "closing"
  /\ queue = {} /\ waiting = {} /\ nextRoomId <= 3
QueueThenDuel == Claimed' \/ violations' # {} => Settled'
AuthFirst == authenticated' # authenticated => entered = {}
OneLost == Cardinality({c \in Clients : conn'[c] # "open"}) <= 1
Relayed ==
  ConsensusInit /\ [][Next /\ QueueThenDuel /\ AuthFirst /\ OneLost]_vars
=============================================================================

\* Hands of three cards and any seed: the fight the second player's browser shows.
CONSTANTS
  None = None
  HandSize = 3
  Table <- MCTable
  Hands <- MCHands
  Seeds <- MCSeeds
SPECIFICATION Spec
INVARIANTS
  ExactSameFight
CHECK_DEADLOCK FALSE

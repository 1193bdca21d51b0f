\* Hands of three cards, which can tie within a side, across and not at all, and in
\* which three Engineers can meet; the fight ends with its result.
CONSTANTS
  None = None
  HandSize = 3
  Table <- MCTable
  Hands <- MCHands
  Seeds <- MCSeeds
SPECIFICATION Spec
INVARIANTS
  
  OrderDoesNotMatter
  ActionsKeepRules
CHECK_DEADLOCK FALSE

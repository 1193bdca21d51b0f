\* Two copies of one species and two duels, the admin's updates and promotions; or
\* one card through three changes of owner.
CONSTANTS
  x = x
  None = None
  w1 = w1
  w2 = w2
  m1 = m1
  m2 = m2
  Wallets = {w1, w2}
  Mints = {m1, m2}
  d1 = d1
  d2 = d2
  Duels = {d1, d2}
  Species = {x}
  VeteranWins = 1
  ElderWins = 2
  LineageOwners = 2
  ImprintSlots = 3
  StatLimit <- MCStatLimit
  PromoteWins <- MCPromoteWins
  LegendaryKos = 1
  RingSize = 2
  LeaseDuration = 1
  CountMax = 3
  Deltas <- MCDeltas
  GrantKeys = {"Burner"}
  GivenSource = {2, 9}
  Horizon = 1
  MaxChanges = 3
SYMMETRY CopySymmetry
SPECIFICATION Histories
INVARIANTS
  EachWinEngravedOnce
  RarityEarned
  ImprintsEarned
  RingKeepsLatest
PROPERTIES
  HistoryOnlyGrows

\* One duel of two rounds after another that bob lost and alice may loot.  Alice
\* hosts and may suffer every accident, or do nothing; bob, the guest, does what
\* his screens offer.
CONSTANTS
  alice = alice
  bob = bob
  a = a
  b = b
  x = x
  d1 = d1
  d2 = d2
  None = None
  Players = {alice, bob}
  DuelIds = {d1, d2}
  TheDuel = d1
  Host = alice
  Guest = bob
  Steady = {bob}
  Species = {x}
  Plays = {a, b}
  Provable = {a, b}
  Commitments = {a, b}
  Seal <- MCSeal
  Field <- MCField
  BattlePower <- MCPower
  RoundLimit = 2
  RoundsToWin = 2
  StallTimeout = 1
  EnergyMax = 1
  RegenInterval = 1
  EnergyCost = 1
  Registered = {alice, bob}
  StartVault <- MCVault
SPECIFICATION LootedSpec
INVARIANTS
  FollowsChain
  ResultIsVerdict
  NothingShownEarly
  SealedHandOpens
PROPERTIES
  DuelReachesResult

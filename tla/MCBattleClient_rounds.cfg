\* One duel of two rounds between two clients without accidents, in which the
\* clock stands still.
CONSTANTS
  alice = alice
  bob = bob
  a = a
  b = b
  x = x
  d1 = d1
  d2 = d2
  None = None
  Players = {alice, bob}
  DuelIds = {d1}
  TheDuel = d1
  Host = alice
  Guest = bob
  Steady = {alice, bob}
  Species = {x}
  Plays = {a, b}
  Provable = {a, b}
  Commitments = {a, b}
  Seal <- MCSeal
  Field <- MCField
  BattlePower <- MCPower
  RoundLimit = 2
  RoundsToWin = 2
  StallTimeout = 1
  EnergyMax = 1
  RegenInterval = 1
  EnergyCost = 1
  Registered = {}
  StartVault <- MCVault
SPECIFICATION NoStallSpec
PROPERTIES
  EveryRoundPlayed

\* Two one-round duels in an open season: loot won in one duel can take the
\* card committed in the other.
CONSTANTS
  alice = alice
  bob = bob
  a = a
  b = b
  c = c
  x = x
  y = y
  None = None
  Players = {alice, bob}
  d1 = d1
  d2 = d2
  DuelIds = {d1, d2}
  Species = {x, y}
  Plays = {a, b}
  Provable <- MCProvable
  Commitments = {a, b}
  Seal <- MCSeal
  Field <- MCField
  BattlePower <- MCPower
  RoundLimit = 1
  RoundsToWin = 1
  StallTimeout = 1
  EnergyMax = 1
  RegenInterval = 1
  EnergyCost = 1
  Registered = {alice, bob}
  StartVault <- MCVault
  Honest = {alice}
SPECIFICATION TwoDuelsFairSpec
PROPERTIES
  StalledDuelEnds

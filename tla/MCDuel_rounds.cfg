\* A duel of four rounds and three wins to take it, one round short of the code's,
\* with one honest player, alice; bob may do anything, including nothing.  Before
\* it alice has won d2, and the loot of both is paid out after it.  One point of
\* energy is all there is, and one tick restores it.
CONSTANTS
  alice = alice
  bob = bob
  a = a
  b = b
  c = c
  x = x
  y = y
  None = None
  Players = {alice, bob}
  d1 = d1
  d2 = d2
  DuelIds = {d1, d2}
  Species = {x, y}
  Plays = {a, b}
  Provable <- MCProvable
  Commitments = {a, b}
  Seal <- MCSeal
  Field <- MCField
  BattlePower <- MCPower
  RoundLimit = 4
  RoundsToWin = 3
  StallTimeout = 1
  EnergyMax = 1
  RegenInterval = 1
  EnergyCost = 1
  Registered = {alice, bob}
  StartVault <- MCVault
  Honest = {alice}
SPECIFICATION EarlierDuelFairSpec
INVARIANTS
  RoundsInOrder
  TallyIsReplay
  VerdictJustified
  EntryChargedOnce
  LootBounded
PROPERTIES
  AccountIsAppendOnly
  DuelsAreMatches
  StalledDuelEnds

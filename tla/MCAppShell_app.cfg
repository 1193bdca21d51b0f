\* Two wallets in one browser, two claims put before them, and two requests of
\* the shell under way at once.
CONSTANTS
  alice = alice
  bob = bob
  None = None
  Wallets = {alice, bob}
  MaxClaims = 2
  MaxJobs = 2
SPECIFICATION AppSpec
INVARIANTS
  ScreenIsWallets
  ScreenStays
  OneClaimMayLand
  ClaimOnRecord

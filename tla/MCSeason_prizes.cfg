\* Three players with one to three cards each, packs, loot, awards and donations;
\* no listings.
CONSTANTS
  c1 = c1
  c2 = c2
  c3 = c3
  Players = {1, 2, 3}
  Cards = {c1, c2, c3}
  FullCount = 3
  BandMin <- MCBandMin
  BandShare <- MCBandShare
  Legendary = {c3}
  Starters = {{c1}}
  PackDraws = {{c2}}
  StartAt = 1
  EndAt = 2
  Horizon = 3
  Rent = 1
  PrizeShare = 40
  PackShare = 7
  Donation = 5
  MaxPool = 133
  ClaimantMax = 1
  FullMax = 255
SPECIFICATION NoListings
INVARIANTS
  TallyMatchesVaults
  NobodyLeftOut
  Solvent
  PrizesFollowRank

\* Two players and two cards that go in and out of escrow; the season ends and
\* escrow is returned.  A pool of 2 leaves some players with a prize of 0, and two
\* complete collections are one too many to be counted.
CONSTANTS
  c1 = c1
  c2 = c2
  c3 = c3
  Players = {1, 2}
  Cards = {c1, c2}
  FullCount = 2
  BandMin <- MCBandMin
  BandShare <- MCBandShare
  Legendary = {}
  Starters = {{c1}, {c1, c2}}
  PackDraws = {{c2}}
  StartAt = 1
  EndAt = 2
  Horizon = 3
  Rent = 1
  PrizeShare = 1
  PackShare = 7
  Donation = 5
  MaxPool = 3
  ClaimantMax = 1
  FullMax = 1
SPECIFICATION FairTrading
INVARIANTS
  PrizesFollowRank
PROPERTIES
  SeasonEnds
  EscrowReturned

\* Three connections, three rooms, one round.
CONSTANTS
  ann = ann
  ben = ben
  cat = cat
  round1 = round1
  hit = hit
  miss = miss
  None = None
  Clients = {ann, ben, cat}
  MaxRooms = 3
  Keys = {round1}
  Deltas = {hit, miss}
SYMMETRY RelaySymmetry
SPECIFICATION Relayed
INVARIANTS
  EnteredRoomsLive
  NobodyForgotten
  WaitersArePaired
  MatchesShareRoom
  MismatchIsLogged

\* Two payments with one nonce, two requests at once, long enough for their keys
\* to expire.
CONSTANTS
  s1 = s1
  s2 = s2
  alice = alice
  bob = bob
  move = move
  ai = ai
  n1 = n1
  r1 = r1
  r2 = r2
  Payments = {s1, s2}
  Players = {alice, bob}
  Endpoints = {move, ai}
  Nonces = {n1}
  Payer <- MCPayer
  MemoEndpoint <- MCMemoEndpoint
  Nonce <- MCNonce
  Sound <- MCSound
  Requests = {r1, r2}
  None = None
  MaxAge = 1
  MaxAhead = 1
  Patience = 1
  Ttl = 4
  FastEndpoints = {move}
  Horizon = 6
SYMMETRY RequestSymmetry
SPECIFICATION Spec
INVARIANTS
  ConsumedOnce
  NonceOncePerWindow
  ServedAsPaid

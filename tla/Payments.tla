------------------------------ MODULE Payments -------------------------------
(***************************************************************************)
(* The paid endpoints of the multiplayer server: a player pays on chain,   *)
(* sends the transaction's signature with a request, and the server checks *)
(* the payment step by step, with an await between the steps, before it    *)
(* consumes it in Redis and delivers.  Several requests are in flight at   *)
(* once, of one server or of several that share the store.                 *)
(*                                                                         *)
(* A payment is a transaction, named by its signature: who pays, which     *)
(* endpoint its memo names, the memo's nonce (None in the old verbose      *)
(* format, whose nonce the server does not extract), and whether it        *)
(* succeeded and paid enough.                                              *)
(***************************************************************************)
EXTENDS Integers

CONSTANTS
  Payments, Players, Endpoints, Nonces,
  Payer, MemoEndpoint, Nonce, Sound,   \* what each payment is, see above
  Requests,      \* slots of requests in flight
  None,
  MaxAge,        \* a proof is refused when older (300 s)
  MaxAhead,      \* or when its block time is further ahead (30 s)
  Patience,      \* no request is in flight for longer after its proof was read
  Ttl,           \* life of a consumed key in Redis (3600 s)
  FastEndpoints, \* endpoints answered without calling the AI service
  Horizon        \* bound on the clock

ASSUME PaymentsAssumption ==
  /\ None \notin Nonces
  /\ Payments \cap Nonces = {}
  /\ Payer \in [Payments -> Players]
  /\ MemoEndpoint \in [Payments -> Endpoints]
  /\ Nonce \in [Payments -> Nonces \cup {None}]
  /\ Sound \in [Payments -> BOOLEAN]
  /\ MaxAge \in Nat /\ MaxAhead \in Nat /\ Patience \in Nat /\ Ttl \in Nat
  /\ Horizon \in Nat
  /\ MaxAge + MaxAhead + Patience < Ttl

VARIABLES
  now,
  block,      \* block time of a finalized payment, or -1
  sigUntil,   \* expiry of the key sig:{signature}, or 0
  nonceUntil, \* expiry of the key nonce:{endpoint}:{nonce}, or 0
  redisUp,
  req,        \* the requests in flight
  consumed,   \* history: how often each payment was consumed
  served      \* history: <<payment, player, endpoint>> answered with 200

storeVars == <<sigUntil, nonceUntil>>
historyVars == <<consumed, served>>
vars == <<now, block, storeVars, redisUp, req, historyVars>>

NonceKey == Endpoints \X (Nonces \cup Payments)

Stage == {"idle", "signature", "transaction", "nonce", "consume", "deliver"}

Idle == [at |-> "idle", sig |-> None, player |-> None, endpoint |-> None, read |-> 0]

Init ==
  /\ now = 0
  /\ block = [x \in Payments |-> -1]
  /\ sigUntil = [x \in Payments |-> 0]
  /\ nonceUntil = [k \in NonceKey |-> 0]
  /\ redisUp = TRUE
  /\ req = [r \in Requests |-> Idle]
  /\ consumed = [x \in Payments |-> 0]
  /\ served = {}

-----------------------------------------------------------------------------
\* The nonce a consumption is filed under: the memo's, or else the signature.
KeyOf(x, endpoint) == <<endpoint, IF Nonce[x] = None THEN x ELSE Nonce[x]>>

Taken(until) == now < until

Advance(r, stage) == req' = [req EXCEPT ![r].at = stage]
Answer(r) == req' = [req EXCEPT ![r] = Idle]

\* The chain finalizes a payment; its clock may be ahead of the server's.
Pay(x, t) ==
  /\ block[x] = -1
  /\ block' = [block EXCEPT ![x] = t]
  /\ UNCHANGED <<now, storeVars, redisUp, req, historyVars>>

\* A POST with a signature and a wallet.  Requests without a signature get a
\* quote and never reach the verification.
Arrive(r, p, endpoint, x) ==
  /\ req[r] = Idle
  /\ req' = [req EXCEPT ![r] = [at |-> "signature", sig |-> x, player |-> p,
                                endpoint |-> endpoint, read |-> 0]]
  /\ UNCHANGED <<now, block, storeVars, redisUp, historyVars>>

\* isSigUsed: a failing Redis falls back to an empty map.
CheckSignature(r) ==
  /\ req[r].at = "signature"
  /\ IF redisUp /\ Taken(sigUntil[req[r].sig])
       THEN Answer(r) ELSE Advance(r, "transaction")
  /\ UNCHANGED <<now, block, storeVars, redisUp, historyVars>>

\* (Mutant of ProofAccepted: the age of the proof is not checked.)
AcceptedAtAnyAge(r) ==
  LET x == req[r].sig IN
  /\ block[x] # -1
  /\ Sound[x]
  /\ Payer[x] = req[r].player
  /\ MemoEndpoint[x] = req[r].endpoint

\* (Mutant of ProofAccepted: the payer is not compared with the wallet.)
AcceptedFromAnyPayer(r) ==
  LET x == req[r].sig IN
  /\ block[x] # -1
  /\ Sound[x]
  /\ now - block[x] <= MaxAge /\ block[x] <= now + MaxAhead
  /\ MemoEndpoint[x] = req[r].endpoint

\* paymentIdentityError and validateMemo over the finalized transaction.
ProofAccepted(r) ==
  LET x == req[r].sig IN
  /\ block[x] # -1
  /\ Sound[x]
  /\ Payer[x] = req[r].player
  /\ now - block[x] <= MaxAge /\ block[x] <= now + MaxAhead
  /\ MemoEndpoint[x] = req[r].endpoint

\* connection.getTransaction, then the checks on what it returned.
ReadTransaction(r) ==
  /\ req[r].at = "transaction"
  /\ IF ProofAccepted(r)
       THEN req' = [req EXCEPT ![r].at = "nonce", ![r].read = now]
       ELSE Answer(r)
  /\ UNCHANGED <<now, block, storeVars, redisUp, historyVars>>

\* isNonceUsed, asked only when the memo's nonce was extracted.
CheckNonce(r) ==
  LET x == req[r].sig IN
  /\ req[r].at = "nonce"
  /\ IF Nonce[x] # None /\ redisUp /\ Taken(nonceUntil[KeyOf(x, req[r].endpoint)])
       THEN Answer(r) ELSE Advance(r, "consume")
  /\ UNCHANGED <<now, block, storeVars, redisUp, historyVars>>

\* (Mutant of KeysFree: the nonce read earlier is trusted.)
SignatureFree(x, endpoint) == redisUp /\ ~Taken(sigUntil[x])

\* The test of the Lua script, atomic with the writes; without Redis the
\* production server throws.
KeysFree(x, endpoint) ==
  /\ redisUp
  /\ ~Taken(sigUntil[x])
  /\ ~Taken(nonceUntil[KeyOf(x, endpoint)])

\* consumePayment.
ConsumePayment(r) ==
  LET x == req[r].sig  k == KeyOf(x, req[r].endpoint) IN
  /\ req[r].at = "consume"
  /\ IF KeysFree(x, req[r].endpoint)
       THEN /\ sigUntil' = [sigUntil EXCEPT ![x] = now + Ttl]
            /\ nonceUntil' = [nonceUntil EXCEPT ![k] = now + Ttl]
            /\ consumed' = [consumed EXCEPT ![x] = @ + 1]
            /\ Advance(r, "deliver")
       ELSE Answer(r) /\ UNCHANGED <<storeVars, consumed>>
  /\ UNCHANGED <<now, block, redisUp, served>>

\* _dispatchPaidRequest: the receipt of a move, or an answer of the AI service,
\* which may fail after the payment is gone.
Deliver(r) ==
  /\ req[r].at = "deliver"
  /\ \/ served' = served \cup {<<req[r].sig, req[r].player, req[r].endpoint>>}
     \/ req[r].endpoint \notin FastEndpoints /\ UNCHANGED served
  /\ Answer(r)
  /\ UNCHANGED <<now, block, storeVars, redisUp, consumed>>

\* The server stops and starts again: what is in flight is lost, Redis is not.
Restart ==
  /\ req' = [r \in Requests |-> Idle]
  /\ UNCHANGED <<now, block, storeVars, redisUp, historyVars>>

ToggleRedis ==
  /\ redisUp' = ~redisUp
  /\ UNCHANGED <<now, block, storeVars, req, historyVars>>

\* Time passes; nobody waits longer than Patience for a request whose proof
\* has been read.
Tick ==
  /\ now < Horizon
  /\ \A r \in Requests :
       req[r].at \in {"nonce", "consume"} => now < req[r].read + Patience
  /\ now' = now + 1
  /\ UNCHANGED <<block, storeVars, redisUp, req, historyVars>>

Next ==
  \/ \E x \in Payments, t \in now..(now + MaxAhead + 1) : Pay(x, t)
  \/ \E r \in Requests :
       \/ \E p \in Players, e \in Endpoints, x \in Payments : Arrive(r, p, e, x)
       \/ CheckSignature(r) \/ ReadTransaction(r) \/ CheckNonce(r)
       \/ ConsumePayment(r) \/ Deliver(r)
  \/ Restart \/ ToggleRedis \/ Tick

Spec == Init /\ [][Next]_vars

-----------------------------------------------------------------------------
(***************************************************************************)
(* Properties.                                                             *)
(***************************************************************************)

Request ==
  {Idle} \cup [at : Stage \ {"idle"}, sig : Payments, player : Players,
               endpoint : Endpoints, read : Nat]

\* The store and the requests in flight are well formed.
TypeOK ==
  /\ now \in Nat
  /\ block \in [Payments -> Nat \cup {-1}]
  /\ sigUntil \in [Payments -> Nat]
  /\ nonceUntil \in [NonceKey -> Nat]
  /\ redisUp \in BOOLEAN
  /\ req \in [Requests -> Request]
  /\ consumed \in [Payments -> Nat]
  /\ served \subseteq Payments \X Players \X Endpoints

\* redis-store.js says of the script that it keeps "two concurrent requests from
\* spending the same proof".  No payment is consumed twice, whatever is in flight
\* at once, while Redis comes and goes, after restarts, and although the keys
\* expire: a proof is refused as too old before its keys are gone.
ConsumedOnce == \A x \in Payments : consumed[x] <= 1

SameNonce(x, y) ==
  x # y /\ Nonce[x] # None /\ Nonce[x] = Nonce[y] /\ MemoEndpoint[x] = MemoEndpoint[y]

\* Two payments for one endpoint with one nonce are not both consumed unless the
\* chain dates them further apart than the keys outlive a proof.
NonceOncePerWindow ==
  \A x, y \in Payments :
    SameNonce(x, y) /\ consumed[x] > 0 /\ consumed[y] > 0
      => \/ block[y] - block[x] >= Ttl - (MaxAge + MaxAhead + Patience)
         \/ block[x] - block[y] >= Ttl - (MaxAge + MaxAhead + Patience)

\* Whoever is served paid for it: the wallet that paid, at the endpoint the memo
\* names, with a sound payment that was consumed; and no payment is served twice or
\* held for delivery by two requests, or by one after another was served with it.
ServedAsPaid ==
  /\ \A t \in served : /\ Payer[t[1]] = t[2] /\ MemoEndpoint[t[1]] = t[3]
                       /\ Sound[t[1]] /\ consumed[t[1]] > 0
  /\ \A t, u \in served : t[1] = u[1] => t = u
  /\ \A r \in Requests : req[r].at = "deliver" =>
       /\ \A t \in served : t[1] # req[r].sig
       /\ \A q \in Requests : req[q].at = "deliver" /\ req[q].sig = req[r].sig => q = r
=============================================================================

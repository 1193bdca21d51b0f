--------------------------- MODULE PaymentsProofs ----------------------------
(***************************************************************************)
(* Machine-checked proofs about Payments, for every set of payments,       *)
(* wallets, endpoints and requests, and every choice of times with         *)
(* MaxAge + MaxAhead + Patience < Ttl.                                     *)
(***************************************************************************)
EXTENDS Payments, TLAPS

(***************************************************************************)
(* The inductive invariant.  A request past the checks carries an accepted *)
(* proof that was read a short while ago, and the keys of a consumed       *)
(* payment outlive every proof of it: when the keys are gone, no request   *)
(* in flight can still carry it.                                           *)
(***************************************************************************)
Accepted(r) ==
  LET x == req[r].sig IN
  /\ Sound[x] /\ Payer[x] = req[r].player /\ MemoEndpoint[x] = req[r].endpoint
  /\ block[x] # -1

ReadRecently(r) ==
  LET x == req[r].sig IN
  /\ block[x] <= req[r].read + MaxAhead /\ req[r].read <= block[x] + MaxAge
  /\ req[r].read <= now /\ now <= req[r].read + Patience

RequestInv(r) ==
  /\ req[r].at \in {"nonce", "consume", "deliver"} => Accepted(r)
  /\ req[r].at \in {"nonce", "consume"} => ReadRecently(r)
  /\ req[r].at = "deliver" => consumed[req[r].sig] = 1

KeysOutliveProof(x) ==
  consumed[x] > 0 =>
    /\ block[x] # -1
    /\ sigUntil[x] >= block[x] + Ttl - MaxAhead
    /\ nonceUntil[KeyOf(x, MemoEndpoint[x])] >= block[x] + Ttl - MaxAhead

IInv ==
  /\ TypeOK
  /\ ConsumedOnce
  /\ NonceOncePerWindow
  /\ ServedAsPaid
  /\ \A r \in Requests : RequestInv(r)
  /\ \A x \in Payments : KeysOutliveProof(x)

-----------------------------------------------------------------------------
\* A request that is not idle names a payment, a wallet and an endpoint.
LEMMA RequestFields ==
  ASSUME TypeOK, NEW r \in Requests, req[r].at # "idle"
  PROVE  /\ req[r] \in [at : Stage \ {"idle"}, sig : Payments, player : Players,
                        endpoint : Endpoints, read : Nat]
         /\ req[r].sig \in Payments /\ req[r].player \in Players
         /\ req[r].endpoint \in Endpoints /\ req[r].read \in Nat
BY DEF TypeOK, Request, Idle

LEMMA KeyOfIsKey ==
  \A x \in Payments, e \in Endpoints : KeyOf(x, e) \in NonceKey
BY PaymentsAssumption DEF KeyOf, NonceKey

\* While neither the books nor the requests at delivery grow, what was served
\* stays as it was paid.
LEMMA ServedAsPaidKept ==
  ASSUME ServedAsPaid, UNCHANGED <<consumed, served>>,
         \A r \in Requests : req'[r].at = "deliver" => req'[r] = req[r]
  PROVE  ServedAsPaid'
BY DEF ServedAsPaid

\* The state of a request: its record, its payment's block time and count, the clock.
LEMMA RequestInvKept ==
  ASSUME NEW r \in Requests, RequestInv(r), req'[r] = req[r],
         UNCHANGED <<now, block, consumed>>
  PROVE  RequestInv(r)'
BY DEF RequestInv, Accepted, ReadRecently

LEMMA IdleRequestInv ==
  ASSUME NEW r \in Requests, req'[r].at \in {"idle", "signature", "transaction"}
  PROVE  RequestInv(r)'
BY DEF RequestInv

THEOREM InitIInv == Init => IInv
<1> SUFFICES ASSUME Init PROVE IInv
  OBVIOUS
<1> USE DEF Init
<1>1. TypeOK
  BY DEF TypeOK, Request
<1>2. ConsumedOnce /\ NonceOncePerWindow /\ ServedAsPaid
  BY DEF ConsumedOnce, NonceOncePerWindow, ServedAsPaid, Idle
<1>3. \A r \in Requests : RequestInv(r)
  BY DEF RequestInv, Idle
<1>4. \A x \in Payments : KeysOutliveProof(x)
  BY DEF KeysOutliveProof
<1>5. QED
  BY <1>1, <1>2, <1>3, <1>4 DEF IInv

LEMMA PayKeepsInv ==
  ASSUME IInv, NEW x \in Payments, NEW t \in now..(now + MaxAhead + 1), Pay(x, t)
  PROVE  IInv'
<1> USE DEF Pay, storeVars, historyVars
<1>0. t \in Nat
  BY PaymentsAssumption DEF IInv, TypeOK
<1>1. TypeOK'
  BY <1>0 DEF IInv, TypeOK
<1>2. ConsumedOnce' /\ ServedAsPaid'
  BY ServedAsPaidKept DEF IInv, ConsumedOnce
<1>3. ASSUME NEW y \in Payments, consumed[y] > 0
      PROVE  block'[y] = block[y]
  BY <1>3 DEF IInv, TypeOK, KeysOutliveProof
<1>4. NonceOncePerWindow'
  BY <1>3 DEF IInv, NonceOncePerWindow
<1>5. ASSUME NEW r \in Requests PROVE RequestInv(r)'
  <2>1. CASE req[r].at \in {"nonce", "consume", "deliver"}
    <3>1. req[r].sig \in Payments /\ block[req[r].sig] # -1
      BY <2>1, RequestFields DEF IInv, RequestInv, Accepted
    <3>2. block'[req[r].sig] = block[req[r].sig]
      BY <3>1 DEF IInv, TypeOK
    <3>3. QED
      BY <3>2 DEF IInv, RequestInv, Accepted, ReadRecently
  <2>2. CASE req[r].at \notin {"nonce", "consume", "deliver"}
    BY <2>2 DEF RequestInv
  <2>3. QED
    BY <2>1, <2>2
<1>6. ASSUME NEW y \in Payments PROVE KeysOutliveProof(y)'
  BY <1>3 DEF IInv, KeysOutliveProof, KeyOf
<1>7. QED
  BY <1>1, <1>2, <1>4, <1>5, <1>6 DEF IInv

\* A step that only moves requests around before consumption, or drops them.
LEMMA RequestStepKeepsInv ==
  ASSUME IInv, UNCHANGED <<now, block, storeVars, historyVars>>,
         redisUp' \in BOOLEAN,
         req' \in [Requests -> Request],
         \A r \in Requests : req'[r].at = "deliver" => req'[r] = req[r],
         \A r \in Requests : RequestInv(r)'
  PROVE  IInv'
<1> USE DEF storeVars, historyVars
<1>1. TypeOK'
  BY DEF IInv, TypeOK
<1>2. ConsumedOnce' /\ NonceOncePerWindow'
  BY DEF IInv, ConsumedOnce, NonceOncePerWindow
<1>3. ServedAsPaid'
  BY ServedAsPaidKept DEF IInv
<1>4. \A x \in Payments : KeysOutliveProof(x)'
  BY DEF IInv, KeysOutliveProof, KeyOf
<1>5. QED
  BY <1>1, <1>2, <1>3, <1>4 DEF IInv

LEMMA ArriveKeepsInv ==
  ASSUME IInv, NEW r \in Requests, NEW p \in Players, NEW e \in Endpoints,
         NEW x \in Payments, Arrive(r, p, e, x)
  PROVE  IInv'
<1>1. req' \in [Requests -> Request]
  BY DEF Arrive, IInv, TypeOK, Request, Stage
<1>2. \A q \in Requests : IF q = r THEN req'[q].at = "signature" ELSE req'[q] = req[q]
  BY DEF Arrive, IInv, TypeOK
<1>3. ASSUME NEW q \in Requests PROVE RequestInv(q)'
  BY <1>2, RequestInvKept, IdleRequestInv DEF IInv, Arrive, historyVars
<1>4. redisUp' \in BOOLEAN
  BY DEF Arrive, IInv, TypeOK
<1>5. QED
  BY <1>1, <1>2, <1>3, <1>4, RequestStepKeepsInv DEF Arrive

\* What Answer and Advance do to the table of requests.
LEMMA AnswerEffect ==
  ASSUME IInv, NEW r \in Requests, Answer(r)
  PROVE  /\ req' \in [Requests -> Request]
         /\ req'[r].at = "idle"
         /\ \A q \in Requests \ {r} : req'[q] = req[q]
BY DEF IInv, TypeOK, Answer, Request, Idle

LEMMA AdvanceEffect ==
  ASSUME IInv, NEW r \in Requests, req[r].at # "idle",
         NEW stage \in Stage \ {"idle"}, Advance(r, stage)
  PROVE  /\ req' \in [Requests -> Request]
         /\ req'[r] = [req[r] EXCEPT !.at = stage]
         /\ req'[r].at = stage
         /\ req'[r].sig = req[r].sig /\ req'[r].player = req[r].player
         /\ req'[r].endpoint = req[r].endpoint /\ req'[r].read = req[r].read
         /\ \A q \in Requests \ {r} : req'[q] = req[q]
<1>1. req[r] \in [at : Stage \ {"idle"}, sig : Payments, player : Players,
                  endpoint : Endpoints, read : Nat]
  BY RequestFields DEF IInv
<1>2. [req[r] EXCEPT !.at = stage] \in Request
  BY <1>1 DEF Request
<1>3. QED
  BY <1>1, <1>2 DEF IInv, TypeOK, Advance

\* A refusal, at whatever stage.
LEMMA AnswerKeepsInv ==
  ASSUME IInv, NEW r \in Requests, Answer(r), redisUp' \in BOOLEAN,
         UNCHANGED <<now, block, storeVars, historyVars>>
  PROVE  IInv'
<1>1. \A q \in Requests : q # r => RequestInv(q)'
  BY AnswerEffect, RequestInvKept DEF IInv, historyVars
<1>2. RequestInv(r)'
  BY AnswerEffect, IdleRequestInv
<1>3. QED
  BY <1>1, <1>2, AnswerEffect, RequestStepKeepsInv

LEMMA CheckSignatureKeepsInv ==
  ASSUME IInv, NEW r \in Requests, CheckSignature(r)
  PROVE  IInv'
<1>0. redisUp' \in BOOLEAN /\ UNCHANGED <<now, block, storeVars, historyVars>>
  BY DEF CheckSignature, IInv, TypeOK
<1>1. CASE Answer(r)
  BY <1>0, <1>1, AnswerKeepsInv
<1>2. CASE Advance(r, "transaction")
  <2>1. req[r].at # "idle" /\ "transaction" \in Stage \ {"idle"}
    BY DEF CheckSignature, Stage
  <2>2. /\ req' \in [Requests -> Request] /\ req'[r].at = "transaction"
        /\ \A q \in Requests \ {r} : req'[q] = req[q]
    BY <1>2, <2>1, AdvanceEffect
  <2>3. ASSUME NEW q \in Requests PROVE RequestInv(q)'
    BY <1>0, <2>2, RequestInvKept, IdleRequestInv DEF IInv, historyVars
  <2>4. QED
    BY <1>0, <2>2, <2>3, RequestStepKeepsInv
<1>3. QED
  BY <1>1, <1>2 DEF CheckSignature

LEMMA ReadTransactionKeepsInv ==
  ASSUME IInv, NEW r \in Requests, ReadTransaction(r)
  PROVE  IInv'
<1> DEFINE x == req[r].sig
<1>0. redisUp' \in BOOLEAN /\ UNCHANGED <<now, block, storeVars, historyVars>>
  BY DEF ReadTransaction, IInv, TypeOK
<1>1. CASE Answer(r)
  BY <1>0, <1>1, AnswerKeepsInv
<1>2. CASE ProofAccepted(r) /\ req' = [req EXCEPT ![r].at = "nonce", ![r].read = now]
  <2>1. /\ req[r] \in [at : Stage \ {"idle"}, sig : Payments, player : Players,
                       endpoint : Endpoints, read : Nat]
        /\ x \in Payments /\ now \in Nat
    BY RequestFields DEF IInv, TypeOK, ReadTransaction
  <2>2. /\ req'[r] = [at |-> "nonce", sig |-> req[r].sig, player |-> req[r].player,
                      endpoint |-> req[r].endpoint, read |-> now]
        /\ \A q \in Requests \ {r} : req'[q] = req[q]
    BY <1>2, <2>1 DEF IInv, TypeOK
  <2>3. req' \in [Requests -> Request]
    <3>1. req'[r] \in Request
      BY <2>1, <2>2 DEF Request, Stage
    <3>2. QED
      BY <1>2, <3>1 DEF IInv, TypeOK
  <2>4. RequestInv(r)'
    <3>1. /\ block[x] \in Nat /\ Sound[x] /\ Payer[x] = req[r].player
          /\ now - block[x] <= MaxAge /\ block[x] <= now + MaxAhead
          /\ MemoEndpoint[x] = req[r].endpoint
      BY <1>2, <2>1 DEF ProofAccepted, IInv, TypeOK
    <3>2. Accepted(r)' /\ ReadRecently(r)'
      BY <1>0, <2>1, <2>2, <3>1, PaymentsAssumption DEF Accepted, ReadRecently
    <3>3. QED
      BY <2>2, <3>2 DEF RequestInv
  <2>5. \A q \in Requests : q # r => RequestInv(q)'
    BY <1>0, <2>2, RequestInvKept DEF IInv, historyVars
  <2>6. QED
    BY <1>0, <2>2, <2>3, <2>4, <2>5, RequestStepKeepsInv
<1>3. QED
  BY <1>1, <1>2 DEF ReadTransaction

LEMMA CheckNonceKeepsInv ==
  ASSUME IInv, NEW r \in Requests, CheckNonce(r)
  PROVE  IInv'
<1>0. redisUp' \in BOOLEAN /\ UNCHANGED <<now, block, storeVars, historyVars>>
  BY DEF CheckNonce, IInv, TypeOK
<1>1. CASE Answer(r)
  BY <1>0, <1>1, AnswerKeepsInv
<1>2. CASE Advance(r, "consume")
  <2>1. req[r].at = "nonce" /\ "consume" \in Stage \ {"idle"}
    BY DEF CheckNonce, Stage
  <2>2. /\ req' \in [Requests -> Request] /\ req'[r].at = "consume"
        /\ req'[r].sig = req[r].sig /\ req'[r].player = req[r].player
        /\ req'[r].endpoint = req[r].endpoint /\ req'[r].read = req[r].read
        /\ \A q \in Requests \ {r} : req'[q] = req[q]
    BY <1>2, <2>1, AdvanceEffect
  <2>3. RequestInv(r)'
    <3>1. Accepted(r) /\ ReadRecently(r)
      BY <2>1 DEF IInv, RequestInv
    <3>2. QED
      BY <1>0, <2>2, <3>1 DEF RequestInv, Accepted, ReadRecently
  <2>4. \A q \in Requests : q # r => RequestInv(q)'
    BY <1>0, <2>2, RequestInvKept DEF IInv, historyVars
  <2>5. QED
    BY <1>0, <2>2, <2>3, <2>4, RequestStepKeepsInv
<1>3. QED
  BY <1>1, <1>2 DEF CheckNonce

\* The heart of the matter: a request about to consume carries a proof whose
\* keys, had it been consumed before, would still be there.
LEMMA ConsumedKeysAreTaken ==
  ASSUME IInv, NEW r \in Requests, req[r].at = "consume",
         NEW y \in Payments, consumed[y] > 0,
         KeyOf(y, MemoEndpoint[y]) = KeyOf(req[r].sig, req[r].endpoint) \/ y = req[r].sig,
         KeysFree(req[r].sig, req[r].endpoint)
  PROVE  /\ y # req[r].sig
         /\ block[req[r].sig] - block[y] >= Ttl - (MaxAge + MaxAhead + Patience)
<1> DEFINE x == req[r].sig
<1>1. /\ x \in Payments /\ req[r].endpoint \in Endpoints
      /\ req[r].read \in Nat /\ now \in Nat
  BY RequestFields DEF IInv, TypeOK
<1>2. Accepted(r) /\ ReadRecently(r)
  BY DEF IInv, RequestInv
<1>3. /\ block[x] \in Nat
      /\ now <= block[x] + MaxAge + Patience
  BY <1>1, <1>2, PaymentsAssumption DEF Accepted, ReadRecently, IInv, TypeOK
<1>4. /\ block[y] \in Nat
      /\ sigUntil[y] >= block[y] + Ttl - MaxAhead
      /\ nonceUntil[KeyOf(y, MemoEndpoint[y])] >= block[y] + Ttl - MaxAhead
  BY DEF IInv, TypeOK, KeysOutliveProof
<1>5. /\ sigUntil[x] \in Nat /\ sigUntil[x] <= now
      /\ nonceUntil[KeyOf(x, req[r].endpoint)] \in Nat
      /\ nonceUntil[KeyOf(x, req[r].endpoint)] <= now
  BY <1>1, KeyOfIsKey DEF KeysFree, Taken, IInv, TypeOK
<1>6. now >= block[y] + Ttl - MaxAhead
  <2>1. CASE y = x
    BY <2>1, <1>1, <1>3, <1>4, <1>5, PaymentsAssumption
  <2>2. CASE KeyOf(y, MemoEndpoint[y]) = KeyOf(x, req[r].endpoint)
    BY <2>2, <1>1, <1>4, <1>5, PaymentsAssumption
  <2>3. QED
    BY <2>1, <2>2
<1>7. QED
  BY <1>1, <1>3, <1>4, <1>6, PaymentsAssumption

LEMMA ConsumePaymentKeepsInv ==
  ASSUME IInv, NEW r \in Requests, ConsumePayment(r)
  PROVE  IInv'
<1> DEFINE x == req[r].sig
           k == KeyOf(x, req[r].endpoint)
<1>0. redisUp' \in BOOLEAN /\ UNCHANGED <<now, block, redisUp, served>> /\ req[r].at = "consume"
  BY DEF ConsumePayment, IInv, TypeOK
<1>1. CASE ~KeysFree(x, req[r].endpoint)
  <2>1. Answer(r) /\ UNCHANGED <<storeVars, historyVars>>
    BY <1>0, <1>1 DEF ConsumePayment, historyVars, storeVars
  <2>2. QED
    BY <1>0, <2>1, AnswerKeepsInv
<1>2. CASE KeysFree(x, req[r].endpoint)
  <2>1. /\ sigUntil' = [sigUntil EXCEPT ![x] = now + Ttl]
        /\ nonceUntil' = [nonceUntil EXCEPT ![k] = now + Ttl]
        /\ consumed' = [consumed EXCEPT ![x] = @ + 1]
        /\ Advance(r, "deliver")
    BY <1>2 DEF ConsumePayment
  <2>2. /\ x \in Payments /\ req[r].endpoint \in Endpoints /\ k \in NonceKey
        /\ req[r].read \in Nat /\ now \in Nat
    BY <1>0, RequestFields, KeyOfIsKey DEF IInv, TypeOK
  <2>3. "deliver" \in Stage \ {"idle"} /\ req[r].at # "idle"
    BY <1>0 DEF Stage
  <2>4. /\ req' \in [Requests -> Request] /\ req'[r].at = "deliver"
        /\ req'[r].sig = x /\ req'[r].player = req[r].player
        /\ req'[r].endpoint = req[r].endpoint /\ req'[r].read = req[r].read
        /\ \A q \in Requests \ {r} : req'[q] = req[q]
    BY <2>1, <2>3, AdvanceEffect
  <2>5. Accepted(r) /\ ReadRecently(r)
    BY <1>0 DEF IInv, RequestInv
  <2>6. consumed[x] = 0
    <3>1. consumed[x] \in Nat /\ ~(consumed[x] > 0)
      BY <1>0, <1>2, <2>2, ConsumedKeysAreTaken DEF IInv, TypeOK
    <3>2. QED
      BY <3>1
  <2>7. /\ consumed'[x] = 1 /\ consumed' \in [Payments -> Nat]
        /\ \A y \in Payments : y # x => consumed'[y] = consumed[y]
    BY <2>1, <2>2, <2>6 DEF IInv, TypeOK
  <2>8. TypeOK'
    BY <1>0, <2>1, <2>2, <2>4, <2>7, PaymentsAssumption DEF IInv, TypeOK
  <2>9. ConsumedOnce'
    BY <2>7 DEF IInv, ConsumedOnce
  <2>10. NonceOncePerWindow'
    <3>1. ASSUME NEW y \in Payments, SameNonce(x, y) \/ SameNonce(y, x), consumed[y] > 0
          PROVE  block[x] - block[y] >= Ttl - (MaxAge + MaxAhead + Patience)
      <4>1. KeyOf(y, MemoEndpoint[y]) = k
        BY <2>5, <3>1 DEF SameNonce, KeyOf, Accepted
      <4>2. QED
        BY <1>0, <1>2, <3>1, <4>1, ConsumedKeysAreTaken
    <3>2. ASSUME NEW y \in Payments, NEW z \in Payments, SameNonce(y, z),
                 consumed'[y] > 0, consumed'[z] > 0
          PROVE  \/ block[z] - block[y] >= Ttl - (MaxAge + MaxAhead + Patience)
                 \/ block[y] - block[z] >= Ttl - (MaxAge + MaxAhead + Patience)
      <4>1. y # z
        BY <3>2 DEF SameNonce
      <4>2. CASE y = x
        BY <2>7, <3>1, <3>2, <4>1, <4>2
      <4>3. CASE z = x
        BY <2>7, <3>1, <3>2, <4>1, <4>3
      <4>4. CASE y # x /\ z # x
        BY <2>7, <3>2, <4>4 DEF IInv, NonceOncePerWindow
      <4>5. QED
        BY <4>2, <4>3, <4>4
    <3>3. QED
      BY <1>0, <3>2 DEF NonceOncePerWindow, SameNonce
  <2>11. ServedAsPaid'
    <3>1. \A t \in served : t[1] \in Payments /\ t[1] # x
      BY <2>6 DEF IInv, TypeOK, ServedAsPaid
    <3>2. \A q \in Requests : req[q].at = "deliver" => req[q].sig # x
      BY <2>6 DEF IInv, RequestInv
    <3>3. \A t \in served : consumed'[t[1]] = consumed[t[1]]
      BY <2>7, <3>1
    <3>4. \A q \in Requests : req'[q].at = "deliver" =>
            /\ \A t \in served : t[1] # req'[q].sig
            /\ \A q2 \in Requests : req'[q2].at = "deliver" /\ req'[q2].sig = req'[q].sig => q2 = q
      BY <2>4, <3>1, <3>2 DEF IInv, ServedAsPaid
    <3>5. QED
      BY <1>0, <3>3, <3>4 DEF IInv, ServedAsPaid
  <2>12. ASSUME NEW q \in Requests PROVE RequestInv(q)'
    <3>1. CASE q = r
      BY <1>0, <2>4, <2>5, <2>7, <3>1 DEF RequestInv, Accepted
    <3>2. CASE q # r
      <4>1. req'[q] = req[q] /\ RequestInv(q)
        BY <2>4, <3>2 DEF IInv
      <4>2. req[q].at = "deliver" => consumed'[req[q].sig] = 1
        <5>1. req[q].at = "deliver" => consumed[req[q].sig] = 1 /\ req[q].sig \in Payments
          BY <4>1, RequestFields DEF RequestInv, IInv
        <5>2. QED
          BY <5>1, <2>6, <2>7
      <4>3. QED
        BY <1>0, <4>1, <4>2 DEF RequestInv, Accepted, ReadRecently
    <3>3. QED
      BY <3>1, <3>2
  <2>13. ASSUME NEW y \in Payments PROVE KeysOutliveProof(y)'
    <3>1. /\ block[x] \in Nat /\ block[x] <= now + MaxAhead
          /\ MemoEndpoint[x] = req[r].endpoint
      BY <2>2, <2>5, PaymentsAssumption DEF Accepted, ReadRecently, IInv, TypeOK
    <3>2. CASE y = x
      <4>1. sigUntil'[x] = now + Ttl /\ nonceUntil'[k] = now + Ttl
        BY <2>1, <2>2 DEF IInv, TypeOK
      <4>2. KeyOf(x, MemoEndpoint[x]) = k
        BY <3>1
      <4>3. now + Ttl >= block[x] + Ttl - MaxAhead
        BY <2>2, <3>1, PaymentsAssumption
      <4>4. QED
        BY <1>0, <3>1, <3>2, <4>1, <4>2, <4>3 DEF KeysOutliveProof, KeyOf
    <3>3. CASE y # x
      <4> DEFINE ky == KeyOf(y, MemoEndpoint[y])
      <4>1. ky \in NonceKey
        BY KeyOfIsKey, PaymentsAssumption
      <4>2. sigUntil'[y] = sigUntil[y] /\ consumed'[y] = consumed[y]
        BY <2>1, <2>7, <3>3 DEF IInv, TypeOK
      <4>3. nonceUntil'[ky] = IF ky = k THEN now + Ttl ELSE nonceUntil[ky]
        BY <2>1, <4>1 DEF IInv, TypeOK
      <4>4. nonceUntil[ky] \in Nat /\ nonceUntil[k] \in Nat /\ nonceUntil[k] <= now
        BY <1>2, <2>2, <4>1 DEF IInv, TypeOK, KeysFree, Taken
      <4>5. nonceUntil'[ky] >= nonceUntil[ky] /\ nonceUntil'[ky] \in Nat
        BY <2>2, <4>3, <4>4, PaymentsAssumption
      <4>6. ASSUME consumed[y] > 0
            PROVE  /\ block[y] \in Nat
                   /\ sigUntil[y] >= block[y] + Ttl - MaxAhead
                   /\ nonceUntil[ky] >= block[y] + Ttl - MaxAhead
        BY <4>6 DEF IInv, TypeOK, KeysOutliveProof
      <4>7. consumed[y] > 0 => nonceUntil'[ky] >= block[y] + Ttl - MaxAhead
        BY <4>4, <4>5, <4>6, PaymentsAssumption
      <4>8. KeyOf(y, MemoEndpoint[y])' = ky
        BY DEF KeyOf
      <4>9. QED
        BY <1>0, <4>2, <4>6, <4>7, <4>8 DEF KeysOutliveProof
    <3>4. QED
      BY <3>2, <3>3
  <2>14. QED
    BY <2>8, <2>9, <2>10, <2>11, <2>12, <2>13 DEF IInv
<1>3. QED
  BY <1>1, <1>2

LEMMA DeliverKeepsInv ==
  ASSUME IInv, NEW r \in Requests, Deliver(r)
  PROVE  IInv'
<1> DEFINE t0 == <<req[r].sig, req[r].player, req[r].endpoint>>
<1>0. /\ redisUp' \in BOOLEAN /\ UNCHANGED <<now, block, storeVars, consumed>>
      /\ req[r].at = "deliver" /\ Answer(r)
  BY DEF Deliver, IInv, TypeOK
<1>1. CASE UNCHANGED served
  BY <1>0, <1>1, AnswerKeepsInv DEF historyVars
<1>2. CASE served' = served \cup {t0}
  <2>1. /\ req' \in [Requests -> Request] /\ req'[r].at = "idle"
        /\ \A q \in Requests \ {r} : req'[q] = req[q]
    BY <1>0, AnswerEffect
  <2>2. t0 \in Payments \X Players \X Endpoints
    BY <1>0, RequestFields DEF IInv
  <2>3. TypeOK'
    BY <1>0, <1>2, <2>1, <2>2 DEF IInv, TypeOK, storeVars
  <2>4. ConsumedOnce' /\ NonceOncePerWindow'
    BY <1>0 DEF IInv, ConsumedOnce, NonceOncePerWindow
  <2>5. ServedAsPaid'
    <3>1. /\ Payer[t0[1]] = t0[2] /\ MemoEndpoint[t0[1]] = t0[3]
          /\ Sound[t0[1]] /\ consumed[t0[1]] > 0
      BY <1>0 DEF IInv, RequestInv, Accepted
    <3>2. \A t \in served : t[1] # t0[1]
      BY <1>0 DEF IInv, ServedAsPaid
    <3>3. \A q \in Requests : req'[q].at = "deliver" =>
            req'[q] = req[q] /\ req[q].sig # t0[1]
      BY <1>0, <2>1 DEF IInv, ServedAsPaid
    <3>4. \A t \in served' : /\ Payer[t[1]] = t[2] /\ MemoEndpoint[t[1]] = t[3]
                             /\ Sound[t[1]] /\ consumed'[t[1]] > 0
      BY <1>0, <1>2, <3>1 DEF IInv, ServedAsPaid
    <3>5. \A t, u \in served' : t[1] = u[1] => t = u
      BY <1>2, <3>2 DEF IInv, ServedAsPaid
    <3>6. \A q \in Requests : req'[q].at = "deliver" =>
            /\ \A t \in served' : t[1] # req'[q].sig
            /\ \A q2 \in Requests : req'[q2].at = "deliver" /\ req'[q2].sig = req'[q].sig => q2 = q
      BY <1>2, <3>3 DEF IInv, ServedAsPaid
    <3>7. QED
      BY <3>4, <3>5, <3>6 DEF ServedAsPaid
  <2>6. ASSUME NEW q \in Requests PROVE RequestInv(q)'
    BY <1>0, <2>1, RequestInvKept, IdleRequestInv DEF IInv
  <2>7. \A x \in Payments : KeysOutliveProof(x)'
    BY <1>0 DEF IInv, KeysOutliveProof, KeyOf, storeVars
  <2>8. QED
    BY <2>3, <2>4, <2>5, <2>6, <2>7 DEF IInv
<1>3. QED
  BY <1>1, <1>2 DEF Deliver

LEMMA RestartKeepsInv ==
  ASSUME IInv, Restart
  PROVE  IInv'
<1>1. /\ \A r \in Requests : req'[r].at = "idle"
      /\ req' \in [Requests -> Request] /\ redisUp' \in BOOLEAN
  BY DEF Restart, IInv, TypeOK, Idle, Request
<1>2. \A r \in Requests : RequestInv(r)'
  BY <1>1, IdleRequestInv
<1>3. QED
  BY <1>1, <1>2, RequestStepKeepsInv DEF Restart

LEMMA ToggleRedisKeepsInv ==
  ASSUME IInv, ToggleRedis
  PROVE  IInv'
<1>1. req' \in [Requests -> Request] /\ redisUp' \in BOOLEAN
  BY DEF ToggleRedis, IInv, TypeOK
<1>2. \A r \in Requests : RequestInv(r)'
  BY RequestInvKept DEF ToggleRedis, IInv, historyVars
<1>3. QED
  BY <1>1, <1>2, RequestStepKeepsInv DEF ToggleRedis

LEMMA TickKeepsInv ==
  ASSUME IInv, Tick
  PROVE  IInv'
<1> USE DEF Tick, storeVars, historyVars
<1>1. TypeOK'
  BY DEF IInv, TypeOK
<1>2. ConsumedOnce' /\ NonceOncePerWindow' /\ ServedAsPaid'
  BY ServedAsPaidKept DEF IInv, ConsumedOnce, NonceOncePerWindow
<1>3. ASSUME NEW r \in Requests PROVE RequestInv(r)'
  <2>1. CASE req[r].at \in {"nonce", "consume"}
    <3>1. /\ req[r].read \in Nat /\ now \in Nat /\ now < req[r].read + Patience
          /\ ReadRecently(r) /\ Accepted(r)
      BY <2>1, RequestFields DEF IInv, TypeOK, RequestInv
    <3>2. ReadRecently(r)' /\ Accepted(r)'
      BY <3>1, PaymentsAssumption DEF ReadRecently, Accepted
    <3>3. QED
      BY <2>1, <3>2 DEF RequestInv
  <2>2. CASE req[r].at \notin {"nonce", "consume"}
    BY <2>2 DEF IInv, RequestInv, Accepted
  <2>3. QED
    BY <2>1, <2>2
<1>4. \A x \in Payments : KeysOutliveProof(x)'
  BY DEF IInv, KeysOutliveProof, KeyOf
<1>5. QED
  BY <1>1, <1>2, <1>3, <1>4 DEF IInv

LEMMA StutterKeepsInv ==
  ASSUME IInv, UNCHANGED vars
  PROVE  IInv'
<1> USE DEF vars, storeVars, historyVars
<1>1. req' \in [Requests -> Request] /\ redisUp' \in BOOLEAN
  BY DEF IInv, TypeOK
<1>2. \A r \in Requests : RequestInv(r)'
  BY RequestInvKept DEF IInv
<1>3. QED
  BY <1>1, <1>2, RequestStepKeepsInv

THEOREM NextKeepsIInv == IInv /\ [Next]_vars => IInv'
<1> SUFFICES ASSUME IInv, [Next]_vars PROVE IInv'
  OBVIOUS
<1>1. CASE \E x \in Payments, t \in now..(now + MaxAhead + 1) : Pay(x, t)
  BY <1>1, PayKeepsInv
<1>2. CASE \E r \in Requests, p \in Players, e \in Endpoints, x \in Payments :
             Arrive(r, p, e, x)
  BY <1>2, ArriveKeepsInv
<1>3. CASE \E r \in Requests :
             CheckSignature(r) \/ ReadTransaction(r) \/ CheckNonce(r)
  BY <1>3, CheckSignatureKeepsInv, ReadTransactionKeepsInv, CheckNonceKeepsInv
<1>4. CASE \E r \in Requests : ConsumePayment(r) \/ Deliver(r)
  BY <1>4, ConsumePaymentKeepsInv, DeliverKeepsInv
<1>5. CASE Restart \/ ToggleRedis \/ Tick
  BY <1>5, RestartKeepsInv, ToggleRedisKeepsInv, TickKeepsInv
<1>6. CASE UNCHANGED vars
  BY <1>6, StutterKeepsInv
<1>7. QED
  BY <1>1, <1>2, <1>3, <1>4, <1>5, <1>6 DEF Next

THEOREM PaymentsInvariant == Spec => []IInv
BY InitIInv, NextKeepsIInv, PTL DEF Spec

\* The state of the payments always has its type.
THEOREM PaymentsTyped == Spec => []TypeOK
<1>1. IInv => TypeOK
  BY DEF IInv
<1>2. QED
  BY <1>1, PaymentsInvariant, PTL

\* No payment is ever consumed twice: a replayed signature is refused by its key
\* as long as the key lives, and by its age from then on.
THEOREM PaymentsConsumedOnce == Spec => []ConsumedOnce
<1>1. IInv => ConsumedOnce
  BY DEF IInv
<1>2. QED
  BY <1>1, PaymentsInvariant, PTL

\* Payments that share a nonce are consumed only when dated apart.
THEOREM PaymentsNonceOnce == Spec => []NonceOncePerWindow
<1>1. IInv => NonceOncePerWindow
  BY DEF IInv
<1>2. QED
  BY <1>1, PaymentsInvariant, PTL

\* Whoever is served paid for it, and every payment serves once.
THEOREM PaymentsServedAsPaid == Spec => []ServedAsPaid
<1>1. IInv => ServedAsPaid
  BY DEF IInv
<1>2. QED
  BY <1>1, PaymentsInvariant, PTL
=============================================================================

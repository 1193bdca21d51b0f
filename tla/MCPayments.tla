----------------------------- MODULE MCPayments ------------------------------
(***************************************************************************)
(* An instance of Payments for TLC: every payment is alice's, for the AI    *)
(* endpoint and with nonce n1, and bob may try to use it; the times are    *)
(* scaled so that a key expires within the horizon.                        *)
(***************************************************************************)
EXTENDS Payments, TLC

CONSTANTS s1, s2, alice, bob, move, ai, n1, r1, r2

MCPayer == [x \in Payments |-> alice]
MCMemoEndpoint == [x \in Payments |-> ai]
MCNonce == [x \in Payments |-> n1]
MCSound == [x \in Payments |-> TRUE]

RequestSymmetry == Permutations(Requests)
=============================================================================

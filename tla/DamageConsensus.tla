--------------------------- MODULE DamageConsensus ---------------------------
(***************************************************************************)
(* The damage check of the multiplayer server over the rooms of Rooms: the *)
(* host of a room reports the damage of a round, the others claim what they*)
(* computed, in any order and as often as they like, and a disagreement is *)
(* broadcast and logged instead of the result.  Claims are kept by duel and*)
(* round, not by room, and forgotten five minutes after the last.          *)
(*                                                                         *)
(* Both deltas of a claim are one value.  Which of several claims that     *)
(* disagree with the host is put in the log is left out, so the order in   *)
(* which the claims are kept is.                                           *)
(***************************************************************************)
EXTENDS Rooms

CONSTANTS
  Keys,           \* duel_id:round
  Deltas

ASSUME ConsensusAssumption == None \notin [delta : Deltas, host : Clients]

VARIABLES
  claims,         \* roundClaims: what each player last sent for a key, and,
                  \* history, who hosted the room it was sent in
  violations      \* violationLog, as <<key, hostId, hostDelta>>

claimVars == <<claims, violations>>
vars == <<roomVars, claimVars>>

Claim == [delta : Deltas, host : Clients]
NoClaims == [c \in Clients |-> None]

ConsensusInit ==
  /\ Init
  /\ claims = [k \in Keys |-> NoClaims]
  /\ violations = {}

-----------------------------------------------------------------------------
Store(k, c, d) ==
  claims' = [claims EXCEPT ![k][c] = [delta |-> d, host |-> Host(c)]]

\* _checkConsensus of the host's delta with the others'; TRUE for a mismatch.
Disagrees(d, others) == \E x \in others : x # None /\ x.delta # d

Others(k, c) == {claims[k][x] : x \in Clients \ {c}}

\* (Mutant of DuelDamageClaim: a claim is stored and left for the host's report
\* to find.)
ClaimUnchecked(c, k, d) ==
  /\ Open(c) /\ HasRoom(c) /\ Host(c) # c
  /\ Store(k, c, d)
  /\ UNCHANGED <<roomVars, violations>>

\* duel_damage_claim, from anybody but the host of the room.
DuelDamageClaim(c, k, d) ==
  /\ Open(c) /\ HasRoom(c) /\ Host(c) # c
  /\ Store(k, c, d)
  /\ LET hostClaim == claims[k][Host(c)] IN
     violations' = IF hostClaim # None /\ hostClaim.delta # d
                     THEN violations \cup {<<k, Host(c), hostClaim.delta>>}
                     ELSE violations
  /\ UNCHANGED roomVars

\* duel_battle_resolved, from the host: the result is broadcast unless a claim
\* disagrees.
DuelBattleResolved(c, k, d) ==
  /\ Open(c) /\ HasRoom(c) /\ Host(c) = c
  /\ Store(k, c, d)
  /\ violations' = IF Disagrees(d, Others(k, c))
                     THEN violations \cup {<<k, c, d>>} ELSE violations
  /\ UNCHANGED roomVars

\* gcRoundClaims, five minutes after the last claim for the key.
GcRoundClaims(k) ==
  /\ claims[k] # NoClaims
  /\ claims' = [claims EXCEPT ![k] = NoClaims]
  /\ UNCHANGED <<roomVars, violations>>

Next ==
  \/ RoomNext /\ UNCHANGED claimVars
  \/ \E c \in Clients, k \in Keys, d \in Deltas :
       DuelDamageClaim(c, k, d) \/ DuelBattleResolved(c, k, d)
  \/ \E k \in Keys : GcRoundClaims(k)

Spec == ConsensusInit /\ [][Next]_vars

-----------------------------------------------------------------------------
(***************************************************************************)
(* Properties.                                                             *)
(***************************************************************************)

\* sync.js, header: "both host and non-host submit their computed p1/p2 HP
\* deltas; mismatch triggers duel_violation broadcast".  While both are
\* remembered, no claim sent to a host's room differs from what that host
\* reported without the report being in the log, whichever came first, whatever
\* was sent again since, and whatever rooms the two went to in between.
MismatchIsLogged ==
  \A k \in Keys, h, c \in Clients :
    LET report == claims[k][h]  claim == claims[k][c] IN
    /\ report # None /\ report.host = h
    /\ claim # None /\ claim.host = h
    /\ claim.delta # report.delta
    => <<k, h, report.delta>> \in violations
=============================================================================

----------------------------- MODULE EnergyMath -----------------------------
(***************************************************************************)
(* The pure energy arithmetic of refill_energy.rs: natural regeneration on *)
(* a clock and the spend that enters a player into a duel.  Timestamps are *)
(* naturals; an account is a record [energy, anchor] where anchor is the   *)
(* code's last_energy_regen_at.                                            *)
(***************************************************************************)
EXTENDS Integers

CONSTANTS
  EnergyMax,      \* ENERGY_MAX, the cap on a player's energy (5 in the code)
  RegenInterval   \* ENERGY_REGEN_INTERVAL_SECONDS, the time of one point (4h)

ASSUME EnergyAssumption ==
  /\ EnergyMax \in Nat \ {0}
  /\ RegenInterval \in Nat \ {0}

\* regenerated_energy: settle the whole intervals since the anchor.  A full
\* account restarts its clock; a partial gain moves the anchor by exactly the
\* intervals it consumed, so the remainder counts towards the next point.
RegeneratedEnergy(energy, lastRegenAt, now) ==
  LET gained == (now - lastRegenAt) \div RegenInterval IN
  IF energy >= EnergyMax
    THEN [energy |-> EnergyMax, anchor |-> now]
  ELSE IF now <= lastRegenAt \/ gained = 0
    THEN [energy |-> energy, anchor |-> lastRegenAt]
  ELSE IF energy + gained >= EnergyMax
    THEN [energy |-> EnergyMax, anchor |-> now]
  ELSE [energy |-> energy + gained,
        anchor |-> lastRegenAt + gained * RegenInterval]

\* settle_and_spend returns None when energy is short after regeneration ...
CanSpend(energy, lastRegenAt, now, cost) ==
  RegeneratedEnergy(energy, lastRegenAt, now).energy >= cost

\* ... and otherwise the settled energy less the cost, the anchor set to now.
SettleAndSpend(energy, lastRegenAt, now, cost) ==
  [energy |-> RegeneratedEnergy(energy, lastRegenAt, now).energy - cost,
   anchor |-> now]
=============================================================================

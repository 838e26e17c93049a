-------------------------------- MODULE Tiers --------------------------------
(***************************************************************************)
(* The rows published for each scrape tier (discover.go, scan.go).  A row  *)
(* is a target with the modules of one tier; the aliases and the modules   *)
(* of the other tiers are not in it.                                       *)
(***************************************************************************)
EXTENDS Sequences

CONSTANT EnabledTiers    \* --tiers, after ParseEnabledTiers

AllTiers == {"hot", "cold", "topology"}

ASSUME TiersAssumption == EnabledTiers \subseteq AllTiers /\ EnabledTiers # {}

Row(target, tier) ==
  [target EXCEPT !.name = Append(@, tier), !.tiers = {tier}, !.aliases = {}]

\* TierTargets: one row per target that has a module for the tier.
TierTargets(targets, tier) ==
  [a \in {b \in DOMAIN targets : tier \in targets[b].tiers} |-> Row(targets[a], tier)]

\* The YAML list of a tier; the list of a disabled tier is written as [].
TierFile(targets, tier) ==
  IF tier \in EnabledTiers THEN TierTargets(targets, tier) ELSE [a \in {} |-> a]

\* TargetsForTiers: the rows of every enabled tier, for file_sd and /sd/prometheus.
TargetsForTiers(targets) == [tier \in EnabledTiers |-> TierTargets(targets, tier)]
=============================================================================

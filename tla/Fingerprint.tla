----------------------------- MODULE Fingerprint -----------------------------
(***************************************************************************)
(* Which SNMP modules a device gets, and in which scrape tier              *)
(* (snmpdiscovery/fingerprint.go).  A module list is a set: its order and  *)
(* repetitions are layout.  A chain is a record                            *)
(*   [hot, cold, topology, modules]                                        *)
(* of the tiered lists and the legacy list of a matcher or of the          *)
(* defaults; a matcher adds the label it reads and the values its regular  *)
(* expression accepts; a fingerprinter is [matchers, default].             *)
(***************************************************************************)
EXTENDS Integers, Sequences, FiniteSets, FiniteSetsExt

CONSTANT TopologyModules    \* the module names isTopologyModule accepts

\* The interface modules, and the slow half that goes with each.
MetaOf == [if_mib |-> "if_mib_meta", if32_mib |-> "if32_mib_meta"]

HasTier(chain) == chain.hot \cup chain.cold \cup chain.topology # {}

\* partitionLegacyModules: a combined list is split by the names in it.
PartitionLegacy(mods) ==
  LET hot  == mods \cap DOMAIN MetaOf
      meta == {MetaOf[m] : m \in hot}
      topo == (mods \ (hot \cup meta)) \cap TopologyModules
  IN  [hot |-> hot, cold |-> meta \cup (mods \ (hot \cup topo)), topology |-> topo]

TiersOf(chain) ==
  IF HasTier(chain)
  THEN [hot |-> chain.hot, cold |-> chain.cold, topology |-> chain.topology]
  ELSE PartitionLegacy(chain.modules)

\* An empty label matches nothing, whatever the expression accepts.
MatcherHit(m, labels) == labels[m.label] # "" /\ labels[m.label] \in m.values

\* Mutant: the last matcher that hits decides.
MatchTiersLast(fp, labels) ==
  LET hits == {i \in DOMAIN fp.matchers : MatcherHit(fp.matchers[i], labels)}
  IN  IF hits # {} THEN [tiers |-> TiersOf(fp.matchers[Max(hits)]), kind |-> "known"]
      ELSE [tiers |-> TiersOf(fp.default), kind |-> "unknown"]

\* MatchTiersResult: the first matcher that hits, else the default chain.
MatchTiers(fp, labels) ==
  LET hits == {i \in DOMAIN fp.matchers : MatcherHit(fp.matchers[i], labels)}
  IN  IF hits # {} THEN [tiers |-> TiersOf(fp.matchers[Min(hits)]), kind |-> "known"]
      ELSE [tiers |-> TiersOf(fp.default), kind |-> "unknown"]

ModulesIn(tiers) == tiers.hot \cup tiers.cold \cup tiers.topology

\* filterTiersToKnown: an empty library means that nothing is filtered.
FilterToKnown(tiers, library) ==
  IF library = {} THEN [tiers |-> tiers, dropped |-> {}]
  ELSE [tiers |-> [t \in DOMAIN tiers |-> tiers[t] \cap library],
        dropped |-> ModulesIn(tiers) \ library]
=============================================================================

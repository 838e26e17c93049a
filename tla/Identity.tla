------------------------------ MODULE Identity ------------------------------
(***************************************************************************)
(* From probe answers to the identities of one scan: overrides, one        *)
(* identity per sysName, unique scrape-target names.                       *)
(* A list of targets is a function from addresses to targets: planning     *)
(* claims each address once, so a scan never answers for it twice          *)
(* (dedupeTargets then has nothing to remove).  A target is a record       *)
(*   name     scrape-target name, the sequence of its parts between "-"    *)
(*   host     device_name, NoHost when it is the address itself            *)
(*   group    name of the discovery group that probed it                   *)
(*   tiers    the scrape tiers for which it has a module                   *)
(*   aliases  addresses folded into it                                     *)
(***************************************************************************)
EXTENDS Integers, FiniteSets, SequencesExt

CONSTANTS
  NoHost,                  \* device_name is empty or an IP address
  NoName,                  \* an override that pins no name
  Rank,                    \* position of each address under netip.Addr.Compare
  TextRank,                \* and under the comparison of address texts
  AllowDuplicateSysName    \* --allow-duplicate-sysname

-----------------------------------------------------------------------------
(* Overrides: [addr, ignore, name, pins, chain].  `pins' are the tiers set *)
(* by module_hot / module_cold / module_topology, `chain' the tiers the    *)
(* legacy `module' list is partitioned into.                               *)

IgnoredAddresses(overrides) ==
  {overrides[i].addr : i \in {k \in DOMAIN overrides : overrides[k].ignore}}

\* The override that counts for an address is the last one in the list.
Overridden(overrides) == {overrides[i].addr : i \in DOMAIN overrides}
OverrideOf(overrides, a) ==
  overrides[Max({i \in DOMAIN overrides : overrides[i].addr = a})]

ModulesUnder(tiers, o) ==
  IF o.pins # {}
  THEN tiers \cup o.pins \cup (IF o.chain # {} THEN {"hot"} ELSE {})
  ELSE IF o.chain # {} THEN o.chain ELSE tiers

ApplyOverride(target, o) ==
  LET named == IF o.name = NoName THEN target
               ELSE [target EXCEPT !.name = o.name, !.host = o.name]
  IN  [named EXCEPT !.tiers = ModulesUnder(@, o)]

ApplyOverrides(found, overrides) ==
  LET touched == Overridden(overrides)
      kept == {a \in DOMAIN found :
                 a \in touched => ~OverrideOf(overrides, a).ignore}
  IN  [a \in kept |-> IF a \in touched
                      THEN ApplyOverride(found[a], OverrideOf(overrides, a))
                      ELSE found[a]]

-----------------------------------------------------------------------------
\* Addresses of the same scan that carry the hostname of a.
Twins(found, a) ==
  {b \in DOMAIN found : found[b].host = found[a].host /\ found[a].host # NoHost}

\* Mutants: hostnames are returned for addresses; the flag is read the wrong way.
CollapsedHosts(found) ==
  {found[a].host : a \in {b \in DOMAIN found : Cardinality(Twins(found, b)) > 1}}
CollapsedInverted(found) ==
  IF AllowDuplicateSysName
  THEN {a \in DOMAIN found : \E b \in Twins(found, a) : Rank[b] < Rank[a]} ELSE {}

\* collapseSameHostname: every address but the lowest of its hostname.
Collapsed(found) ==
  IF AllowDuplicateSysName THEN {}
  ELSE {a \in DOMAIN found : \E b \in Twins(found, a) : Rank[b] < Rank[a]}

\* The winner keeps its target and records the addresses it stands for.
Collapse(found) ==
  LET lost(a) == Twins(found, a) \cap Collapsed(found)
  IN  [a \in DOMAIN found \ Collapsed(found) |->
         [found[a] EXCEPT !.aliases =
            @ \cup lost(a) \cup UNION {found[b].aliases : b \in lost(a)}]]

-----------------------------------------------------------------------------
\* An assignment to an entry of a Go map.
EmptyMap == [x \in {} |-> x]
Put(map, key, value) ==
  [k \in DOMAIN map \cup {key} |-> IF k = key THEN value ELSE map[k]]

\* uniquifyNames takes the targets in the given order: a name owned by another
\* address gets the address as suffix, and becomes the bare address when even
\* that is taken.  `owner' maps the names given so far to their addresses.
TakenBy(owner, name, a) == name \in DOMAIN owner /\ owner[name] # a

UniqueName(owner, name, a) ==
  LET suffixed == IF TakenBy(owner, name, a) THEN Append(name, a) ELSE name
  IN  IF TakenBy(owner, suffixed, a) THEN <<a>> ELSE suffixed

Give(given, name, a) ==
  LET unique == UniqueName(given.owner, name, a)
  IN  [owner |-> Put(given.owner, unique, a), names |-> Put(given.names, a, unique)]

UniqueNames(targets, order) ==
  LET upto[n \in 0..Len(order)] ==
        IF n = 0 THEN [owner |-> EmptyMap, names |-> EmptyMap]
        ELSE Give(upto[n - 1], targets[order[n]].name, order[n])
  IN  upto[Len(order)].names

UniquifyNames(targets, order) ==
  LET names == UniqueNames(targets, order)
  IN  [a \in DOMAIN targets |-> [targets[a] EXCEPT !.name = names[a]]]

\* sort.Slice on the address texts, which is not the numeric order of Rank.
ByAddress(targets) ==
  LET place(a) == Cardinality({b \in DOMAIN targets : TextRank[b] <= TextRank[a]})
  IN  [i \in 1 .. Cardinality(DOMAIN targets) |->
         CHOOSE a \in DOMAIN targets : place(a) = i]
=============================================================================

----------------------------- MODULE Scan_proofs -----------------------------
(***************************************************************************)
(* What a scan plans, merges and publishes: which addresses it probes, and *)
(* what the catalogue and the files say of each device afterwards, its     *)
(* aliases, its identity, its group and its name, and the agreement of the *)
(* files with the catalogue.                                               *)
(***************************************************************************)
EXTENDS Discovery_proofs, Numbers_proofs, FiniteSetTheorems

-----------------------------------------------------------------------------
(* What a pass makes of the probe answers.                                 *)

\* A probe answer, as the workers build it and every later step keeps it.
IsTarget(t) == DOMAIN t = {"name", "host", "group", "tiers", "aliases"}

Unaliased(targets) ==
  \A a \in DOMAIN targets : IsTarget(targets[a]) /\ targets[a].aliases = {}

\* An override changes the name, the hostname and the modules of a target.
LEMMA OverrideKeeps ==
  ASSUME NEW t, IsTarget(t), NEW o
  PROVE  /\ IsTarget(ApplyOverride(t, o))
         /\ ApplyOverride(t, o).group = t.group
         /\ ApplyOverride(t, o).aliases = t.aliases
BY DEF IsTarget, ApplyOverride

\* The override that counts for an address is one that names it.
LEMMA OverridesFind ==
  ASSUME NEW c \in Configs, NEW a \in Overridden(c.overrides)
  PROVE  \E i \in DOMAIN c.overrides :
           OverrideOf(c.overrides, a) = c.overrides[i] /\ c.overrides[i].addr = a
<1> DEFINE naming == {i \in DOMAIN c.overrides : c.overrides[i].addr = a}
<1>1. naming # {} /\ naming \subseteq 0..Len(c.overrides) /\ Len(c.overrides) \in Nat
  <2>1. Len(c.overrides) \in Nat /\ DOMAIN c.overrides = 1..Len(c.overrides)
    BY DiscoveryAssumption
  <2> QED
    BY <2>1 DEF Overridden
<1>2. \E n \in naming : \A m \in naming : n >= m
  BY <1>1, GreatestNumber
<1>3. Max(naming) \in naming
  BY <1>2 DEF Max
<1> QED
  BY <1>3 DEF OverrideOf

\* A target that the overrides remove is ignored by one of them.
LEMMA OverridesIgnore ==
  ASSUME NEW c \in Configs, NEW targets
  PROVE  DOMAIN targets \subseteq
           DOMAIN ApplyOverrides(targets, c.overrides) \cup IgnoredAddresses(c.overrides)
<1> SUFFICES ASSUME NEW a \in Overridden(c.overrides), OverrideOf(c.overrides, a).ignore
             PROVE  a \in IgnoredAddresses(c.overrides)
  BY DEF ApplyOverrides
<1> QED
  BY OverridesFind DEF IgnoredAddresses

LEMMA OverridesKeep ==
  ASSUME NEW targets, Unaliased(targets), NEW overrides
  PROVE  /\ Unaliased(ApplyOverrides(targets, overrides))
         /\ \A a \in DOMAIN ApplyOverrides(targets, overrides) :
              a \in DOMAIN targets /\ ApplyOverrides(targets, overrides)[a].group = targets[a].group
BY OverrideKeeps DEF ApplyOverrides, Unaliased

\* The winners of the collapse are the targets they were, and the addresses
\* they stand for are the ones that lost.
LEMMA CollapseKeeps ==
  ASSUME NEW targets, Unaliased(targets), NEW a \in DOMAIN Collapse(targets)
  PROVE  /\ a \in DOMAIN targets \ Collapsed(targets)
         /\ IsTarget(Collapse(targets)[a])
         /\ Collapse(targets)[a].host = targets[a].host
         /\ Collapse(targets)[a].group = targets[a].group
         /\ Collapse(targets)[a].aliases \subseteq Collapsed(targets)
         /\ Twins(targets, a) \cap Collapsed(targets) \subseteq Collapse(targets)[a].aliases
<1> DEFINE lost == Twins(targets, a) \cap Collapsed(targets)
           gathered == lost \cup UNION {targets[b].aliases : b \in lost}
<1>1. a \in DOMAIN targets \ Collapsed(targets)
  BY DEF Collapse
<1>2. Collapse(targets)[a] = [targets[a] EXCEPT !.aliases = @ \cup gathered]
  <2>1. Collapse(targets)[a] =
         [targets[a] EXCEPT !.aliases = @ \cup lost \cup UNION {targets[b].aliases : b \in lost}]
    BY <1>1 DEF Collapse
  <2> QED
    BY <2>1, <1>1 DEF Unaliased, IsTarget
<1>3. gathered \subseteq Collapsed(targets) /\ lost \subseteq gathered
  BY DEF Unaliased, Twins
<1> HIDE DEF gathered
<1> QED
  BY <1>1, <1>2, <1>3 DEF Unaliased, IsTarget

\* No two winners have the same hostname: of two twins the one with the higher
\* address is collapsed.
LEMMA WinnersDiffer ==
  ASSUME NEW targets, DOMAIN targets \subseteq Addr, ~AllowDuplicateSysName,
         NEW a \in DOMAIN targets \ Collapsed(targets),
         NEW b \in DOMAIN targets \ Collapsed(targets),
         targets[a].host = targets[b].host, targets[a].host # NoHost
  PROVE  a = b
<1>1. a \in Twins(targets, b) /\ b \in Twins(targets, a)
  BY DEF Twins
<1>2. ~ (Rank[a] < Rank[b]) /\ ~ (Rank[b] < Rank[a])
  BY <1>1 DEF Collapsed
<1> QED
  BY <1>2, DiscoveryAssumption

\* A nonempty set of addresses has a lowest one.
LEMMA LowestAddress ==
  ASSUME NEW S, S \subseteq Addr, S # {}
  PROVE  \E a \in S : \A b \in S : ~ (Rank[b] < Rank[a])
<1> DEFINE below(a) == {b \in S : Rank[b] < Rank[a]}
           sizes == {Cardinality(below(a)) : a \in S}
<1>1. \A a \in S : Rank[a] \in Int
  BY DiscoveryAssumption
<1>2. \A a \in S : IsFiniteSet(below(a)) /\ Cardinality(below(a)) \in Nat
  BY FS_Subset, FS_CardinalityType, DiscoveryAssumption
<1>3. PICK a \in S : \A b \in S : Cardinality(below(a)) <= Cardinality(below(b))
  <2>1. sizes \subseteq Nat /\ sizes # {}
    BY <1>2
  <2> HIDE DEF below
  <2>2. PICK n \in sizes : \A m \in sizes : n <= m
    <3> HIDE DEF sizes
    <3> QED
      BY <2>1, LeastNumber
  <2> QED
    BY <2>2
<1>4. ASSUME NEW b \in S, Rank[b] < Rank[a]
      PROVE  FALSE
  <2>1. below(b) \subseteq below(a) /\ b \in below(a) /\ b \notin below(b)
    BY <1>1, <1>4
  <2> HIDE DEF below
  <2>2. Cardinality(below(b)) < Cardinality(below(a))
    <3>1. below(b) # below(a)
      BY <2>1
    <3>2. Cardinality(below(b)) <= Cardinality(below(a)) /\ Cardinality(below(b)) # Cardinality(below(a))
      BY <1>2, <2>1, <3>1, FS_Subset
    <3> QED
      BY <1>2, <3>2
  <2> QED
    BY <1>2, <1>3, <2>2
<1> QED
  BY <1>3, <1>4

\* Every address that is collapsed is a twin of one that is not.
LEMMA LosersHaveWinners ==
  ASSUME NEW targets, DOMAIN targets \subseteq Addr, NEW a \in Collapsed(targets)
  PROVE  \E b \in DOMAIN targets \ Collapsed(targets) : a \in Twins(targets, b)
<1> DEFINE T == Twins(targets, a)
<1>1. a \in DOMAIN targets /\ a \in T /\ T \subseteq DOMAIN targets
  BY DEF Collapsed, Twins
<1>2. PICK b \in T : \A c \in T : ~ (Rank[c] < Rank[b])
  <2> HIDE DEF T
  <2> QED
    BY <1>1, LowestAddress
<1>3. Twins(targets, b) = T /\ b \in DOMAIN targets
  BY <1>2 DEF Twins
<1>4. b \notin Collapsed(targets)
  BY <1>2, <1>3 DEF Collapsed
<1> QED
  BY <1>1, <1>3, <1>4

\* uniquifyNames changes names only.
LEMMA RenamingKeeps ==
  ASSUME NEW targets, NEW order, NEW a \in DOMAIN targets, IsTarget(targets[a])
  PROVE  /\ IsTarget(UniquifyNames(targets, order)[a])
         /\ UniquifyNames(targets, order)[a].host = targets[a].host
         /\ UniquifyNames(targets, order)[a].group = targets[a].group
         /\ UniquifyNames(targets, order)[a].tiers = targets[a].tiers
         /\ UniquifyNames(targets, order)[a].aliases = targets[a].aliases
BY DEF UniquifyNames, IsTarget

\* The catalogue after a pass: an entry with a clean counter was seen by it.
LEMMA FreshWereSeen ==
  ASSUME NEW es, CatalogOK(es), NEW seen, NEW a \in DOMAIN Merged(es, seen)
  PROVE  /\ Merged(es, seen)[a].target = IF a \in DOMAIN seen THEN seen[a] ELSE es[a].target
         /\ a \in DOMAIN seen \cup DOMAIN es
         /\ Merged(es, seen)[a].misses = 0 => a \in DOMAIN seen
<1>1. CASE a \in DOMAIN seen
  BY <1>1 DEF Merged, Fresh
<1>2. CASE a \notin DOMAIN seen
  <2>1. a \in DOMAIN es /\ Merged(es, seen)[a] = Aged(es[a])
    BY <1>2 DEF Merged
  <2>2. es[a].misses \in Nat
    BY <2>1 DEF CatalogOK
  <2> QED
    BY <1>2, <2>1, <2>2 DEF Aged
<1> QED
  BY <1>1, <1>2

-----------------------------------------------------------------------------
(* Every target anywhere has all its fields.                               *)

AllTargets(targets) == \A a \in DOMAIN targets : IsTarget(targets[a])

Shaped ==
  /\ AllTargets(TargetsIn(entries)) /\ AllTargets(TargetsIn(disk["state"]))
  /\ AllTargets(published)
  /\ Unaliased(found) /\ Unaliased(disk["hot"])

\* The rows of the published lists keep the fields, but not the aliases.
LEMMA RowsUnaliased ==
  ASSUME NEW targets, AllTargets(targets), NEW es
  PROVE  Unaliased(Contents(targets, es, "hot"))
BY DEF Contents, AllTiers, TierFile, TierTargets, Row, AllTargets, Unaliased, IsTarget

\* What a pass merges into the catalogue: the addresses it has found, each once
\* per hostname, standing for those it collapses, without those it ignores.
Observed(seen) ==
  /\ DOMAIN seen \subseteq DOMAIN found
  /\ DOMAIN found \subseteq DOMAIN seen \cup folded' \cup IgnoredAddresses(cfg.overrides)
  /\ AllTargets(seen)
  /\ folded' = UNION {seen[a].aliases : a \in DOMAIN seen}
  /\ folded' \subseteq DOMAIN found \ DOMAIN seen
  /\ \A a \in DOMAIN seen : seen[a].group = found[a].group
  /\ ~AllowDuplicateSysName =>
       \A a, b \in DOMAIN seen :
         seen[a].host = seen[b].host /\ seen[a].host # NoHost => a = b

LEMMA MergeObserves ==
  ASSUME TypeOK, Shaped, Merge
  PROVE  \E seen : Observed(seen) /\ entries' = Merged(entries, seen)
<1> DEFINE wanted == ApplyOverrides(found, cfg.overrides)
           unique == Collapse(wanted)
<1>1. PICK order \in SetToSeqs(DOMAIN unique) :
        entries' = Merged(entries, UniquifyNames(unique, order))
  BY DEF Merge, MergeFound
<1> DEFINE seen == UniquifyNames(unique, order)
<1>2. folded' = Collapsed(wanted)
  BY DEF Merge
<1>3. DOMAIN seen = DOMAIN unique
  BY IdentityDomains
<1>4. /\ Unaliased(wanted) /\ DOMAIN wanted \subseteq Addr
      /\ \A a \in DOMAIN wanted : a \in DOMAIN found /\ wanted[a].group = found[a].group
  BY OverridesKeep, IdentityDomains DEF Shaped, TypeOK
<1> HIDE DEF wanted
<1>5. ASSUME NEW a \in DOMAIN unique
      PROVE  /\ a \in DOMAIN wanted \ Collapsed(wanted)
             /\ IsTarget(seen[a])
             /\ seen[a].host = wanted[a].host /\ seen[a].group = wanted[a].group
             /\ seen[a].aliases \subseteq Collapsed(wanted)
             /\ Twins(wanted, a) \cap Collapsed(wanted) \subseteq seen[a].aliases
  <2>1. /\ a \in DOMAIN wanted \ Collapsed(wanted)
        /\ IsTarget(unique[a])
        /\ unique[a].host = wanted[a].host /\ unique[a].group = wanted[a].group
        /\ unique[a].aliases \subseteq Collapsed(wanted)
        /\ Twins(wanted, a) \cap Collapsed(wanted) \subseteq unique[a].aliases
    BY <1>4, CollapseKeeps
  <2> HIDE DEF unique
  <2> QED
    BY <2>1, RenamingKeeps
<1> HIDE DEF seen, unique
<1>6. ASSUME ~AllowDuplicateSysName, NEW a \in DOMAIN seen, NEW b \in DOMAIN seen,
             seen[a].host = seen[b].host, seen[a].host # NoHost
      PROVE  a = b
  BY <1>3, <1>4, <1>5, <1>6, WinnersDiffer
<1>7. DOMAIN found \subseteq DOMAIN seen \cup folded' \cup IgnoredAddresses(cfg.overrides)
  <2>1. DOMAIN found \subseteq DOMAIN wanted \cup IgnoredAddresses(cfg.overrides)
    BY OverridesIgnore DEF wanted, TypeOK
  <2>2. DOMAIN wanted \subseteq DOMAIN unique \cup Collapsed(wanted)
    BY DEF unique, Collapse
  <2> QED
    BY <1>2, <1>3, <2>1, <2>2
<1>8. folded' = UNION {seen[a].aliases : a \in DOMAIN seen}
  <2>1. ASSUME NEW a \in Collapsed(wanted)
        PROVE  \E b \in DOMAIN seen : a \in seen[b].aliases
    <3>1. PICK b \in DOMAIN wanted \ Collapsed(wanted) : a \in Twins(wanted, b)
      BY <1>4, LosersHaveWinners
    <3>2. b \in DOMAIN unique
      BY <3>1 DEF unique, Collapse
    <3> QED
      BY <1>3, <1>5, <3>1, <3>2
  <2> QED
    BY <1>2, <1>3, <1>5, <2>1
<1>9. folded' \subseteq DOMAIN found \ DOMAIN seen
  <2>1. Collapsed(wanted) \subseteq DOMAIN wanted
    BY IdentityDomains
  <2> QED
    BY <1>2, <1>3, <1>4, <1>5, <2>1
<1>10. Observed(seen)
  BY <1>3, <1>4, <1>5, <1>6, <1>7, <1>8, <1>9 DEF Observed, AllTargets
<1> QED
  BY <1>1, <1>10 DEF seen

LEMMA ShapedInit == Init => Shaped
<1> SUFFICES ASSUME Init PROVE Shaped
  OBVIOUS
<1>1. disk["state"] = NoEntries /\ DOMAIN disk["hot"] = {}
  <2>1. DOMAIN Contents(NoTargets, NoEntries, "hot") \subseteq DOMAIN NoTargets
    BY HotContents
  <2> QED
    BY <2>1, HotContents, FilesKnown DEF Init, NoTargets
<1> QED
  BY <1>1 DEF Init, Shaped, AllTargets, Unaliased, TargetsIn, NoEntries, NoTargets

LEMMA ResultsUnaliased == \A answered : Unaliased(Results(answered))
BY DEF Unaliased, Results, Target, IsTarget

LEMMA NothingShaped ==
  AllTargets(TargetsIn(NoEntries)) /\ AllTargets(NoTargets) /\ Unaliased(NoTargets)
BY DEF AllTargets, Unaliased, TargetsIn, NoEntries, NoTargets

LEMMA ShapedStep == TypeOK /\ Shaped /\ [Next]_vars => Shaped'
<1> SUFFICES ASSUME TypeOK, Shaped, [Next]_vars PROVE Shaped'
  OBVIOUS
<1> USE FilesKnown
<1>0. ASSUME UNCHANGED <<entries, published, found, disk>>
      PROVE  Shaped'
  BY <1>0 DEF Shaped, AllTargets, Unaliased, TargetsIn
<1>1. CASE Boot
  <2>1. CASE entries' = disk["state"]
    BY <1>1, <2>1 DEF Boot, Shaped, scanVars, AllTargets, Unaliased, TargetsIn
  <2>2. CASE entries' = [a \in DOMAIN disk["hot"] |-> Fresh(disk["hot"][a])]
    <3>1. TargetsIn(entries') = [a \in DOMAIN disk["hot"] |-> disk["hot"][a]]
      BY <2>2 DEF TargetsIn, Fresh
    <3>2. AllTargets(TargetsIn(entries'))
      BY <3>1 DEF AllTargets, Shaped, Unaliased
    <3> QED
      BY <1>1, <3>2 DEF Boot, Shaped, scanVars, AllTargets, Unaliased, TargetsIn
  <2> QED
    BY <1>1, <2>1, <2>2 DEF Boot, LoadEntries, Replace
<1>2. CASE StartScan \/ Plan \/ Crawl \/ UNCHANGED vars
  BY <1>0, <1>2 DEF StartScan, Plan, Crawl, vars, scanVars
<1>3. CASE Probe \/ CrawlProbe
  <2>1. Unaliased(found')
    BY <1>3, ResultsUnaliased DEF Probe, CrawlProbe, Appended, Unaliased, Shaped
  <2> QED
    BY <1>3, <2>1 DEF Probe, CrawlProbe, Shaped, AllTargets, Unaliased, TargetsIn
<1>4. CASE Merge
  <2>1. PICK seen : Observed(seen) /\ entries' = Merged(entries, seen)
    BY <1>4, MergeObserves
  <2>2. AllTargets(TargetsIn(entries'))
    BY <2>1, FreshWereSeen DEF AllTargets, TargetsIn, Observed, Shaped, TypeOK
  <2> QED
    BY <1>4, <2>2, NothingShaped DEF Merge, Shaped, AllTargets, TargetsIn, Unaliased
<1>5. ASSUME NEW gone, DropAddresses(gone)
      PROVE  AllTargets(TargetsIn(entries')) /\ AllTargets(Relisted(gone))
  BY <1>5 DEF DropAddresses, Without, Relisted, Shaped, AllTargets, TargetsIn
<1>6. CASE DropAliases
  BY <1>5, <1>6 DEF DropAliases, Shaped, AllTargets, TargetsIn, Unaliased
<1>7. CASE DropIgnored
  <2> DEFINE ignored == IgnoredAddresses(cfg.overrides)
             listed == Relisted(ignored)
  <2>1. AllTargets(TargetsIn(entries')) /\ AllTargets(listed)
    BY <1>5, <1>7 DEF DropIgnored
  <2>2. published' = UniquifyNames(listed, ByAddress(listed))
    BY <1>7 DEF DropIgnored
  <2> HIDE DEF listed
  <2>3. AllTargets(published')
    <3> DEFINE renamed == UniquifyNames(listed, ByAddress(listed))
    <3>1. DOMAIN renamed = DOMAIN listed
      BY IdentityDomains
    <3>2. \A a \in DOMAIN listed : IsTarget(renamed[a])
      BY <2>1, RenamingKeeps DEF AllTargets
    <3> HIDE DEF renamed
    <3>3. AllTargets(renamed)
      BY <3>1, <3>2 DEF AllTargets
    <3> QED
      BY <2>2, <3>3 DEF renamed
  <2>4. AllTargets(TargetsIn(disk'["state"])) /\ Unaliased(found') /\ Unaliased(disk'["hot"])
    BY <1>7 DEF DropIgnored, Shaped
  <2> QED
    BY <2>1, <2>3, <2>4 DEF Shaped
<1>8. ASSUME NEW file \in Files, Publish(file)
      PROVE  Shaped'
  <2>1. disk'["state"] \in {disk["state"], entries}
    BY <1>8, HotContents DEF Publish, TypeOK
  <2>2. Unaliased(disk'["hot"])
    BY <1>8, RowsUnaliased DEF Publish, TypeOK, Shaped
  <2>3. AllTargets(published')
    BY <1>8, NothingShaped DEF Publish, Shaped
  <2> QED
    BY <1>8, <2>1, <2>2, <2>3 DEF Publish, Shaped, AllTargets, TargetsIn, Unaliased
<1>9. CASE LoadFails \/ PlanFails \/ PublishFails \/ Crash
  <2>1. entries' \in {entries, NoEntries} /\ UNCHANGED disk
    BY <1>9 DEF LoadFails, PlanFails, PublishFails, Crash, ScanFails, Die
  <2>2. found' = NoTargets /\ published' = NoTargets
    BY <1>9 DEF LoadFails, PlanFails, PublishFails, Crash, ScanFails, Forget
  <2> QED
    BY <2>1, <2>2, NothingShaped DEF Shaped, AllTargets, TargetsIn, Unaliased
<1>10. CASE LoseState
  <2>1. disk'["state"] = NoEntries /\ disk'["hot"] = disk["hot"]
    BY <1>10 DEF LoseState, TypeOK
  <2> QED
    BY <1>10, <2>1, NothingShaped DEF LoseState, scanVars, Shaped, AllTargets, TargetsIn, Unaliased
<1> QED
  BY <1>1, <1>2, <1>3, <1>4, <1>6, <1>7, <1>8, <1>9, <1>10 DEF Next, ScanStep, Fault

LEMMA AlwaysShaped == Spec => []Shaped
<1>1. Spec => []TypeOK
  BY TypeCorrect
<1> QED
  BY <1>1, ShapedInit, ShapedStep, PTL DEF Spec
-----------------------------------------------------------------------------
(* Aliases are folded.                                                     *)

NoneListed(es) ==
  \A a \in DOMAIN es : es[a].misses = 0 => es[a].target.aliases \cap DOMAIN es = {}

\* Between MergeFound and DropAddresses the aliases of a fresh entry are among
\* the addresses about to be dropped; the files never show that window.
FoldedInv ==
  /\ AliasesFolded
  /\ NoneListed(disk["state"])
  /\ pc = "dropAliases" =>
       \A a \in DOMAIN entries : entries[a].misses = 0 => entries[a].target.aliases \subseteq folded

LEMMA FoldedInit == Init => FoldedInv
BY HotContents, FilesKnown DEF Init, FoldedInv, AliasesFolded, NoneListed, NoEntries

LEMMA FoldedStep == TypeOK /\ Shaped /\ FoldedInv /\ [Next]_vars => FoldedInv'
<1> SUFFICES ASSUME TypeOK, Shaped, FoldedInv, [Next]_vars PROVE FoldedInv'
  OBVIOUS
<1> USE FilesKnown
<1>0. "dropAliases" \notin Files \cup {"idle", "down"}
  BY DEF Files, AllTiers
<1>1. CASE Boot
  <2>1. CASE entries' = disk["state"]
    BY <1>1, <2>1 DEF Boot, FoldedInv, AliasesFolded, NoneListed
  <2>2. CASE entries' = [a \in DOMAIN disk["hot"] |-> Fresh(disk["hot"][a])]
    <3>1. \A a \in DOMAIN entries' : entries'[a].target.aliases = {}
      BY <2>2 DEF Fresh, Shaped, Unaliased
    <3> QED
      BY <1>1, <3>1 DEF Boot, FoldedInv, AliasesFolded, NoneListed
  <2> QED
    BY <1>1, <2>1, <2>2 DEF Boot, LoadEntries, Replace
<1>2. CASE StartScan \/ Plan \/ Probe \/ Crawl \/ CrawlProbe
  BY <1>2 DEF StartScan, Plan, Probe, Crawl, CrawlProbe, FoldedInv, AliasesFolded, NoneListed
<1>3. CASE Merge
  <2>1. PICK seen : Observed(seen) /\ entries' = Merged(entries, seen)
    BY <1>3, MergeObserves
  <2>2. \A a \in DOMAIN entries' : entries'[a].misses = 0 => entries'[a].target.aliases \subseteq folded'
    BY <2>1, FreshWereSeen DEF Observed, TypeOK
  <2> QED
    BY <1>3, <2>2 DEF Merge, FoldedInv, AliasesFolded, NoneListed
<1>4. CASE DropAliases
  <2>1. DOMAIN entries' = DOMAIN entries \ folded /\ \A a \in DOMAIN entries' : entries'[a] = entries[a]
    BY <1>4 DEF DropAliases, DropAddresses, Without
  <2>2. NoneListed(entries')
    BY <1>4, <2>1 DEF DropAliases, FoldedInv, NoneListed
  <2> QED
    BY <1>4, <2>2 DEF DropAliases, FoldedInv, AliasesFolded, NoneListed
<1>5. CASE DropIgnored
  <2>1. DOMAIN entries' \subseteq DOMAIN entries /\ \A a \in DOMAIN entries' : entries'[a] = entries[a]
    BY <1>5 DEF DropIgnored, DropAddresses, Without
  <2>2. NoneListed(entries')
    BY <1>5, <2>1 DEF DropIgnored, FoldedInv, AliasesFolded, NoneListed
  <2> QED
    BY <1>5, <2>2 DEF DropIgnored, FoldedInv, AliasesFolded, NoneListed
<1>6. ASSUME NEW file \in Files, Publish(file)
      PROVE  FoldedInv'
  <2>1. disk'["state"] \in {disk["state"], entries}
    BY <1>6, HotContents DEF Publish, TypeOK
  <2>2. pc # "dropAliases" /\ pc' # "dropAliases"
    BY <1>0, <1>6 DEF Publish, FileAfter, Files, AllTiers
  <2>3. NoneListed(entries) /\ entries' = entries
    BY <1>6, <2>2 DEF Publish, FoldedInv, AliasesFolded, NoneListed
  <2> QED
    BY <2>1, <2>2, <2>3 DEF FoldedInv, AliasesFolded, NoneListed
<1>7. CASE LoadFails \/ PlanFails \/ PublishFails \/ Crash
  <2>1. (entries' = entries /\ pc # "dropAliases") \/ entries' = NoEntries
    BY <1>0, <1>7 DEF LoadFails, PlanFails, PublishFails, Crash, ScanFails, Die
  <2>2. UNCHANGED disk /\ pc' # "dropAliases"
    BY <1>7 DEF LoadFails, PlanFails, PublishFails, Crash, ScanFails, Die
  <2>3. NoneListed(NoEntries)
    BY DEF NoneListed, NoEntries
  <2> QED
    BY <2>1, <2>2, <2>3 DEF FoldedInv, AliasesFolded, NoneListed
<1>8. CASE LoseState
  <2>1. disk'["state"] = NoEntries
    BY <1>8 DEF LoseState, TypeOK
  <2> QED
    BY <1>8, <2>1 DEF LoseState, scanVars, FoldedInv, AliasesFolded, NoneListed, NoEntries
<1>9. CASE UNCHANGED vars
  BY <1>9 DEF vars, scanVars, FoldedInv, AliasesFolded, NoneListed
<1> QED
  BY <1>1, <1>2, <1>3, <1>4, <1>5, <1>6, <1>7, <1>8, <1>9 DEF Next, ScanStep, Fault

\* Whichever of a router's addresses answer, a client never finds an address
\* listed next to the fresh device it is an alias of, except in the window
\* between MergeFound and the DropAddresses that follows it.
THEOREM AliasesLeave == Spec => []AliasesFolded
<1>1. Spec => [](TypeOK /\ Shaped)
  BY TypeCorrect, AlwaysShaped, PTL
<1>2. FoldedInv => AliasesFolded
  BY DEF FoldedInv
<1> QED
  BY <1>1, <1>2, FoldedInit, FoldedStep, PTL DEF Spec

-----------------------------------------------------------------------------
(* One fresh identity per hostname.                                        *)

OneFreshPerHost ==
  \A a, b \in DOMAIN entries :
    /\ entries[a].misses = 0 /\ entries[b].misses = 0
    /\ entries[a].target.host = entries[b].target.host
    /\ entries[a].target.host # NoHost
    => a = b

\* The list a restart loads may hold two clean counters for one hostname; the
\* first pass settles it, and no client is served before.
IdentityInv ==
  /\ pc \in {"down", "ready"} => ~listening
  /\ ~AllowDuplicateSysName /\ (listening \/ pc \in {"dropAliases", "dropIgnored"} \cup Files) =>
       OneFreshPerHost

LEMMA IdentityInit == Init => IdentityInv
BY FilesKnown DEF Init, IdentityInv, OneFreshPerHost, NoEntries

LEMMA IdentityStep == TypeOK /\ Shaped /\ IdentityInv /\ [Next]_vars => IdentityInv'
<1> SUFFICES ASSUME TypeOK, Shaped, IdentityInv, [Next]_vars PROVE IdentityInv'
  OBVIOUS
<1> USE FilesKnown
<1> DEFINE Settled == {"dropAliases", "dropIgnored"} \cup Files
<1>0. {"ready", "plan", "probe", "crawl", "crawlProbe", "merge", "idle", "down"} \cap Settled = {}
  BY DEF Files, AllTiers
<1>1. CASE Boot
  BY <1>0, <1>1 DEF Boot, IdentityInv
<1>2. CASE StartScan \/ Plan \/ Probe \/ Crawl \/ CrawlProbe
  <2>1. pc' \in {"plan", "probe", "crawl", "crawlProbe", "merge"}
    BY <1>2 DEF StartScan, Plan, Probe, Crawl, CrawlProbe
  <2>2. UNCHANGED <<entries, listening>>
    BY <1>2 DEF StartScan, Plan, Probe, Crawl, CrawlProbe
  <2> QED
    BY <1>0, <2>1, <2>2 DEF IdentityInv, OneFreshPerHost
<1>3. CASE Merge
  <2>1. PICK seen : Observed(seen) /\ entries' = Merged(entries, seen)
    BY <1>3, MergeObserves
  <2>2. ~AllowDuplicateSysName => OneFreshPerHost'
    BY <2>1, FreshWereSeen DEF Observed, TypeOK, OneFreshPerHost
  <2> QED
    BY <1>3, <2>2 DEF Merge, IdentityInv
<1>4. CASE DropAliases \/ DropIgnored
  <2>1. DOMAIN entries' \subseteq DOMAIN entries /\ \A a \in DOMAIN entries' : entries'[a] = entries[a]
    BY <1>4 DEF DropAliases, DropIgnored, DropAddresses, Without
  <2>2. pc \in Settled /\ pc' \notin {"down", "ready"}
    BY <1>0, <1>4 DEF DropAliases, DropIgnored
  <2> QED
    BY <2>1, <2>2 DEF IdentityInv, OneFreshPerHost
<1>5. ASSUME NEW file \in Files, Publish(file)
      PROVE  IdentityInv'
  <2>1. pc \in Settled /\ pc' \notin {"down", "ready"} /\ UNCHANGED entries
    BY <1>0, <1>5 DEF Publish, FileAfter, Files, AllTiers
  <2> QED
    BY <2>1 DEF IdentityInv, OneFreshPerHost
<1>6. CASE LoadFails \/ PlanFails \/ PublishFails \/ Crash
  <2>1. \/ listening /\ listening' /\ pc' = "idle" /\ entries' = entries
        \/ ~listening' /\ pc' = "down"
    BY <1>6 DEF LoadFails, PlanFails, PublishFails, Crash, ScanFails, Die, TypeOK
  <2> QED
    BY <1>0, <2>1 DEF IdentityInv, OneFreshPerHost
<1>7. CASE LoseState \/ UNCHANGED vars
  BY <1>7 DEF LoseState, vars, scanVars, IdentityInv, OneFreshPerHost
<1> QED
  BY <1>1, <1>2, <1>3, <1>4, <1>5, <1>6, <1>7 DEF Next, ScanStep, Fault

\* Unless duplicates are allowed, no client is ever served two devices of one
\* hostname that both answered the last scan, whatever the restored list held.
THEOREM IdentitiesDistinct == Spec => []OneFreshIdentity
<1>1. Spec => [](TypeOK /\ Shaped)
  BY TypeCorrect, AlwaysShaped, PTL
<1>2. IdentityInv => OneFreshIdentity
  BY DEF IdentityInv, OneFreshIdentity, OneFreshPerHost
<1> QED
  BY <1>1, <1>2, IdentityInit, IdentityStep, PTL DEF Spec
-----------------------------------------------------------------------------
(* The files agree with the catalogue.                                     *)

LEMMA NamelessMeans ==
  ASSUME NEW s, NEW t, Nameless(s) = Nameless(t)
  PROVE  /\ DOMAIN s = DOMAIN t
         /\ \A a \in DOMAIN s : [s[a] EXCEPT !.name = <<>>] = [t[a] EXCEPT !.name = <<>>]
<1>1. DOMAIN Nameless(s) = DOMAIN s /\ DOMAIN Nameless(t) = DOMAIN t
  BY DEF Nameless
<1>2. \A a \in DOMAIN s : Nameless(s)[a] = [s[a] EXCEPT !.name = <<>>]
  BY DEF Nameless
<1>3. \A a \in DOMAIN t : Nameless(t)[a] = [t[a] EXCEPT !.name = <<>>]
  BY DEF Nameless
<1> QED
  BY <1>1, <1>2, <1>3

LEMMA NamelessFrom ==
  ASSUME NEW s, NEW t, DOMAIN s = DOMAIN t,
         \A a \in DOMAIN s : [s[a] EXCEPT !.name = <<>>] = [t[a] EXCEPT !.name = <<>>]
  PROVE  Nameless(s) = Nameless(t)
<1> DEFINE bare(u, a) == [u[a] EXCEPT !.name = <<>>]
<1>1. \A a \in DOMAIN s : bare(s, a) = bare(t, a)
  OBVIOUS
<1>2. Nameless(s) = [a \in DOMAIN s |-> bare(s, a)] /\ Nameless(t) = [a \in DOMAIN t |-> bare(t, a)]
  BY DEF Nameless
<1> HIDE DEF bare
<1> QED
  BY <1>1, <1>2

LEMMA NamelessFields ==
  ASSUME NEW s, IsTarget(s), NEW t, IsTarget(t),
         [s EXCEPT !.name = <<>>] = [t EXCEPT !.name = <<>>]
  PROVE  s.host = t.host /\ s.group = t.group /\ s.tiers = t.tiers /\ s.aliases = t.aliases
<1>1. \A field \in {"host", "group", "tiers", "aliases"} :
        [s EXCEPT !.name = <<>>][field] = s[field] /\ [t EXCEPT !.name = <<>>][field] = t[field]
  BY DEF IsTarget
<1> QED
  BY <1>1

\* Lists that differ in names have rows that differ in names.
LEMMA NamelessRows ==
  ASSUME NEW s, AllTargets(s), NEW t, AllTargets(t), Nameless(s) = Nameless(t), NEW tier
  PROVE  Nameless(TierTargets(s, tier)) = Nameless(TierTargets(t, tier))
<1>0. /\ DOMAIN s = DOMAIN t
      /\ \A a \in DOMAIN s : [s[a] EXCEPT !.name = <<>>] = [t[a] EXCEPT !.name = <<>>]
  BY NamelessMeans
<1>1. ASSUME NEW a \in DOMAIN s
      PROVE  s[a].host = t[a].host /\ s[a].group = t[a].group /\ s[a].tiers = t[a].tiers
  <2>1. IsTarget(s[a]) /\ IsTarget(t[a])
    BY <1>0 DEF AllTargets
  <2> QED
    BY <1>0, <2>1, NamelessFields
<1>2. DOMAIN TierTargets(s, tier) = DOMAIN TierTargets(t, tier)
  BY <1>0, <1>1 DEF TierTargets
<1>3. ASSUME NEW a \in DOMAIN TierTargets(s, tier)
      PROVE  [Row(s[a], tier) EXCEPT !.name = <<>>] = [Row(t[a], tier) EXCEPT !.name = <<>>]
  <2>1. IsTarget(s[a]) /\ IsTarget(t[a]) /\ a \in DOMAIN s
    BY <1>0, <1>3 DEF TierTargets, AllTargets
  <2>2. IsTarget(Row(s[a], tier)) /\ IsTarget(Row(t[a], tier))
    BY <2>1 DEF Row, IsTarget
  <2>3. \A field \in {"host", "group", "tiers", "aliases"} :
          Row(s[a], tier)[field] = Row(t[a], tier)[field]
    BY <1>1, <2>1 DEF Row, IsTarget
  <2> QED
    BY <2>2, <2>3 DEF IsTarget
<1>4. ASSUME NEW a \in DOMAIN TierTargets(s, tier)
      PROVE  /\ TierTargets(s, tier)[a] = Row(s[a], tier)
             /\ TierTargets(t, tier)[a] = Row(t[a], tier)
  BY <1>2 DEF TierTargets
<1>5. \A a \in DOMAIN TierTargets(s, tier) :
        [TierTargets(s, tier)[a] EXCEPT !.name = <<>>] = [TierTargets(t, tier)[a] EXCEPT !.name = <<>>]
  BY <1>3, <1>4
<1> QED
  BY <1>2, <1>5, NamelessFrom

\* Renaming a list changes it in names only.
LEMMA NamelessRenaming ==
  ASSUME NEW targets, AllTargets(targets), NEW order
  PROVE  Nameless(UniquifyNames(targets, order)) = Nameless(targets)
<1> DEFINE renamed == UniquifyNames(targets, order)
<1>1. DOMAIN renamed = DOMAIN targets
  BY IdentityDomains
<1>2. ASSUME NEW a \in DOMAIN targets
      PROVE  [renamed[a] EXCEPT !.name = <<>>] = [targets[a] EXCEPT !.name = <<>>]
  BY <1>2 DEF UniquifyNames, AllTargets, IsTarget
<1> QED
  BY <1>1, <1>2, NamelessFrom

Agrees(file) ==
  /\ file = "state" => disk["state"] = entries
  /\ file \in AllTiers => Nameless(disk[file]) = Nameless(TierFile(Prev, file))
  /\ file = "sd" => \A tier \in EnabledTiers :
                      Nameless(disk["sd"][tier]) = Nameless(TierTargets(Prev, tier))

\* The files the current scan has written so far.
Written ==
  CASE pc = "cold"     -> {"hot"}
    [] pc = "topology" -> {"hot", "cold"}
    [] pc = "sd"       -> AllTiers
    [] pc = "state"    -> Files \ {"state"}
    [] pc = "idle"     -> IF scanOK THEN Files ELSE {}
    [] OTHER           -> {}

\* A scan that is about to publish lists what the catalogue holds, and so do
\* the files it has written.
AgreementInv ==
  /\ pc \in {"dropAliases", "dropIgnored"} \cup Files => Nameless(published) = Nameless(Prev)
  /\ \A file \in Written : Agrees(file)

LEMMA AgreementInit == Init => AgreementInv
<1> SUFFICES ASSUME Init PROVE AgreementInv
  OBVIOUS
<1>1. pc = "down" /\ pc \notin Files
  BY DEF Init, Files, AllTiers
<1>2. Written = {}
  BY <1>1 DEF Written
<1> QED
  BY <1>1, <1>2 DEF AgreementInv

\* What a file shows when it is written while the list agrees with the catalogue.
LEMMA WrittenAgrees ==
  ASSUME TypeOK, Shaped, AgreementInv, NEW file \in Files, Publish(file)
  PROVE  Agrees(file)'
<1>1. UNCHANGED entries /\ disk'[file] = Contents(published, entries, file)
  BY DEF Publish, TypeOK
<1>2. Nameless(published) = Nameless(Prev)
  BY DEF Publish, AgreementInv
<1>3. \A tier : Nameless(TierTargets(published, tier)) = Nameless(TierTargets(Prev, tier))
  BY <1>2, NamelessRows DEF Shaped, Prev
<1>4. CASE file = "state"
  BY <1>1, <1>4 DEF Contents, Agrees, AllTiers
<1>5. CASE file \in AllTiers
  <2>1. disk'[file] = TierFile(published, file)
    BY <1>1, <1>5 DEF Contents, AllTiers
  <2>2. Nameless(TierFile(published, file)) = Nameless(TierFile(Prev, file))
    BY <1>3 DEF TierFile
  <2> QED
    BY <1>1, <1>5, <2>1, <2>2 DEF Agrees, AllTiers, Prev
<1>6. CASE file = "sd"
  <2>1. disk'["sd"] = TargetsForTiers(published)
    BY <1>1, <1>6 DEF Contents, AllTiers
  <2>2. \A tier \in EnabledTiers : disk'["sd"][tier] = TierTargets(published, tier)
    BY <2>1 DEF TargetsForTiers
  <2> QED
    BY <1>1, <1>3, <1>6, <2>2 DEF Agrees, AllTiers, Prev
<1> QED
  BY <1>4, <1>5, <1>6 DEF Files

\* Dropping an address from the catalogue drops it from the list.
LEMMA RelistedAgrees ==
  ASSUME NEW gone, Nameless(published) = Nameless(Prev), DropAddresses(gone)
  PROVE  Nameless(Relisted(gone)) = Nameless(TargetsIn(entries'))
<1>1. CASE gone \cap DOMAIN entries # {}
  BY <1>1 DEF Relisted
<1>2. CASE gone \cap DOMAIN entries = {}
  <2>1. TargetsIn(entries') = Prev
    BY <1>2 DEF DropAddresses, Without, Prev, TargetsIn
  <2> QED
    BY <1>2, <2>1 DEF Relisted
<1> QED
  BY <1>1, <1>2

LEMMA AgreementStep == TypeOK /\ Shaped /\ AgreementInv /\ [Next]_vars => AgreementInv'
<1> SUFFICES ASSUME TypeOK, Shaped, AgreementInv, [Next]_vars PROVE AgreementInv'
  OBVIOUS
<1> USE FilesKnown
<1> DEFINE Busy == {"dropAliases", "dropIgnored"} \cup Files
           Idle == {"down", "ready", "plan", "probe", "crawl", "crawlProbe", "merge"}
<1>0. /\ Idle \cap Busy = {}
      /\ \A s \in Idle \cup {"dropAliases", "dropIgnored", "hot"} :
           s # "cold" /\ s # "topology" /\ s # "sd" /\ s # "state" /\ s # "idle"
  BY DEF Files, AllTiers
<1>1. ASSUME pc' \in Idle
      PROVE  AgreementInv'
  BY <1>0, <1>1 DEF AgreementInv, Written
<1>2. CASE Boot \/ StartScan \/ Plan \/ Probe \/ Crawl \/ CrawlProbe \/ Crash
  BY <1>1, <1>2 DEF Boot, StartScan, Plan, Probe, Crawl, CrawlProbe, Crash, Die
<1>3. CASE Merge
  <2>1. published' = Prev' /\ pc' = "dropAliases"
    BY <1>3 DEF Merge, Prev
  <2> QED
    BY <1>0, <2>1 DEF AgreementInv, Written
<1>4. CASE DropAliases
  <2>1. Nameless(published') = Nameless(Prev') /\ pc' = "dropIgnored"
    BY <1>4, RelistedAgrees DEF DropAliases, AgreementInv, Prev
  <2> QED
    BY <1>0, <2>1 DEF AgreementInv, Written
<1>5. CASE DropIgnored
  <2> DEFINE ignored == IgnoredAddresses(cfg.overrides)
             listed == Relisted(ignored)
  <2>1. Nameless(listed) = Nameless(Prev')
    BY <1>5, RelistedAgrees DEF DropIgnored, AgreementInv, Prev
  <2>2. AllTargets(listed)
    BY <1>5 DEF DropIgnored, DropAddresses, Without, Relisted, Shaped, AllTargets, TargetsIn
  <2>3. Nameless(published') = Nameless(Prev') /\ pc' = "hot"
    BY <1>5, <2>1, <2>2, NamelessRenaming DEF DropIgnored
  <2> QED
    BY <1>0, <2>3 DEF AgreementInv, Written
<1>6. ASSUME NEW file \in Files, Publish(file)
      PROVE  AgreementInv'
  <2>1. /\ UNCHANGED entries /\ Agrees(file)'
        /\ \A other \in Files \ {file} : disk'[other] = disk[other]
    BY <1>6, WrittenAgrees DEF Publish, TypeOK
  <2>2. \A other \in Files \ {file} : Agrees(other) => Agrees(other)'
    BY <2>1 DEF Agrees, Prev, Files
  <2>3. Written' \subseteq (Written \cap Files) \cup {file}
    BY <1>6 DEF Publish, FileAfter, Written, Files, AllTiers
  <2>4. \A other \in Written' : Agrees(other)'
    BY <2>1, <2>2, <2>3 DEF AgreementInv
  <2>5. pc' \in Busy => published' = published /\ Nameless(published) = Nameless(Prev)
    BY <1>6 DEF Publish, AgreementInv, Files, AllTiers
  <2> QED
    BY <2>1, <2>4, <2>5 DEF AgreementInv, Prev
<1>7. CASE LoadFails \/ PlanFails \/ PublishFails
  <2>1. ~scanOK' /\ (pc' = "idle" \/ pc' = "down")
    BY <1>7 DEF LoadFails, PlanFails, PublishFails, ScanFails, Die, Forget
  <2>2. pc' \notin Busy
    BY <2>1 DEF Files, AllTiers
  <2>3. Written' = {}
    BY <2>1 DEF Written
  <2> QED
    BY <2>2, <2>3 DEF AgreementInv
<1>8. CASE LoseState
  BY <1>1, <1>8 DEF LoseState
<1>9. CASE UNCHANGED vars
  BY <1>9 DEF vars, scanVars, AgreementInv, Written, Agrees, Prev
<1> QED
  BY <1>2, <1>3, <1>4, <1>5, <1>6, <1>7, <1>8, <1>9 DEF Next, ScanStep, Fault

LEMMA AgreementCorrect == Spec => []AgreementInv
<1>1. Spec => [](TypeOK /\ Shaped)
  BY TypeCorrect, AlwaysShaped, PTL
<1> QED
  BY <1>1, AgreementInit, AgreementStep, PTL DEF Spec

LEMMA AgreementShows == AgreementInv => FilesAgree
<1> SUFFICES ASSUME AgreementInv, pc = "idle", scanOK
             PROVE  /\ disk["state"] = entries
                    /\ \A tier \in AllTiers :
                         Nameless(disk[tier]) = Nameless(TierFile(Prev, tier))
                    /\ OutSD => \A tier \in EnabledTiers :
                         Nameless(disk["sd"][tier]) = Nameless(TierTargets(Prev, tier))
  BY DEF FilesAgree
<1>1. \A file \in Files : Agrees(file)
  BY DEF AgreementInv, Written
<1> QED
  BY <1>1 DEF Agrees, Files, AllTiers

\* After every completed scan, and until the next one starts, the three lists,
\* the file_sd list and the state file all tell what the catalogue holds.
THEOREM FilesTell == Spec => []FilesAgree
BY AgreementCorrect, AgreementShows, PTL

-----------------------------------------------------------------------------
(* The daemon implements Inventory.                                        *)

IsFunction(f) == f = [a \in DOMAIN f |-> f[a]]

\* What the refinement needs of the lists: entry lists are functions, and the hot
\* list has rows for the hot tier, and no others.
Inventoried ==
  /\ IsFunction(entries) /\ IsFunction(disk["state"])
  /\ \A a \in DOMAIN disk["hot"] : disk["hot"][a].tiers = {"hot"}
  /\ DOMAIN disk["hot"] # {} => "hot" \in EnabledTiers

LEMMA Shapes ==
  /\ IsFunction(NoEntries)
  /\ \A es, seen : IsFunction(Merged(es, seen))
  /\ \A es, gone : IsFunction(Without(es, gone))
BY DEF IsFunction, NoEntries, Merged, Without

LEMMA HotRows ==
  ASSUME NEW targets, AllTargets(targets)
  PROVE  LET list == TierFile(targets, "hot")
         IN  /\ \A a \in DOMAIN list : list[a].tiers = {"hot"}
             /\ DOMAIN list # {} => "hot" \in EnabledTiers
             /\ DOMAIN list = {a \in DOMAIN targets : "hot" \in targets[a].tiers \cap EnabledTiers}
BY DEF TierFile, TierTargets, Row, AllTargets, IsTarget

LEMMA InventoriedInit == Init => Inventoried
<1> SUFFICES ASSUME Init PROVE Inventoried
  OBVIOUS
<1>1. DOMAIN disk["hot"] = {} /\ disk["state"] = NoEntries
  <2>1. DOMAIN Contents(NoTargets, NoEntries, "hot") \subseteq DOMAIN NoTargets
    BY HotContents
  <2> QED
    BY <2>1, HotContents, FilesKnown DEF Init, NoTargets
<1> QED
  BY <1>1, Shapes DEF Init, Inventoried

LEMMA InventoriedStep == TypeOK /\ Shaped /\ Inventoried /\ [Next]_vars => Inventoried'
<1> SUFFICES ASSUME TypeOK, Shaped, Inventoried, [Next]_vars PROVE Inventoried'
  OBVIOUS
<1> USE FilesKnown
<1>1. CASE Boot
  BY <1>1 DEF Boot, LoadEntries, Replace, Inventoried, IsFunction
<1>2. CASE StartScan \/ Plan \/ Probe \/ Crawl \/ CrawlProbe \/ UNCHANGED vars
  BY <1>2 DEF StartScan, Plan, Probe, Crawl, CrawlProbe, vars, Inventoried, IsFunction
<1>3. CASE Merge \/ DropAliases \/ DropIgnored
  <2>1. IsFunction(entries') /\ UNCHANGED disk
    BY <1>3, Shapes DEF Merge, MergeFound, DropAliases, DropIgnored, DropAddresses
  <2> QED
    BY <2>1 DEF Inventoried, IsFunction
<1>4. ASSUME NEW file \in Files, Publish(file)
      PROVE  Inventoried'
  <2>1. disk'["state"] \in {disk["state"], entries} /\ UNCHANGED entries
    BY <1>4, HotContents DEF Publish, TypeOK
  <2>2. disk'["hot"] \in {disk["hot"], TierFile(published, "hot")}
    BY <1>4 DEF Publish, TypeOK, Contents, AllTiers
  <2>3. /\ \A a \in DOMAIN disk'["hot"] : disk'["hot"][a].tiers = {"hot"}
        /\ DOMAIN disk'["hot"] # {} => "hot" \in EnabledTiers
    BY <2>2, HotRows DEF Shaped, Inventoried
  <2> QED
    BY <2>1, <2>3 DEF Inventoried, IsFunction
<1>5. CASE LoadFails \/ PlanFails \/ PublishFails \/ Crash
  <2>1. entries' \in {entries, NoEntries} /\ UNCHANGED disk
    BY <1>5 DEF LoadFails, PlanFails, PublishFails, Crash, ScanFails, Die
  <2> QED
    BY <2>1, Shapes DEF Inventoried, IsFunction
<1>6. CASE LoseState
  <2>1. disk'["state"] = NoEntries /\ disk'["hot"] = disk["hot"] /\ UNCHANGED entries
    BY <1>6 DEF LoseState, TypeOK
  <2> QED
    BY <2>1, Shapes DEF Inventoried, IsFunction
<1> QED
  BY <1>1, <1>2, <1>3, <1>4, <1>5, <1>6 DEF Next, ScanStep, Fault

LEMMA ViewDomain == \A es : DOMAIN View(es) = DOMAIN es
BY DEF View

LEMMA InventoryInit == TypeOK /\ Init => AbstractInventory!Init
<1> SUFFICES ASSUME TypeOK, Init PROVE AbstractInventory!Init
  OBVIOUS
<1>1. disk["state"] = NoEntries /\ entries = NoEntries /\ DOMAIN disk["hot"] = {}
  <2>1. DOMAIN Contents(NoTargets, NoEntries, "hot") \subseteq DOMAIN NoTargets
    BY HotContents
  <2> QED
    BY <2>1, HotContents, FilesKnown DEF Init, NoTargets
<1>2. View(NoEntries) = AbstractInventory!Nothing
  BY DEF View, NoEntries, AbstractInventory!Nothing
<1>3. Stage = "down" /\ pc # "merge" /\ pc # "dropAliases"
  BY DEF Init, Stage
<1>4. IgnoredAddresses(cfg.overrides) \in {IgnoredAddresses(c.overrides) : c \in Configs}
  BY DEF TypeOK
<1> QED
  BY <1>1, <1>2, <1>3, <1>4 DEF AbstractInventory!Init

\* What the refinement shows of the state, apart from the stage.
Unseen ==
  <<View(entries), View(disk["state"]), DOMAIN disk["hot"],
    IF pc = "merge" THEN DOMAIN found ELSE {},
    IF pc = "dropAliases" THEN folded ELSE {},
    IgnoredAddresses(cfg.overrides)>>

LEMMA InventoryStutters ==
  ASSUME Stage' = Stage, UNCHANGED Unseen
  PROVE  UNCHANGED AbstractInventory!vars
BY DEF AbstractInventory!vars, Unseen

LEMMA InventoryStops ==
  ASSUME pc # "down", pc \in PCs, pc' = "down", entries' = NoEntries, UNCHANGED <<cfg, disk>>
  PROVE  AbstractInventory!Stop
<1>1. Stage # "down" /\ Stage' = "down"
  BY DEF Stage
<1>2. View(entries)' = AbstractInventory!Nothing
  BY DEF View, NoEntries, AbstractInventory!Nothing
<1> QED
  BY <1>1, <1>2 DEF AbstractInventory!Stop

LEMMA InventoryFails ==
  ASSUME Stage \in {"rest", "probing", "list", "save"}, pc # "merge", pc # "dropAliases",
         pc' = "idle", UNCHANGED <<cfg, entries, disk>>
  PROVE  [AbstractInventory!Fail]_(AbstractInventory!vars)
<1>1. Stage' = "rest"
  BY DEF Stage
<1> QED
  BY <1>1 DEF AbstractInventory!Fail, AbstractInventory!vars

LEMMA InventoryRestarts ==
  ASSUME TypeOK, Shaped, Inventoried, Boot
  PROVE  AbstractInventory!Restart
<1>1. Stage = "down" /\ Stage' = "rest" /\ pc = "down" /\ pc' = "ready"
  BY DEF Boot, Stage
<1>2. UNCHANGED <<cfg, disk>>
  BY DEF Boot
<1>3. View(entries)' = IF View(disk["state"]) # AbstractInventory!Nothing THEN View(disk["state"])
                       ELSE [a \in DOMAIN disk["hot"] |-> AbstractInventory!Listed]
  <2>1. CASE disk["state"] # NoEntries
    <3>1. DOMAIN disk["state"] # {}
      BY <2>1 DEF Inventoried, IsFunction, NoEntries
    <3>2. View(disk["state"]) # AbstractInventory!Nothing
      BY <3>1 DEF View, AbstractInventory!Nothing
    <3> QED
      BY <2>1, <3>2 DEF Boot, LoadEntries
  <2>2. CASE disk["state"] = NoEntries
    <3>1. View(disk["state"]) = AbstractInventory!Nothing
      BY <2>2 DEF View, NoEntries, AbstractInventory!Nothing
    <3>2. entries' = [a \in DOMAIN disk["hot"] |-> Fresh(disk["hot"][a])]
      BY <2>2 DEF Boot, Replace
    <3>3. ASSUME NEW a \in DOMAIN disk["hot"]
          PROVE  /\ entries'[a].misses = 0 /\ entries'[a].target.aliases = {}
                 /\ "hot" \in entries'[a].target.tiers \cap EnabledTiers
      BY <3>2 DEF Fresh, Inventoried, Shaped, Unaliased
    <3>4. DOMAIN entries' = DOMAIN disk["hot"]
      BY <3>2
    <3>5. View(entries)' = [a \in DOMAIN disk["hot"] |-> AbstractInventory!Listed]
      BY <3>3, <3>4 DEF View, AbstractInventory!Listed
    <3> QED
      BY <3>1, <3>5
  <2> QED
    BY <2>1, <2>2
<1> QED
  BY <1>1, <1>2, <1>3 DEF AbstractInventory!Restart

\* The catalogue update of a completed probe pass is one Observe.
LEMMA InventoryObserves ==
  ASSUME TypeOK, Shaped, Merge
  PROVE  AbstractInventory!Observe
<1>1. PICK seen : Observed(seen) /\ entries' = Merged(entries, seen)
  BY MergeObserves
<1> DEFINE D == DOMAIN seen
           kept == {a \in DOMAIN View(entries) \ D :
                      Misses > 0 => View(entries)[a].misses + 1 < Misses}
           answer == [a \in D |-> [misses |-> 0, aliases |-> seen[a].aliases,
                                   hot |-> "hot" \in seen[a].tiers \cap EnabledTiers]]
<1>2. /\ Stage = "heard" /\ Stage' = "fold"
      /\ pc = "merge" /\ pc' = "dropAliases" /\ UNCHANGED <<cfg, disk>>
  BY DEF Merge, Stage
<1>3. D \in SUBSET DOMAIN found
  BY <1>1 DEF Observed
<1>4. answer \in [D -> AbstractInventory!Answers(DOMAIN found \ D)]
  <2>1. \A a \in D : seen[a].aliases \subseteq DOMAIN found \ D
    BY <1>1 DEF Observed
  <2> QED
    BY <2>1 DEF AbstractInventory!Answers
<1>5. kept = {a \in DOMAIN entries \ D : ~Expired(Aged(entries[a]))}
  <2>1. \A a \in DOMAIN entries : entries[a].misses \in Nat
    BY DEF TypeOK, CatalogOK
  <2>2. DOMAIN View(entries) = DOMAIN entries
    BY DEF View
  <2>3. \A a \in DOMAIN entries : View(entries)[a].misses = entries[a].misses
    BY DEF View
  <2>4. \A a \in DOMAIN entries :
          (Misses > 0 => View(entries)[a].misses + 1 < Misses) <=> ~Expired(Aged(entries[a]))
    BY <2>1, <2>3, MissesAssumption DEF Expired, Aged
  <2> QED
    BY <2>2, <2>4
<1>6. View(entries)' = [a \in D \cup kept |->
                          IF a \in D THEN answer[a]
                          ELSE [View(entries)[a] EXCEPT !.misses = @ + 1]]
  <2>1. DOMAIN entries' = D \cup kept
    BY <1>1, <1>5 DEF Merged
  <2>2. ASSUME NEW a \in D
        PROVE  /\ entries'[a].misses = 0 /\ entries'[a].target = seen[a]
    BY <1>1, <2>2 DEF Merged, Fresh
  <2>3. ASSUME NEW a \in kept
        PROVE  a \notin D /\ a \in DOMAIN entries /\ entries'[a] = Aged(entries[a])
    BY <1>1, <1>5, <2>3 DEF Merged
  <2>4. ASSUME NEW a \in D
        PROVE  View(entries)'[a] = answer[a]
    BY <2>1, <2>2 DEF View
  <2>5. ASSUME NEW a \in kept
        PROVE  View(entries)'[a] = [View(entries)[a] EXCEPT !.misses = @ + 1]
    <3> HIDE DEF kept, D
    <3>0. a \in DOMAIN entries /\ entries'[a] = Aged(entries[a])
      BY <2>3, <2>5
    <3>1. View(entries)[a] = [misses |-> entries[a].misses, aliases |-> entries[a].target.aliases,
                              hot |-> "hot" \in entries[a].target.tiers \cap EnabledTiers]
      BY <2>3 DEF View
    <3>2. entries'[a].misses = entries[a].misses + 1 /\ entries'[a].target = entries[a].target
      BY <3>0 DEF Aged
    <3>3. View(entries)'[a] = [misses |-> entries[a].misses + 1, aliases |-> entries[a].target.aliases,
                               hot |-> "hot" \in entries[a].target.tiers \cap EnabledTiers]
      BY <2>1, <3>2 DEF View
    <3> QED
      BY <3>1, <3>3
  <2>6. View(entries)' = [a \in D \cup kept |-> View(entries)'[a]]
    BY <2>1 DEF View
  <2> HIDE DEF answer, kept
  <2> QED
    BY <2>3, <2>4, <2>5, <2>6
<1>7. folded' = UNION {answer[a].aliases : a \in D}
  BY <1>1 DEF Observed
<1>8. DOMAIN found \subseteq D \cup folded' \cup IgnoredAddresses(cfg.overrides)
  BY <1>1 DEF Observed
<1> HIDE DEF D, kept, answer
<1>9. \E S \in SUBSET DOMAIN found :
        LET stay == {a \in DOMAIN View(entries) \ S :
                       Misses > 0 => View(entries)[a].misses + 1 < Misses}
        IN  \E f \in [S -> AbstractInventory!Answers(DOMAIN found \ S)] :
              /\ View(entries)' = [a \in S \cup stay |->
                                     IF a \in S THEN f[a]
                                     ELSE [View(entries)[a] EXCEPT !.misses = @ + 1]]
              /\ folded' = UNION {f[a].aliases : a \in S}
              /\ DOMAIN found \subseteq S \cup folded' \cup IgnoredAddresses(cfg.overrides)
  BY <1>3, <1>4, <1>6, <1>7, <1>8 DEF kept
<1> QED
  BY <1>2, <1>9 DEF AbstractInventory!Observe

\* What dropping addresses does to the inventory.
LEMMA InventoryDrops ==
  ASSUME NEW gone, DropAddresses(gone)
  PROVE  View(entries)' = [a \in DOMAIN View(entries) \ gone |-> View(entries)[a]]
<1>1. DOMAIN entries' = DOMAIN entries \ gone /\ \A a \in DOMAIN entries' : entries'[a] = entries[a]
  BY DEF DropAddresses, Without
<1> QED
  BY <1>1 DEF View

LEMMA InventoryFolds ==
  ASSUME DropAliases
  PROVE  AbstractInventory!Fold
<1>1. /\ Stage = "fold" /\ Stage' = "ignore"
      /\ pc = "dropAliases" /\ pc' = "dropIgnored" /\ UNCHANGED <<cfg, disk>>
  BY DEF DropAliases, Stage
<1>2. View(entries)' = [a \in DOMAIN View(entries) \ folded |-> View(entries)[a]]
  BY InventoryDrops DEF DropAliases
<1> QED
  BY <1>1, <1>2 DEF AbstractInventory!Fold, AbstractInventory!Without

LEMMA InventoryIgnores ==
  ASSUME DropIgnored
  PROVE  AbstractInventory!Ignore
<1> DEFINE gone == IgnoredAddresses(cfg.overrides)
<1>1. /\ Stage = "ignore" /\ Stage' = "list"
      /\ pc = "dropIgnored" /\ pc' = "hot" /\ UNCHANGED <<cfg, disk>>
  BY DEF DropIgnored, Stage
<1>2. View(entries)' = [a \in DOMAIN View(entries) \ gone |-> View(entries)[a]]
  BY InventoryDrops DEF DropIgnored
<1> HIDE DEF gone
<1> QED
  BY <1>1, <1>2 DEF AbstractInventory!Ignore, AbstractInventory!Without, gone

\* Writing the hot list is one List, writing the state file one Save.
LEMMA InventoryPublishes ==
  ASSUME TypeOK, Shaped, AgreementInv, NEW file \in Files, Publish(file)
  PROVE  [AbstractInventory!Next]_(AbstractInventory!vars)
<1> USE FilesKnown
<1>1. UNCHANGED <<entries, cfg>> /\ pc = file
  BY DEF Publish
<1>2. CASE file = "hot"
  <2>1. Stage = "list" /\ Stage' = "save" /\ pc' = "cold"
    BY <1>2 DEF Publish, FileAfter, Stage
  <2>2. disk'["hot"] = TierFile(published, "hot") /\ disk'["state"] = disk["state"]
    BY <1>2 DEF Publish, TypeOK, Contents, AllTiers
  <2>3. /\ DOMAIN published = DOMAIN entries
        /\ \A a \in DOMAIN entries : published[a].tiers = entries[a].target.tiers
    <3>1. Nameless(published) = Nameless(Prev)
      BY DEF AgreementInv, Publish
    <3>2. /\ DOMAIN published = DOMAIN Prev
          /\ \A a \in DOMAIN published :
               [published[a] EXCEPT !.name = <<>>] = [Prev[a] EXCEPT !.name = <<>>]
      BY <3>1, NamelessMeans
    <3>3. AllTargets(published) /\ AllTargets(Prev)
      BY DEF Shaped, Prev
    <3>4. \A a \in DOMAIN published : published[a].tiers = Prev[a].tiers
      BY <3>2, <3>3, NamelessFields DEF AllTargets
    <3> QED
      BY <3>2, <3>4 DEF Prev, TargetsIn
  <2>4. DOMAIN disk'["hot"] = {a \in DOMAIN View(entries) : View(entries)[a].hot}
    <3>1. DOMAIN disk'["hot"] = {a \in DOMAIN published :
                                   "hot" \in published[a].tiers \cap EnabledTiers}
      BY <2>2, HotRows DEF Shaped
    <3> QED
      BY <2>3, <3>1 DEF View
  <2>5. AbstractInventory!List
    BY <1>1, <1>2, <2>1, <2>2, <2>4 DEF AbstractInventory!List
  <2> QED
    BY <2>5 DEF AbstractInventory!Next
<1>3. CASE file = "state"
  <2>1. Stage = "save" /\ Stage' = "rest" /\ pc' = "idle"
    BY <1>3 DEF Publish, Stage
  <2>2. disk'["state"] = entries /\ disk'["hot"] = disk["hot"]
    BY <1>3, HotContents DEF Publish, TypeOK
  <2>3. AbstractInventory!Save
    BY <1>1, <1>3, <2>1, <2>2 DEF AbstractInventory!Save
  <2> QED
    BY <2>3 DEF AbstractInventory!Next
<1>4. CASE file \notin {"hot", "state"}
  <2>1. file \in {"cold", "topology", "sd"}
    BY <1>4 DEF Files, AllTiers
  <2>2. pc' \in {"topology", "sd", "state"}
    BY <2>1 DEF Publish, FileAfter
  <2>3. Stage = "save" /\ Stage' = "save"
    BY <1>1, <2>1, <2>2 DEF Stage
  <2>4. disk'["state"] = disk["state"] /\ disk'["hot"] = disk["hot"]
    BY <1>4 DEF Publish, TypeOK
  <2>5. pc \notin {"merge", "dropAliases"} /\ pc' \notin {"merge", "dropAliases"}
    BY <1>1, <2>1, <2>2
  <2>6. UNCHANGED Unseen
    BY <1>1, <2>4, <2>5 DEF Unseen
  <2> QED
    BY <2>3, <2>6, InventoryStutters
<1> QED
  BY <1>2, <1>3, <1>4

LEMMA InventoryStep ==
  /\ TypeOK /\ TypeOK' /\ Shaped /\ Inventoried /\ AgreementInv /\ [Next]_vars
  => [AbstractInventory!Next]_(AbstractInventory!vars)
<1> DEFINE Step == [AbstractInventory!Next]_(AbstractInventory!vars)
<1> SUFFICES ASSUME TypeOK, TypeOK', Shaped, Inventoried, AgreementInv, [Next]_vars PROVE Step
  OBVIOUS
<1> USE FilesKnown
<1>1. CASE Boot
  BY <1>1, InventoryRestarts DEF AbstractInventory!Next
<1>2. CASE StartScan
  <2>1. /\ Stage = "rest" /\ Stage' = "probing" /\ UNCHANGED <<entries, disk>>
        /\ pc \notin {"merge", "dropAliases"} /\ pc' \notin {"merge", "dropAliases"}
    BY <1>2 DEF StartScan, Stage
  <2>2. IgnoredAddresses(cfg'.overrides) \in {IgnoredAddresses(c.overrides) : c \in Configs}
    BY DEF TypeOK
  <2>3. AbstractInventory!Begin
    BY <2>1, <2>2 DEF AbstractInventory!Begin
  <2> QED
    BY <2>3 DEF AbstractInventory!Next
<1>3. CASE Plan \/ Probe \/ Crawl
  <2>1. /\ Stage = "probing" /\ Stage' = "probing" /\ UNCHANGED <<entries, disk, cfg>>
        /\ pc \notin {"merge", "dropAliases"} /\ pc' \notin {"merge", "dropAliases"}
    BY <1>3 DEF Plan, Probe, Crawl, Stage
  <2>2. UNCHANGED Unseen
    BY <2>1 DEF Unseen
  <2> QED
    BY <2>1, <2>2, InventoryStutters
<1>4. CASE CrawlProbe
  <2>1. /\ Stage = "probing" /\ Stage' = "heard" /\ UNCHANGED <<entries, disk, cfg>>
        /\ pc = "crawlProbe" /\ pc' = "merge"
    BY <1>4 DEF CrawlProbe, Stage
  <2>2. DOMAIN found' \in SUBSET Addr
    BY DEF TypeOK
  <2>3. AbstractInventory!Hear
    BY <2>1, <2>2 DEF AbstractInventory!Hear
  <2> QED
    BY <2>3 DEF AbstractInventory!Next
<1>5. CASE Merge
  BY <1>5, InventoryObserves DEF AbstractInventory!Next
<1>6. CASE DropAliases
  BY <1>6, InventoryFolds DEF AbstractInventory!Next
<1>7. CASE DropIgnored
  BY <1>7, InventoryIgnores DEF AbstractInventory!Next
<1>8. CASE \E file \in Files : Publish(file)
  BY <1>8, InventoryPublishes
<1>9. CASE LoadFails \/ PlanFails \/ PublishFails
  <2>1. ScanFails /\ pc \in {"ready", "idle", "plan"} \cup Files
    BY <1>9 DEF LoadFails, PlanFails, PublishFails
  <2>2. /\ pc # "down" /\ pc # "merge" /\ pc # "dropAliases"
        /\ UNCHANGED <<cfg, disk>> /\ pc \in PCs
    BY <2>1 DEF ScanFails, Files, AllTiers, TypeOK
  <2>3. CASE pc' = "idle" /\ UNCHANGED entries
    <3>1. Stage \in {"rest", "probing", "list", "save"}
      BY <2>1 DEF Stage, Files, AllTiers
    <3> QED
      BY <2>2, <2>3, <3>1, InventoryFails DEF AbstractInventory!Next
  <2>4. CASE pc' = "down" /\ entries' = NoEntries
    BY <2>2, <2>4, InventoryStops DEF AbstractInventory!Next
  <2> QED
    BY <2>1, <2>3, <2>4 DEF ScanFails, Die
<1>10. CASE Crash
  BY <1>10, InventoryStops DEF Crash, Die, TypeOK, AbstractInventory!Next
<1>11. CASE LoseState
  <2>1. /\ disk'["state"] = NoEntries /\ disk'["hot"] = disk["hot"]
        /\ UNCHANGED <<pc, cfg, entries>> /\ pc = "down"
    BY <1>11 DEF LoseState, TypeOK
  <2>2. View(NoEntries) = AbstractInventory!Nothing
    BY DEF View, NoEntries, AbstractInventory!Nothing
  <2>3. Stage = "down" /\ Stage' = "down"
    BY <2>1 DEF Stage
  <2>4. AbstractInventory!LoseSaved
    BY <2>1, <2>2, <2>3 DEF AbstractInventory!LoseSaved
  <2> QED
    BY <2>4 DEF AbstractInventory!Next
<1>12. CASE UNCHANGED vars
  <2>1. Stage' = Stage /\ UNCHANGED Unseen
    BY <1>12 DEF vars, scanVars, Stage, Unseen
  <2> QED
    BY <2>1, InventoryStutters
<1> QED
  BY <1>1, <1>2, <1>3, <1>4, <1>5, <1>6, <1>7, <1>8, <1>9, <1>10, <1>11, <1>12
  DEF Next, ScanStep, Fault

\* The daemon, with its jobs, overrides, names, files and faults, keeps an
\* inventory: an address that answers is in it afterwards, unless it is folded
\* into one that answered too or ignored; no other leaves before it has been
\* silent for Misses completed passes; a scan that fails before its probes are
\* over changes nothing; and a restart brings back what was saved, or else the
\* hot list.
THEOREM ImplementsInventory == Spec => KeepsInventory
<1>1. Spec => [](TypeOK /\ Shaped)
  BY TypeCorrect, AlwaysShaped, PTL
<1>2. Spec => []Inventoried
  BY <1>1, InventoriedInit, InventoriedStep, PTL DEF Spec
<1>3. Spec => []AgreementInv
  BY AgreementCorrect
<1>4. Init => TypeOK
  BY TypeInit
<1> QED
  BY <1>1, <1>2, <1>3, <1>4, InventoryInit, InventoryStep, PTL
  DEF Spec, KeepsInventory, AbstractInventory!Spec

-----------------------------------------------------------------------------
(* Ignored inventory.                                                      *)

IgnoredInv ==
  pc \in Files \/ (pc = "idle" /\ scanOK) =>
    IgnoredAddresses(cfg.overrides) \cap DOMAIN entries = {}

LEMMA IgnoredInit == Init => IgnoredInv
BY DEF Init, IgnoredInv, NoEntries

LEMMA IgnoredStep == IgnoredInv /\ [Next]_vars => IgnoredInv'
<1> SUFFICES ASSUME IgnoredInv, [Next]_vars PROVE IgnoredInv'
  OBVIOUS
<1>0. {"down", "ready", "plan", "probe", "crawl", "crawlProbe", "merge", "dropAliases",
       "dropIgnored", "idle"} \cap Files = {}
  BY DEF Files, AllTiers
<1>1. CASE Boot \/ StartScan \/ Plan \/ Probe \/ Crawl \/ CrawlProbe \/ Merge \/ DropAliases \/ Crash
  BY <1>0, <1>1 DEF Boot, StartScan, Plan, Probe, Crawl, CrawlProbe, Merge, DropAliases,
                    Crash, Die, IgnoredInv
<1>2. CASE DropIgnored
  BY <1>2 DEF DropIgnored, DropAddresses, Without, IgnoredInv
<1>3. CASE \E file \in Files : Publish(file)
  BY <1>3 DEF Publish, IgnoredInv
<1>4. CASE LoadFails \/ PlanFails \/ PublishFails
  BY <1>0, <1>4 DEF LoadFails, PlanFails, PublishFails, ScanFails, Forget, Die, IgnoredInv
<1>5. CASE LoseState \/ UNCHANGED vars
  BY <1>5 DEF LoseState, vars, scanVars, IgnoredInv
<1> QED
  BY <1>1, <1>2, <1>3, <1>4, <1>5 DEF Next, ScanStep, Fault

LEMMA IgnoredShows == FilesAgree /\ IgnoredInv => IgnoredGone
<1> SUFFICES ASSUME FilesAgree, IgnoredInv, pc = "idle", scanOK, NEW tier \in AllTiers
             PROVE  IgnoredAddresses(cfg.overrides) \cap DOMAIN disk[tier] = {}
  BY DEF IgnoredGone, IgnoredInv
<1>1. DOMAIN disk[tier] = DOMAIN TierFile(Prev, tier)
  BY NamelessMeans DEF FilesAgree
<1>2. DOMAIN TierFile(Prev, tier) \subseteq DOMAIN entries
  BY DEF TierFile, TierTargets, Prev, TargetsIn
<1> QED
  BY <1>1, <1>2 DEF IgnoredInv

\* A scan that has applied an ignore override leaves the address neither in the
\* catalogue nor in any file, whether it was inventory before or not.
THEOREM IgnoredLeave == Spec => []IgnoredGone
<1>1. Spec => []IgnoredInv
  BY IgnoredInit, IgnoredStep, PTL DEF Spec
<1> QED
  BY <1>1, FilesTell, IgnoredShows, PTL
-----------------------------------------------------------------------------
(* Known devices are probed again.                                         *)

LEMMA KnownInit == Init => KnownReprobed
BY DEF Init, KnownReprobed

LEMMA KnownStep == KnownReprobed /\ [Next]_vars => KnownReprobed'
<1> SUFFICES ASSUME KnownReprobed, [Next]_vars PROVE KnownReprobed'
  OBVIOUS
<1>1. CASE Plan
  <2>1. PICK alive \in SUBSET Addr : jobs' = InitialJobs(cfg.groups, Prev, alive)
    BY <1>1 DEF Plan
  <2> DEFINE wanted == [i \in DOMAIN cfg.groups |->
                          SweepIPs(cfg.groups[i], alive) \cup SeedIPs(cfg.groups[i], Prev)]
  <2>2. DOMAIN jobs' = UNION {wanted[i] : i \in DOMAIN cfg.groups}
    BY <2>1 DEF InitialJobs, FirstGroupWins
  <2>3. ASSUME NEW a \in DOMAIN entries, NEW i \in DOMAIN cfg.groups,
               cfg.groups[i].name = entries[a].target.group
        PROVE  a \in wanted[i]
    BY <2>3 DEF SeedIPs, Prev, TargetsIn
  <2>4. UNCHANGED <<cfg, entries>>
    BY <1>1 DEF Plan
  <2> HIDE DEF wanted
  <2> QED
    BY <2>2, <2>3, <2>4 DEF KnownReprobed
<1>2. CASE Boot \/ StartScan \/ Probe \/ Crawl \/ CrawlProbe \/ Merge \/ DropAliases
           \/ DropIgnored \/ Crash \/ LoseState
  BY <1>2 DEF Boot, StartScan, Probe, Crawl, CrawlProbe, Merge, DropAliases, DropIgnored,
              Crash, Die, LoseState, KnownReprobed
<1>3. CASE \E file \in Files : Publish(file)
  <2>1. pc' # "probe"
    BY <1>3 DEF Publish, FileAfter, Files, AllTiers
  <2> QED
    BY <2>1 DEF KnownReprobed
<1>4. CASE LoadFails \/ PlanFails \/ PublishFails
  BY <1>4 DEF LoadFails, PlanFails, PublishFails, ScanFails, Die, KnownReprobed
<1>5. CASE UNCHANGED vars
  BY <1>5 DEF vars, scanVars, KnownReprobed
<1> QED
  BY <1>1, <1>2, <1>3, <1>4, <1>5 DEF Next, ScanStep, Fault

\* Every device of the catalogue whose group is still configured is probed by
\* the next scan, whatever ICMP says of it and whichever group claims it.
THEOREM KnownProbedAgain == Spec => []KnownReprobed
BY KnownInit, KnownStep, PTL DEF Spec

-----------------------------------------------------------------------------
(* Devices stay inside the networks of their groups.                       *)

\* The address belongs to a group of that name: inside its networks and not
\* excluded, or one of its seeds.
Belongs(c, a, name) ==
  \E i \in DOMAIN c.groups :
    c.groups[i].name = name /\ a \in InScope(c.groups[i]) \cup c.groups[i].seeds

AllBelong(c, targets) == \A a \in DOMAIN targets : Belongs(c, a, targets[a].group)

\* A job goes to a group that asked for the address.
LEMMA FirstGroupAsked ==
  ASSUME NEW groups, DOMAIN groups \subseteq Nat, NEW wanted,
         NEW a \in DOMAIN FirstGroupWins(groups, wanted)
  PROVE  \E i \in DOMAIN groups :
           a \in wanted[i] /\ FirstGroupWins(groups, wanted)[a] = groups[i].name
<1> DEFINE asking == {i \in DOMAIN groups : a \in wanted[i]}
<1>1. asking # {} /\ asking \subseteq Nat
  BY DEF FirstGroupWins
<1>2. \E n \in asking : \A m \in asking : n <= m
  BY <1>1, LeastNumber
<1>3. Min(asking) \in asking
  BY <1>2 DEF Min
<1>4. FirstGroupWins(groups, wanted)[a] = groups[Min(asking)].name
  BY DEF FirstGroupWins
<1> QED
  BY <1>3, <1>4

LEMMA InitialJobsBelong ==
  ASSUME NEW c \in Configs, NEW prev, AllBelong(c, prev), NEW alive,
         NEW a \in DOMAIN InitialJobs(c.groups, prev, alive)
  PROVE  Belongs(c, a, InitialJobs(c.groups, prev, alive)[a])
<1> DEFINE wanted == [i \in DOMAIN c.groups |->
                        SweepIPs(c.groups[i], alive) \cup SeedIPs(c.groups[i], prev)]
<1>1. InitialJobs(c.groups, prev, alive) = FirstGroupWins(c.groups, wanted)
  BY DEF InitialJobs
<1>2. DOMAIN c.groups \subseteq Nat
  BY DiscoveryAssumption
<1> HIDE DEF wanted
<1>3. PICK i \in DOMAIN c.groups :
        a \in wanted[i] /\ InitialJobs(c.groups, prev, alive)[a] = c.groups[i].name
  BY <1>1, <1>2, FirstGroupAsked
<1>4. \/ a \in InScope(c.groups[i]) \cup c.groups[i].seeds
      \/ a \in DOMAIN prev /\ prev[a].group = c.groups[i].name
  BY <1>3 DEF wanted, SweepIPs, SeedIPs
<1> QED
  BY <1>3, <1>4 DEF Belongs, AllBelong

LEMMA CrawlJobsBelong ==
  ASSUME NEW c \in Configs, NEW claimed, NEW named,
         NEW a \in DOMAIN CrawlJobs(c.groups, claimed, named)
  PROVE  Belongs(c, a, CrawlJobs(c.groups, claimed, named)[a])
<1> DEFINE wanted == [i \in DOMAIN c.groups |->
                        NewNeighbors(c.groups[i], claimed, named[i])]
           crawled == CrawlJobs(c.groups, claimed, named)
<1>1. crawled = FirstGroupWins(c.groups, wanted)
  BY DEF CrawlJobs
<1>2. DOMAIN c.groups \subseteq Nat
  BY DiscoveryAssumption
<1> HIDE DEF wanted
<1>3. PICK i \in DOMAIN c.groups : a \in wanted[i] /\ crawled[a] = c.groups[i].name
  BY <1>1, <1>2, FirstGroupAsked
<1>4. a \in InScope(c.groups[i])
  BY <1>3 DEF wanted, NewNeighbors
<1> QED
  BY <1>3, <1>4 DEF Belongs

ScopeInv ==
  /\ AllBelong(cfg, TargetsIn(entries)) /\ AllBelong(cfg, TargetsIn(disk["state"]))
  /\ AllBelong(cfg, disk["hot"]) /\ AllBelong(cfg, published) /\ AllBelong(cfg, found)
  /\ \A a \in DOMAIN jobs : Belongs(cfg, a, jobs[a])

StableGroups == \A c, d \in Configs : c.groups = d.groups

LEMMA ScopeInit == Init => ScopeInv
<1> SUFFICES ASSUME Init PROVE ScopeInv
  OBVIOUS
<1>1. disk["state"] = NoEntries /\ DOMAIN disk["hot"] = {}
  <2>1. DOMAIN Contents(NoTargets, NoEntries, "hot") \subseteq DOMAIN NoTargets
    BY HotContents
  <2> QED
    BY <2>1, HotContents, FilesKnown DEF Init, NoTargets
<1> QED
  BY <1>1 DEF Init, ScopeInv, AllBelong, TargetsIn, NoEntries, NoTargets, NoJobs

\* The rows of a list belong where its targets do.
LEMMA RowsBelong ==
  ASSUME NEW targets, AllTargets(targets), NEW c, AllBelong(c, targets), NEW es
  PROVE  AllBelong(c, Contents(targets, es, "hot"))
BY DEF Contents, AllTiers, TierFile, TierTargets, Row, AllTargets, IsTarget, AllBelong

LEMMA RenamedBelong ==
  ASSUME NEW targets, AllTargets(targets), NEW c, AllBelong(c, targets), NEW order
  PROVE  AllBelong(c, UniquifyNames(targets, order))
BY RenamingKeeps, IdentityDomains DEF AllBelong, AllTargets

LEMMA NothingBelongs ==
  \A c : AllBelong(c, TargetsIn(NoEntries)) /\ AllBelong(c, NoTargets)
BY DEF AllBelong, TargetsIn, NoEntries, NoTargets
LEMMA ScopeStep ==
  ASSUME StableGroups, TypeOK, Shaped, ScopeInv, [Next]_vars
  PROVE  ScopeInv'
<1> USE FilesKnown
<1>1. CASE Boot
  <2>1. CASE entries' = disk["state"]
    BY <1>1, <2>1 DEF Boot, ScopeInv, scanVars
  <2>2. CASE entries' = [a \in DOMAIN disk["hot"] |-> Fresh(disk["hot"][a])]
    <3>1. TargetsIn(entries') = [a \in DOMAIN disk["hot"] |-> disk["hot"][a]]
      BY <2>2 DEF TargetsIn, Fresh
    <3>2. AllBelong(cfg, TargetsIn(entries'))
      BY <3>1 DEF AllBelong, ScopeInv
    <3> QED
      BY <1>1, <3>2 DEF Boot, ScopeInv, scanVars
  <2> QED
    BY <1>1, <2>1, <2>2 DEF Boot, LoadEntries, Replace
<1>2. CASE StartScan
  <2>1. \A a, name : Belongs(cfg, a, name) => Belongs(cfg', a, name)
    BY <1>2 DEF StartScan, StableGroups, TypeOK, Belongs
  <2> QED
    BY <1>2, <2>1 DEF StartScan, ScopeInv, scanVars, AllBelong, TargetsIn
<1>3. CASE Plan
  <2>1. PICK alive \in SUBSET Addr : jobs' = InitialJobs(cfg.groups, Prev, alive)
    BY <1>3 DEF Plan
  <2>2. \A a \in DOMAIN jobs' : Belongs(cfg, a, jobs'[a])
    BY <2>1, InitialJobsBelong DEF Prev, ScopeInv, TypeOK
  <2> QED
    BY <1>3, <2>2 DEF Plan, ScopeInv
<1>4. CASE Crawl
  <2>1. PICK named \in Heard : jobs' = CrawlJobs(cfg.groups, DOMAIN jobs, named)
    BY <1>4 DEF Crawl
  <2>2. \A a \in DOMAIN jobs' : Belongs(cfg, a, jobs'[a])
    BY <2>1, CrawlJobsBelong DEF TypeOK
  <2> QED
    BY <1>4, <2>2 DEF Crawl, ScopeInv
<1>5. \A answered \in SUBSET Reachable : AllBelong(cfg, Results(answered))
  BY DEF AllBelong, Results, Target, Reachable, ScopeInv
<1>6. CASE Probe
  BY <1>5, <1>6 DEF Probe, ScopeInv
<1>7. CASE CrawlProbe
  <2>1. AllBelong(cfg, found')
    BY <1>5, <1>7 DEF CrawlProbe, Appended, AllBelong, ScopeInv
  <2> QED
    BY <1>7, <2>1 DEF CrawlProbe, ScopeInv, NoJobs
<1>8. CASE Merge
  <2>1. PICK seen : Observed(seen) /\ entries' = Merged(entries, seen)
    BY <1>8, MergeObserves
  <2>2. AllBelong(cfg, TargetsIn(entries'))
    BY <2>1, FreshWereSeen DEF AllBelong, TargetsIn, Observed, ScopeInv, TypeOK
  <2> QED
    BY <1>8, <2>2, NothingBelongs DEF Merge, ScopeInv
<1>9. ASSUME NEW gone, DropAddresses(gone)
      PROVE  /\ AllBelong(cfg, TargetsIn(entries')) /\ AllBelong(cfg, Relisted(gone))
             /\ AllTargets(Relisted(gone))
  BY <1>9 DEF DropAddresses, Without, Relisted, ScopeInv, Shaped, AllTargets, AllBelong, TargetsIn
<1>10. CASE DropAliases
  BY <1>9, <1>10 DEF DropAliases, ScopeInv
<1>11. CASE DropIgnored
  <2> DEFINE ignored == IgnoredAddresses(cfg.overrides)
             listed == Relisted(ignored)
  <2>1. AllBelong(cfg, TargetsIn(entries')) /\ AllBelong(cfg, listed) /\ AllTargets(listed)
    BY <1>9, <1>11 DEF DropIgnored
  <2>2. published' = UniquifyNames(listed, ByAddress(listed))
    BY <1>11 DEF DropIgnored
  <2> HIDE DEF listed
  <2>3. AllBelong(cfg, published')
    BY <2>1, <2>2, RenamedBelong
  <2> QED
    BY <1>11, <2>1, <2>3 DEF DropIgnored, ScopeInv
<1>12. ASSUME NEW file \in Files, Publish(file)
       PROVE  ScopeInv'
  <2>1. disk'["state"] \in {disk["state"], entries}
    BY <1>12, HotContents DEF Publish, TypeOK
  <2>2. AllBelong(cfg, disk'["hot"])
    BY <1>12, RowsBelong DEF Publish, TypeOK, Shaped, ScopeInv
  <2>3. AllBelong(cfg, published')
    BY <1>12, NothingBelongs DEF Publish, ScopeInv
  <2> QED
    BY <1>12, <2>1, <2>2, <2>3 DEF Publish, ScopeInv
<1>13. CASE LoadFails \/ PlanFails \/ PublishFails \/ Crash
  <2>1. entries' \in {entries, NoEntries} /\ UNCHANGED <<disk, cfg>>
    BY <1>13 DEF LoadFails, PlanFails, PublishFails, Crash, ScanFails, Die
  <2>2. found' = NoTargets /\ published' = NoTargets /\ jobs' = NoJobs
    BY <1>13 DEF LoadFails, PlanFails, PublishFails, Crash, ScanFails, Forget
  <2> QED
    BY <2>1, <2>2, NothingBelongs DEF ScopeInv, NoJobs
<1>14. CASE LoseState
  <2>1. disk'["state"] = NoEntries /\ disk'["hot"] = disk["hot"]
    BY <1>14 DEF LoseState, TypeOK
  <2> QED
    BY <1>14, <2>1, NothingBelongs DEF LoseState, scanVars, ScopeInv
<1>15. CASE UNCHANGED vars
  BY <1>15 DEF vars, scanVars, ScopeInv
<1> QED
  BY <1>1, <1>2, <1>3, <1>4, <1>6, <1>7, <1>8, <1>10, <1>11, <1>12, <1>13, <1>14, <1>15
  DEF Next, ScanStep, Fault

LEMMA ScopeShows == ScopeInv => InGroupScope
BY DEF ScopeInv, InGroupScope, AllBelong, Belongs, TargetsIn

\* As long as the operator leaves the groups alone, no scan, restart or crawl
\* brings in an address outside the networks and seeds of its group.
THEOREM NetworksKept ==
  ASSUME StableGroups
  PROVE  Spec => []InGroupScope
<1>1. Spec => [](TypeOK /\ Shaped)
  BY TypeCorrect, AlwaysShaped, PTL
<1>2. TypeOK /\ Shaped /\ ScopeInv /\ [Next]_vars => ScopeInv'
  BY ScopeStep
<1> QED
  BY <1>1, <1>2, ScopeInit, ScopeShows, PTL DEF Spec

-----------------------------------------------------------------------------
(* Names are unique.                                                       *)

\* An order of a finite set lists each of its elements once.
LEMMA OrderLists ==
  ASSUME NEW S, IsFiniteSet(S), NEW order \in SetToSeqs(S)
  PROVE  /\ Cardinality(S) \in Nat
         /\ order \in [1..Cardinality(S) -> S] /\ Len(order) = Cardinality(S)
         /\ \A i, j \in 1..Cardinality(S) : order[i] = order[j] => i = j
         /\ \A a \in S : \E i \in 1..Cardinality(S) : order[i] = a
<1> DEFINE n == Cardinality(S)
<1>1. n \in Nat
  BY FS_CardinalityType
<1>2. order \in [1..n -> S] /\ \A i, j \in 1..n : order[i] = order[j] => i = j
  BY DEF SetToSeqs
<1> HIDE DEF n
<1>3. Len(order) = n
  <2>1. order \in Seq(S)
    BY <1>1, <1>2
  <2> QED
    BY <1>1, <1>2, <2>1
<1>4. order \in Injection(1..n, S)
  BY <1>2 DEF Injection, IsInjective
<1>5. Cardinality(1..n) = n
  BY <1>1, FS_Interval
<1>6. order \in Surjection(1..n, S)
  BY <1>4, <1>5, FS_Injection DEF n
<1> QED
  BY <1>1, <1>2, <1>3, <1>6 DEF n, Surjection

\* Sorting by text makes such an order.
LEMMA SortedIsOrder ==
  ASSUME NEW targets, DOMAIN targets \subseteq Addr
  PROVE  ByAddress(targets) \in SetToSeqs(DOMAIN targets)
<1> DEFINE S == DOMAIN targets
           n == Cardinality(S)
           upTo(a) == {b \in S : TextRank[b] <= TextRank[a]}
           place == [a \in S |-> Cardinality(upTo(a))]
<1>1. IsFiniteSet(S) /\ n \in Nat
  BY FS_Subset, FS_CardinalityType, DiscoveryAssumption
<1>2. \A a, b \in S : /\ TextRank[a] \in Int /\ TextRank[b] \in Int
                      /\ TextRank[a] = TextRank[b] => a = b
  BY DiscoveryAssumption
<1>3. ASSUME NEW a \in S
      PROVE  IsFiniteSet(upTo(a)) /\ Cardinality(upTo(a)) \in 1..n
  <2>1. upTo(a) \in SUBSET S /\ a \in upTo(a)
    BY <1>2
  <2> HIDE DEF upTo, S
  <2>2. IsFiniteSet(upTo(a)) /\ Cardinality(upTo(a)) <= n /\ Cardinality(upTo(a)) \in Nat
    BY <1>1, <2>1, FS_Subset, FS_CardinalityType
  <2>3. Cardinality(upTo(a)) # 0
    BY <2>1, <2>2, FS_EmptySet
  <2> QED
    BY <1>1, <2>2, <2>3
<1>4. ASSUME NEW a \in S, NEW b \in S, Cardinality(upTo(a)) = Cardinality(upTo(b))
      PROVE  a = b
  <2>1. upTo(a) \subseteq upTo(b) \/ upTo(b) \subseteq upTo(a)
    BY <1>2
  <2>2. upTo(a) = upTo(b)
    <3> HIDE DEF upTo
    <3> QED
      BY <1>3, <1>4, <2>1, FS_Subset
  <2>3. a \in upTo(b) /\ b \in upTo(a)
    BY <1>2, <2>2
  <2> QED
    BY <1>2, <2>3
<1> HIDE DEF upTo, n, S
<1>5. place \in Injection(S, 1..n)
  BY <1>3, <1>4 DEF Injection, IsInjective
<1>6. IsFiniteSet(1..n) /\ Cardinality(1..n) = n
  BY <1>1, FS_Interval
<1>7. \A i \in 1..n : \E a \in S : place[a] = i
  <2> HIDE DEF place
  <2>1. place \in Surjection(S, 1..n)
    BY <1>5, <1>6, FS_Injection DEF n
  <2> QED
    BY <2>1 DEF Surjection
<1> DEFINE order == ByAddress(targets)
<1>8. order = [i \in 1..n |-> CHOOSE a \in S : Cardinality(upTo(a)) = i]
  BY DEF ByAddress, n, S, upTo
<1>9. ASSUME NEW i \in 1..n
      PROVE  order[i] \in S /\ Cardinality(upTo(order[i])) = i
  <2>1. \E a \in S : Cardinality(upTo(a)) = i
    BY <1>7
  <2>2. order[i] = CHOOSE a \in S : Cardinality(upTo(a)) = i
    BY <1>8
  <2> HIDE DEF order
  <2> QED
    BY <2>1, <2>2
<1>10. order \in [1..n -> S]
  <2>1. order = [i \in 1..n |-> order[i]]
    BY <1>8
  <2> HIDE DEF order
  <2> QED
    BY <1>9, <2>1
<1> HIDE DEF order
<1>11. order \in SetToSeqs(S)
  BY <1>9, <1>10 DEF SetToSeqs, n
<1> QED
  BY <1>11 DEF order, S

\* A map with one more entry.
LEMMA PutIs ==
  ASSUME NEW map, NEW key, NEW value
  PROVE  /\ DOMAIN Put(map, key, value) = DOMAIN map \cup {key}
         /\ Put(map, key, value)[key] = value
         /\ \A k \in DOMAIN map : k # key => Put(map, key, value)[k] = map[k]
BY DEF Put

\* The names an address may be given.
Namings(targets, a) == {targets[a].name, Append(targets[a].name, a), <<a>>}

NamesUpTo(targets, order) ==
  LET upto[n \in 0..Len(order)] ==
        IF n = 0 THEN [owner |-> EmptyMap, names |-> EmptyMap]
        ELSE Give(upto[n - 1], targets[order[n]].name, order[n])
  IN  upto

\* uniquifyNames goes through the targets one after the other.
LEMMA NamesStepwise ==
  ASSUME NEW targets, NEW n \in Nat, NEW order, order \in [1..n -> DOMAIN targets],
         Len(order) = n
  PROVE  LET upto == NamesUpTo(targets, order)
         IN  /\ UniqueNames(targets, order) = upto[n].names
             /\ upto[0] = [owner |-> EmptyMap, names |-> EmptyMap]
             /\ \A k \in 1..n : upto[k] = Give(upto[k - 1], targets[order[k]].name, order[k])
<1> DEFINE A == DOMAIN targets
           N == UNION {Namings(targets, a) : a \in A}
           Maps(X, Y) == UNION {[D -> Y] : D \in SUBSET X}
           V == [owner : Maps(N, A), names : Maps(A, N)]
           none == [owner |-> EmptyMap, names |-> EmptyMap]
           step == [p \in V \X (1..n) |-> Give(p[1], targets[order[p[2]]].name, order[p[2]])]
           Body(g) == [k \in 0..n |-> IF k = 0 THEN none
                                      ELSE Give(g[k - 1], targets[order[k]].name, order[k])]
<1>1. ASSUME NEW X, NEW Y, NEW map \in Maps(X, Y), NEW key \in X, NEW value \in Y
      PROVE  Put(map, key, value) \in Maps(X, Y)
  <2>1. PICK D \in SUBSET X : map \in [D -> Y]
    OBVIOUS
  <2>2. D \cup {key} \in SUBSET X
    OBVIOUS
  <2>3. Put(map, key, value) \in [D \cup {key} -> Y]
    BY <2>1 DEF Put
  <2> QED
    BY <2>2, <2>3
<1>2. \A X, Y : EmptyMap \in Maps(X, Y)
  <2>1. ASSUME NEW X, NEW Y
        PROVE  EmptyMap \in Maps(X, Y)
    <3>1. EmptyMap \in [{} -> Y] /\ {} \in SUBSET X
      BY DEF EmptyMap
    <3> QED
      BY <3>1
  <2> QED
    BY <2>1
<1> HIDE DEF Maps
<1>3. none \in V
  BY <1>2
<1>4. ASSUME NEW v \in V, NEW a \in A
      PROVE  Give(v, targets[a].name, a) \in V
  <2> DEFINE o == v.owner
             m == v.names
  <2>1. o \in Maps(N, A) /\ m \in Maps(A, N)
    OBVIOUS
  <2> DEFINE unique == UniqueName(v.owner, targets[a].name, a)
  <2>2. unique \in Namings(targets, a)
    BY DEF UniqueName, Namings
  <2> HIDE DEF unique
  <2>3. unique \in N
    BY <2>2
  <2> HIDE DEF N
  <2>4. Put(o, unique, a) \in Maps(N, A) /\ Put(m, a, unique) \in Maps(A, N)
    BY <1>1, <2>1, <2>3
  <2>5. Give(v, targets[a].name, a) = [owner |-> Put(o, unique, a), names |-> Put(m, a, unique)]
    BY DEF Give, unique
  <2> QED
    BY <2>4, <2>5
<1> HIDE DEF V, none
<1>5. step \in [V \X (1..n) -> V]
  BY <1>4
<1>6. PICK f \in [0..n -> V] : Iterated(f, n, none, step)
  <2> HIDE DEF step
  <2> QED
    BY <1>3, <1>5, Iterates
<1>7. ASSUME NEW k \in 1..n
      PROVE  f[k] = Give(f[k - 1], targets[order[k]].name, order[k])
  <2>1. k - 1 \in 0..n
    OBVIOUS
  <2>2. f[k - 1] \in V
    BY <2>1
  <2>3. step[<<f[k - 1], k>>] = Give(f[k - 1], targets[order[k]].name, order[k])
    BY <2>2
  <2> QED
    BY <1>6, <2>3 DEF Iterated
<1>8. f = Body(f)
  <2>1. f[0] = none
    BY <1>6 DEF Iterated
  <2> QED
    BY <1>7, <2>1
<1>9. NamesUpTo(targets, order) = CHOOSE g : g = Body(g)
  BY DEF NamesUpTo, none
<1>10. NamesUpTo(targets, order) = Body(NamesUpTo(targets, order))
  <2> HIDE DEF Body
  <2> QED
    BY <1>8, <1>9
<1> DEFINE P == NamesUpTo(targets, order)
<1>11. P[0] = none /\ \A k \in 1..n : P[k] = Give(P[k - 1], targets[order[k]].name, order[k])
  BY <1>10
<1>12. UniqueNames(targets, order) = P[n].names
  BY DEF UniqueNames, NamesUpTo
<1> QED
  BY <1>11, <1>12 DEF none

\* A name is a text, but not the bare address of another device.
Own(name, a) ==
  /\ name \in Seq(Range(name)) /\ name # <<>>
  /\ \A b \in Addr \ {a} : name # <<b>>

\* So are the names of the devices and the ones that the overrides pin.  (The
\* short name of a device is cut at its first dot, so that it is no IPv4 address.)
PlainNames ==
  /\ \A a \in Addr : Own(Device[a].short, a)
  /\ \A c \in Configs : \A i \in DOMAIN c.overrides :
       c.overrides[i].name # NoName => Own(c.overrides[i].name, c.overrides[i].addr)

AllOwn(targets) == \A a \in DOMAIN targets : Own(targets[a].name, a)
Unique(targets) == \A a, b \in DOMAIN targets : targets[a].name = targets[b].name => a = b

LEMMA LongerOwn ==
  ASSUME NEW name, NEW a, Own(name, a), NEW x
  PROVE  /\ Len(name) \in Nat /\ Len(name) >= 1
         /\ Len(Append(name, x)) = Len(name) + 1 /\ Append(name, x)[Len(name) + 1] = x
         /\ Own(Append(name, x), a)
<1> DEFINE R == Range(name)
           X == R \cup {x}
           t == Append(name, x)
<1>1. name \in Seq(R) /\ name # <<>>
  BY DEF Own
<1> HIDE DEF R
<1>2. name \in Seq(X) /\ x \in X /\ Len(name) \in Nat /\ Len(name) # 0
  BY <1>1, EmptySeq
<1> HIDE DEF X
<1>3. /\ t \in Seq(X) /\ Len(t) = Len(name) + 1 /\ t[Len(name) + 1] = x
      /\ \A i \in 1..Len(name) : t[i] = name[i]
  BY <1>2, AppendProperties
<1>4. Range(t) = X
  BY <1>2, OneAppended DEF X, R
<1> HIDE DEF t
<1>5. t \in Seq(Range(t)) /\ t # <<>>
  BY <1>2, <1>3, <1>4, EmptySeq
<1>6. \A b : t # <<b>>
  <2>1. \A b : Len(<<b>>) = 1
    OBVIOUS
  <2> QED
    BY <1>2, <1>3, <2>1
<1> QED
  BY <1>2, <1>3, <1>5, <1>6 DEF Own, t

LEMMA ShortOwn ==
  ASSUME NEW a
  PROVE  Own(<<a>>, a)
<1>1. <<a>> \in Seq({a}) /\ <<a>> # <<>> /\ Len(<<a>>) = 1 /\ Range(<<a>>) = {a}
  BY DEF Range
<1>2. \A b : b # a => <<a>> # <<b>>
  OBVIOUS
<1> QED
  BY <1>1, <1>2 DEF Own

\* No other device is given the bare address of this one.
LEMMA AddressTells ==
  ASSUME NEW targets, AllOwn(targets), DOMAIN targets \subseteq Addr,
         NEW a \in DOMAIN targets, NEW b \in DOMAIN targets, a # b
  PROVE  <<a>> \notin Namings(targets, b)
<1>1. Own(targets[b].name, b) /\ a \in Addr \ {b}
  BY DEF AllOwn
<1>2. Own(Append(targets[b].name, b), b)
  BY <1>1, LongerOwn
<1>3. <<a>> # <<b>>
  OBVIOUS
<1> QED
  BY <1>1, <1>2, <1>3 DEF Namings, Own

\* What uniquifyNames has done after some targets.
GivenWell(targets, given) ==
  /\ \A a \in DOMAIN given.names :
       /\ a \in DOMAIN targets /\ given.names[a] \in Namings(targets, a)
       /\ given.names[a] \in DOMAIN given.owner /\ given.owner[given.names[a]] = a
  /\ \A name \in DOMAIN given.owner :
       given.owner[name] \in DOMAIN given.names /\ given.names[given.owner[name]] = name

LEMMA NewName ==
  ASSUME NEW targets, AllOwn(targets), DOMAIN targets \subseteq Addr,
         NEW given, GivenWell(targets, given), NEW a \in DOMAIN targets \ DOMAIN given.names
  PROVE  LET unique == UniqueName(given.owner, targets[a].name, a)
         IN  unique \notin DOMAIN given.owner /\ unique \in Namings(targets, a)
<1> DEFINE name == targets[a].name
           owner == given.owner
           suffixed == IF TakenBy(owner, name, a) THEN Append(name, a) ELSE name
<1>1. \A m : TakenBy(owner, m, a) <=> m \in DOMAIN owner
  BY DEF GivenWell, TakenBy
<1>2. <<a>> \notin DOMAIN owner
  <2>1. SUFFICES ASSUME <<a>> \in DOMAIN owner PROVE FALSE
    OBVIOUS
  <2> DEFINE b == owner[<<a>>]
  <2>2. b \in DOMAIN given.names /\ given.names[b] = <<a>>
    BY <2>1 DEF GivenWell
  <2>3. b \in DOMAIN targets /\ <<a>> \in Namings(targets, b) /\ a # b
    BY <2>2 DEF GivenWell
  <2> HIDE DEF b
  <2> QED
    BY <2>3, AddressTells
<1>3. suffixed \in Namings(targets, a) /\ <<a>> \in Namings(targets, a)
  BY DEF Namings
<1>4. UniqueName(owner, name, a) = IF suffixed \in DOMAIN owner THEN <<a>> ELSE suffixed
  BY <1>1 DEF UniqueName
<1> HIDE DEF suffixed
<1> QED
  BY <1>2, <1>3, <1>4

LEMMA GiveWell ==
  ASSUME NEW targets, AllOwn(targets), DOMAIN targets \subseteq Addr,
         NEW given, GivenWell(targets, given), NEW a \in DOMAIN targets \ DOMAIN given.names
  PROVE  /\ GivenWell(targets, Give(given, targets[a].name, a))
         /\ DOMAIN Give(given, targets[a].name, a).names = DOMAIN given.names \cup {a}
<1> DEFINE unique == UniqueName(given.owner, targets[a].name, a)
           owner == Put(given.owner, unique, a)
           names == Put(given.names, a, unique)
           next == Give(given, targets[a].name, a)
<1>1. unique \notin DOMAIN given.owner /\ unique \in Namings(targets, a)
  BY NewName
<1>2. next = [owner |-> owner, names |-> names]
  BY DEF Give
<1>3. next.owner = owner /\ next.names = names
  BY <1>2
<1> HIDE DEF unique, next
<1>4. /\ DOMAIN owner = DOMAIN given.owner \cup {unique} /\ owner[unique] = a
      /\ \A m \in DOMAIN given.owner : m # unique => owner[m] = given.owner[m]
      /\ DOMAIN names = DOMAIN given.names \cup {a} /\ names[a] = unique
      /\ \A b \in DOMAIN given.names : b # a => names[b] = given.names[b]
  <2>1. /\ DOMAIN owner = DOMAIN given.owner \cup {unique} /\ owner[unique] = a
        /\ \A m \in DOMAIN given.owner : m # unique => owner[m] = given.owner[m]
    BY DEF Put
  <2>2. /\ DOMAIN names = DOMAIN given.names \cup {a} /\ names[a] = unique
        /\ \A b \in DOMAIN given.names : b # a => names[b] = given.names[b]
    BY DEF Put
  <2> QED
    BY <2>1, <2>2
<1> HIDE DEF owner, names
<1>5. ASSUME NEW b \in DOMAIN names
      PROVE  /\ b \in DOMAIN targets /\ names[b] \in Namings(targets, b)
             /\ names[b] \in DOMAIN owner /\ owner[names[b]] = b
  <2>1. CASE b = a
    BY <1>1, <1>4, <2>1
  <2>2. CASE b # a
    <3>1. b \in DOMAIN given.names /\ names[b] = given.names[b]
      BY <1>4, <2>2
    <3>2. names[b] \in DOMAIN given.owner /\ given.owner[names[b]] = b
          /\ b \in DOMAIN targets /\ names[b] \in Namings(targets, b)
      BY <3>1 DEF GivenWell
    <3> QED
      BY <1>1, <1>4, <3>2
  <2> QED
    BY <2>1, <2>2
<1>6. ASSUME NEW m \in DOMAIN owner
      PROVE  owner[m] \in DOMAIN names /\ names[owner[m]] = m
  <2>1. CASE m = unique
    BY <1>4, <2>1
  <2>2. CASE m # unique
    <3>1. m \in DOMAIN given.owner /\ owner[m] = given.owner[m]
      BY <1>4, <2>2
    <3>2. owner[m] \in DOMAIN given.names /\ given.names[owner[m]] = m
      BY <3>1 DEF GivenWell
    <3> QED
      BY <1>4, <3>2
  <2> QED
    BY <2>1, <2>2
<1> QED
  BY <1>3, <1>4, <1>5, <1>6 DEF GivenWell, next

\* uniquifyNames: every target keeps its name or gets its address in it, and
\* no two have the same.
LEMMA NamesGiven ==
  ASSUME NEW targets, AllOwn(targets), DOMAIN targets \subseteq Addr,
         NEW order \in SetToSeqs(DOMAIN targets)
  PROVE  /\ \A a \in DOMAIN targets : UniqueNames(targets, order)[a] \in Namings(targets, a)
         /\ \A a, b \in DOMAIN targets :
              UniqueNames(targets, order)[a] = UniqueNames(targets, order)[b] => a = b
<1> DEFINE S == DOMAIN targets
           n == Cardinality(S)
           upto == NamesUpTo(targets, order)
           good == {k \in 0..n : /\ GivenWell(targets, upto[k])
                                 /\ DOMAIN upto[k].names = {order[i] : i \in 1..k}}
<1>1. IsFiniteSet(S)
  BY FS_Subset, DiscoveryAssumption
<1>2. /\ n \in Nat /\ order \in [1..n -> S] /\ Len(order) = n
      /\ \A i, j \in 1..n : order[i] = order[j] => i = j
      /\ \A a \in S : \E i \in 1..n : order[i] = a
  BY <1>1, OrderLists
<1> HIDE DEF n
<1>3. /\ UniqueNames(targets, order) = upto[n].names
      /\ upto[0] = [owner |-> EmptyMap, names |-> EmptyMap]
      /\ \A k \in 1..n : upto[k] = Give(upto[k - 1], targets[order[k]].name, order[k])
  BY <1>2, NamesStepwise
<1> HIDE DEF upto
<1>4. 0 \in good
  <2>1. upto[0].owner = EmptyMap /\ upto[0].names = EmptyMap /\ DOMAIN EmptyMap = {}
    BY <1>3 DEF EmptyMap
  <2>2. 1..0 = {}
    OBVIOUS
  <2> QED
    BY <1>2, <2>1, <2>2 DEF GivenWell
<1>5. ASSUME NEW k \in 1..n, k - 1 \in good
      PROVE  k \in good
  <2> DEFINE given == upto[k - 1]
             a == order[k]
  <2>1. GivenWell(targets, given) /\ DOMAIN given.names = {order[i] : i \in 1 .. k - 1}
    BY <1>5
  <2>2. a \in S /\ k - 1 \in 0..n
    BY <1>2
  <2>3. a \notin DOMAIN given.names
    BY <1>2, <2>1
  <2>4. upto[k] = Give(given, targets[a].name, a)
    BY <1>3
  <2> HIDE DEF given
  <2>5. GivenWell(targets, upto[k]) /\ DOMAIN upto[k].names = DOMAIN given.names \cup {a}
    BY <2>1, <2>2, <2>3, <2>4, GiveWell
  <2>6. {order[i] : i \in 1..k} = {order[i] : i \in 1 .. k - 1} \cup {a}
    OBVIOUS
  <2> QED
    BY <2>1, <2>5, <2>6
<1>6. n \in good
  <2> HIDE DEF good
  <2>1. 0..n \subseteq good
    BY <1>2, <1>4, <1>5, Induction
  <2> QED
    BY <1>2, <2>1
<1>7. GivenWell(targets, upto[n]) /\ DOMAIN upto[n].names = S
  <2>1. GivenWell(targets, upto[n]) /\ DOMAIN upto[n].names = {order[i] : i \in 1..n}
    BY <1>6
  <2>2. {order[i] : i \in 1..n} = S
    <3>1. \A i \in 1..n : order[i] \in S
      BY <1>2
    <3>2. \A a \in S : \E i \in 1..n : order[i] = a
      BY <1>2
    <3> HIDE DEF S
    <3> QED
      BY <3>1, <3>2
  <2> QED
    BY <2>1, <2>2
<1> QED
  BY <1>3, <1>7 DEF GivenWell

\* The names a list has after uniquifyNames.
LEMMA RenamedUnique ==
  ASSUME NEW targets, AllTargets(targets), AllOwn(targets), DOMAIN targets \subseteq Addr,
         NEW order \in SetToSeqs(DOMAIN targets)
  PROVE  AllOwn(UniquifyNames(targets, order)) /\ Unique(UniquifyNames(targets, order))
<1> DEFINE names == UniqueNames(targets, order)
           renamed == UniquifyNames(targets, order)
<1>1. /\ \A a \in DOMAIN targets : names[a] \in Namings(targets, a)
      /\ \A a, b \in DOMAIN targets : names[a] = names[b] => a = b
  BY NamesGiven
<1>2. renamed = [a \in DOMAIN targets |-> [targets[a] EXCEPT !.name = names[a]]]
  BY DEF UniquifyNames
<1> HIDE DEF names, renamed
<1>3. DOMAIN renamed = DOMAIN targets
  BY <1>2
<1>4. ASSUME NEW a \in DOMAIN targets
      PROVE  renamed[a].name = names[a] /\ Own(names[a], a)
  <2>1. IsTarget(targets[a]) /\ Own(targets[a].name, a)
    BY DEF AllTargets, AllOwn
  <2>2. renamed[a].name = names[a]
    BY <1>2, <2>1 DEF IsTarget
  <2>3. Own(Append(targets[a].name, a), a) /\ Own(<<a>>, a)
    BY <2>1, LongerOwn, ShortOwn
  <2> QED
    BY <1>1, <2>1, <2>2, <2>3 DEF Namings
<1> QED
  BY <1>1, <1>3, <1>4 DEF AllOwn, Unique, renamed

\* The rows of a tier have names of their own when the targets have.
LEMMA RowsUnique ==
  ASSUME NEW targets, AllTargets(targets), AllOwn(targets), NEW tier \in AllTiers
  PROVE  /\ AllOwn(TierFile(targets, tier))
         /\ Unique(targets) => Unique(TierFile(targets, tier))
<1>1. ASSUME NEW a \in DOMAIN TierTargets(targets, tier)
      PROVE  /\ a \in DOMAIN targets
             /\ TierTargets(targets, tier)[a].name = Append(targets[a].name, tier)
  <2>1. a \in DOMAIN targets /\ TierTargets(targets, tier)[a] = Row(targets[a], tier)
    BY <1>1 DEF TierTargets
  <2>2. IsTarget(targets[a])
    BY <2>1 DEF AllTargets
  <2>3. Row(targets[a], tier).name = Append(targets[a].name, tier)
    BY <2>2 DEF Row, IsTarget
  <2> QED
    BY <2>1, <2>3
<1>2. ASSUME NEW a \in DOMAIN targets
      PROVE  Own(Append(targets[a].name, tier), a)
  BY LongerOwn DEF AllOwn
<1>3. ASSUME NEW a \in DOMAIN targets, NEW b \in DOMAIN targets,
             Append(targets[a].name, tier) = Append(targets[b].name, tier)
      PROVE  targets[a].name = targets[b].name
  <2> DEFINE s == targets[a].name
             t == targets[b].name
             X == Range(s) \cup Range(t) \cup {tier}
  <2>1. s \in Seq(Range(s)) /\ t \in Seq(Range(t))
    BY DEF AllOwn, Own
  <2>2. s \in Seq(X) /\ t \in Seq(X) /\ tier \in X
    BY <2>1
  <2>3. Append(s, tier) = Append(t, tier)
    BY <1>3
  <2> HIDE DEF s, t, X
  <2>4. s = t
    BY <2>2, <2>3, AppendInjective
  <2> QED
    BY <2>4 DEF s, t
<1>4. CASE tier \in EnabledTiers
  <2> DEFINE rows == TierTargets(targets, tier)
             name(a) == Append(targets[a].name, tier)
  <2>1. TierFile(targets, tier) = rows
    BY <1>4 DEF TierFile
  <2>2. \A a \in DOMAIN rows : a \in DOMAIN targets /\ rows[a].name = name(a) /\ Own(name(a), a)
    BY <1>1, <1>2
  <2>3. \A a, b \in DOMAIN targets : name(a) = name(b) => targets[a].name = targets[b].name
    BY <1>3
  <2> HIDE DEF rows, name
  <2>4. AllOwn(rows)
    BY <2>2 DEF AllOwn
  <2>5. Unique(targets) => Unique(rows)
    BY <2>2, <2>3 DEF Unique
  <2> QED
    BY <2>1, <2>4, <2>5
<1>5. CASE tier \notin EnabledTiers
  BY <1>5 DEF TierFile, AllOwn, Unique
<1> QED
  BY <1>4, <1>5

\* Overrides pin a plain name, collapsing keeps the winner's.
LEMMA WantedOwn ==
  ASSUME PlainNames, NEW targets, AllTargets(targets), AllOwn(targets), NEW c \in Configs
  PROVE  AllOwn(Collapse(ApplyOverrides(targets, c.overrides)))
<1> DEFINE overrides == c.overrides
           wanted == ApplyOverrides(targets, overrides)
           unique == Collapse(wanted)
<1>1. ASSUME NEW a \in DOMAIN wanted
      PROVE  a \in DOMAIN targets /\ IsTarget(wanted[a]) /\ Own(wanted[a].name, a)
  <2>1. a \in DOMAIN targets
    BY <1>1 DEF ApplyOverrides
  <2>2. IsTarget(targets[a]) /\ Own(targets[a].name, a)
    BY <2>1 DEF AllTargets, AllOwn
  <2>3. CASE wanted[a] = targets[a]
    BY <2>1, <2>2, <2>3
  <2>4. CASE wanted[a] # targets[a]
    <3> DEFINE o == OverrideOf(overrides, a)
    <3>1. wanted[a] = ApplyOverride(targets[a], o) /\ a \in Overridden(overrides)
      BY <1>1, <2>4 DEF ApplyOverrides
    <3>2. PICK i \in DOMAIN overrides : o = overrides[i] /\ overrides[i].addr = a
      BY <3>1, OverridesFind
    <3>3. o.name # NoName => Own(o.name, a)
      BY <3>2 DEF PlainNames
    <3> HIDE DEF o, wanted
    <3>4. IsTarget(wanted[a]) /\ wanted[a].name = IF o.name = NoName THEN targets[a].name ELSE o.name
      BY <2>2, <3>1 DEF ApplyOverride, IsTarget
    <3> QED
      BY <2>1, <2>2, <3>3, <3>4
  <2> QED
    BY <2>3, <2>4
<1> HIDE DEF wanted
<1>2. ASSUME NEW a \in DOMAIN unique
      PROVE  Own(unique[a].name, a)
  <2>1. a \in DOMAIN wanted
    BY <1>2 DEF Collapse
  <2>2. IsTarget(wanted[a]) /\ Own(wanted[a].name, a)
    BY <1>1, <2>1
  <2>3. unique[a].name = wanted[a].name
    BY <1>2, <2>2 DEF Collapse, IsTarget
  <2> QED
    BY <2>2, <2>3
<1> QED
  BY <1>2 DEF AllOwn, wanted

\* Every name anywhere is one that uniquifyNames and Row make; before a scan
\* publishes, and in the lists it has published, no two rows share one.
NamesOwn ==
  /\ AllOwn(TargetsIn(entries)) /\ AllOwn(TargetsIn(disk["state"]))
  /\ AllOwn(published) /\ AllOwn(found) /\ AllOwn(disk["hot"])

NamesInv ==
  /\ NamesOwn
  /\ pc \in Files => Unique(published)
  /\ \A file \in Written \cap AllTiers : Unique(disk[file])

LEMMA NothingNamed ==
  /\ AllOwn(TargetsIn(NoEntries)) /\ AllOwn(NoTargets)
  /\ \A es : DOMAIN TargetsIn(es) = DOMAIN es
BY DEF AllOwn, TargetsIn, NoEntries, NoTargets

LEMMA NamesInit == Init => NamesInv
<1> SUFFICES ASSUME Init PROVE NamesInv
  OBVIOUS
<1>1. disk["state"] = NoEntries /\ DOMAIN disk["hot"] = {}
  <2>1. DOMAIN Contents(NoTargets, NoEntries, "hot") \subseteq DOMAIN NoTargets
    BY HotContents
  <2> QED
    BY <2>1, HotContents, FilesKnown DEF Init, NoTargets
<1>2. AllOwn(disk["hot"])
  BY <1>1 DEF AllOwn
<1>3. NamesOwn
  BY <1>1, <1>2, NothingNamed DEF Init, NamesOwn
<1>4. pc \notin Files /\ Written = {}
  BY DEF Init, Files, AllTiers, Written
<1> QED
  BY <1>3, <1>4 DEF NamesInv

LEMMA MergeNames ==
  ASSUME PlainNames, TypeOK, Shaped, NamesOwn, Merge
  PROVE  AllOwn(TargetsIn(entries'))
<1> DEFINE unique == Collapse(ApplyOverrides(found, cfg.overrides))
<1>1. PICK order \in SetToSeqs(DOMAIN unique) :
        entries' = Merged(entries, UniquifyNames(unique, order))
  BY DEF Merge, MergeFound
<1> DEFINE seen == UniquifyNames(unique, order)
<1>2. AllTargets(found) /\ AllOwn(found)
  BY DEF Shaped, Unaliased, AllTargets, NamesOwn
<1>3. AllOwn(unique)
  BY <1>2, WantedOwn DEF TypeOK
<1>4. DOMAIN unique \subseteq Addr
  BY IdentityDomains DEF TypeOK
<1>5. AllTargets(unique)
  BY OverridesKeep, CollapseKeeps DEF Shaped, AllTargets
<1> HIDE DEF unique
<1>6. AllOwn(seen)
  BY <1>3, <1>4, <1>5, RenamedUnique
<1> HIDE DEF seen
<1>7. entries' = Merged(entries, seen)
  BY <1>1 DEF seen
<1>8. ASSUME NEW a \in DOMAIN entries'
      PROVE  Own(entries'[a].target.name, a)
  <2>1. /\ entries'[a].target = IF a \in DOMAIN seen THEN seen[a] ELSE entries[a].target
        /\ a \in DOMAIN seen \cup DOMAIN entries
    BY <1>7, <1>8, FreshWereSeen DEF TypeOK
  <2>2. \A b \in DOMAIN entries : Own(entries[b].target.name, b)
    BY DEF NamesOwn, AllOwn, TargetsIn
  <2> QED
    BY <1>6, <2>1, <2>2 DEF AllOwn
<1> QED
  BY <1>8 DEF AllOwn, TargetsIn

LEMMA OwnStep ==
  PlainNames /\ TypeOK /\ Shaped /\ NamesOwn /\ [Next]_vars => NamesOwn'
<1> SUFFICES ASSUME PlainNames, TypeOK, Shaped, NamesOwn, [Next]_vars PROVE NamesOwn'
  OBVIOUS
<1> USE FilesKnown
<1>0. ASSUME UNCHANGED <<entries, published, found, disk>>
      PROVE  NamesOwn'
  BY <1>0 DEF NamesOwn, AllOwn, TargetsIn
<1>1. CASE Boot
  <2>1. CASE entries' = disk["state"]
    BY <1>1, <2>1 DEF Boot, NamesOwn, scanVars
  <2>2. CASE entries' = [a \in DOMAIN disk["hot"] |-> Fresh(disk["hot"][a])]
    <3>1. TargetsIn(entries') = [a \in DOMAIN disk["hot"] |-> disk["hot"][a]]
      BY <2>2 DEF TargetsIn, Fresh
    <3>2. AllOwn(TargetsIn(entries'))
      BY <3>1 DEF AllOwn, NamesOwn
    <3> QED
      BY <1>1, <3>2 DEF Boot, NamesOwn, scanVars
  <2> QED
    BY <1>1, <2>1, <2>2 DEF Boot, LoadEntries, Replace
<1>2. CASE StartScan \/ Plan \/ Crawl \/ UNCHANGED vars
  BY <1>0, <1>2 DEF StartScan, Plan, Crawl, vars, scanVars
<1>3. CASE Probe \/ CrawlProbe
  <2>1. \A answered \in SUBSET Reachable : AllOwn(Results(answered))
    BY DEF AllOwn, Results, Target, PlainNames, Reachable, TypeOK
  <2>2. AllOwn(found')
    BY <1>3, <2>1 DEF Probe, CrawlProbe, Appended, AllOwn, NamesOwn
  <2> QED
    BY <1>3, <2>2 DEF Probe, CrawlProbe, NamesOwn
<1>4. CASE Merge
  <2>1. AllOwn(TargetsIn(entries'))
    BY <1>4, MergeNames
  <2> QED
    BY <1>4, <2>1, NothingNamed DEF Merge, NamesOwn
<1>5. ASSUME NEW gone, DropAddresses(gone)
      PROVE  AllOwn(TargetsIn(entries')) /\ AllOwn(Relisted(gone))
  BY <1>5 DEF DropAddresses, Without, Relisted, NamesOwn, AllOwn, TargetsIn
<1>6. CASE DropAliases
  BY <1>5, <1>6 DEF DropAliases, NamesOwn
<1>7. CASE DropIgnored
  <2> DEFINE listed == Relisted(IgnoredAddresses(cfg.overrides))
  <2>1. AllOwn(TargetsIn(entries')) /\ AllOwn(listed)
    BY <1>5, <1>7 DEF DropIgnored
  <2>2. published' = UniquifyNames(listed, ByAddress(listed))
    BY <1>7 DEF DropIgnored
  <2>3. AllTargets(listed) /\ DOMAIN listed \subseteq Addr
    BY <1>7 DEF DropIgnored, DropAddresses, Without, Relisted, Shaped, AllTargets, TargetsIn,
                TypeOK, CatalogOK
  <2> HIDE DEF listed
  <2>4. AllOwn(published')
    BY <2>1, <2>2, <2>3, SortedIsOrder, RenamedUnique
  <2> QED
    BY <1>7, <2>1, <2>4 DEF DropIgnored, NamesOwn
<1>8. ASSUME NEW file \in Files, Publish(file)
      PROVE  NamesOwn'
  <2>1. disk'["state"] \in {disk["state"], entries}
    BY <1>8, HotContents DEF Publish, TypeOK
  <2>2. AllOwn(disk'["hot"])
    <3>1. AllOwn(TierFile(published, "hot"))
      BY RowsUnique DEF Shaped, NamesOwn, AllTiers
    <3>2. disk'["hot"] \in {disk["hot"], TierFile(published, "hot")}
      BY <1>8 DEF Publish, TypeOK, Contents, AllTiers
    <3> QED
      BY <3>1, <3>2 DEF NamesOwn
  <2>3. AllOwn(published')
    BY <1>8, NothingNamed DEF Publish, NamesOwn
  <2> QED
    BY <1>8, <2>1, <2>2, <2>3 DEF Publish, NamesOwn
<1>9. CASE LoadFails \/ PlanFails \/ PublishFails \/ Crash
  <2>1. entries' \in {entries, NoEntries} /\ UNCHANGED disk
    BY <1>9 DEF LoadFails, PlanFails, PublishFails, Crash, ScanFails, Die
  <2>2. found' = NoTargets /\ published' = NoTargets
    BY <1>9 DEF LoadFails, PlanFails, PublishFails, Crash, ScanFails, Forget
  <2> QED
    BY <2>1, <2>2, NothingNamed DEF NamesOwn
<1>10. CASE LoseState
  <2>1. disk'["state"] = NoEntries /\ disk'["hot"] = disk["hot"]
    BY <1>10 DEF LoseState, TypeOK
  <2> QED
    BY <1>10, <2>1, NothingNamed DEF LoseState, scanVars, NamesOwn
<1> QED
  BY <1>1, <1>2, <1>3, <1>4, <1>6, <1>7, <1>8, <1>9, <1>10 DEF Next, ScanStep, Fault

\* The list a scan publishes, and what it writes of it.
LEMMA PublishNames ==
  ASSUME TypeOK, Shaped, NamesInv, NEW file \in Files \cap AllTiers, Publish(file)
  PROVE  Unique(disk'[file])
<1>1. disk'[file] = TierFile(published, file)
  BY DEF Publish, TypeOK, Contents, AllTiers
<1>2. Unique(published) /\ AllTargets(published) /\ AllOwn(published)
  BY DEF Publish, NamesInv, NamesOwn, Shaped
<1> QED
  BY <1>1, <1>2, RowsUnique

LEMMA NamesStep ==
  PlainNames /\ TypeOK /\ Shaped /\ NamesInv /\ [Next]_vars => NamesInv'
<1> SUFFICES ASSUME PlainNames, TypeOK, Shaped, NamesInv, [Next]_vars PROVE NamesInv'
  OBVIOUS
<1> USE FilesKnown
<1> DEFINE Idle == {"down", "ready", "plan", "probe", "crawl", "crawlProbe", "merge",
                    "dropAliases", "dropIgnored"}
<1>0. /\ Idle \cap Files = {}
      /\ \A s \in Idle \cup {"hot"} :
           s # "cold" /\ s # "topology" /\ s # "sd" /\ s # "state" /\ s # "idle"
  BY DEF Files, AllTiers
<1>8. NamesOwn'
  BY OwnStep DEF NamesInv
<1>1. ASSUME pc' \in Idle
      PROVE  NamesInv'
  BY <1>0, <1>8, <1>1 DEF NamesInv, Written
<1>2. CASE Boot \/ StartScan \/ Plan \/ Probe \/ Crawl \/ CrawlProbe \/ Merge \/ DropAliases \/ Crash
  BY <1>1, <1>2
     DEF Boot, StartScan, Plan, Probe, Crawl, CrawlProbe, Merge, DropAliases, Crash, Die
<1>3. CASE DropIgnored
  <2> DEFINE listed == Relisted(IgnoredAddresses(cfg.overrides))
  <2>1. AllOwn(listed)
    BY <1>3 DEF DropIgnored, DropAddresses, Without, Relisted, NamesInv, NamesOwn, AllOwn, TargetsIn
  <2>2. published' = UniquifyNames(listed, ByAddress(listed)) /\ pc' = "hot"
    BY <1>3 DEF DropIgnored
  <2>3. AllTargets(listed) /\ DOMAIN listed \subseteq Addr
    BY <1>3 DEF DropIgnored, DropAddresses, Without, Relisted, Shaped, AllTargets, TargetsIn,
                TypeOK, CatalogOK
  <2> HIDE DEF listed
  <2>4. Unique(published')
    BY <2>1, <2>2, <2>3, SortedIsOrder, RenamedUnique
  <2> QED
    BY <1>0, <1>8, <2>2, <2>4 DEF NamesInv, Written
<1>4. ASSUME NEW file \in Files, Publish(file)
      PROVE  NamesInv'
  <2>1. /\ file \in AllTiers => Unique(disk'[file])
        /\ \A other \in Files \ {file} : disk'[other] = disk[other]
    BY <1>4, PublishNames DEF Publish, TypeOK
  <2>2. Written' \subseteq (Written \cap Files) \cup {file}
    BY <1>4 DEF Publish, FileAfter, Written, Files, AllTiers
  <2>3. \A other \in Written' \cap AllTiers : Unique(disk'[other])
    BY <2>1, <2>2 DEF NamesInv
  <2>4. pc' \in Files => Unique(published')
    BY <1>4 DEF Publish, NamesInv, Files, AllTiers
  <2> QED
    BY <1>8, <2>3, <2>4 DEF NamesInv
<1>5. CASE LoadFails \/ PlanFails \/ PublishFails
  <2>1. ~scanOK' /\ (pc' = "idle" \/ pc' = "down")
    BY <1>5 DEF LoadFails, PlanFails, PublishFails, ScanFails, Die, Forget
  <2>2. pc' \notin Files /\ Written' = {}
    BY <2>1 DEF Files, AllTiers, Written
  <2> QED
    BY <1>8, <2>2 DEF NamesInv
<1>6. CASE LoseState
  BY <1>1, <1>6 DEF LoseState
<1>7. CASE UNCHANGED vars
  BY <1>8, <1>7 DEF vars, scanVars, NamesInv, Written
<1> QED
  BY <1>2, <1>3, <1>4, <1>5, <1>6, <1>7 DEF Next, ScanStep, Fault

\* After a completed scan, no two rows of a tier's list have the same scrape
\* name, as long as no override pins a device to the bare address of another:
\* a device whose name and whose suffixed name are both taken falls back on its
\* address, and that is nobody else's (uniquifyNames, TierTargets).
THEOREM NamesUnique ==
  ASSUME PlainNames
  PROVE  Spec => []FileNamesUnique
<1>1. Spec => [](TypeOK /\ Shaped)
  BY TypeCorrect, AlwaysShaped, PTL
<1>2. NamesInv => FileNamesUnique
  BY DEF NamesInv, Written, FileNamesUnique, Unique, Files
<1>3. TypeOK /\ Shaped /\ NamesInv /\ [Next]_vars => NamesInv'
  BY NamesStep
<1> QED
  BY <1>1, <1>2, <1>3, NamesInit, PTL DEF Spec

=============================================================================

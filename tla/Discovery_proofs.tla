--------------------------- MODULE Discovery_proofs ---------------------------
(***************************************************************************)
(* What holds of the daemon for every set of addresses, every list of      *)
(* groups and overrides, every network behind them and any number of       *)
(* faults.                                                                 *)
(***************************************************************************)
EXTENDS Discovery, TLAPS

-----------------------------------------------------------------------------
(* The helpers the scan is built from, as far as the proofs need them.     *)

\* Planning asks for configured addresses and known ones only.
LEMMA InitialJobsKnown ==
  ASSUME NEW c \in Configs, NEW prev, DOMAIN prev \subseteq Addr, NEW alive
  PROVE  DOMAIN InitialJobs(c.groups, prev, alive) \subseteq Addr
<1> DEFINE wanted == [i \in DOMAIN c.groups |->
                        SweepIPs(c.groups[i], alive) \cup SeedIPs(c.groups[i], prev)]
<1>1. ASSUME NEW i \in DOMAIN c.groups
      PROVE  wanted[i] \subseteq Addr
  BY <1>1, DiscoveryAssumption DEF SweepIPs, SeedIPs, InScope
<1>2. DOMAIN InitialJobs(c.groups, prev, alive) = UNION {wanted[i] : i \in DOMAIN c.groups}
  BY DEF InitialJobs, FirstGroupWins
<1> QED
  BY <1>1, <1>2

\* A crawl follows neighbours inside the configured networks only.
LEMMA CrawlJobsKnown ==
  ASSUME NEW c \in Configs, NEW claimed, NEW named
  PROVE  DOMAIN CrawlJobs(c.groups, claimed, named) \subseteq Addr
<1> DEFINE wanted == [i \in DOMAIN c.groups |->
                        NewNeighbors(c.groups[i], claimed, named[i])]
<1>1. ASSUME NEW i \in DOMAIN c.groups
      PROVE  wanted[i] \subseteq Addr
  BY <1>1, DiscoveryAssumption DEF NewNeighbors, InScope
<1>2. DOMAIN CrawlJobs(c.groups, claimed, named)
        = UNION {wanted[i] : i \in DOMAIN c.groups}
  BY DEF CrawlJobs, FirstGroupWins
<1> QED
  BY <1>1, <1>2

\* Overrides and the collapse only remove targets, and renaming keeps them all.
LEMMA IdentityDomains ==
  ASSUME NEW targets, NEW overrides, NEW order
  PROVE  /\ DOMAIN ApplyOverrides(targets, overrides) \subseteq DOMAIN targets
         /\ DOMAIN Collapse(targets) \subseteq DOMAIN targets
         /\ Collapsed(targets) \subseteq DOMAIN targets
         /\ DOMAIN UniquifyNames(targets, order) = DOMAIN targets
<1>1. DOMAIN ApplyOverrides(targets, overrides) \subseteq DOMAIN targets
  BY DEF ApplyOverrides
<1>2. DOMAIN Collapse(targets) \subseteq DOMAIN targets
  BY DEF Collapse
<1>3. Collapsed(targets) \subseteq DOMAIN targets
  BY DEF Collapsed
<1>4. DOMAIN UniquifyNames(targets, order) = DOMAIN targets
  BY DEF UniquifyNames
<1> QED
  BY <1>1, <1>2, <1>3, <1>4

\* A pass keeps the counters of a catalogue numbers, and below the limit.
LEMMA MergedOK ==
  ASSUME NEW es, CatalogOK(es), NEW seen, DOMAIN seen \subseteq Addr
  PROVE  CatalogOK(Merged(es, seen)) /\ (BelowLimit(es) => BelowLimit(Merged(es, seen)))
<1> DEFINE merged == Merged(es, seen)
<1>1. DOMAIN merged \subseteq DOMAIN seen \cup DOMAIN es
  BY DEF Merged
<1>2. ASSUME NEW a \in DOMAIN seen
      PROVE  a \in DOMAIN merged /\ merged[a].misses = 0
  BY DEF Merged, Fresh
<1>3. ASSUME NEW a \in DOMAIN merged \ DOMAIN seen
      PROVE  /\ a \in DOMAIN es
             /\ merged[a].misses = es[a].misses + 1
             /\ ~ (Misses > 0 /\ es[a].misses + 1 >= Misses)
  BY DEF Merged, Aged, Expired
<1>4. CatalogOK(merged)
  BY <1>1, <1>2, <1>3 DEF CatalogOK
<1>5. BelowLimit(merged)
  BY <1>2, <1>3, MissesAssumption DEF BelowLimit, CatalogOK
<1> QED
  BY <1>4, <1>5

LEMMA WithoutOK ==
  ASSUME NEW es, CatalogOK(es), NEW gone
  PROVE  CatalogOK(Without(es, gone)) /\ (BelowLimit(es) => BelowLimit(Without(es, gone)))
BY DEF CatalogOK, BelowLimit, Without

\* Reseeding from the YAML list starts every counter at zero.
LEMMA ReseededOK ==
  ASSUME NEW targets, DOMAIN targets \subseteq Addr
  PROVE  LET es == [a \in DOMAIN targets |-> Fresh(targets[a])]
         IN  CatalogOK(es) /\ BelowLimit(es)
BY MissesAssumption DEF CatalogOK, BelowLimit, Fresh

LEMMA NoEntriesOK == CatalogOK(NoEntries) /\ BelowLimit(NoEntries)
BY DEF CatalogOK, BelowLimit, NoEntries

LEMMA HotContents ==
  ASSUME NEW targets, NEW es
  PROVE  /\ DOMAIN Contents(targets, es, "hot") \subseteq DOMAIN targets
         /\ Contents(targets, es, "state") = es
BY DEF Contents, AllTiers, TierFile, TierTargets

LEMMA FilesKnown == {"hot", "cold", "topology", "state"} \subseteq Files
BY DEF Files, AllTiers

-----------------------------------------------------------------------------
(* Type correctness.                                                       *)

LEMMA TypeInit == Init => TypeOK
<1> SUFFICES ASSUME Init PROVE TypeOK
  OBVIOUS
<1>1. pc \in PCs /\ cfg \in Configs
  BY DEF Init, PCs
<1>2. /\ DOMAIN disk = Files
      /\ disk["state"] = NoEntries
      /\ DOMAIN disk["hot"] \subseteq Addr
  BY HotContents, FilesKnown DEF Init, NoTargets
<1>3. CatalogOK(entries) /\ CatalogOK(disk["state"])
  BY <1>2, NoEntriesOK DEF Init
<1>4. /\ DOMAIN jobs \subseteq Addr /\ DOMAIN found \subseteq Addr
      /\ DOMAIN published \subseteq Addr /\ folded \subseteq Addr
  BY DEF Init, NoTargets, NoJobs
<1>5. listening \in BOOLEAN /\ scanOK \in BOOLEAN
  BY DEF Init
<1>6. faults \in 0..MaxFaults
  BY DiscoveryAssumption DEF Init
<1> QED
  BY <1>1, <1>2, <1>3, <1>4, <1>5, <1>6 DEF TypeOK

\* What is left when the process dies, or a scan gives up, is well-typed.
LEMMA ScanFailsType ==
  ASSUME TypeOK, ScanFails
  PROVE  TypeOK'
<1>1. pc' \in PCs /\ CatalogOK(entries') /\ listening' \in BOOLEAN
  BY NoEntriesOK DEF ScanFails, Die, TypeOK, PCs
<1>2. faults' \in 0..MaxFaults
  BY DiscoveryAssumption DEF ScanFails, Fails, TypeOK
<1>3. /\ DOMAIN jobs' \subseteq Addr /\ DOMAIN found' \subseteq Addr
      /\ DOMAIN published' \subseteq Addr /\ folded' \subseteq Addr
      /\ scanOK' \in BOOLEAN
  BY DEF ScanFails, Forget, NoJobs, NoTargets
<1> QED
  BY <1>1, <1>2, <1>3 DEF TypeOK, ScanFails

LEMMA TypeStep == TypeOK /\ [Next]_vars => TypeOK'
<1> SUFFICES ASSUME TypeOK, [Next]_vars PROVE TypeOK'
  OBVIOUS
<1> USE FilesKnown
<1>1. CASE Boot
  <2>1. CatalogOK(entries')
    BY <1>1, ReseededOK DEF Boot, LoadEntries, Replace, TypeOK
  <2> QED
    BY <1>1, <2>1 DEF Boot, TypeOK, PCs, scanVars
<1>2. CASE StartScan
  BY <1>2 DEF StartScan, TypeOK, PCs, scanVars
<1>3. CASE Plan
  <2>1. DOMAIN Prev \subseteq Addr
    BY DEF Prev, TargetsIn, TypeOK, CatalogOK
  <2>2. DOMAIN jobs' \subseteq Addr
    BY <1>3, <2>1, InitialJobsKnown DEF Plan, TypeOK
  <2> QED
    BY <1>3, <2>2 DEF Plan, TypeOK, PCs
<1>4. CASE Probe
  <2>1. DOMAIN found' \subseteq Addr
    BY <1>4 DEF Probe, Results, Reachable, TypeOK
  <2> QED
    BY <1>4, <2>1 DEF Probe, TypeOK, PCs
<1>5. CASE Crawl
  <2>1. DOMAIN jobs' \subseteq Addr
    BY <1>5, CrawlJobsKnown DEF Crawl, TypeOK
  <2> QED
    BY <1>5, <2>1 DEF Crawl, TypeOK, PCs
<1>6. CASE CrawlProbe
  <2>1. DOMAIN found' \subseteq Addr
    BY <1>6 DEF CrawlProbe, Results, Reachable, TypeOK, Appended
  <2> QED
    BY <1>6, <2>1 DEF CrawlProbe, TypeOK, PCs, NoJobs
<1>7. CASE Merge
  <2> DEFINE wanted == ApplyOverrides(found, cfg.overrides)
  <2>1. DOMAIN wanted \subseteq Addr
    BY IdentityDomains DEF TypeOK
  <2>2. PICK order \in SetToSeqs(DOMAIN Collapse(wanted)) :
          entries' = Merged(entries, UniquifyNames(Collapse(wanted), order))
    BY <1>7 DEF Merge, MergeFound
  <2>3. DOMAIN UniquifyNames(Collapse(wanted), order) \subseteq Addr
    BY <2>1, IdentityDomains
  <2>4. CatalogOK(entries')
    BY <2>2, <2>3, MergedOK DEF TypeOK
  <2>5. DOMAIN published' \subseteq Addr
    BY <1>7, <2>4 DEF Merge, TargetsIn, CatalogOK
  <2>6. folded' \subseteq Addr
    BY <1>7, <2>1, IdentityDomains DEF Merge
  <2> QED
    BY <1>7, <2>4, <2>5, <2>6 DEF Merge, TypeOK, PCs, NoTargets
<1>8. CASE DropAliases
  <2>1. CatalogOK(entries')
    BY <1>8, WithoutOK DEF DropAliases, DropAddresses, TypeOK
  <2>2. DOMAIN published' \subseteq Addr
    BY <1>8, <2>1 DEF DropAliases, Relisted, TargetsIn, CatalogOK, TypeOK
  <2> QED
    BY <1>8, <2>1, <2>2 DEF DropAliases, TypeOK, PCs
<1>9. CASE DropIgnored
  <2>1. CatalogOK(entries')
    BY <1>9, WithoutOK DEF DropIgnored, DropAddresses, TypeOK
  <2>2. DOMAIN Relisted(IgnoredAddresses(cfg.overrides)) \subseteq Addr
    BY <2>1 DEF Relisted, TargetsIn, CatalogOK, TypeOK
  <2>3. DOMAIN published' \subseteq Addr
    BY <1>9, <2>2, IdentityDomains DEF DropIgnored
  <2> QED
    BY <1>9, <2>1, <2>3 DEF DropIgnored, TypeOK, PCs
<1>10. ASSUME NEW file \in Files, Publish(file)
       PROVE  TypeOK'
  <2>1. DOMAIN disk' = Files
    BY <1>10 DEF Publish, TypeOK
  <2>2. CatalogOK(disk'["state"])
    BY <1>10, HotContents DEF Publish, TypeOK
  <2>3. DOMAIN disk'["hot"] \subseteq Addr
    BY <1>10, HotContents DEF Publish, TypeOK
  <2>4. pc' \in PCs /\ DOMAIN published' \subseteq Addr
    BY <1>10 DEF Publish, TypeOK, PCs, Files, FileAfter, AllTiers, NoTargets
  <2> QED
    BY <1>10, <2>1, <2>2, <2>3, <2>4 DEF Publish, TypeOK
<1>11. CASE LoadFails \/ PlanFails \/ PublishFails
  BY <1>11, ScanFailsType DEF LoadFails, PlanFails, PublishFails
<1>12. CASE Crash
  <2>1. faults' \in 0..MaxFaults
    BY <1>12, DiscoveryAssumption DEF Crash, Fails, TypeOK
  <2> QED
    BY <1>12, <2>1, NoEntriesOK
    DEF Crash, Die, Forget, TypeOK, PCs, NoJobs, NoTargets
<1>13. CASE LoseState
  <2>1. faults' \in 0..MaxFaults
    BY <1>13, DiscoveryAssumption DEF LoseState, Fails, TypeOK
  <2>2. /\ DOMAIN disk' = Files
        /\ CatalogOK(disk'["state"])
        /\ disk'["hot"] = disk["hot"]
    BY <1>13, NoEntriesOK DEF LoseState, TypeOK
  <2> QED
    BY <1>13, <2>1, <2>2 DEF LoseState, TypeOK, scanVars
<1>14. CASE UNCHANGED vars
  BY <1>14 DEF vars, scanVars, TypeOK
<1> QED
  BY <1>1, <1>2, <1>3, <1>4, <1>5, <1>6, <1>7, <1>8, <1>9, <1>10, <1>11, <1>12,
     <1>13, <1>14 DEF Next, ScanStep, Fault

\* Every reachable state is well-typed, whatever the scans find.
THEOREM TypeCorrect == Spec => []TypeOK
<1> QED
  BY TypeInit, TypeStep, PTL DEF Spec

-----------------------------------------------------------------------------
(* Counters below the limit.                                               *)

LEMMA LimitInit == Init => MissesBelowLimit
BY NoEntriesOK, HotContents, FilesKnown DEF Init, MissesBelowLimit

LEMMA ScanFailsLimit ==
  ASSUME MissesBelowLimit, ScanFails
  PROVE  MissesBelowLimit'
BY NoEntriesOK DEF ScanFails, Die, MissesBelowLimit, BelowLimit

LEMMA LimitStep == TypeOK /\ MissesBelowLimit /\ [Next]_vars => MissesBelowLimit'
<1> SUFFICES ASSUME TypeOK, MissesBelowLimit, [Next]_vars PROVE MissesBelowLimit'
  OBVIOUS
<1> USE FilesKnown
<1>1. CASE Boot
  <2>1. BelowLimit(entries')
    BY <1>1, ReseededOK DEF Boot, LoadEntries, Replace, TypeOK, MissesBelowLimit
  <2> QED
    BY <1>1, <2>1 DEF Boot, MissesBelowLimit
<1>2. CASE StartScan \/ Plan \/ Probe \/ Crawl \/ CrawlProbe \/ UNCHANGED vars
  BY <1>2 DEF StartScan, Plan, Probe, Crawl, CrawlProbe, vars, MissesBelowLimit, BelowLimit
<1>3. CASE Merge
  <2> DEFINE unique == Collapse(ApplyOverrides(found, cfg.overrides))
  <2>1. PICK order \in SetToSeqs(DOMAIN unique) :
          entries' = Merged(entries, UniquifyNames(unique, order))
    BY <1>3 DEF Merge, MergeFound
  <2>2. DOMAIN UniquifyNames(unique, order) \subseteq Addr
    <3>1. DOMAIN unique \subseteq Addr
      BY IdentityDomains DEF TypeOK
    <3> QED
      BY <3>1, IdentityDomains
  <2>3. BelowLimit(entries')
    BY <2>1, <2>2, MergedOK DEF TypeOK, MissesBelowLimit
  <2> QED
    BY <1>3, <2>3 DEF Merge, MissesBelowLimit
<1>4. CASE DropAliases \/ DropIgnored
  <2>1. BelowLimit(entries')
    BY <1>4, WithoutOK DEF DropAliases, DropIgnored, DropAddresses, TypeOK, MissesBelowLimit
  <2> QED
    BY <1>4, <2>1 DEF DropAliases, DropIgnored, MissesBelowLimit
<1>5. ASSUME NEW file \in Files, Publish(file)
      PROVE  MissesBelowLimit'
  <2>1. disk'["state"] \in {disk["state"], entries}
    BY <1>5, HotContents DEF Publish, TypeOK
  <2> QED
    BY <1>5, <2>1 DEF Publish, MissesBelowLimit, BelowLimit
<1>6. CASE LoadFails \/ PlanFails \/ PublishFails
  BY <1>6, ScanFailsLimit DEF LoadFails, PlanFails, PublishFails
<1>7. CASE Crash
  BY <1>7, NoEntriesOK DEF Crash, Die, MissesBelowLimit
<1>8. CASE LoseState
  <2>1. disk'["state"] = NoEntries
    BY <1>8 DEF LoseState, TypeOK
  <2> QED
    BY <1>8, <2>1, NoEntriesOK DEF LoseState, MissesBelowLimit, BelowLimit
<1> QED
  BY <1>1, <1>2, <1>3, <1>4, <1>5, <1>6, <1>7, <1>8 DEF Next, ScanStep, Fault

\* No entry in memory or in the state file ever shows Misses silent passes or
\* more: MergeFound removes it in the step that would count that far.
THEOREM CountersBelowLimit == Spec => []MissesBelowLimit
<1>1. Spec => []TypeOK
  BY TypeCorrect
<1> QED
  BY <1>1, LimitInit, LimitStep, PTL DEF Spec
=============================================================================

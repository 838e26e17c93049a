---------------------------- MODULE Silence_proofs ----------------------------
(***************************************************************************)
(* The miss counters of the catalogue count consecutive silent passes, for *)
(* as long as the process lives.                                           *)
(***************************************************************************)
EXTENDS Silence, Scan_proofs

\* Every behaviour with the history variable is one of the daemon.
LEMMA SilenceIsDiscovery == SilenceSpec => Spec
<1>1. SilenceInit => Init
  BY DEF SilenceInit
<1>2. [SilenceNext]_silenceVars => [Next]_vars
  BY DEF SilenceNext, silenceVars
<1> QED
  BY <1>1, <1>2, PTL DEF SilenceSpec, Spec

LEMMA SmallerNumber ==
  ASSUME NEW m \in Nat, NEW n \in Nat
  PROVE  Min({m, n}) = IF m <= n THEN m ELSE n
<1>1. Min({m, n}) \in {m, n} /\ \A k \in {m, n} : Min({m, n}) <= k
  <2>1. \E n0 \in {m, n} : \A k \in {m, n} : n0 <= k
    OBVIOUS
  <2> QED
    BY <2>1 DEF Min
<1> QED
  BY <1>1

\* The counter of every entry outside `excused' is the number of silent passes.
CountedOutside(excused) ==
  \A a \in DOMAIN entries \ excused : entries[a].misses = silent[a]

\* The first process starts from nothing; a scan starts below the bound; after
\* MergeFound, only addresses that are about to be dropped have answered and are
\* counted as missing.
SilenceInv ==
  /\ silent \in [Addr -> Nat] /\ died \in BOOLEAN
  /\ pc \in {"plan", "probe", "crawl", "crawlProbe", "merge"} =>
       \A a \in DOMAIN entries : entries[a].misses < MaxMisses
  /\ ~died =>
       /\ pc = "down" => disk["state"] = NoEntries /\ DOMAIN disk["hot"] = {}
       /\ CountedOutside(CASE pc = "dropAliases" -> folded \cup IgnoredAddresses(cfg.overrides)
                           [] pc = "dropIgnored" -> IgnoredAddresses(cfg.overrides)
                           [] OTHER              -> {})

LEMMA SilenceInvInit == SilenceInit => SilenceInv
<1> SUFFICES ASSUME SilenceInit PROVE SilenceInv
  OBVIOUS
<1>1. disk["state"] = NoEntries /\ DOMAIN disk["hot"] = {}
  <2>1. DOMAIN Contents(NoTargets, NoEntries, "hot") \subseteq DOMAIN NoTargets
    BY HotContents
  <2> QED
    BY <2>1, HotContents, FilesKnown DEF SilenceInit, Init, NoTargets
<1> QED
  BY <1>1, DiscoveryAssumption DEF SilenceInit, Init, SilenceInv, CountedOutside, NoEntries

\* A pass counts for every address what the history variable counts.
LEMMA MergeCounts ==
  ASSUME TypeOK, Shaped, SilenceInv, Merge, Heed
  PROVE  /\ silent' \in [Addr -> Nat]
         /\ ~died =>
              \A a \in DOMAIN entries' \ (folded' \cup IgnoredAddresses(cfg.overrides)) :
                entries'[a].misses = silent'[a]
<1>1. ASSUME NEW n \in Nat
      PROVE  Min({n + 1, MaxMisses}) = IF n + 1 <= MaxMisses THEN n + 1 ELSE MaxMisses
  <2> DEFINE next == n + 1
  <2>1. next \in Nat /\ MaxMisses \in Nat
    BY DiscoveryAssumption
  <2> HIDE DEF next
  <2>2. Min({next, MaxMisses}) = IF next <= MaxMisses THEN next ELSE MaxMisses
    BY <2>1, SmallerNumber
  <2> QED
    BY <2>2 DEF next
<1>2. \A a \in Addr : silent'[a] = IF a \in DOMAIN found THEN 0
                                   ELSE IF silent[a] + 1 <= MaxMisses THEN silent[a] + 1 ELSE MaxMisses
  BY <1>1 DEF Heed, SilenceInv
<1>3. silent' \in [Addr -> Nat]
  <2>1. \A a \in Addr : silent'[a] \in Nat
    BY <1>2, DiscoveryAssumption DEF SilenceInv
  <2>2. silent' = [a \in Addr |-> silent'[a]]
    BY DEF Heed
  <2> QED
    BY <2>1, <2>2
<1>4. PICK seen : Observed(seen) /\ entries' = Merged(entries, seen)
  BY MergeObserves
<1>5. ASSUME ~died, NEW a \in DOMAIN entries', a \notin folded' \cup IgnoredAddresses(cfg.overrides)
      PROVE  entries'[a].misses = silent'[a]
  <2>1. DOMAIN seen \subseteq DOMAIN found /\ (a \in DOMAIN found => a \in DOMAIN seen)
    BY <1>4, <1>5 DEF Observed
  <2>2. CASE a \in DOMAIN seen
    <3>1. entries'[a].misses = 0
      BY <1>4, <2>2 DEF Merged, Fresh
    <3>2. a \in DOMAIN found /\ a \in Addr
      BY <2>1, <2>2 DEF TypeOK
    <3> QED
      BY <1>2, <3>1, <3>2
  <2>3. CASE a \notin DOMAIN seen
    <3>1. a \in DOMAIN entries /\ entries'[a].misses = entries[a].misses + 1
      BY <1>4, <2>3 DEF Merged, Aged
    <3>2. entries[a].misses = silent[a] /\ entries[a].misses < MaxMisses /\ a \in Addr
      BY <1>5, <3>1 DEF SilenceInv, CountedOutside, Merge, TypeOK, CatalogOK
    <3>3. silent[a] \in Nat
      BY <3>2 DEF SilenceInv
    <3> QED
      BY <1>2, <2>1, <2>3, <3>1, <3>2, <3>3, DiscoveryAssumption
  <2> QED
    BY <2>2, <2>3
<1> QED
  BY <1>3, <1>5
LEMMA SilenceInvStep ==
  TypeOK /\ Shaped /\ SilenceInv /\ [SilenceNext]_silenceVars => SilenceInv'
<1> SUFFICES ASSUME TypeOK, Shaped, SilenceInv, [SilenceNext]_silenceVars PROVE SilenceInv'
  OBVIOUS
<1> USE FilesKnown
<1> DEFINE Scanning == {"plan", "probe", "crawl", "crawlProbe", "merge"}
           Quiet(s) == s \notin {"dropAliases", "dropIgnored"}
<1>0. /\ {"dropAliases", "dropIgnored", "down", "merge"} \cap Files = {}
      /\ Scanning \cap Files = {}
  BY DEF Files, AllTiers
<1>1. CASE UNCHANGED silenceVars
  BY <1>1 DEF silenceVars, vars, scanVars, SilenceInv, CountedOutside
<1> SUFFICES ASSUME SilenceNext PROVE SilenceInv'
  BY <1>1
<1>2. died' \in BOOLEAN /\ (~died' => ~died /\ (pc = "down" \/ pc' # "down"))
  BY DEF SilenceNext, SilenceInv
<1>3. ASSUME ~(pc = "merge" /\ pc' = "dropAliases")
      PROVE  UNCHANGED silent
  BY <1>3 DEF SilenceNext
<1>4. CASE Boot
  <2>1. ~died => entries' = NoEntries
    <3>1. CASE disk["state"] # NoEntries
      BY <1>4, <3>1 DEF Boot, SilenceInv
    <3>2. CASE DOMAIN disk["hot"] = {} /\ disk["state"] = NoEntries
      BY <1>4, <3>2 DEF Boot, Replace, NoEntries
    <3> QED
      BY <1>4, <3>1, <3>2 DEF Boot, SilenceInv
  <2> QED
    BY <1>2, <1>3, <1>4, <2>1 DEF Boot, SilenceInv, CountedOutside, NoEntries
<1>5. CASE StartScan
  BY <1>2, <1>3, <1>5 DEF StartScan, SilenceInv, CountedOutside
<1>6. CASE Plan \/ Probe \/ Crawl \/ CrawlProbe
  BY <1>2, <1>3, <1>6 DEF Plan, Probe, Crawl, CrawlProbe, SilenceInv, CountedOutside
<1>7. CASE Merge
  <2>1. Heed
    BY <1>7 DEF Merge, SilenceNext
  <2>2. /\ silent' \in [Addr -> Nat]
        /\ ~died =>
             \A a \in DOMAIN entries' \ (folded' \cup IgnoredAddresses(cfg.overrides)) :
               entries'[a].misses = silent'[a]
    BY <1>7, <2>1, MergeCounts
  <2> QED
    BY <1>2, <1>7, <2>2 DEF Merge, SilenceInv, CountedOutside
<1>8. ASSUME NEW gone, DropAddresses(gone)
      PROVE  DOMAIN entries' = DOMAIN entries \ gone /\ \A a \in DOMAIN entries' : entries'[a] = entries[a]
  BY <1>8 DEF DropAddresses, Without
<1>9. CASE DropAliases
  <2>1. /\ DOMAIN entries' = DOMAIN entries \ folded
        /\ \A a \in DOMAIN entries' : entries'[a] = entries[a]
    BY <1>8, <1>9 DEF DropAliases
  <2> QED
    BY <1>2, <1>3, <1>9, <2>1 DEF DropAliases, SilenceInv, CountedOutside
<1>10. CASE DropIgnored
  <2>1. /\ DOMAIN entries' = DOMAIN entries \ IgnoredAddresses(cfg.overrides)
        /\ \A a \in DOMAIN entries' : entries'[a] = entries[a]
    BY <1>8, <1>10 DEF DropIgnored
  <2> QED
    BY <1>2, <1>3, <1>10, <2>1 DEF DropIgnored, SilenceInv, CountedOutside
<1>11. ASSUME NEW file \in Files, Publish(file)
       PROVE  SilenceInv'
  <2>1. /\ UNCHANGED <<entries, silent>>
        /\ Quiet(pc) /\ Quiet(pc') /\ pc' # "down" /\ pc' \notin Scanning
    BY <1>0, <1>3, <1>11 DEF Publish, FileAfter, Files, AllTiers
  <2> QED
    BY <1>2, <2>1 DEF SilenceInv, CountedOutside
<1>12. CASE LoadFails \/ PlanFails \/ PublishFails
  <2>1. /\ pc' \in {"idle", "down"} /\ Quiet(pc) /\ pc # "down"
        /\ entries' = entries \/ entries' = NoEntries
    BY <1>0, <1>12 DEF LoadFails, PlanFails, PublishFails, ScanFails, Die
  <2> QED
    BY <1>2, <1>3, <2>1 DEF SilenceInv, CountedOutside, NoEntries
<1>13. CASE Crash
  BY <1>2, <1>3, <1>13 DEF Crash, Die, SilenceInv, CountedOutside, NoEntries
<1>14. CASE LoseState
  <2>1. /\ pc = "down" /\ pc' = "down" /\ UNCHANGED entries
        /\ disk'["state"] = NoEntries /\ disk'["hot"] = disk["hot"]
    BY <1>14 DEF LoseState, TypeOK
  <2> QED
    BY <1>2, <1>3, <2>1 DEF SilenceInv, CountedOutside
<1> QED
  BY <1>4, <1>5, <1>6, <1>7, <1>9, <1>10, <1>11, <1>12, <1>13, <1>14
  DEF SilenceNext, Next, ScanStep, Fault

\* Until the process dies, the miss counter of every device is the number of
\* passes in a row that did not hear it, whatever was collapsed, ignored or
\* failed in between; only an address about to be dropped is off.
THEOREM CountersCountSilence == SilenceSpec => []CountsSilence
<1>1. SilenceSpec => [](TypeOK /\ Shaped)
  BY SilenceIsDiscovery, TypeCorrect, AlwaysShaped, PTL
<1>2. SilenceInv => CountsSilence
  BY DEF SilenceInv, CountsSilence, CountedOutside
<1> QED
  BY <1>1, <1>2, SilenceInvInit, SilenceInvStep, PTL DEF SilenceSpec

\* MergeFound drops an entry in the pass that brings its counter to Misses, and
\* the counter is right.
LEMMA MergeDropsSilent ==
  ASSUME TypeOK, Shaped, SilenceInv, ~died, Merge, Heed
  PROVE  DropsSilent
<1>1. PICK seen : Observed(seen) /\ entries' = Merged(entries, seen)
  BY MergeObserves
<1>2. SUFFICES ASSUME NEW a \in DOMAIN entries \ DOMAIN entries',
                      a \notin folded' \cup IgnoredAddresses(cfg.overrides)
               PROVE  silent'[a] >= Misses
  BY DEF DropsSilent
<1>3. a \notin DOMAIN seen /\ Expired(Aged(entries[a]))
  BY <1>1, <1>2 DEF Merged
<1>4. entries[a].misses + 1 >= Misses
  BY <1>3 DEF Expired, Aged
<1>5. a \in Addr /\ a \notin DOMAIN found
  BY <1>1, <1>2, <1>3 DEF Observed, TypeOK, CatalogOK
<1>6. entries[a].misses = silent[a] /\ silent[a] \in Nat /\ entries[a].misses < MaxMisses
  BY <1>5 DEF SilenceInv, CountedOutside, Merge
<1>7. silent'[a] = Min({silent[a] + 1, MaxMisses})
  BY <1>5 DEF Heed
<1> DEFINE next == silent[a] + 1
<1>8. next \in Nat /\ next <= MaxMisses /\ MaxMisses \in Nat
  BY <1>6, DiscoveryAssumption
<1>9. silent'[a] = next
  <2> HIDE DEF next
  <2>1. Min({next, MaxMisses}) = IF next <= MaxMisses THEN next ELSE MaxMisses
    BY <1>8, SmallerNumber
  <2> QED
    BY <1>7, <1>8, <2>1 DEF next
<1> QED
  BY <1>4, <1>6, <1>9

\* A process that lives drops no device before it has been silent for Misses
\* passes in a row: what is promised of Misses, but for restarts.
THEOREM LivingDropsLate == SilenceSpec => LivingDropsSilent
<1>1. SilenceSpec => [](TypeOK /\ Shaped)
  BY SilenceIsDiscovery, TypeCorrect, AlwaysShaped, PTL
<1>2. SilenceSpec => []SilenceInv
  BY <1>1, SilenceInvInit, SilenceInvStep, PTL DEF SilenceSpec
<1>3. TypeOK /\ Shaped /\ SilenceInv /\ [SilenceNext]_silenceVars
        => [~died /\ pc = "merge" /\ pc' = "dropAliases" => DropsSilent]_silenceVars
  <2> SUFFICES ASSUME TypeOK, Shaped, SilenceInv, SilenceNext,
                      ~died, pc = "merge", pc' = "dropAliases"
               PROVE  DropsSilent
    OBVIOUS
  <2>1. Heed
    BY DEF SilenceNext
  <2>2. Merge
    BY FilesKnown DEF SilenceNext, Next, ScanStep, Fault, Boot, StartScan, Plan, Probe, Crawl,
       CrawlProbe, DropAliases, DropIgnored, Publish, Files, AllTiers, LoadFails, PlanFails,
       PublishFails, ScanFails, Crash, Die, LoseState
  <2> QED
    BY <2>1, <2>2, MergeDropsSilent
<1> QED
  BY <1>1, <1>2, <1>3, PTL DEF SilenceSpec, LivingDropsSilent
===============================================================================

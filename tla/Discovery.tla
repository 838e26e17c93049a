------------------------------ MODULE Discovery ------------------------------
(***************************************************************************)
(* The discovery daemon: cmd/snmp-discovery run() around RunScan.  One     *)
(* goroutine scans; HTTP handlers read the catalogue between any two of    *)
(* its steps, so what `entries' holds while `listening' is what clients    *)
(* are served.  The process may die at any step and is started again.      *)
(***************************************************************************)
EXTENDS Catalog, Identity, Planner, Tiers

CONSTANTS
  Configs,     \* the configurations the operator may put in place
  Device,      \* [Addr -> [host, short, tiers, groups]]: the agent behind an
               \* address and the groups whose credentials it accepts
  Neighbors,   \* [Addr -> SUBSET Addr]: its LLDP and CDP tables
  OutSD,       \* --out-file-sd is given (--out-catalog is, throughout)
  MaxFaults,   \* bound: faults in one behaviour
  MaxMisses    \* bound: no scan starts once a miss counter has reached it

VARIABLES
  pc,          \* where the scanning goroutine is
  cfg,         \* configuration read by the current or last scan
  jobs,        \* probe jobs of the current pass
  found,       \* targets found so far by the current scan
  folded,      \* addresses collapsed into another identity by this scan
  published,   \* the target list the scan writes to the files
  disk,        \* the output files and the state file
  listening,   \* the HTTP server is up
  scanOK,      \* the last scan completed
  faults       \* faults so far

scanVars == <<jobs, found, folded, published>>
vars == <<pc, cfg, entries, scanVars, disk, listening, scanOK, faults>>

\* Nobody but the scanning goroutine writes the catalogue, so the snapshot a
\* scan takes at its start (prev) is its content until MergeFound.
Prev == TargetsIn(entries)

NoTargets == [a \in {} |-> a]
NoJobs == [a \in {} |-> a]

\* publishCatalog writes the three YAML lists, the file_sd list if asked for,
\* and the state file.
Files == AllTiers \cup {"state"} \cup (IF OutSD THEN {"sd"} ELSE {})

\* Mutant: the file_sd list is forgotten.
FileAfterNoSD(file) ==
  CASE file = "hot"      -> "cold"
    [] file = "cold"     -> "topology"
    [] file = "topology" -> "state"

FileAfter(file) ==
  CASE file = "hot"      -> "cold"
    [] file = "cold"     -> "topology"
    [] file = "topology" -> IF OutSD THEN "sd" ELSE "state"
    [] file = "sd"       -> "state"

\* A configuration lists its groups and overrides in order.  Addresses, of which
\* there are finitely many, are totally ordered by netip.Addr.Compare and by
\* their texts.
ASSUME DiscoveryAssumption ==
  /\ OutSD \in BOOLEAN /\ MaxFaults \in Nat /\ MaxMisses \in Nat
  /\ \A c \in Configs : \A list \in {c.groups, c.overrides} :
       Len(list) \in Nat /\ DOMAIN list = 1..Len(list)
  /\ \A c \in Configs : \A i \in DOMAIN c.groups :
       c.groups[i].cidrs \subseteq Addr /\ c.groups[i].seeds \subseteq Addr
  /\ IsFiniteSet(Addr)
  /\ \A a, b \in Addr :
       /\ Rank[a] \in Int /\ (Rank[a] = Rank[b] => a = b)
       /\ TextRank[a] \in Int /\ (TextRank[a] = TextRank[b] => a = b)

\* What the scan of `targets' and the catalogue `es' puts in each file.
Contents(targets, es, file) ==
  CASE file \in AllTiers -> TierFile(targets, file)
    [] file = "sd"       -> TargetsForTiers(targets)
    [] file = "state"    -> es

-----------------------------------------------------------------------------
(* Probing.  Any agent may be down at any moment, so which of the probed   *)
(* addresses answer is a free choice among those that take the credentials. *)

Target(a, group) ==
  [name |-> Device[a].short, host |-> Device[a].host, group |-> group,
   tiers |-> Device[a].tiers, aliases |-> {}]

Reachable == {a \in DOMAIN jobs : jobs[a] \in Device[a].groups}
Results(answered) == [a \in answered |-> Target(a, jobs[a])]

\* The crawl's targets are appended to those of the first pass.
Appended(first, second) ==
  [a \in DOMAIN first \cup DOMAIN second |->
     IF a \in DOMAIN first THEN first[a] ELSE second[a]]

\* What the walks of a group would read of complete neighbour tables, of the
\* agents that take its credentials.  An agent may not answer, or be cut off in
\* the middle of a table, in the walk of one group and not of another.
InTables(g) ==
  UNION {Neighbors[a] \ {a} :
           a \in {b \in WalkFrom(g, Prev, found) : g.name \in Device[b].groups}}
Heard ==
  {named \in [DOMAIN cfg.groups -> SUBSET Addr] :
     \A i \in DOMAIN cfg.groups : named[i] \subseteq InTables(cfg.groups[i])}

-----------------------------------------------------------------------------
Init ==
  /\ pc = "down"
  /\ cfg \in Configs
  /\ entries = NoEntries
  /\ jobs = NoJobs
  /\ found = NoTargets
  /\ folded = {}
  /\ published = NoTargets
  /\ disk = [file \in Files |-> Contents(NoTargets, NoEntries, file)]
  /\ listening = FALSE
  /\ scanOK = FALSE
  /\ faults = 0

\* Mutant: the YAML list is preferred to the state file.
BootFromYaml ==
  /\ pc = "down"
  /\ pc' = "ready"
  /\ Replace(disk["hot"])
  /\ UNCHANGED <<cfg, scanVars, disk, listening, scanOK, faults>>

\* Start-up: the state file when it holds entries, else the hot YAML list.
\* A file that is missing or unreadable counts as an empty one.
Boot ==
  /\ pc = "down"
  /\ pc' = "ready"
  /\ IF disk["state"] # NoEntries THEN LoadEntries(disk["state"])
     ELSE Replace(disk["hot"])
  /\ UNCHANGED <<cfg, scanVars, disk, listening, scanOK, faults>>

\* scanOnce, first at start-up and then at each tick.  The configuration is
\* read afresh: the operator may have edited it since the last scan.
StartScan ==
  /\ pc \in {"ready", "idle"}
  /\ \A a \in DOMAIN entries : entries[a].misses < MaxMisses
  /\ pc' = "plan"
  /\ cfg' \in Configs
  /\ scanOK' = FALSE
  /\ UNCHANGED <<entries, scanVars, disk, listening, faults>>

Plan ==
  /\ pc = "plan"
  /\ pc' = "probe"
  /\ \E alive \in SUBSET Addr : jobs' = InitialJobs(cfg.groups, Prev, alive)
  /\ UNCHANGED <<cfg, entries, found, folded, published, disk, listening, scanOK, faults>>

Probe ==
  /\ pc = "probe"
  /\ pc' = "crawl"
  /\ \E answered \in SUBSET Reachable : found' = Results(answered)
  /\ UNCHANGED <<cfg, entries, jobs, folded, published, disk, listening, scanOK, faults>>

Crawl ==
  /\ pc = "crawl"
  /\ pc' = "crawlProbe"
  /\ \E named \in Heard : jobs' = CrawlJobs(cfg.groups, DOMAIN jobs, named)
  /\ UNCHANGED <<cfg, entries, found, folded, published, disk, listening, scanOK, faults>>

CrawlProbe ==
  /\ pc = "crawlProbe"
  /\ pc' = "merge"
  /\ \E answered \in SUBSET Reachable : found' = Appended(found, Results(answered))
  /\ jobs' = NoJobs
  /\ UNCHANGED <<cfg, entries, folded, published, disk, listening, scanOK, faults>>

\* Overrides, collapse, names in the order the workers happened to append the
\* targets, then the first of the three catalogue updates.
Merge ==
  /\ pc = "merge"
  /\ pc' = "dropAliases"
  /\ LET wanted == ApplyOverrides(found, cfg.overrides)
         unique == Collapse(wanted)
     IN  /\ folded' = Collapsed(wanted)
         /\ \E order \in SetToSeqs(DOMAIN unique) :
              MergeFound(UniquifyNames(unique, order))
  /\ published' = TargetsIn(entries')
  /\ found' = NoTargets
  /\ UNCHANGED <<cfg, jobs, disk, listening, scanOK, faults>>

\* Mutant: the list taken before the drops is kept.
RelistedNever(gone) == published

\* The list is taken again only when DropAddresses removed something.
Relisted(gone) ==
  IF gone \cap DOMAIN entries # {} THEN TargetsIn(entries') ELSE published

\* Mutant: the collapsed addresses stay in the catalogue.
DropAliasesForgotten ==
  /\ pc = "dropAliases"
  /\ pc' = "dropIgnored"
  /\ folded' = {}
  /\ UNCHANGED <<cfg, entries, published, jobs, found, disk, listening, scanOK, faults>>

DropAliases ==
  /\ pc = "dropAliases"
  /\ pc' = "dropIgnored"
  /\ DropAddresses(folded)
  /\ published' = Relisted(folded)
  /\ folded' = {}
  /\ UNCHANGED <<cfg, jobs, found, disk, listening, scanOK, faults>>

\* Mutants: ignored inventory is not dropped; the final list is not renamed.
DropIgnoredForgotten ==
  /\ pc = "dropIgnored"
  /\ pc' = "hot"
  /\ published' = UniquifyNames(published, ByAddress(published))
  /\ UNCHANGED <<cfg, entries, jobs, found, folded, disk, listening, scanOK, faults>>
DropIgnoredAsNamed ==
  /\ pc = "dropIgnored"
  /\ pc' = "hot"
  /\ DropAddresses(IgnoredAddresses(cfg.overrides))
  /\ published' = Relisted(IgnoredAddresses(cfg.overrides))
  /\ UNCHANGED <<cfg, jobs, found, folded, disk, listening, scanOK, faults>>

\* The second drop is followed by the final sort and renaming of the list.
DropIgnored ==
  /\ pc = "dropIgnored"
  /\ pc' = "hot"
  /\ LET ignored == IgnoredAddresses(cfg.overrides)
         listed == Relisted(ignored)
     IN  /\ DropAddresses(ignored)
         /\ published' = UniquifyNames(listed, ByAddress(listed))
  /\ UNCHANGED <<cfg, jobs, found, folded, disk, listening, scanOK, faults>>

\* publishCatalog writes one file after the other, each by temp file + rename.
\* The last write completes the scan; after the first one the server starts.
Publish(file) ==
  /\ pc = file
  /\ disk' = [disk EXCEPT ![file] = Contents(published, entries, file)]
  /\ IF file = "state"
     THEN pc' = "idle" /\ published' = NoTargets /\ listening' = TRUE /\ scanOK' = TRUE
     ELSE pc' = FileAfter(file) /\ UNCHANGED <<published, listening, scanOK>>
  /\ UNCHANGED <<cfg, entries, jobs, found, folded, faults>>

ScanStep ==
  \/ Boot \/ StartScan \/ Plan \/ Probe \/ Crawl \/ CrawlProbe
  \/ Merge \/ DropAliases \/ DropIgnored
  \/ \E file \in Files : Publish(file)

-----------------------------------------------------------------------------
(* What can go wrong.                                                      *)

Fails == faults < MaxFaults /\ faults' = faults + 1

\* The process is gone, and with it everything but the files.
Die ==
  /\ pc' = "down"
  /\ entries' = NoEntries
  /\ listening' = FALSE

Forget ==
  /\ jobs' = NoJobs
  /\ found' = NoTargets
  /\ folded' = {}
  /\ published' = NoTargets
  /\ scanOK' = FALSE

\* A scan that returns an error: the daemon logs it and waits for the next
\* tick, but when the first scan fails run() returns and the process ends.
ScanFails ==
  /\ Fails
  /\ IF listening THEN pc' = "idle" /\ UNCHANGED <<entries, listening>> ELSE Die
  /\ Forget
  /\ UNCHANGED <<cfg, disk>>

\* Unreadable configuration or overrides file (LoadRunConfig, MergeOverridesFile).
LoadFails == pc \in {"ready", "idle"} /\ ScanFails

\* Fingerprinters, credentials, networks or the ping socket, before any probe.
PlanFails == pc = "plan" /\ ScanFails

\* A file cannot be written; the ones before it have been.
PublishFails == pc \in Files /\ ScanFails

\* SIGKILL or power loss at any step; SIGTERM, which stops the daemon when idle.
Crash ==
  /\ pc # "down"
  /\ Fails
  /\ Die
  /\ Forget
  /\ UNCHANGED <<cfg, disk>>

\* The state file is lost or unreadable when the process comes back.
LoseState ==
  /\ pc = "down"
  /\ Fails
  /\ disk' = [disk EXCEPT !["state"] = NoEntries]
  /\ UNCHANGED <<pc, cfg, entries, scanVars, listening, scanOK>>

Fault == LoadFails \/ PlanFails \/ PublishFails \/ Crash \/ LoseState

-----------------------------------------------------------------------------
Next == ScanStep \/ Fault

Spec == Init /\ [][Next]_vars

\* The scanning goroutine is scheduled and the ticker keeps firing; every
\* network operation of a scan has a timeout, so each of its steps ends.
FairSpec == Spec /\ WF_vars(ScanStep)
-----------------------------------------------------------------------------
(* Properties.                                                             *)

PCs == {"down", "ready", "plan", "probe", "crawl", "crawlProbe", "merge",
        "dropAliases", "dropIgnored", "idle"} \cup Files

CatalogOK(es) == DOMAIN es \subseteq Addr /\ \A a \in DOMAIN es : es[a].misses \in Nat

\* Every list is about known addresses and every counter is a number: the
\* shape Catalog, the scan's locals and the files keep in every step.
TypeOK ==
  /\ pc \in PCs /\ cfg \in Configs
  /\ CatalogOK(entries) /\ CatalogOK(disk["state"])
  /\ DOMAIN jobs \subseteq Addr /\ DOMAIN found \subseteq Addr
  /\ DOMAIN published \subseteq Addr
  /\ folded \subseteq Addr
  /\ DOMAIN disk = Files /\ DOMAIN disk["hot"] \subseteq Addr
  /\ listening \in BOOLEAN /\ scanOK \in BOOLEAN /\ faults \in 0..MaxFaults

\* MergeFound drops an entry in the step that would bring its counter to the
\* limit, so no entry in memory or on disk ever shows Misses or more, through
\* crashes, restored state files and reseeding from YAML (httpsd.go 118-125).
BelowLimit(es) == Misses > 0 => \A a \in DOMAIN es : es[a].misses < Misses
MissesBelowLimit == BelowLimit(entries) /\ BelowLimit(disk["state"])

Nameless(rows) == [a \in DOMAIN rows |-> [rows[a] EXCEPT !.name = <<>>]]

\* After a scan that completed, every file lists exactly what the catalogue
\* (and so the HTTP endpoints) holds; only the scrape names may differ, which
\* uniquifyNames changes in the published copy alone (scan.go 154-200).
FilesAgree ==
  pc = "idle" /\ scanOK =>
    /\ disk["state"] = entries
    /\ \A tier \in AllTiers :
         Nameless(disk[tier]) = Nameless(TierFile(Prev, tier))
    /\ OutSD => \A tier \in EnabledTiers :
         Nameless(disk["sd"][tier]) = Nameless(TierTargets(Prev, tier))

\* An address recorded as alias of a device that answered the last scan is not
\* listed as a device of its own, except to clients that read between
\* MergeFound and the DropAddresses that follows it (scan.go 154-158).
AliasesFolded ==
  pc # "dropAliases" =>
    \A a \in DOMAIN entries :
      entries[a].misses = 0 => entries[a].target.aliases \cap DOMAIN entries = {}

\* While clients are served, two devices that both answered the last scan do
\* not share a hostname (collapseSameHostname), whatever stale entries remain.
OneFreshIdentity ==
  listening /\ ~AllowDuplicateSysName =>
    \A a, b \in DOMAIN entries :
      /\ entries[a].misses = 0 /\ entries[b].misses = 0
      /\ entries[a].target.host = entries[b].target.host
      /\ entries[a].target.host # NoHost
      => a = b

\* Once a scan has applied an ignore override, the address is in no file and
\* not in the catalogue, even if it was inventory before (scan.go 159-162).
IgnoredGone ==
  LET ignored == IgnoredAddresses(cfg.overrides)
  IN  /\ pc \in Files \/ (pc = "idle" /\ scanOK) => ignored \cap DOMAIN entries = {}
      /\ pc = "idle" /\ scanOK =>
           \A tier \in AllTiers : ignored \cap DOMAIN disk[tier] = {}

\* The daemon is an Inventory: every address that answers is in the catalogue
\* afterwards, or folded into one that answered too, or ignored; none leaves it
\* otherwise before it has been silent for Misses passes; a scan that fails
\* before its probes are over changes nothing, and a restart restores what was
\* saved, or else the hot list.
View(es) ==
  [a \in DOMAIN es |->
     [misses |-> es[a].misses, aliases |-> es[a].target.aliases,
      hot |-> "hot" \in es[a].target.tiers \cap EnabledTiers]]

Stage ==
  CASE pc = "down"          -> "down"
    [] pc \in {"ready", "idle"} -> "rest"
    [] pc \in {"plan", "probe", "crawl", "crawlProbe"} -> "probing"
    [] pc = "merge"         -> "heard"
    [] pc = "dropAliases"   -> "fold"
    [] pc = "dropIgnored"   -> "ignore"
    [] pc = "hot"           -> "list"
    [] OTHER                -> "save"

AbstractInventory == INSTANCE Inventory WITH
  IgnoreLists <- {IgnoredAddresses(c.overrides) : c \in Configs},
  stage <- Stage,
  known <- View(entries), saved <- View(disk["state"]), listed <- DOMAIN disk["hot"],
  heard <- IF pc = "merge" THEN DOMAIN found ELSE {},
  folding <- IF pc = "dropAliases" THEN folded ELSE {},
  ignored <- IgnoredAddresses(cfg.overrides)
KeepsInventory == AbstractInventory!Spec

\* Every known device whose group is still configured is probed again by the
\* next scan, by that group or by an earlier one that asks for the address,
\* even if it does not answer ICMP (scan.go 386-388).
KnownReprobed ==
  pc = "probe" =>
    \A a \in DOMAIN entries :
      (\E i \in DOMAIN cfg.groups : cfg.groups[i].name = entries[a].target.group)
        => a \in DOMAIN jobs

\* As long as the configuration does not change, the catalogue never holds an
\* address outside the networks and seeds of its group, however it was found:
\* neighbours are filtered by cidrs and exclude (scan.go 469).
InGroupScope ==
  \A a \in DOMAIN entries : \E i \in DOMAIN cfg.groups :
    LET g == cfg.groups[i]
    IN  g.name = entries[a].target.group /\ a \in InScope(g) \cup g.seeds

\* No two rows of a published tier have the same scrape name, also when a
\* stale entry has the short name of a device found under another address.
FileNamesUnique ==
  pc = "idle" /\ scanOK =>
    \A tier \in AllTiers : \A a, b \in DOMAIN disk[tier] :
      disk[tier][a].name = disk[tier][b].name => a = b

-----------------------------------------------------------------------------
(* Liveness, once the faults stop: MaxFaults bounds them.                  *)

\* A device that no scan hears any more leaves the catalogue and the files.
SilentLeaves ==
  \A a \in Addr :
    <>[](a \notin DOMAIN found) =>
      <>[](a \notin DOMAIN entries /\ \A tier \in AllTiers : a \notin DOMAIN disk[tier])

\* A device that every scan reports settles in the catalogue and in the state
\* file: it survives the misses counted while the faults lasted.
Reported(a) == a \in DOMAIN Collapse(ApplyOverrides(found, cfg.overrides))
ReportedStays ==
  \A a \in Addr :
    <>[](pc = "merge" => Reported(a)) =>
      <>[](a \in DOMAIN entries /\ a \in DOMAIN disk["state"])
=============================================================================

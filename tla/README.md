# A TLA+ verification project for snmp-sd

`snmp-discovery` finds SNMP devices in configured networks, keeps a sticky
catalogue of them and publishes it as scrape targets: as YAML lists for Alloy,
as Prometheus `file_sd`, and over HTTP. Commands beside the daemon write its
configuration and draft exporter modules from SNMP walks. This directory holds
a TLA+ model of the daemon and of these commands, the TLC configurations that
check it on small instances, and TLAPS proofs for all instances of every safety
property and refinement these runs check. Paths below are relative to `src/`.

## The system

| Component | State | Operations | Talks to |
|---|---|---|---|
| **Catalog** `snmpdiscovery/httpsd.go` | entries (target, last seen, misses), under an RWMutex | Replace, LoadEntries, MergeFound, DropAddresses, Snapshot, SnapshotEntries, WriteCatalogState, ReadCatalogState | written by Scan and start-up, read by Scan and HTTP |
| **Scan** `snmpdiscovery/scan.go`, `discover.go` | locals of RunScan: jobs, claimed, found, collapsed, published | RunScan: plan, ping, probe, crawl, overrides, collapse, names, merge, drops, publish | Catalog, Probe pool, Crawl, Identity, Files |
| **Probe pool** `scan.go` probeAll | channel, shared slice + mutex, atomic counters, WaitGroup | feed, probe, count, append, wait | SNMP probe, Metrics (observer callbacks) |
| **Identity** `identity.go`, `groups.go`, `emit.go` | none (pure) | applyOverrides, collapseSameHostname, uniquifyNames, targetNames | called by Scan |
| **Daemon** `cmd/snmp-discovery/main.go`, `runconfig.go` | scanMu, ticker, server | flags, load state, scanOnce, listen, tick, shut down | everything |
| **Files** `emit.go` | YAML lists per tier, file_sd list, state file | writeFileAtomic, WriteAlloyYAML, writeFileSD, ReadAlloyYAML | written by Scan, read by start-up and by Alloy / Prometheus |
| **Crawl** `crawl.go` | none | walkNeighbors, allowNeighbor, table decoding | SNMP agents |
| **HTTP service discovery** `httpsd.go`, `shard.go` | none of its own | /sd, /alloy, /healthz, shard selection | Catalog |
| **SNMP probe** `snmp.go` | socket | auth and retry loops, error classes | SNMP agents |
| **ICMP filter** `ping.go` | socket, shared read deadline, alive set | sender, reader | hosts |
| **Address arithmetic** `cidr.go` | none | expand, exclude, canonical form | Scan, Crawl, groups |
| **Fingerprints** `fingerprint.go` | compiled rules | match, partition into tiers, filter to known modules | Probe pool |
| **Metrics** `cmd/snmp-discovery/metrics.go`, `observer.go` | gauges and counters | ProbeBegin, ProbeEnd, DeviceFound, observeScan | Probe pool, Daemon |
| **init command** `initcfg.go`, `cmd/.../init.go` | auths.yml, discovery.yml | flags or interview, validate, render, write, check | operator; the daemon reads the files |
| **walk commands** `walk*.go`, `cmd/.../walk.go` | pick file, module file | walk, cluster, cover, draft, emit | library authors |
| **Module library, converter** `snmp/`, `tools/` | YAML data | off-line generation | - |

One goroutine scans. It reads the configuration, takes a snapshot of the
catalogue, plans probe jobs group by group (first group wins an address), runs
them through the pool, reads neighbour tables and runs the jobs that follow
from them, turns the answers into identities, and updates the catalogue in
three steps (MergeFound, DropAddresses of collapsed aliases, DropAddresses of
ignored addresses). Then it writes the files one after the other, the state
file last. HTTP handlers read the catalogue under its lock at any time. The
catalogue survives a restart through the state file, or else through the hot
YAML list.

What is hard: a crash or a failed write between any two of these steps;
clients that read between them; scans in which the *same* router answers on a
different subset of its addresses each time; counters that age over many scans
and are saved only at the end of each; groups that compete for addresses; the
interleavings of the worker pool. `PROJECT.json` lists these hazards line by
line.

What makes each component correct:

* Catalog and Daemon: a device is kept until it has been silent for `Misses`
  completed scans in a row, is dropped then, and nothing else removes it but an
  alias or the operator; restarts restore what was saved.
* Scan and Files: after a completed scan, files, state and catalogue agree.
* Identity: one entry per sysName among the devices just seen, unique scrape
  names in the files, ignored devices nowhere.
* Planner and Crawl: known inventory is always probed again; nothing out of
  scope is probed because a neighbour named it.
* Probe pool: it ends, returns each answered job once, and counts each once.
* SNMP probe: credentials are tried in turn, each once, the last one that worked
  first; the report fits what happened; modules fit the answer.
* ICMP filter and addresses: a group's networks become exactly the addresses
  asked for; the filter keeps those that answered, and ends.
* init: what it writes the daemon reads as it was validated; nothing is
  overwritten unasked.
* walk commands: what the emitted module does not fetch of a walk is left out
  for a reason; a table's labels cover its index; nothing is overwritten.

## Modules

| Module | Models | State and actions |
|---|---|---|
| `Catalog` | `Catalog` of httpsd.go | `entries` is `Catalog.entries` as a function from addresses; one operator per method |
| `Identity` | overrides, collapse, unique names | pure operators |
| `Planner` | planInitialJobs, planCrawlJobs | pure operators; a job list is a function from address to group |
| `Tiers` | TierTargets, TargetsForTiers | pure operators |
| `Discovery` | run() and RunScan, composing the four above | one action per step, see below |
| `Inventory` | the abstract promise of the daemon, round by round | `stage`, `known`, `saved`, `listed`, `heard`, `folding`, `ignored` |
| `Silence` | Discovery with a history variable | `silent`: passes since each address last answered |
| `DocumentedClaims` | statements of comments and docs | properties only |
| `ProbePool` | probeAll | a label per worker; each channel, lock, counter and append operation a step |
| `ProbePass` | the abstract promise of probeAll | `outcome`, `returned`, `result` |
| `Credentials` | lastAuthByAddr, preferAuth, probe() and what probeAll makes of it, over many scans of one address | the loops of probe() call by call |
| `Hunt` | the abstract promise of a probe | `queue`, `winner` |
| `Fingerprint` | matchers, tiers, filter | pure operators |
| `Cidr` | networks and addresses | pure operators |
| `Sweep` | expandCIDRs, filterExcluded, icmpAlive, pingFamily | planning goroutine (also the sender), reader, socket |
| `InitPlan` | validation and rendering of init's files, the daemon's reading of them | pure operators |
| `WalkPick` | ClusterWalk, DraftPick, EmitPickModule | pure operators |
| `Commands` | init, init --check, walk-pick, walk-emit in one directory | `files`, and a `job` that writes them call by call |
| `MCDiscovery`, `MCSilence`, `MCCredentials`, `MCSweep`, `MCCommands` | instances | constants only |
| `Lists` | the loop that makes a list of some elements of another | `ElementsAt` |
| `Numbers_proofs` | lemmas on recursions over numbers, sequences and `ElementsAt` | |
| `Discovery_proofs`, `Scan_proofs`, `Silence_proofs`, `ProbePool_proofs`, `Credentials_proofs`, `Sweep_proofs`, `Commands_proofs` | theorems | |

`Discovery` follows the scanning goroutine with `pc`:

```
down -Boot-> ready -StartScan-> plan -Plan-> probe -Probe-> crawl -Crawl->
crawlProbe -CrawlProbe-> merge -Merge-> dropAliases -DropAliases->
dropIgnored -DropIgnored-> hot -> cold -> topology -> [sd ->] state -> idle
                             `-------------- Publish(file) ---------'
```

`idle` goes back to `plan` at the next tick. `ScanFails` (in `LoadFails`,
`PlanFails`, `PublishFails`) returns to `idle` when the server is up and ends
the process when it is not, as run() does. `Crash` may strike anywhere;
`LoseState` empties the state file while the process is down.

How data is abstracted:

* A list with unique addresses is a function from addresses. MergeFound keys
  the catalogue by address and iterates a Go map, so the order of entries
  carries no information; the two places where order matters (uniquifyNames)
  take it explicitly: any order for the pool's results, `TextRank` for the
  sorted list.
* A target has the fields decisions depend on: name, hostname, group, the tiers
  it has modules for, aliases. Its auth only reorders the credentials tried
  next time and its module names are opaque; both are left out.
* A name is the sequence of its parts between `-`, each a model value. A suffix
  that uniquifyNames appends is one part, the address; the bare address it falls
  back on is a name of one part. (In the code an IPv6 address is written with
  `-` for `:` and is several parts; as the last ones of a name they are read as
  one.)
* Networks are sets of addresses; a group carries those sets.
* Which hosts answer ICMP, which agents answer a probe and how much of its
  neighbour tables an agent gives are free choices in every scan. An agent
  answers only groups whose credentials it accepts.
* Two probe passes of RunScan (`Probe`, `CrawlProbe`) are one step each in
  `Discovery`; `ProbePool` refines such a pass. The link between the two is
  `ProbePass`: the scan uses of a pass exactly that it settles every job and
  returns the answered ones.
* The temp-file-and-rename of one file is one step.
* `Discovery` takes three parts of a scan as free choices or constants that other
  modules settle: which candidates of a sweep are alive (`Sweep`), whether a
  credential works (`Credentials`), which modules a device gets
  (`Fingerprint`).
* Addresses have few digits of a small base, with carry, wrap-around and the
  three forms an address is written in. An IPv4 address written as IPv6
  (`mapped`) is a form of its own until `Canon`.
* The fields of an auth are the set of those filled in; a text that does not
  parse is `Bad`; a YAML file is absent, broken, or the list of its entries. A
  write that fails may leave a prefix of these.
* An OID is a sequence of numbers and a trie the set of the OIDs in it.

`Credentials` follows the wire: each Connect and each Get is a step with an
outcome, chosen by the agent or by a fault. An override that pins an auth puts
it in the entry from which the next scan takes its first credential, as the
code does. `log` is a history of the calls of the current probe. `Sweep` has
the sender and the reader of pingFamily as two processes that share the
socket's deadline; replies come at any time, twice, or from strangers, as on a
raw socket. `Commands` writes a file in the three system calls of writeNewFile
(stat, open with truncation and write, chmod) and may be killed between any two.

The model is of the daemon with `--interval` and `--listen`, and with a
catalogue file and its state file (the defaults). A one-shot run is a prefix of
these behaviours.

## Runs

| Run | Checks | Distinct states |
|---|---|---|
| `discovery_core` | TypeOK, MissesBelowLimit, FilesAgree, AliasesFolded, OneFreshIdentity, IgnoredGone, KeepsInventory | 665 115 |
| `discovery_groups` | KnownReprobed, InGroupScope, FileNamesUnique, FilesAgree | 504 445 |
| `silence_counted` | CountsSilence, LivingDropsSilent, SilentLeaves, ReportedStays | 163 778 |
| `probe_pool` | TypeOK, Accounting, GaugeCountsProbes, ResultComplete, RefinesPass, PassEnds, no deadlock | 15 171 |
| `probe_auths` | TypeOK, ReportTruthful, TriedInFull, ModulesJustified, IsHunt, SettlesOnFirst, no deadlock | 80 730 |
| `sweep` | TypeOK, ExpandsExactly, AliveAnswered, EarlyOnlyIfAll, SweepEnds, no deadlock | 63 587 |
| `commands` | TypeOK, InitLoads, CheckMeansStarts, NothingMissed, FullIndex, NeverOverwrites | 709 558 |
| `silence_crash` | DropOnlyAfterMisses, violated | |
| `claim_served_names` | ServedNamesUnique, violated | |
| `claim_stable_names` | NamesStable, violated | |
| `claim_restored_served` | RestoredCatalogServed, violated | |
| `claim_walks_columns` | WalksColumns, violated | |

`discovery_core` has a router that answers at two addresses and an agent
without sysName at a third that has no cold module; the operator may ignore
the router's lowest address between scans. With two faults anywhere, every
order of "which address answered when" against crash, failed write and lost
state is explored. It shows:

* `KeepsInventory`: the daemon refines `Inventory`, whose rounds go through the
  same stages as a scan. The addresses that answered in a pass (`heard`) are
  fixed before they are observed; each is then kept, or folded into another that
  was heard too, or ignored. Of the rest only those leave that have been silent
  for `Misses` passes. Afterwards exactly the folded and the ignored are dropped,
  exactly the hot entries are listed, and what is known is saved. A scan that
  fails before its probes are over changes nothing; one that fails while it
  writes its files keeps what MergeFound has done. A restart restores the state
  file, or the hot list when there is none. So a daemon that drops a device that
  has just answered, or ages one on a failed scan, is no `Inventory`.
* `FilesAgree`: after a completed scan, also one that follows a scan that failed
  halfway through its files, the files and the catalogue list the same targets.
* `AliasesFolded`, `OneFreshIdentity`: of devices that answered the last scan no
  two share a hostname, and no alias is listed beside its winner, although
  stale entries of earlier winners may be around. The one exception is stated
  in `AliasesFolded`: a client that reads between MergeFound and the drop that
  follows.
* `IgnoredGone`, `MissesBelowLimit`.

`discovery_groups` has the group `edge`, which sweeps and crawls two
addresses, and the group `core`, which crawls from a seed in a network that
contains both, with one excluded. Every device names every other as neighbour,
and each group walks the tables on its own and may be cut off anywhere in them.
`KnownReprobed` says that a known device of a configured group is probed in the
next scan whatever ICMP says; `InGroupScope` that the catalogue holds nothing
outside its group's networks and seeds. All devices have one short name, an
override pins one of them to the name another would get with its suffix, and
results come in every order: file names are unique in every tier, also when a
stale entry has the name of a device found later, and when the suffixed name is
taken too and the address itself becomes the name. `file_sd` is on in this run,
so `FilesAgree` covers that list too.

`silence_counted` adds a history variable that counts the silent passes of each
device apart from the catalogue: as long as a process lives, the miss counters
are these numbers, and no device is dropped before its `Misses`-th silent pass
(`LivingDropsSilent`, which `silence_crash` shows to end at a restart). It is also the run of the daemon with fairness: a device
silent for good leaves the catalogue and the files, and one that always answers
comes to stay in both, whatever two faults do.

`probe_auths` probes one address scan after scan. `IsHunt`: a probe refines
`Hunt`, in which a list with at most one credential moved to the front is gone
through, each credential once, until one works. `ReportTruthful` recomputes
every number of the report from the calls on the wire, `TriedInFull` says that a
failed probe has given every credential all its attempts, `ModulesJustified`
that tiers come from the first matcher that hits and contain only modules of the
library, and `SettlesOnFirst` that, once the device and the configuration stop
changing, the first credential of every scan is one that works - unless an override pins an
auth that is not among the working ones of the group, in which case every scan
hunts from the top again.

`sweep` has networks that overlap, lie at the end of the address space, are
written as IPv6, are too large or malformed, and exclude lists with the same.
Groups above the limit, with and without allow_large, ping like the others.
`ExpandsExactly` compares the result with a set definition of what was asked
for. `AliveAnswered` and `EarlyOnlyIfAll` are about the race for the deadline:
the reader that moves it to now may be overtaken by the sender, which costs a
timeout but no host. `SweepEnds`: it does end.

`commands` starts from an empty directory or from files written by hand.
`InitLoads`: the daemon starts from what a successful init has written and
reads it at the security level and mode that were validated, although its
defaults for both are weaker; three things init takes and the daemon does not
are its premises (below). `CheckMeansStarts` compares `init --check` with the
daemon's own loading up to the first probe, and lists what the check does not
look at. `NeverOverwrites` holds over several commands, edits and kills.
`NothingMissed` takes the walk and the module end to end: through clustering,
draft and emit, every varbind the library does not scrape is fetched, but for
texts outside the tables, tables without a metric, and varbinds outside the
tables that do not end in .0. `FullIndex` is about the index of the tables of
several columns.

`probe_pool` interleaves two workers over three jobs at the grain of channel
operations, counter updates and the two halves of `append`.

### Bounds

* `MaxFaults` bounds the faults of a behaviour (crash, failed scan, lost state).
  Two are enough for the combinations that differ: a failed write followed by a
  crash, a crash followed by the loss of the state file, two crashes.
* `MaxMisses` stops the model when a counter reaches it. With `MaxMisses =
  Misses` no scan is ever prevented, because an entry is dropped at `Misses`; it
  would only bite for `Misses <= 0`. In `Silence` it also caps the history
  variable at the value from which on nothing depends on it.
* Three addresses: a hostname shared by two, and one more device. Two misses
  are the smallest limit at which a counter has a value between fresh and
  dropped; `MCSilence` uses three so that a counter can be wrong by more than
  one.
* Three jobs for two workers: a worker gets a second job, and both contend for
  the mutex in every phase.
* One address in `Credentials`: probes of different addresses share nothing. Three
  credentials, one of which no agent accepts, one retry, two faults (a change of
  device or list, a lost packet).
* Addresses of two digits of base 4, so that a network can carry, wrap, skip its
  ends (from 2 host bits on instead of 8) and be too large (from 3 instead
  of 11). A network of prefix length 0 with allow_large is left out: see below.
* Two commands in `Commands` show every pair (init then check, init then init,
  pick then emit, pick then pick), with one failed call or kill. `Varbinds`
  contains a table of a name, a number and an address column, a column with
  indexes of two lengths, a column that stands alone, and scalars; the agents
  are subsets of it.
* `commands` says `CHECK_DEADLOCK FALSE`: an operator may type no more commands.
* The runs of `Discovery` say `CHECK_DEADLOCK FALSE`: the bound on the counters
  may prevent a scan in a mutated or unbounded configuration and stopping there
  is not a property of the program. `probe_pool` checks for deadlock: only a
  call that has returned may stop (`Done`).

### Fairness

`Discovery!FairSpec` is weak fairness of the steps of the scanning goroutine,
and of nothing else. The Go scheduler runs it, every network operation in it
has a timeout (SNMP, ICMP), file writes end, and the ticker fires for ever. No
fairness is assumed of faults, and none of agents: that a device stays silent or
keeps answering is the premise of the liveness properties, not an assumption.

`Silence!FairSilenceSpec` is the same for `Discovery` with its history
variables, which follow the daemon's steps. `Credentials!FairSpec` is weak fairness of the steps of a probe: every
call has a timeout and the ticker starts the next scan; that nothing changes any
more is the premise of `SettlesOnFirst`. `Sweep!FairSpec` is weak fairness of
planning, sender and reader, and of the passing of the socket's timeout; no host
has to answer.

`ProbePool!FairSpec` is weak fairness of the feeder and of each worker, and
strong fairness of taking the mutex: `sync.Mutex` hands the lock to a starving
waiter after a millisecond, so a worker cannot be passed over for ever.

## Disagreements between the code and its documentation

* `silence_crash`. `scan.go:26`: Misses are "consecutive discovery cycles with
  no response before drop". Counters are saved at the very end of a scan. A
  device with two misses of three answers, the process dies before the state
  file is replaced, and the restarted one drops the device at its first miss.
* `claim_served_names`. `emit.go:212`: "uniquifyNames ensures
  prometheus.exporter.snmp `name` is unique". It holds for the files; `/sd` and
  `/alloy` serve the catalogue, where a stale entry keeps its name next to a
  new device with the same one.
* `claim_stable_names`. `emit.go:161`: "the exporter target stays a stable
  label". uniquifyNames runs before the sort (`scan.go:138`), in worker order,
  so of two devices with one short name the plain one goes to whichever
  answered first, and may change every scan.
* `claim_restored_served`. `docs/deploy.md:27`: with the state file "a
  replacement pod does not wait on a full sweep". The server is started after
  the first scan (`main.go:158-169`).
* `claim_walks_columns`. `README.md:189`: "The overlay walks **column** OIDs (not
  the parent table)". Rows left over of a lone column also group under the
  column's parent with a longer index. The test meant to drop the parent
  (`walkcluster.go:403`) asks for an OID that is a prefix and longer, so it
  drops nothing; the pick has a table for each, and the module walks both.

Seen while modelling, with no run of their own:

* `init` takes any protocol name for an auth and any fingerprinter for a group;
  the daemon knows a few, and its first scan fails with others
  (`scan.go:331-337`). It writes the name of an auth without quotes
  (`initcfg.go:177`), so that one called `null` is not read back. These three are
  the premises of `InitLoads`.
* `init --check` compares names. It does not look at fingerprinters, at the limits
  of networks, at exclude lists (`scan.go:369-372`) or at whether an auth parses,
  and it passes an auths file without an auth when the library has the names,
  though loadAuthsOverlay refuses it. `CheckMeansStarts` lists these. The overlay
  is a parameter of RunScan (`ScanParams.AuthsOverlay`); the shipped daemon
  passes none, and its operator merges auths.yml into the file of
  `--snmp-config`.
* When init's second file cannot be written, or exists, the first stays
  (`initcfg.go:271-274`), and the retry needs `--force`. Until then the pair may
  not match, which `init --check` reports.
* Expanding a network of prefix length 0 with allow_large never ends: the address
  after the last is the first, and the network contains it.
* `ProbeDetail.Duration` is always zero (`snmp.go:362` sets it after the result
  has been copied), and `ProbeDetail.Auth` is empty on failure although
  `observer.go:48` says otherwise.
* A scalar whose OID does not end in .0 is emitted as a Get of its .0 instance,
  which was not in the walk: an exception of `NothingMissed`.
* A lone column is looked up in the library as itself. One that is the parent of
  a library OID is drafted, and what it walks includes that OID, although
  `README.md:179` and `walkpick.go:166` say that library OIDs are hidden.

## Proofs

TLAPS checks the theorems below for every value of the constants. Every safety
property and every refinement that a run checks is one of them. None
bounds the number of addresses, devices, groups, overrides, jobs, workers,
credentials, matchers, networks, replies, varbinds or files; what a theorem
does assume of the constants is named:

| Assumption | Says | Why the code justifies it |
|---|---|---|
| `MissesAssumption` | Misses is an integer | a flag |
| `TiersAssumption` | the enabled tiers are some of the three | ParseEnabledTiers refuses anything else |
| `DiscoveryAssumption` | groups and overrides are lists; networks and seeds consist of addresses; there are finitely many addresses; the two orders of addresses are injective orders of integers | two addresses neither compare nor print alike |
| `PoolAssumption` | a number of jobs, any integer Concurrency | |
| `CredentialsAssumption` | every group has a credential, pins name credentials, an error is not an answer | LoadDiscoveryFile refuses a group without auths |
| `CidrAssumption`, `SweepAssumption` | networks and exclude lists are lists of networks, written with the digits there are, or `Bad` | the parser made them |
| `WalkAssumption`, `CommandsAssumption` | flags and answers have the shape of such, OIDs of walks and libraries are sequences of numbers | |
| `FilesApart` (hypothesis of `InitsLoad`) | a list of entries is neither the absent nor the broken file | distinguishes two model values from lists; it quantifies over all lists, so TLC cannot evaluate it and it is no ASSUME |
| `PlainNames` (hypothesis of `NamesUnique`) | no device name, and no name an override pins, is the bare address of another device | the name of a device is cut at its first dot, so it is no IPv4 address; an override, or a sysName that spells an IPv6 address with `-`, could break it, and then two rows may share a name |
| `StableGroups` (hypothesis of `NetworksKept`) | the operator does not edit the groups | when a network is taken out of a group its inventory stays until it falls silent; the run has the same premise |

`Numbers_proofs` is the base of the others. A recursive function is proved
about through `Iterates`: a sequence of values in which each follows from the
last one exists, as a function that can be named, so the CHOOSE behind the
recursion is that function. `Induction` is the induction over the numbers up to
a bound, stated for a set of numbers. From them follow what `ElementsAt`
returns, that a power is positive, that the digits of a number determine it,
and that uniquifyNames treats one target after the other. For this the model's
loops are recursive functions rather than RECURSIVE operators or folds.

`Discovery_proofs`

* `TypeCorrect`: `Spec => []TypeOK`. `TypeOK` is inductive. The lemmas before
  it bound the domain of every list operator: jobs by the groups' networks and
  the known addresses, results by the jobs, the merged catalogue by both.
* `CountersBelowLimit`: `Spec => []MissesBelowLimit`, inductive together with
  `TypeOK`: the state file and the catalogue only ever exchange their contents,
  and MergeFound keeps an aged entry only below the limit.

`Scan_proofs`. All rest on `Shaped` (every target anywhere is a record with the
fields of one; answers and hot rows have no aliases) and on `Observed`, the
lemma on what overrides, collapse and renaming make of the answers of a pass.

* `AliasesLeave` proves `AliasesFolded`. `FoldedInv` adds that the aliases of a
  fresh entry are about to be dropped while the window is open, and that the
  state file never shows the window.
* `IdentitiesDistinct` proves `OneFreshIdentity`. A restored list *may* hold two
  clean counters for one hostname; `IdentityInv` says that nothing is served
  before the first pass has settled them.
* `FilesTell` proves `FilesAgree`. `AgreementInv` says which files the current
  scan has written at each `pc` (`Written`) and that those, and the list in
  hand, agree with the catalogue up to names.
* `ImplementsInventory`: `Spec => KeepsInventory`. Each action is a step of
  `Inventory` or a stutter. Beside `TypeOK` and `Shaped` this takes `Inventoried`
  (a row of the hot list has the hot tier and no other, so that a restart from it
  makes the entries `Restart` does)
  and `AgreementInv` (what is written to the hot list and the state file is the
  catalogue of that moment). The step of MergeFound shows what `Observe` asks
  for: the winners of the collapse are those seen, each other answer is an alias
  of one of them or ignored, and the expired are exactly those with a full
  counter.
* `IgnoredLeave` proves `IgnoredGone` from `IgnoredInv` and the agreement.
* `KnownProbedAgain` proves `KnownReprobed` from what planInitialJobs returns.
* `NetworksKept` proves `InGroupScope`. `ScopeInv` says of every list, in memory
  and on disk, that its addresses belong to the group they name.
* `NamesUnique` proves `FileNamesUnique`. Uniqueness is a property of the list
  that is published, but why uniquifyNames gets there takes an invariant of all
  names (`NamesOwn`): no target anywhere bears the bare address of another. That
  is what the third branch of uniquifyNames needs, whose result is not checked:
  a device whose name and whose suffixed name are both taken becomes its address,
  and nobody else can hold that. `discovery_groups` reaches this branch.
  `NamesOwn` survives restarts because a suffix makes a name longer than any bare
  address, and the rest follows from `PlainNames`.

`Silence_proofs`

* `CountersCountSilence` proves `CountsSilence`. `SilenceInv` says that a process
  that is the first one starts from nothing, and that between MergeFound and the
  drops only addresses about to be dropped have a counter that is off.
* `LivingDropsLate` proves `LivingDropsSilent` from it: an entry leaves in the pass
  that brings its counter to Misses, and the counter is right.

`ProbePool_proofs`

* `PoolTypeCorrect`, `PoolCounts`, `PoolResultComplete`: `TypeOK`, the counter
  equations with the gauge, and what probeAll returns. The inductive invariant
  `PoolInv` adds to them: each worker holds a job of its own (`SoleHolder`); a
  job has an outcome exactly when its worker is past the probe or has let go
  of it (`Outcomes`); the mutex is held by exactly the worker between Lock and
  Unlock, and what it has read of the slice is still what is there
  (`Exclusion`); the slice holds the answered jobs that have been stored, each
  once (`Stored`, `LengthCounted`); and when the feeder has returned all
  workers are gone (`Phases`).
* `PoolImplementsPass`: `Spec => RefinesPass`.

`Credentials_proofs`

* `ProbesTyped`, `ReportsTruthful`, `TriesInFull`: the inductive `ProbeInv` keeps
  the report equal to what the log says while the loops run (`Trying`): every
  credential before the current one has been left (`Left`: an answer, a failed
  Connect, or all Gets spent on errors), the current one has had `attempt`
  errors, and the counters are those numbers. `Done` is the same after the last
  call, whatever ended the probe.
* `ServesJustified` proves `ModulesJustified`: that the first matcher that hits is
  the one the property's CHOOSE names, and that filtering to the library loses
  exactly what is reported (`ServedInv`).
* `ProbesHunt` proves `IsHunt`: preferAuth moves at most one credential to the
  front (`Fronted`), and each call is a step of `Hunt` or a stutter.

`Sweep_proofs`

* `ExpansionExact` proves `ExpandsExactly`. Addresses are digits and networks are
  intervals of their values, so the proof first shows that digits and values
  correspond, that incIP adds one unless all digits are full, and that the
  members of a network are the addresses between its ends. `InNetwork` is then
  the loop invariant of expandCIDRs: all members below the address it has come
  to are in the list, or it has wrapped around after them all.
* `SweepsTyped`, `ReturnsAlive`, `StopsInTime`: `Pinging` says that what is marked
  has answered, and `Marking` that the deadline is brought forward only when
  everything is marked, whichever of the two goroutines sets it last.

`Commands_proofs`

* `CommandsTypedAlways`, `FilesKept`: `AtFile` says what the file being
  written is at each of the three system calls, `LeftToWrite` which files are
  still to come.
* `InitsLoad`, `ChecksMeanStarts`: `Succeeded` says what a command that reports
  success has left on disk or has read. The rest is algebra of the two readers: a plan
  that validates renders to files that load, and names the check finds the daemon
  finds.
* `NothingIsMissed`: of any walk and library. A varbind is in the subtree of a
  column of a table (`TableColumns`), of a lone column (`LoneColumns`), or a scalar;
  the column is in the draft unless the library has it, and then the library has
  the varbind (`ColumnDrafted`); and `Fetched` follows column and scalar through
  EmitPickModule.
* `IndexesFull`: columns of a table have instances of one length, and the leaves
  under a column are these instances.

Each inductive invariant was model-checked before it was proved.

Only model-checked:

* Liveness under fairness, which the provers do not handle: `SilentLeaves`,
  `ReportedStays`, `SettlesOnFirst`, `SweepEnds`, `PassEnds`. So is the absence
  of deadlock.
* The violated claims: a counterexample is their proof.

## Not modelled

* Decoding of SNMP values, name normalisation, YAML and JSON formats: data.
* LastSeen and the `updated` stamp: written, never read by a decision.
* Running two daemons on the same files, which `docs/deploy.md` rules out.
* The overlap of two scans: scanOnce is called from one goroutine only, so
  `scanMu.TryLock` always succeeds.
* Shards: a pure filter by a hash of the address; that the shards of one number
  partition the targets is the definition of modulo.
* Response formats and query parsing of the HTTP handlers; the gauges of
  observeScan. No decision reads them.
* Names, samples and the printed report of the walk commands.
* The profile converter and the module library: off-line Python, and YAML data.
* An override whose legacy module list has no module in it (`module: ","`), which
  clears the tiers of a device (`groups.go:206-213`).
* The counters of probeAll that are only summed up (`retries`, known and unknown
  fingerprints, dropped modules): `ProbePool` has those that a path could count
  twice or not at all.
* Devices that change their address, hostname or modules: `Device` is constant in
  a behaviour. Which of its addresses a router answers at does change.

## Plan

Done: the daemon (`Catalog`, `Identity`, `Planner`, `Tiers`, `Discovery`,
`Inventory`, `Silence`), the pool (`ProbePool`, `ProbePass`), the probe
(`Credentials`, `Hunt`, `Fingerprint`), the sweep (`Cidr`, `Sweep`) and the
commands (`InitPlan`, `WalkPick`, `Commands`), with the theorems above.

Next: theorems that say more than a run can. What planCrawlJobs leaves out of a
crawl whatever the neighbour tables say (no address twice, none that the first
pass has claimed); that the emitted module walks what the pick names and nothing
else.

------------------------------- MODULE Planner -------------------------------
(***************************************************************************)
(* Which addresses a scan probes, and for which group (planInitialJobs and *)
(* planCrawlJobs in snmpdiscovery/scan.go).  A job list is a function from *)
(* addresses to the name of the group that claimed them.  A group is       *)
(*   [name, mode, cidrs, exclude, seeds, ping]                             *)
(* with the networks given as sets of addresses.                           *)
(***************************************************************************)
EXTENDS Integers, FiniteSets, FiniteSetsExt

CONSTANT Ping    \* --ping, the process-wide switch

Sweeps(g)   == g.mode \in {"sweep", "both"}
Crawls(g)   == g.mode \in {"crawl", "both"}
UsesPing(g) == Ping /\ g.ping

\* Addresses of the group's networks that its exclude list leaves.
InScope(g) == g.cidrs \ g.exclude

\* Sweep candidates; ICMP filters these and nothing else.
SweepIPs(g, alive) ==
  IF ~Sweeps(g) THEN {}
  ELSE IF UsesPing(g) THEN InScope(g) \cap alive ELSE InScope(g)

\* Mutant: the known inventory is left to the sweep.
SeedsOnly(g, prev) == g.seeds

\* Seeds and the group's known inventory are probed whatever ping says.
SeedIPs(g, prev) == g.seeds \cup {a \in DOMAIN prev : prev[a].group = g.name}

\* wanted[i] is what group i asks for; the first group that asks gets it.
FirstGroupWins(groups, wanted) ==
  [a \in UNION {wanted[i] : i \in DOMAIN groups} |->
     groups[Min({i \in DOMAIN groups : a \in wanted[i]})].name]

InitialJobs(groups, prev, alive) ==
  FirstGroupWins(groups,
    [i \in DOMAIN groups |-> SweepIPs(groups[i], alive) \cup SeedIPs(groups[i], prev)])

-----------------------------------------------------------------------------
\* Addresses whose neighbour tables a crawling group reads: its seeds, and what
\* it has just found or already knew, or a list gives no group for.
WalkFrom(g, prev, found) ==
  g.seeds \cup {a \in DOMAIN found : found[a].group \in {"", g.name}}
          \cup {a \in DOMAIN prev : prev[a].group \in {"", g.name}}

\* Mutant: the exclude list is not applied to neighbours.
NeighborsInCIDRs(g, claimed, named) ==
  IF ~Crawls(g) THEN {} ELSE (named \cap g.cidrs) \ claimed

\* `named' are the neighbours that the walks of group g have read.
NewNeighbors(g, claimed, named) ==
  IF ~Crawls(g) THEN {} ELSE (named \cap InScope(g)) \ claimed

\* named[i]: the same for the i-th group.
CrawlJobs(groups, claimed, named) ==
  FirstGroupWins(groups,
    [i \in DOMAIN groups |-> NewNeighbors(groups[i], claimed, named[i])])
=============================================================================

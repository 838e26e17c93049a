----------------------------- MODULE MCDiscovery -----------------------------
(***************************************************************************)
(* Instances of Discovery.  Three addresses, in the order of a1, a2, a3.   *)
(***************************************************************************)
EXTENDS DocumentedClaims

CONSTANTS a1, a2, a3, r1, core1, core1b

MCAddr == {a1, a2, a3}
TwoAddr == {a1, a2}
Order == a1 :> 1 @@ a2 :> 2 @@ a3 :> 3

\* As 10.0.0.1, 10.0.0.9 and 10.0.0.10 are sorted as texts.
TextOrder == a1 :> 1 @@ a3 :> 2 @@ a2 :> 3

Agent(host, short, tiers, groups) ==
  [host |-> host, short |-> short, tiers |-> tiers, groups |-> groups]

Group(name, mode, cidrs, exclude, seeds, ping) ==
  [name |-> name, mode |-> mode, cidrs |-> cidrs, exclude |-> exclude,
   seeds |-> seeds, ping |-> ping]

Config(groups, overrides) == [groups |-> groups, overrides |-> overrides]

Pin(a, name) == [addr |-> a, ignore |-> FALSE, name |-> name, pins |-> {}, chain |-> {}]
Ignore(a) == [addr |-> a, ignore |-> TRUE, name |-> NoName, pins |-> {}, chain |-> {}]

NoNeighbors == [a \in MCAddr |-> {}]

-----------------------------------------------------------------------------
\* One router reachable at a1 and a2, and an agent without sysName at a3 that
\* has no module for the cold tier.  The operator may ignore a1.
RouterAndAlias ==
  [a \in MCAddr |->
     IF a = a3 THEN Agent(NoHost, <<a3>>, {"hot"}, {"lab"})
     ELSE Agent(r1, <<r1>>, {"hot", "cold"}, {"lab"})]

Lab == Group("lab", "sweep", Addr, {}, {}, TRUE)

PlainOrIgnoring == {Config(<<Lab>>, <<>>), Config(<<Lab>>, <<Ignore(a1)>>)}
Plain == {Config(<<Lab>>, <<>>)}

-----------------------------------------------------------------------------
\* A group that sweeps and crawls a1 and a2, and one that crawls from its seed
\* a3 but excludes a1; a1 and a2 take both credentials.  All three have one short
\* name, but a1 is pinned to the name a2 would get as the second of them.
TwoSites ==
  [a \in MCAddr |->
     CASE a = a1 -> Agent(core1, <<r1>>, {"hot"}, {"edge", "core"})
       [] a = a2 -> Agent(core1b, <<r1>>, {"hot"}, {"edge", "core"})
       [] a = a3 -> Agent(core1, <<r1>>, {"hot"}, {"core"})]

Edge == Group("edge", "both", {a1, a2}, {}, {}, TRUE)
Core == Group("core", "crawl", MCAddr, {a1}, {a3}, TRUE)
EdgeAndCore == {Config(<<Edge, Core>>, <<Pin(a1, <<r1, a2>>)>>)}
AllLinked == [a \in MCAddr |-> MCAddr \ {a}]

-----------------------------------------------------------------------------
\* Two devices with different sysNames and the same short name.
SameShortName ==
  [a \in MCAddr |->
     CASE a = a1 -> Agent(core1, <<r1>>, {"hot"}, {"lab"})
       [] a = a2 -> Agent(core1b, <<r1>>, {"hot"}, {"lab"})
       [] a = a3 -> Agent(NoHost, <<a3>>, {"hot"}, {"lab"})]
=============================================================================

------------------------------ MODULE MCSilence ------------------------------
(* Two addresses of one router, as in MCDiscovery, with the silence history. *)
EXTENDS Silence

CONSTANTS a1, a2, r1

MCAddr == {a1, a2}
Order == a1 :> 1 @@ a2 :> 2

Router == [a \in MCAddr |->
             [host |-> r1, short |-> <<r1>>, tiers |-> {"hot"}, groups |-> {"lab"}]]

Lab == [name |-> "lab", mode |-> "sweep", cidrs |-> MCAddr, exclude |-> {},
        seeds |-> {}, ping |-> TRUE]

IgnoreFirst == [addr |-> a1, ignore |-> TRUE, name |-> NoName, pins |-> {}, chain |-> {}]

MCConfigs == {[groups |-> <<Lab>>, overrides |-> <<>>],
              [groups |-> <<Lab>>, overrides |-> <<IgnoreFirst>>]}

NoNeighbors == [a \in MCAddr |-> {}]
=============================================================================

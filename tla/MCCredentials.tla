---------------------------- MODULE MCCredentials ----------------------------
(* One device, groups of two or three credentials, a pinned auth, and a vendor *)
(* matcher before a generic one.                                               *)
EXTENDS Credentials

CONSTANTS dev, v2, v3, old

MCAddr == {dev}

Chain(hot, cold, topology, modules) ==
  [hot |-> hot, cold |-> cold, topology |-> topology, modules |-> modules]
Matcher(values, chain) == [label |-> "sysObjectID", values |-> values] @@ chain

Vendor  == Matcher({"srl"}, Chain({"if_mib"}, {"srl_hw"}, {"lldp_mib"}, {}))
Generic == Matcher({"srl", "eos"}, Chain({}, {}, {}, {"if_mib", "eos_hw", "lldp_mib"}))
MCFingerprinter == [matchers |-> <<Vendor, Generic>>,
                    default  |-> Chain({}, {}, {}, {"if_mib"})]

Config(auths, pin, library) == [auths |-> auths, pin |-> pin, library |-> library]
MCConfigs ==
  {Config(<<old, v2, v3>>, Nobody, {"if_mib", "if_mib_meta", "lldp_mib"}),
   Config(<<v2, v3>>, v3, {}),
   Config(<<v3, old>>, Nobody, {"if_mib"})}

Agent(accepts, oid) == [accepts |-> accepts, labels |-> [sysObjectID |-> oid]]
MCAgents == {Agent({v2}, "srl"), Agent({v3}, "eos"), Agent({v2, v3}, "")}
=============================================================================

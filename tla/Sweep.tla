-------------------------------- MODULE Sweep --------------------------------
(***************************************************************************)
(* The sweep of one group, as planInitialJobs makes it: its networks are   *)
(* expanded, the exclude list is applied, and the addresses that answer an *)
(* ICMP echo are kept (snmpdiscovery/cidr.go and ping.go).  For each       *)
(* family a sender and a reader share one socket: the sender sets the read *)
(* deadline after its last request, the reader brings it forward when all  *)
(* have answered.                                                          *)
(***************************************************************************)
EXTENDS Cidr, FiniteSets

CONSTANTS
  Groups,      \* [cidrs, exclude, allowLarge, ping]: the groups to choose from
  Strangers,   \* hosts whose echo replies may reach a raw socket unasked
  MaxFaults    \* bound: sockets that cannot be opened or read

VARIABLES
  group,
  pc,         \* the planning goroutine, which is also the sender
  net,        \* index of the network being expanded
  at,         \* the address expandCIDRs has come to
  ips,        \* the candidates, and in the end what the sweep returns
  fam,        \* the family being pinged
  sent,       \* requests sent in this family
  deadline,   \* of the socket: "none", "set", "now" or "passed"
  reader,     \* the reading goroutine: "off", "read", "marked" or "done"
  buffer,     \* replies the socket holds
  aliveLocal, \* addresses of the family that were marked
  alive,      \* addresses marked by any family
  answered,   \* history: addresses a reply came from
  expired,    \* history: the timeout of this family's socket has run out
  faults

\* What the parser can make of a text.
ASSUME SweepAssumption ==
  /\ MaxFaults \in Nat
  /\ \A g \in Groups : \A list \in {g.cidrs, g.exclude} :
       /\ Len(list) \in Nat /\ DOMAIN list = 1..Len(list)
       /\ \A i \in DOMAIN list : list[i] # Bad =>
            /\ list[i].addr \in [fam : {"v4", "v6", "mapped"}, digits : DigitLists]
            /\ list[i].hostBits \in Nat

expandVars == <<net, at>>
pingVars == <<fam, sent, deadline, reader, buffer, aliveLocal, alive, expired>>
vars == <<group, pc, expandVars, ips, pingVars, answered, faults>>

Net == group.cidrs[net]

Init ==
  /\ group \in Groups
  /\ pc = "expand" /\ net = 1 /\ at = Bad /\ ips = <<>>
  /\ fam = "v4" /\ sent = 0 /\ deadline = "none" /\ reader = "off"
  /\ buffer = {} /\ aliveLocal = {} /\ alive = {}
  /\ answered = {} /\ expired = FALSE /\ faults = 0

-----------------------------------------------------------------------------
(* expandCIDRs and filterExcluded.                                         *)

ExpandNet ==
  /\ pc = "expand"
  /\ net <= Len(group.cidrs)
  /\ IF Net = Bad \/ TooLarge(Net, group.allowLarge)
     THEN pc' = "error" /\ UNCHANGED at
     ELSE pc' = "hosts" /\ at' = AddressOf(Net.addr.fam, FirstOf(Net))
  /\ UNCHANGED <<group, net, ips, pingVars, answered, faults>>

ExpandHost ==
  /\ pc = "hosts"
  /\ IF Covers(Net, at)
     THEN /\ ips' = IF Skipped(Net, at) THEN ips ELSE Append(ips, Canon(at))
          /\ at' = IncIP(at)
          /\ UNCHANGED <<pc, net>>
     ELSE pc' = "expand" /\ net' = net + 1 /\ UNCHANGED <<ips, at>>
  /\ UNCHANGED <<group, pingVars, answered, faults>>

\* Mutant: overlapping networks leave an address in the list twice.
ExcludeOnly ==
  /\ pc = "expand"
  /\ net > Len(group.cidrs)
  /\ IF Bad \in Range(group.exclude) THEN pc' = "error" /\ UNCHANGED ips
     ELSE /\ ips' = FilterExcluded(ips, group.exclude)
          /\ pc' = IF group.ping /\ ips' # <<>> THEN "open" ELSE "done"
  /\ UNCHANGED <<group, expandVars, pingVars, answered, faults>>

Exclude ==
  /\ pc = "expand"
  /\ net > Len(group.cidrs)
  /\ IF Bad \in Range(group.exclude) THEN pc' = "error" /\ UNCHANGED ips
     ELSE /\ ips' = FilterExcluded(UniqueStrings(ips), group.exclude)
          /\ pc' = IF group.ping /\ ips' # <<>> THEN "open" ELSE "done"
  /\ UNCHANGED <<group, expandVars, pingVars, answered, faults>>

-----------------------------------------------------------------------------
(* icmpAlive: pingFamily for IPv4, then for IPv6.                          *)

Wanted == ElementsAt(ips, {i \in DOMAIN ips : ips[i].fam = fam})
Strike == faults < MaxFaults /\ faults' = faults + 1

\* The other family, or the end: what is alive is kept in list order.
NextFamily ==
  IF fam = "v4" THEN fam' = "v6" /\ pc' = "open" /\ UNCHANGED ips
  ELSE pc' = "done" /\ ips' = ElementsAt(ips, {i \in DOMAIN ips : ips[i] \in alive}) /\ UNCHANGED fam

SkipFamily ==
  /\ pc = "open" /\ Wanted = <<>>
  /\ NextFamily
  /\ UNCHANGED <<group, expandVars, sent, deadline, reader, buffer, aliveLocal,
                 alive, answered, expired, faults>>

Listen ==
  /\ pc = "open" /\ Wanted # <<>>
  /\ pc' = "send"
  /\ sent' = 0 /\ deadline' = "none" /\ reader' = "read"
  /\ buffer' = {} /\ aliveLocal' = {} /\ expired' = FALSE
  /\ UNCHANGED <<group, expandVars, ips, fam, alive, answered, faults>>

\* Neither an unprivileged nor a raw socket: the whole scan fails.
ListenFails ==
  /\ pc = "open" /\ Wanted # <<>>
  /\ Strike
  /\ pc' = "error"
  /\ UNCHANGED <<group, expandVars, ips, pingVars, answered>>

Send ==
  /\ pc = "send" /\ sent < Len(Wanted)
  /\ sent' = sent + 1
  /\ UNCHANGED <<group, pc, expandVars, ips, fam, deadline, reader, buffer,
                 aliveLocal, alive, answered, expired, faults>>

SetDeadline ==
  /\ pc = "send" /\ sent = Len(Wanted)
  /\ pc' = "wait"
  /\ deadline' = "set"
  /\ UNCHANGED <<group, expandVars, ips, fam, sent, reader, buffer, aliveLocal,
                 alive, answered, expired, faults>>

Join ==
  /\ pc = "wait" /\ reader = "done"
  /\ NextFamily
  /\ reader' = "off"
  /\ UNCHANGED <<group, expandVars, sent, deadline, buffer, aliveLocal, alive,
                 answered, expired, faults>>

\* A host that got a request answers, perhaps more than once; a stranger's
\* reply to somebody else may come in too.
Reply ==
  /\ pc \in {"send", "wait"}
  /\ \E a \in ({Wanted[i] : i \in 1..sent} \cup Strangers) \ buffer :
       /\ a.fam = fam
       /\ buffer' = buffer \cup {a}
       /\ answered' = answered \cup {a}
  /\ UNCHANGED <<group, pc, expandVars, ips, fam, sent, deadline, reader,
                 aliveLocal, alive, expired, faults>>

Expire ==
  /\ deadline = "set" /\ pc = "wait"
  /\ deadline' = "passed" /\ expired' = TRUE
  /\ UNCHANGED <<group, pc, expandVars, ips, fam, sent, reader, buffer, aliveLocal,
                 alive, answered, faults>>

\* Mutant: a reply is marked without a look at what was asked for.
ReadAny ==
  /\ reader = "read" /\ deadline \in {"none", "set"}
  /\ \E a \in buffer :
       /\ buffer' = buffer \ {a}
       /\ aliveLocal' = aliveLocal \cup {a} /\ alive' = alive \cup {a}
       /\ reader' = IF Cardinality(aliveLocal') = Len(Wanted) THEN "marked" ELSE "read"
  /\ UNCHANGED <<group, pc, expandVars, ips, fam, sent, deadline, answered,
                 expired, faults>>

\* ReadFrom with a reply in the socket, and the marking under the mutex.
Read ==
  /\ reader = "read" /\ deadline \in {"none", "set"}
  /\ \E a \in buffer :
       /\ buffer' = buffer \ {a}
       /\ IF a \in Range(Wanted)
          THEN /\ aliveLocal' = aliveLocal \cup {a} /\ alive' = alive \cup {a}
               /\ reader' = IF Cardinality(aliveLocal') = Len(Wanted) THEN "marked" ELSE "read"
          ELSE UNCHANGED <<aliveLocal, alive, reader>>
  /\ UNCHANGED <<group, pc, expandVars, ips, fam, sent, deadline, answered,
                 expired, faults>>

\* All have answered: the deadline is moved to now.  The sender may move it
\* back before the next ReadFrom.
BringForward ==
  /\ reader = "marked"
  /\ reader' = "read" /\ deadline' = "now"
  /\ UNCHANGED <<group, pc, expandVars, ips, fam, sent, buffer, aliveLocal, alive,
                 answered, expired, faults>>

\* Mutant: only the reader's own deadline ends it, not the sender's.
ReadTimeoutIgnored ==
  /\ reader = "read" /\ deadline = "now"
  /\ reader' = "done"
  /\ UNCHANGED <<group, pc, expandVars, ips, fam, sent, deadline, buffer, aliveLocal,
                 alive, answered, expired, faults>>

\* ReadFrom after the deadline fails, whatever the socket still holds.
ReadTimeout ==
  /\ reader = "read" /\ deadline \in {"now", "passed"}
  /\ reader' = "done"
  /\ UNCHANGED <<group, pc, expandVars, ips, fam, sent, deadline, buffer, aliveLocal,
                 alive, answered, expired, faults>>

\* Any other error of the socket ends the reader as well.
ReadFails ==
  /\ reader = "read"
  /\ Strike
  /\ reader' = "done"
  /\ UNCHANGED <<group, pc, expandVars, ips, fam, sent, deadline, buffer, aliveLocal,
                 alive, answered, expired>>

Done == pc \in {"done", "error"} /\ UNCHANGED vars

Planning == ExpandNet \/ ExpandHost \/ Exclude
Sender == SkipFamily \/ Listen \/ Send \/ SetDeadline \/ Join
Reader == Read \/ BringForward \/ ReadTimeout
Next == Planning \/ Sender \/ Reader \/ Expire \/ Reply \/ ListenFails \/ ReadFails \/ Done

Spec == Init /\ [][Next]_vars

\* Both goroutines run and the deadline passes; no host has to answer.
FairSpec ==
  Spec /\ WF_vars(Planning) /\ WF_vars(Sender) /\ WF_vars(Reader) /\ WF_vars(Expire)
-----------------------------------------------------------------------------
(* Properties.                                                             *)

Addresses == [fam : {"v4", "v6"}, digits : DigitLists]

TypeOK ==
  /\ group \in Groups
  /\ pc \in {"expand", "hosts", "open", "send", "wait", "done", "error"}
  /\ Range(ips) \subseteq Addresses
  /\ fam \in {"v4", "v6"} /\ (pc \in {"send", "wait"} => sent \in 0..Len(Wanted))
  /\ deadline \in {"none", "set", "now", "passed"}
  /\ reader \in {"off", "read", "marked", "done"}
  /\ alive \cup aliveLocal \cup buffer \cup answered \subseteq Addresses \cup Strangers
  /\ faults \in 0..MaxFaults

\* What a group asks for: the addresses of its networks without the first one
\* and IPv4's last one of a network of 8 host bits or more, minus the excluded.
Members(n) ==
  {a \in Addresses :
     /\ Covers(n, a)
     /\ n.hostBits >= SkipHostBits =>
          Value(a) - FirstOf(n) \in
            1 .. Power(2, n.hostBits) - (IF a.fam = "v4" THEN 2 ELSE 1)}
Asked == {a \in UNION {Members(group.cidrs[i]) : i \in DOMAIN group.cidrs} :
            \A i \in DOMAIN group.exclude : ~Covers(group.exclude[i], a)}

\* Once expanded, the candidates are exactly the addresses asked for, each once
\* whatever networks overlap, and no network is larger than the limit unless
\* the group allows it (cidr.go 51-122, 169-200).
ExpandsExactly ==
  pc \in {"open", "send", "wait"} =>
    /\ Range(ips) = Asked /\ Len(ips) = Cardinality(Asked)
    /\ group.allowLarge \/ \A i \in DOMAIN group.cidrs : group.cidrs[i].hostBits <= MaxHostBits

\* The sweep returns no address that was not asked for or, when it pings, that
\* has not answered, and names none twice: claims and probes rest on it
\* (ping.go 45-72, 111-118).
AliveAnswered ==
  pc = "done" =>
    /\ Range(ips) \subseteq Asked
    /\ group.ping => Range(ips) \subseteq answered
    /\ IsInjective(ips)

\* The reader stops before its timeout only when every address of the family is
\* marked, whatever the order of its deadline and the sender's; a reply is left
\* unread only then or after the timeout (ping.go 99-143).
EarlyOnlyIfAll ==
  reader = "done" /\ ~expired /\ faults = 0 => aliveLocal = Range(Wanted)

\* Every sweep comes to an end, also when no host answers, when replies never
\* stop coming, and when a network ends at the highest address.
SweepEnds == <>(pc \in {"done", "error"})
=============================================================================

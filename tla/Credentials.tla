----------------------------- MODULE Credentials -----------------------------
(***************************************************************************)
(* Probing one address over many scans: which credential is tried first,   *)
(* the credential and retry loops of probe() (snmpdiscovery/snmp.go), the  *)
(* report made of them, the modules chosen for an answer, and the entry    *)
(* from which the next scan takes the credential to start with.  Meanwhile *)
(* the agent may change what it accepts and the operator the group's list  *)
(* and the auth an override pins.                                          *)
(***************************************************************************)
EXTENDS Catalog, Fingerprint, SequencesExt

CONSTANTS
  Auth,            \* names of credentials
  Configs,         \* [auths, pin, library]: the group's list in written order,
                   \* the auth an override pins, the modules snmp.yml defines
                   \* ({} if it is unreadable)
  Agents,          \* [accepts, labels]: the credentials the device takes, and
                   \* the sys* fields it answers with
  Fingerprinter,   \* the group's fingerprinter
  Errors,          \* the reasons classifyProbeError gives for a failed call
  Retries,         \* ScanParams.Retries
  Nobody,          \* no credential
  MaxFaults        \* bound: changes and lost packets in one behaviour

VARIABLES
  cfg,       \* the configuration read by the current or last scan
  agent,     \* the device as it is now
  pc,        \* where probe() is
  order,     \* probeJob.auths: the credentials in the order they are tried
  pos,       \* the one being tried
  attempt,   \* failed Gets with it so far
  detail,    \* ProbeDetail
  winner,    \* probeResult.AuthName
  labels,    \* and the sys* fields of the answer
  device,    \* DeviceFoundDetail of the last scan, if it found the device
  log,       \* what happened on the wire, call by call
  faults

vars == <<entries, cfg, agent, pc, order, pos, attempt, detail, winner, labels,
          device, log, faults>>

\* The reasons for an answer, and for one without content, are probe()'s own: no
\* failed call is classified as one of them.
ASSUME CredentialsAssumption ==
  /\ Retries \in Int /\ MaxFaults \in Nat
  /\ Nobody \notin Auth
  /\ Errors \cap {"ok", "empty", "no_sys"} = {}
  /\ LET list == Fingerprinter.matchers
     IN  Len(list) \in Nat /\ DOMAIN list = 1..Len(list)
  /\ \A c \in Configs : c.auths \in Seq(Auth) /\ c.auths # <<>> /\ c.pin \in Auth \cup {Nobody}

NotFound == [kind |-> "none", dropped |-> {}]
NoReport == [success |-> FALSE, reason |-> "no_auth", firstAuth |-> FALSE,
             authFails |-> 0, retries |-> 0]

\* lastAuthByAddr: the auth of the catalogue entry, pinned or found.
LastAuth == IF entries = NoEntries THEN Nobody
            ELSE entries[CHOOSE a \in DOMAIN entries : TRUE].target.auth

\* Mutant: the credentials before the preferred one are not tried again.
PreferAuthOnward(auths, name) ==
  LET at == {i \in DOMAIN auths : auths[i] = name}
  IN  IF at = {} THEN auths ELSE SubSeq(auths, Min(at), Len(auths))

\* Mutant: the preference is ignored.
PreferAuthNever(auths, name) == auths

\* preferAuth: the named one first, the others in written order.
PreferAuth(auths, name) ==
  LET at == {i \in DOMAIN auths : auths[i] = name}
  IN  IF at = {} THEN auths
      ELSE <<name>> \o RemoveAt(auths, Min(at))

-----------------------------------------------------------------------------
Init ==
  /\ entries = NoEntries
  /\ cfg \in Configs
  /\ agent \in Agents
  /\ pc = "idle"
  /\ order = <<>> /\ pos = 0 /\ attempt = 0
  /\ detail = NoReport
  /\ winner = Nobody
  /\ labels = <<>>
  /\ device = NotFound
  /\ log = <<>>
  /\ faults = 0

Strike == faults < MaxFaults /\ faults' = faults + 1

\* A scan reads the configuration and hands probe() its credentials.
StartProbe ==
  /\ pc = "idle"
  /\ pc' = "connect"
  /\ cfg' \in Configs
  /\ IF cfg' = cfg THEN UNCHANGED faults ELSE Strike
  /\ order' = PreferAuth(cfg'.auths, LastAuth)
  /\ pos' = 1 /\ attempt' = 0
  /\ detail' = NoReport
  /\ winner' = Nobody
  /\ device' = NotFound
  /\ log' = <<>>
  /\ UNCHANGED <<entries, agent, labels>>

Logged(call, result) == log' = Append(log, [pos |-> pos, call |-> call, result |-> result])

\* Mutant: the loop runs one past the last credential.
NextAuthLate ==
  /\ attempt' = 0
  /\ IF pos > Len(order) THEN pc' = "report" /\ UNCHANGED pos
     ELSE pc' = "connect" /\ pos' = pos + 1

\* `continue' of the loop over credentials, or its end.
NextAuth ==
  /\ attempt' = 0
  /\ IF pos = Len(order) THEN pc' = "report" /\ UNCHANGED pos
     ELSE pc' = "connect" /\ pos' = pos + 1

Rejected(reason) ==
  /\ detail' = [detail EXCEPT !.authFails = @ + 1, !.reason = reason]
  /\ NextAuth

\* A credential the agent accepts fails only by a fault.
Excused == IF order[pos] \in agent.accepts THEN Strike ELSE UNCHANGED faults

Connect ==
  /\ pc = "connect"
  /\ pc' = "get"
  /\ UNCHANGED <<entries, cfg, agent, order, pos, attempt, detail, winner, labels,
                 device, log, faults>>

ConnectFails ==
  /\ pc = "connect"
  /\ Strike
  /\ \E e \in Errors : Logged("connect", e) /\ Rejected(e)
  /\ UNCHANGED <<entries, cfg, agent, order, winner, labels, device>>

\* Mutant: the extra attempts are not counted.
GetErrorUncounted ==
  /\ pc = "get"
  /\ Excused
  /\ \E e \in Errors :
       /\ Logged("get", e)
       /\ IF attempt < Max({Retries, 0})
          THEN attempt' = attempt + 1 /\ UNCHANGED <<pc, pos, detail>>
          ELSE Rejected(e)
  /\ UNCHANGED <<entries, cfg, agent, order, winner, labels, device>>

\* Mutant: an error ends the attempts with this credential at once.
GetErrorFinal ==
  /\ pc = "get"
  /\ Excused
  /\ \E e \in Errors : Logged("get", e) /\ Rejected(e)
  /\ UNCHANGED <<entries, cfg, agent, order, winner, labels, device>>

\* The inner loop: up to Retries more attempts after an error.
GetError ==
  /\ pc = "get"
  /\ Excused
  /\ \E e \in Errors :
       /\ Logged("get", e)
       /\ IF attempt < Max({Retries, 0})
          THEN /\ attempt' = attempt + 1
               /\ detail' = [detail EXCEPT !.retries = @ + 1]
               /\ UNCHANGED <<pc, pos>>
          ELSE Rejected(e)
  /\ UNCHANGED <<entries, cfg, agent, order, winner, labels, device>>

\* An answer without variables, or without a sys* field, is not retried.
GetNothing ==
  /\ pc = "get"
  /\ Excused
  /\ \E reason \in {"empty", "no_sys"} : Logged("get", reason) /\ Rejected(reason)
  /\ UNCHANGED <<entries, cfg, agent, order, winner, labels, device>>

GetAnswer ==
  /\ pc = "get"
  /\ order[pos] \in agent.accepts
  /\ pc' = "report"
  /\ Logged("get", "ok")
  /\ winner' = order[pos]
  /\ labels' = agent.labels
  /\ detail' = [detail EXCEPT !.success = TRUE, !.reason = "ok",
                              !.firstAuth = (pos = 1), !.authFails = pos - 1]
  /\ UNCHANGED <<entries, cfg, agent, order, pos, attempt, device, faults>>

-----------------------------------------------------------------------------
\* What probeAll and applyOverrides make of the answer.
Modules == FilterToKnown(MatchTiers(Fingerprinter, labels).tiers, cfg.library)
Target == [auth  |-> IF cfg.pin = Nobody THEN winner ELSE cfg.pin,
           tiers |-> Modules.tiers]
Event == [kind    |-> MatchTiers(Fingerprinter, labels).kind,
          dropped |-> Modules.dropped]

\* The scan goes on to its end: the device is merged or ages.
Record ==
  /\ pc = "report"
  /\ pc' = "idle"
  /\ IF detail.success
     THEN MergeFound([a \in Addr |-> Target]) /\ device' = Event
     ELSE MergeFound(NoEntries) /\ UNCHANGED device
  /\ order' = <<>> /\ pos' = 0 /\ attempt' = 0
  /\ UNCHANGED <<cfg, agent, detail, winner, labels, log, faults>>

\* The device is reconfigured or replaced.
ChangeAgent ==
  /\ Strike
  /\ agent' \in Agents \ {agent}
  /\ UNCHANGED <<entries, cfg, pc, order, pos, attempt, detail, winner, labels,
                 device, log>>

Step ==
  \/ StartProbe \/ Connect \/ ConnectFails
  \/ GetError \/ GetNothing \/ GetAnswer \/ Record
Next == Step \/ ChangeAgent

Spec == Init /\ [][Next]_vars

\* Every call of a probe has a timeout and the ticker starts the next scan.
FairSpec == Spec /\ WF_vars(Step)
-----------------------------------------------------------------------------
(* Properties.                                                             *)

TypeOK ==
  /\ DOMAIN entries \subseteq Addr
  /\ cfg \in Configs /\ agent \in Agents
  /\ pc \in {"idle", "connect", "get", "report"}
  /\ order \in Seq(Auth) /\ pos \in 0..Len(order)
  /\ attempt \in 0..Max({Retries, 0})
  /\ detail.authFails \in 0..Len(order) \/ pc = "idle"
  /\ winner \in Auth \cup {Nobody}
  /\ faults \in 0..MaxFaults

Tried == {log[i].pos : i \in DOMAIN log}
CallsOf(calls, p) == {i \in DOMAIN calls : calls[i].pos = p}
CallsWith(p) == CallsOf(log, p)

\* The report of a probe is about what happened on the wire: success and reason
\* are those of the last call, the failure count that of the credentials that
\* failed, the retry count that of the repeated Gets, and first-auth means that
\* no credential failed before (snmp.go 374-441, fed to /metrics).
ReportTruthful ==
  pc = "report" =>
    /\ detail.reason = log[Len(log)].result
    /\ detail.success = (detail.reason = "ok")
    /\ detail.success = (winner # Nobody)
    /\ detail.authFails = Cardinality(Tried) - (IF detail.success THEN 1 ELSE 0)
    /\ detail.retries = Len(log) - Cardinality(Tried)
    /\ detail.firstAuth = (detail.success /\ Tried = {1})

\* A probe gives up only after every credential of the group, in order and
\* without a gap, got its full number of Gets: only an error is retried, and a
\* credential is left early only by an answer or a failed Connect.
TriedInFull ==
  pc = "report" =>
    /\ Range(order) = Range(cfg.auths)
    /\ Tried = 1..pos /\ (~detail.success => pos = Len(order))
    /\ \A i, k \in DOMAIN log : i < k => log[i].pos <= log[k].pos
    /\ \A p \in Tried :
         LET final == Max(CallsWith(p))
         IN  /\ \A i \in CallsWith(p) \ {final} : log[i].result \in Errors
             /\ log[final].call = "get" /\ log[final].result \in Errors =>
                  Cardinality(CallsWith(p)) = 1 + Max({Retries, 0})

\* The modules served for a device just found are in the library, come from the
\* first matcher that fits it or from the defaults if none does, and what the
\* library lacks of them is reported (fingerprint.go 156-216, scan.go 602-616).
ModulesJustified ==
  pc = "idle" /\ device # NotFound =>
    \A a \in DOMAIN entries :
      LET served == ModulesIn(entries[a].target.tiers)
          fits(i) == labels[Fingerprinter.matchers[i].label]
                       \in Fingerprinter.matchers[i].values \ {""}
          chain(i) == IF i = 0 THEN Fingerprinter.default ELSE Fingerprinter.matchers[i]
          listed(i) == IF HasTier(chain(i)) THEN ModulesIn(chain(i))
                       ELSE chain(i).modules \cup
                              {MetaOf[m] : m \in DOMAIN MetaOf \cap chain(i).modules}
          first == CHOOSE i \in 0..Len(Fingerprinter.matchers) :
                     /\ i # 0 => fits(i)
                     /\ \A k \in DOMAIN Fingerprinter.matchers :
                          fits(k) => i # 0 /\ i <= k
      IN  /\ cfg.library # {} => served \subseteq cfg.library
          /\ served \cup device.dropped = listed(first)
          /\ device.kind = (IF first = 0 THEN "unknown" ELSE "known")

\* Probing is a Hunt: the group's credentials with one of them in front.
Hunting == INSTANCE Hunt WITH
  Lists <- {c.auths : c \in Configs},
  queue <- IF pc \in {"connect", "get"} THEN SubSeq(order, pos, Len(order)) ELSE <<>>
IsHunt == Hunting!Spec

\* "Rescans should not re-hunt": once the device and the configuration stay as
\* they are, and one of the group's credentials works (a pinned one being one
\* of these), every later probe succeeds with the first it tries (scan.go 500).
Works == agent.accepts \cap Range(cfg.auths)
SettlesOnFirst ==
  <>[](Works # {} /\ cfg.pin \in Works \cup {Nobody}) =>
    <>[](pc = "report" => detail.firstAuth)
=============================================================================

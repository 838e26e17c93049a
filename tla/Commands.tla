------------------------------ MODULE Commands -------------------------------
(***************************************************************************)
(* The operator's commands in one working directory: `init' and `init      *)
(* --check', `walk-pick' (or `walk-catalog --write-pick', which writes the *)
(* same draft) and `walk-emit' (cmd/snmp-discovery/init.go and walk.go).   *)
(* A command makes up its files in memory and hands them to writeNewFile   *)
(* one after the other; the process can be killed at any moment, and the   *)
(* operator edits the pick between two commands.                           *)
(***************************************************************************)
EXTENDS InitPlan, WalkPick

CONSTANTS
  Flags,        \* [auths, groups]: command lines of init
  AuthAnswers,  \* what the wizard can be told about an auth
  GroupAnswers, \* ... and about a group: the fields, pick and allow
  HandAuths, HandGroups, \* files written by hand: initial auths.yml, discovery.yml
  Agents,       \* walks: what an SNMP agent, or a dump of its walk, holds
  WalkPrefixes,     \* --prefix
  Libraries,    \* shipped libraries
  MaxCommands, MaxAuths, MaxGroups, MaxFaults  \* bounds

IsList(s) == s \in Seq(Range(s))
IsAuth(a) ==
  a = [name |-> a.name, version |-> a.version, has |-> a.has, level |-> a.level,
       authProto |-> a.authProto, privProto |-> a.privProto]
IsGroup(g) ==
  g = [name |-> g.name, cidrs |-> g.cidrs, exclude |-> g.exclude, auths |-> g.auths,
       fp |-> g.fp, mode |-> g.mode, allowLarge |-> g.allowLarge]

\* What command lines, answers and agents are made of.
ASSUME CommandsAssumption ==
  /\ {MaxCommands, MaxAuths, MaxGroups, MaxFaults} \subseteq Nat
  /\ \A f \in Flags :
       /\ IsList(f.auths) /\ \A a \in Range(f.auths) : IsAuth(a)
       /\ IsList(f.groups) /\ \A g \in Range(f.groups) : IsGroup(g)
  /\ \A a \in AuthAnswers : IsAuth(a)
  /\ \A agent \in Agents : IsList(agent) /\ \A v \in Range(agent) : v.oid \in Seq(Nat)
  /\ \A library \in Libraries : library \subseteq Seq(Nat)

VARIABLES
  files,     \* of the working directory
  job,       \* the command: its name, where it is, what is left to write
  plan,      \* init: the plan so far
  draft,     \* walk-pick: what it read, and what it made of it
  started,   \* commands so far
  faults     \* system calls that failed, and kills

vars == <<files, job, plan, draft, started, faults>>
Paths == {"auths", "discovery", "pick", "module"}
NoPlan == [auths |-> <<>>, groups |-> <<>>]
NoDraft == [walk |-> <<>>, lib |-> {}]

Init ==
  /\ files \in [auths : {Absent} \cup HandAuths, discovery : {Absent} \cup HandGroups,
                pick : {Absent}, module : {Absent}]
  /\ job = [cmd |-> "none", pc |-> "idle", todo |-> <<>>, force |-> FALSE, outcome |-> "none"]
  /\ plan = NoPlan /\ draft = NoDraft
  /\ started = 0 /\ faults = 0

Strike == faults < MaxFaults /\ faults' = faults + 1

\* Where a command begins, and how it ends or goes on.
Starts(cmd, pc, todo, force) ==
  /\ job.pc = "idle" /\ started < MaxCommands
  /\ started' = started + 1
  /\ job' = [cmd |-> cmd, pc |-> pc, todo |-> todo, force |-> force, outcome |-> "none"]

Reports(cmd, outcome) ==
  /\ job.pc = "idle" /\ started < MaxCommands
  /\ started' = started + 1
  /\ job' = [cmd |-> cmd, pc |-> "idle", todo |-> <<>>, force |-> FALSE, outcome |-> outcome]

Ends(outcome) == job' = [job EXCEPT !.pc = "idle", !.todo = <<>>, !.outcome = outcome]

-----------------------------------------------------------------------------
(* init.                                                                   *)

\* The two files of a plan, in the order WriteInitFiles writes them.
InitFiles(p) ==
  <<[path |-> "auths", body |-> RenderAuths(p)],
    [path |-> "discovery", body |-> RenderDiscovery(p)]>>

\* ParseAuthV2Flag and ParseAuthV3Flag: both want a name, the first also a
\* community; the second fills in level and protocols.
FlagParses(a) == a.name # "" /\ (a.version # 3 => "community" \in a.has)
ParseAuthFlag(a) ==
  IF a.version # 3 THEN a
  ELSE [a EXCEPT !.level = OrElse(@, "authPriv"), !.authProto = OrElse(@, "SHA256"),
                 !.privProto = OrElse(@, "AES")]

ParseGroupFlag(g) == [g EXCEPT !.mode = OrElse(@, "sweep"), !.fp = OrElse(@, "network")]
GroupParses(g)    == g.name # "" /\ g.cidrs # <<>> /\ g.auths # <<>>

\* planFromFlags: the auths in the order of their versions.
PlanFromFlags(f) ==
  LET ofVersion(v) == ElementsAt(f.auths, {i \in DOMAIN f.auths : f.auths[i].version = v})
      sorted == ofVersion(1) \o ofVersion(2) \o ofVersion(3)
  IN  [auths  |-> [i \in DOMAIN sorted |-> ParseAuthFlag(sorted[i])],
       groups |-> [i \in DOMAIN f.groups |-> ParseGroupFlag(f.groups[i])]]

\* runInit with flags.
InitFromFlags(f, force) ==
  LET p == PlanFromFlags(f)
  IN  /\ IF /\ \A a \in Range(f.auths) : FlagParses(a)
            /\ \A g \in Range(f.groups) : GroupParses(g)
            /\ ValidateInitPlan(p)
         THEN Starts("init", "stat", InitFiles(p), force) /\ plan' = p
         ELSE Reports("init", "error") /\ plan' = NoPlan
      /\ draft' = NoDraft
      /\ UNCHANGED <<files, faults>>

\* runInit without flags: runInitWizard asks for auths, then for groups.
InitWizard(force) ==
  /\ Starts("init", "auths", <<>>, force)
  /\ plan' = NoPlan /\ draft' = NoDraft
  /\ UNCHANGED <<files, faults>>

\* What the wizard asks depends on the answers; an empty answer is the default.
Answered(a) ==
  LET level == OrElse(a.level, "authPriv")
      skipped == {s \in {"password", "priv_password"} :
                    \/ s = "password" /\ level = "noAuthNoPriv"
                    \/ s = "priv_password" /\ level # "authPriv"}
  IN  IF a.version # 3 THEN [a EXCEPT !.has = {"community"}]
      ELSE [a EXCEPT !.has = @ \ skipped, !.level = level,
                     !.authProto = IF level = "noAuthNoPriv" THEN "" ELSE OrElse(@, "SHA256"),
                     !.privProto = IF level = "authPriv" THEN OrElse(@, "AES") ELSE ""]

WizardAuth ==
  /\ job.pc = "auths"
  /\ Len(plan.auths) < MaxAuths
  /\ \E a \in AuthAnswers :
       IF a.version \notin 1..3 THEN Ends("error") /\ UNCHANGED plan
       ELSE /\ plan' = [plan EXCEPT !.auths = Append(@, Answered(a))]
            /\ \E more \in {"auths", "groups"} : job' = [job EXCEPT !.pc = more]
  /\ UNCHANGED <<files, draft, started, faults>>

\* A group names its auths with `all' or by hand; allow_large is only asked
\* for when a network is too large without it.
WizardGroup ==
  /\ job.pc = "groups"
  /\ Len(plan.groups) < MaxGroups
  /\ \E g \in GroupAnswers :
       LET names == [i \in DOMAIN plan.auths |-> plan.auths[i].name]
           wide  == \E c \in Range(g.cidrs) : c # Bad /\ TooLarge(c, FALSE)
           group == [name |-> g.name, cidrs |-> g.cidrs, exclude |-> <<>>,
                     auths |-> IF g.pick = "all" THEN names ELSE g.auths,
                     fp |-> "network", mode |-> OrElse(g.mode, "sweep"),
                     allowLarge |-> wide /\ g.allow]
           p == [plan EXCEPT !.groups = Append(@, group)]
       IN  /\ plan' = p
           /\ \/ job' = job
              \/ IF ValidateInitPlan(p)
                 THEN job' = [job EXCEPT !.pc = "stat", !.todo = InitFiles(p)]
                 ELSE Ends("error")
  /\ UNCHANGED <<files, draft, started, faults>>

\* Standard input ends, or a number does not parse.
WizardFails ==
  /\ job.pc \in {"auths", "groups"}
  /\ Ends("error")
  /\ UNCHANGED <<files, plan, draft, started, faults>>

\* runInit --check.
InitCheck(withSnmp) ==
  /\ Reports("check",
       IF Readable(files.auths) /\ CheckAuthDiscovery(files.auths, files.discovery, withSnmp)
       THEN "ok" ELSE "error")
  /\ plan' = NoPlan /\ draft' = NoDraft
  /\ UNCHANGED <<files, faults>>

-----------------------------------------------------------------------------
(* walk-pick and walk-emit.                                                *)

\* WalkTarget: when a bulk walk breaks off, the walk that follows starts over
\* and what had been read is kept; a dump has the varbinds of one walk.
Reads(agent) == {agent} \cup {SubSeq(agent, 1, n) \o agent : n \in 1 .. Len(agent)}

\* loadWalk, ClusterWalk, DraftPick.  A library that does not load marks nothing.
Draft(read, prefix, library) ==
  LET got == FilterWalk(read, prefix)
      cat == ClusterWalk(got)
  IN  [walk |-> got, lib |-> library, cat |-> cat, pick |-> DraftPick(got, cat, library)]

\* All that walk-pick can come to.
Drafts ==
  {Draft(read, prefix, library) :
     read \in UNION {Reads(agent) : agent \in Agents},
     prefix \in WalkPrefixes, library \in Libraries \cup {{}}}

\* runWalkPick; WritePickFile.
WalkPick(d, force) ==
  /\ IF d.walk = <<>> THEN Reports("pick", "error") /\ draft' = NoDraft
     ELSE /\ Starts("pick", "stat", <<[path |-> "pick", body |-> <<d.pick>>]>>, force)
          /\ draft' = d
  /\ plan' = NoPlan
  /\ UNCHANGED <<files, faults>>

\* "Delete anything you do not want": the operator takes metrics or labels
\* out of the tables, or scalars away.
Edited(pick, keep) ==
  CASE keep = "tables"  -> [pick EXCEPT !.scalars = {}]
    [] keep = "scalars" -> [pick EXCEPT !.tables = {}]
    [] keep = "labels"  -> [pick EXCEPT !.tables = {[t EXCEPT !.metrics = {}] : t \in @}]

EditPick ==
  /\ job.pc = "idle" /\ started < MaxCommands
  /\ Readable(files.pick) /\ files.pick # <<>>
  /\ \E keep \in {"tables", "scalars", "labels"} :
       files' = [files EXCEPT !.pick[1] = Edited(@, keep)]
  /\ UNCHANGED <<job, plan, draft, started, faults>>

WalkEmit(force) ==
  /\ IF Readable(files.pick) /\ files.pick # <<>> /\ Emits(files.pick[1])
     THEN Starts("emit", "stat",
                 <<[path |-> "module", body |-> <<EmitPickModule(files.pick[1])>>]>>, force)
     ELSE Reports("emit", "error")
  /\ plan' = NoPlan /\ draft' = NoDraft
  /\ UNCHANGED <<files, faults>>

-----------------------------------------------------------------------------
(* writeNewFile, for each file of the command.                             *)

Next1 == Head(job.todo)   \* the file being written

\* Mutant: whether the file is there is not asked.
StatAny ==
  /\ job.pc = "stat"
  /\ job' = [job EXCEPT !.pc = "open"]
  /\ UNCHANGED <<files, plan, draft, started, faults>>

Stat ==
  /\ job.pc = "stat"
  /\ IF files[Next1.path] # Absent /\ ~job.force THEN Ends("error")
     ELSE job' = [job EXCEPT !.pc = "open"]
  /\ UNCHANGED <<files, plan, draft, started, faults>>

\* os.WriteFile opens the file with truncation, then writes it.
Open ==
  /\ job.pc = "open"
  /\ files' = [files EXCEPT ![Next1.path] = <<>>]
  /\ job' = [job EXCEPT !.pc = "write"]
  /\ UNCHANGED <<plan, draft, started, faults>>

Write ==
  /\ job.pc = "write"
  /\ files' = [files EXCEPT ![Next1.path] = Next1.body]
  /\ job' = [job EXCEPT !.pc = "chmod"]
  /\ UNCHANGED <<plan, draft, started, faults>>

\* A write that fails leaves the first entries, or a text cut in an entry.
WriteFails ==
  /\ job.pc = "write" /\ Strike
  /\ \E left \in {Broken} \cup {SubSeq(Next1.body, 1, n) : n \in 1 .. Len(Next1.body) - 1} :
       files' = [files EXCEPT ![Next1.path] = left]
  /\ Ends("error")
  /\ UNCHANGED <<plan, draft, started>>

\* Mutant: the end of the list is seen too late.
ChmodLate ==
  /\ job.pc = "chmod"
  /\ IF job.todo = <<>> THEN Ends("ok")
     ELSE job' = [job EXCEPT !.pc = "stat", !.todo = Tail(@)]
  /\ UNCHANGED <<files, plan, draft, started, faults>>

Chmod ==
  /\ job.pc = "chmod"
  /\ IF Len(job.todo) = 1 THEN Ends("ok")
     ELSE job' = [job EXCEPT !.pc = "stat", !.todo = Tail(@)]
  /\ UNCHANGED <<files, plan, draft, started, faults>>

CallFails ==
  /\ job.pc \in {"open", "chmod"} /\ Strike
  /\ Ends("error")
  /\ UNCHANGED <<files, plan, draft, started>>

Kill ==
  /\ job.pc # "idle" /\ Strike
  /\ Ends("killed")
  /\ UNCHANGED <<files, plan, draft, started>>

-----------------------------------------------------------------------------
\* A command begins when none is running, which its first step asks for too.
Next ==
  \/ /\ job.pc = "idle" /\ started < MaxCommands
     /\ \E force \in BOOLEAN :
          \/ \E f \in Flags : InitFromFlags(f, force)
          \/ InitWizard(force)
          \/ \E d \in Drafts : WalkPick(d, force)
          \/ WalkEmit(force)
  \/ WizardAuth \/ WizardGroup \/ WizardFails
  \/ \E withSnmp \in BOOLEAN : InitCheck(withSnmp)
  \/ EditPick
  \/ Stat \/ Open \/ Write \/ WriteFails \/ Chmod \/ CallFails \/ Kill

Spec == Init /\ [][Next]_vars

-----------------------------------------------------------------------------
(* Properties.                                                             *)

\* Types and what the program counter implies: a command has files to write
\* exactly while it is writing.
TypeOK ==
  /\ DOMAIN files = Paths
  /\ job.cmd \in {"none", "init", "check", "pick", "emit"}
  /\ job.pc \in {"idle", "auths", "groups", "stat", "open", "write", "chmod"}
  /\ job.outcome \in {"none", "ok", "error", "killed"}
  /\ job.pc \in {"stat", "open", "write", "chmod"} <=> job.todo # <<>>
  /\ job.pc # "idle" => job.outcome = "none"
  /\ started \in 0 .. MaxCommands /\ faults \in 0 .. MaxFaults

KnownProtocols(auths) ==
  \A a \in Range(auths) :
    a.authProto \in AuthProtocols \cup {""} /\ a.privProto \in PrivProtocols \cup {""}

\* An init that reports success has left two files from which the daemon
\* starts, and in which it reads every auth at the security level and every
\* group with the mode that init validated, although the daemon's defaults for
\* both are others (runInit, ValidateInitPlan, RenderAuthsYAML,
\* RenderDiscoveryYAML against parseAuth, groupMode, loadGroupRuntimes and
\* planInitialJobs).  There are three gaps: init takes any name of a protocol
\* or a fingerprinter, and writes an auth's name as it is, which YAML may read
\* as null; the daemon starts with none of these.
InitLoads ==
  (job.cmd = "init" /\ job.outcome = "ok") =>
    /\ /\ KnownProtocols(files.auths)
       /\ \A g \in Range(files.discovery) : g.fp \in Fingerprinters
       /\ \A a \in Range(plan.auths) : a.name \notin NullNames
       => DaemonLoads(files.auths, files.discovery)
    /\ Len(files.auths) = Len(plan.auths) /\ Len(files.discovery) = Len(plan.groups)
    /\ \A i \in DOMAIN plan.auths :
         plan.auths[i].version = 3 =>
           ParsedLevel(files.auths[i]) = PlannedLevel(plan.auths[i])
    /\ \A i \in DOMAIN plan.groups :
         GroupMode(files.discovery[i]) = PlannedMode(plan.groups[i])

\* When `init --check' reports that the files match, every group's auths are
\* there for the daemon, and it starts but for what the check does not look
\* at: an auths file without an auth, a fingerprinter that is not there, a
\* network too large or malformed, a malformed exclude, an auth of a group
\* that does not parse (CheckAuthDiscovery against loadAuthsOverlay,
\* loadGroupRuntimes and planInitialJobs).
CheckMeansStarts ==
  (job.cmd = "check" /\ job.outcome = "ok") =>
    \/ DaemonLoads(files.auths, files.discovery)
    \/ files.auths = <<>>
    \/ \E g \in Range(files.discovery) :
         \/ ~FindsFingerprinter(g)
         \/ ~Expands(g)
         \/ \E a \in AuthsMap(files.auths) : a.name \in Range(g.auths) /\ ~ParsesAuth(a)

\* No command changes a file that was there when it began, unless it was told
\* to with --force: neither the second file of init, nor a pick the operator
\* has edited (writeNewFile).
NeverOverwrites ==
  [][\A p \in Paths :
       (job.pc # "idle" /\ files'[p] # files[p]) =>
         \/ job.force
         \/ files[p] = Absent
         \/ job.pc = "write" /\ files[p] = <<>> /\ p = Next1.path]_vars

\* The module that is emitted from a draft nobody edits fetches every varbind
\* of the walk that the library does not scrape, with three exceptions: a text
\* outside the tables, a table without a metric, and a varbind outside the
\* tables whose OID does not end in .0, for which another OID is asked
\* (ClusterWalk, DraftPick, EmitPickModule).
NothingMissed ==
  (job.cmd = "pick" /\ job.pc = "stat") =>
    LET module  == EmitPickModule(draft.pick)
        dropped == {d \in DraftTables(draft.walk, draft.cat, draft.lib) : d.metrics = {}}
    IN  \A o \in Oids(draft.walk) :
          \/ Lookup(draft.lib, o)
          \/ o \in module.get
          \/ \E c \in module.walk : IsPrefix(c, o)
          \/ o \in draft.cat.scalars /\ ScalarType(draft.walk, o) \in StringTypes
          \/ \E d \in dropped : \E k \in d.labels : IsPrefix(Append(d.entry, k), o)
          \/ o \in draft.cat.scalars /\ ~DotZero(o)

\* A table of several columns gets as many index labels as every instance of
\* its columns has numbers after the column (visit, defaultIndexLabels).
FullIndex ==
  (job.cmd = "pick" /\ job.pc = "stat") =>
    LET O == Oids(draft.walk)
    IN  \A t \in draft.cat.tables : \A c \in ColumnOids(t) :
          \A o \in Under(O, c) : IsLeaf(O, o) => Len(o) = Len(c) + t.pieces

\* README.md:189: "The overlay walks column OIDs (not the parent table)".
WalksColumns ==
  (job.cmd = "emit" /\ job.outcome = "ok") =>
    LET walked == files.module[1].walk
    IN  \A x, y \in walked : ~IsStrictPrefix(x, y)
=============================================================================

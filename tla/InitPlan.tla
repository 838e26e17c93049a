------------------------------ MODULE InitPlan -------------------------------
(***************************************************************************)
(* The plan that `snmp-discovery init' makes of auths.yml and              *)
(* discovery.yml (snmpdiscovery/initcfg.go), and what the daemon and       *)
(* `init --check' read from these files (snmp.go, groups.go).  An auth     *)
(* says which of its fields are filled in; a file is Absent, Broken (not   *)
(* readable as YAML), or the sequence of its entries.  The networks and    *)
(* the exclude list of a group are those of Cidr, `Bad' for a text that    *)
(* does not parse.                                                         *)
(***************************************************************************)
EXTENDS Cidr

CONSTANTS
  BadNames,        \* names that authNameRE does not match
  NullNames,       \* names that YAML reads as nothing when they are not quoted
  AuthProtocols,   \* those parseAuthProtocol knows
  PrivProtocols,   \* those parsePrivProtocol knows
  SnmpAuths,       \* the entries of --snmp-config's auths map
  Fingerprinters,  \* those of --fingerprinters whose matchers compile
  DefaultFP,       \* --fingerprinter
  Absent, Broken

Levels == {"noAuthNoPriv", "authNoPriv", "authPriv"}
Modes  == {"sweep", "crawl", "both"}
Names(entries) == {e.name : e \in Range(entries)}
Distinct(entries) ==
  \A i, j \in DOMAIN entries : entries[i].name = entries[j].name => i = j

OrElse(text, default) == IF text = "" THEN default ELSE text

\* The secrets a security level needs, besides the user name.
Secrets(level) ==
  CASE level = "noAuthNoPriv" -> {}
    [] level = "authNoPriv"   -> {"password"}
    [] level = "authPriv"     -> {"password", "priv_password"}

-----------------------------------------------------------------------------
(* ValidateInitPlan.                                                       *)

PlannedLevel(a) == OrElse(a.level, "authPriv")
PlannedMode(g)  == OrElse(g.mode, "sweep")

\* Mutant: the privacy password is not asked for.
ValidAuthAnyPriv(a) ==
  /\ a.name \notin BadNames
  /\ \/ a.version \in {1, 2} /\ "community" \in a.has
     \/ /\ a.version = 3 /\ "username" \in a.has
        /\ PlannedLevel(a) \in Levels
        /\ PlannedLevel(a) # "noAuthNoPriv" => "password" \in a.has

ValidAuth(a) ==
  /\ a.name \notin BadNames
  /\ \/ a.version \in {1, 2} /\ "community" \in a.has
     \/ /\ a.version = 3 /\ "username" \in a.has
        /\ PlannedLevel(a) \in Levels
        /\ Secrets(PlannedLevel(a)) \subseteq a.has

ValidCidr(c, allowLarge) == c # Bad /\ ~TooLarge(c, allowLarge)

ValidGroup(g, names) ==
  /\ g.name # ""
  /\ g.cidrs # <<>> /\ \A c \in Range(g.cidrs) : ValidCidr(c, g.allowLarge)
  /\ g.auths # <<>> /\ Range(g.auths) \subseteq names
  /\ PlannedMode(g) \in Modes

ValidateInitPlan(p) ==
  /\ p.auths # <<>> /\ Distinct(p.auths)
  /\ \A a \in Range(p.auths) : ValidAuth(a)
  /\ p.groups # <<>> /\ Distinct(p.groups)
  /\ \A g \in Range(p.groups) : ValidGroup(g, Names(p.auths))

-----------------------------------------------------------------------------
(* RenderAuthsYAML and RenderDiscoveryYAML.                                *)

\* The name of an auth is the one text that is written without quotes.
ReadBack(name) == IF name \in NullNames THEN "" ELSE name

RenderAuth(a) ==
  IF a.version # 3 THEN [a EXCEPT !.name = ReadBack(@), !.has = @ \cap {"community"}]
  ELSE LET level == PlannedLevel(a)
       IN  [a EXCEPT !.name = ReadBack(@), !.has = @ \ {"community"},
                     !.level = level,
                     !.authProto = OrElse(@, IF level = "noAuthNoPriv" THEN "" ELSE "SHA256"),
                     !.privProto = OrElse(@, IF level = "authPriv" THEN "AES" ELSE "")]

\* init knows of no exclude list.
RenderGroup(g) ==
  [g EXCEPT !.mode = PlannedMode(g), !.fp = OrElse(@, "network"), !.exclude = <<>>]

RenderAuths(p)     == [i \in DOMAIN p.auths |-> RenderAuth(p.auths[i])]
RenderDiscovery(p) == [i \in DOMAIN p.groups |-> RenderGroup(p.groups[i])]

-----------------------------------------------------------------------------
(* What the daemon makes of the files.                                     *)

Readable(file) == file \notin {Absent, Broken}

\* parseSecurityLevel and groupMode have defaults of their own.
ParsedLevel(a) == OrElse(a.level, "noAuthNoPriv")
GroupMode(g)   == OrElse(g.mode, "both")

ParsesAuth(a) ==
  \/ a.version \in 0..2
  \/ /\ a.version = 3 /\ "username" \in a.has
     /\ ParsedLevel(a) \in Levels
     /\ a.authProto \in AuthProtocols \cup {""}
     /\ a.privProto \in PrivProtocols \cup {""}
     /\ Secrets(ParsedLevel(a)) \subseteq a.has

\* readAuthsMap: an entry of the overlay replaces that of the library.
AuthsMap(overlay) ==
  Range(overlay) \cup {a \in SnmpAuths : a.name \notin Names(overlay)}

\* LoadDiscoveryFile.
LoadsDiscovery(file) ==
  /\ Readable(file)
  /\ file # <<>> /\ Distinct(file)
  /\ \A g \in Range(file) :
       g.name # "" /\ g.cidrs # <<>> /\ g.auths # <<>> /\ GroupMode(g) \in Modes

\* loadAuthsOverlay for the names of a group.
LoadsAuths(overlay, g) ==
  /\ Readable(overlay) /\ overlay # <<>>
  /\ \A n \in Range(g.auths) : \E a \in AuthsMap(overlay) : a.name = n /\ ParsesAuth(a)

\* loadGroupRuntimes.
FindsFingerprinter(g) == OrElse(g.fp, DefaultFP) \in Fingerprinters

\* planInitialJobs expands the networks of a group that sweeps, and parses what
\* it excludes.
Expands(g) ==
  GroupMode(g) \in {"sweep", "both"} =>
    /\ \A c \in Range(g.cidrs) : c # Bad /\ ~TooLarge(c, g.allowLarge)
    /\ Bad \notin Range(g.exclude)

\* The first scan of a daemon with these files comes to its probes; when it
\* fails the daemon exits.
DaemonLoads(auths, discovery) ==
  /\ LoadsDiscovery(discovery)
  /\ \A g \in Range(discovery) :
       FindsFingerprinter(g) /\ LoadsAuths(auths, g) /\ Expands(g)

-----------------------------------------------------------------------------
(* CheckAuthDiscovery of a readable auths file, with or without            *)
(* --snmp-config.                                                          *)

\* Mutant: only the first group's names are looked up.
CheckAuthDiscoveryFirst(auths, discovery, withSnmp) ==
  LET names == Names(auths) \cup (IF withSnmp THEN {a.name : a \in SnmpAuths} ELSE {})
  IN  /\ names # {} /\ LoadsDiscovery(discovery)
      /\ Range(discovery[1].auths) \subseteq names

CheckAuthDiscovery(auths, discovery, withSnmp) ==
  LET names == Names(auths) \cup (IF withSnmp THEN {a.name : a \in SnmpAuths} ELSE {})
  IN  /\ names # {} /\ LoadsDiscovery(discovery)
      /\ \A g \in Range(discovery) : Range(g.auths) \subseteq names
=============================================================================

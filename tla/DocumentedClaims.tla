-------------------------- MODULE DocumentedClaims --------------------------
(***************************************************************************)
(* Statements of the repository's comments and documentation about the     *)
(* daemon that its code does not keep.  Each is checked by a run of its    *)
(* own, whose counterexample is described in the README.                   *)
(***************************************************************************)
EXTENDS Discovery

Listed == DOMAIN entries

\* "uniquifyNames ensures prometheus.exporter.snmp `name` is unique"
\* (emit.go 212).  It is applied to the targets found by a scan and to the copy
\* of the catalogue that goes to the files, but /sd and /alloy serve the
\* catalogue itself.
ServedNamesUnique ==
  listening /\ pc = "idle" =>
    \A a, b \in Listed : entries[a].target.name = entries[b].target.name => a = b

\* "the exporter target stays a stable label" (emit.go 161): a scan that finds
\* again exactly the devices of the catalogue gives them the names they had.
AllFresh == \A a \in Listed : entries[a].misses = 0
NamesStable ==
  [][pc = "merge" /\ pc' = "dropAliases" /\ Listed' = Listed /\ AllFresh /\ AllFresh' =>
       \A a \in Listed : entries'[a].target.name = entries[a].target.name]_vars

\* "Optional PVC for *.state.json so a replacement pod does not wait on a full
\* sweep" (docs/deploy.md 27): with entries restored, the server is up before
\* the probes of the first scan start.
RestoredCatalogServed == pc = "probe" /\ Listed # {} => listening
=============================================================================

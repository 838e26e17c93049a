------------------------------- MODULE Silence -------------------------------
(***************************************************************************)
(* Discovery with a history variable: for each address, the probe passes   *)
(* in a row that did not hear it, counted apart from the catalogue and     *)
(* unaffected by restarts.  ScanParams.Misses is about this number:        *)
(* "consecutive discovery cycles with no response before drop".            *)
(***************************************************************************)
EXTENDS Discovery

VARIABLES
  silent,    \* passes since the address last answered, at most MaxMisses
  died       \* the process has been restarted

silenceVars == <<vars, silent, died>>

SilenceInit == Init /\ silent = [a \in Addr |-> MaxMisses] /\ died = FALSE

Heed == silent' = [a \in Addr |-> IF a \in DOMAIN found THEN 0
                                  ELSE Min({silent[a] + 1, MaxMisses})]

SilenceNext ==
  /\ Next
  /\ IF pc = "merge" /\ pc' = "dropAliases" THEN Heed ELSE UNCHANGED silent
  /\ died' = (died \/ (pc # "down" /\ pc' = "down"))

SilenceSpec == SilenceInit /\ [][SilenceNext]_silenceVars

\* The scanning goroutine keeps taking steps, as in FairSpec: the history follows
\* whatever step the daemon takes and holds none up.
FairSilenceSpec == SilenceSpec /\ WF_vars(ScanStep)

\* As long as the process lives, the miss counter of every entry is the number
\* of passes its device has been silent for, also across failed scans.  (An
\* address just being withdrawn has answered and is still counted as missing.)
CountsSilence ==
  ~died /\ pc \notin {"dropAliases", "dropIgnored"} =>
    \A a \in DOMAIN entries : entries[a].misses = silent[a]

\* What MergeFound drops, but for aliases and ignored addresses, has been silent
\* for Misses passes in a row.
DropsSilent ==
  \A a \in DOMAIN entries \ DOMAIN entries' :
    a \in folded' \cup IgnoredAddresses(cfg.overrides) \/ silent'[a] >= Misses

\* Misses "consecutive discovery cycles with no response before drop", of a
\* process that lives: MergeFound drops a device in no earlier pass, whatever
\* answered and failed before.
LivingDropsSilent ==
  [][~died /\ pc = "merge" /\ pc' = "dropAliases" => DropsSilent]_silenceVars

\* The same across restarts, as the comment has it.
DropOnlyAfterMisses ==
  [][pc = "merge" /\ pc' = "dropAliases" => DropsSilent]_silenceVars
=============================================================================

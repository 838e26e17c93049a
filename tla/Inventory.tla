------------------------------ MODULE Inventory ------------------------------
(***************************************************************************)
(* What the daemon promises about the devices it knows, without jobs,      *)
(* names, groups or files: a round of probes hears some addresses; each of *)
(* them is kept with a clean counter, unless it is folded into another     *)
(* address that was heard in the same round, or ignored by the operator.   *)
(* Of the others, none leaves before it has been silent for Misses rounds. *)
(* A round that fails before its probes are over changes nothing; what is  *)
(* listed and saved is what is known at that moment; a restart brings back *)
(* what was last saved, or else what was last listed.                      *)
(***************************************************************************)
EXTENDS Integers

CONSTANTS
  Addr, Misses,
  IgnoreLists    \* the sets of addresses the operator may ask to ignore

VARIABLES
  stage,     \* of the round: "down" when the process is not running
  known,     \* address -> its entry
  saved,     \* `known' as last saved
  listed,    \* the addresses last published for the hot tier
  heard,     \* the addresses that answered, until they are observed
  folding,   \* the addresses about to be folded into others
  ignored    \* the addresses ignored in this round

vars == <<stage, known, saved, listed, heard, folding, ignored>>

Nothing == [a \in {} |-> a]

\* The entry of an address that has just been heard: the addresses it stands
\* for, and whether it is listed.
Answers(aliases) == [misses : {0}, aliases : SUBSET aliases, hot : BOOLEAN]

\* The entry of a restart that finds nothing but the list.
Listed == [misses |-> 0, aliases |-> {}, hot |-> TRUE]

Without(gone) == known' = [a \in DOMAIN known \ gone |-> known[a]]

Init ==
  /\ stage = "down" /\ known = Nothing /\ saved = Nothing
  /\ listed = {} /\ heard = {} /\ folding = {}
  /\ ignored \in IgnoreLists

Begin ==
  /\ stage = "rest" /\ stage' = "probing"
  /\ ignored' \in IgnoreLists
  /\ UNCHANGED <<known, saved, listed, heard, folding>>

Hear ==
  /\ stage = "probing" /\ stage' = "heard"
  /\ heard' \in SUBSET Addr
  /\ UNCHANGED <<known, saved, listed, folding, ignored>>

\* The only step that ages entries, and the one that adds them.
Observe ==
  /\ stage = "heard" /\ stage' = "fold"
  /\ \E seen \in SUBSET heard :
       LET kept == {a \in DOMAIN known \ seen : Misses > 0 => known[a].misses + 1 < Misses}
       IN  \E answer \in [seen -> Answers(heard \ seen)] :
             /\ known' = [a \in seen \cup kept |->
                            IF a \in seen THEN answer[a]
                            ELSE [known[a] EXCEPT !.misses = @ + 1]]
             /\ folding' = UNION {answer[a].aliases : a \in seen}
             /\ heard \subseteq seen \cup folding' \cup ignored
  /\ heard' = {}
  /\ UNCHANGED <<saved, listed, ignored>>

Fold ==
  /\ stage = "fold" /\ stage' = "ignore"
  /\ Without(folding)
  /\ folding' = {}
  /\ UNCHANGED <<saved, listed, heard, ignored>>

Ignore ==
  /\ stage = "ignore" /\ stage' = "list"
  /\ Without(ignored)
  /\ UNCHANGED <<saved, listed, heard, folding, ignored>>

List ==
  /\ stage = "list" /\ stage' = "save"
  /\ listed' = {a \in DOMAIN known : known[a].hot}
  /\ UNCHANGED <<known, saved, heard, folding, ignored>>

Save ==
  /\ stage = "save" /\ stage' = "rest"
  /\ saved' = known
  /\ UNCHANGED <<known, listed, heard, folding, ignored>>

\* A round may fail before its probes or while it writes its results.
Fail ==
  /\ stage \in {"probing", "list", "save"} /\ stage' = "rest"
  /\ UNCHANGED <<known, saved, listed, heard, folding, ignored>>

Stop ==
  /\ stage # "down" /\ stage' = "down"
  /\ known' = Nothing /\ heard' = {} /\ folding' = {}
  /\ UNCHANGED <<saved, listed, ignored>>

LoseSaved ==
  /\ stage = "down" /\ saved' = Nothing
  /\ UNCHANGED <<stage, known, listed, heard, folding, ignored>>

Restart ==
  /\ stage = "down" /\ stage' = "rest"
  /\ known' = IF saved # Nothing THEN saved ELSE [a \in listed |-> Listed]
  /\ UNCHANGED <<saved, listed, heard, folding, ignored>>

Next ==
  \/ Begin \/ Hear \/ Observe \/ Fold \/ Ignore \/ List \/ Save
  \/ Fail \/ Stop \/ LoseSaved \/ Restart

Spec == Init /\ [][Next]_vars
=============================================================================

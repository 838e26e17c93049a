------------------------------ MODULE ProbePass ------------------------------
(***************************************************************************)
(* What one pass over a job list promises to the scan that asked for it:   *)
(* every job is tried, and the pass returns, once and only when all of     *)
(* them are settled, with exactly the jobs that were answered.             *)
(***************************************************************************)
CONSTANTS
  Job,
  Heard       \* the outcomes that make a target

VARIABLES
  outcome,    \* outcome of each job, "open" until it is known
  returned,   \* the pass is over
  result      \* the jobs handed back

vars == <<outcome, returned, result>>

Init ==
  /\ outcome = [j \in Job |-> "open"]
  /\ returned = (Job = {})
  /\ result = {}

Settle(j, how) ==
  /\ outcome[j] = "open"
  /\ outcome' = [outcome EXCEPT ![j] = how]
  /\ UNCHANGED <<returned, result>>

Return ==
  /\ ~returned
  /\ \A j \in Job : outcome[j] # "open"
  /\ returned' = TRUE
  /\ result' = {j \in Job : outcome[j] \in Heard}
  /\ UNCHANGED outcome

Next == Return \/ \E j \in Job, how \in Heard \cup {"fail"} : Settle(j, how)

Spec == Init /\ [][Next]_vars
=============================================================================

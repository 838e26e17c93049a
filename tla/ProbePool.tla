------------------------------ MODULE ProbePool ------------------------------
(***************************************************************************)
(* probeAll (snmpdiscovery/scan.go): a job list is fed to a fixed pool of  *)
(* goroutines over an unbuffered channel; every worker probes, reports to  *)
(* the metrics observer, counts the outcome and appends the target to a    *)
(* slice they share under a mutex; the feeder closes the channel and waits *)
(* for the pool before it reads the slice and the counters.                *)
(* The atomic counters that only split `success' further (fingerprint      *)
(* known or unknown, modules dropped) follow it and are left out.          *)
(***************************************************************************)
EXTENDS Integers, Sequences, FiniteSets

CONSTANTS
  NumJobs,        \* length of the job list
  Concurrency     \* --concurrency

ASSUME PoolAssumption == NumJobs \in Nat /\ Concurrency \in Int

Job == 1..NumJobs

\* A concurrency below one is taken as one.
Worker == 1..(IF Concurrency < 1 THEN 1 ELSE Concurrency)

\* What probe() may report: success on the first auth, on a later one, or not.
Good == {"first", "fallback"}
Outcome == Good \cup {"fail"}

VARIABLES
  feeder,      \* probeAll itself: "feed", "wait", "returned"
  next,        \* the job it offers next
  wpc,         \* where each worker is
  job,         \* the job each worker received last
  outcome,     \* result of probe() for each job, "open" before
  mu,          \* the worker that holds the mutex, 0 for nobody
  seen,        \* the slice header a worker has read inside append
  targets,     \* the shared slice of targets, given by their jobs
  inFlight,    \* observer gauge: ProbeBegin minus ProbeEnd
  errors, success, firstAuth, fallback    \* the atomic counters

counters == <<inFlight, errors, success, firstAuth, fallback>>
vars == <<feeder, next, wpc, job, outcome, mu, seen, targets, counters>>

Init ==
  /\ feeder = IF NumJobs = 0 THEN "returned" ELSE "feed"
  /\ next = 1
  /\ wpc = [w \in Worker |-> IF NumJobs = 0 THEN "exited" ELSE "range"]
  /\ job = [w \in Worker |-> 0]
  /\ outcome = [j \in Job |-> "open"]
  /\ mu = 0
  /\ seen = [w \in Worker |-> <<>>]
  /\ targets = <<>>
  /\ inFlight = 0
  /\ errors = 0 /\ success = 0 /\ firstAuth = 0 /\ fallback = 0

Goto(w, label) == wpc' = [wpc EXCEPT ![w] = label]

-----------------------------------------------------------------------------
(* The feeder.                                                             *)

\* The channel has no buffer: a send meets a worker that is ranging over it.
Send(w) ==
  /\ feeder = "feed" /\ next <= NumJobs
  /\ wpc[w] = "range"
  /\ Goto(w, "begin")
  /\ job' = [job EXCEPT ![w] = next]
  /\ next' = next + 1
  /\ UNCHANGED <<feeder, outcome, mu, seen, targets, counters>>

Close ==
  /\ feeder = "feed" /\ next > NumJobs
  /\ feeder' = "wait"
  /\ UNCHANGED <<next, wpc, job, outcome, mu, seen, targets, counters>>

\* Mutant: the results are read without waiting for the workers.
ReturnEarly ==
  /\ feeder = "wait"
  /\ feeder' = "returned"
  /\ UNCHANGED <<next, wpc, job, outcome, mu, seen, targets, counters>>

\* wg.Wait, then the results are read.
Return ==
  /\ feeder = "wait"
  /\ \A w \in Worker : wpc[w] = "exited"
  /\ feeder' = "returned"
  /\ UNCHANGED <<next, wpc, job, outcome, mu, seen, targets, counters>>

-----------------------------------------------------------------------------
(* A worker.                                                               *)

\* The range ends when the channel is closed and nothing is left in it.
Exit(w) ==
  /\ wpc[w] = "range" /\ feeder # "feed"
  /\ Goto(w, "exited")
  /\ UNCHANGED <<feeder, next, job, outcome, mu, seen, targets, counters>>

\* Mutant: the observer is not told that a probe begins.
ProbeBeginSilent(w) ==
  /\ wpc[w] = "begin"
  /\ Goto(w, "probe")
  /\ UNCHANGED <<feeder, next, job, outcome, mu, seen, targets, counters>>

ProbeBegin(w) ==
  /\ wpc[w] = "begin"
  /\ Goto(w, "probe")
  /\ inFlight' = inFlight + 1
  /\ UNCHANGED <<feeder, next, job, outcome, mu, seen, targets,
                 errors, success, firstAuth, fallback>>

Probe(w, how) ==
  /\ wpc[w] = "probe"
  /\ Goto(w, "end")
  /\ outcome' = [outcome EXCEPT ![job[w]] = how]
  /\ UNCHANGED <<feeder, next, job, mu, seen, targets, counters>>

\* Mutant: a failed probe returns before it is reported as ended.
ProbeEndUnlessFailed(w) ==
  /\ wpc[w] = "end"
  /\ Goto(w, "count")
  /\ inFlight' = IF outcome[job[w]] = "fail" THEN inFlight ELSE inFlight - 1
  /\ UNCHANGED <<feeder, next, job, outcome, mu, seen, targets,
                 errors, success, firstAuth, fallback>>

ProbeEnd(w) ==
  /\ wpc[w] = "end"
  /\ Goto(w, "count")
  /\ inFlight' = inFlight - 1
  /\ UNCHANGED <<feeder, next, job, outcome, mu, seen, targets,
                 errors, success, firstAuth, fallback>>

\* Mutant: no `continue' after a failed probe.
CountErrorFallsThrough(w) ==
  /\ wpc[w] = "count" /\ outcome[job[w]] = "fail"
  /\ Goto(w, "split")
  /\ errors' = errors + 1 /\ success' = success + 1
  /\ UNCHANGED <<feeder, next, job, outcome, mu, seen, targets,
                 inFlight, firstAuth, fallback>>

CountError(w) ==
  /\ wpc[w] = "count" /\ outcome[job[w]] = "fail"
  /\ Goto(w, "range")
  /\ errors' = errors + 1
  /\ UNCHANGED <<feeder, next, job, outcome, mu, seen, targets,
                 inFlight, success, firstAuth, fallback>>

CountSuccess(w) ==
  /\ wpc[w] = "count" /\ outcome[job[w]] # "fail"
  /\ Goto(w, "split")
  /\ success' = success + 1
  /\ UNCHANGED <<feeder, next, job, outcome, mu, seen, targets,
                 inFlight, errors, firstAuth, fallback>>

CountAuth(w) ==
  /\ wpc[w] = "split"
  /\ Goto(w, "lock")
  /\ IF outcome[job[w]] = "first"
     THEN firstAuth' = firstAuth + 1 /\ UNCHANGED fallback
     ELSE fallback' = fallback + 1 /\ UNCHANGED firstAuth
  /\ UNCHANGED <<feeder, next, job, outcome, mu, seen, targets,
                 inFlight, errors, success>>

\* Mutant: the slice is appended to without the mutex.
LockUnguarded(w) ==
  /\ wpc[w] = "lock"
  /\ Goto(w, "append")
  /\ mu' = w
  /\ UNCHANGED <<feeder, next, job, outcome, seen, targets, counters>>

Lock(w) ==
  /\ wpc[w] = "lock" /\ mu = 0
  /\ Goto(w, "append")
  /\ mu' = w
  /\ UNCHANGED <<feeder, next, job, outcome, seen, targets, counters>>

\* append reads the shared slice ...
ReadSlice(w) ==
  /\ wpc[w] = "append"
  /\ Goto(w, "store")
  /\ seen' = [seen EXCEPT ![w] = targets]
  /\ UNCHANGED <<feeder, next, job, outcome, mu, targets, counters>>

\* ... and stores the longer one, before the mutex is released.
StoreSlice(w) ==
  /\ wpc[w] = "store"
  /\ Goto(w, "unlock")
  /\ targets' = Append(seen[w], job[w])
  /\ UNCHANGED <<feeder, next, job, outcome, mu, seen, counters>>

\* Mutant: the mutex is not released.
UnlockForgotten(w) ==
  /\ wpc[w] = "unlock"
  /\ Goto(w, "range")
  /\ seen' = [seen EXCEPT ![w] = <<>>]
  /\ UNCHANGED <<feeder, next, job, outcome, mu, targets, counters>>

Unlock(w) ==
  /\ wpc[w] = "unlock"
  /\ Goto(w, "range")
  /\ mu' = 0
  /\ seen' = [seen EXCEPT ![w] = <<>>]
  /\ UNCHANGED <<feeder, next, job, outcome, targets, counters>>

WorkerStep(w) ==
  \/ Exit(w) \/ ProbeBegin(w)
  \/ \E how \in Outcome : Probe(w, how)
  \/ ProbeEnd(w) \/ CountError(w) \/ CountSuccess(w) \/ CountAuth(w)
  \/ Lock(w) \/ ReadSlice(w) \/ StoreSlice(w) \/ Unlock(w)

FeederStep == Close \/ Return \/ \E w \in Worker : Send(w)

\* Nothing moves after the call has returned; nothing else may stop it.
Done == feeder = "returned" /\ UNCHANGED vars

Next == FeederStep \/ (\E w \in Worker : WorkerStep(w)) \/ Done

Spec == Init /\ [][Next]_vars

\* Goroutines are scheduled fairly and the SNMP library bounds each request by
\* its timeout; a worker waiting for the mutex is woken when it keeps being freed.
FairSpec ==
  /\ Spec
  /\ WF_vars(FeederStep)
  /\ \A w \in Worker : WF_vars(WorkerStep(w)) /\ SF_vars(Lock(w))
-----------------------------------------------------------------------------
(* Properties.                                                             *)

Labels == {"range", "begin", "probe", "end", "count", "split", "lock",
           "append", "store", "unlock", "exited"}

\* A worker past `range' holds a job that was sent.
JobsHeld == \A w \in Worker : wpc[w] \notin {"range", "exited"} => job[w] \in 1..(next - 1)

NoCounterNegative ==
  inFlight \in Nat /\ errors \in Nat /\ success \in Nat /\ firstAuth \in Nat /\ fallback \in Nat

\* The shape of the pool's state.
TypeOK ==
  /\ feeder \in {"feed", "wait", "returned"}
  /\ next \in 1..(NumJobs + 1)
  /\ wpc \in [Worker -> Labels]
  /\ job \in [Worker -> 0..NumJobs]
  /\ outcome \in [Job -> Outcome \cup {"open"}]
  /\ mu \in Worker \cup {0}
  /\ seen \in [Worker -> Seq(Job)] /\ targets \in Seq(Job)
  /\ JobsHeld /\ NoCounterNegative

At(labels) == {w \in Worker : wpc[w] \in labels}

\* At every moment the counters and the workers still holding an uncounted job
\* account for every job sent: none is counted twice or forgotten on the way,
\* and each success is split into first auth and fallback.
Accounting ==
  /\ success + errors + Cardinality(At({"begin", "probe", "end", "count"})) = next - 1
  /\ firstAuth + fallback + Cardinality(At({"split"})) = success

\* The in-flight gauge is the number of probes running, so it is zero between
\* scans whatever the interleaving (ProbeBegin and ProbeEnd are paired).
GaugeCountsProbes == inFlight = Cardinality(At({"probe", "end"}))

\* What probeAll returns: each answered job once, as many as `success' says.
ResultComplete ==
  feeder = "returned" =>
    /\ {targets[i] : i \in DOMAIN targets} = {j \in Job : outcome[j] \in Good}
    /\ \A i, k \in DOMAIN targets : targets[i] = targets[k] => i = k
    /\ Len(targets) = success /\ success + errors = NumJobs

\* The pool implements a pass over the jobs: it settles each of them once and
\* returns exactly what was heard, never before the last worker is through.
Pass == INSTANCE ProbePass WITH
  Heard <- Good, returned <- feeder = "returned",
  result <- IF feeder = "returned" THEN {targets[i] : i \in DOMAIN targets} ELSE {}
RefinesPass == Pass!Spec

\* The scan is never stuck in the pool: probeAll returns.
PassEnds == <>(feeder = "returned")
=============================================================================

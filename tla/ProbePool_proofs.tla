--------------------------- MODULE ProbePool_proofs ---------------------------
(***************************************************************************)
(* The probe pool for any number of jobs and workers: its counters account *)
(* for every job, and what it returns is every answered job, once.         *)
(***************************************************************************)
EXTENDS ProbePool, FiniteSetTheorems, TLAPS

-----------------------------------------------------------------------------
(* Counting workers by label.                                              *)

LEMMA WorkersFinite ==
  /\ Worker # {} /\ IsFiniteSet(Worker) /\ 0 \notin Worker
  /\ \A labels : IsFiniteSet(At(labels)) /\ Cardinality(At(labels)) \in Nat
  /\ \A labels : Cardinality(At(labels)') \in Nat
<1>1. Worker # {} /\ IsFiniteSet(Worker) /\ 0 \notin Worker
  <2>1. PICK n \in Int : n >= 1 /\ Worker = 1..n
    BY PoolAssumption DEF Worker
  <2>2. IsFiniteSet(1..n)
    BY <2>1, FS_Interval
  <2> QED
    BY <2>1, <2>2
<1>2. ASSUME NEW labels
      PROVE  /\ IsFiniteSet(At(labels)) /\ Cardinality(At(labels)) \in Nat
             /\ Cardinality(At(labels)') \in Nat
  <2>1. IsFiniteSet(At(labels)) /\ IsFiniteSet(At(labels)')
    BY <1>1, FS_Subset DEF At
  <2> QED
    BY <2>1, FS_CardinalityType
<1> QED
  BY <1>1, <1>2

\* How a move from one label to another changes the number of workers in `labels'.
Shift(from, to, labels) ==
  (IF to \in labels THEN 1 ELSE 0) - (IF from \in labels THEN 1 ELSE 0)

\* A worker that moves is one more where it arrives and one less where it was.
LEMMA GotoCounts ==
  ASSUME wpc \in [Worker -> Labels], NEW w \in Worker, NEW label, Goto(w, label), NEW labels
  PROVE  Cardinality(At(labels)') = Cardinality(At(labels)) + Shift(wpc[w], label, labels)
<1>1. At(labels)' = IF label \in labels THEN At(labels) \cup {w} ELSE At(labels) \ {w}
  BY DEF At, Goto
<1>2. w \in At(labels) <=> wpc[w] \in labels
  BY DEF At
<1>3. IsFiniteSet(At(labels)) /\ Cardinality(At(labels)) \in Nat
  BY WorkersFinite
<1>4. CASE label \in labels
  <2>1. Cardinality(At(labels)') = IF w \in At(labels) THEN Cardinality(At(labels))
                                   ELSE Cardinality(At(labels)) + 1
    BY <1>1, <1>3, <1>4, FS_AddElement
  <2> QED
    BY <1>2, <1>3, <1>4, <2>1 DEF Shift
<1>5. CASE label \notin labels
  <2>1. Cardinality(At(labels)') = IF w \in At(labels) THEN Cardinality(At(labels)) - 1
                                   ELSE Cardinality(At(labels))
    BY <1>1, <1>3, <1>5, FS_RemoveElement
  <2> QED
    BY <1>2, <1>3, <1>5, <2>1 DEF Shift
<1> QED
  BY <1>4, <1>5

\* Where everybody is after a move.
LEMMA Moved ==
  ASSUME wpc \in [Worker -> Labels], NEW w \in Worker, NEW label, Goto(w, label)
  PROVE  \A v \in Worker : wpc'[v] = IF v = w THEN label ELSE wpc[v]
BY DEF Goto

LEMMA StillCounts ==
  ASSUME UNCHANGED wpc, NEW labels
  PROVE  At(labels)' = At(labels)
BY DEF At

-----------------------------------------------------------------------------
(* Types and counters.                                                     *)

\* What a worker past `range' holds is a job of the list, already sent.
LEMMA HeldJobs ==
  ASSUME TypeOK, NEW w \in Worker, wpc[w] \notin {"range", "exited"}
  PROVE  job[w] \in Job /\ job[w] < next
<1>1. job[w] \in 1..(next - 1)
  BY DEF TypeOK, JobsHeld
<1>2. next \in Int /\ next - 1 <= NumJobs
  BY PoolAssumption DEF TypeOK
<1> QED
  BY <1>1, <1>2, PoolAssumption DEF Job

\* The workers that hold a job nobody has counted, that are probing, and that
\* have still to count the auth of their success.
Uncounted == Cardinality(At({"begin", "probe", "end", "count"}))
Probing   == Cardinality(At({"probe", "end"}))
Splitting == Cardinality(At({"split"}))

LEMMA CountsAreNumbers ==
  /\ Uncounted \in Nat /\ Probing \in Nat /\ Splitting \in Nat
  /\ Uncounted' \in Nat /\ Probing' \in Nat /\ Splitting' \in Nat
BY WorkersFinite DEF Uncounted, Probing, Splitting

\* What a move does to the three counts, and to the labels.
LEMMA MoveCounts ==
  ASSUME TypeOK, NEW w \in Worker, NEW label \in Labels, Goto(w, label)
  PROVE  /\ Uncounted' = Uncounted + Shift(wpc[w], label, {"begin", "probe", "end", "count"})
         /\ Probing' = Probing + Shift(wpc[w], label, {"probe", "end"})
         /\ Splitting' = Splitting + Shift(wpc[w], label, {"split"})
         /\ wpc' \in [Worker -> Labels]
         /\ \A v \in Worker : wpc'[v] = IF v = w THEN label ELSE wpc[v]
<1>1. wpc' \in [Worker -> Labels] /\ \A v \in Worker : wpc'[v] = IF v = w THEN label ELSE wpc[v]
  BY DEF Goto, TypeOK
<1>2. \A labels : Cardinality(At(labels)') = Cardinality(At(labels)) + Shift(wpc[w], label, labels)
  BY GotoCounts DEF TypeOK
<1> QED
  BY <1>1, <1>2 DEF Uncounted, Probing, Splitting

Counts ==
  /\ success + errors + Uncounted = next - 1
  /\ firstAuth + fallback + Splitting = success
  /\ inFlight = Probing

LEMMA CountsStated == Counts <=> GaugeCountsProbes /\ Accounting
BY DEF Counts, GaugeCountsProbes, Accounting, Uncounted, Probing, Splitting

Counted == TypeOK /\ Counts

LEMMA CountedInit == Init => Counted
<1> SUFFICES ASSUME Init PROVE Counted
  OBVIOUS
<1>1. ASSUME NEW labels, "range" \notin labels, "exited" \notin labels
      PROVE  Cardinality(At(labels)) = 0
  <2>1. At(labels) = {}
    BY <1>1 DEF Init, At
  <2> QED
    BY <2>1, FS_EmptySet
<1>2. Uncounted = 0 /\ Probing = 0 /\ Splitting = 0
  BY <1>1 DEF Uncounted, Probing, Splitting
<1>3. TypeOK
  BY PoolAssumption DEF Init, TypeOK, Labels, Job, Outcome, JobsHeld, NoCounterNegative
<1> QED
  BY <1>2, <1>3 DEF Counted, Counts, Init

LEMMA CountedStep == Counted /\ [Next]_vars => Counted'
<1> SUFFICES ASSUME Counted, [Next]_vars PROVE Counted'
  OBVIOUS
<1> USE CountsAreNumbers DEF Counted
<1>1. ASSUME NEW w \in Worker, Send(w)
      PROVE  Counted'
  <2>1. Goto(w, "begin") /\ wpc[w] = "range"
    BY <1>1 DEF Send
  <2>2. /\ Uncounted' = Uncounted + 1 /\ Probing' = Probing /\ Splitting' = Splitting
        /\ wpc' \in [Worker -> Labels]
        /\ \A v \in Worker : wpc'[v] = IF v = w THEN "begin" ELSE wpc[v]
    BY <2>1, MoveCounts DEF Shift, Labels
  <2>3. Counts'
    BY <1>1, <2>2 DEF Send, Counts, counters, TypeOK, NoCounterNegative
  <2>4. JobsHeld'
    BY <1>1, <2>1, <2>2, PoolAssumption DEF Send, TypeOK, JobsHeld, counters
  <2>5. NoCounterNegative'
    BY <1>1, <2>2, <2>3 DEF Send, TypeOK, NoCounterNegative, counters, Counts
  <2>6. next' \in 1..(NumJobs + 1) /\ job' \in [Worker -> 0..NumJobs]
    BY <1>1, PoolAssumption DEF Send, TypeOK
  <2>7. TypeOK'
    BY <1>1, <2>2, <2>4, <2>5, <2>6 DEF Send, TypeOK
  <2> QED
    BY <2>3, <2>7
<1>2. ASSUME NEW w \in Worker, Exit(w)
      PROVE  Counted'
  <2>1. Goto(w, "exited") /\ wpc[w] = "range"
    BY <1>2 DEF Exit
  <2>2. /\ Uncounted' = Uncounted /\ Probing' = Probing /\ Splitting' = Splitting
        /\ wpc' \in [Worker -> Labels]
        /\ \A v \in Worker : wpc'[v] = IF v = w THEN "exited" ELSE wpc[v]
    BY <2>1, MoveCounts DEF Shift, Labels
  <2>3. Counts'
    BY <1>2, <2>2 DEF Exit, Counts, counters, TypeOK, NoCounterNegative
  <2>4. JobsHeld'
    BY <1>2, <2>1, <2>2 DEF Exit, TypeOK, JobsHeld, counters
  <2>5. NoCounterNegative'
    BY <1>2, <2>2, <2>3 DEF Exit, TypeOK, NoCounterNegative, counters, Counts
  <2>6. TypeOK'
    BY <1>2, <2>2, <2>4, <2>5 DEF Exit, TypeOK
  <2> QED
    BY <2>3, <2>6
<1>3. ASSUME NEW w \in Worker, ProbeBegin(w)
      PROVE  Counted'
  <2>1. Goto(w, "probe") /\ wpc[w] = "begin"
    BY <1>3 DEF ProbeBegin
  <2>2. /\ Uncounted' = Uncounted /\ Probing' = Probing + 1 /\ Splitting' = Splitting
        /\ wpc' \in [Worker -> Labels]
        /\ \A v \in Worker : wpc'[v] = IF v = w THEN "probe" ELSE wpc[v]
    BY <2>1, MoveCounts DEF Shift, Labels
  <2>3. Counts'
    BY <1>3, <2>2 DEF ProbeBegin, Counts, counters, TypeOK, NoCounterNegative
  <2>4. JobsHeld'
    BY <1>3, <2>1, <2>2 DEF ProbeBegin, TypeOK, JobsHeld, counters
  <2>5. NoCounterNegative'
    BY <1>3, <2>2, <2>3 DEF ProbeBegin, TypeOK, NoCounterNegative, counters, Counts
  <2>6. TypeOK'
    BY <1>3, <2>2, <2>4, <2>5 DEF ProbeBegin, TypeOK
  <2> QED
    BY <2>3, <2>6
<1>4. ASSUME NEW w \in Worker, NEW how \in Outcome, Probe(w, how)
      PROVE  Counted'
  <2>1. Goto(w, "end") /\ wpc[w] = "probe"
    BY <1>4 DEF Probe
  <2>2. /\ Uncounted' = Uncounted /\ Probing' = Probing /\ Splitting' = Splitting
        /\ wpc' \in [Worker -> Labels]
        /\ \A v \in Worker : wpc'[v] = IF v = w THEN "end" ELSE wpc[v]
    BY <2>1, MoveCounts DEF Shift, Labels
  <2>3. Counts'
    BY <1>4, <2>2 DEF Probe, Counts, counters, TypeOK, NoCounterNegative
  <2>4. JobsHeld'
    BY <1>4, <2>1, <2>2 DEF Probe, TypeOK, JobsHeld, counters
  <2>5. NoCounterNegative'
    BY <1>4, <2>2, <2>3 DEF Probe, TypeOK, NoCounterNegative, counters, Counts
  <2>6. TypeOK'
    BY <1>4, <2>2, <2>4, <2>5 DEF Probe, TypeOK
  <2> QED
    BY <2>3, <2>6
<1>5. ASSUME NEW w \in Worker, ProbeEnd(w)
      PROVE  Counted'
  <2>1. Goto(w, "count") /\ wpc[w] = "end"
    BY <1>5 DEF ProbeEnd
  <2>2. /\ Uncounted' = Uncounted /\ Probing' = Probing - 1 /\ Splitting' = Splitting
        /\ wpc' \in [Worker -> Labels]
        /\ \A v \in Worker : wpc'[v] = IF v = w THEN "count" ELSE wpc[v]
    BY <2>1, MoveCounts DEF Shift, Labels
  <2>3. Counts'
    BY <1>5, <2>2 DEF ProbeEnd, Counts, counters, TypeOK, NoCounterNegative
  <2>4. JobsHeld'
    BY <1>5, <2>1, <2>2 DEF ProbeEnd, TypeOK, JobsHeld, counters
  <2>5. NoCounterNegative'
    BY <1>5, <2>2, <2>3 DEF ProbeEnd, TypeOK, NoCounterNegative, counters, Counts
  <2>6. TypeOK'
    BY <1>5, <2>2, <2>4, <2>5 DEF ProbeEnd, TypeOK
  <2> QED
    BY <2>3, <2>6
<1>6. ASSUME NEW w \in Worker, CountError(w)
      PROVE  Counted'
  <2>1. Goto(w, "range") /\ wpc[w] = "count"
    BY <1>6 DEF CountError
  <2>2. /\ Uncounted' = Uncounted - 1 /\ Probing' = Probing /\ Splitting' = Splitting
        /\ wpc' \in [Worker -> Labels]
        /\ \A v \in Worker : wpc'[v] = IF v = w THEN "range" ELSE wpc[v]
    BY <2>1, MoveCounts DEF Shift, Labels
  <2>3. Counts'
    BY <1>6, <2>2 DEF CountError, Counts, counters, TypeOK, NoCounterNegative
  <2>4. JobsHeld'
    BY <1>6, <2>1, <2>2 DEF CountError, TypeOK, JobsHeld, counters
  <2>5. NoCounterNegative'
    BY <1>6, <2>2, <2>3 DEF CountError, TypeOK, NoCounterNegative, counters, Counts
  <2>6. TypeOK'
    BY <1>6, <2>2, <2>4, <2>5 DEF CountError, TypeOK
  <2> QED
    BY <2>3, <2>6
<1>7. ASSUME NEW w \in Worker, CountSuccess(w)
      PROVE  Counted'
  <2>1. Goto(w, "split") /\ wpc[w] = "count"
    BY <1>7 DEF CountSuccess
  <2>2. /\ Uncounted' = Uncounted - 1 /\ Probing' = Probing /\ Splitting' = Splitting + 1
        /\ wpc' \in [Worker -> Labels]
        /\ \A v \in Worker : wpc'[v] = IF v = w THEN "split" ELSE wpc[v]
    BY <2>1, MoveCounts DEF Shift, Labels
  <2>3. Counts'
    BY <1>7, <2>2 DEF CountSuccess, Counts, counters, TypeOK, NoCounterNegative
  <2>4. JobsHeld'
    BY <1>7, <2>1, <2>2 DEF CountSuccess, TypeOK, JobsHeld, counters
  <2>5. NoCounterNegative'
    BY <1>7, <2>2, <2>3 DEF CountSuccess, TypeOK, NoCounterNegative, counters, Counts
  <2>6. TypeOK'
    BY <1>7, <2>2, <2>4, <2>5 DEF CountSuccess, TypeOK
  <2> QED
    BY <2>3, <2>6
<1>8. ASSUME NEW w \in Worker, CountAuth(w)
      PROVE  Counted'
  <2>1. Goto(w, "lock") /\ wpc[w] = "split"
    BY <1>8 DEF CountAuth
  <2>2. /\ Uncounted' = Uncounted /\ Probing' = Probing /\ Splitting' = Splitting - 1
        /\ wpc' \in [Worker -> Labels]
        /\ \A v \in Worker : wpc'[v] = IF v = w THEN "lock" ELSE wpc[v]
    BY <2>1, MoveCounts DEF Shift, Labels
  <2>3. Counts'
    <3>1. /\ firstAuth' + fallback' = firstAuth + fallback + 1
          /\ UNCHANGED <<next, inFlight, errors, success>>
      BY <1>8 DEF CountAuth, TypeOK, NoCounterNegative
    <3> QED
      BY <2>2, <3>1 DEF Counts, TypeOK, NoCounterNegative
  <2>4. JobsHeld'
    BY <1>8, <2>1, <2>2 DEF CountAuth, TypeOK, JobsHeld, counters
  <2>5. NoCounterNegative'
    <3>1. NoCounterNegative
      BY DEF TypeOK
    <3>2. firstAuth' \in {firstAuth, firstAuth + 1} /\ fallback' \in {fallback, fallback + 1}
          /\ UNCHANGED <<inFlight, errors, success>>
      BY <1>8 DEF CountAuth
    <3> QED
      BY <3>1, <3>2 DEF NoCounterNegative
  <2>6. TypeOK'
    BY <1>8, <2>2, <2>4, <2>5 DEF CountAuth, TypeOK
  <2> QED
    BY <2>3, <2>6
<1>9. ASSUME NEW w \in Worker, Lock(w)
      PROVE  Counted'
  <2>1. Goto(w, "append") /\ wpc[w] = "lock"
    BY <1>9 DEF Lock
  <2>2. /\ Uncounted' = Uncounted /\ Probing' = Probing /\ Splitting' = Splitting
        /\ wpc' \in [Worker -> Labels]
        /\ \A v \in Worker : wpc'[v] = IF v = w THEN "append" ELSE wpc[v]
    BY <2>1, MoveCounts DEF Shift, Labels
  <2>3. Counts'
    BY <1>9, <2>2 DEF Lock, Counts, counters, TypeOK, NoCounterNegative
  <2>4. JobsHeld'
    BY <1>9, <2>1, <2>2 DEF Lock, TypeOK, JobsHeld, counters
  <2>5. NoCounterNegative'
    BY <1>9, <2>2, <2>3 DEF Lock, TypeOK, NoCounterNegative, counters, Counts
  <2>6. TypeOK'
    BY <1>9, <2>2, <2>4, <2>5 DEF Lock, TypeOK
  <2> QED
    BY <2>3, <2>6
<1>10. ASSUME NEW w \in Worker, ReadSlice(w)
      PROVE  Counted'
  <2>1. Goto(w, "store") /\ wpc[w] = "append"
    BY <1>10 DEF ReadSlice
  <2>2. /\ Uncounted' = Uncounted /\ Probing' = Probing /\ Splitting' = Splitting
        /\ wpc' \in [Worker -> Labels]
        /\ \A v \in Worker : wpc'[v] = IF v = w THEN "store" ELSE wpc[v]
    BY <2>1, MoveCounts DEF Shift, Labels
  <2>3. Counts'
    BY <1>10, <2>2 DEF ReadSlice, Counts, counters, TypeOK, NoCounterNegative
  <2>4. JobsHeld'
    BY <1>10, <2>1, <2>2 DEF ReadSlice, TypeOK, JobsHeld, counters
  <2>5. NoCounterNegative'
    BY <1>10, <2>2, <2>3 DEF ReadSlice, TypeOK, NoCounterNegative, counters, Counts
  <2>6. TypeOK'
    BY <1>10, <2>2, <2>4, <2>5 DEF ReadSlice, TypeOK
  <2> QED
    BY <2>3, <2>6
<1>11. ASSUME NEW w \in Worker, StoreSlice(w)
      PROVE  Counted'
  <2>1. Goto(w, "unlock") /\ wpc[w] = "store"
    BY <1>11 DEF StoreSlice
  <2>2. /\ Uncounted' = Uncounted /\ Probing' = Probing /\ Splitting' = Splitting
        /\ wpc' \in [Worker -> Labels]
        /\ \A v \in Worker : wpc'[v] = IF v = w THEN "unlock" ELSE wpc[v]
    BY <2>1, MoveCounts DEF Shift, Labels
  <2>3. Counts'
    BY <1>11, <2>2 DEF StoreSlice, Counts, counters, TypeOK, NoCounterNegative
  <2>4. JobsHeld'
    BY <1>11, <2>1, <2>2 DEF StoreSlice, TypeOK, JobsHeld, counters
  <2>5. NoCounterNegative'
    BY <1>11, <2>2, <2>3 DEF StoreSlice, TypeOK, NoCounterNegative, counters, Counts
  <2>6. job[w] \in Job
    BY <2>1, HeldJobs
  <2>7. targets' \in Seq(Job)
    BY <1>11, <2>6 DEF StoreSlice, TypeOK
  <2>8. TypeOK'
    BY <1>11, <2>2, <2>4, <2>5, <2>7 DEF StoreSlice, TypeOK
  <2> QED
    BY <2>3, <2>8
<1>12. ASSUME NEW w \in Worker, Unlock(w)
      PROVE  Counted'
  <2>1. Goto(w, "range") /\ wpc[w] = "unlock"
    BY <1>12 DEF Unlock
  <2>2. /\ Uncounted' = Uncounted /\ Probing' = Probing /\ Splitting' = Splitting
        /\ wpc' \in [Worker -> Labels]
        /\ \A v \in Worker : wpc'[v] = IF v = w THEN "range" ELSE wpc[v]
    BY <2>1, MoveCounts DEF Shift, Labels
  <2>3. Counts'
    BY <1>12, <2>2 DEF Unlock, Counts, counters, TypeOK, NoCounterNegative
  <2>4. JobsHeld'
    BY <1>12, <2>1, <2>2 DEF Unlock, TypeOK, JobsHeld, counters
  <2>5. NoCounterNegative'
    BY <1>12, <2>2, <2>3 DEF Unlock, TypeOK, NoCounterNegative, counters, Counts
  <2>6. seen' \in [Worker -> Seq(Job)] /\ mu' \in Worker \cup {0}
    <3>1. <<>> \in Seq(Job)
      OBVIOUS
    <3> QED
      BY <1>12, <3>1 DEF Unlock, TypeOK
  <2>7. TypeOK'
    BY <1>12, <2>2, <2>4, <2>5, <2>6 DEF Unlock, TypeOK
  <2> QED
    BY <2>3, <2>7
<1>13. CASE Close \/ Return \/ UNCHANGED vars
  <2>1. UNCHANGED <<next, wpc, job, outcome, mu, seen, targets, counters>>
    BY <1>13 DEF Close, Return, vars
  <2>2. Uncounted' = Uncounted /\ Probing' = Probing /\ Splitting' = Splitting
    BY <2>1, StillCounts DEF Uncounted, Probing, Splitting
  <2>3. Counts'
    BY <2>1, <2>2 DEF Counts, counters
  <2>4. TypeOK'
    BY <1>13, <2>1 DEF Close, Return, vars, TypeOK, JobsHeld, NoCounterNegative, counters
  <2> QED
    BY <2>3, <2>4
<1> QED
  BY <1>1, <1>2, <1>3, <1>4, <1>5, <1>6, <1>7, <1>8, <1>9, <1>10, <1>11, <1>12, <1>13 DEF Next, FeederStep, WorkerStep, Done

\* Every reachable state of the pool is well-typed.
THEOREM PoolTypeCorrect == Spec => []TypeOK
<1> QED
  BY CountedInit, CountedStep, PTL DEF Spec, Counted

\* Every job that was sent is, at every moment, counted once or still held by
\* a worker that will count it, and the in-flight gauge is the number of probes.
THEOREM PoolCounts == Spec => [](Accounting /\ GaugeCountsProbes)
<1> QED
  BY CountedInit, CountedStep, CountsStated, PTL DEF Spec, Counted

-----------------------------------------------------------------------------
(* The result.                                                             *)

\* The channel is closed when every job has been sent, and probeAll returns
\* when every worker has seen that.
Phases ==
  /\ feeder # "feed" => next = NumJobs + 1
  /\ \A w \in Worker : wpc[w] = "exited" => feeder # "feed"
  /\ feeder = "returned" => \A w \in Worker : wpc[w] = "exited"

\* No two workers hold the same job.
SoleHolder ==
  \A v, w \in Worker :
    /\ wpc[v] \notin {"range", "exited"} /\ wpc[w] \notin {"range", "exited"}
    /\ job[v] = job[w]
    => v = w

\* A job is open until its probe ends, and only then; a worker about to store
\* has an answer.
Winning == {"split", "lock", "append", "store", "unlock"}
Outcomes ==
  /\ \A j \in Job : j >= next => outcome[j] = "open"
  /\ \A j \in Job : outcome[j] = "open" /\ j < next =>
       \E w \in Worker : wpc[w] \in {"begin", "probe"} /\ job[w] = j
  /\ \A w \in Worker :
       /\ wpc[w] \in {"begin", "probe"} => outcome[job[w]] = "open"
       /\ wpc[w] \in {"end", "count"} => outcome[job[w]] # "open"
       /\ wpc[w] \in Winning => outcome[job[w]] \in Good

\* The mutex has one holder, so nobody stores between another's read and store.
Exclusion ==
  /\ \A w \in Worker : mu = w <=> wpc[w] \in {"append", "store", "unlock"}
  /\ \A w \in Worker : wpc[w] = "store" => seen[w] = targets

\* The slice holds the answered jobs no worker has still to store, each once.
Unstored == {"end", "count", "split", "lock", "append", "store"}
Stored ==
  /\ \A i, k \in DOMAIN targets : targets[i] = targets[k] => i = k
  /\ \A j \in Job : (\E i \in DOMAIN targets : targets[i] = j) <=>
       outcome[j] \in Good /\ \A w \in Worker : job[w] = j => wpc[w] \notin Unstored

Storing == Cardinality(At({"split", "lock", "append", "store"}))
LengthCounted == Len(targets) + Storing = success

LEMMA PhasesStep == TypeOK /\ Phases /\ [Next]_vars => Phases'
<1> SUFFICES ASSUME TypeOK, Phases, [Next]_vars PROVE Phases'
  OBVIOUS
<1> USE DEF Phases, TypeOK
<1>1. ASSUME NEW w \in Worker, Send(w)
      PROVE  Phases'
  BY <1>1, Moved, PoolAssumption DEF Send
<1>2. ASSUME NEW w \in Worker, Exit(w)
      PROVE  Phases'
  BY <1>2, Moved, PoolAssumption DEF Exit
<1>3. ASSUME NEW w \in Worker, ProbeBegin(w)
      PROVE  Phases'
  BY <1>3, Moved, PoolAssumption DEF ProbeBegin
<1>4. ASSUME NEW w \in Worker, NEW how \in Outcome, Probe(w, how)
      PROVE  Phases'
  BY <1>4, Moved, PoolAssumption DEF Probe
<1>5. ASSUME NEW w \in Worker, ProbeEnd(w)
      PROVE  Phases'
  BY <1>5, Moved, PoolAssumption DEF ProbeEnd
<1>6. ASSUME NEW w \in Worker, CountError(w)
      PROVE  Phases'
  BY <1>6, Moved, PoolAssumption DEF CountError
<1>7. ASSUME NEW w \in Worker, CountSuccess(w)
      PROVE  Phases'
  BY <1>7, Moved, PoolAssumption DEF CountSuccess
<1>8. ASSUME NEW w \in Worker, CountAuth(w)
      PROVE  Phases'
  BY <1>8, Moved, PoolAssumption DEF CountAuth
<1>9. ASSUME NEW w \in Worker, Lock(w)
      PROVE  Phases'
  BY <1>9, Moved, PoolAssumption DEF Lock
<1>10. ASSUME NEW w \in Worker, ReadSlice(w)
      PROVE  Phases'
  BY <1>10, Moved, PoolAssumption DEF ReadSlice
<1>11. ASSUME NEW w \in Worker, StoreSlice(w)
      PROVE  Phases'
  BY <1>11, Moved, PoolAssumption DEF StoreSlice
<1>12. ASSUME NEW w \in Worker, Unlock(w)
      PROVE  Phases'
  BY <1>12, Moved, PoolAssumption DEF Unlock
<1>13. CASE Close \/ Return \/ UNCHANGED vars
  BY <1>13, PoolAssumption DEF Close, Return, vars
<1> QED
  BY <1>1, <1>2, <1>3, <1>4, <1>5, <1>6, <1>7, <1>8, <1>9, <1>10, <1>11, <1>12, <1>13 DEF Next, FeederStep, WorkerStep, Done

LEMMA SoleHolderStep == TypeOK /\ SoleHolder /\ [Next]_vars => SoleHolder'
<1> SUFFICES ASSUME TypeOK, SoleHolder, [Next]_vars PROVE SoleHolder'
  OBVIOUS
<1> USE DEF SoleHolder, TypeOK, JobsHeld
<1>1. ASSUME NEW w \in Worker, Send(w)
      PROVE  SoleHolder'
  <2>1. Goto(w, "begin") /\ wpc[w] = "range"
    BY <1>1 DEF Send
  <2>2. \A v \in Worker : wpc'[v] = IF v = w THEN "begin" ELSE wpc[v]
    BY <2>1 DEF Goto, TypeOK
  <2> QED
    BY <1>1, <2>1, <2>2, PoolAssumption DEF Send
<1>2. ASSUME NEW w \in Worker, Exit(w)
      PROVE  SoleHolder'
  <2>1. Goto(w, "exited") /\ wpc[w] = "range"
    BY <1>2 DEF Exit
  <2>2. \A v \in Worker : wpc'[v] = IF v = w THEN "exited" ELSE wpc[v]
    BY <2>1 DEF Goto, TypeOK
  <2> QED
    BY <1>2, <2>1, <2>2, PoolAssumption DEF Exit
<1>3. ASSUME NEW w \in Worker, ProbeBegin(w)
      PROVE  SoleHolder'
  <2>1. Goto(w, "probe") /\ wpc[w] = "begin"
    BY <1>3 DEF ProbeBegin
  <2>2. \A v \in Worker : wpc'[v] = IF v = w THEN "probe" ELSE wpc[v]
    BY <2>1 DEF Goto, TypeOK
  <2> QED
    BY <1>3, <2>1, <2>2, PoolAssumption DEF ProbeBegin
<1>4. ASSUME NEW w \in Worker, NEW how \in Outcome, Probe(w, how)
      PROVE  SoleHolder'
  <2>1. Goto(w, "end") /\ wpc[w] = "probe"
    BY <1>4 DEF Probe
  <2>2. \A v \in Worker : wpc'[v] = IF v = w THEN "end" ELSE wpc[v]
    BY <2>1 DEF Goto, TypeOK
  <2> QED
    BY <1>4, <2>1, <2>2, PoolAssumption DEF Probe
<1>5. ASSUME NEW w \in Worker, ProbeEnd(w)
      PROVE  SoleHolder'
  <2>1. Goto(w, "count") /\ wpc[w] = "end"
    BY <1>5 DEF ProbeEnd
  <2>2. \A v \in Worker : wpc'[v] = IF v = w THEN "count" ELSE wpc[v]
    BY <2>1 DEF Goto, TypeOK
  <2> QED
    BY <1>5, <2>1, <2>2, PoolAssumption DEF ProbeEnd
<1>6. ASSUME NEW w \in Worker, CountError(w)
      PROVE  SoleHolder'
  <2>1. Goto(w, "range") /\ wpc[w] = "count"
    BY <1>6 DEF CountError
  <2>2. \A v \in Worker : wpc'[v] = IF v = w THEN "range" ELSE wpc[v]
    BY <2>1 DEF Goto, TypeOK
  <2> QED
    BY <1>6, <2>1, <2>2, PoolAssumption DEF CountError
<1>7. ASSUME NEW w \in Worker, CountSuccess(w)
      PROVE  SoleHolder'
  <2>1. Goto(w, "split") /\ wpc[w] = "count"
    BY <1>7 DEF CountSuccess
  <2>2. \A v \in Worker : wpc'[v] = IF v = w THEN "split" ELSE wpc[v]
    BY <2>1 DEF Goto, TypeOK
  <2> QED
    BY <1>7, <2>1, <2>2, PoolAssumption DEF CountSuccess
<1>8. ASSUME NEW w \in Worker, CountAuth(w)
      PROVE  SoleHolder'
  <2>1. Goto(w, "lock") /\ wpc[w] = "split"
    BY <1>8 DEF CountAuth
  <2>2. \A v \in Worker : wpc'[v] = IF v = w THEN "lock" ELSE wpc[v]
    BY <2>1 DEF Goto, TypeOK
  <2> QED
    BY <1>8, <2>1, <2>2, PoolAssumption DEF CountAuth
<1>9. ASSUME NEW w \in Worker, Lock(w)
      PROVE  SoleHolder'
  <2>1. Goto(w, "append") /\ wpc[w] = "lock"
    BY <1>9 DEF Lock
  <2>2. \A v \in Worker : wpc'[v] = IF v = w THEN "append" ELSE wpc[v]
    BY <2>1 DEF Goto, TypeOK
  <2> QED
    BY <1>9, <2>1, <2>2, PoolAssumption DEF Lock
<1>10. ASSUME NEW w \in Worker, ReadSlice(w)
      PROVE  SoleHolder'
  <2>1. Goto(w, "store") /\ wpc[w] = "append"
    BY <1>10 DEF ReadSlice
  <2>2. \A v \in Worker : wpc'[v] = IF v = w THEN "store" ELSE wpc[v]
    BY <2>1 DEF Goto, TypeOK
  <2> QED
    BY <1>10, <2>1, <2>2, PoolAssumption DEF ReadSlice
<1>11. ASSUME NEW w \in Worker, StoreSlice(w)
      PROVE  SoleHolder'
  <2>1. Goto(w, "unlock") /\ wpc[w] = "store"
    BY <1>11 DEF StoreSlice
  <2>2. \A v \in Worker : wpc'[v] = IF v = w THEN "unlock" ELSE wpc[v]
    BY <2>1 DEF Goto, TypeOK
  <2> QED
    BY <1>11, <2>1, <2>2, PoolAssumption DEF StoreSlice
<1>12. ASSUME NEW w \in Worker, Unlock(w)
      PROVE  SoleHolder'
  <2>1. Goto(w, "range") /\ wpc[w] = "unlock"
    BY <1>12 DEF Unlock
  <2>2. \A v \in Worker : wpc'[v] = IF v = w THEN "range" ELSE wpc[v]
    BY <2>1 DEF Goto, TypeOK
  <2> QED
    BY <1>12, <2>1, <2>2, PoolAssumption DEF Unlock
<1>13. CASE Close \/ Return \/ UNCHANGED vars
  BY <1>13, PoolAssumption DEF Close, Return, vars
<1> QED
  BY <1>1, <1>2, <1>3, <1>4, <1>5, <1>6, <1>7, <1>8, <1>9, <1>10, <1>11, <1>12, <1>13 DEF Next, FeederStep, WorkerStep, Done

LEMMA ExclusionStep == TypeOK /\ Exclusion /\ [Next]_vars => Exclusion'
<1> SUFFICES ASSUME TypeOK, Exclusion, [Next]_vars PROVE Exclusion'
  OBVIOUS
<1> USE DEF Exclusion, TypeOK
<1>1. ASSUME NEW w \in Worker, Send(w)
      PROVE  Exclusion'
  <2>1. Goto(w, "begin") /\ wpc[w] = "range"
    BY <1>1 DEF Send
  <2>2. \A v \in Worker : wpc'[v] = IF v = w THEN "begin" ELSE wpc[v]
    BY <2>1 DEF Goto, TypeOK
  <2> QED
    BY <1>1, <2>1, <2>2, WorkersFinite DEF Send
<1>2. ASSUME NEW w \in Worker, Exit(w)
      PROVE  Exclusion'
  <2>1. Goto(w, "exited") /\ wpc[w] = "range"
    BY <1>2 DEF Exit
  <2>2. \A v \in Worker : wpc'[v] = IF v = w THEN "exited" ELSE wpc[v]
    BY <2>1 DEF Goto, TypeOK
  <2> QED
    BY <1>2, <2>1, <2>2, WorkersFinite DEF Exit
<1>3. ASSUME NEW w \in Worker, ProbeBegin(w)
      PROVE  Exclusion'
  <2>1. Goto(w, "probe") /\ wpc[w] = "begin"
    BY <1>3 DEF ProbeBegin
  <2>2. \A v \in Worker : wpc'[v] = IF v = w THEN "probe" ELSE wpc[v]
    BY <2>1 DEF Goto, TypeOK
  <2> QED
    BY <1>3, <2>1, <2>2, WorkersFinite DEF ProbeBegin
<1>4. ASSUME NEW w \in Worker, NEW how \in Outcome, Probe(w, how)
      PROVE  Exclusion'
  <2>1. Goto(w, "end") /\ wpc[w] = "probe"
    BY <1>4 DEF Probe
  <2>2. \A v \in Worker : wpc'[v] = IF v = w THEN "end" ELSE wpc[v]
    BY <2>1 DEF Goto, TypeOK
  <2> QED
    BY <1>4, <2>1, <2>2, WorkersFinite DEF Probe
<1>5. ASSUME NEW w \in Worker, ProbeEnd(w)
      PROVE  Exclusion'
  <2>1. Goto(w, "count") /\ wpc[w] = "end"
    BY <1>5 DEF ProbeEnd
  <2>2. \A v \in Worker : wpc'[v] = IF v = w THEN "count" ELSE wpc[v]
    BY <2>1 DEF Goto, TypeOK
  <2> QED
    BY <1>5, <2>1, <2>2, WorkersFinite DEF ProbeEnd
<1>6. ASSUME NEW w \in Worker, CountError(w)
      PROVE  Exclusion'
  <2>1. Goto(w, "range") /\ wpc[w] = "count"
    BY <1>6 DEF CountError
  <2>2. \A v \in Worker : wpc'[v] = IF v = w THEN "range" ELSE wpc[v]
    BY <2>1 DEF Goto, TypeOK
  <2> QED
    BY <1>6, <2>1, <2>2, WorkersFinite DEF CountError
<1>7. ASSUME NEW w \in Worker, CountSuccess(w)
      PROVE  Exclusion'
  <2>1. Goto(w, "split") /\ wpc[w] = "count"
    BY <1>7 DEF CountSuccess
  <2>2. \A v \in Worker : wpc'[v] = IF v = w THEN "split" ELSE wpc[v]
    BY <2>1 DEF Goto, TypeOK
  <2> QED
    BY <1>7, <2>1, <2>2, WorkersFinite DEF CountSuccess
<1>8. ASSUME NEW w \in Worker, CountAuth(w)
      PROVE  Exclusion'
  <2>1. Goto(w, "lock") /\ wpc[w] = "split"
    BY <1>8 DEF CountAuth
  <2>2. \A v \in Worker : wpc'[v] = IF v = w THEN "lock" ELSE wpc[v]
    BY <2>1 DEF Goto, TypeOK
  <2> QED
    BY <1>8, <2>1, <2>2, WorkersFinite DEF CountAuth
<1>9. ASSUME NEW w \in Worker, Lock(w)
      PROVE  Exclusion'
  <2>1. Goto(w, "append") /\ wpc[w] = "lock"
    BY <1>9 DEF Lock
  <2>2. \A v \in Worker : wpc'[v] = IF v = w THEN "append" ELSE wpc[v]
    BY <2>1 DEF Goto, TypeOK
  <2> QED
    BY <1>9, <2>1, <2>2, WorkersFinite DEF Lock
<1>10. ASSUME NEW w \in Worker, ReadSlice(w)
      PROVE  Exclusion'
  <2>1. Goto(w, "store") /\ wpc[w] = "append"
    BY <1>10 DEF ReadSlice
  <2>2. \A v \in Worker : wpc'[v] = IF v = w THEN "store" ELSE wpc[v]
    BY <2>1 DEF Goto, TypeOK
  <2> QED
    BY <1>10, <2>1, <2>2, WorkersFinite DEF ReadSlice
<1>11. ASSUME NEW w \in Worker, StoreSlice(w)
      PROVE  Exclusion'
  <2>1. Goto(w, "unlock") /\ wpc[w] = "store"
    BY <1>11 DEF StoreSlice
  <2>2. \A v \in Worker : wpc'[v] = IF v = w THEN "unlock" ELSE wpc[v]
    BY <2>1 DEF Goto, TypeOK
  <2> QED
    BY <1>11, <2>1, <2>2, WorkersFinite DEF StoreSlice
<1>12. ASSUME NEW w \in Worker, Unlock(w)
      PROVE  Exclusion'
  <2>1. Goto(w, "range") /\ wpc[w] = "unlock"
    BY <1>12 DEF Unlock
  <2>2. \A v \in Worker : wpc'[v] = IF v = w THEN "range" ELSE wpc[v]
    BY <2>1 DEF Goto, TypeOK
  <2> QED
    BY <1>12, <2>1, <2>2, WorkersFinite DEF Unlock
<1>13. CASE Close \/ Return \/ UNCHANGED vars
  BY <1>13, WorkersFinite DEF Close, Return, vars
<1> QED
  BY <1>1, <1>2, <1>3, <1>4, <1>5, <1>6, <1>7, <1>8, <1>9, <1>10, <1>11, <1>12, <1>13 DEF Next, FeederStep, WorkerStep, Done

\* A worker that goes on with its job, while nothing else of it changes.
LEMMA OutcomesQuiet ==
  ASSUME TypeOK, Outcomes, NEW w \in Worker, NEW label,
         UNCHANGED <<next, job, outcome>>,
         \A v \in Worker : wpc'[v] = IF v = w THEN label ELSE wpc[v],
         wpc[w] \in {"begin", "probe"} <=> label \in {"begin", "probe"},
         label \in {"end", "count"} => wpc[w] \in {"end", "count"},
         label \in Winning => outcome[job[w]] \in Good
  PROVE  Outcomes'
<1>1. ASSUME NEW j \in Job, outcome[j] = "open", j < next
      PROVE  \E v \in Worker : wpc'[v] \in {"begin", "probe"} /\ job[v] = j
  <2>1. PICK v \in Worker : wpc[v] \in {"begin", "probe"} /\ job[v] = j
    BY <1>1 DEF Outcomes
  <2>2. wpc'[v] \in {"begin", "probe"}
    BY <2>1
  <2> QED
    BY <2>1, <2>2
<1>2. ASSUME NEW v \in Worker
      PROVE  /\ wpc'[v] \in {"begin", "probe"} => outcome[job[v]] = "open"
             /\ wpc'[v] \in {"end", "count"} => outcome[job[v]] # "open"
             /\ wpc'[v] \in Winning => outcome[job[v]] \in Good
  BY DEF Outcomes
<1>3. \A j \in Job : j >= next => outcome[j] = "open"
  BY DEF Outcomes
<1> QED
  BY <1>1, <1>2, <1>3 DEF Outcomes

LEMMA OutcomesStep == TypeOK /\ SoleHolder /\ Outcomes /\ [Next]_vars => Outcomes'
<1> SUFFICES ASSUME TypeOK, SoleHolder, Outcomes, [Next]_vars PROVE Outcomes'
  OBVIOUS
<1>1. ASSUME NEW w \in Worker, NEW label, Goto(w, label)
      PROVE  \A v \in Worker : wpc'[v] = IF v = w THEN label ELSE wpc[v]
  BY <1>1, Moved DEF TypeOK
<1>2. ASSUME NEW w \in Worker, Send(w)
      PROVE  Outcomes'
  <2>1. /\ wpc[w] = "range" /\ next \in Job /\ next' = next + 1 /\ UNCHANGED outcome
        /\ \A v \in Worker : wpc'[v] = IF v = w THEN "begin" ELSE wpc[v]
        /\ \A v \in Worker : job'[v] = IF v = w THEN next ELSE job[v]
    BY <1>1, <1>2, PoolAssumption DEF Send, TypeOK, Job
  <2>2. ASSUME NEW j \in Job, outcome[j] = "open", j < next + 1
        PROVE  \E v \in Worker : wpc'[v] \in {"begin", "probe"} /\ job'[v] = j
    <3>1. CASE j = next
      BY <2>1, <3>1
    <3>2. CASE j # next
      <4>1. j < next
        BY <2>2, <3>2 DEF TypeOK, Job
      <4>2. PICK v \in Worker : wpc[v] \in {"begin", "probe"} /\ job[v] = j
        BY <2>2, <4>1 DEF Outcomes
      <4>3. v # w
        BY <2>1, <4>2
      <4> QED
        BY <2>1, <4>2, <4>3
    <3> QED
      BY <3>1, <3>2
  <2>3. \A j \in Job : j >= next + 1 => outcome[j] = "open"
    BY DEF Outcomes, TypeOK, Job
  <2>4. outcome[next] = "open"
    BY <2>1 DEF Outcomes, Job
  <2>5. ASSUME NEW v \in Worker
        PROVE  /\ wpc'[v] \in {"begin", "probe"} => outcome[job'[v]] = "open"
               /\ wpc'[v] \in {"end", "count"} => outcome[job'[v]] # "open"
               /\ wpc'[v] \in Winning => outcome[job'[v]] \in Good
    BY <2>1, <2>4 DEF Outcomes, Winning
  <2> QED
    BY <2>1, <2>2, <2>3, <2>5 DEF Outcomes
<1>3. ASSUME NEW w \in Worker, NEW how \in Outcome, Probe(w, how)
      PROVE  Outcomes'
  <2>1. job[w] \in Job /\ job[w] < next
    BY <1>3, HeldJobs DEF Probe
  <2>2. /\ wpc[w] = "probe" /\ UNCHANGED <<next, job>>
        /\ \A j \in Job : outcome'[j] = IF j = job[w] THEN how ELSE outcome[j]
        /\ \A v \in Worker : wpc'[v] = IF v = w THEN "end" ELSE wpc[v]
    BY <1>1, <1>3 DEF Probe, TypeOK
  <2>3. how # "open"
    BY DEF Outcome, Good
  <2>4. ASSUME NEW j \in Job, outcome'[j] = "open", j < next
        PROVE  \E v \in Worker : wpc'[v] \in {"begin", "probe"} /\ job[v] = j
    <3>1. j # job[w] /\ outcome[j] = "open"
      BY <2>2, <2>3, <2>4
    <3>2. PICK v \in Worker : wpc[v] \in {"begin", "probe"} /\ job[v] = j
      BY <2>4, <3>1 DEF Outcomes
    <3> QED
      BY <2>2, <3>1, <3>2
  <2>5. ASSUME NEW j \in Job, j >= next
        PROVE  outcome'[j] = "open"
    <3>1. j # job[w]
      BY <2>1, <2>5 DEF TypeOK, Job
    <3> QED
      BY <2>2, <2>5, <3>1 DEF Outcomes
  <2>6. ASSUME NEW v \in Worker
        PROVE  /\ wpc'[v] \in {"begin", "probe"} => outcome'[job[v]] = "open"
               /\ wpc'[v] \in {"end", "count"} => outcome'[job[v]] # "open"
               /\ wpc'[v] \in Winning => outcome'[job[v]] \in Good
    <3>1. CASE v = w
      BY <2>1, <2>2, <2>3, <3>1 DEF Winning
    <3>2. CASE v # w /\ wpc[v] \notin {"range", "exited"}
      <4>1. job[v] # job[w]
        BY <2>2, <3>2 DEF SoleHolder
      <4>2. job[v] \in Job
        BY <3>2, HeldJobs
      <4>3. outcome'[job[v]] = outcome[job[v]]
        BY <2>2, <4>1, <4>2
      <4> QED
        BY <2>2, <3>2, <4>3 DEF Outcomes
    <3>3. CASE v # w /\ wpc[v] \in {"range", "exited"}
      BY <2>2, <3>3 DEF Winning
    <3> QED
      BY <3>1, <3>2, <3>3
  <2> QED
    BY <2>2, <2>4, <2>5, <2>6 DEF Outcomes
<1>4. ASSUME NEW w \in Worker, ProbeBegin(w)
      PROVE  Outcomes'
  BY <1>1, <1>4, OutcomesQuiet DEF ProbeBegin, Winning
<1>5. ASSUME NEW w \in Worker, CountSuccess(w)
      PROVE  Outcomes'
  <2>1. job[w] \in Job
    BY <1>5, HeldJobs DEF CountSuccess
  <2>2. outcome[job[w]] \in Good
    BY <1>5, <2>1 DEF CountSuccess, Outcomes, TypeOK, Outcome
  <2> QED
    BY <1>1, <1>5, <2>2, OutcomesQuiet DEF CountSuccess, Winning
<1>6. ASSUME NEW w \in Worker, Exit(w) \/ ProbeEnd(w) \/ CountError(w) \/ Unlock(w)
      PROVE  Outcomes'
  <2>1. CASE Exit(w)
    BY <1>1, <2>1, OutcomesQuiet DEF Exit, Winning
  <2>2. CASE ProbeEnd(w)
    BY <1>1, <2>2, OutcomesQuiet DEF ProbeEnd, Winning
  <2>3. CASE CountError(w)
    BY <1>1, <2>3, OutcomesQuiet DEF CountError, Winning
  <2>4. CASE Unlock(w)
    BY <1>1, <2>4, OutcomesQuiet DEF Unlock, Winning
  <2> QED
    BY <1>6, <2>1, <2>2, <2>3, <2>4
<1>7. ASSUME NEW w \in Worker, CountAuth(w) \/ Lock(w) \/ ReadSlice(w) \/ StoreSlice(w)
      PROVE  Outcomes'
  <2>1. outcome[job[w]] \in Good
    BY <1>7 DEF CountAuth, Lock, ReadSlice, StoreSlice, Winning, Outcomes
  <2>2. CASE CountAuth(w)
    BY <1>1, <2>1, <2>2, OutcomesQuiet DEF CountAuth
  <2>3. CASE Lock(w)
    BY <1>1, <2>1, <2>3, OutcomesQuiet DEF Lock
  <2>4. CASE ReadSlice(w)
    BY <1>1, <2>1, <2>4, OutcomesQuiet DEF ReadSlice
  <2>5. CASE StoreSlice(w)
    BY <1>1, <2>1, <2>5, OutcomesQuiet DEF StoreSlice
  <2> QED
    BY <1>7, <2>2, <2>3, <2>4, <2>5
<1>8. CASE Close \/ Return \/ UNCHANGED vars
  BY <1>8 DEF Close, Return, vars, Outcomes
<1> QED
  BY <1>2, <1>3, <1>4, <1>5, <1>6, <1>7, <1>8 DEF Next, FeederStep, WorkerStep, Done

\* A step that stores nothing, and in which the worker that moves, if it
\* finishes its job, has nothing to store.
LEMMA StoredQuiet ==
  ASSUME TypeOK, Stored, NEW w \in Worker, NEW label,
         UNCHANGED <<job, outcome, targets>>,
         \A v \in Worker : wpc'[v] = IF v = w THEN label ELSE wpc[v],
         (wpc[w] \in Unstored <=> label \in Unstored) \/ outcome[job[w]] \notin Good
  PROVE  Stored'
<1>1. ASSUME NEW j \in Job, outcome[j] \in Good
      PROVE  (\A v \in Worker : job[v] = j => wpc'[v] \notin Unstored)
               <=> (\A v \in Worker : job[v] = j => wpc[v] \notin Unstored)
  BY <1>1
<1>2. \A j \in Job : (\E i \in DOMAIN targets : targets[i] = j) <=>
        outcome[j] \in Good /\ \A v \in Worker : job[v] = j => wpc'[v] \notin Unstored
  BY <1>1 DEF Stored
<1>3. \A i, k \in DOMAIN targets : targets[i] = targets[k] => i = k
  BY DEF Stored
<1> QED
  BY <1>2, <1>3 DEF Stored

LEMMA StoredStep ==
  TypeOK /\ SoleHolder /\ Outcomes /\ Exclusion /\ Stored /\ [Next]_vars => Stored'
<1> SUFFICES ASSUME TypeOK, SoleHolder, Outcomes, Exclusion, Stored, [Next]_vars
             PROVE  Stored'
  OBVIOUS
<1>1. ASSUME NEW w \in Worker, NEW label, Goto(w, label)
      PROVE  \A v \in Worker : wpc'[v] = IF v = w THEN label ELSE wpc[v]
  BY <1>1, Moved DEF TypeOK
<1>2. ASSUME NEW w \in Worker, Send(w)
      PROVE  Stored'
  <2>1. /\ wpc[w] = "range" /\ UNCHANGED <<outcome, targets>>
        /\ \A v \in Worker : wpc'[v] = IF v = w THEN "begin" ELSE wpc[v]
        /\ \A v \in Worker : job'[v] = IF v = w THEN next ELSE job[v]
    BY <1>1, <1>2 DEF Send, TypeOK
  <2>2. ASSUME NEW j \in Job
        PROVE  (\A v \in Worker : job'[v] = j => wpc'[v] \notin Unstored)
                 <=> (\A v \in Worker : job[v] = j => wpc[v] \notin Unstored)
    BY <2>1 DEF Unstored
  <2> QED
    BY <2>1, <2>2 DEF Stored
<1>3. ASSUME NEW w \in Worker, NEW how \in Outcome, Probe(w, how)
      PROVE  Stored'
  <2>1. job[w] \in Job
    BY <1>3, HeldJobs DEF Probe
  <2>2. /\ wpc[w] = "probe" /\ UNCHANGED <<job, targets>>
        /\ \A j \in Job : outcome'[j] = IF j = job[w] THEN how ELSE outcome[j]
        /\ \A v \in Worker : wpc'[v] = IF v = w THEN "end" ELSE wpc[v]
    BY <1>1, <1>3 DEF Probe, TypeOK
  <2>3. ASSUME NEW j \in Job
        PROVE  (\E i \in DOMAIN targets : targets[i] = j) <=>
                 outcome'[j] \in Good /\ \A v \in Worker : job[v] = j => wpc'[v] \notin Unstored
    <3>1. CASE j = job[w]
      <4>1. outcome[j] = "open"
        BY <2>2, <3>1 DEF Outcomes
      <4>2. ~ \E i \in DOMAIN targets : targets[i] = j
        BY <4>1 DEF Stored, Good
      <4>3. wpc'[w] \in Unstored
        BY <2>2 DEF Unstored
      <4> QED
        BY <3>1, <4>2, <4>3
    <3>2. CASE j # job[w]
      BY <2>2, <3>2 DEF Stored
    <3> QED
      BY <3>1, <3>2
  <2> QED
    BY <2>2, <2>3 DEF Stored
<1>4. ASSUME NEW w \in Worker, StoreSlice(w)
      PROVE  Stored'
  <2>1. job[w] \in Job /\ outcome[job[w]] \in Good
    BY <1>4, HeldJobs DEF StoreSlice, Outcomes, Winning
  <2>2. /\ wpc[w] = "store" /\ UNCHANGED <<job, outcome>>
        /\ targets \in Seq(Job) /\ targets' = Append(targets, job[w])
        /\ \A v \in Worker : wpc'[v] = IF v = w THEN "unlock" ELSE wpc[v]
    BY <1>1, <1>4 DEF StoreSlice, Exclusion, TypeOK
  <2>3. ~ \E i \in DOMAIN targets : targets[i] = job[w]
    BY <2>1, <2>2 DEF Stored, Unstored
  <2>4. /\ DOMAIN targets = 1..Len(targets) /\ DOMAIN targets' = 1..(Len(targets) + 1)
        /\ Len(targets) \in Nat
        /\ targets'[Len(targets) + 1] = job[w]
        /\ \A i \in DOMAIN targets : targets'[i] = targets[i]
    BY <2>1, <2>2
  <2>5. \A i \in DOMAIN targets' : i \in DOMAIN targets \/ i = Len(targets) + 1
    BY <2>4
  <2>6. \A i, k \in DOMAIN targets' : targets'[i] = targets'[k] => i = k
    BY <2>3, <2>4, <2>5 DEF Stored
  <2>7. ASSUME NEW j \in Job
        PROVE  (\E i \in DOMAIN targets' : targets'[i] = j) <=>
                 outcome[j] \in Good /\ \A v \in Worker : job[v] = j => wpc'[v] \notin Unstored
    <3>1. CASE j = job[w]
      <4>1. \E i \in DOMAIN targets' : targets'[i] = j
        BY <2>4, <3>1
      <4>2. ASSUME NEW v \in Worker, job[v] = j
            PROVE  wpc'[v] \notin Unstored
        BY <2>2, <3>1, <4>2 DEF SoleHolder, Unstored
      <4> QED
        BY <2>1, <3>1, <4>1, <4>2
    <3>2. CASE j # job[w]
      <4>1. (\E i \in DOMAIN targets' : targets'[i] = j) <=> \E i \in DOMAIN targets : targets[i] = j
        BY <2>4, <2>5, <3>2
      <4> QED
        BY <2>2, <3>2, <4>1 DEF Stored
    <3> QED
      BY <3>1, <3>2
  <2> QED
    BY <2>2, <2>6, <2>7 DEF Stored
<1>5. ASSUME NEW w \in Worker, CountError(w)
      PROVE  Stored'
  BY <1>1, <1>5, StoredQuiet DEF CountError, Good
<1>6. ASSUME NEW w \in Worker, Exit(w) \/ ProbeBegin(w) \/ Unlock(w)
      PROVE  Stored'
  <2>1. CASE Exit(w)
    BY <1>1, <2>1, StoredQuiet DEF Exit, Unstored
  <2>2. CASE ProbeBegin(w)
    BY <1>1, <2>2, StoredQuiet DEF ProbeBegin, Unstored
  <2>3. CASE Unlock(w)
    BY <1>1, <2>3, StoredQuiet DEF Unlock, Unstored
  <2> QED
    BY <1>6, <2>1, <2>2, <2>3
<1>7. ASSUME NEW w \in Worker,
             ProbeEnd(w) \/ CountSuccess(w) \/ CountAuth(w) \/ Lock(w) \/ ReadSlice(w)
      PROVE  Stored'
  <2>1. CASE ProbeEnd(w)
    BY <1>1, <2>1, StoredQuiet DEF ProbeEnd, Unstored
  <2>2. CASE CountSuccess(w)
    BY <1>1, <2>2, StoredQuiet DEF CountSuccess, Unstored
  <2>3. CASE CountAuth(w)
    BY <1>1, <2>3, StoredQuiet DEF CountAuth, Unstored
  <2>4. CASE Lock(w)
    BY <1>1, <2>4, StoredQuiet DEF Lock, Unstored
  <2>5. CASE ReadSlice(w)
    BY <1>1, <2>5, StoredQuiet DEF ReadSlice, Unstored
  <2> QED
    BY <1>7, <2>1, <2>2, <2>3, <2>4, <2>5
<1>8. CASE Close \/ Return \/ UNCHANGED vars
  BY <1>8 DEF Close, Return, vars, Stored
<1> QED
  BY <1>2, <1>3, <1>4, <1>5, <1>6, <1>7, <1>8 DEF Next, FeederStep, WorkerStep, Done

LEMMA LengthStep == TypeOK /\ Exclusion /\ LengthCounted /\ [Next]_vars => LengthCounted'
<1> SUFFICES ASSUME TypeOK, Exclusion, LengthCounted, [Next]_vars PROVE LengthCounted'
  OBVIOUS
<1>0. Storing \in Nat /\ Len(targets) \in Nat
  BY WorkersFinite DEF Storing, TypeOK
<1>1. ASSUME NEW w \in Worker, NEW label, Goto(w, label)
      PROVE  Storing' = Storing + Shift(wpc[w], label, {"split", "lock", "append", "store"})
  BY <1>1, GotoCounts DEF Storing, TypeOK
<1>2. ASSUME NEW w \in Worker, CountSuccess(w)
      PROVE  LengthCounted'
  <2>1. Storing' = Storing + 1
    BY <1>0, <1>1, <1>2 DEF CountSuccess, Shift
  <2> QED
    <3>1. success' = success + 1 /\ UNCHANGED targets /\ success \in Nat
      BY <1>2 DEF CountSuccess, TypeOK, NoCounterNegative
    <3> QED
      BY <1>0, <2>1, <3>1 DEF LengthCounted
<1>3. ASSUME NEW w \in Worker, StoreSlice(w)
      PROVE  LengthCounted'
  <2>1. Storing' = Storing - 1
    BY <1>0, <1>1, <1>3 DEF StoreSlice, Shift
  <2>2. job[w] \in Job /\ targets' = Append(targets, job[w]) /\ targets \in Seq(Job)
    BY <1>3, HeldJobs DEF StoreSlice, Exclusion, TypeOK
  <2>3. Len(targets') = Len(targets) + 1
    BY <2>2
  <2> QED
    BY <1>0, <1>3, <2>1, <2>3 DEF StoreSlice, LengthCounted, counters
<1>4. ASSUME UNCHANGED <<targets, success>>, Storing' = Storing
      PROVE  LengthCounted'
  BY <1>4 DEF LengthCounted
<1>5. ASSUME NEW w \in Worker, Send(w) \/ Exit(w) \/ ProbeBegin(w) \/ ProbeEnd(w)
      PROVE  LengthCounted'
  <2>1. PICK label \in Labels : Goto(w, label) /\ Shift(wpc[w], label, {"split", "lock", "append", "store"}) = 0
    BY <1>5 DEF Send, Exit, ProbeBegin, ProbeEnd, Shift, Labels
  <2> QED
    BY <1>0, <1>1, <1>4, <1>5, <2>1 DEF Send, Exit, ProbeBegin, ProbeEnd, counters
<1>6. ASSUME NEW w \in Worker, CountError(w) \/ CountAuth(w) \/ Lock(w) \/ ReadSlice(w) \/ Unlock(w)
      PROVE  LengthCounted'
  <2>1. PICK label \in Labels : Goto(w, label) /\ Shift(wpc[w], label, {"split", "lock", "append", "store"}) = 0
    BY <1>6 DEF CountError, CountAuth, Lock, ReadSlice, Unlock, Shift, Labels
  <2> QED
    BY <1>0, <1>1, <1>4, <1>6, <2>1 DEF CountError, CountAuth, Lock, ReadSlice, Unlock, counters
<1>7. ASSUME NEW w \in Worker, NEW how \in Outcome, Probe(w, how)
      PROVE  LengthCounted'
  <2>1. Storing' = Storing
    BY <1>0, <1>1, <1>7 DEF Probe, Shift
  <2> QED
    BY <1>4, <1>7, <2>1 DEF Probe, counters
<1>8. CASE Close \/ Return \/ UNCHANGED vars
  BY <1>4, <1>8, StillCounts DEF Close, Return, vars, counters, Storing
<1> QED
  BY <1>2, <1>3, <1>5, <1>6, <1>7, <1>8 DEF Next, FeederStep, WorkerStep, Done

PoolInv ==
  Counted /\ Phases /\ SoleHolder /\ Outcomes /\ Exclusion /\ Stored /\ LengthCounted

LEMMA PoolInit == Init => PoolInv
<1> SUFFICES ASSUME Init PROVE PoolInv
  OBVIOUS
<1>1. Counted
  BY CountedInit
<1>2. \A w \in Worker : wpc[w] \in {"range", "exited"}
  BY DEF Init
<1>3. Phases
  BY PoolAssumption DEF Init, Phases
<1>4. SoleHolder
  BY <1>2 DEF SoleHolder
<1>5. Outcomes
  BY <1>2 DEF Init, Outcomes, Winning, Job
<1>6. Exclusion
  BY <1>2, WorkersFinite DEF Init, Exclusion
<1>7. Stored
  BY DEF Init, Stored, Good
<1>8. LengthCounted
  <2>1. At({"split", "lock", "append", "store"}) = {}
    BY <1>2 DEF At
  <2>2. Storing = 0
    BY <2>1, FS_EmptySet DEF Storing
  <2>3. Len(targets) = 0 /\ success = 0
    BY DEF Init
  <2> QED
    BY <2>2, <2>3 DEF LengthCounted
<1> QED
  BY <1>1, <1>3, <1>4, <1>5, <1>6, <1>7, <1>8 DEF PoolInv

LEMMA PoolStep == PoolInv /\ [Next]_vars => PoolInv'
BY CountedStep, PhasesStep, SoleHolderStep, OutcomesStep, ExclusionStep, StoredStep, LengthStep
DEF PoolInv, Counted

LEMMA PoolInvariant == Spec => []PoolInv
BY PoolInit, PoolStep, PTL DEF Spec

\* When probeAll has returned, every job is settled and the slice is complete.
LEMMA AllSettled ==
  PoolInv /\ (\A w \in Worker : wpc[w] = "exited") =>
    /\ \A j \in Job : outcome[j] # "open"
    /\ \A j \in Job : (\E i \in DOMAIN targets : targets[i] = j) <=> outcome[j] \in Good
<1> SUFFICES ASSUME PoolInv, \A w \in Worker : wpc[w] = "exited"
             PROVE  /\ \A j \in Job : outcome[j] # "open"
                    /\ \A j \in Job : (\E i \in DOMAIN targets : targets[i] = j)
                                        <=> outcome[j] \in Good
  OBVIOUS
<1>1. next = NumJobs + 1
  BY WorkersFinite DEF PoolInv, Phases
<1>2. \A j \in Job : j < next
  BY <1>1, PoolAssumption DEF Job
<1>3. \A j \in Job : outcome[j] # "open"
  BY <1>2 DEF PoolInv, Outcomes
<1>4. \A j \in Job : (\E i \in DOMAIN targets : targets[i] = j) <=> outcome[j] \in Good
  BY DEF PoolInv, Stored, Unstored
<1> QED
  BY <1>3, <1>4

LEMMA ResultFollows == PoolInv => ResultComplete
<1> SUFFICES ASSUME PoolInv, feeder = "returned" PROVE ResultComplete
  BY DEF ResultComplete
<1>1. \A w \in Worker : wpc[w] = "exited"
  BY DEF PoolInv, Phases
<1>2. {targets[i] : i \in DOMAIN targets} = {j \in Job : outcome[j] \in Good}
  <2>1. \A i \in DOMAIN targets : targets[i] \in Job
    BY DEF PoolInv, Counted, TypeOK
  <2> QED
    BY <1>1, <2>1, AllSettled
<1>3. Len(targets) = success
  <2>1. At({"split", "lock", "append", "store"}) = {}
    BY <1>1 DEF At
  <2>2. Storing = 0
    BY <2>1, FS_EmptySet DEF Storing
  <2> QED
    BY <2>2 DEF PoolInv, LengthCounted, Counted, TypeOK
<1>4. success + errors = NumJobs
  <2>1. At({"begin", "probe", "end", "count"}) = {}
    BY <1>1 DEF At
  <2>2. Uncounted = 0
    BY <2>1, FS_EmptySet DEF Uncounted
  <2>3. next = NumJobs + 1
    BY DEF PoolInv, Phases
  <2> QED
    BY <2>2, <2>3, PoolAssumption DEF PoolInv, Counted, Counts, TypeOK, NoCounterNegative
<1> QED
  BY <1>2, <1>3, <1>4 DEF PoolInv, Stored, ResultComplete

\* When probeAll returns, its slice holds each answered job once, whatever order
\* the workers stored them in, and the counters add up to the jobs.
THEOREM PoolResultComplete == Spec => []ResultComplete
<1> QED
  BY PoolInvariant, ResultFollows, PTL

-----------------------------------------------------------------------------
(* The pool implements a pass over the job list.                           *)

LEMMA PassInit == Init => Pass!Init
<1> SUFFICES ASSUME Init PROVE Pass!Init
  OBVIOUS
<1>1. (feeder = "returned") = (Job = {})
  BY PoolAssumption DEF Init, Job
<1>2. {targets[i] : i \in DOMAIN targets} = {}
  BY DEF Init
<1> QED
  BY <1>1, <1>2 DEF Init, Pass!Init

LEMMA PassStep == PoolInv /\ [Next]_vars => [Pass!Next]_(Pass!vars)
<1> SUFFICES ASSUME PoolInv, [Next]_vars
             PROVE  [Pass!Next]_(Pass!vars)
  OBVIOUS
<1>1. ASSUME NEW w \in Worker, NEW how \in Outcome, Probe(w, how)
      PROVE  Pass!Next
  <2>1. job[w] \in Job /\ outcome[job[w]] = "open"
    BY <1>1, HeldJobs DEF Probe, PoolInv, Counted, Outcomes
  <2>2. Pass!Settle(job[w], how)
    BY <1>1, <2>1 DEF Probe, Pass!Settle
  <2> QED
    BY <2>1, <2>2 DEF Pass!Next, Outcome
<1>2. CASE Return
  <2>1. \A w \in Worker : wpc[w] = "exited"
    BY <1>2 DEF Return
  <2>2. \A j \in Job : outcome[j] # "open"
    BY <2>1, AllSettled
  <2>3. {targets[i] : i \in DOMAIN targets} = {j \in Job : outcome[j] \in Good}
    <3>1. \A i \in DOMAIN targets : targets[i] \in Job
      BY DEF PoolInv, Counted, TypeOK
    <3> QED
      BY <2>1, <3>1, AllSettled
  <2>4. Pass!Return
    BY <1>2, <2>2, <2>3 DEF Return, Pass!Return
  <2> QED
    BY <2>4 DEF Pass!Next
<1>3. ASSUME feeder # "returned", feeder' # "returned", UNCHANGED outcome
      PROVE  UNCHANGED Pass!vars
  BY <1>3 DEF Pass!vars
<1>4. CASE Close
  BY <1>3, <1>4 DEF Close
<1>5. ASSUME NEW w \in Worker, Send(w)
      PROVE  UNCHANGED Pass!vars
  BY <1>3, <1>5 DEF Send
<1>6. ASSUME NEW w \in Worker, WorkerStep(w)
      PROVE  [Pass!Next]_(Pass!vars)
  <2>1. feeder # "returned"
    BY <1>6 DEF WorkerStep, PoolInv, Phases, Exit, ProbeBegin, Probe, ProbeEnd, CountError,
                CountSuccess, CountAuth, Lock, ReadSlice, StoreSlice, Unlock
  <2>2. CASE UNCHANGED <<feeder, outcome>>
    BY <1>3, <2>1, <2>2
  <2>3. CASE \E how \in Outcome : Probe(w, how)
    BY <1>1, <2>3
  <2> QED
    BY <1>6, <2>2, <2>3 DEF WorkerStep, Exit, ProbeBegin, ProbeEnd, CountError,
       CountSuccess, CountAuth, Lock, ReadSlice, StoreSlice, Unlock
<1>7. CASE UNCHANGED vars
  BY <1>7 DEF vars, Pass!vars
<1> QED
  BY <1>2, <1>4, <1>5, <1>6, <1>7 DEF Next, FeederStep, Done

\* The pool, seen from the scan, settles one job at a time and then returns, once,
\* with what was heard: no job is probed twice, and none is left out.
THEOREM PoolImplementsPass == Spec => RefinesPass
<1> QED
  BY PoolInvariant, PassInit, PassStep, PTL DEF Spec, RefinesPass, Pass!Spec
=============================================================================

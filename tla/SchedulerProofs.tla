--------------------------- MODULE SchedulerProofs ---------------------------
(***************************************************************************)
(* When a job of a batch is given up, for any batches whose jobs have      *)
(* names of their own, any number of workers and of retries, and workers   *)
(* that answer as they please.                                             *)
(***************************************************************************)
EXTENDS Scheduler, FiniteSetTheorems, SequenceTheorems, TLAPS

Job == UNION {{batch[i] : i \in DOMAIN batch} : batch \in Batches}

Result == {WorkerResult(job, status) : job \in Job, status \in Statuses}
              \cup {Exhausted(job, error) : job \in Job, error \in Errors}

(* The executions that the workers of a pool may make.                     *)
Execution == {<<job.id, NameLength[job.id] % n, status>> : job \in Job, n \in Pools, status \in Statuses}

(* What is asked of the batches.                                           *)
BatchesNamed ==
    /\ Batches \subseteq Seq(Job)
    /\ \A batch \in Batches : \A i, j \in DOMAIN batch : batch[i].id = batch[j].id => i = j

(* The executions of a job, and what RetriesExhausted says of a result, in  *)
(* any sequence of executions.                                             *)
Tries(log, id) == {i \in DOMAIN log : log[i][1] = id}

Honest(log, retries, r) ==
    \E last \in Tries(log, r.job) :
        /\ \A j \in Tries(log, r.job) \ {last} : j < last /\ log[j][3].kind = "Failed"
        /\ r.status = log[last][3] /\ r.error = log[last][3].error
        /\ Cardinality(Tries(log, r.job)) <= retries + 1
        /\ log[last][3].kind = "Failed" => Cardinality(Tries(log, r.job)) = retries + 1
        /\ \A j \in Tries(log, r.job) : log[j][2] = log[last][2]

(* The inductive invariant, in parts.                                      *)

Typed ==
    /\ jobs \in Seq(Job) /\ results \in Seq(Result) /\ executions \in Seq(Execution)
    /\ workers \in Pools /\ maxRetries \in Nat /\ attempt \in 0 .. Retries

(* The jobs that wait are different ones, and none of them has a result.   *)
Waiting ==
    /\ \A i, j \in DOMAIN jobs : jobs[i].id = jobs[j].id => i = j
    /\ \A i \in DOMAIN results, j \in DOMAIN jobs : results[i].job # jobs[j].id

(* Only the first of them has been tried, and its attempts are counted.    *)
Tried ==
    /\ \A j \in DOMAIN jobs : j > 1 => Tries(executions, jobs[j].id) = {}
    /\ jobs # <<>> =>
           /\ Cardinality(Tries(executions, jobs[1].id)) = attempt
           /\ \A i \in Tries(executions, jobs[1].id) : executions[i][3].kind = "Failed"

SameWorker ==
    \A i \in DOMAIN executions : executions[i][2] = NameLength[executions[i][1]] % workers

AllHonest == \A i \in DOMAIN results : Honest(executions, Retries, results[i])

IInv == Typed /\ Waiting /\ Tried /\ SameWorker /\ AllHonest

-----------------------------------------------------------------------------

LEMMA TriesFinite ==
    ASSUME NEW log \in Seq(Execution), NEW id
    PROVE  IsFiniteSet(Tries(log, id)) /\ Tries(log, id) \subseteq 1 .. Len(log)
<1>1. Len(log) \in Nat /\ DOMAIN log = 1 .. Len(log)
  BY LenProperties
<1>2. IsFiniteSet(1 .. Len(log)) /\ Tries(log, id) \in SUBSET (1 .. Len(log))
  BY <1>1, FS_Interval DEF Tries
<1> QED
  BY <1>2, FS_Subset

(* One more execution leaves the earlier ones where they are.              *)
LEMMA Executed ==
    ASSUME NEW log \in Seq(Execution), NEW e \in Execution, NEW n, n = Len(log) + 1
    PROVE  /\ Append(log, e) \in Seq(Execution) /\ DOMAIN Append(log, e) = 1 .. n
           /\ Append(log, e)[n] = e
           /\ DOMAIN log = 1 .. Len(log) /\ Len(log) \in Nat
           /\ \A i \in 1 .. Len(log) : i \in 1 .. n /\ Append(log, e)[i] = log[i]
           /\ \A i \in 1 .. n : i \in 1 .. Len(log) \/ i = n
<1>1. Len(log) \in Nat /\ DOMAIN log = 1 .. Len(log)
  BY LenProperties
<1>2. Append(log, e) \in Seq(Execution) /\ DOMAIN Append(log, e) = 1 .. n
  BY <1>1
<1>3. Append(log, e)[n] = e /\ \A i \in 1 .. Len(log) : Append(log, e)[i] = log[i]
  BY <1>1
<1>4. /\ \A i \in 1 .. Len(log) : i \in 1 .. n
      /\ \A i \in 1 .. n : i \in 1 .. Len(log) \/ i = n
  BY <1>1
<1> QED
  BY <1>1, <1>2, <1>3, <1>4

(* It is one more attempt of its job, and of no other.                     *)
LEMMA OneMoreTry ==
    ASSUME NEW log \in Seq(Execution), NEW e \in Execution, NEW n, n = Len(log) + 1
    PROVE  /\ Tries(Append(log, e), e[1]) = Tries(log, e[1]) \cup {n}
           /\ \A i \in Tries(log, e[1]) : i < n
           /\ Cardinality(Tries(Append(log, e), e[1])) = Cardinality(Tries(log, e[1])) + 1
           /\ Cardinality(Tries(log, e[1])) \in Nat
           /\ \A id : id # e[1] => Tries(Append(log, e), id) = Tries(log, id)
<1>1. PICK longer : longer = Append(log, e)
  OBVIOUS
<1>2. /\ DOMAIN longer = 1 .. n /\ longer[n] = e /\ DOMAIN log = 1 .. Len(log) /\ Len(log) \in Nat
      /\ \A i \in 1 .. Len(log) : i \in 1 .. n /\ longer[i] = log[i]
      /\ \A i \in 1 .. n : i \in 1 .. Len(log) \/ i = n
      /\ n \in 1 .. n
  BY <1>1, Executed
<1>3. Tries(longer, e[1]) = Tries(log, e[1]) \cup {n}
  BY <1>2 DEF Tries
<1>4. \A id : id # e[1] => Tries(longer, id) = Tries(log, id)
  BY <1>2 DEF Tries
<1>5. IsFiniteSet(Tries(log, e[1])) /\ Tries(log, e[1]) \subseteq 1 .. Len(log)
  BY TriesFinite
<1>6. \A i \in Tries(log, e[1]) : i < n
  BY <1>2, <1>5
<1>7. n \notin Tries(log, e[1])
  BY <1>6, <1>2
<1>8. /\ Cardinality(Tries(log, e[1]) \cup {n}) = Cardinality(Tries(log, e[1])) + 1
      /\ Cardinality(Tries(log, e[1])) \in Nat
  BY <1>5, <1>7, FS_AddElement, FS_CardinalityType
<1> QED
  BY <1>1, <1>3, <1>4, <1>6, <1>8

(* A result stays honest while another job is executed.                    *)
LEMMA HonestKept ==
    ASSUME NEW log \in Seq(Execution), NEW e \in Execution, NEW retries,
           NEW r, Honest(log, retries, r), r.job # e[1]
    PROVE  Honest(Append(log, e), retries, r)
<1>1. PICK longer : longer = Append(log, e)
  OBVIOUS
<1>2. /\ Tries(longer, r.job) = Tries(log, r.job)
      /\ \A j \in Tries(log, r.job) : longer[j] = log[j]
  BY <1>1, Executed, OneMoreTry, TriesFinite
<1>3. PICK last \in Tries(log, r.job) :
          /\ \A j \in Tries(log, r.job) \ {last} : j < last /\ log[j][3].kind = "Failed"
          /\ r.status = log[last][3] /\ r.error = log[last][3].error
          /\ Cardinality(Tries(log, r.job)) <= retries + 1
          /\ log[last][3].kind = "Failed" => Cardinality(Tries(log, r.job)) = retries + 1
          /\ \A j \in Tries(log, r.job) : log[j][2] = log[last][2]
  BY DEF Honest
<1>4. longer[last] = log[last] /\ last \in Tries(longer, r.job)
  BY <1>2
<1>5. \A j \in Tries(longer, r.job) \ {last} : j < last /\ longer[j][3].kind = "Failed"
  BY <1>2, <1>3
<1>6. \A j \in Tries(longer, r.job) : longer[j][2] = longer[last][2]
  BY <1>2, <1>3, <1>4
<1>7. /\ r.status = longer[last][3] /\ r.error = longer[last][3].error
      /\ Cardinality(Tries(longer, r.job)) <= retries + 1
      /\ longer[last][3].kind = "Failed" => Cardinality(Tries(longer, r.job)) = retries + 1
  BY <1>2, <1>3, <1>4
<1> QED
  BY <1>1, <1>4, <1>5, <1>6, <1>7 DEF Honest

(* The result of the last of a job's attempts is, when those before it     *)
(* failed and either it did not or none is left.                           *)
LEMMA HonestNow ==
    ASSUME NEW log \in Seq(Execution), NEW e \in Execution, NEW retries \in Nat,
           Cardinality(Tries(log, e[1])) <= retries,
           \A i \in Tries(log, e[1]) : log[i][3].kind = "Failed" /\ log[i][2] = e[2],
           e[3].kind = "Failed" => Cardinality(Tries(log, e[1])) = retries,
           NEW r, r.job = e[1], r.status = e[3], r.error = e[3].error
    PROVE  Honest(Append(log, e), retries, r)
<1>1. PICK longer, n : longer = Append(log, e) /\ n = Len(log) + 1
  OBVIOUS
<1>2. /\ Tries(longer, r.job) = Tries(log, e[1]) \cup {n} /\ longer[n] = e
      /\ \A j \in Tries(log, e[1]) : j < n /\ longer[j] = log[j]
  <2>1. /\ Tries(Append(log, e), e[1]) = Tries(log, e[1]) \cup {n}
        /\ \A j \in Tries(log, e[1]) : j < n
    <3>1. n = Len(log) + 1
      BY <1>1
    <3> HIDE <1>1
    <3> QED
      BY <3>1, OneMoreTry
  <2>2. longer[n] = e /\ \A j \in 1 .. Len(log) : longer[j] = log[j]
    BY <1>1, Executed
  <2> QED
    BY <1>1, <2>1, <2>2, TriesFinite
<1>3. /\ Cardinality(Tries(longer, r.job)) = Cardinality(Tries(log, e[1])) + 1
      /\ Cardinality(Tries(log, e[1])) \in Nat
  BY <1>1, OneMoreTry
<1>4. /\ Cardinality(Tries(longer, r.job)) <= retries + 1
      /\ e[3].kind = "Failed" => Cardinality(Tries(longer, r.job)) = retries + 1
  BY <1>3
<1>5. \A j \in Tries(longer, r.job) \ {n} : j < n /\ longer[j][3].kind = "Failed"
  BY <1>2
<1>6. \A j \in Tries(longer, r.job) : longer[j][2] = longer[n][2]
  BY <1>2
<1>7. n \in Tries(longer, r.job) /\ r.status = longer[n][3] /\ r.error = longer[n][3].error
  BY <1>2
<1> QED
  BY <1>1, <1>2, <1>4, <1>5, <1>6, <1>7 DEF Honest

(* What a pool worker's answer to the first job adds to the executions.    *)
LEMMA AnExecution ==
    ASSUME Typed, jobs # <<>>, NEW status \in Statuses
    PROVE  /\ jobs[1] \in Job /\ Head(jobs) = jobs[1]
           /\ <<jobs[1].id, NameLength[jobs[1].id] % workers, status>> \in Execution
<1>1. Head(jobs) \in Job /\ Head(jobs) = jobs[1]
  BY HeadTailProperties DEF Typed
<1>2. PICK job \in Job, n \in Pools : job = jobs[1] /\ n = workers
  BY <1>1 DEF Typed
<1>3. <<job.id, NameLength[job.id] % n, status>> \in Execution
  BY DEF Execution
<1> QED
  BY <1>1, <1>2, <1>3

LEMMA SameWorkerKept ==
    ASSUME IInv, NEW e \in Execution, executions' = Append(executions, e),
           e[2] = NameLength[e[1]] % workers, workers' = workers
    PROVE  SameWorker'
<1>1. PICK log, n : log = executions /\ n = Len(log) + 1
  OBVIOUS
<1>2. PICK longer : longer = Append(log, e)
  OBVIOUS
<1>3. /\ DOMAIN longer = 1 .. n /\ longer[n] = e /\ DOMAIN log = 1 .. Len(log)
      /\ \A i \in 1 .. Len(log) : longer[i] = log[i]
      /\ \A i \in 1 .. n : i \in 1 .. Len(log) \/ i = n
  BY <1>1, <1>2, Executed DEF IInv, Typed
<1>4. \A i \in DOMAIN log : log[i][2] = NameLength[log[i][1]] % workers
  BY <1>1 DEF IInv, SameWorker
<1>5. \A i \in DOMAIN longer : longer[i][2] = NameLength[longer[i][1]] % workers
  BY <1>3, <1>4
<1> QED
  BY <1>1, <1>2, <1>5 DEF SameWorker

-----------------------------------------------------------------------------
(* The steps.                                                              *)

LEMMA RetriesKept ==
    ASSUME Typed, UNCHANGED <<distributed, maxRetries>>
    PROVE  Retries' = Retries /\ Retries \in Nat
BY DEF Typed, Retries

LEMMA InitOK == ASSUME BatchesNamed, MaxRetries \in Nat PROVE Init => IInv
<1> SUFFICES ASSUME Init PROVE IInv
  OBVIOUS
<1>1. executions = <<>> /\ DOMAIN executions = {} /\ results = <<>> /\ DOMAIN results = {}
  BY DEF Init
<1>2. \A id : Tries(executions, id) = {}
  BY <1>1 DEF Tries
<1>3. Typed
  BY <1>1 DEF Init, Typed, BatchesNamed, Retries
<1>4. Waiting
  BY <1>1 DEF Init, Waiting, BatchesNamed
<1>5. Tried
  BY <1>2, FS_EmptySet DEF Init, Tried
<1> QED
  BY <1>1, <1>3, <1>4, <1>5 DEF IInv, SameWorker, AllHonest

(* An execution of the first job whose answer is returned.                 *)
LEMMA ReturnOK ==
    ASSUME IInv, NEW status \in Statuses, NEW r \in Result, Return(r),
           jobs # <<>>,
           executions' = Append(executions, <<Head(jobs).id, NameLength[Head(jobs).id] % workers, status>>),
           status.kind = "Failed" => attempt = Retries,
           r.job = Head(jobs).id, r.status = status, r.error = status.error,
           UNCHANGED <<workers, distributed, maxRetries>>
    PROVE  IInv'
<1>1. PICK e \in Execution : e = <<Head(jobs).id, NameLength[Head(jobs).id] % workers, status>>
  BY AnExecution DEF IInv
<1>2. /\ executions' = Append(executions, e) /\ Head(jobs) = jobs[1]
      /\ e[1] = jobs[1].id /\ e[2] = NameLength[e[1]] % workers /\ e[3] = status
  BY <1>1, AnExecution DEF IInv
<1>3. /\ jobs \in Seq(Job) /\ Len(jobs) \in Nat \ {0} /\ DOMAIN jobs = 1 .. Len(jobs)
      /\ jobs' \in Seq(Job) /\ DOMAIN jobs' = 1 .. Len(jobs) - 1
      /\ \A k \in 1 .. Len(jobs) - 1 : jobs'[k] = jobs[k + 1] /\ k + 1 \in DOMAIN jobs /\ k + 1 > 1
  BY HeadTailProperties, LenProperties, EmptySeq DEF IInv, Typed, Return
<1>4. /\ results \in Seq(Result) /\ Len(results) \in Nat /\ DOMAIN results = 1 .. Len(results)
      /\ results' \in Seq(Result) /\ DOMAIN results' = 1 .. Len(results) + 1
      /\ \A i \in 1 .. Len(results) : results'[i] = results[i]
      /\ results'[Len(results) + 1] = r
  BY LenProperties DEF IInv, Typed, Return
<1>5. \A i \in 1 .. Len(results) + 1 : i \in 1 .. Len(results) \/ i = Len(results) + 1
  BY <1>4
<1>6. \A k \in DOMAIN jobs : k > 1 => jobs[k].id # e[1]
  <2>1. 1 \in DOMAIN jobs
    BY <1>3
  <2> QED
    BY <1>2, <1>3, <2>1 DEF IInv, Waiting
<1>7. Typed'
  <2>1. executions' \in Seq(Execution)
    <3>1. executions \in Seq(Execution)
      BY DEF IInv, Typed
    <3>2. Append(executions, e) \in Seq(Execution)
      BY <3>1
    <3> QED
      BY <1>2, <3>2
  <2>2. workers' \in Pools /\ maxRetries' \in Nat /\ attempt' \in 0 .. Retries'
    BY RetriesKept DEF IInv, Typed, Return
  <2> QED
    BY <1>3, <1>4, <2>1, <2>2 DEF Typed
<1>8. Waiting'
  <2>1. \A i, j \in DOMAIN jobs' : jobs'[i].id = jobs'[j].id => i = j
    <3> SUFFICES ASSUME NEW i \in DOMAIN jobs', NEW j \in DOMAIN jobs', jobs'[i].id = jobs'[j].id
                 PROVE  i = j
      OBVIOUS
    <3>1. /\ i + 1 \in DOMAIN jobs /\ j + 1 \in DOMAIN jobs /\ i \in Nat /\ j \in Nat
          /\ jobs[i + 1].id = jobs[j + 1].id
      BY <1>3
    <3>2. i + 1 = j + 1
      BY <3>1 DEF IInv, Waiting
    <3> QED
      BY <3>1, <3>2
  <2>2. ASSUME NEW i \in DOMAIN results', NEW j \in DOMAIN jobs'
        PROVE  results'[i].job # jobs'[j].id
    <3>1. j + 1 \in DOMAIN jobs /\ jobs'[j] = jobs[j + 1] /\ j + 1 > 1
      BY <1>3
    <3>2. CASE i \in 1 .. Len(results)
      <4>1. results'[i] = results[i] /\ i \in DOMAIN results
        BY <1>4, <3>2
      <4> QED
        BY <3>1, <4>1 DEF IInv, Waiting
    <3>3. CASE i = Len(results) + 1
      <4>1. results'[i] = r
        BY <1>4, <3>3
      <4> QED
        BY <1>2, <1>6, <3>1, <4>1
    <3> QED
      BY <1>4, <1>5, <3>2, <3>3
  <2> QED
    BY <2>1, <2>2 DEF Waiting
<1>9. Tried'
  <2>1. ASSUME NEW k \in DOMAIN jobs' PROVE Tries(executions', jobs'[k].id) = {}
    <3>1. k + 1 \in DOMAIN jobs /\ jobs'[k] = jobs[k + 1] /\ k + 1 > 1
      BY <1>3
    <3>2. jobs[k + 1].id # e[1] /\ Tries(executions, jobs[k + 1].id) = {}
      BY <1>6, <3>1 DEF IInv, Tried
    <3>3. Tries(Append(executions, e), jobs[k + 1].id) = Tries(executions, jobs[k + 1].id)
      BY <3>2, OneMoreTry DEF IInv, Typed
    <3> QED
      BY <1>2, <3>1, <3>2, <3>3
  <2>2. jobs' # <<>> => 1 \in DOMAIN jobs'
    BY <1>3, EmptySeq, LenProperties
  <2>3. attempt' = 0
    BY DEF Return
  <2>4. jobs' # <<>> => Tries(executions', jobs'[1].id) = {}
    BY <2>1, <2>2
  <2> QED
    BY <2>1, <2>3, <2>4, FS_EmptySet DEF Tried
<1>10. SameWorker'
  BY <1>2, SameWorkerKept
<1>11. AllHonest'
  <2>1. ASSUME NEW i \in DOMAIN results' PROVE Honest(executions', Retries, results'[i])
    <3>1. CASE i \in 1 .. Len(results)
      <4>1. results'[i] = results[i] /\ i \in DOMAIN results /\ 1 \in DOMAIN jobs
        BY <1>3, <1>4, <3>1
      <4>2. results[i].job # e[1] /\ Honest(executions, Retries, results[i])
        BY <1>2, <4>1 DEF IInv, Waiting, AllHonest
      <4>3. Honest(Append(executions, e), Retries, results[i])
        BY <4>2, HonestKept DEF IInv, Typed
      <4> QED
        BY <1>2, <4>1, <4>3
    <3>2. CASE i = Len(results) + 1
      <4>1. /\ Cardinality(Tries(executions, e[1])) = attempt
            /\ \A j \in Tries(executions, e[1]) : executions[j][3].kind = "Failed"
        BY <1>2 DEF IInv, Tried
      <4>2. \A j \in Tries(executions, e[1]) : executions[j][2] = e[2]
        BY <1>2 DEF IInv, SameWorker, Tries
      <4>3. executions \in Seq(Execution) /\ Retries \in Nat /\ attempt <= Retries
        BY RetriesKept DEF IInv, Typed
      <4>4. r.job = e[1] /\ r.status = e[3] /\ r.error = e[3].error
        BY <1>2
      <4>5. e[3].kind = "Failed" => attempt = Retries
        BY <1>2
      <4>6. Honest(Append(executions, e), Retries, r)
        BY <4>1, <4>2, <4>3, <4>4, <4>5, HonestNow
      <4> QED
        BY <1>2, <1>4, <3>2, <4>6
    <3> QED
      BY <1>4, <1>5, <3>1, <3>2
  <2> QED
    BY <2>1, RetriesKept DEF IInv, AllHonest
<1> QED
  BY <1>7, <1>8, <1>9, <1>10, <1>11 DEF IInv

(* An attempt of the first job that failed and is to be tried again.       *)
LEMMA RetryOK ==
    ASSUME IInv, NEW status \in Statuses, jobs # <<>>,
           executions' = Append(executions, <<Head(jobs).id, NameLength[Head(jobs).id] % workers, status>>),
           status.kind = "Failed", attempt < Retries, attempt' = attempt + 1,
           UNCHANGED <<jobs, results, workers, distributed, maxRetries>>
    PROVE  IInv'
<1>1. PICK e \in Execution : e = <<Head(jobs).id, NameLength[Head(jobs).id] % workers, status>>
  BY AnExecution DEF IInv
<1>2. /\ executions' = Append(executions, e) /\ Head(jobs) = jobs[1]
      /\ e[1] = jobs[1].id /\ e[2] = NameLength[e[1]] % workers /\ e[3] = status
  BY <1>1, AnExecution DEF IInv
<1>3. jobs \in Seq(Job) /\ 1 \in DOMAIN jobs /\ DOMAIN jobs \subseteq Nat
  BY LenProperties, EmptySeq DEF IInv, Typed
<1>4. Typed'
  <2>1. executions' \in Seq(Execution)
    <3>1. executions \in Seq(Execution)
      BY DEF IInv, Typed
    <3>2. Append(executions, e) \in Seq(Execution)
      BY <3>1
    <3> QED
      BY <1>2, <3>2
  <2>2. attempt' \in 0 .. Retries'
    BY RetriesKept DEF IInv, Typed
  <2> QED
    BY <2>1, <2>2 DEF IInv, Typed
<1>5. Waiting'
  BY DEF IInv, Waiting
<1>6. Tried'
  <2>1. ASSUME NEW j \in DOMAIN jobs, j > 1 PROVE Tries(executions', jobs[j].id) = {}
    <3>1. jobs[j].id # e[1] /\ Tries(executions, jobs[j].id) = {}
      <4>1. j # 1 /\ j \in DOMAIN jobs /\ 1 \in DOMAIN jobs
        BY <1>3, <2>1
      <4>2. jobs[j].id # jobs[1].id
        BY <4>1 DEF IInv, Waiting
      <4> QED
        BY <1>2, <2>1, <4>2 DEF IInv, Tried
    <3>2. Tries(Append(executions, e), jobs[j].id) = Tries(executions, jobs[j].id)
      BY <3>1, OneMoreTry DEF IInv, Typed
    <3> QED
      BY <1>2, <3>1, <3>2
  <2>2. /\ Cardinality(Tries(executions, e[1])) = attempt
        /\ \A i \in Tries(executions, e[1]) : executions[i][3].kind = "Failed"
    BY <1>2 DEF IInv, Tried
  <2>3. PICK log, n : log = executions /\ n = Len(log) + 1
    OBVIOUS
  <2>4. PICK longer : longer = Append(log, e)
    OBVIOUS
  <2>5. /\ Tries(longer, e[1]) = Tries(log, e[1]) \cup {n} /\ longer[n] = e
        /\ \A i \in Tries(log, e[1]) : longer[i] = log[i]
        /\ Cardinality(Tries(longer, e[1])) = Cardinality(Tries(log, e[1])) + 1
    <3>1. log \in Seq(Execution)
      BY <2>3 DEF IInv, Typed
    <3>2. /\ Tries(longer, e[1]) = Tries(log, e[1]) \cup {n}
          /\ Cardinality(Tries(longer, e[1])) = Cardinality(Tries(log, e[1])) + 1
      BY <2>3, <2>4, <3>1, OneMoreTry
    <3>3. longer[n] = e /\ \A i \in 1 .. Len(log) : longer[i] = log[i]
      BY <2>3, <2>4, <3>1, Executed
    <3> QED
      BY <3>1, <3>2, <3>3, TriesFinite
  <2>6. \A i \in Tries(longer, e[1]) : longer[i][3].kind = "Failed"
    BY <1>2, <2>2, <2>3, <2>5
  <2>7. /\ Cardinality(Tries(executions', jobs[1].id)) = attempt'
        /\ \A i \in Tries(executions', jobs[1].id) : executions'[i][3].kind = "Failed"
    BY <1>2, <2>2, <2>3, <2>4, <2>5, <2>6
  <2> QED
    BY <2>1, <2>7 DEF Tried
<1>7. SameWorker'
  BY <1>2, SameWorkerKept
<1>8. AllHonest'
  <2>1. ASSUME NEW i \in DOMAIN results PROVE Honest(executions', Retries, results[i])
    <3>1. results[i].job # e[1] /\ Honest(executions, Retries, results[i])
      BY <1>2, <1>3 DEF IInv, Waiting, AllHonest
    <3>2. Honest(Append(executions, e), Retries, results[i])
      BY <3>1, HonestKept DEF IInv, Typed
    <3> QED
      BY <1>2, <3>2
  <2> QED
    BY <2>1, RetriesKept DEF IInv, AllHonest
<1> QED
  BY <1>4, <1>5, <1>6, <1>7, <1>8 DEF IInv

LEMMA NextOK == IInv /\ [Next]_vars => IInv'
<1> SUFFICES ASSUME IInv, [Next]_vars PROVE IInv'
  OBVIOUS
<1>1. CASE Execute
  <2>1. PICK status \in Statuses :
            /\ executions' = Append(executions, <<Head(jobs).id, NameLength[Head(jobs).id] % workers, status>>)
            /\ \/ /\ status.kind # "Failed"
                  /\ Return(WorkerResult(Head(jobs), status))
               \/ /\ status.kind = "Failed" /\ RetriesLeft
                  /\ attempt' = attempt + 1
                  /\ UNCHANGED <<jobs, results>>
               \/ /\ status.kind = "Failed" /\ ~RetriesLeft
                  /\ Return(Exhausted(Head(jobs), status.error))
    BY <1>1 DEF Execute, WorkerIndex
  <2>2. /\ jobs # <<>> /\ Head(jobs) \in Job /\ UNCHANGED <<workers, distributed, maxRetries>>
        /\ Retries = maxRetries
    BY <1>1, HeadTailProperties DEF Execute, IInv, Typed, Retries
  <2>3. CASE status.kind # "Failed" /\ Return(WorkerResult(Head(jobs), status))
    <3>1. /\ WorkerResult(Head(jobs), status) \in Result
          /\ WorkerResult(Head(jobs), status).job = Head(jobs).id
          /\ WorkerResult(Head(jobs), status).status = status
          /\ WorkerResult(Head(jobs), status).error = status.error
      BY <2>2 DEF Result, WorkerResult
    <3> QED
      BY <2>1, <2>2, <2>3, <3>1, ReturnOK
  <2>4. CASE status.kind = "Failed" /\ RetriesLeft /\ attempt' = attempt + 1 /\ UNCHANGED <<jobs, results>>
    BY <2>1, <2>2, <2>4, RetryOK DEF RetriesLeft
  <2>5. CASE status.kind = "Failed" /\ ~RetriesLeft /\ Return(Exhausted(Head(jobs), status.error))
    <3>1. status.error \in Errors /\ status = Failed(status.error)
      BY <2>5 DEF Statuses, Completed, Failed
    <3>2. /\ Exhausted(Head(jobs), status.error) \in Result
          /\ Exhausted(Head(jobs), status.error).job = Head(jobs).id
          /\ Exhausted(Head(jobs), status.error).status = status
          /\ Exhausted(Head(jobs), status.error).error = status.error
      BY <2>2, <3>1 DEF Result, Exhausted
    <3>3. attempt = Retries
      BY <2>2, <2>5 DEF RetriesLeft, IInv, Typed
    <3> QED
      BY <2>1, <2>2, <2>5, <3>2, <3>3, ReturnOK
  <2> QED
    BY <2>1, <2>3, <2>4, <2>5
<1>2. CASE ExecuteDistributed
  <2>1. PICK status \in Statuses :
            /\ executions' = Append(executions, <<Head(jobs).id, NameLength[Head(jobs).id] % workers, status>>)
            /\ Return(WorkerResult(Head(jobs), status))
    BY <1>2 DEF ExecuteDistributed, CoordinatorIndex
  <2>2. jobs # <<>> /\ Head(jobs) \in Job /\ UNCHANGED <<workers, distributed, maxRetries>>
    BY <1>2, HeadTailProperties DEF ExecuteDistributed, IInv, Typed
  <2>3. attempt = Retries
    BY <1>2 DEF ExecuteDistributed, IInv, Typed, Retries
  <2>4. /\ WorkerResult(Head(jobs), status) \in Result
        /\ WorkerResult(Head(jobs), status).job = Head(jobs).id
        /\ WorkerResult(Head(jobs), status).status = status
        /\ WorkerResult(Head(jobs), status).error = status.error
    BY <2>2 DEF Result, WorkerResult
  <2> QED
    BY <2>1, <2>2, <2>3, <2>4, ReturnOK
<1>3. CASE UNCHANGED vars
  BY <1>3 DEF vars, IInv, Typed, Retries, Waiting, Tried, SameWorker, AllHonest
<1> QED
  BY <1>1, <1>2, <1>3 DEF Next

(* A job is given up only after all its attempts have failed, on one       *)
(* worker and with the error of the last; any other answer is returned and *)
(* the job never asked for again (scheduler.rs, execute_batch).            *)
THEOREM RetriesExhaustedCorrect ==
    ASSUME BatchesNamed, MaxRetries \in Nat
    PROVE  Spec => []RetriesExhausted
<1>1. \A id : Attempts(id) = Tries(executions, id)
  BY DEF Attempts, Tries
<1>2. IInv => RetriesExhausted
  BY <1>1 DEF IInv, AllHonest, Honest, RetriesExhausted
<1> QED
  BY <1>2, InitOK, NextOK, PTL DEF Spec
=============================================================================

------------------------------- MODULE Scheduler -------------------------------
(***************************************************************************)
(* ExecutionScheduler::execute_batch over a WorkerPool, and the same jobs  *)
(* through DistributedCoordinator: jobs run one after the other, each by   *)
(* the worker its identifier picks, and again on the same worker while it  *)
(* fails and attempts remain.  Worker is a trait: a worker may answer with *)
(* any status.                                                             *)
(***************************************************************************)
EXTENDS Integers, Sequences, FiniteSets

CONSTANTS
    None,
    Batches,     \* the batches of jobs, sequences of [id, replication, seed, checkpoint]
    NameLength,  \* the length of each job_id
    Pools,       \* the numbers of workers
    MaxRetries   \* bound on max_retries

VARIABLES
    jobs,        \* jobs still to execute, the current one first
    workers,     \* the size of the pool
    distributed, \* whether the jobs go to a DistributedCoordinator
    maxRetries,
    attempt,     \* attempts made of the current job
    results,     \* one for each job executed
    executions   \* what each execution of a worker returned, in order

vars == <<jobs, workers, distributed, maxRetries, attempt, results, executions>>

Errors == {"no memory", "no answer"}
Completed == [kind |-> "Completed", error |-> None]
Failed(error) == [kind |-> "Failed", error |-> error]
Statuses == {Completed, [kind |-> "Cancelled", error |-> None], [kind |-> "Checkpointed", error |-> None]}
                \cup {Failed(e) : e \in Errors}

\* The metadata of a result: built afresh, in status Pending whatever the result
\* says, of no study the scheduler knows.
Metadata(job, seed) ==
    [run |-> <<"run", job.id>>, replication |-> job.replication, study |-> "unknown",
     seed |-> seed, status |-> "Pending"]

\* LocalWorker and LocalDistributedWorker always complete, and start over: the
\* job's checkpoint is not read.
WorkerResult(job, status) ==
    [job |-> job.id, status |-> status, metadata |-> Metadata(job, job.seed),
     result |-> IF status.kind = "Completed" THEN "json" ELSE None, error |-> status.error]

\* The pool picks by the length of the job's name, not by load or health, and
\* divides by zero without workers.
WorkerIndex(job) == NameLength[job.id] % workers
CoordinatorIndex(job) == NameLength[job.id] % workers

\* The seed of a job that failed too often is not the job's: the builder's is 0.
Exhausted(job, error) ==
    [job |-> job.id, status |-> Failed(error), metadata |-> Metadata(job, 0),
     result |-> None, error |-> error]

(***************************************************************************)
(* The scheduler                                                           *)
(***************************************************************************)

Init ==
    /\ jobs \in Batches
    /\ workers \in Pools
    /\ distributed \in BOOLEAN
    /\ maxRetries \in 0..MaxRetries
    /\ attempt = 0 /\ results = <<>> /\ executions = <<>>

Return(result) ==
    /\ results' = Append(results, result)
    /\ jobs' = Tail(jobs)
    /\ attempt' = 0

\* One retry too many.
FaultyRetriesLeft == attempt <= maxRetries
\* attempt counts the attempts made before this one.
RetriesLeft == attempt < maxRetries

\* An attempt of a pool worker; only a failure is tried again.
Execute ==
    /\ jobs # <<>> /\ ~distributed /\ workers > 0
    /\ LET job == Head(jobs)
       IN \E status \in Statuses :
              /\ executions' = Append(executions, <<job.id, WorkerIndex(job), status>>)
              /\ \/ /\ status.kind # "Failed"
                    /\ Return(WorkerResult(job, status))
                 \/ /\ status.kind = "Failed" /\ RetriesLeft
                    /\ attempt' = attempt + 1
                    /\ UNCHANGED <<jobs, results>>
                 \/ /\ status.kind = "Failed" /\ ~RetriesLeft
                    /\ Return(Exhausted(job, status.error))
    /\ UNCHANGED <<workers, distributed, maxRetries>>

\* DistributedCoordinator::execute_job, with no scheduler above it: what the
\* worker answers is passed on, a failure too.
ExecuteDistributed ==
    /\ jobs # <<>> /\ distributed /\ workers > 0
    /\ LET job == Head(jobs)
       IN \E status \in Statuses :
              /\ executions' = Append(executions, <<job.id, CoordinatorIndex(job), status>>)
              /\ Return(WorkerResult(job, status))
    /\ UNCHANGED <<workers, distributed, maxRetries>>

Next == Execute \/ ExecuteDistributed
Spec == Init /\ [][Next]_vars

(***************************************************************************)
(* Properties                                                              *)
(***************************************************************************)

\* The executions of a job, by their places among all.
Attempts(id) == {i \in DOMAIN executions : executions[i][1] = id}

\* A coordinator asks once.
Retries == IF distributed THEN 0 ELSE maxRetries

\* A job is given up only after 1 + max_retries attempts have failed, with the
\* last of their errors; any other answer is returned as it is and never asked
\* for again; every attempt goes to the same worker.
RetriesExhausted ==
    \A i \in DOMAIN results :
        LET tries == Attempts(results[i].job) IN
        \E last \in tries :
            LET status == executions[last][3] IN
            /\ \A j \in tries \ {last} : j < last /\ executions[j][3].kind = "Failed"
            /\ results[i].status = status /\ results[i].error = status.error
            /\ Cardinality(tries) <= Retries + 1
            /\ status.kind = "Failed" => Cardinality(tries) = Retries + 1
            /\ \A j \in tries : executions[j][2] = executions[last][2]
===============================================================================

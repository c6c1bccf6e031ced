----------------------------- MODULE JobLifecycle -----------------------------
(***************************************************************************)
(* What a caller of the job API may observe of a job, with every           *)
(* transition atomic: no claims, leases, versions, messages or goroutines. *)
(* JobService implements this specification: however its goroutines stall, *)
(* crash and race, the record of a job moves as if one agent at a time had *)
(* updated it.                                                             *)
(***************************************************************************)
EXTENDS Naturals, Sequences

CONSTANTS
    Jobs,
    MaxRetriesOf,   \* record.MaxRetries of each job
    Absent          \* the job key does not exist in Redis

VARIABLE job    \* job[j]: Absent, or the job's status and its executions

Pending == "PENDING"
Running == "RUNNING"
Retrying == "RETRYING"
Succeeded == "SUCCEEDED"
Incomplete == "INCOMPLETE"
Failed == "FAILED"

Terminal == {Succeeded, Incomplete, Failed}

-----------------------------------------------------------------------------
Become(j, status, runs) == job' = [job EXCEPT ![j] = [status |-> status, runs |-> runs]]

EndLatest(runs, status) ==
    IF runs = << >> THEN runs ELSE [runs EXCEPT ![Len(runs)] = status]

Create(j) ==
    /\ job[j] = Absent
    /\ Become(j, Pending, << >>)

Begin(j) ==
    /\ job[j].status \in {Pending, Retrying}
    /\ Become(j, Running, Append(job[j].runs, Running))

(* The execution in progress is written off and another one begins.        *)
TakeOver(j) ==
    /\ job[j].status = Running
    /\ Become(j, Running, Append(EndLatest(job[j].runs, Failed), Running))

Complete(j) ==
    /\ job[j].status = Running
    /\ \E s \in {Succeeded, Incomplete} : Become(j, s, EndLatest(job[j].runs, s))

Retry(j) ==
    /\ job[j].status = Running
    /\ Len(job[j].runs) <= MaxRetriesOf[j]
    /\ Become(j, Retrying, EndLatest(job[j].runs, Failed))

GiveUp(j) ==
    /\ job[j].status = Running
    /\ Len(job[j].runs) > MaxRetriesOf[j]
    /\ Become(j, Failed, EndLatest(job[j].runs, Failed))

(* The record's time to live ends, whatever its status.                    *)
Vanish(j) == job[j] # Absent /\ job' = [job EXCEPT ![j] = Absent]

LifecycleInit == job = [j \in Jobs |-> Absent]

LifecycleNext ==
    \E j \in Jobs :
        \/ Create(j)
        \/ /\ job[j] # Absent
           /\ Begin(j) \/ TakeOver(j) \/ Complete(j) \/ Retry(j) \/ GiveUp(j) \/ Vanish(j)

LifecycleSpec == LifecycleInit /\ [][LifecycleNext]_job
=============================================================================

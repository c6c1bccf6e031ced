-------------------------- MODULE JobRefinementProofs --------------------------
(* The job service against its abstractions, for any number of jobs,       *)
(* goroutines, tokens and faults: the stored record of a job moves as      *)
(* JobLifecycle says, and the calls of process() use the semaphore as      *)
(* ConcurrencySlots assumes, so that its limits bound the agents that run. *)
(* Last, the account by which every attempt past MaxRetries + 1 has cost a *)
(* fault.                                                                  *)
EXTENDS JobServiceProofs

-----------------------------------------------------------------------------
(* Every write of a record is one of four.                                 *)

Created(k) == rec[k] = NoRecord /\ rec' = [rec EXCEPT ![k] = NewRecord]

Expired(k) == rec[k] # NoRecord /\ rec' = [rec EXCEPT ![k] = NoRecord]

Begins(k, id) ==
    /\ rec[k] \in Record /\ ~IsTerminal(rec[k].status)
    /\ rec' = [rec EXCEPT ![k] = NextVersion(Begun(Reclaimed(rec[k], id)))]

Finishes(k, o, id) ==
    /\ rec[k] \in Record /\ rec[k].status = Running
    /\ rec' = [rec EXCEPT ![k] = NextVersion(Settled(k, rec[k], o, id))]

LEMMA RecordSteps ==
    ASSUME JobInv, [Next]_vars
    PROVE  \/ rec' = rec
           \/ \E k \in Jobs : (Created(k) /\ k \notin created) \/ Expired(k)
           \/ \E k \in Jobs, id \in Nat : Begins(k, id)
           \/ \E k \in Jobs, id \in Nat, o \in Outcomes \ {"none"} : Finishes(k, o, id)
<1>1. ASSUME NEW k \in Jobs, Submit(k)
      PROVE  Created(k) /\ k \notin created
    BY <1>1 DEF Submit, Created, JobInv, QueueShape
<1>2. ASSUME NEW k \in Jobs, ExpireRecord(k)
      PROVE  Expired(k)
    BY <1>2 DEF ExpireRecord, Expired
<1>3. ASSUME NEW g \in Goroutines, BeginRun(g)
      PROVE  rec' = rec \/ \E k \in Jobs, id \in Nat : Begins(k, id)
    <2>1. CASE Matches(call[g].msg, call[g].loc)
        <3>1. /\ call[g].msg \in Jobs /\ call[g].loc \in Record
              /\ rec[call[g].msg] = call[g].loc /\ Open(call[g].msg)
            BY <1>3, <2>1, MatchedIsCurrent DEF BeginRun
        <3>2. lastExec[call[g].msg] + 1 \in Nat
            BY <3>1 DEF JobInv, TypeOK
        <3>3. Begins(call[g].msg, lastExec[call[g].msg] + 1)
            BY <1>3, <2>1, <3>1 DEF BeginRun, Store, Begins, Open
        <3> QED
            BY <3>1, <3>2, <3>3
    <2>2. CASE ~Matches(call[g].msg, call[g].loc)
        BY <1>3, <2>2 DEF BeginRun, recordVars
    <2> QED
        BY <2>1, <2>2
<1>4. ASSUME NEW g \in Goroutines, FinishRun(g)
      PROVE  rec' = rec \/ \E k \in Jobs, id \in Nat, o \in Outcomes \ {"none"} : Finishes(k, o, id)
    <2>1. CASE Matches(call[g].msg, call[g].loc)
        <3>1. call[g].pc = "finish"
            BY <1>4 DEF FinishRun
        <3>2. /\ call[g].msg \in Jobs /\ call[g].loc \in Record
              /\ rec[call[g].msg] = call[g].loc
            BY <2>1, <3>1, MatchedIsCurrent
        <3>3. lastExec[call[g].msg] + 1 \in Nat
            BY <3>2 DEF JobInv, TypeOK
        <3>4. call[g].outcome \in Outcomes \ {"none"} /\ call[g].loc.status = Running
            BY <3>1, CallFacts DEF CallInv, Shape, Call
        <3>5. Finishes(call[g].msg, call[g].outcome, lastExec[call[g].msg] + 1)
            BY <1>4, <2>1, <3>2, <3>4 DEF FinishRun, Store, Finishes
        <3> QED
            BY <3>2, <3>3, <3>4, <3>5
    <2>2. CASE ~Matches(call[g].msg, call[g].loc)
        BY <1>4, <2>2 DEF FinishRun, recordVars
    <2> QED
        BY <2>1, <2>2
<1>5. \/ rec' = rec
      \/ \E k \in Jobs : Submit(k) \/ ExpireRecord(k)
      \/ \E g \in Goroutines : BeginRun(g) \/ FinishRun(g)
    BY RecordActions
<1> QED
    BY <1>1, <1>2, <1>3, <1>4, <1>5

-----------------------------------------------------------------------------
(* The history of a record.                                                *)

(* finishLatestExecution sets the status of the last attempt.              *)
LEMMA FinishLatestHistory ==
    ASSUME NEW r \in Record, r.executions # << >>, NEW s \in Statuses
    PROVE  LET e == r.executions
               f == FinishLatestExecution(r, s).executions
               n == Len(e)
           IN  /\ n \in Nat \ {0} /\ f \in Seq(ExecutionAttempt) /\ Len(f) = n
               /\ \A i \in 1 .. n - 1 : f[i] = e[i]
               /\ f[n].status = s /\ f[n].execution = e[n].execution /\ f[n].parent = e[n].parent
<1> DEFINE e == r.executions
           n == Len(e)
           a == [e[n] EXCEPT !.status = s]
           f == [e EXCEPT ![n] = a]
<1>1. e \in Seq(ExecutionAttempt) /\ n \in Nat \ {0} /\ n \in 1 .. Len(e)
    BY EmptySeq, LenProperties DEF Record
<1>2. e[n] \in ExecutionAttempt
    BY <1>1, ElementOfSeq
<1>3. /\ a \in ExecutionAttempt
      /\ a.status = s /\ a.execution = e[n].execution /\ a.parent = e[n].parent
    BY <1>2 DEF ExecutionAttempt
<1>4. FinishLatestExecution(r, s) = [r EXCEPT !.executions = f]
    BY DEF FinishLatestExecution, Record
<1>5. FinishLatestExecution(r, s).executions = f
    BY <1>4 DEF Record
<1>6. /\ f \in Seq(ExecutionAttempt) /\ Len(f) = n
      /\ \A i \in 1 .. n : f[i] = IF i = n THEN a ELSE e[i]
    BY <1>1, <1>3, ExceptSeq
<1> QED
    BY <1>1, <1>3, <1>5, <1>6

(* Ending the attempt in progress keeps the chain; what the attempt is     *)
(* called afterwards is the status the record reports.                     *)
LEMMA EndedChain ==
    ASSUME NEW r \in Record, HistoryIsChain(r), r.status = Running,
           NEW s \in {Succeeded, Incomplete, Failed}
    PROVE  HistoryIsChain([FinishLatestExecution(r, s) EXCEPT !.status = s])
<1> DEFINE e == r.executions
           n == Len(e)
           f == FinishLatestExecution(r, s)
           t == [f EXCEPT !.status = s]
<1>1. s \in Statuses /\ r.status # Pending /\ s # Pending /\ s # Retrying /\ r.status # Retrying
    BY DEF Statuses, Pending, Running, Succeeded, Incomplete, Failed, Retrying
<1>2. e # << >>
    BY <1>1 DEF HistoryIsChain
<1>3. /\ n \in Nat \ {0} /\ Len(f.executions) = n
      /\ \A i \in 1 .. n - 1 : f.executions[i] = e[i]
      /\ f.executions[n].status = s /\ f.executions[n].execution = e[n].execution
      /\ f.executions[n].parent = e[n].parent
    BY <1>1, <1>2, FinishLatestHistory
<1>4. f \in Record /\ f.attempts = r.attempts /\ f.execution = r.execution
    BY <1>1, FinishLatestFields
<1>5. /\ t.executions = f.executions /\ t.attempts = r.attempts
      /\ t.execution = r.execution /\ t.status = s
    BY <1>4 DEF Record
<1>6. /\ r.attempts = n /\ r.execution = e[n].execution
      /\ \A i \in 1 .. n - 1 : e[i].status = Failed /\ e[i + 1].parent = e[i].execution
    BY <1>1, <1>3 DEF HistoryIsChain
<1> HIDE DEF f, t, e, n
<1>7. \A i \in 1 .. n - 1 : f.executions[i + 1].parent = e[i + 1].parent
    BY <1>3
<1>8. HistoryIsChain(t)
    BY <1>1, <1>3, <1>5, <1>6, <1>7 DEF HistoryIsChain
<1> QED
    BY <1>8 DEF t, f

LEMMA NextExecutionChain ==
    ASSUME NEW r \in Record, HistoryIsChain(r), r.status = Running, NEW id \in Nat
    PROVE  HistoryIsChain(NextExecution(r, id))
<1> DEFINE e == r.executions
           n == Len(e)
           f == FinishLatestExecution(r, Failed)
           t == NextExecution(r, id)
<1>1. Failed \in Statuses /\ r.status # Pending /\ Retrying # Pending /\ r.status # Retrying
    BY DEF Statuses, Pending, Running, Failed, Retrying
<1>2. e # << >>
    BY <1>1 DEF HistoryIsChain
<1>3. /\ n \in Nat \ {0} /\ Len(f.executions) = n
      /\ \A i \in 1 .. n - 1 : f.executions[i] = e[i]
      /\ f.executions[n].status = Failed /\ f.executions[n].execution = e[n].execution
      /\ f.executions[n].parent = e[n].parent
    BY <1>1, <1>2, FinishLatestHistory
<1>4. f \in Record /\ f.attempts = r.attempts
    BY <1>1, FinishLatestFields
<1>5. /\ t.executions = f.executions /\ t.attempts = r.attempts
      /\ t.parent = r.execution /\ t.status = Retrying
    BY <1>4 DEF NextExecution, Record
<1>6. /\ r.attempts = n /\ r.execution = e[n].execution
      /\ \A i \in 1 .. n - 1 : e[i].status = Failed /\ e[i + 1].parent = e[i].execution
    BY <1>1, <1>3 DEF HistoryIsChain
<1> HIDE DEF f, t, e, n
<1>7. \A i \in 1 .. n - 1 : f.executions[i + 1].parent = e[i + 1].parent
    BY <1>3
<1>8. HistoryIsChain(t)
    BY <1>1, <1>3, <1>5, <1>6, <1>7 DEF HistoryIsChain
<1> QED
    BY <1>8 DEF t, f

(* A new attempt is a child of the last one, which has failed.             *)
LEMMA BegunChain ==
    ASSUME NEW r \in Record, HistoryIsChain(r), r.status \in {Pending, Retrying}
    PROVE  HistoryIsChain(Begun(r))
<1> DEFINE e == r.executions
           n == Len(e)
           a == [execution |-> r.execution, parent |-> r.parent, status |-> Running]
           f == Append(e, a)
           t == Begun(r)
<1>1. Running \in Statuses /\ Running # Pending /\ Running # Retrying /\ Pending # Retrying
    BY DEF Statuses, Pending, Running, Retrying
<1>2. a \in ExecutionAttempt /\ e \in Seq(ExecutionAttempt)
    BY <1>1 DEF ExecutionAttempt, Record
<1>3. n \in Nat /\ Len(f) = n + 1 /\ f[n + 1] = a /\ \A i \in 1 .. n : f[i] = e[i]
    BY <1>2, AppendProperties, LenProperties
<1>4. /\ a.execution = r.execution /\ a.parent = r.parent /\ a.status = Running
    OBVIOUS
<1>5. /\ t.executions = f /\ t.attempts = r.attempts + 1
      /\ t.execution = r.execution /\ t.status = Running
    BY DEF Begun, Record
<1>6. /\ r.attempts = n
      /\ \A i \in 1 .. n - 1 : e[i].status = Failed /\ e[i + 1].parent = e[i].execution
      /\ n > 0 => r.status = Retrying /\ e[n].status = Failed /\ e[n].execution = r.parent
    BY <1>1, <1>3 DEF HistoryIsChain
<1> HIDE DEF f, t, e, n, a
<1>7. ASSUME NEW i \in 1 .. n
      PROVE  f[i].status = Failed /\ f[i + 1].parent = f[i].execution
    <2>1. CASE i = n
        BY <1>3, <1>4, <1>6, <2>1
    <2>2. CASE i # n
        <3>1. i \in 1 .. n - 1 /\ i + 1 \in 1 .. n
            BY <1>3, <2>2
        <3> QED
            BY <1>3, <1>6, <3>1
    <2> QED
        BY <2>1, <2>2
<1>8. HistoryIsChain(t)
    BY <1>1, <1>3, <1>4, <1>5, <1>6, <1>7 DEF HistoryIsChain
<1> QED
    BY <1>8 DEF t

(* The history does not depend on the version.                             *)
LEMMA NextVersionChain ==
    ASSUME NEW r \in Record, HistoryIsChain(r)
    PROVE  HistoryIsChain(NextVersion(r))
    BY DEF NextVersion, HistoryIsChain, Record

LEMMA BeginChain ==
    ASSUME NEW r \in Record, HistoryIsChain(r), ~IsTerminal(r.status), NEW id \in Nat
    PROVE  HistoryIsChain(NextVersion(Begun(Reclaimed(r, id))))
<1>1. ASSUME NEW q \in Record, HistoryIsChain(q), q.status \in {Pending, Retrying}
      PROVE  HistoryIsChain(NextVersion(Begun(q)))
    BY <1>1, BegunChain, BegunFields, NextVersionChain
<1>2. CASE r.status = Running
    BY <1>1, <1>2, NextExecutionFields, NextExecutionChain DEF Reclaimed
<1>3. CASE r.status # Running
    BY <1>1, <1>3 DEF Reclaimed, IsTerminal, Record, Statuses
<1> QED
    BY <1>2, <1>3

LEMMA SettledChain ==
    ASSUME NEW j \in Jobs, NEW r \in Record, HistoryIsChain(r), r.status = Running,
           NEW id \in Nat, NEW o \in Outcomes
    PROVE  HistoryIsChain(NextVersion(Settled(j, r, o, id)))
<1>1. HistoryIsChain(Settled(j, r, o, id))
    BY EndedChain, NextExecutionChain DEF Settled
<1> QED
    BY <1>1, SettledFields, NextVersionChain

(* Every attempt but the last one has failed and is the parent of its      *)
(* successor, and the last one has the status that the job API reports,    *)
(* however often claims expire, saves are lost and jobs are reclaimed.     *)
THEOREM HistoriesAreChains == Spec => []ExecutionHistory
<1>1. Init => ExecutionHistory
    BY DEF Init, ExecutionHistory
<1>2. ASSUME JobInv, ExecutionHistory, [Next]_vars
      PROVE  ExecutionHistory'
    <2> SUFFICES ASSUME NEW j \in Jobs, rec'[j] # NoRecord
                 PROVE  HistoryIsChain(rec'[j])
        BY DEF ExecutionHistory, HistoryIsChain
    <2>1. rec \in [Jobs -> Record \cup {NoRecord}]
        BY <1>2 DEF JobInv, TypeOK
    <2>2. CASE rec' = rec
        BY <1>2, <2>2 DEF ExecutionHistory
    <2>3. ASSUME NEW k \in Jobs, NEW r, rec' = [rec EXCEPT ![k] = r],
                 r # NoRecord => HistoryIsChain(r)
          PROVE  HistoryIsChain(rec'[j])
        BY <1>2, <2>1, <2>3 DEF ExecutionHistory
    <2>4. ASSUME NEW k \in Jobs, Created(k)
          PROVE  HistoryIsChain(rec'[j])
        <3>1. HistoryIsChain(NewRecord)
            BY DEF HistoryIsChain, NewRecord
        <3> QED
            BY <2>3, <2>4, <3>1 DEF Created
    <2>5. ASSUME NEW k \in Jobs, Expired(k)
          PROVE  HistoryIsChain(rec'[j])
        BY <2>3, <2>5 DEF Expired
    <2>6. ASSUME NEW k \in Jobs, NEW id \in Nat, Begins(k, id)
          PROVE  HistoryIsChain(rec'[j])
        <3>1. HistoryIsChain(rec[k])
            BY <1>2, <2>6, RecordAssumption DEF ExecutionHistory, Begins
        <3> QED
            BY <2>3, <2>6, <3>1, BeginChain DEF Begins
    <2>7. ASSUME NEW k \in Jobs, NEW id \in Nat, NEW o \in Outcomes \ {"none"},
                 Finishes(k, o, id)
          PROVE  HistoryIsChain(rec'[j])
        <3>1. HistoryIsChain(rec[k])
            BY <1>2, <2>7, RecordAssumption DEF ExecutionHistory, Finishes
        <3> QED
            BY <2>3, <2>7, <3>1, SettledChain DEF Finishes
    <2> QED
        BY <1>2, <2>2, <2>4, <2>5, <2>6, <2>7, RecordSteps
<1> QED
    BY <1>1, <1>2, JobInvHolds, PTL DEF Spec

-----------------------------------------------------------------------------
(* What callers observe of a record.                                       *)

Runs(r) == [i \in 1 .. Len(r.executions) |-> r.executions[i].status]

LEMMA ObservedRecord ==
    ASSUME NEW r \in Record
    PROVE  /\ Observed(r) = [status |-> r.status, runs |-> Runs(r)]
           /\ Len(r.executions) \in Nat
           /\ Runs(r) \in Seq(Statuses) /\ Len(Runs(r)) = Len(r.executions)
           /\ Observed(r) # NoRecord
<1>1. r.executions \in Seq(ExecutionAttempt) /\ Len(r.executions) \in Nat
    BY LenProperties DEF Record
<1>2. ASSUME NEW i \in 1 .. Len(r.executions)
      PROVE  r.executions[i].status \in Statuses
    <2>1. r.executions[i] \in ExecutionAttempt
        BY <1>1, ElementOfSeq
    <2> QED
        BY <2>1 DEF ExecutionAttempt
<1>3. Runs(r) \in Seq(Statuses) /\ Len(Runs(r)) = Len(r.executions)
    BY <1>1, <1>2 DEF Runs
<1>4. Observed(r) = [status |-> r.status, runs |-> Runs(r)]
    BY RecordAssumption DEF Observed, Runs
<1>5. Observed(r) # NoRecord
    BY <1>3, <1>4, ObservedAssumption DEF Record
<1> QED
    BY <1>1, <1>3, <1>4, <1>5

LEMMA NewRuns == Runs(NewRecord) = << >>
    BY DEF Runs, NewRecord

LEMMA BegunRuns ==
    ASSUME NEW r \in Record
    PROVE  Runs(Begun(r)) = Append(Runs(r), Running)
<1> DEFINE e == r.executions
           n == Len(e)
           a == [execution |-> r.execution, parent |-> r.parent, status |-> Running]
           f == Append(e, a)
<1>1. a \in ExecutionAttempt /\ e \in Seq(ExecutionAttempt)
    BY DEF ExecutionAttempt, Record, Statuses
<1>2. n \in Nat /\ Len(f) = n + 1 /\ f[n + 1] = a /\ \A i \in 1 .. n : f[i] = e[i]
    BY <1>1, AppendProperties, LenProperties
<1>3. Begun(r).executions = f /\ a.status = Running
    BY DEF Begun, Record
<1>4. Runs(r) \in Seq(Statuses) /\ Len(Runs(r)) = n /\ Running \in Statuses
    BY ObservedRecord DEF Statuses
<1> HIDE DEF f, a
<1>5. /\ Append(Runs(r), Running) \in Seq(Statuses)
      /\ Len(Append(Runs(r), Running)) = n + 1
      /\ Append(Runs(r), Running)[n + 1] = Running
      /\ \A i \in 1 .. n : Append(Runs(r), Running)[i] = Runs(r)[i]
    BY <1>4, AppendProperties
<1>6. \A i \in 1 .. n : Runs(r)[i] = e[i].status
    BY DEF Runs
<1>7. /\ Runs(Begun(r)) = [i \in 1 .. n + 1 |-> f[i].status]
      /\ Runs(Begun(r)) \in Seq(Statuses) /\ Len(Runs(Begun(r))) = n + 1
    BY <1>2, <1>3, BegunFields, ObservedRecord DEF Runs
<1>8. \A i \in 1 .. n + 1 : Runs(Begun(r))[i] = Append(Runs(r), Running)[i]
    BY <1>2, <1>3, <1>5, <1>6, <1>7
<1> QED
    BY <1>5, <1>7, <1>8, SeqEqual

LEMMA FinishRuns ==
    ASSUME NEW r \in Record, NEW s \in Statuses
    PROVE  Runs(FinishLatestExecution(r, s)) = Lifecycle!EndLatest(Runs(r), s)
<1> DEFINE e == r.executions
           n == Len(e)
           f == FinishLatestExecution(r, s).executions
<1>1. /\ n \in Nat /\ Runs(r) \in Seq(Statuses) /\ Len(Runs(r)) = n
      /\ \A i \in 1 .. n : Runs(r)[i] = e[i].status
    BY ObservedRecord DEF Runs
<1>2. CASE e = << >>
    <2>1. Runs(r) = << >>
        BY <1>1, <1>2, EmptySeq
    <2> QED
        BY <1>2, <2>1 DEF FinishLatestExecution, Lifecycle!EndLatest
<1>3. CASE e # << >>
    <2>1. /\ n \in Nat \ {0} /\ Len(f) = n
          /\ \A i \in 1 .. n - 1 : f[i] = e[i]
          /\ f[n].status = s
        BY <1>3, FinishLatestHistory
    <2>2. Runs(FinishLatestExecution(r, s)) = [i \in 1 .. n |-> f[i].status]
        BY <2>1 DEF Runs
    <2>3. Runs(r) # << >>
        BY <1>1, <2>1
    <2>4. Lifecycle!EndLatest(Runs(r), s) = [Runs(r) EXCEPT ![n] = s]
        BY <1>1, <2>3 DEF Lifecycle!EndLatest
    <2>5. DOMAIN Runs(r) = 1 .. n
        BY DEF Runs
    <2>6. [Runs(r) EXCEPT ![n] = s] = [i \in 1 .. n |-> IF i = n THEN s ELSE Runs(r)[i]]
        BY <2>5
    <2> HIDE DEF f
    <2>7. \A i \in 1 .. n : f[i].status = IF i = n THEN s ELSE Runs(r)[i]
        BY <1>1, <2>1
    <2> QED
        BY <2>2, <2>4, <2>6, <2>7
<1> QED
    BY <1>2, <1>3

-----------------------------------------------------------------------------
(* The refinement.                                                         *)

Job == [j \in Jobs |-> Observed(rec[j])]

(* Writing a record is one update of the observed job.                     *)
LEMMA ObservedWrite ==
    ASSUME JobInv, NEW k \in Jobs, NEW r, rec' = [rec EXCEPT ![k] = r]
    PROVE  Job[k] = Observed(rec[k]) /\ Job' = [Job EXCEPT ![k] = Observed(r)]
<1>1. rec \in [Jobs -> Record \cup {NoRecord}]
    BY DEF JobInv, TypeOK
<1>2. \A j \in Jobs : rec'[j] = IF j = k THEN r ELSE rec[j]
    BY <1>1
<1>3. Job' = [j \in Jobs |-> Observed(rec'[j])]
    BY DEF Job, Observed
<1>4. \A j \in Jobs : Observed(rec'[j]) = IF j = k THEN Observed(r) ELSE Observed(rec[j])
    BY <1>2
<1>5. Job' = [j \in Jobs |-> IF j = k THEN Observed(r) ELSE Observed(rec[j])]
    BY <1>3, <1>4, Zenon
<1>6. [Job EXCEPT ![k] = Observed(r)] = [j \in Jobs |-> IF j = k THEN Observed(r) ELSE Observed(rec[j])]
    BY DEF Job
<1> QED
    BY <1>5, <1>6 DEF Job

(* The steps of JobLifecycle, in terms of Job.                             *)
Becomes(k, s, runs) == Job' = [Job EXCEPT ![k] = [status |-> s, runs |-> runs]]

LEMMA AbstractCreate ==
    ASSUME NEW k \in Jobs, Job[k] = NoRecord, Becomes(k, Pending, << >>)
    PROVE  Lifecycle!Create(k)
    BY DEF Job, Becomes, Lifecycle!Create, Lifecycle!Become, Lifecycle!Pending, Pending

LEMMA AbstractBegin ==
    ASSUME NEW k \in Jobs, Job[k].status \in {Pending, Retrying},
           Becomes(k, Running, Append(Job[k].runs, Running))
    PROVE  Lifecycle!Begin(k)
    BY DEF Job, Becomes, Lifecycle!Begin, Lifecycle!Become, Lifecycle!Pending, Lifecycle!Retrying,
           Lifecycle!Running, Pending, Retrying, Running

LEMMA AbstractTakeOver ==
    ASSUME NEW k \in Jobs, Job[k].status = Running,
           Becomes(k, Running, Append(Lifecycle!EndLatest(Job[k].runs, Failed), Running))
    PROVE  Lifecycle!TakeOver(k)
    BY DEF Job, Becomes, Lifecycle!TakeOver, Lifecycle!Become, Lifecycle!Running, Lifecycle!Failed,
           Running, Failed

LEMMA AbstractComplete ==
    ASSUME NEW k \in Jobs, NEW s \in {Succeeded, Incomplete}, Job[k].status = Running,
           Becomes(k, s, Lifecycle!EndLatest(Job[k].runs, s))
    PROVE  Lifecycle!Complete(k)
    BY DEF Job, Becomes, Lifecycle!Complete, Lifecycle!Become, Lifecycle!Running,
           Lifecycle!Succeeded, Lifecycle!Incomplete, Running, Succeeded, Incomplete

LEMMA AbstractRetry ==
    ASSUME NEW k \in Jobs, Job[k].status = Running, Len(Job[k].runs) <= MaxRetriesOf[k],
           Becomes(k, Retrying, Lifecycle!EndLatest(Job[k].runs, Failed))
    PROVE  Lifecycle!Retry(k)
    BY DEF Job, Becomes, Lifecycle!Retry, Lifecycle!Become, Lifecycle!Running, Lifecycle!Retrying,
           Lifecycle!Failed, Running, Retrying, Failed

LEMMA AbstractGiveUp ==
    ASSUME NEW k \in Jobs, Job[k].status = Running, Len(Job[k].runs) > MaxRetriesOf[k],
           Becomes(k, Failed, Lifecycle!EndLatest(Job[k].runs, Failed))
    PROVE  Lifecycle!GiveUp(k)
    BY DEF Job, Becomes, Lifecycle!GiveUp, Lifecycle!Become, Lifecycle!Running, Lifecycle!Failed,
           Running, Failed

LEMMA NextVersionObserved ==
    ASSUME NEW r \in Record
    PROVE  Observed(NextVersion(r)) = [status |-> r.status, runs |-> Runs(r)]
<1>1. NextVersion(r) \in Record /\ NextVersion(r).status = r.status
    BY NextVersionFields
<1>2. NextVersion(r).executions = r.executions
    BY DEF NextVersion, Record
<1> QED
    BY <1>1, <1>2, ObservedRecord DEF Runs

LEMMA BeginIsAbstract ==
    ASSUME JobInv, ExecutionHistory, NEW k \in Jobs, NEW id \in Nat, Begins(k, id)
    PROVE  Lifecycle!Begin(k) \/ Lifecycle!TakeOver(k)
<1> DEFINE r == rec[k]
           b == Begun(Reclaimed(r, id))
<1>1. r \in Record /\ rec' = [rec EXCEPT ![k] = NextVersion(b)] /\ ~IsTerminal(r.status)
    BY DEF Begins
<1>2. b \in Record /\ b.status = Running
    BY <1>1, BeginFields
<1>3. Job[k].status = r.status /\ Job[k].runs = Runs(r)
    <2>1. Job[k] = Observed(r)
        BY DEF Job
    <2>2. Observed(r) = [status |-> r.status, runs |-> Runs(r)]
        BY <1>1, ObservedRecord
    <2> QED
        BY <2>1, <2>2
<1>4. Becomes(k, Running, Runs(b))
    <2>1. Observed(NextVersion(b)) = [status |-> Running, runs |-> Runs(b)]
        BY <1>2, NextVersionObserved
    <2> HIDE DEF b
    <2> QED
        BY <1>1, <2>1, ObservedWrite DEF Becomes
<1>5. CASE r.status = Running
    <2>1. NextExecution(r, id) \in Record
        BY <1>1, NextExecutionFields
    <2>2. Runs(b) = Append(Runs(NextExecution(r, id)), Running)
        BY <1>5, <2>1, BegunRuns DEF Reclaimed
    <2>3. NextExecution(r, id).executions = FinishLatestExecution(r, Failed).executions
        BY <1>1, FinishLatestFields DEF NextExecution, Record, Statuses
    <2>4. Runs(NextExecution(r, id)) = Lifecycle!EndLatest(Runs(r), Failed)
        BY <1>1, <2>3, FinishRuns DEF Runs, Statuses
    <2>5. Lifecycle!TakeOver(k)
        BY <1>3, <1>4, <1>5, <2>2, <2>4, AbstractTakeOver
    <2> QED
        BY <2>5
<1>6. CASE r.status # Running
    <2>1. r.status \in {Pending, Retrying}
        BY <1>1, <1>6 DEF IsTerminal, Record, Statuses
    <2>2. Runs(b) = Append(Runs(r), Running)
        BY <1>1, <1>6, BegunRuns DEF Reclaimed
    <2>3. Lifecycle!Begin(k)
        BY <1>3, <1>4, <2>1, <2>2, AbstractBegin
    <2> QED
        BY <2>3
<1> QED
    BY <1>5, <1>6

LEMMA FinishIsAbstract ==
    ASSUME JobInv, ExecutionHistory, NEW k \in Jobs, NEW id \in Nat,
           NEW o \in Outcomes \ {"none"}, Finishes(k, o, id)
    PROVE  Lifecycle!Complete(k) \/ Lifecycle!Retry(k) \/ Lifecycle!GiveUp(k)
<1> DEFINE r == rec[k]
           q == Settled(k, r, o, id)
<1>1. r \in Record /\ rec' = [rec EXCEPT ![k] = NextVersion(q)] /\ r.status = Running
    BY DEF Finishes
<1>2. q \in Record
    BY <1>1, SettledFields
<1>3. /\ Job[k].status = Running /\ Job[k].runs = Runs(r)
      /\ r.attempts = Len(Runs(r)) /\ Len(Runs(r)) \in Nat /\ MaxRetriesOf[k] \in Nat
    <2>1. Job[k] = Observed(r)
        BY DEF Job
    <2>2. /\ Observed(r) = [status |-> r.status, runs |-> Runs(r)]
          /\ Len(r.executions) \in Nat /\ Len(Runs(r)) = Len(r.executions)
        BY <1>1, ObservedRecord
    <2>3. r.attempts = Len(r.executions)
        BY <1>1, RecordAssumption DEF ExecutionHistory, HistoryIsChain
    <2>4. MaxRetriesOf[k] \in Nat
        BY JobAssumption
    <2> QED
        BY <1>1, <2>1, <2>2, <2>3, <2>4
<1>4. Becomes(k, q.status, Runs(q))
    <2>1. Observed(NextVersion(q)) = [status |-> q.status, runs |-> Runs(q)]
        BY <1>2, NextVersionObserved
    <2> HIDE DEF q
    <2> QED
        BY <1>1, <2>1, ObservedWrite DEF Becomes
<1>5. ASSUME NEW s \in {Succeeded, Incomplete, Failed}
      PROVE  LET t == [FinishLatestExecution(r, s) EXCEPT !.status = s] IN
             t.status = s /\ Runs(t) = Lifecycle!EndLatest(Runs(r), s)
    <2>1. s \in Statuses
        BY DEF Statuses
    <2>2. FinishLatestExecution(r, s) \in Record
        BY <1>1, <2>1, FinishLatestFields
    <2>3. LET t == [FinishLatestExecution(r, s) EXCEPT !.status = s] IN
          t.status = s /\ t.executions = FinishLatestExecution(r, s).executions
        BY <2>2 DEF Record
    <2>4. Runs(FinishLatestExecution(r, s)) = Lifecycle!EndLatest(Runs(r), s)
        BY <1>1, <2>1, FinishRuns
    <2>5. \A t, u : t.executions = u.executions => Runs(t) = Runs(u)
        BY DEF Runs
    <2> QED
        BY <2>3, <2>4, <2>5
<1>6. CASE o = "completed"
    <2>1. q.status = Succeeded /\ Runs(q) = Lifecycle!EndLatest(Runs(r), Succeeded)
        BY <1>5, <1>6 DEF Settled
    <2>2. Lifecycle!Complete(k)
        BY <1>3, <1>4, <2>1, AbstractComplete
    <2> QED
        BY <2>2
<1>7. CASE o = "incomplete"
    <2>1. q.status = Incomplete /\ Runs(q) = Lifecycle!EndLatest(Runs(r), Incomplete)
        BY <1>5, <1>7 DEF Settled
    <2>2. Lifecycle!Complete(k)
        BY <1>3, <1>4, <2>1, AbstractComplete
    <2> QED
        BY <2>2
<1>8. CASE o = "error" /\ MayRetry(k, r)
    <2>1. q = NextExecution(r, id)
        BY <1>8 DEF Settled
    <2>2. q.status = Retrying
        BY <1>1, <2>1, NextExecutionFields
    <2>3. q.executions = FinishLatestExecution(r, Failed).executions
        BY <1>1, <2>1, FinishLatestFields DEF NextExecution, Record, Statuses
    <2>4. Runs(q) = Lifecycle!EndLatest(Runs(r), Failed)
        BY <1>1, <2>3, FinishRuns DEF Runs, Statuses
    <2>5. Len(Runs(r)) <= MaxRetriesOf[k]
        BY <1>3, <1>8 DEF MayRetry
    <2>6. Lifecycle!Retry(k)
        BY <1>3, <1>4, <2>2, <2>4, <2>5, AbstractRetry
    <2> QED
        BY <2>6
<1>9. CASE o = "error" /\ ~MayRetry(k, r)
    <2>1. q.status = Failed /\ Runs(q) = Lifecycle!EndLatest(Runs(r), Failed)
        BY <1>5, <1>9 DEF Settled
    <2>2. Len(Runs(r)) > MaxRetriesOf[k]
        BY <1>3, <1>9 DEF MayRetry
    <2>3. Lifecycle!GiveUp(k)
        BY <1>3, <1>4, <2>1, <2>2, AbstractGiveUp
    <2> QED
        BY <2>3
<1> QED
    BY <1>6, <1>7, <1>8, <1>9 DEF Outcomes

(* JobService implements JobLifecycle: whatever goroutines crash, stall or *)
(* race for a record, callers of the job API see it move as if one agent   *)
(* at a time had updated it.                                               *)
THEOREM RefinesLifecycle == Spec => ImplementsLifecycle
<1>1. Init => Lifecycle!LifecycleInit
    BY DEF Init, Lifecycle!LifecycleInit, Observed
<1>2. ASSUME JobInv, ExecutionHistory, [Next]_vars
      PROVE  [Lifecycle!LifecycleNext]_Job
    <2>1. CASE rec' = rec
        BY <2>1 DEF Job, Observed
    <2>2. ASSUME NEW k \in Jobs, Created(k)
          PROVE  Lifecycle!LifecycleNext
        <3>1. Job[k] = NoRecord
            BY <1>2, <2>2 DEF Created, Job, Observed
        <3>2. Observed(NewRecord) = [status |-> Pending, runs |-> << >>]
            BY NewRecordFields, NewRuns, ObservedRecord
        <3>3. Becomes(k, Pending, << >>)
            BY <1>2, <2>2, <3>2, ObservedWrite DEF Created, Becomes
        <3>4. Lifecycle!Create(k)
            BY <3>1, <3>3, AbstractCreate
        <3> QED
            BY <3>4 DEF Lifecycle!LifecycleNext
    <2>3. ASSUME NEW k \in Jobs, rec[k] \in Record
          PROVE  Job[k] # NoRecord
        BY <2>3, ObservedRecord DEF Job
    <2>4. ASSUME NEW k \in Jobs, Expired(k)
          PROVE  Lifecycle!LifecycleNext
        <3>1. rec[k] \in Record
            BY <1>2, <2>4 DEF Expired, JobInv, TypeOK
        <3>2. Job' = [Job EXCEPT ![k] = NoRecord]
            BY <1>2, <2>4, ObservedWrite DEF Expired, Observed
        <3> QED
            BY <2>3, <3>1, <3>2 DEF Lifecycle!LifecycleNext, Lifecycle!Vanish, Job
    <2>5. ASSUME NEW k \in Jobs, NEW id \in Nat, Begins(k, id)
          PROVE  Lifecycle!LifecycleNext
        <3>1. Job[k] # NoRecord
            BY <2>3, <2>5 DEF Begins
        <3> QED
            BY <1>2, <2>5, <3>1, BeginIsAbstract DEF Lifecycle!LifecycleNext, Job
    <2>6. ASSUME NEW k \in Jobs, NEW id \in Nat, NEW o \in Outcomes \ {"none"}, Finishes(k, o, id)
          PROVE  Lifecycle!LifecycleNext
        <3>1. Job[k] # NoRecord
            BY <2>3, <2>6 DEF Finishes
        <3> QED
            BY <1>2, <2>6, <3>1, FinishIsAbstract DEF Lifecycle!LifecycleNext, Job
    <2> QED
        BY <1>2, <2>1, <2>2, <2>4, <2>5, <2>6, RecordSteps
<1> QED
    BY <1>1, <1>2, JobInvHolds, HistoriesAreChains, PTL
    DEF Spec, ImplementsLifecycle, Lifecycle!LifecycleSpec, Job

-----------------------------------------------------------------------------
(* Dead letters.                                                           *)

Reported(j) == rec[j] = NoRecord \/ rec[j].status = Failed

(* A goroutine writes a dead letter only after the failure is stored.      *)
DeadLetterInv ==
    /\ deadLetter \subseteq created
    /\ DeadLettersFailed
    /\ \A g \in Goroutines : call[g].pc = "deadletter" => Reported(call[g].msg)

LEMMA ReportedForGood ==
    ASSUME JobInv, [Next]_vars, NEW j \in created, Reported(j)
    PROVE  Reported(j)'
<1>1. j \in Jobs /\ rec \in [Jobs -> Record \cup {NoRecord}]
    BY DEF JobInv, TypeOK
<1>2. ASSUME NEW k \in Jobs, Created(k), k \notin created PROVE Reported(j)'
    BY <1>1, <1>2 DEF Created, Reported
<1>3. ASSUME NEW k \in Jobs, Expired(k) PROVE Reported(j)'
    BY <1>1, <1>3 DEF Expired, Reported
<1>4. ASSUME NEW k \in Jobs, NEW r, rec[k] \in Record, ~IsTerminal(rec[k].status),
             rec' = [rec EXCEPT ![k] = r]
      PROVE  Reported(j)'
    BY <1>1, <1>4, RecordAssumption DEF Reported, IsTerminal
<1>5. ASSUME NEW k \in Jobs, NEW id \in Nat, Begins(k, id) PROVE Reported(j)'
    BY <1>4, <1>5 DEF Begins
<1>6. ASSUME NEW k \in Jobs, NEW id \in Nat, NEW o \in Outcomes \ {"none"}, Finishes(k, o, id)
      PROVE  Reported(j)'
    <2>1. ~IsTerminal(rec[k].status)
        BY <1>6 DEF Finishes, IsTerminal, Running, Succeeded, Incomplete, Failed
    <2> QED
        BY <1>4, <1>6, <2>1 DEF Finishes
<1>7. CASE rec' = rec
    BY <1>7 DEF Reported
<1> QED
    BY <1>2, <1>3, <1>5, <1>6, <1>7, RecordSteps

(* FinishRun is the only way to the dead-letter stream.                    *)
LEMMA OnlyFinishReports ==
    ASSUME JobInv, [Next]_vars, NEW g \in Goroutines, call'[g].pc = "deadletter",
           ~(call[g].pc = "deadletter" /\ call'[g].msg = call[g].msg)
    PROVE  FinishRun(g)
<1>1. /\ \A h \in Goroutines : call[h] \in Call
      /\ \A h \in Goroutines : \A c : GoesOn(h, c) =>
            call'[h] = c /\ \A k \in Goroutines : k # h => call'[k] = call[k]
    BY DEF JobInv, TypeOK, GoesOn
<1>2. \A h \in Goroutines : Returned(call[h]).pc # "deadletter" /\ Idle.pc # "deadletter"
    BY <1>1 DEF Returned, Idle, Call
<1>3. ASSUME NEW h \in Goroutines, NEW c, GoesOn(h, c), c.pc # "deadletter" PROVE FALSE
    BY <1>1, <1>3
<1>4. ASSUME NEW h \in Goroutines, Return(h) PROVE FALSE
    BY <1>2, <1>3, <1>4 DEF Return
<1>5. ASSUME NEW h \in Goroutines, NEW pc \in {"ack", "claim"}, At(h, pc) PROVE FALSE
    <2>1. [call[h] EXCEPT !.pc = pc].pc = pc
        BY <1>1 DEF Call
    <2> QED
        BY <1>3, <1>5, <2>1 DEF At
<1>6. ASSUME NEW h \in Goroutines, NEW j \in Jobs, Deliver(h, j) \/ AutoClaim(h, j)
      PROVE  FALSE
    <2>1. \A pc \in {"claim", "fetch"} : Taken(pc, j).pc # "deadletter"
        BY DEF Taken, Idle
    <2> QED
        BY <1>3, <1>6, <2>1 DEF Deliver, AutoClaim
<1>7. ASSUME NEW h \in Goroutines, RecoverFetch(h) \/ GetRecord(h) PROVE FALSE
    <2>1. \A r : [call[h] EXCEPT !.pc = "review", !.loc = r].pc # "deadletter"
        BY <1>1 DEF Call
    <2> QED
        BY <1>2, <1>3, <1>4, <1>5, <1>7, <2>1 DEF RecoverFetch, GetRecord
<1>8. ASSUME NEW h \in Goroutines, ClaimJob(h) \/ ClaimReview(h) \/ AcquireConcurrency(h)
      PROVE  FALSE
    <2>1. /\ \A t : [call[h] EXCEPT !.pc = "get", !.token = t, !.defers = 1].pc # "deadletter"
          /\ [call[h] EXCEPT !.pc = "slot", !.defers = 2].pc # "deadletter"
          /\ [call[h] EXCEPT !.pc = "begin", !.defers = 3].pc # "deadletter"
        BY <1>1 DEF Call
    <2> QED
        BY <1>3, <1>4, <1>8, <2>1 DEF ClaimJob, ClaimReview, AcquireConcurrency
<1>9. ASSUME NEW h \in Goroutines, BeginRun(h) PROVE FALSE
    <2>1. \A r : [call[h] EXCEPT !.pc = "run", !.loc = r].pc # "deadletter"
        BY <1>1 DEF Call
    <2> QED
        BY <1>3, <1>4, <1>9, <2>1 DEF BeginRun
<1>10. ASSUME NEW h \in Goroutines, RunReturns(h) \/ RenewLeases(h) PROVE FALSE
    <2>1. \A o : [call[h] EXCEPT !.pc = "finish", !.outcome = o].pc # "deadletter"
        BY <1>1 DEF Call
    <2>2. ASSUME RenewLeases(h) PROVE FALSE
        <3>1. /\ [call[h] EXCEPT !.overdue = FALSE].pc = call[h].pc
              /\ [call[h] EXCEPT !.cancelled = TRUE].pc = call[h].pc
            BY <1>1 DEF Call
        <3> QED
            BY <1>3, <2>2, <3>1 DEF RenewLeases
    <2> QED
        BY <1>3, <1>10, <2>1, <2>2 DEF RunReturns
<1>11. ASSUME NEW h \in Goroutines, FinishRun(h) PROVE h = g
    <2>1. \E c : GoesOn(h, c)
        BY <1>11 DEF FinishRun, Return
    <2> QED
        BY <1>1, <2>1
<1>12. ASSUME NEW h \in Goroutines, WriteDeadLetter(h) \/ AckMessage(h) \/ CallFails(h)
       PROVE  FALSE
    BY <1>4, <1>5, <1>12 DEF WriteDeadLetter, AckMessage, CallFails
<1>13. ASSUME NEW h \in Goroutines, ReleaseNext(h) \/ ReleaseFails(h) PROVE FALSE
    <2>1. call[h].pc = "return" => [call[h] EXCEPT !.defers = @ - 1].pc # "deadletter"
        BY <1>1 DEF Call
    <2>2. DropDefer(h) /\ call[h].pc = "return"
        BY <1>13 DEF ReleaseNext, ReleaseFails
    <2> QED
        BY <1>2, <1>3, <2>1, <2>2 DEF DropDefer
<1>14. ASSUME NEW h \in Goroutines, Stall(h) PROVE FALSE
    <2>1. LET c == [call[h] EXCEPT !.overdue = TRUE] IN c.pc = call[h].pc /\ c.msg = call[h].msg
        BY <1>1 DEF Call
    <2> QED
        BY <1>1, <1>14, <2>1 DEF Stall
<1>15. ASSUME NEW P \in Processes, Crash(P) PROVE FALSE
    BY <1>2, <1>15 DEF Crash
<1>16. ASSUME call' = call PROVE FALSE
    BY <1>16
<1>17. ASSUME \/ \E j \in Jobs : Submit(j) \/ ExpireClaim(j) \/ Elapse(j) \/ ExpireRecord(j)
              \/ \E r \in Reviews : ExpireReview(r)
              \/ ExpireSlots \/ UNCHANGED vars
       PROVE  call' = call
    BY <1>17 DEF Submit, ExpireClaim, Elapse, ExpireRecord, ExpireReview, ExpireSlots, vars
<1> QED
    BY <1>6, <1>7, <1>8, <1>9, <1>10, <1>11, <1>12, <1>13, <1>14, <1>15, <1>16, <1>17
    DEF Next, Step, Failure

LEMMA FinishReports ==
    ASSUME JobInv, NEW g \in Goroutines, FinishRun(g), call'[g].pc = "deadletter"
    PROVE  Reported(call[g].msg)'
<1> DEFINE c == call[g]
           r == Settled(c.msg, c.loc, c.outcome, lastExec[c.msg] + 1)
<1>1. c \in Call /\ c.pc = "finish" /\ \A d : GoesOn(g, d) => call'[g] = d
    BY DEF JobInv, TypeOK, GoesOn, FinishRun
<1>2. ~Return(g)
    BY <1>1 DEF Return, Returned, Idle, Call
<1>3. Matches(c.msg, c.loc) /\ Store(c.msg, r) /\ call'[g] = AfterFinish(c, r)
    BY <1>1, <1>2 DEF FinishRun
<1>4. c.msg \in Jobs /\ c.loc \in Record
    BY <1>1, <1>3, MatchedIsCurrent
<1>5. c.outcome \in Outcomes /\ lastExec[c.msg] + 1 \in Nat
    BY <1>1, <1>4 DEF Call, JobInv, TypeOK
<1>6. r \in Record
    BY <1>4, <1>5, SettledFields
<1> HIDE DEF r
<1>7. r.status = Failed /\ call'[g].msg = c.msg
    <2>1. Returned(c).pc # "deadletter" /\ [c EXCEPT !.pc = "ack"].pc # "deadletter"
        BY <1>1 DEF Returned, Idle, Call
    <2>2. [c EXCEPT !.pc = "deadletter"].msg = c.msg
        BY <1>1 DEF Call
    <2>3. r.status = Failed
        BY <1>3, <2>1 DEF AfterFinish
    <2>4. r.status # Retrying
        BY <2>3 DEF Failed, Retrying
    <2> QED
        BY <1>3, <2>2, <2>3, <2>4 DEF AfterFinish
<1>8. rec'[c.msg] = NextVersion(r)
    BY <1>3, <1>4 DEF Store, JobInv, TypeOK
<1> QED
    BY <1>6, <1>7, <1>8, NextVersionFields DEF Reported

(* The dead-letter stream never names a job that is still going on or that *)
(* succeeded, although it is written in a separate call after the save and *)
(* another goroutine may have taken the job over in between.               *)
THEOREM DeadLettersAreFailures == Spec => []DeadLettersFailed
<1>1. Init => DeadLetterInv
    BY DEF Init, DeadLetterInv, DeadLettersFailed, Idle
<1>2. ASSUME JobInv, DeadLetterInv, [Next]_vars
      PROVE  DeadLetterInv'
    <2>1. created \subseteq created'
        BY <1>2 DEF Next, vars, Submit, Deliver, AutoClaim, Step, RecoverFetch, ClaimJob, GetRecord,
            ClaimReview, AcquireConcurrency, BeginRun, RunReturns, FinishRun, Store, WriteDeadLetter,
            AckMessage, ReleaseNext, RenewLeases, Failure, CallFails, ReleaseFails, Stall, Crash,
            ExpireClaim, Elapse, ExpireRecord, ExpireReview, ExpireSlots, recordVars
    <2>2. \A j \in created : Reported(j) => Reported(j)'
        BY <1>2, ReportedForGood
    <2>3. \A g \in Goroutines : call[g].pc = "deadletter" => call[g].msg \in created
        BY <1>2, CallFacts DEF CallInv, Shape
    <2>4. \/ deadLetter' = deadLetter
          \/ \E g \in Goroutines : call[g].pc = "deadletter" /\ deadLetter' = deadLetter \cup {call[g].msg}
        BY <1>2 DEF Next, vars, Submit, Deliver, AutoClaim, Step, RecoverFetch, ClaimJob, GetRecord,
            ClaimReview, AcquireConcurrency, BeginRun, RunReturns, FinishRun, WriteDeadLetter,
            AckMessage, ReleaseNext, RenewLeases, Failure, CallFails, ReleaseFails, Stall, Crash,
            ExpireClaim, Elapse, ExpireRecord, ExpireReview, ExpireSlots, queueVars
    <2>5. deadLetter' \subseteq created'
        BY <1>2, <2>1, <2>3, <2>4 DEF DeadLetterInv
    <2>6. \A j \in deadLetter' : j \in created /\ Reported(j)
        BY <1>2, <2>3, <2>4 DEF DeadLetterInv, DeadLettersFailed, Reported
    <2>7. DeadLettersFailed'
        BY <2>2, <2>6 DEF DeadLettersFailed, Reported
    <2>8. ASSUME NEW g \in Goroutines, call'[g].pc = "deadletter"
          PROVE  Reported(call[g].msg)'
        <3>1. CASE call[g].pc = "deadletter" /\ call'[g].msg = call[g].msg
            BY <1>2, <2>2, <2>3, <3>1 DEF DeadLetterInv, Reported
        <3>2. CASE ~(call[g].pc = "deadletter" /\ call'[g].msg = call[g].msg)
            BY <1>2, <2>8, <3>2, OnlyFinishReports, FinishReports
        <3> QED
            BY <3>1, <3>2
    <2> QED
        BY <2>5, <2>7, <2>8 DEF DeadLetterInv, Reported
<1>3. DeadLetterInv => DeadLettersFailed
    BY DEF DeadLetterInv
<1> QED
    BY <1>1, <1>2, <1>3, JobInvHolds, PTL DEF Spec

-----------------------------------------------------------------------------
(* The calls of process() and the semaphore.                               *)

(* What a step leaves of the slot of token t.                              *)
Kept(t) ==
    /\ InSlots(t)' => InSlots(t)
    /\ holding'[t] = holding[t]
    /\ t \in global /\ t \notin lapsed => t \in global' /\ t \notin lapsed'

LEMMA KeptSlot ==
    ASSUME NEW c \in Call, Shape(c), SlotOfCall(c), c.token \in Tokens => Kept(c.token)
    PROVE  SlotOfCall(c)'
<1>1. c.defers > 0 => Kept(c.token)
    BY DEF Shape, Call
<1>2. c.pc \in {"get", "review", "slot"} => c.defers > 0
    BY DEF Shape
<1> QED
    BY <1>1, <1>2 DEF SlotOfCall, Kept

(* A token has a slot to release only if a call with three deferred        *)
(* releases has the token.                                                 *)
LEMMA HolderDefers ==
    ASSUME JobInv, SlotUse, NEW g \in Goroutines, call[g].token \in Tokens,
           holding[call[g].token] # NoScope
    PROVE  call[g].defers = 3
    BY JobAssumption DEF JobInv, UniqueTokens, SlotUse

LEMMA GoesTo ==
    ASSUME JobInv, NEW g \in Goroutines, NEW d, GoesOn(g, d)
    PROVE  /\ call'[g] = d
           /\ \A h \in Goroutines : h # g => call'[h] = call[h]
    BY DEF JobInv, TypeOK, GoesOn

(* A step of one goroutine that disturbs no slot but its own.              *)
LEMMA OwnSlotStep ==
    ASSUME JobInv, SlotUse, NEW g \in Goroutines,
           \A h \in Goroutines : h # g => call'[h] = call[h],
           SlotInv', SlotOfCall(call[g])',
           \A t \in Tokens : t # call[g].token => Kept(t),
           call[g].token \in Tokens /\ holding'[call[g].token] # NoScope
               => call'[g].token = call[g].token /\ call'[g].defers = 3
    PROVE  SlotUse'
<1>1. ASSUME NEW h \in Goroutines
      PROVE  SlotOfCall(call[h])'
    <2>1. CASE h = g
        BY <2>1
    <2>2. CASE h # g
        <3>1. call[h] \in Call /\ Shape(call[h]) /\ SlotOfCall(call[h])
            BY CallFacts DEF CallInv, SlotUse
        <3>2. call[h].token \in Tokens => Kept(call[h].token)
            BY <2>2, JobAssumption DEF JobInv, UniqueTokens
        <3>3. call'[h] = call[h]
            BY <2>2
        <3>4. ASSUME NEW c \in Call, c = call[h] PROVE SlotOfCall(c)'
            BY <3>1, <3>2, <3>4, KeptSlot
        <3> QED
            BY <3>1, <3>3, <3>4 DEF SlotOfCall
    <2> QED
        BY <2>1, <2>2
<1>2. ASSUME NEW t \in Tokens, holding'[t] # NoScope
      PROVE  \E h \in Goroutines : call'[h].token = t /\ call'[h].defers = 3
    <2>1. CASE t = call[g].token
        BY <1>2, <2>1
    <2>2. CASE t # call[g].token
        <3>1. holding[t] # NoScope
            BY <1>2, <2>2 DEF Kept
        <3>2. PICK h \in Goroutines : call[h].token = t /\ call[h].defers = 3
            BY <3>1 DEF SlotUse
        <3> QED
            BY <2>2, <3>2
    <2> QED
        BY <2>1, <2>2
<1> QED
    BY <1>1, <1>2 DEF SlotUse

LEMMA SameSlotInv ==
    ASSUME SlotInv, UNCHANGED slotVars
    PROVE  SlotInv' /\ \A t \in Tokens : Kept(t)
<1>1. SlotInv'
    BY SlotStep
<1>2. \A t \in Tokens : Kept(t)
    BY DEF slotVars, Kept, InSlots
<1> QED
    BY <1>1, <1>2

(* A step of control from c to d that has nothing to do with slots.        *)
Follows(c, d) ==
    /\ d.pc \in {"get", "review", "slot"} => c.pc \in {"get", "review", "slot"} /\ d.token = c.token
    /\ c.defers = 3 <=> d.defers = 3
    /\ c.defers = 3 => d.token = c.token /\ d.msg = c.msg /\ (c.overdue => d.overdue)

LEMMA FollowStep ==
    ASSUME JobInv, SlotUse, NEW g \in Goroutines, NEW d, GoesOn(g, d), Follows(call[g], d),
           UNCHANGED slotVars
    PROVE  SlotUse'
<1>1. SlotInv' /\ \A t \in Tokens : Kept(t)
    BY SameSlotInv DEF SlotUse
<1>2. SlotOfCall(call[g]) /\ call[g] \in Call
    BY CallFacts DEF SlotUse
<1>3. SlotOfCall(d)
    BY <1>2 DEF SlotOfCall, Follows, Call
<1>4. SlotOfCall(call[g])'
    BY <1>3, GoesTo DEF SlotOfCall, InSlots, slotVars
<1>5. holding' = holding
    BY DEF slotVars
<1>6. call[g].token \in Tokens /\ holding[call[g].token] # NoScope
        => d.token = call[g].token /\ d.defers = 3
    BY HolderDefers DEF Follows
<1> QED
    BY <1>1, <1>4, <1>5, <1>6, GoesTo, OwnSlotStep

LEMMA ReturnedFollows ==
    ASSUME NEW c \in Call
    PROVE  Follows(c, Returned(c))
    BY DEF Follows, Returned, Idle, Call

LEMMA ReturnSlotStep ==
    ASSUME JobInv, SlotUse, NEW g \in Goroutines, Return(g), UNCHANGED slotVars
    PROVE  SlotUse'
    BY CallFacts, ReturnedFollows, FollowStep DEF Return

(* Steps that move neither calls nor slots.                                *)
LEMMA QuietSlotStep ==
    ASSUME SlotUse, UNCHANGED <<call, slotVars>>
    PROVE  SlotUse'
<1>1. SlotInv'
    BY SameSlotInv DEF SlotUse
<1> QED
    BY <1>1 DEF SlotUse, SlotOfCall, InSlots, slotVars


(* The steps of process() and of recovery that call no slot script.        *)
ControlAction(g) ==
    \/ \E j \in Jobs : Deliver(g, j) \/ AutoClaim(g, j)
    \/ RecoverFetch(g) \/ GetRecord(g) \/ ClaimReview(g) \/ BeginRun(g) \/ RunReturns(g)
    \/ FinishRun(g) \/ WriteDeadLetter(g) \/ AckMessage(g) \/ CallFails(g) \/ Stall(g)

LEMMA ControlFollows ==
    ASSUME JobInv, NEW g \in Goroutines, ControlAction(g)
    PROVE  /\ UNCHANGED slotVars
           /\ \E d : GoesOn(g, d) /\ Follows(call[g], d)
<1> DEFINE c == call[g]
<1>1. c \in Call /\ Shape(c) /\ Follows(c, Returned(c))
    BY CallFacts, ReturnedFollows DEF CallInv
<1>2. UNCHANGED slotVars
    BY DEF ControlAction, Deliver, AutoClaim, RecoverFetch, GetRecord, ClaimReview, BeginRun,
           RunReturns, FinishRun, WriteDeadLetter, AckMessage, CallFails, Stall
<1> SUFFICES \E d : GoesOn(g, d) /\ Follows(c, d)
    BY <1>2
<1>3. ASSUME NEW pc \in {"claim", "run", "finish", "deadletter", "ack"}
      PROVE  Follows(c, [c EXCEPT !.pc = pc])
    BY <1>1 DEF Follows, Call
<1>4. CASE Return(g)
    BY <1>1, <1>4 DEF Return
<1>5. ASSUME NEW j \in Jobs, Deliver(g, j) \/ AutoClaim(g, j)
      PROVE  \E d : GoesOn(g, d) /\ Follows(c, d)
    <2>1. c = Idle
        BY <1>1, <1>5 DEF Deliver, AutoClaim, Shape
    <2>2. ASSUME NEW pc \in {"fetch", "claim"} PROVE Follows(c, Taken(pc, j))
        BY <2>1 DEF Follows, Taken, Idle
    <2> QED
        BY <1>5, <2>2 DEF Deliver, AutoClaim
<1>6. CASE RecoverFetch(g)
    <2>1. Follows(c, Idle)
        BY <1>1, <1>6 DEF RecoverFetch, Shape, Follows, Idle
    <2> QED
        BY <1>3, <1>6, <2>1 DEF RecoverFetch, At
<1>7. CASE GetRecord(g)
    <2>1. Follows(c, [c EXCEPT !.pc = "review", !.loc = rec[c.msg]])
        BY <1>1, <1>7 DEF GetRecord, Follows, Call
    <2> QED
        BY <1>3, <1>4, <1>7, <2>1 DEF GetRecord, At
<1>8. CASE ClaimReview(g)
    <2>1. Follows(c, [c EXCEPT !.pc = "slot", !.defers = 2])
        BY <1>1, <1>8 DEF ClaimReview, Shape, Follows, Call
    <2> QED
        BY <1>4, <1>8, <2>1 DEF ClaimReview
<1>9. CASE BeginRun(g)
    <2> DEFINE r == Begun(Reclaimed(c.loc, lastExec[c.msg] + 1))
    <2>1. Follows(c, [c EXCEPT !.pc = "run", !.loc = NextVersion(r)])
        BY <1>1, <1>9 DEF BeginRun, Follows, Call
    <2>2. GoesOn(g, [c EXCEPT !.pc = "run", !.loc = NextVersion(r)]) \/ Return(g)
        BY <1>9 DEF BeginRun
    <2> QED
        BY <1>4, <2>1, <2>2
<1>10. CASE RunReturns(g)
    <2>1. \A o : Follows(c, [c EXCEPT !.pc = "finish", !.outcome = o])
        BY <1>1 DEF Follows, Call
    <2> QED
        BY <1>10, <2>1 DEF RunReturns
<1>11. CASE FinishRun(g)
    <2> DEFINE r == Settled(c.msg, c.loc, c.outcome, lastExec[c.msg] + 1)
    <2>1. GoesOn(g, AfterFinish(c, r)) \/ Return(g)
        BY <1>11 DEF FinishRun
    <2>2. Follows(c, AfterFinish(c, r))
        <3>1. AfterFinish(c, r) \in
                 {Returned(c), [c EXCEPT !.pc = "deadletter"], [c EXCEPT !.pc = "ack"]}
            BY DEF AfterFinish
        <3> QED
            BY <1>1, <1>3, <3>1
    <2> QED
        BY <1>4, <2>1, <2>2
<1>12. CASE WriteDeadLetter(g)
    BY <1>3, <1>12 DEF WriteDeadLetter, At
<1>13. CASE AckMessage(g) \/ CallFails(g)
    BY <1>4, <1>13 DEF AckMessage, CallFails
<1>14. CASE Stall(g)
    <2>1. Follows(c, [c EXCEPT !.overdue = TRUE])
        BY <1>1 DEF Follows, Call
    <2> QED
        BY <1>14, <2>1 DEF Stall
<1> QED
    BY <1>5, <1>6, <1>7, <1>8, <1>9, <1>10, <1>11, <1>12, <1>13, <1>14 DEF ControlAction


(* SETNX succeeds with a token that no sorted set has.                     *)
LEMMA ClaimSlotStep ==
    ASSUME JobInv, SlotUse, NEW g \in Goroutines, ClaimJob(g)
    PROVE  SlotUse'
<1> DEFINE c == call[g]
           t == CHOOSE u \in FreeTokens : TRUE
           d == [c EXCEPT !.pc = "get", !.token = t, !.defers = 1]
<1>1. c \in Call /\ c.defers = 0 /\ c.token = NoToken /\ UNCHANGED slotVars
    BY CallFacts DEF ClaimJob, CallInv, Shape, Call
<1>2. CASE Return(g)
    BY <1>1, <1>2, ReturnSlotStep
<1>3. CASE FreeTokens # {} /\ GoesOn(g, d)
    <2>1. t \in Tokens /\ ~InSlots(t)
        <3>1. t \in FreeTokens
            BY <1>3
        <3> QED
            BY <3>1 DEF FreeTokens, TokenInUse
    <2> HIDE DEF t
    <2>2. d.pc = "get" /\ d.defers = 1 /\ d.token = t
        BY <1>1 DEF Call
    <2> HIDE DEF d
    <2>3. SlotOfCall(call[g])'
        BY <1>1, <1>3, <2>1, <2>2, GoesTo DEF SlotOfCall, InSlots, slotVars
    <2>4. SlotInv' /\ \A u \in Tokens : Kept(u)
        BY <1>1, SameSlotInv DEF SlotUse
    <2> QED
        BY <1>1, <1>3, <2>3, <2>4, GoesTo, OwnSlotStep, JobAssumption
<1> QED
    BY <1>2, <1>3 DEF ClaimJob

(* Scripts that add or purge leave the unlapsed slots of others alone.     *)
LEMMA AddKeepsOthers ==
    ASSUME SlotInv, NEW t \in Tokens, NEW s \in Scopes, AddSlot(t, s),
           holding' \in {holding, [holding EXCEPT ![t] = s]}
    PROVE  \A u \in Tokens : u # t => Kept(u)
    BY ForgottenScores DEF SlotInv, SlotTypeOK, AddSlot, PurgedGlobal, PurgedScope, Kept, InSlots

LEMMA RefuseKeepsAll ==
    ASSUME SlotInv, NEW s \in Scopes, RefuseSlot(s)
    PROVE  \A u \in Tokens : Kept(u)
    BY ForgottenScores DEF SlotInv, SlotTypeOK, RefuseSlot, PurgedGlobal, PurgedScope, Kept, InSlots

LEMMA AskingCall ==
    ASSUME JobInv, SlotUse, NEW g \in Goroutines, call[g].pc = "slot"
    PROVE  /\ call[g] \in Call /\ call[g].token \in Tokens /\ call[g].defers = 2
           /\ ScopeOf[call[g].msg] \in Scopes
           /\ FreshToken(call[g].token)
<1>1. call[g] \in Call /\ Shape(call[g]) /\ call[g].token \in Tokens /\ call[g].defers = 2
    BY CallFacts DEF CallInv, Shape, Call
<1>2. ScopeOf[call[g].msg] \in Scopes
    BY <1>1, JobAssumption DEF Shape, JobInv, TypeOK
<1>3. ~InSlots(call[g].token)
    BY DEF SlotUse, SlotOfCall
<1>4. holding[call[g].token] = NoScope
    BY <1>1, HolderDefers
<1> QED
    BY <1>1, <1>2, <1>3, <1>4 DEF FreshToken

LEMMA AcquireSlotStep ==
    ASSUME JobInv, SlotUse, NEW g \in Goroutines, AcquireConcurrency(g)
    PROVE  SlotUse'
<1> DEFINE c == call[g]
           t == c.token
           s == ScopeOf[c.msg]
           d == [c EXCEPT !.pc = "begin", !.defers = 3]
<1>1. c \in Call /\ t \in Tokens /\ c.defers = 2 /\ s \in Scopes /\ FreshToken(t)
    BY AskingCall DEF AcquireConcurrency
<1>2. SlotInv
    BY DEF SlotUse
<1>3. Return(g) => /\ \A h \in Goroutines : h # g => call'[h] = call[h]
                 /\ SlotOfCall(call[g])'
    <2>1. Returned(c).pc = "return" /\ Returned(c).defers = 2
        BY <1>1 DEF Returned, Call
    <2> QED
        BY <2>1, GoesTo DEF Return, SlotOfCall
<1>4. CASE AcquireSlot(t, s) /\ GoesOn(g, d)
    <2>1. AddSlot(t, s) /\ holding' = [holding EXCEPT ![t] = s]
        BY <1>4 DEF AcquireSlot
    <2>2. SlotInv' /\ \A u \in Tokens : u # t => Kept(u)
        BY <1>1, <1>2, <2>1, AddKeepsInv, AddKeepsOthers
    <2>3. d.pc = "begin" /\ d.defers = 3 /\ d.token = t /\ d.msg = c.msg
        BY <1>1 DEF Call
    <2>4. t \in global' /\ t \notin lapsed' /\ holding'[t] = s
        BY <1>1, <1>2, <2>1 DEF SlotInv, SlotTypeOK, FreshToken, AddSlot, ForgetScores
    <2> HIDE DEF d
    <2>5. SlotOfCall(call[g])'
        BY <1>4, <2>3, <2>4, GoesTo DEF SlotOfCall
    <2> QED
        BY <1>4, <2>2, <2>3, <2>5, GoesTo, OwnSlotStep
<1>5. CASE AcquireSlotUnanswered(t, s) /\ Return(g)
    <2>1. AddSlot(t, s) /\ holding' = holding
        BY <1>5 DEF AcquireSlotUnanswered
    <2>2. SlotInv' /\ \A u \in Tokens : u # t => Kept(u)
        BY <1>1, <1>2, <2>1, AddKeepsInv, AddKeepsOthers
    <2>3. holding'[t] = NoScope
        BY <1>1, <2>1 DEF FreshToken
    <2> QED
        BY <1>3, <1>5, <2>2, <2>3, OwnSlotStep
<1>6. CASE RefuseSlot(s) /\ Return(g)
    <2>1. SlotInv' /\ (\A u \in Tokens : Kept(u)) /\ holding' = holding
        BY <1>1, <1>2, <1>6, RefuseKeepsInv, RefuseKeepsAll DEF RefuseSlot
    <2>2. holding'[t] = NoScope
        BY <1>1, <2>1 DEF FreshToken
    <2> QED
        BY <1>3, <1>6, <2>1, <2>2, OwnSlotStep
<1> QED
    BY <1>4, <1>5, <1>6 DEF AcquireConcurrency

(* A renewal writes the caller's own entries.                              *)
LEMMA RenewSlotStep ==
    ASSUME JobInv, SlotUse, NEW g \in Goroutines, RenewLeases(g)
    PROVE  SlotUse'
<1> DEFINE c == call[g]
           t == c.token
           d == [c EXCEPT !.overdue = FALSE]
<1>1. c \in Call /\ t \in Tokens /\ c.defers = 3 /\ c.pc = "run" /\ SlotOfCall(c)
    BY CallFacts DEF RenewLeases, CallInv, Shape, Call, SlotUse
<1>2. CASE RenewSlot(t) /\ GoesOn(g, d)
    <2>1. SlotInv'
        BY <1>1, <1>2, RenewKeepsInv DEF SlotUse
    <2>2. /\ t \in global' /\ t \notin lapsed' /\ holding' = holding
          /\ \A u \in Tokens : u # t => Kept(u)
        BY <1>2 DEF SlotUse, SlotInv, SlotTypeOK, RenewSlot, Kept, InSlots
    <2>3. d.pc = "run" /\ d.defers = 3 /\ d.token = t /\ d.msg = c.msg
        BY <1>1 DEF Call
    <2> HIDE DEF d
    <2>4. SlotOfCall(call[g])'
        BY <1>1, <1>2, <2>2, <2>3, GoesTo DEF SlotOfCall
    <2> QED
        BY <1>2, <2>1, <2>2, <2>3, <2>4, GoesTo, OwnSlotStep
<1>3. CASE UNCHANGED slotVars /\ GoesOn(g, [c EXCEPT !.cancelled = TRUE])
    <2>1. Follows(c, [c EXCEPT !.cancelled = TRUE])
        BY <1>1 DEF Follows, Call
    <2> QED
        BY <1>3, <2>1, FollowStep
<1> QED
    BY <1>2, <1>3 DEF RenewLeases

(* A release, or its failure, ends the caller's own slot.                  *)
LEMMA ReleaseSlotStep ==
    ASSUME JobInv, SlotUse, NEW g \in Goroutines, ReleaseNext(g) \/ ReleaseFails(g)
    PROVE  SlotUse'
<1> DEFINE c == call[g]
           t == c.token
           d == IF c.defers = 1 THEN Idle ELSE [c EXCEPT !.defers = @ - 1]
<1>1. c \in Call /\ c.pc = "return" /\ c.defers \in 1 .. 3 /\ t \in Tokens /\ GoesOn(g, d)
    BY CallFacts DEF ReleaseNext, ReleaseFails, DropDefer, CallInv, Shape, Call
<1>2. d.defers # 3 /\ d.pc \in {"idle", "return"}
    BY <1>1 DEF Call, Idle
<1> HIDE DEF d
<1>3. CASE c.defers # 3
    <2>1. UNCHANGED slotVars
        BY <1>1, <1>3 DEF ReleaseNext, ReleaseFails
    <2>2. Follows(c, d)
        BY <1>2, <1>3 DEF Follows
    <2> QED
        BY <1>1, <2>1, <2>2, FollowStep
<1>4. CASE c.defers = 3
    <2>1. ReleaseSlot(t) \/ AbandonSlots({t})
        BY <1>4 DEF ReleaseNext, ReleaseFails
    <2>2. SlotInv'
        BY <1>1, <2>1, ReleaseKeepsInv, AbandonKeepsInv DEF SlotUse
    <2>3. (\A u \in Tokens : u # t => Kept(u)) /\ holding'[t] = NoScope
        <3>1. CASE ReleaseSlot(t)
            BY <1>1, <3>1, ForgottenScores
               DEF SlotUse, SlotInv, SlotTypeOK, ReleaseSlot, Kept, InSlots
        <3>2. CASE AbandonSlots({t})
            BY <1>1, <3>2 DEF AbandonSlots, Kept, InSlots
        <3> QED
            BY <2>1, <3>1, <3>2
    <2>4. SlotOfCall(call[g])'
        BY <1>1, <1>2, GoesTo DEF SlotOfCall
    <2> QED
        BY <1>1, <2>2, <2>3, <2>4, GoesTo, OwnSlotStep
<1> QED
    BY <1>3, <1>4


(* A crash takes the goroutines and with them the releases they deferred.  *)
LEMMA CrashSlotStep ==
    ASSUME JobInv, SlotUse, NEW P \in Processes, Crash(P)
    PROVE  SlotUse'
<1> DEFINE T == {t \in Tokens : \E g \in P : call[g].token = t}
<1>1. P \in SUBSET Goroutines /\ AbandonSlots(T)
    BY JobAssumption DEF Crash
<1>2. \A h \in Goroutines : call'[h] = IF h \in P THEN Idle ELSE call[h]
    BY DEF Crash
<1>3. SlotInv'
    BY <1>1, AbandonKeepsInv DEF SlotUse
<1>4. \A t \in Tokens \ T : Kept(t)
    BY <1>1 DEF AbandonSlots, Kept, InSlots
<1>5. ASSUME NEW h \in Goroutines PROVE SlotOfCall(call[h])'
    <2>1. CASE h \in P
        BY <1>2, <2>1 DEF SlotOfCall, Idle
    <2>2. CASE h \notin P
        <3>1. call[h] \in Call /\ Shape(call[h]) /\ SlotOfCall(call[h])
            BY CallFacts DEF CallInv, SlotUse
        <3>2. call[h].token \in Tokens => Kept(call[h].token)
            BY <1>1, <1>4, <2>2, JobAssumption DEF JobInv, UniqueTokens
        <3>3. ASSUME NEW c \in Call, c = call[h] PROVE SlotOfCall(c)'
            BY <3>1, <3>2, <3>3, KeptSlot
        <3> QED
            BY <1>2, <2>2, <3>1, <3>3 DEF SlotOfCall
    <2> QED
        BY <2>1, <2>2
<1>6. ASSUME NEW t \in Tokens, holding'[t] # NoScope
      PROVE  \E h \in Goroutines : call'[h].token = t /\ call'[h].defers = 3
    <2>1. t \notin T /\ holding[t] # NoScope
        BY <1>1, <1>6 DEF AbandonSlots
    <2>2. PICK h \in Goroutines : call[h].token = t /\ call[h].defers = 3
        BY <2>1 DEF SlotUse
    <2> QED
        BY <1>2, <2>1, <2>2
<1> QED
    BY <1>3, <1>5, <1>6 DEF SlotUse

(* Only slots of calls that are overdue lapse, and only lapsed ones go.    *)
LEMMA ExpireSlotStep ==
    ASSUME JobInv, SlotUse, ExpireSlots
    PROVE  SlotUse'
<1>1. call' = call
    BY DEF ExpireSlots
<1>2. SlotInv'
    BY LapseKeepsInv, ExpiryKeepsInv DEF ExpireSlots, SlotUse
<1>3. holding' = holding
    BY DEF ExpireSlots, Lapse, ExpireGlobalKey, ExpireScopeKey
<1>4. ASSUME NEW t \in Tokens, ~MayExpire(t) PROVE Kept(t)
    <2>1. ASSUME NEW u \in Tokens, MayExpire(u), Lapse(u) PROVE Kept(t)
        BY <1>4, <2>1 DEF Lapse, Kept, InSlots
    <2>2. CASE ExpireGlobalKey
        BY <2>2, ForgottenScores DEF SlotUse, SlotInv, ExpireGlobalKey, Kept, InSlots
    <2>3. ASSUME NEW s \in Scopes, ExpireScopeKey(s) PROVE Kept(t)
        BY <2>3, ForgottenScores DEF SlotUse, SlotInv, SlotTypeOK, ExpireScopeKey, Kept, InSlots
    <2> QED
        BY <2>1, <2>2, <2>3 DEF ExpireSlots
<1>5. ASSUME NEW t \in Tokens, ~InSlots(t) PROVE ~InSlots(t)'
    BY <1>5 DEF ExpireSlots, SlotUse, SlotInv, SlotTypeOK, Lapse, ExpireGlobalKey,
                ExpireScopeKey, InSlots
<1>6. ASSUME NEW h \in Goroutines PROVE SlotOfCall(call[h])'
    <2>1. call[h] \in Call /\ Shape(call[h]) /\ SlotOfCall(call[h])
        BY CallFacts DEF CallInv, SlotUse
    <2>2. call[h].token \in Tokens /\ ~call[h].overdue => Kept(call[h].token)
        BY <1>4, JobAssumption DEF MayExpire
    <2>3. call[h].defers > 0 => call[h].token \in Tokens
        BY <2>1 DEF Shape, Call
    <2> QED
        BY <1>1, <1>3, <1>5, <2>1, <2>2, <2>3 DEF SlotOfCall, Shape, Kept
<1> QED
    BY <1>1, <1>2, <1>3, <1>6 DEF SlotUse

-----------------------------------------------------------------------------
LEMMA InitSlotUse == Init => SlotUse
<1> SUFFICES ASSUME Init PROVE SlotUse
    OBVIOUS
<1>1. SlotInv
    BY EmptySlots DEF Init
<1> QED
    BY <1>1 DEF Init, SlotInit, SlotUse, SlotOfCall, Idle

LEMMA SlotUseStep == JobInv /\ SlotUse /\ [Next]_vars => SlotUse'
<1> SUFFICES ASSUME JobInv, SlotUse, [Next]_vars PROVE SlotUse'
    OBVIOUS
<1>1. ASSUME NEW j \in Jobs, Submit(j) \/ ExpireClaim(j) \/ Elapse(j) \/ ExpireRecord(j)
      PROVE  SlotUse'
    BY <1>1, QuietSlotStep DEF Submit, ExpireClaim, Elapse, ExpireRecord
<1>2. ASSUME NEW r \in Reviews, ExpireReview(r) PROVE SlotUse'
    BY <1>2, QuietSlotStep DEF ExpireReview
<1>3. CASE UNCHANGED vars
    BY <1>3, QuietSlotStep DEF vars
<1>4. ASSUME NEW g \in Goroutines, ControlAction(g) PROVE SlotUse'
    BY <1>4, ControlFollows, FollowStep
<1>5. ASSUME NEW g \in Goroutines,
             ClaimJob(g) \/ AcquireConcurrency(g) \/ RenewLeases(g)
                \/ ReleaseNext(g) \/ ReleaseFails(g)
      PROVE  SlotUse'
    BY <1>5, ClaimSlotStep, AcquireSlotStep, RenewSlotStep, ReleaseSlotStep
<1> QED
    BY <1>1, <1>2, <1>3, <1>4, <1>5, CrashSlotStep, ExpireSlotStep
       DEF Next, Step, Failure, ControlAction

(* A deferred release is for a slot in the scope of the job.               *)
LEMMA ScopeOfCall ==
    ASSUME JobInv, NEW g \in Goroutines, call[g].defers > 0
    PROVE  ScopeOf[call[g].msg] \in Scopes /\ ScopeOf[call[g].msg] # NoScope
<1>1. call[g].msg \in Jobs
    BY CallFacts DEF CallInv, Shape, Idle, JobInv, TypeOK
<1> QED
    BY <1>1, JobAssumption, SlotAssumption

(* The calls of process() keep to the semaphore's rules: whoever asks for  *)
(* a slot comes with an unused token, and whoever has not overrun its      *)
(* leases still has its slot at both levels.                               *)
THEOREM SlotsAreUsedWell == Spec => [](JobInv /\ SlotUse)
<1>1. Init => JobInv /\ SlotUse
    BY InitInv, InitSlotUse
<1>2. JobInv /\ SlotUse /\ [Next]_vars => (JobInv /\ SlotUse)'
    BY JobStep, SlotUseStep
<1> QED
    BY <1>1, <1>2, PTL DEF Spec

(* Every step of the job service is, for the semaphore, a step of          *)
(* ConcurrencySlots: acquireConcurrency, renewConcurrencyLease and         *)
(* releaseConcurrency are called as that specification assumes.            *)
THEOREM UsesSemaphore == Spec => SlotSpec
<1>1. Init => SlotInit
    BY DEF Init
<1>2. JobInv /\ SlotUse /\ [Next]_vars => [SlotNext]_slotVars
    <2> SUFFICES ASSUME JobInv, SlotUse, [Next]_vars PROVE [SlotNext]_slotVars
        OBVIOUS
    <2>1. ASSUME NEW j \in Jobs, Submit(j) \/ ExpireClaim(j) \/ Elapse(j) \/ ExpireRecord(j)
          PROVE  UNCHANGED slotVars
        BY <2>1 DEF Submit, ExpireClaim, Elapse, ExpireRecord
    <2>2. ASSUME NEW r \in Reviews, ExpireReview(r) PROVE UNCHANGED slotVars
        BY <2>2 DEF ExpireReview
    <2>3. CASE UNCHANGED vars
        BY <2>3 DEF vars
    <2>4. ASSUME NEW g \in Goroutines, ControlAction(g) \/ ClaimJob(g)
          PROVE  UNCHANGED slotVars
        BY <2>4, ControlFollows DEF ClaimJob
    <2>5. ASSUME NEW g \in Goroutines, AcquireConcurrency(g) PROVE SlotNext
        BY <2>5, AskingCall DEF AcquireConcurrency, SlotNext
    <2>6. ASSUME NEW g \in Goroutines, RenewLeases(g) PROVE [SlotNext]_slotVars
        <3>1. call[g].token \in Tokens
            BY <2>6, CallFacts DEF RenewLeases, CallInv, Shape, Call
        <3> QED
            BY <2>6, <3>1 DEF RenewLeases, SlotNext
    <2>7. ASSUME NEW g \in Goroutines, ReleaseNext(g) \/ ReleaseFails(g)
          PROVE  [SlotNext]_slotVars
        <3> DEFINE t == call[g].token
        <3>1. t \in Tokens /\ call[g].defers \in 1 .. 3
            BY <2>7, CallFacts DEF ReleaseNext, ReleaseFails, CallInv, Shape, Call
        <3>2. CASE call[g].defers # 3
            BY <2>7, <3>1, <3>2 DEF ReleaseNext, ReleaseFails
        <3>3. CASE call[g].defers = 3
            <4>1. holding[t] # NoScope
                BY <3>3, ScopeOfCall DEF SlotUse, SlotOfCall
            <4>2. ReleaseSlot(t) \/ AbandonSlots({t})
                BY <2>7, <3>3 DEF ReleaseNext, ReleaseFails
            <4>3. {t} \in SUBSET {u \in Tokens : holding[u] # NoScope}
                BY <3>1, <4>1
            <4> QED
                BY <3>1, <4>2, <4>3 DEF SlotNext
        <3> QED
            BY <3>2, <3>3
    <2>8. ASSUME NEW P \in Processes, Crash(P) PROVE SlotNext
        <3> DEFINE T == {t \in Tokens : \E g \in P : call[g].token = t}
                   H == {t \in T : holding[t] # NoScope}
        <3>1. AbandonSlots(T)
            BY <2>8 DEF Crash
        <3>2. AbandonSlots(H)
            BY <3>1 DEF AbandonSlots
        <3>3. H \in SUBSET {t \in Tokens : holding[t] # NoScope}
            OBVIOUS
        <3> HIDE DEF H
        <3> QED
            BY <3>2, <3>3 DEF SlotNext
    <2>9. CASE ExpireSlots
        BY <2>9 DEF ExpireSlots, SlotNext
    <2> QED
        BY <2>1, <2>2, <2>3, <2>4, <2>5, <2>6, <2>7, <2>8, <2>9
           DEF Next, Step, Failure, ControlAction
<1> QED
    BY <1>1, <1>2, SlotsAreUsedWell, PTL DEF Spec, SlotSpec


-----------------------------------------------------------------------------
(* Goroutines have different tokens, so as many as have a token in S are   *)
(* no more than S may have members.                                        *)
LEMMA TokensCountCalls ==
    ASSUME JobInv, NEW S \in SUBSET Tokens, NEW G \in SUBSET Goroutines,
           \A g \in G : call[g].token \in S, NEW limit \in Nat, Cardinality(S) <= limit
    PROVE  Cardinality(G) <= limit
<1> DEFINE f == [g \in G |-> call[g].token]
<1>1. f \in [G -> S]
    OBVIOUS
<1>2. \A g, h \in G : f[g] = f[h] => g = h
    BY JobAssumption DEF JobInv, UniqueTokens
<1>3. f \in Injection(G, S)
    BY <1>1, <1>2 DEF Injection, IsInjective
<1>4. IsFiniteSet(S)
    BY TokenSubsets
<1>5. IsFiniteSet(G) /\ Cardinality(G) <= Cardinality(S)
    BY <1>3, <1>4, FS_Injection
<1>6. Cardinality(G) \in Nat /\ Cardinality(S) \in Nat
    BY <1>4, <1>5, FS_CardinalityType
<1> QED
    BY <1>5, <1>6

LEMMA LimitsBoundRuns == JobInv /\ SlotUse => RunsWithinLimits
<1> SUFFICES ASSUME JobInv, SlotUse PROVE RunsWithinLimits
    OBVIOUS
<1> DEFINE running == {g \in Goroutines : call[g].pc = "run" /\ ~call[g].overdue}
           within(s) == {g \in running : ScopeOf[call[g].msg] = s}
<1>1. ASSUME NEW g \in running
      PROVE  /\ call[g].token \in global /\ call[g].token \in scope[ScopeOf[call[g].msg]]
    <2>1. call[g].defers = 3 /\ call[g].pc = "run" /\ ~call[g].overdue
        BY CallFacts DEF CallInv, Shape
    <2>2. /\ holding[call[g].token] = ScopeOf[call[g].msg]
          /\ call[g].token \in global /\ call[g].token \notin lapsed
        BY <2>1 DEF SlotUse, SlotOfCall
    <2>3. ScopeOf[call[g].msg] # NoScope
        BY <2>1, ScopeOfCall
    <2> QED
        BY <2>2, <2>3 DEF SlotUse, SlotInv, LevelsAgree
<1>2. SlotLimits /\ SlotTypeOK
    BY ChargedCoversScope DEF SlotUse, SlotInv
<1>3. Cardinality(running) <= GlobalConcurrency
    <2>1. global \in SUBSET Tokens /\ running \in SUBSET Goroutines
        BY <1>2 DEF SlotTypeOK
    <2>2. Cardinality(global) <= GlobalConcurrency
        BY <1>2 DEF SlotLimits
    <2> QED
        BY <1>1, <2>1, <2>2, TokensCountCalls, SlotAssumption
<1>4. ASSUME NEW s \in Scopes PROVE Cardinality(within(s)) <= ScopeConcurrency
    <2>1. scope[s] \in SUBSET Tokens /\ within(s) \in SUBSET Goroutines
        BY <1>2 DEF SlotTypeOK
    <2>2. Cardinality(scope[s]) <= ScopeConcurrency
        BY <1>2 DEF SlotLimits
    <2> QED
        BY <1>1, <2>1, <2>2, TokensCountCalls, SlotAssumption
<1> QED
    BY <1>3, <1>4 DEF RunsWithinLimits

(* acquireConcurrency, the renewals and the releases keep both sorted sets *)
(* within GlobalConcurrency and ScopeConcurrency whatever the calls of     *)
(* process() do.                                                           *)
THEOREM ServiceKeepsLimits == Spec => []SlotLimits
    BY UsesSemaphore, SlotLimitsHold, PTL

(* GlobalConcurrency and ScopeConcurrency bound the agents that run, save  *)
(* those that have overrun their leases.                                   *)
THEOREM RunsAreLimited == Spec => []RunsWithinLimits
    BY SlotsAreUsedWell, LimitsBoundRuns, PTL

-----------------------------------------------------------------------------
(* The retry budget.                                                       *)

(* A job whose record does not change still pays: a fault pays for one     *)
(* late call more, or for the loss of the call that attends to the record. *)
LEMMA PayStep ==
    ASSUME JobInv, NEW j \in Jobs, FaultsPay(j), rec'[j] = rec[j],
           \/ faults' = faults /\ Late(j)' \subseteq Late(j) /\ (Attended(j) => Attended(j)')
           \/ faults' = faults + 1 /\ Late(j)' \subseteq Late(j)
           \/ /\ faults' = faults + 1 /\ (Attended(j) => Attended(j)')
              /\ \E g \in Goroutines : Late(j)' \subseteq Late(j) \cup {g}
    PROVE  FaultsPay(j)'
<1> DEFINE L == Late(j)
           M == Late(j)'
           m == Cardinality(L)
           n == Cardinality(M)
<1>1. faults \in Nat /\ MaxRetriesOf[j] \in Nat
    BY JobAssumption DEF JobInv, TypeOK
<1>2. IsFiniteSet(L) /\ m \in Nat /\ m <= faults
    BY FS_CardinalityType DEF FaultsPay
<1>3. ASSUME M \subseteq L PROVE IsFiniteSet(M) /\ n \in Nat /\ n <= m
    BY <1>2, <1>3, FS_Subset, FS_CardinalityType
<1>4. ASSUME NEW g \in Goroutines, M \subseteq L \cup {g}
      PROVE  IsFiniteSet(M) /\ n \in Nat /\ n <= m + 1
    <2> HIDE DEF L
    <2>1. IsFiniteSet(L) /\ m = Cardinality(L)
        BY <1>2
    <2>2. /\ IsFiniteSet(L \cup {g}) /\ Cardinality(L \cup {g}) \in Nat
          /\ Cardinality(L \cup {g}) \in {m, m + 1}
        BY <2>1, FS_AddElement, FS_CardinalityType
    <2>3. IsFiniteSet(M) /\ n \in Nat /\ n <= Cardinality(L \cup {g})
        BY <1>4, <2>2, FS_Subset, FS_CardinalityType
    <2> QED
        BY <1>2, <2>2, <2>3
<1>5. /\ IsFiniteSet(M) /\ n \in Nat /\ faults' \in {faults, faults + 1}
      /\ \/ faults' = faults /\ n <= m /\ (Attended(j) => Attended(j)')
         \/ faults' = faults + 1 /\ n <= m
         \/ faults' = faults + 1 /\ n <= m + 1 /\ (Attended(j) => Attended(j)')
    BY <1>3, <1>4
<1>6. rec[j] # NoRecord => rec[j].attempts \in Nat
    BY DEF JobInv, TypeOK, Record
<1> DEFINE a == IF Attended(j) THEN 1 ELSE 0
           b == IF Attended(j)' THEN 1 ELSE 0
<1>7. /\ a \in {0, 1} /\ b \in {0, 1}
      /\ \/ faults' = faults /\ n <= m /\ a <= b
         \/ faults' = faults + 1 /\ n <= m
         \/ faults' = faults + 1 /\ n <= m + 1 /\ a <= b
    BY <1>5
<1>8. /\ rec[j] # NoRecord =>
          /\ rec[j].status \in {Pending, Retrying} => rec[j].attempts <= MaxRetriesOf[j]
          /\ rec[j].status = Running => rec[j].attempts + m <= MaxRetriesOf[j] + faults + a
          /\ rec[j].attempts <= MaxRetriesOf[j] + 1 + faults
    BY DEF FaultsPay
<1> HIDE DEF L, M, m, n, a, b
<1>9. /\ n <= faults'
      /\ rec[j] # NoRecord =>
          /\ rec[j].status = Running => rec[j].attempts + n <= MaxRetriesOf[j] + faults' + b
          /\ rec[j].attempts <= MaxRetriesOf[j] + 1 + faults'
    BY <1>1, <1>2, <1>5, <1>6, <1>7, <1>8
<1> QED
    BY <1>5, <1>8, <1>9 DEF FaultsPay, L, M, m, n, a, b

Early == {"get", "review", "slot", "begin"}

(* A move of a call from c to d that neither begins nor stores a run, nor  *)
(* overruns a lease.                                                       *)
Moves(c, d) ==
    /\ d.overdue => d.defers > 0
    /\ d.pc \in Early /\ d.overdue => c.pc \in Early /\ c.overdue /\ d.msg = c.msg
    /\ d.pc \in {"run", "finish"} =>
          c.pc \in {"run", "finish"} /\ d.msg = c.msg /\ d.loc = c.loc /\ d.token = c.token

(* The call goes on to attend to the record it began.                      *)
Stays(c, d) ==
    c.pc \in {"run", "finish"} /\ c.loc = rec[c.msg] =>
        /\ d.pc \in {"run", "finish"} /\ d.msg = c.msg /\ d.loc = c.loc
        /\ d.overdue => c.overdue

(* The call was at the slot or the save before, with the same record.      *)
Waits(c, d) ==
    d.pc \in {"slot", "begin"} =>
        c.pc \in {"slot", "begin"} /\ d.msg = c.msg /\ d.loc = c.loc

LEMMA MovePays ==
    ASSUME JobInv, BudgetInv, NEW g \in Goroutines, NEW d, GoesOn(g, d), Moves(call[g], d),
           rec' = rec, Fault \/ (NoFault /\ Stays(call[g], d))
    PROVE  OverdueHolds' /\ \A j \in Jobs : FaultsPay(j)'
<1>1. call'[g] = d /\ \A h \in Goroutines : h # g => call'[h] = call[h]
    BY GoesTo
<1>2. OverdueHolds'
    BY <1>1 DEF BudgetInv, OverdueHolds, Moves
<1>3. ASSUME NEW j \in Jobs PROVE FaultsPay(j)'
    <2>1. Late(j)' \subseteq Late(j)
        BY <1>1 DEF Late, Moves, Early
    <2>2. ASSUME NoFault, Stays(call[g], d), Attended(j)
          PROVE  Attended(j)'
        <3>1. PICK h \in Goroutines : Attends(h, j) /\ ~call[h].overdue
            BY <2>2 DEF Attended
        <3>2. Attends(h, j)' /\ ~call'[h].overdue
            <4>1. CASE h = g
                BY <1>1, <2>2, <3>1, <4>1 DEF Attends, Stays
            <4>2. CASE h # g
                BY <1>1, <3>1, <4>2 DEF Attends
            <4> QED
                BY <4>1, <4>2
        <3> QED
            BY <3>2 DEF Attended
    <2>3. FaultsPay(j) /\ rec'[j] = rec[j]
        BY DEF BudgetInv
    <2> QED
        BY <2>1, <2>2, <2>3, PayStep DEF Fault, NoFault
<1> QED
    BY <1>2, <1>3

LEMMA MoveUnattended ==
    ASSUME JobInv, BudgetInv, NEW g \in Goroutines, NEW d, GoesOn(g, d), Moves(call[g], d),
           Waits(call[g], d), rec' = rec,
           \A r \in Reviews : review'[r] \in {review[r], NoToken}
    PROVE  BeginsUnattended'
<1>1. call'[g] = d /\ \A h \in Goroutines : h # g => call'[h] = call[h]
    BY GoesTo
<1> SUFFICES ASSUME NEW j \in Jobs, NEW k \in Goroutines, NEW h \in Goroutines,
                    Attends(k, j)', review'[ReviewOf[j]] = call'[k].token,
                    call'[h].msg = j, call'[h].pc \in {"slot", "begin"}
             PROVE  call'[h].loc # rec'[j]
    BY DEF BeginsUnattended
<1>2. Attends(k, j) /\ call'[k].token = call[k].token
    BY <1>1 DEF Attends, Moves
<1>3. call[k].token # NoToken
    BY <1>2, CallFacts DEF Attends, CallInv, Shape
<1>4. review[ReviewOf[j]] = call[k].token
    BY <1>2, <1>3, JobAssumption
<1>5. call[h].msg = j /\ call[h].pc \in {"slot", "begin"} /\ call'[h].loc = call[h].loc
    BY <1>1 DEF Waits
<1> QED
    BY <1>2, <1>4, <1>5 DEF BudgetInv, BeginsUnattended

LEMMA MoveStep ==
    ASSUME JobInv, BudgetInv, NEW g \in Goroutines, NEW d, GoesOn(g, d), Moves(call[g], d),
           Waits(call[g], d), rec' = rec, Fault \/ (NoFault /\ Stays(call[g], d)),
           \A r \in Reviews : review'[r] \in {review[r], NoToken}
    PROVE  BudgetInv'
    BY MovePays, MoveUnattended DEF BudgetInv
LEMMA ReturnMoves ==
    ASSUME NEW c \in Call, c.overdue => c.defers > 0
    PROVE  Moves(c, Returned(c)) /\ Waits(c, Returned(c))
    BY DEF Moves, Waits, Returned, Idle, Call, Early

LEMMA ReturnBudgetStep ==
    ASSUME JobInv, BudgetInv, NEW g \in Goroutines, Return(g), rec' = rec,
           Fault \/ (NoFault /\ (call[g].pc \in {"run", "finish"} => call[g].loc # rec[call[g].msg])),
           \A r \in Reviews : review'[r] \in {review[r], NoToken}
    PROVE  BudgetInv'
<1>1. call[g] \in Call /\ (call[g].overdue => call[g].defers > 0)
    BY CallFacts DEF BudgetInv, OverdueHolds
<1> QED
    BY <1>1, ReturnMoves, MoveStep DEF Return, Stays

(* Taking a message, looking at the record, asking for a slot.             *)
LEMMA FirstBudgetSteps ==
    ASSUME JobInv, BudgetInv, NEW g \in Goroutines,
           \/ \E j \in Jobs : Deliver(g, j) \/ AutoClaim(g, j)
           \/ RecoverFetch(g) \/ ClaimJob(g) \/ GetRecord(g) \/ AcquireConcurrency(g)
    PROVE  BudgetInv'
<1> DEFINE c == call[g]
<1>1. /\ c \in Call /\ Shape(c) /\ (c.overdue => c.defers > 0)
      /\ c.pc \in {"idle", "fetch", "claim", "get", "slot"}
    BY CallFacts DEF CallInv, BudgetInv, OverdueHolds, Deliver, AutoClaim, RecoverFetch,
                     ClaimJob, GetRecord, AcquireConcurrency
<1>2. rec' = rec /\ review' = review
    BY DEF Deliver, AutoClaim, RecoverFetch, ClaimJob, GetRecord, AcquireConcurrency,
           recordVars, lockVars
<1>3. ASSUME NEW d, GoesOn(g, d), Moves(c, d), Waits(c, d), NoFault PROVE BudgetInv'
    BY <1>1, <1>2, <1>3, MoveStep DEF Stays
<1>4. CASE Return(g) /\ (Fault \/ NoFault)
    BY <1>1, <1>2, <1>4, ReturnBudgetStep
<1>5. ASSUME NEW j \in Jobs, Deliver(g, j) \/ AutoClaim(g, j) PROVE BudgetInv'
    <2>1. \A pc \in {"fetch", "claim"} : Moves(c, Taken(pc, j)) /\ Waits(c, Taken(pc, j))
        BY DEF Moves, Waits, Taken, Idle, Early
    <2> QED
        BY <1>3, <1>5, <2>1 DEF Deliver, AutoClaim, NoFault
<1>6. \A pc \in {"ack", "claim"} : Moves(c, [c EXCEPT !.pc = pc]) /\ Waits(c, [c EXCEPT !.pc = pc])
    BY <1>1 DEF Moves, Waits, Call, Early
<1>7. CASE RecoverFetch(g)
    <2>1. Moves(c, Idle) /\ Waits(c, Idle)
        BY DEF Moves, Waits, Idle, Early
    <2> QED
        BY <1>3, <1>6, <1>7, <2>1 DEF RecoverFetch, At, NoFault
<1>8. CASE ClaimJob(g)
    <2>1. ASSUME NEW t PROVE LET d == [c EXCEPT !.pc = "get", !.token = t, !.defers = 1]
                             IN  Moves(c, d) /\ Waits(c, d)
        <3>1. ~c.overdue
            BY <1>1, <1>8 DEF ClaimJob, Shape
        <3> QED
            BY <1>1, <3>1 DEF Moves, Waits, Call, Early
    <2> QED
        BY <1>3, <1>4, <1>8, <2>1 DEF ClaimJob, NoFault
<1>9. CASE GetRecord(g)
    <2> DEFINE d == [c EXCEPT !.pc = "review", !.loc = rec[c.msg]]
    <2>1. Moves(c, d) /\ Waits(c, d)
        BY <1>1, <1>9 DEF GetRecord, Moves, Waits, Call, Early
    <2> QED
        BY <1>3, <1>4, <1>6, <1>9, <2>1 DEF GetRecord, At, NoFault
<1>10. CASE AcquireConcurrency(g)
    <2> DEFINE d == [c EXCEPT !.pc = "begin", !.defers = 3]
    <2>1. Moves(c, d) /\ Waits(c, d)
        BY <1>1, <1>10 DEF AcquireConcurrency, Moves, Waits, Call, Early
    <2> QED
        BY <1>3, <1>4, <1>10, <2>1 DEF AcquireConcurrency
<1> QED
    BY <1>5, <1>7, <1>8, <1>9, <1>10

(* The run, its renewals, and what follows the save of its outcome.        *)
LEMMA LastBudgetSteps ==
    ASSUME JobInv, BudgetInv, NEW g \in Goroutines,
           \/ RenewLeases(g) \/ RunReturns(g) \/ WriteDeadLetter(g) \/ AckMessage(g)
           \/ ReleaseNext(g) \/ CallFails(g) \/ ReleaseFails(g)
    PROVE  BudgetInv'
<1> DEFINE c == call[g]
<1>1. c \in Call /\ Shape(c) /\ (c.overdue => c.defers > 0)
    BY CallFacts DEF CallInv, BudgetInv, OverdueHolds
<1>2. rec' = rec /\ \A r \in Reviews : review'[r] \in {review[r], NoToken}
    <2>1. rec' = rec
        BY DEF RenewLeases, RunReturns, WriteDeadLetter, AckMessage, ReleaseNext, CallFails,
               ReleaseFails, recordVars
    <2>2. review' = review \/ review' = Released(review, ReviewOf[c.msg], c.token)
        BY DEF RenewLeases, RunReturns, WriteDeadLetter, AckMessage, ReleaseNext, CallFails,
               ReleaseFails, lockVars
    <2> QED
        BY <2>1, <2>2 DEF Released, JobInv, TypeOK
<1>3. ASSUME NEW d, GoesOn(g, d), Moves(c, d), Waits(c, d), Fault \/ (NoFault /\ Stays(c, d))
      PROVE  BudgetInv'
    BY <1>2, <1>3, MoveStep
<1>4. CASE RenewLeases(g)
    <2> DEFINE d == [c EXCEPT !.overdue = FALSE]
               e == [c EXCEPT !.cancelled = TRUE]
    <2>1. /\ Moves(c, d) /\ Waits(c, d) /\ Stays(c, d)
          /\ Moves(c, e) /\ Waits(c, e) /\ Stays(c, e)
        BY <1>1, <1>4 DEF RenewLeases, Moves, Waits, Stays, Call, Early
    <2> QED
        BY <1>3, <1>4, <2>1 DEF RenewLeases, NoFault
<1>5. CASE RunReturns(g)
    <2>1. ASSUME NEW o PROVE LET d == [c EXCEPT !.pc = "finish", !.outcome = o]
                             IN  Moves(c, d) /\ Waits(c, d) /\ Stays(c, d)
        BY <1>1, <1>5 DEF RunReturns, Moves, Waits, Stays, Call, Early
    <2> QED
        BY <1>3, <1>5, <2>1 DEF RunReturns, NoFault
<1>6. CASE WriteDeadLetter(g)
    <2> DEFINE d == [c EXCEPT !.pc = "ack"]
    <2>1. Moves(c, d) /\ Waits(c, d) /\ Stays(c, d)
        BY <1>1, <1>6 DEF WriteDeadLetter, Moves, Waits, Stays, Call, Early
    <2> QED
        BY <1>3, <1>6, <2>1 DEF WriteDeadLetter, At
<1>7. CASE AckMessage(g) \/ CallFails(g)
    BY <1>2, <1>7, ReturnBudgetStep DEF AckMessage, CallFails, NoFault
<1>8. CASE ReleaseNext(g) \/ ReleaseFails(g)
    <2> DEFINE d == IF c.defers = 1 THEN Idle ELSE [c EXCEPT !.defers = @ - 1]
    <2>1. c.pc = "return" /\ c.defers \in 1 .. 3 /\ GoesOn(g, d)
        BY <1>1, <1>8 DEF ReleaseNext, ReleaseFails, DropDefer, Shape, Call
    <2>2. Moves(c, d) /\ Waits(c, d) /\ Stays(c, d)
        BY <1>1, <2>1 DEF Moves, Waits, Stays, Call, Idle, Early
    <2> HIDE DEF d
    <2> QED
        BY <1>3, <1>8, <2>1, <2>2 DEF ReleaseNext, ReleaseFails, NoFault
<1> QED
    BY <1>4, <1>5, <1>6, <1>7, <1>8

(* The review was free, so nobody who attends to a record has its key.     *)
LEMMA ClaimReviewBudgetStep ==
    ASSUME JobInv, BudgetInv, NEW g \in Goroutines, ClaimReview(g)
    PROVE  BudgetInv'
<1> DEFINE c == call[g]
           r == ReviewOf[c.msg]
           d == [c EXCEPT !.pc = "slot", !.defers = 2]
<1>1. /\ c \in Call /\ c.pc = "review" /\ c.token # NoToken /\ (c.overdue => c.defers > 0)
    BY CallFacts DEF ClaimReview, CallInv, Shape, BudgetInv, OverdueHolds
<1>2. rec' = rec
    BY DEF ClaimReview, recordVars
<1>3. CASE review[r] # NoToken
    <2>1. Return(g) /\ NoFault /\ review' = review
        BY <1>3 DEF ClaimReview, NoFault
    <2> QED
        BY <1>1, <1>2, <2>1, ReturnBudgetStep
<1>4. CASE review[r] = NoToken
    <2>1. review' = [review EXCEPT ![r] = c.token]
        BY <1>4 DEF ClaimReview
    <2>2. PICK e : GoesOn(g, e) /\ (\/ e = d /\ NoFault
                                    \/ e = Returned(c) /\ Fault)
        BY <1>4 DEF ClaimReview, Return
    <2>3. /\ Moves(c, e) /\ Stays(c, e) /\ e.pc \notin {"run", "finish"}
          /\ e.pc \in {"slot", "begin"} => e.msg = c.msg
        <3>1. CASE e = d
            BY <1>1, <3>1 DEF Moves, Stays, Call, Early
        <3>2. CASE e = Returned(c)
            BY <1>1, <3>2, ReturnMoves DEF Stays, Returned, Idle, Call
        <3> QED
            BY <2>2, <3>1, <3>2
    <2>4. OverdueHolds' /\ \A j \in Jobs : FaultsPay(j)'
        BY <1>2, <2>2, <2>3, MovePays
    <2>5. BeginsUnattended'
        <3>1. call'[g] = e /\ \A h \in Goroutines : h # g => call'[h] = call[h]
            BY <2>2, GoesTo
        <3> SUFFICES ASSUME NEW j \in Jobs, NEW k \in Goroutines, NEW h \in Goroutines,
                            Attends(k, j)', review'[ReviewOf[j]] = call'[k].token,
                            call'[h].msg = j, call'[h].pc \in {"slot", "begin"}
                     PROVE  call'[h].loc # rec'[j]
            BY DEF BeginsUnattended
        <3>2. k # g /\ Attends(k, j) /\ call'[k] = call[k]
            BY <1>2, <2>3, <3>1 DEF Attends
        <3>3. call[k].token # NoToken /\ call[k].token # c.token
            BY <1>1, <3>2, CallFacts DEF Attends, CallInv, Shape, JobInv, UniqueTokens
        <3>4. ReviewOf[j] # r /\ review[ReviewOf[j]] = call[k].token
            BY <2>1, <3>2, <3>3, JobAssumption DEF JobInv, TypeOK
        <3>5. h # g
            BY <2>3, <3>1, <3>4
        <3> QED
            BY <1>2, <3>1, <3>2, <3>4, <3>5 DEF BudgetInv, BeginsUnattended
    <2> QED
        BY <2>4, <2>5 DEF BudgetInv
<1> QED
    BY <1>3, <1>4
(* A stall makes one call late, or takes the attendance from one record.   *)
LEMMA StallBudgetStep ==
    ASSUME JobInv, BudgetInv, NEW g \in Goroutines, Stall(g)
    PROVE  BudgetInv'
<1> DEFINE c == call[g]
           d == [c EXCEPT !.overdue = TRUE]
<1>1. c \in Call /\ c.defers > 0 /\ GoesOn(g, d) /\ rec' = rec /\ review' = review
    BY CallFacts DEF Stall, recordVars, lockVars
<1>2. /\ d.pc = c.pc /\ d.msg = c.msg /\ d.loc = c.loc /\ d.token = c.token
      /\ d.overdue /\ d.defers = c.defers
    BY <1>1 DEF Call
<1> HIDE DEF d
<1>3. call'[g] = d /\ \A h \in Goroutines : h # g => call'[h] = call[h]
    BY <1>1, GoesTo
<1>4. OverdueHolds'
    BY <1>1, <1>2, <1>3 DEF BudgetInv, OverdueHolds
<1>5. BeginsUnattended'
    <2>1. \A h \in Goroutines : /\ call'[h].pc = call[h].pc /\ call'[h].msg = call[h].msg
                                /\ call'[h].loc = call[h].loc /\ call'[h].token = call[h].token
        BY <1>2, <1>3
    <2> QED
        BY <1>1, <2>1 DEF BudgetInv, BeginsUnattended, Attends
<1>6. ASSUME NEW j \in Jobs PROVE FaultsPay(j)'
    <2>1. FaultsPay(j) /\ faults' = faults + 1 /\ rec'[j] = rec[j]
        BY <1>1 DEF BudgetInv, Stall, Fault
    <2>2. CASE c.pc \in Early
        <3>1. Late(j)' \subseteq Late(j) \cup {g}
            BY <1>3 DEF Late
        <3>2. Attended(j) => Attended(j)'
            BY <1>1, <1>3, <2>2 DEF Attended, Attends, Early
        <3> QED
            BY <2>1, <3>1, <3>2, PayStep
    <2>3. CASE c.pc \notin Early
        <3>1. Late(j)' \subseteq Late(j)
            BY <1>2, <1>3, <2>3 DEF Late, Early
        <3> QED
            BY <2>1, <3>1, PayStep
    <2> QED
        BY <2>2, <2>3
<1> QED
    BY <1>4, <1>5, <1>6 DEF BudgetInv

LEMMA CrashBudgetStep ==
    ASSUME JobInv, BudgetInv, NEW P \in Processes, Crash(P)
    PROVE  BudgetInv'
<1>1. \A h \in Goroutines : call'[h] = Idle \/ call'[h] = call[h]
    BY DEF Crash
<1>2. rec' = rec /\ review' = review /\ faults' = faults + 1
    BY DEF Crash, recordVars, lockVars, Fault
<1>3. /\ Idle.pc \notin Early /\ Idle.pc \notin {"run", "finish", "slot", "begin"}
      /\ ~Idle.overdue
    BY DEF Idle, Early
<1>4. OverdueHolds'
    BY <1>1, <1>3 DEF BudgetInv, OverdueHolds
<1>5. BeginsUnattended'
    BY <1>1, <1>2, <1>3 DEF BudgetInv, BeginsUnattended, Attends
<1>6. ASSUME NEW j \in Jobs PROVE FaultsPay(j)'
    <2>1. Late(j)' \subseteq Late(j)
        BY <1>1, <1>3 DEF Late, Early
    <2>2. FaultsPay(j) /\ rec'[j] = rec[j]
        BY <1>2 DEF BudgetInv
    <2> QED
        BY <1>2, <2>1, <2>2, PayStep
<1> QED
    BY <1>4, <1>5, <1>6 DEF BudgetInv

(* Time passes in Redis.                                                   *)
LEMMA QuietBudgetStep ==
    ASSUME JobInv, BudgetInv, UNCHANGED <<rec, call, faults>>,
           \A r \in Reviews : review'[r] \in {review[r], NoToken}
    PROVE  BudgetInv'
<1>1. OverdueHolds'
    BY DEF BudgetInv, OverdueHolds
<1>2. BeginsUnattended'
    <2> SUFFICES ASSUME NEW j \in Jobs, NEW k \in Goroutines, NEW h \in Goroutines,
                        Attends(k, j), review'[ReviewOf[j]] = call[k].token,
                        call[h].msg = j, call[h].pc \in {"slot", "begin"}
                 PROVE  call[h].loc # rec[j]
        BY DEF BeginsUnattended, Attends
    <2>1. call[k].token # NoToken
        BY CallFacts DEF Attends, CallInv, Shape
    <2>2. review[ReviewOf[j]] = call[k].token
        BY <2>1, JobAssumption
    <2> QED
        BY <2>2 DEF BudgetInv, BeginsUnattended
<1>3. \A j \in Jobs : FaultsPay(j)'
    BY DEF BudgetInv, FaultsPay, Late, Attended, Attends
<1> QED
    BY <1>1, <1>2, <1>3 DEF BudgetInv

(* A new record has no attempts, and no call is for its job yet.           *)
LEMMA SubmitBudgetStep ==
    ASSUME JobInv, BudgetInv, NEW k \in Jobs, Submit(k)
    PROVE  BudgetInv'
<1>1. /\ k \notin created /\ UNCHANGED <<call, review, faults>>
      /\ rec'[k] = NewRecord /\ \A j \in Jobs : j # k => rec'[j] = rec[j]
    BY DEF Submit, lockVars, JobInv, TypeOK
<1>2. \A h \in Goroutines : call[h].pc # "idle" => call[h].msg # k
    BY <1>1, CallFacts DEF CallInv, Shape
<1>3. OverdueHolds'
    BY <1>1 DEF BudgetInv, OverdueHolds
<1>4. BeginsUnattended'
    BY <1>1, <1>2 DEF BudgetInv, BeginsUnattended, Attends
<1>5. ASSUME NEW j \in Jobs, j # k PROVE FaultsPay(j)'
    BY <1>1, <1>5 DEF BudgetInv, FaultsPay, Late, Attended, Attends
<1>6. FaultsPay(k)'
    <2>1. Late(k)' = Late(k) /\ FaultsPay(k)
        BY <1>1 DEF Late, BudgetInv
    <2>2. NewRecord.attempts = 0 /\ NewRecord.status = Pending /\ Pending # Running
        BY DEF NewRecord, Pending, Running
    <2>3. MaxRetriesOf[k] \in Nat /\ faults \in Nat
        BY JobAssumption DEF JobInv, TypeOK
    <2> QED
        BY <1>1, <2>1, <2>2, <2>3 DEF FaultsPay
<1> QED
    BY <1>3, <1>4, <1>5, <1>6 DEF BudgetInv

LEMMA ExpireRecordBudgetStep ==
    ASSUME JobInv, BudgetInv, NEW k \in Jobs, ExpireRecord(k)
    PROVE  BudgetInv'
<1>1. /\ UNCHANGED <<call, review>> /\ faults' = faults + 1 /\ rec'[k] = NoRecord
      /\ \A j \in Jobs : j # k => rec'[j] = rec[j]
    BY DEF ExpireRecord, lockVars, Fault, JobInv, TypeOK
<1>2. \A h \in Goroutines : call[h].pc \in {"slot", "begin"} => call[h].loc # NoRecord
    BY CallFacts DEF CallInv, Shape
<1>3. OverdueHolds'
    BY <1>1 DEF BudgetInv, OverdueHolds
<1>4. BeginsUnattended'
    BY <1>1, <1>2 DEF BudgetInv, BeginsUnattended, Attends
<1>5. ASSUME NEW j \in Jobs PROVE FaultsPay(j)'
    <2>1. Late(j)' = Late(j) /\ FaultsPay(j)
        BY <1>1 DEF Late, BudgetInv
    <2>2. CASE j # k
        BY <1>1, <2>1, <2>2, PayStep
    <2>3. CASE j = k
        <3>1. Cardinality(Late(j)) \in Nat /\ faults \in Nat
            BY <2>1, FS_CardinalityType DEF FaultsPay, JobInv, TypeOK
        <3> QED
            BY <1>1, <2>1, <2>3, <3>1 DEF FaultsPay
    <2> QED
        BY <2>2, <2>3
<1> QED
    BY <1>3, <1>4, <1>5 DEF BudgetInv
-----------------------------------------------------------------------------
(* The two saves of process().                                             *)

LEMMA NextExecutionAttempts ==
    ASSUME NEW r \in Record, NEW id \in Nat
    PROVE  /\ NextExecution(r, id) \in Record /\ NextExecution(r, id).status = Retrying
           /\ NextExecution(r, id).attempts = r.attempts
<1> DEFINE f == FinishLatestExecution(r, Failed)
<1>1. f \in Record /\ f.attempts = r.attempts
    BY FinishLatestFields DEF Statuses
<1> HIDE DEF f
<1>2. [f EXCEPT !.status = Retrying, !.parent = r.execution, !.execution = id].attempts
        = f.attempts
    BY <1>1 DEF Record
<1> QED
    BY <1>1, <1>2, NextExecutionFields DEF NextExecution, f

LEMMA BeginAttempts ==
    ASSUME NEW r \in Record, NEW id \in Nat
    PROVE  NextVersion(Begun(Reclaimed(r, id))).attempts = r.attempts + 1
<1>1. Reclaimed(r, id) \in Record /\ Reclaimed(r, id).attempts = r.attempts
    BY NextExecutionAttempts DEF Reclaimed
<1>2. ASSUME NEW q \in Record PROVE Begun(q).attempts = q.attempts + 1
    BY DEF Begun, Record
<1> QED
    BY <1>1, <1>2, BegunFields DEF NextVersion, Record

(* Only a record with retries left goes back to RETRYING.                  *)
LEMMA SettledAttempts ==
    ASSUME NEW j \in Jobs, NEW r \in Record, NEW id \in Nat, NEW o \in Outcomes
    PROVE  LET n == NextVersion(Settled(j, r, o, id)) IN
           /\ n.attempts = r.attempts /\ n.status \notin {Pending, Running}
           /\ n.status = Retrying => r.attempts <= MaxRetriesOf[j]
<1> DEFINE n == Settled(j, r, o, id)
<1>1. /\ {Succeeded, Incomplete, Failed} \subseteq Statuses
      /\ \A s \in {Succeeded, Incomplete, Failed} : s \notin {Pending, Running, Retrying}
      /\ Retrying \notin {Pending, Running}
    BY DEF Statuses, Succeeded, Incomplete, Failed, Pending, Running, Retrying
<1>2. ASSUME NEW s \in {Succeeded, Incomplete, Failed}
      PROVE  LET f == [FinishLatestExecution(r, s) EXCEPT !.status = s] IN
             f \in Record /\ f.attempts = r.attempts /\ f.status = s
    BY <1>1, FinishLatestFields DEF Record
<1>3. /\ NextExecution(r, id) \in Record /\ NextExecution(r, id).attempts = r.attempts
      /\ NextExecution(r, id).status = Retrying
    BY NextExecutionAttempts
<1>4. \/ n = NextExecution(r, id) /\ MayRetry(j, r)
      \/ \E s \in {Succeeded, Incomplete, Failed} :
            n = [FinishLatestExecution(r, s) EXCEPT !.status = s]
    BY DEF Settled
<1>5. /\ n \in Record /\ n.attempts = r.attempts /\ n.status \notin {Pending, Running}
      /\ n.status = Retrying => r.attempts <= MaxRetriesOf[j]
    BY <1>1, <1>2, <1>3, <1>4 DEF MayRetry
<1> HIDE DEF n
<1>6. NextVersion(n).attempts = n.attempts /\ NextVersion(n).status = n.status
    BY <1>5 DEF NextVersion, Record
<1> QED
    BY <1>5, <1>6 DEF n

(* What a save that matches leaves alone.                                  *)
LEMMA StoreBudgetStep ==
    ASSUME JobInv, BudgetInv, NEW g \in Goroutines, call[g].pc \in {"begin", "finish"},
           NEW k \in Jobs, k = call[g].msg, Matches(k, call[g].loc),
           NEW r \in Record, r.version = call[g].loc.version, Store(k, r),
           NEW d, GoesOn(g, d), d.pc \notin Early, d.pc # "idle" => d.msg = k,
           d.overdue => d.defers > 0, Fault \/ NoFault, review' = review,
           FaultsPay(k)'
    PROVE  BudgetInv'
<1>1. call'[g] = d /\ \A h \in Goroutines : h # g => call'[h] = call[h]
    BY GoesTo
<1>2. k \in Jobs /\ call[g].loc \in Record /\ rec[k] = call[g].loc
    BY MatchedIsCurrent
<1>3. /\ rec'[k] = NextVersion(r) /\ rec'[k].version = rec[k].version + 1
      /\ \A j \in Jobs : j # k => rec'[j] = rec[j]
    BY <1>2, NextVersionFields DEF Store, JobInv, TypeOK
<1>4. OverdueHolds'
    BY <1>1 DEF BudgetInv, OverdueHolds
<1>5. BeginsUnattended'
    <2> SUFFICES ASSUME NEW j \in Jobs, NEW x \in Goroutines, NEW h \in Goroutines,
                        Attends(x, j)', review'[ReviewOf[j]] = call'[x].token,
                        call'[h].msg = j, call'[h].pc \in {"slot", "begin"}
                 PROVE  call'[h].loc # rec'[j]
        BY DEF BeginsUnattended
    <2>1. h # g /\ call'[h] = call[h]
        BY <1>1 DEF Early
    <2>2. CASE j = k
        <3>1. call[h] \in Call /\ call[h].loc # NoRecord /\ Current(call[h])
            BY <2>1, CallFacts DEF CallInv, Shape
        <3>2. call[h].loc.version <= rec[k].version
            BY <1>2, <2>1, <2>2, <3>1, RecordAssumption DEF Current
        <3>3. call[h].loc.version \in Nat /\ rec[k].version \in Nat
            BY <1>2, <3>1 DEF Call, Record
        <3>4. call[h].loc.version # rec'[k].version
            BY <1>3, <3>2, <3>3
        <3> QED
            BY <2>1, <2>2, <3>4
    <2>3. CASE j # k
        <3>1. x # g /\ call'[x] = call[x]
            BY <1>1, <2>3 DEF Attends
        <3> QED
            BY <1>3, <2>1, <2>3, <3>1 DEF Attends, BudgetInv, BeginsUnattended
    <2> QED
        BY <2>2, <2>3
<1>6. ASSUME NEW j \in Jobs PROVE FaultsPay(j)'
    <2>1. CASE j = k
        BY <2>1
    <2>2. CASE j # k
        <3>1. Late(j)' \subseteq Late(j)
            BY <1>1 DEF Late, Early
        <3>2. Attended(j) => Attended(j)'
            BY <1>1, <1>3, <2>2 DEF Attended, Attends
        <3>3. FaultsPay(j)
            BY DEF BudgetInv
        <3> QED
            BY <1>3, <2>2, <3>1, <3>2, <3>3, PayStep DEF Fault, NoFault
    <2> QED
        BY <2>1, <2>2
<1> QED
    BY <1>4, <1>5, <1>6 DEF BudgetInv

(* An attempt begins: with the retries the record has left, or because the *)
(* record was unattended; a late call or a lost reply has cost its fault.  *)
LEMMA BeginRunPays ==
    ASSUME JobInv, BudgetInv, NEW g \in Goroutines, BeginRun(g),
           NEW k \in Jobs, k = call[g].msg, Matches(k, call[g].loc)
    PROVE  FaultsPay(k)'
<1> DEFINE c == call[g]
           q == NextVersion(Begun(Reclaimed(c.loc, lastExec[k] + 1)))
           L == Late(k)
           M == Late(k)'
           a == IF Attended(k)' THEN 1 ELSE 0
<1>1. /\ c \in Call /\ c.pc = "begin" /\ k \in Jobs /\ c.loc \in Record /\ rec[k] = c.loc
      /\ Open(k) /\ lastExec[k] + 1 \in Nat
    BY CallFacts, MatchedIsCurrent DEF BeginRun, JobInv, TypeOK
<1>2. rec'[k] = q
    BY <1>1 DEF BeginRun, Store, JobInv, TypeOK
<1>3. q \in Record /\ q.status = Running /\ q.attempts = c.loc.attempts + 1
    BY <1>1, BeginFields, NextVersionFields, BeginAttempts
<1> HIDE DEF q
<1>4. /\ MaxRetriesOf[k] \in Nat /\ faults \in Nat /\ c.loc.attempts \in Nat
      /\ IsFiniteSet(L) /\ Cardinality(L) \in Nat /\ Cardinality(L) <= faults
    BY <1>1, JobAssumption, FS_CardinalityType
       DEF JobInv, TypeOK, Record, BudgetInv, FaultsPay
<1>5. c.loc.attempts + Cardinality(L) <= MaxRetriesOf[k] + faults
    <2>1. FaultsPay(k) /\ rec[k] = c.loc /\ rec[k] # NoRecord
        BY <1>1 DEF BudgetInv, Open
    <2>2. CASE c.loc.status \in {Pending, Retrying}
        <3>1. c.loc.attempts <= MaxRetriesOf[k]
            BY <2>1, <2>2 DEF FaultsPay
        <3> QED
            BY <1>4, <3>1
    <2>3. CASE c.loc.status = Running
        <3>1. ~Attended(k)
            <4> SUFFICES ASSUME NEW h \in Goroutines, Attends(h, k), ~call[h].overdue PROVE FALSE
                BY DEF Attended
            <4>1. review[ReviewOf[k]] = call[h].token
                BY CallFacts DEF CallInv, Shape, Leased, Attends
            <4> QED
                BY <1>1, <4>1 DEF BudgetInv, BeginsUnattended
        <3> QED
            BY <1>4, <2>1, <2>3, <3>1 DEF FaultsPay
    <2> QED
        BY <1>1, <2>2, <2>3 DEF Open, IsTerminal, Record, Statuses
<1>6. PICK d : /\ GoesOn(g, d)
               /\ \/ faults' = faults /\ d = [c EXCEPT !.pc = "run", !.loc = q]
                  \/ faults' = faults + 1 /\ d = Returned(c)
    BY DEF BeginRun, Return, Fault, NoFault, q
<1>7. /\ call'[g] = d /\ \A h \in Goroutines : h # g => call'[h] = call[h]
      /\ d.pc \notin Early
      /\ faults' = faults => d.pc = "run" /\ d.msg = k /\ d.loc = q /\ d.overdue = c.overdue
    <2>1. CASE d = [c EXCEPT !.pc = "run", !.loc = q]
        BY <1>1, <1>6, <2>1, GoesTo DEF Call, Early
    <2>2. CASE faults' = faults + 1 /\ d = Returned(c)
        <3>1. faults' # faults /\ d.pc \notin Early
            BY <1>4, <2>2 DEF Returned, Idle, Call, Early
        <3> QED
            BY <1>6, <3>1, GoesTo
    <2> QED
        BY <1>6, <2>1, <2>2
<1>8. M \subseteq L \ {g}
    BY <1>7 DEF Late, Early
<1>9. /\ IsFiniteSet(L \ {g}) /\ Cardinality(L \ {g}) \in Nat
      /\ Cardinality(L \ {g}) = IF g \in L THEN Cardinality(L) - 1 ELSE Cardinality(L)
    <2> HIDE DEF L
    <2> QED
        BY <1>4, FS_RemoveElement, FS_CardinalityType
<1>10. /\ IsFiniteSet(M) /\ Cardinality(M) \in Nat
       /\ Cardinality(M) <= IF g \in L THEN Cardinality(L) - 1 ELSE Cardinality(L)
    <2> HIDE DEF L, M
    <2> QED
        BY <1>8, <1>9, FS_Subset, FS_CardinalityType
<1>11. \/ faults' = faults + 1
       \/ faults' = faults /\ g \in L
       \/ faults' = faults /\ a = 1
    <2>1. CASE c.overdue
        BY <1>1, <1>6, <2>1 DEF Late
    <2>2. CASE ~c.overdue /\ faults' = faults
        BY <1>2, <1>7, <2>2 DEF Attended, Attends
    <2> QED
        BY <1>6, <2>1, <2>2
<1>12. a \in {0, 1} /\ Cardinality(L) \in Nat
    BY <1>4
<1> HIDE DEF L, M, a
<1>13. /\ q.attempts + Cardinality(M) <= MaxRetriesOf[k] + faults' + a
       /\ Cardinality(M) <= faults'
    BY <1>3, <1>4, <1>5, <1>10, <1>11, <1>12
<1>14. q.attempts <= MaxRetriesOf[k] + 1 + faults' /\ q.status \notin {Pending, Retrying}
    <2>1. faults' \in Nat
        BY <1>4, <1>11
    <2>2. q.attempts <= MaxRetriesOf[k] + 1 + faults'
        BY <1>3, <1>4, <1>10, <1>12, <1>13, <2>1
    <2> QED
        BY <1>3, <2>2 DEF Running, Pending, Retrying
<1> QED
    BY <1>2, <1>10, <1>13, <1>14 DEF FaultsPay, L, M, a

LEMMA BeginRunBudgetStep ==
    ASSUME JobInv, BudgetInv, NEW g \in Goroutines, BeginRun(g)
    PROVE  BudgetInv'
<1> DEFINE c == call[g]
           r == Begun(Reclaimed(c.loc, lastExec[c.msg] + 1))
           d == [c EXCEPT !.pc = "run", !.loc = NextVersion(r)]
<1>1. /\ c \in Call /\ c.pc = "begin" /\ (c.overdue => c.defers > 0) /\ review' = review
    BY CallFacts DEF BeginRun, BudgetInv, OverdueHolds, lockVars
<1>2. CASE ~Matches(c.msg, c.loc)
    <2>1. Return(g) /\ NoFault /\ rec' = rec
        BY <1>2 DEF BeginRun, NoFault, recordVars
    <2> QED
        BY <1>1, <2>1, ReturnBudgetStep
<1>3. CASE Matches(c.msg, c.loc)
    <2>1. PICK k \in Jobs : k = c.msg
        BY <1>1, <1>3, MatchedIsCurrent
    <2>2. c.loc \in Record /\ lastExec[k] + 1 \in Nat
        BY <1>1, <1>3, MatchedIsCurrent DEF JobInv, TypeOK
    <2>3. r \in Record /\ r.version = c.loc.version
        BY <2>1, <2>2, BeginFields
    <2>4. Store(k, r) /\ FaultsPay(k)'
        BY <1>3, <2>1, BeginRunPays DEF BeginRun
    <2>5. PICK e \in {d, Returned(c)} : GoesOn(g, e)
        BY <1>3 DEF BeginRun, Return
    <2>6. /\ e.pc \notin Early /\ (e.pc # "idle" => e.msg = k) /\ (e.overdue => e.defers > 0)
        <3>1. CASE e = d
            BY <1>1, <2>1, <3>1 DEF Call, Early
        <3>2. CASE e = Returned(c)
            BY <1>1, <2>1, <3>2 DEF Call, Early, Returned, Idle
        <3> QED
            BY <2>5, <3>1, <3>2
    <2>7. Fault \/ NoFault
        BY <1>3 DEF BeginRun
    <2> HIDE DEF r
    <2> QED
        BY <1>1, <1>3, <2>1, <2>3, <2>4, <2>5, <2>6, <2>7, StoreBudgetStep
<1> QED
    BY <1>2, <1>3

LEMMA FinishRunBudgetStep ==
    ASSUME JobInv, BudgetInv, NEW g \in Goroutines, FinishRun(g)
    PROVE  BudgetInv'
<1> DEFINE c == call[g]
           r == Settled(c.msg, c.loc, c.outcome, lastExec[c.msg] + 1)
<1>1. /\ c \in Call /\ c.pc = "finish" /\ (c.overdue => c.defers > 0) /\ review' = review
      /\ c.outcome \in Outcomes /\ c.loc # NoRecord
    BY CallFacts DEF FinishRun, BudgetInv, OverdueHolds, lockVars, Call, CallInv, Shape
<1>2. CASE ~Matches(c.msg, c.loc)
    <2>1. Return(g) /\ NoFault /\ rec' = rec
        BY <1>2 DEF FinishRun, NoFault, recordVars
    <2>2. c.loc # rec[c.msg]
        BY <1>1, <1>2 DEF Matches
    <2> QED
        BY <1>1, <2>1, <2>2, ReturnBudgetStep
<1>3. CASE Matches(c.msg, c.loc)
    <2>1. PICK k \in Jobs : k = c.msg
        BY <1>1, <1>3, MatchedIsCurrent
    <2>2. c.loc \in Record /\ lastExec[k] + 1 \in Nat /\ rec[k] = c.loc
        BY <1>1, <1>3, <2>1, MatchedIsCurrent DEF JobInv, TypeOK
    <2>3. r \in Record /\ r.version = c.loc.version
        BY <1>1, <2>1, <2>2, SettledFields
    <2>4. Store(k, r) /\ (Fault \/ NoFault)
        BY <1>3, <2>1 DEF FinishRun
    <2>5. PICK e \in {Returned(c), [c EXCEPT !.pc = "deadletter"], [c EXCEPT !.pc = "ack"]} :
             GoesOn(g, e)
        BY <1>3 DEF FinishRun, Return, AfterFinish
    <2>6. /\ e.pc \notin Early /\ (e.pc # "idle" => e.msg = k) /\ (e.overdue => e.defers > 0)
        <3>1. CASE e = Returned(c)
            BY <1>1, <2>1, <3>1 DEF Call, Early, Returned, Idle
        <3>2. CASE e # Returned(c)
            BY <1>1, <2>1, <2>5, <3>2 DEF Call, Early
        <3> QED
            BY <3>1, <3>2
    <2>7. FaultsPay(k)'
        <3> DEFINE n == NextVersion(r)
        <3>1. rec'[k] = n
            BY <2>2, <2>4 DEF Store, JobInv, TypeOK
        <3>2. /\ n.attempts = c.loc.attempts /\ n.status \notin {Pending, Running}
              /\ n.status = Retrying => c.loc.attempts <= MaxRetriesOf[k]
            BY <1>1, <2>1, <2>2, SettledAttempts
        <3> HIDE DEF n
        <3>3. /\ MaxRetriesOf[k] \in Nat /\ faults \in Nat /\ faults' \in Nat
              /\ faults <= faults' /\ c.loc.attempts \in Nat
            BY <2>2, <2>4, JobAssumption DEF JobInv, TypeOK, Record, Fault, NoFault
        <3>4. FaultsPay(k) /\ c.loc.attempts <= MaxRetriesOf[k] + 1 + faults
            BY <1>1, <2>2 DEF BudgetInv, FaultsPay
        <3>5. Late(k)' \subseteq Late(k)
            BY <2>5, <2>6, GoesTo DEF Late, Early
        <3>6. /\ IsFiniteSet(Late(k)') /\ Cardinality(Late(k)') \in Nat
              /\ Cardinality(Late(k)') <= Cardinality(Late(k)) /\ Cardinality(Late(k)) \in Nat
              /\ Cardinality(Late(k)) <= faults
            BY <3>4, <3>5, FS_Subset, FS_CardinalityType DEF FaultsPay
        <3>7. Cardinality(Late(k)') <= faults' /\ n.attempts <= MaxRetriesOf[k] + 1 + faults'
            BY <3>3, <3>2, <3>4, <3>6
        <3> QED
            BY <3>1, <3>2, <3>6, <3>7 DEF FaultsPay
    <2> HIDE DEF r
    <2> QED
        BY <1>1, <1>3, <2>1, <2>3, <2>4, <2>5, <2>6, <2>7, StoreBudgetStep
<1> QED
    BY <1>2, <1>3

-----------------------------------------------------------------------------
LEMMA InitBudget == Init => BudgetInv
<1> SUFFICES ASSUME Init PROVE BudgetInv
    OBVIOUS
<1>1. \A j \in Jobs : Late(j) = {} /\ rec[j] = NoRecord
    BY DEF Init, Late, Idle
<1>2. IsFiniteSet({}) /\ Cardinality({}) = 0
    BY FS_EmptySet
<1>3. \A g \in Goroutines : call[g].pc = "idle" /\ ~call[g].overdue
    BY DEF Init, Idle
<1>4. faults = 0
    BY DEF Init
<1>5. OverdueHolds /\ BeginsUnattended
    BY <1>3 DEF OverdueHolds, BeginsUnattended, Attends
<1>6. ASSUME NEW j \in Jobs PROVE FaultsPay(j)
    BY <1>1, <1>2, <1>4 DEF FaultsPay
<1> QED
    BY <1>5, <1>6 DEF BudgetInv

LEMMA BudgetStep == JobInv /\ BudgetInv /\ [Next]_vars => BudgetInv'
<1> SUFFICES ASSUME JobInv, BudgetInv, [Next]_vars PROVE BudgetInv'
    OBVIOUS
<1>1. ASSUME NEW j \in Jobs, ExpireClaim(j) \/ Elapse(j) PROVE BudgetInv'
    BY <1>1, QuietBudgetStep DEF ExpireClaim, Elapse, recordVars, lockVars
<1>2. ASSUME NEW r \in Reviews, ExpireReview(r) PROVE BudgetInv'
    BY <1>2, QuietBudgetStep DEF ExpireReview, recordVars, JobInv, TypeOK
<1>3. CASE ExpireSlots \/ UNCHANGED vars
    BY <1>3, QuietBudgetStep DEF ExpireSlots, vars, recordVars, lockVars
<1> QED
    BY <1>1, <1>2, <1>3, SubmitBudgetStep, ExpireRecordBudgetStep, FirstBudgetSteps,
       LastBudgetSteps, ClaimReviewBudgetStep, BeginRunBudgetStep, FinishRunBudgetStep,
       StallBudgetStep, CrashBudgetStep
       DEF Next, Step, Failure

(* MaxRetries bounds the attempts of a job up to one more per fault: a     *)
(* RUNNING record is reclaimed, past the check of MaxRetries in process(), *)
(* only after a crash, a stall or a lost call has left it unattended.      *)
THEOREM RetriesAreBudgeted == Spec => []RetryBudget
<1>1. JobInv /\ BudgetInv => RetryBudget
    BY DEF BudgetInv, FaultsPay, RetryBudget
<1> QED
    BY <1>1, InitBudget, BudgetStep, JobInvHolds, PTL DEF Spec
=============================================================================

------------------------------ MODULE JobService ------------------------------
(***************************************************************************)
(* The asynchronous job queue of internal/job/service.go.                  *)
(*                                                                         *)
(* Submit writes a record and appends a message to a Redis stream in one   *)
(* script.  Worker goroutines take new messages with XREADGROUP, recovery  *)
(* goroutines take over pending ones with XAUTOCLAIM, and both run         *)
(* process(): claim the job, read the record, claim the review, take a     *)
(* concurrency slot, save RUNNING, run the agent, save the outcome and     *)
(* acknowledge the message.  Every Redis call is one step here, so the     *)
(* goroutines of all instances interleave between any two calls.           *)
(*                                                                         *)
(* A Redis call may fail without effect, or take effect and lose its       *)
(* reply; a goroutine may stall past the lifetime of its leases; a process *)
(* may crash; a record may outlive its time to live.  These are counted    *)
(* by "faults" and bounded by MaxFaults.                                   *)
(*                                                                         *)
(* Time is abstracted.  "elapsed" holds the jobs whose UpdatedAt is at     *)
(* least RetryBackoff (status RETRYING) or claimTTL (status RUNNING) ago;  *)
(* a lease key goes when its owner is dead or overdue.  A message may be   *)
(* idle long enough for XAUTOCLAIM at any time.  An XAUTOCLAIM batch is    *)
(* taken one message at a time: a recovery goroutine may stall between     *)
(* taking a message and looking at it for as long as a batch would take.   *)
(***************************************************************************)
EXTENDS ConcurrencySlots, Sequences

CONSTANTS
    Jobs,           \* the ids newID() gives to submitted jobs
    Workers,        \* goroutines of worker()
    Recoverers,     \* goroutines of recoverProcessing()
    Processes,      \* the goroutines of each service instance
    Reviews, ReviewOf,              \* reviewExecutionKey of each job
    Sources, SourceOf, NoSource,    \* SourceEventID of each job, or none
    ScopeOf,        \* scopeConcurrencyKey of each job
    MaxRetriesOf,   \* record.MaxRetries of each job
    MaxFaults,      \* bound on the number of faults
    NoJob, NoRecord, NoToken

Goroutines == Workers \cup Recoverers

ASSUME JobAssumption ==
    /\ Workers \cap Recoverers = {}
    /\ Processes \subseteq SUBSET Goroutines
    /\ ReviewOf \in [Jobs -> Reviews]
    /\ SourceOf \in [Jobs -> Sources \cup {NoSource}]
    /\ ScopeOf \in [Jobs -> Scopes]
    /\ MaxRetriesOf \in [Jobs -> Nat]
    /\ MaxFaults \in Nat
    /\ NoSource \notin Sources
    /\ NoJob \notin Jobs
    /\ NoToken \notin Tokens

VARIABLES
    rec,         \* the record stored under each job key
    created,     \* job ids handed out by Submit
    elapsed,     \* jobs whose record has waited long enough since UpdatedAt
    source,      \* the job each source-event key points to
    stream,      \* messages not yet delivered to the consumer group
    pending,     \* messages delivered and not acknowledged
    deadLetter,  \* jobs appended to the dead-letter stream
    claim,       \* token under each job's claim key
    review,      \* token under each review's execution key
    lastExec,    \* number of execution ids generated for each job
    started,     \* execution ids with which RunExecution has been called
    call,        \* what each goroutine is executing
    faults

recordVars == <<rec, created, elapsed, source, lastExec>>
queueVars == <<stream, pending, deadLetter>>
lockVars == <<claim, review>>
vars == <<recordVars, queueVars, lockVars, slotVars, started, call, faults>>

-----------------------------------------------------------------------------
(* Records.                                                                *)

Pending == "PENDING"
Running == "RUNNING"
Retrying == "RETRYING"
Succeeded == "SUCCEEDED"
Incomplete == "INCOMPLETE"
Failed == "FAILED"

Statuses == {Pending, Running, Retrying, Succeeded, Incomplete, Failed}

IsTerminal(status) == status \in {Succeeded, Incomplete, Failed}

ExecutionAttempt == [execution : Nat, parent : Nat, status : Statuses]

(* An execution id is a number in the order of generation; 0 is no id.     *)
Record == [status : Statuses, version : Nat, attempts : Nat,
           execution : Nat, parent : Nat, executions : Seq(ExecutionAttempt)]

ASSUME RecordAssumption == NoRecord \notin Record

NewRecord ==
    [status |-> Pending, version |-> 1, attempts |-> 0,
     execution |-> 1, parent |-> 0, executions |-> << >>]

FinishLatestExecution(r, status) ==
    IF r.executions = << >> THEN r
    ELSE [r EXCEPT !.executions[Len(r.executions)].status = status]

(* Faulty variant: the attempt that ends is not marked as failed.          *)
BadNextExecution(r, id) ==
    [r EXCEPT !.status = Retrying, !.parent = r.execution, !.execution = id]

(* Retries and reclaims continue under a new execution id.                 *)
NextExecution(r, id) ==
    [FinishLatestExecution(r, Failed) EXCEPT
        !.status = Retrying, !.parent = r.execution, !.execution = id]

(* Faulty variant: a reclaim goes on with the expired worker's execution.  *)
BadReclaimed(r, id) == r

(* A record read as RUNNING was left behind by an expired lease.           *)
Reclaimed(r, id) == IF r.status = Running THEN NextExecution(r, id) ELSE r

Begun(r) ==
    [r EXCEPT !.status = Running, !.attempts = @ + 1,
              !.executions = Append(@, [execution |-> r.execution, parent |-> r.parent,
                                        status |-> Running])]

(* Faulty variant: one retry more than the record allows.                  *)
BadMayRetry(j, r) == r.attempts <= MaxRetriesOf[j] + 1

MayRetry(j, r) == r.attempts <= MaxRetriesOf[j]

(* What process() stores after RunExecution has returned.                  *)
Settled(j, r, outcome, id) ==
    CASE outcome = "completed"  -> [FinishLatestExecution(r, Succeeded) EXCEPT !.status = Succeeded]
      [] outcome = "incomplete" -> [FinishLatestExecution(r, Incomplete) EXCEPT !.status = Incomplete]
      [] outcome = "error" /\ MayRetry(j, r) -> NextExecution(r, id)
      [] OTHER -> [FinishLatestExecution(r, Failed) EXCEPT !.status = Failed]

-----------------------------------------------------------------------------
(* Calls of process().                                                     *)

(* The point a goroutine has reached: the Redis call it makes next, the    *)
(* agent run, or the deferred calls it makes when it returns.              *)
Points == {"idle", "fetch", "claim", "get", "review", "slot", "begin", "run",
           "finish", "deadletter", "ack", "return"}

Outcomes == {"none", "completed", "incomplete", "error"}

(* loc is the goroutine's copy of the record as last read or saved; defers *)
(* counts the deferred releases (1: claim, 2: review, 3: slot).            *)
Call == [pc : Points, msg : Jobs \cup {NoJob}, token : Tokens \cup {NoToken},
         defers : 0 .. 3, loc : Record \cup {NoRecord}, outcome : Outcomes,
         cancelled : BOOLEAN, overdue : BOOLEAN]

Idle == [pc |-> "idle", msg |-> NoJob, token |-> NoToken, defers |-> 0,
         loc |-> NoRecord, outcome |-> "none", cancelled |-> FALSE, overdue |-> FALSE]

Taken(pc, j) == [Idle EXCEPT !.pc = pc, !.msg = j]

Returned(c) == IF c.defers = 0 THEN Idle ELSE [c EXCEPT !.pc = "return"]

GoesOn(g, c) == call' = [call EXCEPT ![g] = c]

At(g, pc) == GoesOn(g, [call[g] EXCEPT !.pc = pc])

Return(g) == GoesOn(g, Returned(call[g]))

TokenInUse(t) ==
    \/ InSlots(t)
    \/ \E j \in Jobs : claim[j] = t
    \/ \E r \in Reviews : review[r] = t
    \/ \E g \in Goroutines : call[g].token = t

FreeTokens == {t \in Tokens : ~TokenInUse(t)}

Fault == faults < MaxFaults /\ faults' = faults + 1

NoFault == UNCHANGED faults

(* There is something left to do for the job.                              *)
Open(j) == rec[j] # NoRecord /\ ~IsTerminal(rec[j].status)

TypeOK ==
    /\ SlotTypeOK
    /\ rec \in [Jobs -> Record \cup {NoRecord}]
    /\ created \in SUBSET Jobs
    /\ elapsed \in SUBSET Jobs
    /\ source \in [Sources -> Jobs \cup {NoJob}]
    /\ stream \in SUBSET Jobs
    /\ pending \in SUBSET Jobs
    /\ deadLetter \in SUBSET Jobs
    /\ claim \in [Jobs -> Tokens \cup {NoToken}]
    /\ review \in [Reviews -> Tokens \cup {NoToken}]
    /\ lastExec \in [Jobs -> Nat]
    /\ started \in [Jobs -> SUBSET Nat]
    /\ call \in [Goroutines -> Call]
    /\ faults \in 0 .. MaxFaults

Init ==
    /\ SlotInit
    /\ rec = [j \in Jobs |-> NoRecord]
    /\ created = {}
    /\ elapsed = {}
    /\ source = [e \in Sources |-> NoJob]
    /\ stream = {}
    /\ pending = {}
    /\ deadLetter = {}
    /\ claim = [j \in Jobs |-> NoToken]
    /\ review = [r \in Reviews |-> NoToken]
    /\ lastExec = [j \in Jobs |-> 0]
    /\ started = [j \in Jobs |-> {}]
    /\ call = [g \in Goroutines |-> Idle]
    /\ faults = 0

-----------------------------------------------------------------------------
(* Submitting.                                                             *)

(* createJobScript finds the source event taken by a job that still exists. *)
DuplicateOf(j) ==
    /\ SourceOf[j] # NoSource
    /\ source[SourceOf[j]] # NoJob
    /\ rec[source[SourceOf[j]]] # NoRecord

(* Submit and createJobScript.  A request that fails validation, repeats a *)
(* source event or loses its call to Redis changes nothing; one whose      *)
(* reply is lost has the effect of this step.                              *)
Submit(j) ==
    /\ j \notin created
    /\ ~DuplicateOf(j)
    /\ created' = created \cup {j}
    /\ rec' = [rec EXCEPT ![j] = NewRecord]
    /\ lastExec' = [lastExec EXCEPT ![j] = 1]
    /\ source' = IF SourceOf[j] = NoSource THEN source
                 ELSE [source EXCEPT ![SourceOf[j]] = j]
    /\ stream' = stream \cup {j}
    /\ UNCHANGED <<elapsed, pending, deadLetter, lockVars, slotVars, started, call, faults>>

-----------------------------------------------------------------------------
(* Taking messages.  A delivery whose reply is lost is Deliver followed by *)
(* CallFails.                                                              *)

(* worker(): XREADGROUP with count 1.                                      *)
Deliver(g, j) ==
    /\ g \in Workers
    /\ call[g].pc = "idle"
    /\ j \in stream
    /\ stream' = stream \ {j}
    /\ pending' = pending \cup {j}
    /\ GoesOn(g, Taken("claim", j))
    /\ UNCHANGED <<recordVars, deadLetter, lockVars, slotVars, started, faults>>

(* recoverProcessingOnce(): XAUTOCLAIM of a message idle for RetryBackoff. *)
AutoClaim(g, j) ==
    /\ g \in Recoverers
    /\ call[g].pc = "idle"
    /\ j \in pending
    /\ GoesOn(g, Taken("fetch", j))
    /\ UNCHANGED <<recordVars, queueVars, lockVars, slotVars, started, faults>>

(* Faulty variant: recovery never looks at a RUNNING record again.         *)
BadRecoverFetch(g) ==
    LET j == call[g].msg IN
    /\ call[g].pc = "fetch"
    /\ GoesOn(g, CASE ~Open(j) -> [call[g] EXCEPT !.pc = "ack"]
                   [] Open(j) /\ rec[j].status = Running -> Idle
                   [] OTHER -> [call[g] EXCEPT !.pc = "claim"])
    /\ UNCHANGED <<recordVars, queueVars, lockVars, slotVars, started, faults>>

(* recoverProcessingOnce(): the look at the record that precedes process(). *)
RecoverFetch(g) ==
    LET j == call[g].msg IN
    /\ call[g].pc = "fetch"
    /\ \/ /\ ~Open(j)
          /\ At(g, "ack")
       \/ /\ Open(j) /\ rec[j].status = Running /\ j \notin elapsed
          /\ GoesOn(g, Idle)
       \/ /\ Open(j) /\ (rec[j].status = Running => j \in elapsed)
          /\ At(g, "claim")
    /\ UNCHANGED <<recordVars, queueVars, lockVars, slotVars, started, faults>>

-----------------------------------------------------------------------------
(* process(), up to the agent run.                                         *)

(* SETNX of the claim key.                                                 *)
ClaimJob(g) ==
    LET j == call[g].msg IN
    /\ call[g].pc = "claim"
    /\ \/ /\ claim[j] = NoToken
          /\ FreeTokens # {}
          /\ LET t == CHOOSE t \in FreeTokens : TRUE IN
                /\ claim' = [claim EXCEPT ![j] = t]
                /\ \/ /\ GoesOn(g, [call[g] EXCEPT !.pc = "get", !.token = t, !.defers = 1])
                      /\ NoFault
                   \/ Return(g) /\ Fault
       \/ /\ claim[j] # NoToken
          /\ Return(g)
          /\ UNCHANGED <<claim, faults>>
    /\ UNCHANGED <<recordVars, queueVars, review, slotVars, started>>

(* Get and the conditions on the record that follow it.                    *)
GetRecord(g) ==
    LET j == call[g].msg IN
    /\ call[g].pc = "get"
    /\ \/ /\ ~Open(j)
          /\ At(g, "ack")
       \/ /\ Open(j) /\ rec[j].status = Retrying /\ j \notin elapsed
          /\ Return(g)
       \/ /\ Open(j) /\ (rec[j].status = Retrying => j \in elapsed)
          /\ GoesOn(g, [call[g] EXCEPT !.pc = "review", !.loc = rec[j]])
    /\ UNCHANGED <<recordVars, queueVars, lockVars, slotVars, started, faults>>

(* SETNX of the review's execution key.                                    *)
ClaimReview(g) ==
    LET r == ReviewOf[call[g].msg] IN
    /\ call[g].pc = "review"
    /\ \/ /\ review[r] = NoToken
          /\ review' = [review EXCEPT ![r] = call[g].token]
          /\ \/ GoesOn(g, [call[g] EXCEPT !.pc = "slot", !.defers = 2]) /\ NoFault
             \/ Return(g) /\ Fault
       \/ /\ review[r] # NoToken
          /\ Return(g)
          /\ UNCHANGED <<review, faults>>
    /\ UNCHANGED <<recordVars, queueVars, claim, slotVars, started>>

AcquireConcurrency(g) ==
    LET t == call[g].token
        s == ScopeOf[call[g].msg]
    IN
    /\ call[g].pc = "slot"
    /\ \/ /\ AcquireSlot(t, s)
          /\ GoesOn(g, [call[g] EXCEPT !.pc = "begin", !.defers = 3])
          /\ NoFault
       \/ AcquireSlotUnanswered(t, s) /\ Return(g) /\ Fault
       \/ RefuseSlot(s) /\ Return(g) /\ NoFault
    /\ UNCHANGED <<recordVars, queueVars, lockVars, started>>

-----------------------------------------------------------------------------
(* save(): compare-and-set on the version.                                 *)

(* Faulty variant: the stored version is not compared.                     *)
BadMatches(j, r) == rec[j] # NoRecord

Matches(j, r) == rec[j] # NoRecord /\ rec[j].version = r.version

NextVersion(r) == [r EXCEPT !.version = @ + 1]

(* saveJobScript, answer 1: the record, and the source-event key when this *)
(* job owns it or nobody does.                                             *)
Store(j, r) ==
    /\ rec' = [rec EXCEPT ![j] = NextVersion(r)]
    /\ elapsed' = elapsed \ {j}
    /\ source' = IF SourceOf[j] # NoSource /\ source[SourceOf[j]] \in {NoJob, j}
                 THEN [source EXCEPT ![SourceOf[j]] = j]
                 ELSE source
    /\ lastExec' = [lastExec EXCEPT ![j] = IF r.execution > @ THEN r.execution ELSE @]
    /\ UNCHANGED created

(* Save RUNNING with one more attempt, then call RunExecution.             *)
BeginRun(g) ==
    LET c == call[g]
        j == c.msg
        r == Begun(Reclaimed(c.loc, lastExec[j] + 1))
    IN
    /\ c.pc = "begin"
    /\ \/ /\ Matches(j, c.loc)
          /\ Store(j, r)
          /\ \/ /\ GoesOn(g, [c EXCEPT !.pc = "run", !.loc = NextVersion(r)])
                /\ started' = [started EXCEPT ![j] = @ \cup {r.execution}]
                /\ NoFault
             \/ Return(g) /\ Fault /\ UNCHANGED started
       \/ /\ ~Matches(j, c.loc)
          /\ Return(g)
          /\ UNCHANGED <<recordVars, started, faults>>
    /\ UNCHANGED <<queueVars, lockVars, slotVars>>

-----------------------------------------------------------------------------
(* The agent run and its leases.                                           *)

OwnsLeases(g) ==
    LET c == call[g] IN
    /\ claim[c.msg] = c.token
    /\ review[ReviewOf[c.msg]] = c.token
    /\ c.token \in global

(* startLeaseRenewal(): a tick renews the claim, the review and the slot,  *)
(* or cancels the run's context.                                           *)
RenewLeases(g) ==
    /\ call[g].pc = "run"
    /\ ~call[g].cancelled
    /\ \/ /\ OwnsLeases(g)
          /\ RenewSlot(call[g].token)
          /\ GoesOn(g, [call[g] EXCEPT !.overdue = FALSE])
          /\ NoFault
       \/ /\ ~OwnsLeases(g)
          /\ GoesOn(g, [call[g] EXCEPT !.cancelled = TRUE])
          /\ UNCHANGED <<slotVars, faults>>
       \/ /\ GoesOn(g, [call[g] EXCEPT !.cancelled = TRUE])
          /\ Fault
          /\ UNCHANGED slotVars
    /\ UNCHANGED <<recordVars, queueVars, lockVars, started>>

(* RunExecution returns: with a result, complete or not, or with an error, *)
(* which is all that is left once the context is cancelled.  RunTimeout    *)
(* ends every run.                                                         *)
RunReturns(g) ==
    /\ call[g].pc = "run"
    /\ \E o \in Outcomes \ {"none"} :
          /\ call[g].cancelled => o = "error"
          /\ GoesOn(g, [call[g] EXCEPT !.pc = "finish", !.outcome = o])
    /\ UNCHANGED <<recordVars, queueVars, lockVars, slotVars, started, faults>>

-----------------------------------------------------------------------------
(* process(), after the agent run.                                         *)

(* Faulty variant: every failed attempt is reported as a dead letter.      *)
BadAfterFinish(c, r) ==
    [c EXCEPT !.pc = IF r.status \in {Retrying, Failed} THEN "deadletter" ELSE "ack"]

(* Where process() goes once the outcome is stored.                        *)
AfterFinish(c, r) ==
    CASE r.status = Retrying -> Returned(c)
      [] r.status = Failed   -> [c EXCEPT !.pc = "deadletter"]
      [] OTHER               -> [c EXCEPT !.pc = "ack"]

FinishRun(g) ==
    LET c == call[g]
        j == c.msg
        r == Settled(j, c.loc, c.outcome, lastExec[j] + 1)
    IN
    /\ c.pc = "finish"
    /\ \/ /\ Matches(j, c.loc)
          /\ Store(j, r)
          /\ \/ GoesOn(g, AfterFinish(c, r)) /\ NoFault
             \/ Return(g) /\ Fault
       \/ /\ ~Matches(j, c.loc)
          /\ Return(g)
          /\ UNCHANGED <<recordVars, faults>>
    /\ UNCHANGED <<queueVars, lockVars, slotVars, started>>

(* XADD to the dead-letter stream; its error is only logged.               *)
WriteDeadLetter(g) ==
    /\ call[g].pc = "deadletter"
    /\ At(g, "ack")
    /\ \/ deadLetter' = deadLetter \cup {call[g].msg} /\ NoFault
       \/ UNCHANGED deadLetter /\ Fault
    /\ UNCHANGED <<recordVars, stream, pending, lockVars, slotVars, started>>

AckMessage(g) ==
    /\ call[g].pc = "ack"
    /\ pending' = pending \ {call[g].msg}
    /\ Return(g)
    /\ UNCHANGED <<recordVars, stream, deadLetter, lockVars, slotVars, started, faults>>

(* Faulty variant: DEL without comparing the token.                        *)
BadReleased(lock, key, t) == [lock EXCEPT ![key] = NoToken]

(* releaseTokenScript: delete a key only if it still has the token.        *)
Released(lock, key, t) ==
    [lock EXCEPT ![key] = IF @ = t THEN NoToken ELSE @]

(* The deferred calls run last in, first out.                              *)
DropDefer(g) ==
    GoesOn(g, IF call[g].defers = 1 THEN Idle ELSE [call[g] EXCEPT !.defers = @ - 1])

ReleaseNext(g) ==
    LET c == call[g] IN
    /\ c.pc = "return"
    /\ DropDefer(g)
    /\ CASE c.defers = 3 -> ReleaseSlot(c.token) /\ UNCHANGED lockVars
         [] c.defers = 2 -> /\ review' = Released(review, ReviewOf[c.msg], c.token)
                            /\ UNCHANGED <<claim, slotVars>>
         [] OTHER        -> /\ claim' = Released(claim, c.msg, c.token)
                            /\ UNCHANGED <<review, slotVars>>
    /\ UNCHANGED <<recordVars, queueVars, started, faults>>

-----------------------------------------------------------------------------
(* Failures.                                                               *)

(* Faulty variant: the message is acknowledged although the call failed.   *)
BadCallFails(g) ==
    /\ call[g].pc \in {"fetch", "claim", "get", "review", "slot", "begin", "finish", "ack"}
    /\ Fault
    /\ Return(g)
    /\ pending' = pending \ {call[g].msg}
    /\ UNCHANGED <<recordVars, stream, deadLetter, lockVars, slotVars, started>>

(* A call that reaches Redis in vain: process() returns on the error, and  *)
(* a failed XACK is only logged just before it returns.                    *)
CallFails(g) ==
    /\ call[g].pc \in {"fetch", "claim", "get", "review", "slot", "begin", "finish", "ack"}
    /\ Fault
    /\ Return(g)
    /\ UNCHANGED <<recordVars, queueVars, lockVars, slotVars, started>>

(* A deferred release that fails is logged; the key or slot stays.         *)
ReleaseFails(g) ==
    /\ call[g].pc = "return"
    /\ Fault
    /\ DropDefer(g)
    /\ IF call[g].defers = 3 THEN AbandonSlots({call[g].token}) ELSE UNCHANGED slotVars
    /\ UNCHANGED <<recordVars, queueVars, lockVars, started>>

(* A goroutine is held up for longer than claimTTL since its last renewal. *)
Stall(g) ==
    /\ call[g].defers > 0
    /\ ~call[g].overdue
    /\ Fault
    /\ GoesOn(g, [call[g] EXCEPT !.overdue = TRUE])
    /\ UNCHANGED <<recordVars, queueVars, lockVars, slotVars, started>>

(* All goroutines of an instance die; its successor starts them anew.      *)
Crash(P) ==
    /\ \E g \in P : call[g] # Idle
    /\ Fault
    /\ call' = [g \in Goroutines |-> IF g \in P THEN Idle ELSE call[g]]
    /\ AbandonSlots({t \in Tokens : \E g \in P : call[g].token = t})
    /\ UNCHANGED <<recordVars, queueVars, lockVars, started>>

-----------------------------------------------------------------------------
(* The passing of time in Redis.                                           *)

(* Faulty variant: keys are written without a time to live.                *)
BadMayExpire(t) == FALSE

MayExpire(t) ==
    /\ t # NoToken
    /\ \A g \in Goroutines : call[g].token = t => call[g].overdue

ExpireClaim(j) ==
    /\ MayExpire(claim[j])
    /\ claim' = [claim EXCEPT ![j] = NoToken]
    /\ UNCHANGED <<recordVars, queueVars, review, slotVars, started, call, faults>>

ExpireReview(r) ==
    /\ MayExpire(review[r])
    /\ review' = [review EXCEPT ![r] = NoToken]
    /\ UNCHANGED <<recordVars, queueVars, claim, slotVars, started, call, faults>>

ExpireSlots ==
    /\ \/ \E t \in Tokens : MayExpire(t) /\ Lapse(t)
       \/ ExpireGlobalKey
       \/ \E s \in Scopes : ExpireScopeKey(s)
    /\ UNCHANGED <<recordVars, queueVars, lockVars, started, call, faults>>

(* RetryBackoff or claimTTL has passed since UpdatedAt.                    *)
Elapse(j) ==
    /\ rec[j] # NoRecord
    /\ rec[j].status \in {Running, Retrying}
    /\ j \notin elapsed
    /\ elapsed' = elapsed \cup {j}
    /\ UNCHANGED <<rec, created, source, lastExec, queueVars, lockVars, slotVars, started, call, faults>>

(* JobTTL ends: the record goes, and with it the source-event key that was *)
(* last written by the same script.                                        *)
ExpireRecord(j) ==
    /\ rec[j] # NoRecord
    /\ Fault
    /\ rec' = [rec EXCEPT ![j] = NoRecord]
    /\ elapsed' = elapsed \ {j}
    /\ source' = [e \in Sources |-> IF source[e] = j THEN NoJob ELSE source[e]]
    /\ UNCHANGED <<created, lastExec, queueVars, lockVars, slotVars, started, call>>

-----------------------------------------------------------------------------
Step(g) ==
    \/ RecoverFetch(g) \/ ClaimJob(g) \/ GetRecord(g) \/ ClaimReview(g)
    \/ AcquireConcurrency(g) \/ BeginRun(g) \/ RunReturns(g) \/ FinishRun(g)
    \/ WriteDeadLetter(g) \/ AckMessage(g) \/ ReleaseNext(g)

Failure(g) == CallFails(g) \/ ReleaseFails(g) \/ Stall(g)

Next ==
    \/ \E j \in Jobs : Submit(j)
    \/ \E g \in Goroutines, j \in Jobs : Deliver(g, j) \/ AutoClaim(g, j)
    \/ \E g \in Goroutines : Step(g) \/ RenewLeases(g) \/ Failure(g)
    \/ \E P \in Processes : Crash(P)
    \/ \E j \in Jobs : ExpireClaim(j) \/ Elapse(j) \/ ExpireRecord(j)
    \/ \E r \in Reviews : ExpireReview(r)
    \/ ExpireSlots

Spec == Init /\ [][Next]_vars

-----------------------------------------------------------------------------
(* Safety.                                                                 *)

(* A message is given up only when its job is settled: as long as the      *)
(* record is not terminal, the stream or the group's pending list still    *)
(* has the message from which process() or recoverProcessing() can resume. *)
NoMessageLoss ==
    \A j \in Jobs : Open(j) => j \in stream \cup pending

(* Two agents work on one review at a time only if one of them has         *)
(* overrun its leases: nobody is deprived of claim or review key by        *)
(* another goroutine's SETNX or by another's late releaseToken.            *)
ReviewExclusion ==
    \A g, h \in Goroutines :
        /\ g # h
        /\ call[g].pc = "run" /\ call[h].pc = "run"
        /\ ReviewOf[call[g].msg] = ReviewOf[call[h].msg]
        => call[g].overdue \/ call[h].overdue

(* GlobalConcurrency and ScopeConcurrency bound the agents that run, not   *)
(* just the members of the sorted sets, save for goroutines that overran   *)
(* their leases.                                                           *)
RunsWithinLimits ==
    LET running == {g \in Goroutines : call[g].pc = "run" /\ ~call[g].overdue} IN
    /\ Cardinality(running) <= GlobalConcurrency
    /\ \A s \in Scopes :
          Cardinality({g \in running : ScopeOf[call[g].msg] = s}) <= ScopeConcurrency

(* A copy of the record with the stored version has the stored content, so *)
(* the compare-and-set of save() never overwrites an update unseen.        *)
Current(c) ==
    c.loc # NoRecord /\ rec[c.msg] # NoRecord =>
        /\ c.loc.version <= rec[c.msg].version
        /\ c.loc.version = rec[c.msg].version => c.loc = rec[c.msg]

VersionIdentifiesRecord == \A g \in Goroutines : Current(call[g])

(* The execution history of a record is a chain: every attempt but the     *)
(* last one failed, its successor names it as parent, the last one has the *)
(* status the record reports, and attempts counts them.                    *)
HistoryIsChain(r) ==
    LET n == Len(r.executions) IN
    /\ r.attempts = n
    /\ \A i \in 1 .. n - 1 :
          /\ r.executions[i].status = Failed
          /\ r.executions[i + 1].parent = r.executions[i].execution
    /\ r.status = Pending <=> n = 0
    /\ n > 0 => r.executions[n].status = (IF r.status = Retrying THEN Failed ELSE r.status)
    /\ n > 0 => (IF r.status = Retrying THEN r.parent ELSE r.execution)
                    = r.executions[n].execution

ExecutionHistory == \A j \in Jobs : rec[j] # NoRecord => HistoryIsChain(rec[j])

(* More attempts than MaxRetries + 1 need a fault each: the reclaim of a   *)
(* RUNNING record is not limited by MaxRetries but cannot happen unless an *)
(* instance crashed, stalled or lost a call.                               *)
RetryBudget ==
    \A j \in Jobs : rec[j] # NoRecord => rec[j].attempts <= MaxRetriesOf[j] + 1 + faults

(* The dead-letter stream reports only jobs whose stored status is FAILED  *)
(* for good.                                                               *)
DeadLettersFailed ==
    \A j \in deadLetter : rec[j] = NoRecord \/ rec[j].status = Failed

(* RunExecution is called at most once with an execution id, so a retry    *)
(* never continues the memory of a failed execution.                       *)
FreshExecution ==
    [][\A g \in Goroutines :
          call[g].pc # "run" /\ call'[g].pc = "run" =>
              call'[g].loc.execution \notin started[call[g].msg]]_vars

(* A settled record never changes again, until it expires.                 *)
TerminalIsFinal ==
    [][\A j \in Jobs :
          rec[j] # NoRecord /\ IsTerminal(rec[j].status) => rec'[j] \in {rec[j], NoRecord}]_vars

-----------------------------------------------------------------------------
(* The inductive strengthening behind the safety properties above.         *)

(* What a call of process() holds at each point.                           *)
Shape(c) ==
    /\ c.pc = "idle" => c = Idle
    /\ c.pc # "idle" => c.msg \in created
    /\ c.pc \in {"fetch", "claim"} => c.defers = 0
    /\ c.pc \in {"get", "review"} => c.defers = 1
    /\ c.pc = "slot" => c.defers = 2
    /\ c.pc \in {"begin", "run", "finish", "deadletter"} => c.defers = 3
    /\ c.pc = "return" => c.defers > 0
    /\ c.defers > 0 <=> c.token # NoToken
    /\ c.pc \in {"review", "slot", "begin", "run", "finish", "deadletter"} => c.loc # NoRecord
    /\ c.loc # NoRecord => ~IsTerminal(c.loc.status)
    /\ c.pc \in {"run", "finish"} => c.loc.status = Running
    /\ c.pc = "finish" => c.outcome # "none"
    /\ c.pc \in {"ack", "deadletter"} => ~Open(c.msg)

CallShape == \A g \in Goroutines : Shape(call[g])

(* Messages exist only for submitted jobs.                                 *)
QueueShape ==
    /\ stream \cup pending \subseteq created
    /\ \A j \in Jobs \ created : rec[j] = NoRecord /\ started[j] = {}

(* Ids are generated in order, and one not yet begun has not been used.    *)
ExecutionIds ==
    \A j \in Jobs :
        /\ started[j] \subseteq 0 .. lastExec[j]
        /\ rec[j] # NoRecord =>
              /\ rec[j].execution <= lastExec[j]
              /\ rec[j].status \in {Pending, Retrying} => rec[j].execution \notin started[j]

(* A call that is not overdue has the keys it will release.                *)
Leased(c) ==
    ~c.overdue =>
        /\ c.defers >= 1 => claim[c.msg] = c.token
        /\ c.defers >= 2 => review[ReviewOf[c.msg]] = c.token

LeaseOwnership == \A g \in Goroutines : Leased(call[g])

UniqueTokens ==
    \A g, h \in Goroutines :
        g # h /\ call[g].token # NoToken => call[g].token # call[h].token

JobInv ==
    /\ TypeOK
    /\ CallShape
    /\ QueueShape
    /\ VersionIdentifiesRecord
    /\ ExecutionIds
    /\ UniqueTokens
    /\ LeaseOwnership
    /\ NoMessageLoss

(* How a call of process() uses the semaphore: it asks for a slot with a   *)
(* token that no set has, knows its slot as long as the release is         *)
(* deferred, and has it unless it overran its leases.                      *)
SlotOfCall(c) ==
    /\ c.pc \in {"get", "review", "slot"} => ~InSlots(c.token)
    /\ c.defers = 3 => holding[c.token] = ScopeOf[c.msg]
    /\ c.defers = 3 /\ ~c.overdue => c.token \in global /\ c.token \notin lapsed

SlotUse ==
    /\ SlotInv
    /\ \A g \in Goroutines : SlotOfCall(call[g])
    /\ \A t \in Tokens : holding[t] # NoScope =>
          \E g \in Goroutines : call[g].token = t /\ call[g].defers = 3

(* What RetryBudget rests on: every fault pays for one attempt.            *)

(* Calls that overran their leases before they could begin a run.          *)
Late(j) ==
    {g \in Goroutines : /\ call[g].msg = j /\ call[g].overdue
                        /\ call[g].pc \in {"get", "review", "slot", "begin"}}

(* The stored record is the one this call began.                           *)
Attends(g, j) == call[g].pc \in {"run", "finish"} /\ call[g].msg = j /\ call[g].loc = rec[j]

Attended(j) == \E g \in Goroutines : Attends(g, j) /\ ~call[g].overdue

(* A call that is about to begin a run has not read the record of one that *)
(* still has the review's key.                                             *)
BeginsUnattended ==
    \A j \in Jobs : \A g, h \in Goroutines :
        /\ Attends(g, j) /\ review[ReviewOf[j]] = call[g].token
        /\ call[h].msg = j /\ call[h].pc \in {"slot", "begin"}
        => call[h].loc # rec[j]

(* A RUNNING record that nobody attends has cost a fault, and each late    *)
(* call another one.                                                       *)
FaultsPay(j) ==
    /\ IsFiniteSet(Late(j)) /\ Cardinality(Late(j)) <= faults
    /\ rec[j] # NoRecord =>
          /\ rec[j].status \in {Pending, Retrying} => rec[j].attempts <= MaxRetriesOf[j]
          /\ rec[j].status = Running =>
                rec[j].attempts + Cardinality(Late(j))
                    <= MaxRetriesOf[j] + faults + (IF Attended(j) THEN 1 ELSE 0)
          /\ rec[j].attempts <= MaxRetriesOf[j] + 1 + faults

(* Only a call that holds a lease can overrun it.                          *)
OverdueHolds == \A g \in Goroutines : call[g].overdue => call[g].defers > 0

BudgetInv == OverdueHolds /\ BeginsUnattended /\ \A j \in Jobs : FaultsPay(j)

-----------------------------------------------------------------------------
(* The abstract job that callers observe.                                  *)

Observed(r) ==
    IF r = NoRecord THEN NoRecord
    ELSE [status |-> r.status,
          runs |-> [i \in 1 .. Len(r.executions) |-> r.executions[i].status]]

ASSUME ObservedAssumption == NoRecord \notin [status : Statuses, runs : Seq(Statuses)]

Lifecycle == INSTANCE JobLifecycle WITH
    job <- [j \in Jobs |-> Observed(rec[j])], Absent <- NoRecord

(* However goroutines interleave, stored records move as JobLifecycle says. *)
ImplementsLifecycle == Lifecycle!LifecycleSpec

-----------------------------------------------------------------------------
(* Liveness.  Goroutines and Redis make progress: worker() and             *)
(* recoverProcessing() loop for ever, every run ends by RunTimeout, lease  *)
(* keys and slots of dead owners reach their time to live, clocks advance. *)
(* XAUTOCLAIM's cursor passes over every pending message again and again,  *)
(* hence strong fairness for each job.                                     *)

Fairness ==
    /\ \A g \in Goroutines : WF_vars(Step(g))
    /\ \A g \in Workers : WF_vars(\E j \in Jobs : Deliver(g, j))
    /\ \A g \in Recoverers, j \in Jobs : SF_vars(AutoClaim(g, j))
    /\ \A j \in Jobs : WF_vars(ExpireClaim(j)) /\ WF_vars(Elapse(j))
    /\ \A r \in Reviews : WF_vars(ExpireReview(r))
    /\ WF_vars(ExpireSlots)

FairSpec == Spec /\ Fairness

Done(j) == j \notin stream \cup pending /\ ~Open(j)

(* Every submitted job reaches a terminal status (or outlives its time to  *)
(* live), and its message is acknowledged for good, whatever finitely many *)
(* crashes, lost calls and stalls happen on the way.                       *)
EventuallySettled == <>[](\A j \in created : Done(j))

(* Once the jobs are settled nobody keeps a claim, a review key or a slot, *)
(* not even for a goroutine that died, overran its leases or could not     *)
(* release: a new job would find everything free.                          *)
EventuallyReleased ==
    <>[](/\ \A j \in Jobs : claim[j] = NoToken
         /\ \A r \in Reviews : review[r] = NoToken
         /\ \A t \in Tokens : ~InSlots(t))
=============================================================================

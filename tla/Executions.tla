------------------------------ MODULE Executions ------------------------------
(***************************************************************************)
(* Several executions at once, of jobs with their retries and of           *)
(* synchronous requests, over the session store and the decision locks     *)
(* they share.                                                             *)
(*                                                                         *)
(* AgentLoop follows one execution through every stage, Finalizer one      *)
(* review through every call of Finalize.  Here an execution is reduced to *)
(* what others can see of it: the scope it keeps its records under, when   *)
(* it reads and writes them, and the review it finalizes.  The tools that  *)
(* follow the evidence, the window of the session and the error the store  *)
(* remembers are left to AgentLoop: an execution may fail at any step of   *)
(* the loop.                                                               *)
(*                                                                         *)
(* With Redis, agents in several processes share RedisStore and the locks; *)
(* the mutex of RedisStore orders the appends of one process only, so it   *)
(* gives no guarantee between executions and is left out.  Without Redis   *)
(* there is one process with an InMemoryStore, no lock and no job.         *)
(*                                                                         *)
(* Expired sessions and locks, failed writes, crashes and lost leases are  *)
(* counted by "faults" and bounded by MaxFaults.                           *)
(***************************************************************************)
EXTENDS Naturals, Sequences, FiniteSets

CONSTANTS
    Callers,      \* jobs, and requests to /agent/run
    MaxAttempts,  \* attempts a job has
    Deployments,  \* configurations an instance may run with, and what it is asked
                  \* for: the store, its limits, the attempts each caller makes, 0
                  \* if it is absent, and the execution ids callers may supply
    Names,        \* all ids callers may supply, new ones or made up by the service
    NoName,
    Reviews,
    MaxFaults,
    NoReview,
    Nobody

ASSUME ExecutionsAssumption ==
    /\ MaxAttempts \in Nat /\ MaxFaults \in Nat
    /\ Deployments \subseteq [redis : BOOLEAN, maxSessions : Nat \ {0}, maxSteps : Nat,
                             attempts : [Callers -> 0 .. MaxAttempts], names : SUBSET Names]
    /\ NoName \notin Names
    /\ NoReview \notin Reviews

(* An execution is an attempt of a caller.                                 *)
Runs == Callers \X (1 .. MaxAttempts)

ASSUME NobodyIsNoRun == Nobody \notin Runs

VARIABLES
    deployment, \* the configuration of this instance
    requested,  \* the execution id each caller has supplied
    session,    \* RecentSteps stored under each scope
    order,      \* scopes in InMemoryStore, by UpdatedAt, the oldest first
    stale,      \* scopes in InMemoryStore whose SessionTTL has passed
    run,        \* the executions
    lock,       \* the execution whose token is under each review's lock key
    wrote,      \* history: what each execution has stored, in its order
    since,      \* history: scopes written since a scope was last written
    faults

MaxSessions == deployment.maxSessions
MaxSteps == deployment.maxSteps

storeVars == <<session, order, stale, since>>
vars == <<deployment, requested, storeVars, run, lock, wrote, faults>>

-----------------------------------------------------------------------------
(* executionScopeID.  The id of a caller that supplies none is fresh, and  *)
(* so is the id of every further attempt of a job: r itself stands for it. *)
(* Callers may supply any id, one that the service made up for another     *)
(* attempt included.                                                       *)

Scopes == Names \cup Runs

(* Faulty variant: a retry keeps the execution id of its job.              *)
BadScopeOf(r) ==
    IF requested[r[1]] # NoName THEN requested[r[1]] ELSE <<r[1], 1>>

ScopeOf(r) ==
    IF r[2] = 1 /\ requested[r[1]] # NoName THEN requested[r[1]] ELSE r

-----------------------------------------------------------------------------
(* A record of a session: the execution that wrote it and, for evidence,   *)
(* its review.                                                             *)
Record == [by : Runs, review : Reviews \cup {NoReview}]

Points == {"idle", "look", "append", "save", "final", "lock", "hold", "done", "failed", "dead"}

(* An execution: where it is, its step of the loop, the record it appends  *)
(* and where it goes from there, the steps it has loaded, the review it    *)
(* finalizes, and whether it has lost the lock of that review.             *)
Run == [pc : Points, step : Nat, todo : Reviews \cup {NoReview}, then : {"look", "done", "failed"},
        loaded : Seq(Record), review : Reviews \cup {NoReview}, lost : BOOLEAN]

Idle == [pc |-> "idle", step |-> 0, todo |-> NoReview, then |-> "look",
         loaded |-> << >>, review |-> NoReview, lost |-> FALSE]

Active(r) == run[r].pc \notin {"idle", "done", "failed", "dead"}

TypeOK ==
    /\ deployment \in Deployments
    /\ requested \in [Callers -> Names \cup {NoName}]
    /\ session \in [Scopes -> Seq(Record)]
    /\ order \in Seq(Scopes)
    /\ stale \in SUBSET Scopes
    /\ run \in [Runs -> Run]
    /\ lock \in [Reviews -> Runs \cup {Nobody}]
    /\ wrote \in [Runs -> Seq(Record)]
    /\ since \in [Scopes -> SUBSET Scopes]
    /\ faults \in 0 .. MaxFaults

Init ==
    /\ deployment \in Deployments
    /\ requested \in [Callers -> deployment.names \cup {NoName}]
    /\ \A c \in Callers : deployment.attempts[c] = 0 => requested[c] = NoName
    /\ session = [k \in Scopes |-> << >>]
    /\ order = << >>
    /\ stale = {}
    /\ run = [r \in Runs |-> Idle]
    /\ lock = [x \in Reviews |-> Nobody]
    /\ wrote = [r \in Runs |-> << >>]
    /\ since = [k \in Scopes |-> {}]
    /\ faults = 0

Faults(n) == faults + n <= MaxFaults /\ faults' = faults + n

Fault == Faults(1)

Becomes(r, new) == run' = [run EXCEPT ![r] = new]

At(r, pc) == Becomes(r, [run[r] EXCEPT !.pc = pc])

(* An execution ends, and with it what is remembered of it.                *)
Ends(r, pc) ==
    /\ Becomes(r, [Idle EXCEPT !.pc = pc])
    /\ wrote' = [wrote EXCEPT ![r] = << >>]

-----------------------------------------------------------------------------
(* The session store.                                                      *)

(* Faulty variant: a session that is written again keeps its place.        *)
BadTouched(k) ==
    IF \E i \in 1 .. Len(order) : order[i] = k THEN order ELSE Append(order, k)

(* The map holds a scope at most once.                                     *)
Without(keys, k) ==
    LET at == {i \in 1 .. Len(keys) : keys[i] = k}
        place == CHOOSE i \in at : TRUE
    IN  IF at = {} THEN keys
        ELSE [i \in 1 .. Len(keys) - 1 |-> keys[IF i < place THEN i ELSE i + 1]]

(* UpdatedAt becomes the time of the write.                                *)
Touched(k) == Append(Without(order, k), k)

(* evictIfNeeded: one session, the one written longest ago.                *)
Evicted(keys) == IF Len(keys) > MaxSessions THEN {Head(keys)} ELSE {}

(* InMemoryStore.Save and the end of InMemoryStore.AppendStep.             *)
PutInMemory(k, steps) ==
    LET gone == Evicted(Touched(k)) IN
    /\ order' = IF gone = {} THEN Touched(k) ELSE Tail(Touched(k))
    /\ session' = [s \in Scopes |-> IF s \in gone THEN << >>
                                    ELSE IF s = k THEN steps ELSE session[s]]
    /\ stale' = stale \ (gone \cup {k})
    /\ since' = [s \in Scopes |-> IF s = k THEN {} ELSE since[s] \cup {k}]

(* RedisStore.Save.                                                        *)
PutInRedis(k, steps) ==
    /\ session' = [session EXCEPT ![k] = steps]
    /\ UNCHANGED <<order, stale, since>>

Put(k, steps) ==
    IF deployment.redis THEN PutInRedis(k, steps) ELSE PutInMemory(k, steps)

(* Load.  InMemoryStore deletes a session it finds stale; RedisStore, when *)
(* the call fails, finds nothing.                                          *)
Load(k, history) ==
    \/ /\ k \notin stale
       /\ history = session[k]
       /\ UNCHANGED <<storeVars, faults>>
    \/ /\ deployment.redis
       /\ history = << >>
       /\ Fault
       /\ UNCHANGED storeVars
    \/ /\ k \in stale
       /\ history = << >>
       /\ order' = Without(order, k)
       /\ session' = [session EXCEPT ![k] = << >>]
       /\ stale' = stale \ {k}
       /\ UNCHANGED <<since, faults>>

(* The execution goes on after AppendStep, with the next step of the loop  *)
(* or, after its decision, to the end, which is a failure if RedisStore    *)
(* remembers an error.  The two records of a decision, of the model's      *)
(* answer and of the attempt to store it, count as one.                    *)
Appended(r, now) ==
    \/ run[r].then # "look" /\ Ends(r, run[r].then)
    \/ run[r].then # "look" /\ deployment.redis /\ Ends(r, "failed")
    \/ /\ run[r].then = "look"
       /\ Becomes(r, [run[r] EXCEPT !.pc = "look", !.todo = NoReview, !.loaded = << >>])
       /\ wrote' = [wrote EXCEPT ![r] = now]

(* InMemoryStore.AppendStep is one step under its mutex; it goes on with   *)
(* a stale session as if it were fresh.                                    *)
AppendInMemory(r) ==
    LET k == ScopeOf(r)
        record == [by |-> r, review |-> run[r].todo]
    IN  /\ run[r].pc = "append"
        /\ ~deployment.redis
        /\ PutInMemory(k, Append(session[k], record))
        /\ Appended(r, Append(wrote[r], record))
        /\ UNCHANGED <<deployment, requested, lock, faults>>

(* RedisStore.AppendStep loads the session; a load that fails counts as an *)
(* empty session.                                                          *)
AppendLoad(r) ==
    /\ run[r].pc = "append"
    /\ deployment.redis
    /\ \/ Becomes(r, [run[r] EXCEPT !.pc = "save", !.loaded = session[ScopeOf(r)]])
          /\ UNCHANGED faults
       \/ Becomes(r, [run[r] EXCEPT !.pc = "save", !.loaded = << >>]) /\ Fault
    /\ UNCHANGED <<deployment, requested, storeVars, lock, wrote>>

(* Then it saves it with the new record, or fails to.                      *)
AppendSave(r) ==
    LET record == [by |-> r, review |-> run[r].todo] IN
    /\ run[r].pc = "save"
    /\ \/ /\ PutInRedis(ScopeOf(r), Append(run[r].loaded, record))
          /\ Appended(r, Append(wrote[r], record))
          /\ UNCHANGED faults
       \/ Appended(r, wrote[r]) /\ Fault /\ UNCHANGED storeVars
    /\ UNCHANGED <<deployment, requested, lock>>

(* SessionTTL ends: Redis drops the key, InMemoryStore will find it stale; *)
(* the session written longest ago is the first.                           *)
ExpireSession ==
    /\ Fault
    /\ \/ /\ deployment.redis
          /\ \E k \in Scopes : /\ session[k] # << >>
                               /\ session' = [session EXCEPT ![k] = << >>]
          /\ UNCHANGED stale
       \/ /\ ~deployment.redis
          /\ \E i \in 1 .. Len(order) :
                /\ order[i] \notin stale
                /\ \A j \in 1 .. i - 1 : order[j] \in stale
                /\ stale' = stale \cup {order[i]}
          /\ UNCHANGED session
    /\ UNCHANGED <<deployment, requested, order, since, run, lock, wrote>>

-----------------------------------------------------------------------------
(* The executions.                                                         *)

(* The next attempt of a job follows the one before: a failed one, or one  *)
(* whose worker is gone; it takes over from one that still runs when that  *)
(* has lost its lease, and from one that is done when that was not saved.  *)
MayStart(r) ==
    /\ r[2] <= deployment.attempts[r[1]]
    /\ r[2] > 1 => run[<<r[1], r[2] - 1>>].pc # "idle"

TakesOver(r) == r[2] > 1 /\ run[<<r[1], r[2] - 1>>].pc \notin {"failed", "dead"}

(* RunExecution begins with bootstrapExecution: an empty session under the *)
(* scope, whatever was there.  If that cannot be saved the execution fails *)
(* (Fail), unless the next success of another one hides the error.         *)
Begin(r) ==
    /\ run[r].pc = "idle"
    /\ MayStart(r)
    /\ LET overrun == IF TakesOver(r) THEN 1 ELSE 0 IN
       \/ Put(ScopeOf(r), << >>) /\ Faults(overrun)
       \/ deployment.redis /\ UNCHANGED storeVars /\ Faults(overrun + 1)
    /\ Becomes(r, [Idle EXCEPT !.pc = "look", !.step = 1])
    /\ UNCHANGED <<deployment, requested, lock, wrote>>

HasEvidence(history) == \E i \in 1 .. Len(history) : history[i].review # NoReview

(* A step of the loop: workflowHistory and workflowStage, then the model   *)
(* answers.  It asks for the evidence of a review, whichever it likes,     *)
(* where evidence is missing, or decides where it is not; anything else    *)
(* leaves a correction.                                                    *)
LoopStep(r) ==
    /\ run[r].pc = "look"
    /\ run[r].step <= MaxSteps
    /\ \E history \in {session[ScopeOf(r)], << >>} :
          /\ Load(ScopeOf(r), history)
          /\ \/ \E x \in Reviews \cup {NoReview} :
                   /\ x # NoReview => ~HasEvidence(history)
                   /\ Becomes(r, [run[r] EXCEPT !.pc = "append", !.todo = x, !.step = @ + 1])
             \/ HasEvidence(history) /\ At(r, "final")
    /\ UNCHANGED <<deployment, requested, lock, wrote>>

(* The loop has used its steps.                                            *)
GiveUp(r) ==
    /\ run[r].pc = "look"
    /\ run[r].step > MaxSteps
    /\ Ends(r, "done")
    /\ UNCHANGED <<deployment, requested, storeVars, lock, faults>>

(* The model, a tool, the store or the deadline fails.                     *)
Fail(r) ==
    /\ run[r].pc = "look"
    /\ Ends(r, "failed")
    /\ UNCHANGED <<deployment, requested, storeVars, lock, faults>>

(* Faulty variant: a history that has lost its evidence is finalized all   *)
(* the same, for the review the caller has named.                          *)
BadReadReview(r) ==
    /\ run[r].pc = "final"
    /\ \E history \in {session[ScopeOf(r)], << >>}, x \in Reviews :
          /\ Load(ScopeOf(r), history)
          /\ HasEvidence(history) => \E i \in 1 .. Len(history) : history[i].review = x
          /\ Becomes(r, [run[r] EXCEPT !.pc = "lock", !.review = x])
    /\ UNCHANGED <<deployment, requested, lock, wrote>>

(* Finalize has ended: the decision is appended, then the execution ends.  *)
Finalized(r, result) ==
    Becomes(r, [run[r] EXCEPT !.pc = "append", !.then = result, !.review = NoReview,
                              !.lost = FALSE])

(* The history is loaded once more, and the review of its first evidence   *)
(* is finalized, if there is one.  Nothing compares it with the review of  *)
(* the job.                                                                *)
ReadReview(r) ==
    /\ run[r].pc = "final"
    /\ \E history \in {session[ScopeOf(r)], << >>} :
          /\ Load(ScopeOf(r), history)
          /\ \/ ~HasEvidence(history) /\ Finalized(r, "failed")
             \/ \E i \in 1 .. Len(history) :
                   /\ history[i].review # NoReview
                   /\ \A j \in 1 .. i - 1 : history[j].review = NoReview
                   /\ Becomes(r, [run[r] EXCEPT !.pc = "lock", !.review = history[i].review])
    /\ UNCHANGED <<deployment, requested, lock, wrote>>

(* Faulty variant: the lock key names the execution, not the review.       *)
BadAcquire(r) ==
    /\ run[r].pc = "lock"
    /\ lock' = IF deployment.redis THEN [lock EXCEPT ![run[r].review] = r] ELSE lock
    /\ At(r, "hold")
    /\ UNCHANGED <<deployment, requested, storeVars, wrote, faults>>

(* The decision lock of that review is taken; without it, or with an       *)
(* error, Finalize fails.                                                  *)
Acquire(r) ==
    /\ run[r].pc = "lock"
    /\ \/ /\ deployment.redis => lock[run[r].review] = Nobody
          /\ lock' = IF deployment.redis THEN [lock EXCEPT ![run[r].review] = r] ELSE lock
          /\ At(r, "hold")
       \/ deployment.redis /\ Finalized(r, "failed") /\ UNCHANGED lock
    /\ UNCHANGED <<deployment, requested, storeVars, wrote, faults>>

(* Grant and decision are through, or could not be stored; the lock is     *)
(* released if it still holds this execution's token.                      *)
Release(r) ==
    /\ run[r].pc = "hold"
    /\ lock' = [x \in Reviews |-> IF x = run[r].review /\ lock[x] = r THEN Nobody ELSE lock[x]]
    /\ \E result \in {"done", "failed"} : Finalized(r, result)
    /\ UNCHANGED <<deployment, requested, storeVars, wrote, faults>>

(* The TTL of a lock ends while its holder lives, which learns of it later. *)
LoseLock(r) ==
    /\ run[r].pc = "hold"
    /\ lock[run[r].review] = r
    /\ Fault
    /\ lock' = [lock EXCEPT ![run[r].review] = Nobody]
    /\ Becomes(r, [run[r] EXCEPT !.lost = TRUE])
    /\ UNCHANGED <<deployment, requested, storeVars, wrote>>

(* The process of an execution dies; its lock goes when its TTL ends.      *)
Crash(r) ==
    /\ deployment.redis
    /\ Active(r)
    /\ Fault
    /\ Ends(r, "dead")
    /\ UNCHANGED <<deployment, requested, storeVars, lock>>

ExpireLock(x) ==
    /\ lock[x] # Nobody
    /\ run[lock[x]].pc = "dead"
    /\ lock' = [lock EXCEPT ![x] = Nobody]
    /\ UNCHANGED <<deployment, requested, storeVars, run, wrote, faults>>

-----------------------------------------------------------------------------
Step(r) ==
    \/ Begin(r) \/ LoopStep(r) \/ GiveUp(r) \/ Fail(r)
    \/ AppendInMemory(r) \/ AppendLoad(r) \/ AppendSave(r)
    \/ ReadReview(r) \/ Acquire(r) \/ Release(r)

Next ==
    \/ \E r \in Runs : Step(r) \/ LoseLock(r) \/ Crash(r)
    \/ ExpireSession
    \/ \E x \in Reviews : ExpireLock(x)

Spec == Init /\ [][Next]_vars

-----------------------------------------------------------------------------
(* No caller has supplied the id of another execution as this one's, or    *)
(* this one's id as that of another.                                       *)
Alone(r) ==
    LET id == requested[r[1]]
        supplied == r[2] = 1 /\ id # NoName
    IN  /\ supplied => id \notin Runs \ {r} /\ \A c \in Callers \ {r[1]} : requested[c] # id
        /\ ~supplied => \A c \in Callers : requested[c] # r

IsSuffix(s, t) ==
    /\ Len(s) <= Len(t)
    /\ \A i \in 1 .. Len(s) : s[i] = t[Len(t) - Len(s) + i]

(* What an execution reads back is the latest part of what it wrote, in    *)
(* order and without gaps, and nothing of anyone else: not of the attempt  *)
(* before it, which may still be running, nor after its session was lost   *)
(* to the TTL, to eviction or to a failed load.                            *)
SessionIsOwn ==
    \A r \in Runs : Active(r) /\ Alone(r) => IsSuffix(session[ScopeOf(r)], wrote[r])

(* The review that is finalized is one this execution has collected the    *)
(* evidence of.                                                            *)
FinalizesOwnEvidence ==
    \A r \in Runs : run[r].pc \in {"lock", "hold"} /\ Alone(r) =>
        \E i \in 1 .. Len(wrote[r]) : wrote[r][i] = [by |-> r, review |-> run[r].review]

(* With the lock no two executions finalize one review at the same time,   *)
(* although the review is the model's choice and two jobs of different     *)
(* reviews may choose the same.                                            *)
FinalizedAlone ==
    deployment.redis => \A r, q \in Runs :
        /\ run[r].pc = "hold" /\ run[q].pc = "hold" /\ run[r].review = run[q].review
        /\ ~run[r].lost /\ ~run[q].lost
        => r = q

(* InMemoryStore holds MaxSessions sessions at most, and gives up the      *)
(* session of an execution only after that many others were written since. *)
StoreIsLRU ==
    /\ Len(order) <= MaxSessions
    /\ ~deployment.redis => \A r \in Runs :
          /\ Active(r) /\ faults = 0
          /\ \A i \in 1 .. Len(order) : order[i] # ScopeOf(r)
          => Cardinality(since[ScopeOf(r)]) >= MaxSessions

-----------------------------------------------------------------------------
(* The inductive strengthening behind all but the last.                    *)

(* Nothing is stored under the scope of an execution before it begins.     *)
ScopesStartEmpty ==
    \A r \in Runs : run[r].pc = "idle" /\ Alone(r) => session[ScopeOf(r)] = << >>

(* An execution between Load and Save of AppendStep holds its own records. *)
LoadedIsOwn ==
    \A r \in Runs : run[r].pc = "save" /\ Alone(r) => IsSuffix(run[r].loaded, wrote[r])

WritesAreOwn == \A r \in Runs : \A i \in 1 .. Len(wrote[r]) : wrote[r][i].by = r

(* An execution that has not lost its lock has it.                         *)
LockIsHeld ==
    \A r \in Runs :
        /\ run[r].pc \in {"lock", "hold"} => run[r].review \in Reviews
        /\ deployment.redis /\ run[r].pc = "hold" /\ ~run[r].lost => lock[run[r].review] = r

Typed ==
    /\ requested \in [Callers -> Names \cup {NoName}]
    /\ session \in [Scopes -> Seq(Record)]
    /\ run \in [Runs -> Run]
    /\ lock \in [Reviews -> Runs \cup {Nobody}]
    /\ wrote \in [Runs -> Seq(Record)]

ExecInv == /\ Typed /\ ScopesStartEmpty /\ WritesAreOwn /\ SessionIsOwn /\ LoadedIsOwn
           /\ FinalizesOwnEvidence /\ LockIsHeld

(* The strengthening of StoreIsLRU: whatever is further back in the order  *)
(* was written since, no scope was written since itself, and a session     *)
(* goes stale only by a fault.                                             *)
StoreInv ==
    /\ deployment \in Deployments /\ order \in Seq(Scopes) /\ faults \in Nat
    /\ since \in [Scopes -> SUBSET Scopes]
    /\ \A k \in Scopes : IsFiniteSet(since[k]) /\ k \notin since[k]
    /\ \A i, j \in 1 .. Len(order) : i < j => order[j] \in since[order[i]]
    /\ deployment.redis => order = << >> /\ stale = {}
    /\ faults = 0 => stale = {}
    /\ StoreIsLRU
=============================================================================

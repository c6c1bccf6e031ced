# TLA+ specifications of seckill-agent

seckill-agent takes a review event, lets a language model collect evidence with
tools, and decides whether the reviewer gets a coupon. Jobs are queued in Redis
and run by any number of instances; the decision is stored in review-job and the
coupon is issued by an external coupon service. These specifications cover the
part where money and messages can be lost or doubled: how jobs enter the queue,
the job queue, the semaphore, the agent loop with its memory and its prompt,
executions side by side, the finalizer, the guard of the language model, and the
reload of the coupon policy.

Contents: 1 inventory, 2 modules and their correspondence to the code, 3 runs,
4 fairness, 5 proofs, 6 disagreements with the documents, 7 what is left out,
8 plan.

## 1. Inventory

| Component | State | Operations | Talks to |
|---|---|---|---|
| Job service (`internal/job`) | job records with a version, source-event keys, stream and pending list of the consumer group, dead-letter stream, claim and review keys | `Submit`, `worker`, `recoverProcessing`, `process`, `save`, lease renewal | Redis; calls `Agent.RunExecution` |
| Semaphore (`internal/job`, Lua scripts) | one sorted set for the deployment, one per store and activity | acquire, renew, release | called by `process` |
| Agent loop (`internal/agent/agent.go`, `parallel_tools.go`) | step number and stage of an execution | `RunExecution`, tools in parallel after the evidence | model, tools, memory, finalizer |
| Session memory (`internal/memory`) | `RecentSteps` per session and execution, `lastErr` per store | `Load`, `Save`, `AppendStep`, eviction | Redis or a map |
| Finalizer (`internal/agent/review_coupon_finalizer.go`) | one call's progress | `Finalize`: guard, lock, grant with retries, store | lock, coupon service, review-job |
| Decision guard (`decision_guard.go`) | none | `applyDecisionGuard` | called by `Finalize` |
| Distributed lock (`internal/resilience/lock.go`) | a key with a token | `Acquire`, `Renew`, `Release` | Redis |
| Coupon policy (`coupon_policy.go`) | policy, `lastMod`, `lastLoad` | reload on use | a file |
| LLM guard (`token_bucket.go`, `llm_client.go`) | tokens and time of the last refill, the breaker's state and counts | `Chat`: wait for a token, ask the breaker, call | model |
| HTTP API (`internal/server/http`) | the items and ids of a request | synchronous run, submit, batch submit, query | agent, job service |
| Prompt budget (`internal/contextx`) | none | `Compose`: cut fields, drop the oldest steps | called by the loop |
| Clients, tools, templates, configuration, logging | none | one HTTP call each; text | |

What makes them correct, and what makes that hard:

* **Job service.** A job that was accepted is settled once and only once, its
  history tells what happened, and two agents do not work on one review.
  Goroutines of several instances interleave between any two Redis calls; a call
  may take effect and lose its reply; a goroutine may stall past its leases; an
  instance may die anywhere.
* **Semaphore.** No limit is exceeded although the two sets are purged at
  different times and a renewal re-adds an entry without counting.
* **Agent loop and memory.** It ends, whatever the model says; it never asks for
  a coupon for a review under appeal or on a campaign it could not read. A failed
  read of the session looks like an empty session.
* **HTTP API.** A batch stops at the first item that fails, with the items before
  it queued, and the client repeats it: an event still has one job, and the answer
  names it.
* **Executions side by side.** Jobs, their retries, attempts that outlive their
  lease and synchronous requests share the session store and the decision locks.
  Nobody reads another's records, and no review is finalized twice at once,
  although the model chooses the review.
* **Prompt budget.** The model sees the longest recent history that fits.
* **Finalizer.** At most one coupon for a review, only one that the rules allow,
  and a stored decision that tells the truth, in spite of timeouts, late replies,
  lost locks and crashes.
* **LLM guard.** However many executions wait, the provider sees no more than the
  configured rate, nobody is let through while the breaker is open, and nobody waits
  for ever.
* **Coupon policy.** A new file is noticed even if it is replaced while it is read.

`PROJECT.json` lists the hazards line by line with the properties that watch them.

## 2. Modules

| Module | Models | Extends / instantiates |
|---|---|---|
| `ConcurrencySlots` | the semaphore's scripts | |
| `JobService` | the job service, using the semaphore's actions | extends `ConcurrencySlots`, instantiates `JobLifecycle` |
| `JobLifecycle` | abstract: the job a caller of the API observes | |
| `CouponDecision` | guard, campaign rules and outcomes as operators | |
| `Finalizer` | `Finalize` with lock and coupon service | extends `CouponDecision` |
| `PromptBudget` | `Compose` as operators on the lengths of texts | |
| `AgentLoop` | `RunExecution` with memory, prompt and tools | extends `CouponDecision`, `PromptBudget` |
| `JobAPI` | the submitting handlers with `Submit` behind them | |
| `Executions` | executions of jobs and requests over shared store and locks | |
| `LLMGuard` | `GuardedLLMClient.Chat` with token bucket and breaker | |
| `CouponPolicyReload` | hot reload of the policy | |
| `JobServiceProofs` (with the semaphore's), `JobRefinementProofs`, `FinalizerProofs`, `CouponPolicyProofs`, `JobAPIProofs`, `ExecutionsProofs`, `AgentLoopProofs`, `LLMGuardProofs` | theorems | |
| `MC...` | instances for TLC | |

**ConcurrencySlots.** `global`, `scope` are the sorted sets, `lapsed` the members
whose score is in the past, `holding` what a live call has deferred to release.
`AcquireSlot`, `RenewSlot`, `ReleaseSlot` are the scripts, `AcquireSlotUnanswered`
a script whose reply is lost.

**JobService.** One action per Redis call: `Submit`, `Deliver` (XREADGROUP),
`AutoClaim` (XAUTOCLAIM) and `RecoverFetch`, then the calls of `process()` in
their order (`ClaimJob`, `GetRecord`, `ClaimReview`, `AcquireConcurrency`,
`BeginRun`, `RunReturns`, `FinishRun`, `WriteDeadLetter`, `AckMessage`) and the
deferred releases (`ReleaseNext`). `call[g]` is the stack frame of goroutine g:
`loc` its copy of the record, `defers` how many releases are pending. `CallFails`
lets any call fail, with or without effect; `Stall` makes a goroutine overrun its
leases; `Crash` ends a process; `ExpireRecord` ends a record's time to live. The
agent's run is one step with a free outcome.

**JobLifecycle** is what a caller may rely on: statuses, attempts, retry limit.
`JobService` maps `rec` to it.

**CouponDecision** has `ApplyDecisionGuard`, `CampaignAllows`, `Refusal`,
`DecisionWithCouponGrant`. The keyword search of `hasQualitySignal` is an input.

**Finalizer.** `fin[f]` is a call of `Finalize` for the one review of the module.
`Start` is the guard, `Acquire`, `Release`, `RenewFails`, `ExpireLock` the lock and
its lease, `Decide` is `grantCouponIfNeeded` up to the request,
`Send`/`GiveUpWaiting`/`Backoff` are `grantCouponWithRetry`, `StoreDecision` the
rest. Whether an error counts as retryable is free, for it depends on its wording.
The coupon service (`ServeGrant`, `ServeRefusal`, `ServeError`, `LoseRequest`) is
external: it honours the idempotency key, which is what the client's `duplicate`
reply says of it, and may serve a request long after its caller has gone.

**AgentLoop.** `run` is the call of `RunExecution`, `memory` its session. The
model is free: any tool, any review, any answer (`Correct`, `CallTool`,
`AcceptFinal`, `ChatFails`). `AppendStep` and `Load` may fail, `LoseSession` is
expiry or eviction, `OtherExecution` another execution overwriting `lastErr`.
`setting` is the configuration an instance runs with: registered tools, number of
steps, size of the window, the prompt's budget and how long texts are.
`BuildPromptContext` is the prompt; what the model makes of it is free.

**PromptBudget.** A text is its length. `CompactStepsForPrompt` cuts the fields,
`Overflow` is the limit on the number of steps, `Shed` the loop that removes the
oldest step and takes its tokens off the running estimate.

**JobAPI.** `req[c]` is a client's request: the item the handler is at and the ids
it has collected. `Post` is the checks before the loop, for the first time or
after a failure; `RefuseItem`, `SubmitItem` and `GetExisting` are `Submit`, split
where it calls Redis; `Answer` is the response, which may be lost. A single job is
a batch of one. A job is only its record here (`live`, `eventOf`) and the
source-event key (`source`).

**Executions.** An execution is an attempt of a job or a request, reduced to what
others can see: the scope it writes under (`ScopeOf`, which is `executionScopeID`
with the fresh ids of retries; callers may supply any id, also one of those), the
loads and saves of its session, and the review it finalizes under the decision lock.
`LoopStep` is an iteration of the loop, `ReadReview` the second load before
`Finalize`, `Acquire`, `Release`, `LoseLock` and `ExpireLock` the lock.
`AppendInMemory` is atomic under the mutex of `InMemoryStore`; `AppendLoad` and
`AppendSave` are the two calls of `RedisStore.AppendStep`. A deployment has Redis,
or memory with eviction and neither jobs nor locks (`bootstrap/app.go`). Ids that
the service makes up are taken to be unique, also those of synchronous requests,
which are instants.

**LLMGuard.** `pc[c]` is where caller c is in `Chat`: `Allow` and `Refuse` are a
round of the loop in `Wait`, `NextWait` the second critical section that computes
the sleep, `Wake`, `TimeOut` and `Cancel` the cases of its select, `Execute` and
`Reply` the two halves of `breaker.Execute`. Instants are distances in ticks and
tokens are counted in fractions. A caller is at "call" from the moment the breaker
lets it through; its HTTP request may leave a little later, when another reply has
opened the breaker, so `QuietWhileOpen` is about being let through. gobreaker is
external, modelled from its settings, and `ProbesAccounted` and `ProbesSettle` are
as much about it as about the way `Chat` uses it: a period of the breaker (its
generation) is the set of calls that began in it.

**CouponPolicyReload.** `Begin`, `Stat`, `Read`, `Store` are `reloadIfNeeded`,
split where other goroutines and writers may come in between. The unprotected
reads of `lastMod` and `lastLoad` are modelled as comparisons that may come out
either way while another goroutine stores.

## 3. Runs

Every fault bound is a bound on all kinds of fault together. The counter is part
of the state, so a run explores every placement of that many faults.

| Run | Instance | Checks |
|---|---|---|
| `job_record` | 1 job with a retry, 1 worker, 1 recoverer on separate instances, 2 faults | `NoMessageLoss`, `VersionIdentifiesRecord`, `ExecutionHistory`, `RetryBudget`, `DeadLettersFailed`, `FreshExecution`, `TerminalIsFinal`, refinement `ImplementsLifecycle`, `EventuallySettled` |
| `job_review` | 2 jobs on one review, 2 slots, 1 fault | `ReviewExclusion` |
| `job_slots` | 2 jobs on two reviews, one slot in their scope, 1 fault | `RunsWithinLimits`, `SlotLimits`, `EventuallyReleased` |
| `job_api` | 2 clients, 2 events, batches of at most 2 that share events in either order, repeat one, mix items without event or end in an invalid item, 3 faults | `OneJobPerEvent`, `AnswersMatch`, `EventuallyAccepted` |
| `finalizer` | 2 calls, 2 attempts each, 2 faults, one input that grants and one that does not | `AtMostOneCoupon`, `StoredGrantIsReal`, `KnownGrantIsStored`, `LockExclusion`, `EveryCallReturns`, `EventuallyUnlocked` |
| `finalizer_inputs` | 1 call, no lock, 3 attempts, every decision on every review and the boundaries of each campaign constraint | `OnlyPermittedGrants` |
| `agent_loop` | 2 reviews, one under appeal, 1 fault; 4 steps and 8 records, so that the evidence of both reviews fits in the session, or 6 steps and 5 records with and without the campaign tool, so that the window drops the evidence | `AppealRespected`, `NoGrantOnFallback`, `CampaignOfReview`, `PromptIsLongestTail`, `GrantEndsLoop`, `Terminates` |
| `executions` | 2 faults, 2 reviews, an id that callers may supply; with Redis a job of two attempts, or two requests, of 3 steps, or such a job of 1 step and a request with the id of its retry; in memory 2 requests and room for 1 session, or 3 and room for 2 | `SessionIsOwn`, `FinalizesOwnEvidence`, `FinalizedAlone`, `StoreIsLRU` |
| `llm_guard` | 2 callers, bursts of 2 tokens, half a token per tick, 2 failures open and 2 probes close the breaker, either guard may be off | `RateBound`, `QuietWhileOpen`, `ProbesAccounted`, `EveryChatReturns`, `ProbesSettle` |
| `coupon_policy` | 2 goroutines, 3 writes that may break or remove the file | `NeverTooSure`, `EventuallyCurrent` |
| `finalizer_timeout` | 1 call, 3 attempts, no fault | violates `TimedOutGrantIsResolved` |
| `agent_memory` | 2 steps, 1 fault | violates `NoSuccessWithoutMemory` |

Why the bounds are enough: a race in the job service is between the owner of a lease
and one successor, so two goroutines are enough, and two faults allow a stall of the
first and a lost reply or a crash of the second. Two jobs are the fewest that
compete for a review or a slot. Two clients are a request and its repetition, or
another that names the same event, and three faults let both lose a reply and a
record expire. Two attempts of one job are an owner and its successor, three
requests the fewest among which the choice of the evicted session shows; three steps
allow evidence to be collected twice. The budgets of `agent_loop` make first the
tokens, then the number of steps, then nothing the limit of the prompt. Two calls of
`Finalize` are an owner and a successor again, and two attempts are the fewest with
a retry. In the guard two callers are one that waits and one that takes the token or
trips the breaker; half a token per tick makes fractions of tokens matter, a wait of
three ticks is longer than the two that a token takes, and the window of three ticks
spans a burst and a refill. In `job_slots` the scope's limit is the one that binds,
and there is one scope: several scopes under a binding global limit are left to the
theorems (`SlotLimitsHold`, `ServiceKeepsLimits`, `RunsAreLimited`). The theorems of
section 5 remove the bounds for every safety property of these runs.

`CHECK_DEADLOCK FALSE` is set where the system stops for good: all jobs are
settled, all calls have returned, or the execution has ended.

Properties that deserve a word:

* `RetryBudget` counts faults: the reclaim of a RUNNING record is not limited by
  `MaxRetries`, so every attempt beyond the budget must be explained by a fault.
* `ReviewExclusion`, `RunsWithinLimits` and `LockExclusion` except goroutines that
  have overrun their leases. No lease can do better; what protects the data then
  is the version of the record and the idempotency key of the grant
  (`TerminalIsFinal`, `AtMostOneCoupon`).
* `DeadLettersFailed` has one direction only. A job can be FAILED and missing
  from the dead-letter stream, because a redelivered terminal job is only
  acknowledged.
* `SessionIsOwn` and `FinalizesOwnEvidence` except executions that share their id: a
  caller has supplied one that another caller supplied too, or one that the service
  made up for another execution (`Alone`). They share one memory, and nothing in the
  code prevents it.
  `FinalizedAlone` excepts nobody but those that have lost their lock.
* `FinalizesOwnEvidence` does not say that the review is the job's. It need not be:
  the model chooses, and `Finalize` takes the review of the first evidence.
* `EventuallyAccepted` holds for items without event too, but every repetition
  queues them again; only source events make repetition safe.
* `PromptIsLongestTail` says that the oldest records go first, and the evidence is
  the oldest: a long history is decided on without it in the prompt.
* `CampaignOfReview` is stated for executions without memory faults. With one, a
  failed load makes the loop collect the evidence of a second
  review, and the campaign of that one may stand behind a grant for the first.
  `AppealRespected` and `NoGrantOnFallback` hold even then.

## 4. Fairness

* Job service: goroutines and Redis make progress (weak fairness of a goroutine's
  steps and of delivery): `worker()` and `recoverProcessing()` loop for ever and
  `RunTimeout` ends a run. Lease keys of dead or overdue owners reach their time
  to live and clocks advance. `AutoClaim` is strongly fair for each job: the
  cursor of XAUTOCLAIM passes over all pending messages again and again, but a
  goroutine that is busy does not look. Faults are never fair.
* HTTP API: handlers run, and a client whose request failed posts it again.
* Finalizer: the steps of a call are weakly fair (HTTP and Redis calls have
  timeouts, the retry loop is finite), so is the expiry of the lock key. The
  coupon service need never answer.
* Agent loop: weak fairness of the loop; chat and tool calls have timeouts.
* LLM guard: goroutines run, time passes, and calls of the model return (its HTTP
  client has a timeout). Giving up at the deadline is strongly fair: a select with
  several ready cases picks one at random.
* Coupon policy: finalizations keep coming and time passes. Writers need not.

## 5. Proofs

All theorems hold for every value of the constants that satisfies the named
assumptions (`SlotAssumption`, `JobAssumption`, `RecordAssumption`, `ObservedAssumption`,
`FinalizerAssumption`, `PolicyAssumption`, `APIAssumption`, `ExecutionsAssumption`,
`NobodyIsNoRun`, `AgentAssumption`, `GuardAssumption`): disjointness of markers, types of
parameters, finiteness of the token set. TLC evaluates them in every run. The
runs check the properties and leave the inductive invariants, which imply them
and contain the type invariants, to the proofs. Each of them also
passes TLC on the same instances.

**Semaphore** (`SlotInvHolds`, `SlotLimitsHold`). `SlotLimits` is not inductive: a
renewal puts a token back into its scope set without counting. `SlotInv` counts
`Charged(s)`, the members of the scope set together with the tokens of the global
set that a renewal could put there, and adds that the levels agree about live
slots. The rest is cardinality of finite sets.

**Job service** (`JobInvHolds`, `TypeCorrect`, `NoMessageIsLost`,
`VersionsAreUnique`, `ReviewsAreExclusive`, `OutcomesAreFinal`,
`ExecutionsAreFresh`). `JobInv` adds to the properties: what a call has in hand at
each point (`CallShape`), that a call which is not overdue owns the keys it will
release (`LeaseOwnership`), that tokens are unique, and that an execution id that
has not begun has not been used (`ExecutionIds`). There is one lemma per action;
`VersionIdentifiesRecord` is the heart of it, because it makes the compare-and-set
of `save()` equivalent to a comparison of contents. `TerminalIsFinal` and
`FreshExecution` are action properties derived from the invariant.

**Job service, refinements** (`JobRefinementProofs`). A step changes a
record in four ways only: it is created, expires, begins an execution or finishes one
(`RecordSteps`, where `JobInv` and `VersionIdentifiesRecord` make the copy a goroutine
saves the stored one). `HistoriesAreChains` follows because each of them keeps the
chain (`BegunChain`, `SettledChain`, `NextExecutionChain`), and `RefinesLifecycle`
because each is a step of `JobLifecycle`. `DeadLettersAreFailures` rests on
`DeadLetterInv`: a goroutine at the dead-letter step has already stored FAILED, which
stays until the record expires.
`UsesSemaphore` shows that the job service implements `SlotSpec`: `SlotUse` says
that a token which has not been used is in no set, that a call which has deferred
its release holds its slot, and that nobody else does. So the limits proved of the
semaphore hold in the service (`ServiceKeepsLimits`), and with the calls' slots
distinct they bound the agents that run (`RunsAreLimited`).

`RetriesAreBudgeted` needs an account of the faults. `RetryBudget` alone is not
inductive: it does not say why a RUNNING record may be reclaimed. `BudgetInv` says
that every fault pays for one attempt: a RUNNING record that no punctual call
attends has used up a fault (`FaultsPay`), a call that became late before its run
could begin has used up another (`Late`), and a call about to begin a run has
not read the record of one that still owns the review's key (`BeginsUnattended`),
so that beginning a run without a fault in between needs a record that was PENDING
or RETRYING, which `MaxRetries` limits.

**HTTP API** (`APIInvariant`, `EventsHaveOneJob`, `AnswersAreRight`). `KeyOfLiveJob` is
the heart: a live job of an event is the one the source-event key points to, so the
script cannot create a second. `AllCollect` says what a handler has collected at
each item, `AnonymousOnce` that an id without event stands in one answer only.

**Executions** (`ExecutionsInvariant`, `SessionsAreOwn`, `EvidenceIsOwn`,
`FinalizeAlone`). Scopes of executions that share no id differ (`ScopeIsOwn`), so a
step of one leaves the session of another as it was, or empty. What an execution
has loaded and not yet saved is its own too (`LoadedIsOwn`), and its scope is empty
before it begins (`ScopesStartEmpty`), which matters when the bootstrap cannot be
saved.

`StoreEvictsOldest` rests on `StoreInv`: of two sessions in the order of the store the
one further back was written since the other. A full store evicts the first, so all
the sessions it keeps were written since, and they are different from each other:
`MaxSessions` of them (`AtLeast`). Sessions go stale only by a fault.

**Agent loop** (`LoopInvHolds`, `AppealsAreRespected`, `FallbackGrantsNothing`,
`GrantsEndTheLoop`). The guard looks for an appeal in all evidence, while the review
is that of the first: whichever records memory has lost, the review's own evidence
is among those left. `LoopInv` adds that after a grant the loop is on its way to the
report.

`CampaignsMatchReviews` uses `SessionInv`. The stage that the model's turn is at is
that of the stored session, and the session together with the records still to be
appended satisfies `CampaignFollows`: behind every evidence that names a review
there is a campaign's answer, and all answers behind it are about that review. The
window keeps a suffix, and an evidence goes before the answers behind it
(`SuffixFollows`); new evidence is accepted only when none is left, and it brings
its own campaign (`EvidenceFollows`).

`PromptsAreLongestTails` is about the operators of `PromptBudget`. With `W` the
running sum over the compacted records, the tokens of the latest n are `W[N] - W[N -
n]` (`TailTokens`), the estimate that `Shed` runs down is that of the tail it has
left (`ShedTail`), and it stops at the first tail that is within the limit
(`FirstStop`).

**LLM guard** (`GuardInvHolds`, `RateIsBounded`, `ProbesAreAccounted`,
`OpenBreakerIsQuiet`). `RateBound` is not inductive, because it does not see the
tokens in the bucket: `TokensBound` counts the tokens at hand, refilled up to now,
as if they had been taken. Admitting a call moves one from the bucket to the count
and a tick moves the window on by as much as it refills. `CallsRun` says that the
calls the breaker counts are under way, so that a caller is never counted twice;
with it a late reply of an earlier period is told from one of a probe.

**Finalizer** (`FinalizerInvHolds`, `OneCouponPerReview`, `GrantsArePermitted`,
`StoredGrantsAreReal`, `KnownGrantsAreStored`, `LocksAreExclusive`).
`GuardPermits` is the argument about the rules: a decision that survives
`applyDecisionGuard` and `grantCouponIfNeeded` is permitted by the rules as stated
over the inputs. `CouponOnce` ties the number of coupons to the idempotency key.
`AllInformed` is needed for `KnownGrantIsStored`: a call that was never left
unsure waits for each of its requests that is still on its way, so a coupon
cannot be issued behind its back.

**Coupon policy** (`PolicyNeverTooSure`). The modification time is taken before
the content is read, so the time a goroutine is going to store is never later
than the content it has.

Recursive functions (the sums of `LLMGuard` and `PromptBudget`, the stop of `Shed`) are
handled without the library's induction schemes, whose predicate parameter the
provers do not instantiate: `Induction` states induction for a *set* of naturals and
follows from the well-foundedness of their order. With it a recursive function is
first shown to exist and then to have its properties.

Model-checked only: the liveness properties (`EventuallySettled`,
`EventuallyReleased`, `EventuallyAccepted`, `EveryCallReturns`, `EventuallyUnlocked`,
`Terminates`, `EveryChatReturns`, `ProbesSettle`, `EventuallyCurrent`). Liveness under
fairness and ENABLED are beyond the proof system as used here. Every safety
property of a passing run is stated by a theorem.

## 6. Disagreements with the documents

* `finalizer_timeout`: `docs/agent_storage_and_idempotency.md` wants a timed-out
  grant to be queried by its key before a retry. The code repeats the request
  up to three times and then stores GRANT_FAILED and reports success; the coupon may
  have been issued. Repeating is safe (`AtMostOneCoupon`); the record is wrong.
* `agent_memory`: the evaluation corpus (NEG-016) wants no success report when
  memory could not be saved. `RedisStore` remembers only the error of its last
  operation, so the next successful append hides a failed one.

Not runs, but met while modelling:

* `docs/agent_storage_and_idempotency.md:159` allows a grant call only if no grant
  record marks success already. No code looks for such a record; `Permitted` leaves the
  condition out, and the idempotency key takes its place (`AtMostOneCoupon`).
* `docs/agent_execution_model.md:54` derives the grant key from review and policy scene.
  The code (`grant_idempotency.go:8`) and the storage document (line 167) use store and
  review, and so does `GrantKey`. With the scene in the key two executions that decide
  differently would earn two coupons.
* `docs/agent_storage_and_idempotency.md:146` wants a failure of the evidence tool to
  stop the execution with a retryable error. `executeTool` records the error and the
  loop goes on (`CallTool`): the model may ask again, and when the steps run out the
  execution ends without error and the job as INCOMPLETE, which is not retried.
* NEG-019 (`no_concurrent_finalizer_success`) and PERF-006
  (`concurrent_finalizer_success_count_max` 1) want no second success next to the first
  even when the lock's renewal is lost. A call learns of the loss at its next tick, a
  third of the time to live later, and may store its decision until then, next to the
  new holder's. `LockExclusion` and `FinalizedAlone` therefore except calls that have
  lost their lock; from the tick on the cancelled context keeps them from storing.

A comment in `internal/contextx/compose.go:21`
says that steps dropped from the prompt are merged into the summary by
`normalizeState`. That happens to steps beyond the window of the memory; with the
shipped configuration that is 32 and the prompt's limit is 8, so the steps between
are in neither. The templates' cache (`internal/prompt/template.go:89`) is a map that
concurrent executions fill without a mutex.

`consecutive_successes` of the configuration
("成功多少次后恢复正常", `internal/config/config.go:147`) is copied into
`LLMGuardConfig` and never read. gobreaker closes after `max_requests` successes,
which is what `LLMGuard` does (`Closes`). With the shipped `configs/config.json`
that is four instead of three.

## 7. Left out

* **Clients, tools, templates, language model client, logging**: one call that
  succeeds or fails, or text. Their effect on the loop is in `AgentLoop`. The clients
  of review-service and review-job keep no state, and the tools decode arguments and
  make one call each.
* **Configuration**: the CONSTANTS. `AgentLoop` takes an agent with a decision
  store, `Finalizer` takes instances with and without lock or coupon service.
* **Shutdown** (`App.Run`) cancels the contexts of the goroutines and closes Redis:
  to the job service that is `CallFails`, `ReleaseFails` or `Crash`.
* **The summary** of dropped memory records feeds only the prompt; it is a length.
  `ClearSession` is called by nobody.
* **Reading handlers** (health, job query) and the debug chat change nothing.
* **Records that cannot be decoded** and messages with a blank job id.
* The theorems treat components one by one, except that `JobService` uses
  `ConcurrencySlots` and `Finalizer` and `AgentLoop` use `CouponDecision`. `Executions`
  is an abstraction of `AgentLoop` by construction, not by a proved refinement.

## 8. Plan

Done, in this order because a lost message or a second coupon is the worst that
can happen: semaphore, job service with its abstract specification, finalizer,
agent loop, LLM guard, policy reload; then submission over HTTP, executions side by
side, the prompt's budget, the refinements and the invariants of all of them.

What could follow:

1. A refinement between `AgentLoop` and one execution of `Executions`.
2. The parsing of what the model answers (`parseDecision`), if a grammar of answers
   is ever fixed.

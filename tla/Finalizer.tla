------------------------------ MODULE Finalizer ------------------------------
(***************************************************************************)
(* ReviewCouponFinalizer.Finalize (internal/agent/review_coupon_finalizer.go) *)
(* for one review of one store, called by any number of agent executions,  *)
(* on any number of instances: retries and reclaims of a job, other jobs   *)
(* and synchronous requests for the same review.                           *)
(*                                                                         *)
(* A call takes the decision lock (internal/resilience/lock.go), asks the  *)
(* coupon service for a grant up to MaxAttempts times, and stores the      *)
(* decision.  The coupon service and the decision store are external: a    *)
(* request travels, is served once or never, possibly after the caller has *)
(* given up on it, and its reply may be lost.  Crashes, lost locks and     *)
(* failed calls to Redis or to the decision store are counted by "faults"  *)
(* and bounded by MaxFaults.                                               *)
(***************************************************************************)
EXTENDS CouponDecision, FiniteSets

CONSTANTS
    Finalizations,      \* calls of Finalize; also the tokens of their locks
    Inputs,             \* what they are called with
    LockEnabled,        \* decisionLock # nil
    MaxAttempts,        \* 3 in grantCouponWithRetry
    MaxFaults,
    Review,             \* the store and the review, as they stand in keys
    Nobody

(* configured: the instance has a coupon service (couponGrant # nil).      *)
Input == [decision : Decision, facts : Facts, context : Context, configured : BOOLEAN]

ASSUME FinalizerAssumption ==
    /\ Inputs \subseteq Input
    /\ LockEnabled \in BOOLEAN
    /\ MaxAttempts \in Nat \ {0}
    /\ MaxFaults \in Nat
    /\ Nobody \notin Finalizations

VARIABLES
    lock,       \* token under the lock key of the review
    fin,        \* what each call is doing
    inflight,   \* grant requests on their way to the coupon service
    grantKeys,  \* idempotency keys for which a coupon was issued
    coupons,    \* number of coupons issued for the review
    issuedTo,   \* the call whose request issued the coupon
    stored,     \* decisions written to the decision store
    lost,       \* calls that lost their lock while they were working
    faults

vars == <<lock, fin, inflight, grantKeys, coupons, issuedTo, stored, lost, faults>>

-----------------------------------------------------------------------------
Points == {"idle", "lock", "decide", "send", "wait", "backoff", "store", "release", "end"}

Results == {"none", "ok", "error"}

(* cancelled: the context handed down by startDecisionLockLease is done;   *)
(* unsure: a request was given up without an answer.                       *)
Call == [pc : Points, input : Input, decision : Decision,
         attempt : 0 .. MaxAttempts, outcome : Outcome, result : Results,
         cancelled : BOOLEAN, unsure : BOOLEAN]

NoInput ==
    [decision |-> [action |-> "NO_COUPON", scene |-> "UNMAPPED", needHumanReview |-> FALSE,
                   policyTags |-> {}],
     facts |-> [score |-> 0, hasAppeal |-> FALSE, quality |-> FALSE],
     context |-> [known |-> FALSE, identified |-> FALSE, campaignActive |-> FALSE,
                  productEligible |-> FALSE, userEligible |-> FALSE, remainingStock |-> 0,
                  remainingBudgetCent |-> 0, userGrantLimit |-> 0, userGrantedCount |-> 0],
     configured |-> FALSE]

IdleCall == [pc |-> "idle", input |-> NoInput, decision |-> NoInput.decision, attempt |-> 0,
             outcome |-> NotAttempted("REJECTED"), result |-> "none",
             cancelled |-> FALSE, unsure |-> FALSE]

Request == [by : Finalizations, attempt : 1 .. MaxAttempts]

StoredDecision == [by : Finalizations, decision : Decision, couponGranted : BOOLEAN,
                   status : ExecutionStatuses]

(* Faulty variant: the key depends on the execution.                       *)
BadGrantKey(f) == <<Review, f>>

(* BuildReviewCouponGrantIdempotencyKey: store and review only.            *)
GrantKey(f) == <<Review>>

GoesOn(f, c) == fin' = [fin EXCEPT ![f] = c]

At(f, pc) == GoesOn(f, [fin[f] EXCEPT !.pc = pc])

(* Finalize returns with step.Error, which RunExecution turns into an      *)
(* error; what has been deferred by then still runs.                       *)
FailsAt(f, pc) == GoesOn(f, [fin[f] EXCEPT !.pc = pc, !.result = "error"])

Leave == IF LockEnabled THEN "release" ELSE "end"

Fault == faults < MaxFaults /\ faults' = faults + 1

(* Between Acquire and Release.                                            *)
Holds(f) == LockEnabled /\ fin[f].pc \in {"decide", "send", "wait", "backoff", "store", "release"}

TypeOK ==
    /\ lock \in Finalizations \cup {Nobody}
    /\ fin \in [Finalizations -> Call]
    /\ inflight \subseteq Request
    /\ grantKeys \subseteq {<<Review>>}
    /\ coupons \in Nat
    /\ issuedTo \in Finalizations \cup {Nobody}
    /\ stored \subseteq StoredDecision
    /\ lost \subseteq Finalizations
    /\ faults \in 0 .. MaxFaults

Init ==
    /\ lock = Nobody
    /\ fin = [f \in Finalizations |-> IdleCall]
    /\ inflight = {}
    /\ grantKeys = {}
    /\ coupons = 0
    /\ issuedTo = Nobody
    /\ stored = {}
    /\ lost = {}
    /\ faults = 0

serviceVars == <<inflight, grantKeys, coupons, issuedTo>>

-----------------------------------------------------------------------------
(* Finalize up to the grant.                                               *)

(* The guard, and the check of review and store id.                        *)
Start(f) ==
    /\ fin[f].pc = "idle"
    /\ \E in \in Inputs :
          LET d == ApplyDecisionGuard(in.decision, in.facts)
              c == [IdleCall EXCEPT !.input = in, !.decision = d]
          IN  GoesOn(f, CASE ~in.context.known -> [c EXCEPT !.pc = "end", !.result = "error"]
                          [] in.context.known /\ LockEnabled -> [c EXCEPT !.pc = "lock"]
                          [] OTHER -> [c EXCEPT !.pc = "decide"])
    /\ UNCHANGED <<lock, serviceVars, stored, lost, faults>>

(* DistributedLock.Acquire: SETNX with a random token.  When the reply is  *)
(* lost nobody knows the token and the key stays until its time to live.   *)
Acquire(f) ==
    /\ fin[f].pc = "lock"
    /\ \/ /\ lock = Nobody
          /\ lock' = f
          /\ \/ At(f, "decide") /\ UNCHANGED faults
             \/ FailsAt(f, "end") /\ Fault
       \/ /\ lock # Nobody
          /\ FailsAt(f, "end")
          /\ UNCHANGED <<lock, faults>>
       \/ /\ FailsAt(f, "end") /\ Fault
          /\ UNCHANGED lock
    /\ UNCHANGED <<serviceVars, stored, lost>>

(* grantCouponIfNeeded: no grant, or the first attempt.                    *)
Decide(f) ==
    LET in == fin[f].input
        refusal == Refusal(fin[f].decision, in.context, in.configured)
    IN
    /\ fin[f].pc = "decide"
    /\ \/ /\ refusal # ""
          /\ GoesOn(f, [fin[f] EXCEPT !.pc = "store", !.outcome = NotAttempted(refusal)])
       \/ /\ refusal = ""
          /\ GoesOn(f, [fin[f] EXCEPT !.pc = "send", !.attempt = 1])
    /\ UNCHANGED <<lock, serviceVars, stored, lost, faults>>

-----------------------------------------------------------------------------
(* grantCouponWithRetry.                                                   *)

GivesUp(c) == [c EXCEPT !.pc = "store", !.outcome = GrantFailed]

AfterError(c, retryable) ==
    IF retryable /\ c.attempt < MaxAttempts THEN [c EXCEPT !.pc = "backoff"] ELSE GivesUp(c)

(* A request leaves unless the context is done already: past its deadline, *)
(* which counts as retryable until Backoff, or cancelled, which does not.  *)
Send(f) ==
    /\ fin[f].pc = "send"
    /\ \/ /\ ~fin[f].cancelled
          /\ inflight' = inflight \cup {[by |-> f, attempt |-> fin[f].attempt]}
          /\ At(f, "wait")
       \/ /\ fin[f].cancelled
          /\ \E retryable \in BOOLEAN : GoesOn(f, AfterError(fin[f], retryable))
          /\ UNCHANGED inflight
    /\ UNCHANGED <<lock, grantKeys, coupons, issuedTo, stored, lost, faults>>

(* The caller is still waiting for the answer to this request.             *)
Awaits(f, q) == fin[f].pc = "wait" /\ fin[f].attempt = q.attempt

(* An answer reaches the caller, or is lost or too late.                   *)
Reply(q, c) ==
    \/ Awaits(q.by, q) /\ GoesOn(q.by, c)
    \/ UNCHANGED fin

(* The coupon service issues a coupon once for a key; asked again, it      *)
(* answers success as a duplicate.                                         *)
ServeGrant(q) ==
    /\ q \in inflight
    /\ inflight' = inflight \ {q}
    /\ grantKeys' = grantKeys \cup {GrantKey(q.by)}
    /\ IF GrantKey(q.by) \in grantKeys
       THEN UNCHANGED <<coupons, issuedTo>>
       ELSE coupons' = coupons + 1 /\ issuedTo' = q.by
    /\ Reply(q, [fin[q.by] EXCEPT !.pc = "store", !.outcome = Answered(TRUE)])
    /\ UNCHANGED <<lock, stored, lost, faults>>

(* It refuses a key it has not served: success = false, or an error that   *)
(* isRetryableCouponGrantError does or does not take for transient.        *)
ServeRefusal(q) ==
    /\ q \in inflight
    /\ GrantKey(q.by) \notin grantKeys
    /\ inflight' = inflight \ {q}
    /\ Reply(q, [fin[q.by] EXCEPT !.pc = "store", !.outcome = Answered(FALSE)])
    /\ UNCHANGED <<lock, grantKeys, coupons, issuedTo, stored, lost, faults>>

ServeError(q) ==
    /\ q \in inflight
    /\ inflight' = inflight \ {q}
    /\ \E retryable \in BOOLEAN : Reply(q, AfterError(fin[q.by], retryable))
    /\ UNCHANGED <<lock, grantKeys, coupons, issuedTo, stored, lost, faults>>

(* The request never arrives.                                              *)
LoseRequest(q) ==
    /\ q \in inflight
    /\ inflight' = inflight \ {q}
    /\ UNCHANGED <<lock, fin, grantKeys, coupons, issuedTo, stored, lost, faults>>

(* The call ends without an answer: the HTTP client's timeout, a broken    *)
(* connection, a reply that cannot be read, the end of the context.  Some  *)
(* of these errors carry a marker of isRetryableCouponGrantError           *)
(* ("timeout", "deadline", "eof") and others do not ("context canceled",   *)
(* a host that is unknown, malformed JSON).                                *)
GiveUpWaiting(f) ==
    /\ fin[f].pc = "wait"
    /\ \E retryable \in BOOLEAN :
          GoesOn(f, AfterError([fin[f] EXCEPT !.unsure = TRUE], retryable))
    /\ UNCHANGED <<lock, serviceVars, stored, lost, faults>>

(* Faulty variant: the end of the context is not noticed.                  *)
BadBackoff(f) ==
    /\ fin[f].pc = "backoff"
    /\ ~fin[f].cancelled
    /\ GoesOn(f, [fin[f] EXCEPT !.pc = "send", !.attempt = @ + 1])
    /\ UNCHANGED <<lock, serviceVars, stored, lost, faults>>

(* The pause before the next attempt, cut short when the context is done.  *)
Backoff(f) ==
    /\ fin[f].pc = "backoff"
    /\ GoesOn(f, IF fin[f].cancelled THEN GivesUp(fin[f])
                 ELSE [fin[f] EXCEPT !.pc = "send", !.attempt = @ + 1])
    /\ UNCHANGED <<lock, serviceVars, stored, lost, faults>>

-----------------------------------------------------------------------------
(* Storing the decision.                                                   *)

(* Faulty variant: the request is built before the grant.                  *)
BadDecisionRequest(f) ==
    [by |-> f, decision |-> fin[f].decision, couponGranted |-> FALSE, status |-> "PROPOSED"]

(* The StoreDecisionRequest that Finalize builds.                          *)
DecisionRequest(f) ==
    LET c == fin[f] IN
    [by |-> f, decision |-> DecisionWithCouponGrant(c.decision, c.outcome),
     couponGranted |-> c.outcome.success, status |-> c.outcome.status]

StoreDecision(f) ==
    /\ fin[f].pc = "store"
    /\ \/ /\ ~fin[f].cancelled
          /\ stored' = stored \cup {DecisionRequest(f)}
          /\ \/ GoesOn(f, [fin[f] EXCEPT !.pc = Leave, !.result = "ok"]) /\ UNCHANGED faults
             \/ FailsAt(f, Leave) /\ Fault
       \/ /\ UNCHANGED stored
          /\ FailsAt(f, Leave)
          /\ IF fin[f].cancelled THEN UNCHANGED faults ELSE Fault
    /\ UNCHANGED <<lock, serviceVars, lost>>

(* Faulty variant: DEL whoever the key belongs to.                         *)
BadReleased(f) == Nobody

(* DistributedLock.Release: delete the key only if it has our token.       *)
Released(f) == IF lock = f THEN Nobody ELSE lock

(* The deferred Release, with a context of its own.                        *)
Release(f) ==
    /\ fin[f].pc = "release"
    /\ At(f, "end")
    /\ \/ lock' = Released(f) /\ UNCHANGED faults
       \/ UNCHANGED lock /\ Fault
    /\ UNCHANGED <<serviceVars, stored, lost>>

-----------------------------------------------------------------------------
(* The lock's lease.                                                       *)

(* A tick of startDecisionLockLease that finds the lock gone or fails      *)
(* cancels the context; one that succeeds changes nothing here.            *)
RenewFails(f) ==
    /\ Holds(f)
    /\ ~fin[f].cancelled
    /\ \/ lock # f /\ UNCHANGED faults
       \/ lock = f /\ Fault
    /\ GoesOn(f, [fin[f] EXCEPT !.cancelled = TRUE])
    /\ UNCHANGED <<lock, serviceVars, stored, lost>>

(* The caller's context ends: RunTimeout, a lost job lease, a client that  *)
(* hangs up.                                                               *)
CallerCancels(f) ==
    /\ fin[f].pc \notin {"idle", "end", "release"}
    /\ ~fin[f].cancelled
    /\ GoesOn(f, [fin[f] EXCEPT !.cancelled = TRUE])
    /\ UNCHANGED <<lock, serviceVars, stored, lost, faults>>

(* Faulty variant: the key has no time to live.                            *)
BadExpireLock ==
    /\ lock # Nobody
    /\ Holds(lock)
    /\ lock' = Nobody
    /\ lost' = lost \cup {lock}
    /\ Fault
    /\ UNCHANGED <<fin, serviceVars, stored>>

(* The key goes: at its time to live when nobody renews it, earlier when   *)
(* the holder is held up past it or Redis loses it.                        *)
ExpireLock ==
    /\ lock # Nobody
    /\ lock' = Nobody
    /\ \/ ~Holds(lock) /\ UNCHANGED <<lost, faults>>
       \/ Holds(lock) /\ lost' = lost \cup {lock} /\ Fault
    /\ UNCHANGED <<fin, serviceVars, stored>>

(* The instance dies; its request may still be served.                     *)
Crash(f) ==
    /\ fin[f].pc \notin {"idle", "end"}
    /\ Fault
    /\ FailsAt(f, "end")
    /\ UNCHANGED <<lock, serviceVars, stored, lost>>

-----------------------------------------------------------------------------
Step(f) ==
    \/ Acquire(f) \/ Decide(f) \/ Send(f) \/ GiveUpWaiting(f) \/ Backoff(f)
    \/ StoreDecision(f) \/ Release(f)

Serve(q) == ServeGrant(q) \/ ServeRefusal(q) \/ ServeError(q)

Next ==
    \/ \E f \in Finalizations :
          Start(f) \/ Step(f) \/ RenewFails(f) \/ CallerCancels(f) \/ Crash(f)
    \/ \E q \in Request : Serve(q) \/ LoseRequest(q)
    \/ ExpireLock

Spec == Init /\ [][Next]_vars

-----------------------------------------------------------------------------
(* Safety.                                                                 *)

(* A review earns at most one coupon, however many executions finalize it, *)
(* retry after a timeout or overtake each other: every request carries the *)
(* same idempotency key.                                                   *)
AtMostOneCoupon == coupons <= 1

(* What the documentation's validator boundary and the campaign permit,    *)
(* stated over the inputs and not over the guard's result.  Its condition  *)
(* that no grant record marks a success already has no counterpart in the  *)
(* code, which leaves it to the idempotency key.                           *)
Permitted(in) ==
    /\ in.decision.action \in {"GRANT_COUPON", "SUGGEST_COUPON"}
    /\ ~in.decision.needHumanReview
    /\ ~in.facts.hasAppeal
    /\ in.facts.score > 2 \/ ~in.facts.quality
    /\ in.context.known /\ in.context.identified /\ in.configured
    /\ in.context.campaignActive /\ in.context.productEligible /\ in.context.userEligible
    /\ in.context.remainingStock >= 1 /\ in.context.remainingBudgetCent >= 1
    /\ in.context.userGrantLimit <= 0
           \/ in.context.userGrantLimit - in.context.userGrantedCount >= 1

(* No request for a coupon leaves for a review that is under appeal, badly *)
(* rated for its quality, referred to a human, or outside the campaign's   *)
(* constraints, whatever the model decided.                                *)
OnlyPermittedGrants ==
    \A f \in Finalizations : fin[f].attempt > 0 => Permitted(fin[f].input)

(* A decision is stored as granted only if the coupon exists, and then it  *)
(* says GRANT_COUPON without a human in the loop.                          *)
StoredGrantIsReal ==
    \A s \in stored :
        /\ s.couponGranted => coupons > 0 /\ s.decision.action = "GRANT_COUPON"
                                          /\ ~s.decision.needHumanReview
        /\ s.couponGranted <=> s.status = "GRANTED"

(* A coupon that a call obtained, and about which it was not left unsure,  *)
(* is in the decision that the call reports as stored.                     *)
KnownGrantIsStored ==
    \A f \in Finalizations :
        fin[f].result = "ok" /\ issuedTo = f /\ ~fin[f].unsure =>
            \E s \in stored : s.by = f /\ s.couponGranted

(* Between Acquire and Release a call owns the lock unless it ran out: no  *)
(* other call's Acquire, late Release or crash takes it away.  Hence two   *)
(* calls work on the review at once only if one of them lost its lock; that *)
(* one may succeed too, until the next tick of its lease.                  *)
LockExclusion ==
    \A f \in Finalizations : Holds(f) /\ f \notin lost => lock = f

-----------------------------------------------------------------------------
(* The inductive strengthening behind the safety properties above.         *)

(* The coupon service knows the review's key once it has issued a coupon.  *)
CouponOnce ==
    \/ coupons = 0 /\ grantKeys = {} /\ issuedTo = Nobody
    \/ coupons = 1 /\ grantKeys = {<<Review>>} /\ issuedTo # Nobody

(* What a call has established at each point.                              *)
Shape(c) ==
    /\ c.pc = "idle" => c = IdleCall
    /\ c.pc \in {"lock", "decide"} =>
          /\ ~c.outcome.attempted
          /\ c.decision = ApplyDecisionGuard(c.input.decision, c.input.facts)
          /\ c.input.context.known
    /\ c.pc \in {"lock", "decide", "send", "wait", "backoff", "store"} => c.result = "none"
    /\ c.pc \in {"send", "wait", "backoff"} => c.attempt > 0 /\ ~c.outcome.attempted
    /\ c.pc = "backoff" => c.attempt < MaxAttempts
    /\ c.outcome.attempted => c.attempt > 0
    /\ c.outcome.success => c.outcome.attempted
    /\ c.outcome.success <=> c.outcome.status = "GRANTED"
    /\ c.attempt > 0 => /\ c.decision.action = "GRANT_COUPON" /\ ~c.decision.needHumanReview
                        /\ Permitted(c.input)

CallShape == \A f \in Finalizations : Shape(fin[f])

(* A success that a call has seen is a coupon that exists.                 *)
SuccessIsReal == \A f \in Finalizations : fin[f].outcome.success => coupons > 0

(* A call that was never left unsure awaits each of its requests that are  *)
(* still on their way; if it has earned the coupon, it is going to hear of *)
(* it, be left unsure, or has taken note of it.                            *)
Informed(f) ==
    fin[f].result # "error" /\ ~fin[f].unsure =>
        /\ \A q \in inflight : q.by = f => Awaits(f, q)
        /\ issuedTo = f =>
              \/ fin[f].pc = "wait" /\ \A q \in inflight : q.by # f
              \/ /\ fin[f].pc \in {"store", "release", "end"} /\ fin[f].outcome.success
                 /\ fin[f].result = "ok" => \E s \in stored : s.by = f /\ s.couponGranted

AllInformed == \A f \in Finalizations : Informed(f)

FinalizerInv ==
    /\ TypeOK
    /\ CouponOnce
    /\ CallShape
    /\ SuccessIsReal
    /\ StoredGrantIsReal
    /\ LockExclusion
    /\ AllInformed

-----------------------------------------------------------------------------
(* An expectation of the repository's documents that the code does not meet. *)

(* "timeout after request: query/persist by idempotency key before retry"  *)
(* (docs/agent_storage_and_idempotency.md): a call that ends without error *)
(* has not recorded as failed a grant that its own request obtained.       *)
TimedOutGrantIsResolved ==
    \A f \in Finalizations : fin[f].result = "ok" /\ issuedTo = f /\ inflight = {} =>
        \A s \in stored : s.by = f => s.status # "GRANT_FAILED"

-----------------------------------------------------------------------------
(* Liveness.  HTTP calls have timeouts, the retry loop is finite, the lock *)
(* has a time to live, and the goroutine is scheduled.                     *)

Fairness ==
    /\ \A f \in Finalizations : WF_vars(Step(f))
    /\ WF_vars(ExpireLock)

FairSpec == Spec /\ Fairness

(* Every call of Finalize returns.                                         *)
EveryCallReturns ==
    \A f \in Finalizations : fin[f].pc # "idle" ~> fin[f].pc = "end"

(* The review does not stay locked.                                        *)
EventuallyUnlocked == []<>(lock = Nobody)
=============================================================================

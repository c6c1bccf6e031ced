------------------------------ MODULE LLMGuard ------------------------------
(***************************************************************************)
(* GuardedLLMClient.Chat (internal/resilience/llm_client.go) called by the *)
(* concurrent executions of one process: first a token of the local        *)
(* TokenBucket (token_bucket.go), then the circuit breaker, then the call  *)
(* of the language model.                                                  *)
(*                                                                         *)
(* Time is a discrete Tick.  The code keeps instants and compares them     *)
(* with time.Now() when it is called, so what is kept here is the distance *)
(* to them: ticks since lastRefill and ticks left of a timer, a deadline   *)
(* or an expiry.  A timer that has run out may be noticed arbitrarily      *)
(* late.  Tokens are fractions in the code; here they are counted in units *)
(* of 1/Unit.                                                              *)
(*                                                                         *)
(* The breaker is the library gobreaker, modelled from the settings that   *)
(* NewGuardedLLMClient passes and the calls it makes.  Its generation      *)
(* number only tells whether a reply belongs to the current period of the  *)
(* breaker: "calls" holds the callers whose running call does.             *)
(***************************************************************************)
EXTENDS Naturals, FiniteSets, FiniteSetsExt

CONSTANTS
    Callers,             \* goroutines that call Chat
    Guards,              \* which guards an instance may have enabled
    Unit, Rate, Burst,   \* units per token, units per tick, tokens
    WaitTimeout,         \* ticks
    CircuitMaxRequests, CircuitInterval, CircuitTimeout, FailureThreshold,
    Window               \* number of latest ticks whose admissions are counted

ASSUME GuardAssumption ==
    /\ Guards \subseteq [limiter : BOOLEAN, breaker : BOOLEAN]
    /\ {Unit, Rate, Burst, WaitTimeout, CircuitMaxRequests, CircuitInterval,
        CircuitTimeout, FailureThreshold, Window} \subseteq Nat \ {0}

VARIABLES
    guard,     \* limiter and breaker are not nil
    bucket,    \* tokens, and ticks since lastRefill
    breaker,   \* gobreaker's state, expiry and counts
    pc,        \* where each Chat is
    timer,     \* ticks left of the caller's timer in Wait
    deadline,  \* ticks left of the caller's waitCtx
    recent     \* admissions of the bucket in the latest ticks, 1 is the current one

vars == <<guard, bucket, breaker, pc, timer, deadline, recent>>

Capacity == Burst * Unit
Passed(n) == IF n = 0 THEN 0 ELSE n - 1
Ceiling(m, n) == (m + n - 1) \div n

(* Ticks that fill any bucket: more of them make no difference.            *)
MaxElapsed == Ceiling(Capacity, Rate)
MaxWait == Ceiling(Unit, Rate)

(* A new period of the breaker: counts cleared, expiry set.                *)
NewGeneration(state) ==
    [state |-> state,
     expiry |-> CASE state = "closed" -> CircuitInterval
                  [] state = "open" -> CircuitTimeout
                  [] state = "half-open" -> 0,
     requests |-> 0, failures |-> 0, successes |-> 0, calls |-> {}]

Init ==
    /\ guard \in Guards
    /\ bucket = [tokens |-> Capacity, elapsed |-> 0]
    /\ breaker = NewGeneration("closed")
    /\ pc = [c \in Callers |-> "idle"]
    /\ timer = [c \in Callers |-> 0]
    /\ deadline = [c \in Callers |-> 0]
    /\ recent = [n \in 1 .. Window |-> 0]

-----------------------------------------------------------------------------
(* Chat and the token bucket.                                              *)

(* Faulty variant: the breaker is asked before the caller waits for a      *)
(* token.                                                                  *)
BadAfter(phase) ==
    CASE phase = "idle" -> IF guard.breaker THEN "breaker"
                           ELSE IF guard.limiter THEN "limit" ELSE "call"
      [] phase = "breaker" -> IF guard.limiter THEN "limit" ELSE "call"
      [] phase = "limit" -> "call"

(* The next phase of Chat; a guard that is not configured is left out.     *)
After(phase) ==
    CASE phase = "idle" -> IF guard.limiter THEN "limit"
                           ELSE IF guard.breaker THEN "breaker" ELSE "call"
      [] phase = "limit" -> IF guard.breaker THEN "breaker" ELSE "call"
      [] phase = "breaker" -> "call"

Chat(c) ==
    /\ pc[c] = "idle"
    /\ pc' = [pc EXCEPT ![c] = After("idle")]
    /\ deadline' = [deadline EXCEPT ![c] = IF guard.limiter THEN WaitTimeout ELSE 0]
    /\ UNCHANGED <<guard, bucket, breaker, timer, recent>>

(* Faulty variant: lastRefill is not moved, the same ticks count again.    *)
BadRefilled ==
    [bucket EXCEPT !.tokens = Min({Capacity, @ + bucket.elapsed * Rate})]

(* refillLocked.                                                           *)
Refilled ==
    [tokens |-> Min({Capacity, bucket.tokens + bucket.elapsed * Rate}), elapsed |-> 0]

(* A round of the loop in Wait finds a token ...                           *)
Allow(c) ==
    /\ pc[c] = "limit"
    /\ Refilled.tokens >= Unit
    /\ bucket' = [Refilled EXCEPT !.tokens = @ - Unit]
    /\ recent' = [recent EXCEPT ![1] = @ + 1]
    /\ deadline' = [deadline EXCEPT ![c] = 0]
    /\ pc' = [pc EXCEPT ![c] = After("limit")]
    /\ UNCHANGED <<guard, breaker, timer>>

(* ... or none, and looks up the time to wait in a second critical         *)
(* section, before which other callers may have changed the tokens.        *)
Refuse(c) ==
    /\ pc[c] = "limit"
    /\ Refilled.tokens < Unit
    /\ bucket' = Refilled
    /\ pc' = [pc EXCEPT ![c] = "refused"]
    /\ UNCHANGED <<guard, breaker, timer, deadline, recent>>

Sleep(c) ==
    /\ pc[c] = "refused"
    /\ timer' = [timer EXCEPT ![c] = IF bucket.tokens >= Unit THEN 0
                                     ELSE Ceiling(Unit - bucket.tokens, Rate)]
    /\ pc' = [pc EXCEPT ![c] = "sleep"]
    /\ UNCHANGED <<guard, bucket, breaker, recent>>

(* Faulty variant: every round of the loop gets the whole WaitTimeout.     *)
BadNextWait(c) == Sleep(c) /\ deadline' = [deadline EXCEPT ![c] = WaitTimeout]

NextWait(c) == Sleep(c) /\ UNCHANGED deadline

(* The timer fires, and the loop tries again.                              *)
Wake(c) ==
    /\ pc[c] = "sleep"
    /\ timer[c] = 0
    /\ pc' = [pc EXCEPT ![c] = "limit"]
    /\ UNCHANGED <<guard, bucket, breaker, timer, deadline, recent>>

(* Wait returns an error, and Chat reports a rate limit.                   *)
GiveUp(c) ==
    /\ pc' = [pc EXCEPT ![c] = "idle"]
    /\ timer' = [timer EXCEPT ![c] = 0]
    /\ deadline' = [deadline EXCEPT ![c] = 0]
    /\ UNCHANGED <<guard, bucket, breaker, recent>>

(* waitCtx ends while the caller sleeps.                                   *)
TimeOut(c) == pc[c] = "sleep" /\ deadline[c] = 0 /\ GiveUp(c)

(* The caller's own context ends.                                          *)
Cancel(c) == pc[c] = "sleep" /\ deadline[c] > 0 /\ GiveUp(c)

-----------------------------------------------------------------------------
(* The circuit breaker and the call.                                       *)

(* The state, brought up to date by every call of the breaker.             *)
CurrentState ==
    CASE breaker.expiry = 0 /\ breaker.state = "closed" -> NewGeneration("closed")
      [] breaker.expiry = 0 /\ breaker.state = "open" -> NewGeneration("half-open")
      [] OTHER -> breaker

(* ReadyToTrip.                                                            *)
ReadyToTrip(failures) == failures >= FailureThreshold

Refuses(b) ==
    \/ b.state = "open"
    \/ b.state = "half-open" /\ b.requests >= CircuitMaxRequests

(* Execute before the call: refused, or counted (only the half-open state  *)
(* reads the count) and let through.  From here on the caller is at "call": *)
(* gobreaker decides under its mutex and calls after it, so another reply  *)
(* may open the breaker before the HTTP request of this caller leaves.     *)
Execute(c) ==
    /\ pc[c] = "breaker"
    /\ LET b == CurrentState
       IN  \/ /\ Refuses(b)
              /\ breaker' = b
              /\ pc' = [pc EXCEPT ![c] = "idle"]
           \/ /\ ~Refuses(b)
              /\ breaker' = [b EXCEPT !.requests = IF b.state = "half-open" THEN @ + 1 ELSE @,
                                      !.calls = @ \cup {c}]
              /\ pc' = [pc EXCEPT ![c] = After("breaker")]
    /\ UNCHANGED <<guard, bucket, timer, deadline, recent>>

(* Faulty variant: one success more than the probes that are let through.  *)
BadCloses(successes) == successes > CircuitMaxRequests

(* ConsecutiveSuccess of the configuration is not passed on: MaxRequests   *)
(* successes close the breaker.                                            *)
Closes(successes) == successes >= CircuitMaxRequests

Succeeded(b) ==
    CASE b.state = "closed" -> [b EXCEPT !.failures = 0]
      [] b.state = "half-open" -> IF Closes(b.successes + 1) THEN NewGeneration("closed")
                                  ELSE [b EXCEPT !.successes = @ + 1]

Failed(b) ==
    CASE b.state = "closed" -> IF ReadyToTrip(b.failures + 1) THEN NewGeneration("open")
                               ELSE [b EXCEPT !.failures = @ + 1]
      [] b.state = "half-open" -> NewGeneration("open")

(* Faulty variant: replies of an earlier period count as well.             *)
BadCounts(b, c) == b.state # "open"

(* The reply is to a call of the current period.                           *)
Counts(b, c) == c \in b.calls

(* The model answers, or the call fails or is cancelled: the breaker takes *)
(* any error for a failure, and ignores the reply to a call that began in  *)
(* an earlier period.                                                      *)
Reply(c, ok) ==
    /\ pc[c] = "call"
    /\ pc' = [pc EXCEPT ![c] = "idle"]
    /\ IF ~guard.breaker THEN UNCHANGED breaker
       ELSE LET b == CurrentState
                d == [b EXCEPT !.calls = @ \ {c}]
            IN  breaker' = IF ~Counts(b, c) THEN b
                           ELSE IF ok THEN Succeeded(d) ELSE Failed(d)
    /\ UNCHANGED <<guard, bucket, timer, deadline, recent>>

-----------------------------------------------------------------------------
Tick ==
    /\ bucket' = [bucket EXCEPT !.elapsed = Min({MaxElapsed, @ + 1})]
    /\ breaker' = [breaker EXCEPT !.expiry = Passed(@)]
    /\ timer' = [c \in Callers |-> Passed(timer[c])]
    /\ deadline' = [c \in Callers |-> Passed(deadline[c])]
    /\ recent' = [n \in 1 .. Window |-> IF n = 1 THEN 0 ELSE recent[n - 1]]
    /\ UNCHANGED <<guard, pc>>

Limiter(c) == Allow(c) \/ Refuse(c) \/ NextWait(c) \/ Wake(c)

Returns(c) == \E ok \in BOOLEAN : Reply(c, ok)

Next ==
    \/ \E c \in Callers :
          Chat(c) \/ Limiter(c) \/ TimeOut(c) \/ Cancel(c) \/ Execute(c) \/ Returns(c)
    \/ Tick

Spec == Init /\ [][Next]_vars

(* Goroutines run and time passes; the HTTP client of the model has a      *)
(* timeout, so its calls return.  A select with several ready cases picks  *)
(* one at random, so it does not prefer the timer for ever.                *)
FairSpec ==
    /\ Spec
    /\ WF_vars(Tick)
    /\ \A c \in Callers :
          WF_vars(Limiter(c)) /\ WF_vars(Execute(c)) /\ WF_vars(Returns(c)) /\ SF_vars(TimeOut(c))

-----------------------------------------------------------------------------
Phases == {"idle", "limit", "refused", "sleep", "breaker", "call"}

(* The variables have their types, and no bucket holds more than the burst. *)
TypeOK ==
    /\ guard \in Guards
    /\ bucket \in [tokens : 0 .. Capacity, elapsed : 0 .. MaxElapsed]
    /\ breaker \in [state : {"closed", "open", "half-open"},
                    expiry : 0 .. CircuitInterval + CircuitTimeout,
                    requests : 0 .. CircuitMaxRequests, failures : 0 .. FailureThreshold,
                    successes : 0 .. CircuitMaxRequests, calls : SUBSET Callers]
    /\ pc \in [Callers -> Phases]
    /\ timer \in [Callers -> 0 .. MaxWait]
    /\ deadline \in [Callers -> 0 .. WaitTimeout]
    /\ recent \in [1 .. Window -> Nat]

(* Sums(counts)[n] is the sum of the first n counts.                       *)
Sums(counts) ==
    LET Sum[n \in 0 .. Window] == IF n = 0 THEN 0 ELSE Sum[n - 1] + counts[n]
    IN  Sum

(* What the limiter promises the model's provider: in any n consecutive    *)
(* ticks, however the callers wait and steal each other's tokens, no more  *)
(* than the burst and what n - 1 ticks refill are let through.             *)
RateBound ==
    \A n \in 1 .. Window : Sums(recent)[n] * Unit <= Capacity + (n - 1) * Rate

(* Nobody is let through to the model while the breaker is open and its    *)
(* timeout has not passed, not even a caller that asked for a token before *)
(* the breaker opened.  One that was let through before it opened may      *)
(* still be about to call.                                                 *)
QuietWhileOpen ==
    [][\A c \in Callers :
          pc[c] # "call" /\ pc'[c] = "call" /\ guard.breaker
              => ~(breaker.state = "open" /\ breaker.expiry > 0)]_vars

(* While the breaker probes, every call it let through is still running or *)
(* has succeeded, whatever replies of earlier periods come in: no probe is *)
(* lost, so the last reply decides.                                        *)
ProbesAccounted ==
    breaker.state = "half-open" =>
        Cardinality(breaker.calls) + breaker.successes = breaker.requests

(* Every Chat returns: a caller gets its token, or gives up at WaitTimeout *)
(* although others keep taking the tokens it wakes up for.                 *)
EveryChatReturns == \A c \in Callers : pc[c] # "idle" ~> pc[c] = "idle"

(* A half-open breaker that has let all its probes through is closed or    *)
(* opened by their replies; it does not refuse every caller for ever.      *)
ProbesSettle ==
    breaker.state = "half-open" /\ breaker.requests = CircuitMaxRequests
        ~> breaker.state # "half-open"

-----------------------------------------------------------------------------
(* The inductive strengthening of the safety properties.                   *)

(* The tokens at hand count against the bound as if they had been taken.   *)
TokensBound ==
    \A n \in 1 .. Window :
        Sums(recent)[n] * Unit + Refilled.tokens <= Capacity + (n - 1) * Rate

(* The calls that the breaker counts are running: a caller asks it only    *)
(* after its previous call has been taken off.  An open breaker has none,  *)
(* and neither has the one that is not configured.                         *)
CallsRun ==
    /\ IsFiniteSet(breaker.calls)
    /\ \A c \in breaker.calls : pc[c] = "call"
    /\ breaker.state = "open" => breaker.calls = {}
    /\ ~guard.breaker => breaker.calls = {} /\ \A c \in Callers : pc[c] # "breaker"

GuardInv == TypeOK /\ TokensBound /\ CallsRun /\ ProbesAccounted
=============================================================================

---------------------------- MODULE LLMGuardProofs ----------------------------
(* The rate limiter and the circuit breaker, for any number of callers and *)
(* any configuration.                                                      *)
EXTENDS LLMGuard, FiniteSetTheorems, WellFoundedInduction, TLAPS

-----------------------------------------------------------------------------
(* Numbers.                                                                *)

LEMMA Configuration ==
    /\ Unit \in Nat \ {0} /\ Rate \in Nat \ {0} /\ Burst \in Nat \ {0}
    /\ WaitTimeout \in Nat \ {0} /\ CircuitMaxRequests \in Nat \ {0}
    /\ CircuitInterval \in Nat \ {0} /\ CircuitTimeout \in Nat \ {0}
    /\ FailureThreshold \in Nat \ {0} /\ Window \in Nat \ {0}
    BY GuardAssumption

LEMMA CapacityType == Capacity \in Nat
    BY Configuration DEF Capacity

LEMMA MinOfTwo ==
    ASSUME NEW m \in Nat, NEW n \in Nat
    PROVE  Min({m, n}) = IF m <= n THEN m ELSE n
<1> DEFINE least == IF m <= n THEN m ELSE n
<1>1. least \in {m, n} /\ \A y \in {m, n} : least <= y
    OBVIOUS
<1>2. \A x \in {m, n} : (\A y \in {m, n} : x <= y) => x = least
    OBVIOUS
<1> QED
    BY <1>1, <1>2 DEF Min

(* Ceiling(m, n) is m / n rounded up.                                      *)
LEMMA CeilingCovers ==
    ASSUME NEW m \in Nat, NEW n \in Nat \ {0}
    PROVE  Ceiling(m, n) \in Nat /\ Ceiling(m, n) * n >= m
<1> DEFINE q == (m + n - 1) \div n
           r == (m + n - 1) % n
<1>1. m + n - 1 \in Nat
    OBVIOUS
<1>2. q \in Nat /\ r \in 0 .. n - 1
    BY <1>1
<1>3. m + n - 1 = n * q + r
    BY <1>1
<1> HIDE DEF q, r
<1>4. n * q = q * n
    BY <1>2
<1>5. q * n >= m
    BY <1>2, <1>3, <1>4
<1> QED
    BY <1>2, <1>5 DEF Ceiling, q

LEMMA CeilingMonotone ==
    ASSUME NEW m \in Nat, NEW k \in Nat, k <= m, NEW n \in Nat \ {0}
    PROVE  Ceiling(k, n) <= Ceiling(m, n)
<1> QED BY DEF Ceiling

(* Induction over the naturals, for a set of them instead of a predicate:  *)
(* the least number that were missing would follow one that is not.        *)
LEMMA Induction ==
    ASSUME NEW T \in SUBSET Nat, 0 \in T, \A n \in T : n + 1 \in T
    PROVE  T = Nat
<1> DEFINE R == OpToRel(<, Nat)
           Rest == Nat \ T
<1>1. SUFFICES ASSUME Rest # {} PROVE FALSE
    OBVIOUS
<1>2. IsWellFoundedOn(R, Nat)
    BY NatLessThanWellFounded
<1>3. \A x, y \in Nat : <<y, x>> \in R <=> y < x
    BY DEF OpToRel
<1> HIDE DEF R
<1>4. \E x \in Rest : \A y \in Rest : <<y, x>> \notin R
    BY <1>1, <1>2, WFMin
<1>5. PICK x \in Rest : \A y \in Rest : <<y, x>> \notin R
    BY <1>4
<1>6. x # 0 /\ x \in Nat /\ x - 1 \in Nat
    OBVIOUS
<1>7. x - 1 \in T
    <2>1. <<x - 1, x>> \in R
        BY <1>3, <1>6
    <2> QED
        BY <1>5, <1>6, <2>1
<1>8. (x - 1) + 1 \in T
    BY <1>7
<1>9. (x - 1) + 1 = x /\ x \notin T
    BY <1>6
<1> QED
    BY <1>8, <1>9

-----------------------------------------------------------------------------
(* Admissions.                                                             *)

LEMMA SumsExist ==
    ASSUME NEW counts \in [1 .. Window -> Nat]
    PROVE  \E sum \in [0 .. Window -> Nat] :
              sum = [n \in 0 .. Window |-> IF n = 0 THEN 0 ELSE sum[n - 1] + counts[n]]
<1> USE Configuration
<1> DEFINE IsSum(sum, m) ==
              sum[0] = 0 /\ \A n \in 1 .. m : sum[n] = sum[n - 1] + counts[n]
           Exists(m) == \E sum \in [0 .. m -> Nat] : IsSum(sum, m)
           T == {m \in Nat : m <= Window => Exists(m)}
<1>1. Exists(0)
    <2> DEFINE sum == [n \in 0 .. 0 |-> 0]
    <2>1. sum \in [0 .. 0 -> Nat] /\ IsSum(sum, 0)
        OBVIOUS
    <2> QED
        BY <2>1
<1>2. ASSUME NEW m \in Nat, m + 1 <= Window, Exists(m) PROVE Exists(m + 1)
    <2>1. PICK sum \in [0 .. m -> Nat] : IsSum(sum, m)
        BY <1>2
    <2> DEFINE next == [n \in 0 .. m + 1 |-> IF n <= m THEN sum[n] ELSE sum[m] + counts[n]]
    <2>2. next \in [0 .. m + 1 -> Nat] /\ next[0] = 0
        BY <1>2, <2>1
    <2>3. ASSUME NEW n \in 1 .. m + 1 PROVE next[n] = next[n - 1] + counts[n]
        <3>1. CASE n <= m
            BY <2>1, <3>1
        <3>2. CASE n = m + 1
            <4>1. next[n] = sum[m] + counts[n]
                BY <3>2
            <4>2. n - 1 = m /\ next[m] = sum[m]
                BY <3>2
            <4> QED
                BY <4>1, <4>2
        <3> QED
            BY <3>1, <3>2
    <2> QED
        BY <2>2, <2>3
<1> HIDE DEF Exists
<1>3. 0 \in T /\ T \in SUBSET Nat /\ \A m \in T : m + 1 \in T
    BY <1>1, <1>2
<1>4. T = Nat
    <2> HIDE DEF T
    <2> QED BY <1>3, Induction
<1>5. Exists(Window)
    <2>1. Window \in T
        BY <1>4
    <2> QED
        BY <2>1
<1> PICK sum \in [0 .. Window -> Nat] : IsSum(sum, Window)
    BY <1>5 DEF Exists
<1>6. sum = [n \in 0 .. Window |-> IF n = 0 THEN 0 ELSE sum[n - 1] + counts[n]]
    OBVIOUS
<1> QED
    BY <1>6

(* The recursive definition of the sums computes them.                     *)
LEMMA SumsAre ==
    ASSUME NEW counts \in [1 .. Window -> Nat]
    PROVE  /\ Sums(counts)[0] = 0
           /\ \A n \in 1 .. Window :
                 Sums(counts)[n] = Sums(counts)[n - 1] + counts[n]
           /\ \A n \in 0 .. Window : Sums(counts)[n] \in Nat
<1> DEFINE IsSum(sum) ==
        sum = [n \in 0 .. Window |-> IF n = 0 THEN 0 ELSE sum[n - 1] + counts[n]]
<1>1. \E sum : IsSum(sum)
    BY SumsExist
<1>2. IsSum(Sums(counts))
    BY <1>1 DEF Sums
<1> DEFINE sum == Sums(counts)
           T == {n \in Nat : n <= Window => sum[n] \in Nat}
<1> HIDE DEF sum
<1>3. /\ sum[0] = 0
      /\ \A n \in 1 .. Window : sum[n] = sum[n - 1] + counts[n]
    BY <1>2, Configuration DEF sum
<1>4. 0 \in T /\ T \in SUBSET Nat /\ \A n \in T : n + 1 \in T
    <2>1. ASSUME NEW n \in T PROVE n + 1 \in T
        <3>1. n + 1 <= Window => sum[n + 1] = sum[n] + counts[n + 1]
            BY <1>3, Configuration
        <3> QED
            BY <3>1, Configuration
    <2> QED
        BY <1>3, <2>1
<1>5. T = Nat
    <2> HIDE DEF T
    <2> QED BY <1>4, Induction
<1>6. \A n \in 0 .. Window : sum[n] \in Nat
    BY <1>5, Configuration
<1> QED
    BY <1>3, <1>6 DEF sum

(* One more admission in the current tick is one more in every sum.        *)
LEMMA SumsOfOneMore ==
    ASSUME NEW counts \in [1 .. Window -> Nat], NEW n \in 1 .. Window
    PROVE  Sums([counts EXCEPT ![1] = @ + 1])[n] = Sums(counts)[n] + 1
<1> USE Configuration
<1> DEFINE more == [counts EXCEPT ![1] = @ + 1]
           sum == Sums(counts)
           sum2 == Sums(more)
           T == {m \in Nat : m + 1 <= Window => sum2[m + 1] = sum[m + 1] + 1}
<1>1. /\ more \in [1 .. Window -> Nat] /\ more[1] = counts[1] + 1
      /\ \A m \in 2 .. Window : more[m] = counts[m]
    OBVIOUS
<1>2. /\ sum[0] = 0 /\ \A m \in 1 .. Window : sum[m] = sum[m - 1] + counts[m]
      /\ \A m \in 0 .. Window : sum[m] \in Nat
    BY SumsAre
<1>3. /\ sum2[0] = 0 /\ \A m \in 1 .. Window : sum2[m] = sum2[m - 1] + more[m]
    BY <1>1, SumsAre
<1> HIDE DEF more, sum, sum2
<1>4. 0 \in T
    <2>1. sum[1] = sum[0] + counts[1] /\ sum2[1] = sum2[0] + more[1]
        BY <1>2, <1>3
    <2> QED
        BY <1>1, <1>2, <1>3, <2>1
<1>5. ASSUME NEW m \in T PROVE m + 1 \in T
    <2>1. SUFFICES ASSUME m + 2 <= Window PROVE sum2[m + 2] = sum[m + 2] + 1
        OBVIOUS
    <2>2. sum[m + 2] = sum[m + 1] + counts[m + 2] /\ sum2[m + 2] = sum2[m + 1] + more[m + 2]
        BY <1>2, <1>3, <2>1
    <2>3. more[m + 2] = counts[m + 2] /\ sum2[m + 1] = sum[m + 1] + 1
        BY <1>1, <2>1
    <2>4. sum[m + 1] \in Nat /\ counts[m + 2] \in Nat
        BY <1>2, <2>1
    <2> QED
        BY <2>2, <2>3, <2>4
<1>6. T = Nat
    <2>1. T \in SUBSET Nat
        OBVIOUS
    <2> HIDE DEF T
    <2> QED BY <1>4, <1>5, <2>1, Induction
<1>7. n - 1 \in T /\ (n - 1) + 1 = n
    <2> HIDE DEF T
    <2> QED BY <1>6
<1> QED
    BY <1>7 DEF sum, sum2, more

(* A tick moves every count one place on.                                  *)
LEMMA SumsOfShift ==
    ASSUME NEW counts \in [1 .. Window -> Nat], NEW n \in 1 .. Window
    PROVE  Sums([k \in 1 .. Window |-> IF k = 1 THEN 0 ELSE counts[k - 1]])[n]
               = Sums(counts)[n - 1]
<1> USE Configuration
<1> DEFINE moved == [k \in 1 .. Window |-> IF k = 1 THEN 0 ELSE counts[k - 1]]
           sum == Sums(counts)
           sum2 == Sums(moved)
           T == {m \in Nat : m + 1 <= Window => sum2[m + 1] = sum[m]}
<1>1. /\ moved \in [1 .. Window -> Nat] /\ moved[1] = 0
      /\ \A m \in 2 .. Window : moved[m] = counts[m - 1]
    OBVIOUS
<1>2. /\ sum[0] = 0 /\ \A m \in 1 .. Window : sum[m] = sum[m - 1] + counts[m]
    BY SumsAre
<1>3. /\ sum2[0] = 0 /\ \A m \in 1 .. Window : sum2[m] = sum2[m - 1] + moved[m]
    BY <1>1, SumsAre
<1> HIDE DEF moved, sum, sum2
<1>4. 0 \in T
    <2>1. sum2[1] = sum2[0] + moved[1]
        BY <1>3
    <2> QED
        BY <1>1, <1>2, <1>3, <2>1
<1>5. ASSUME NEW m \in T PROVE m + 1 \in T
    <2>1. SUFFICES ASSUME m + 2 <= Window PROVE sum2[m + 2] = sum[m + 1]
        OBVIOUS
    <2>2. sum[m + 1] = sum[m] + counts[m + 1] /\ sum2[m + 2] = sum2[m + 1] + moved[m + 2]
        BY <1>2, <1>3, <2>1
    <2>3. moved[m + 2] = counts[m + 1] /\ sum2[m + 1] = sum[m]
        BY <1>1, <2>1
    <2> QED
        BY <2>2, <2>3
<1>6. T = Nat
    <2>1. T \in SUBSET Nat
        OBVIOUS
    <2> HIDE DEF T
    <2> QED BY <1>4, <1>5, <2>1, Induction
<1>7. n - 1 \in T /\ (n - 1) + 1 = n
    <2> HIDE DEF T
    <2> QED BY <1>6
<1> QED
    BY <1>7 DEF sum, sum2, moved

LEMMA SumsOfNothing ==
    ASSUME NEW n \in 0 .. Window
    PROVE  Sums([k \in 1 .. Window |-> 0])[n] = 0
<1> USE Configuration
<1> DEFINE none == [k \in 1 .. Window |-> 0]
           sum == Sums(none)
           T == {m \in Nat : m <= Window => sum[m] = 0}
<1>1. sum[0] = 0 /\ \A m \in 1 .. Window : sum[m] = sum[m - 1] + none[m]
    BY SumsAre
<1>2. \A m \in 1 .. Window : none[m] = 0
    OBVIOUS
<1> HIDE DEF none, sum
<1>3. ASSUME NEW m \in T PROVE m + 1 \in T
    <2>1. SUFFICES ASSUME m + 1 <= Window PROVE sum[m + 1] = 0
        OBVIOUS
    <2>2. sum[m + 1] = sum[m] + none[m + 1] /\ none[m + 1] = 0
        BY <1>1, <1>2, <2>1
    <2> QED
        BY <2>1, <2>2
<1>4. T = Nat
    <2>1. T \in SUBSET Nat /\ 0 \in T
        BY <1>1
    <2> HIDE DEF T
    <2> QED BY <1>3, <2>1, Induction
<1> QED
    BY <1>4 DEF sum, none

-----------------------------------------------------------------------------
(* The bucket.                                                             *)

Buckets == [tokens : 0 .. Capacity, elapsed : 0 .. MaxElapsed]

LEMMA RefillOf ==
    ASSUME NEW b \in Buckets
    PROVE  /\ MaxElapsed \in Nat
           /\ Min({Capacity, b.tokens + b.elapsed * Rate}) \in 0 .. Capacity
           /\ Min({Capacity, b.tokens + b.elapsed * Rate})
                  = IF Capacity <= b.tokens + b.elapsed * Rate
                    THEN Capacity ELSE b.tokens + b.elapsed * Rate
<1>1. MaxElapsed \in Nat /\ Capacity \in Nat
    BY CapacityType, CeilingCovers, Configuration DEF MaxElapsed
<1>2. b.tokens \in Nat /\ b.elapsed \in Nat
    BY <1>1 DEF Buckets
<1>3. b.elapsed * Rate \in Nat
    BY <1>2, Configuration
<1> DEFINE sum == b.tokens + b.elapsed * Rate
<1>4. sum \in Nat
    BY <1>2, <1>3
<1> HIDE DEF sum
<1>5. Min({Capacity, sum}) = IF Capacity <= sum THEN Capacity ELSE sum
    BY <1>1, <1>4, MinOfTwo
<1>6. Min({Capacity, sum}) \in 0 .. Capacity
    BY <1>1, <1>4, <1>5
<1> QED
    BY <1>1, <1>5, <1>6 DEF sum

LEMMA RefilledTokens ==
    ASSUME bucket \in Buckets
    PROVE  /\ MaxElapsed \in Nat
           /\ Refilled \in [tokens : 0 .. Capacity, elapsed : {0}]
           /\ Refilled.tokens = IF Capacity <= bucket.tokens + bucket.elapsed * Rate
                                THEN Capacity ELSE bucket.tokens + bucket.elapsed * Rate
    BY RefillOf DEF Refilled

(* The bound on the ticks since the last refill changes nothing: as many   *)
(* fill any bucket.                                                        *)
LEMMA ElapsedBoundIsExact ==
    ASSUME NEW tokens \in Nat, NEW elapsed \in Nat, elapsed >= MaxElapsed
    PROVE  Min({Capacity, tokens + elapsed * Rate}) = Min({Capacity, tokens + MaxElapsed * Rate})
<1>1. /\ Capacity \in Nat /\ MaxElapsed \in Nat /\ MaxElapsed * Rate \in Nat
      /\ MaxElapsed * Rate >= Capacity
    BY CapacityType, CeilingCovers, Configuration DEF MaxElapsed
<1>2. PICK more \in Nat : elapsed = MaxElapsed + more
    <2>1. elapsed - MaxElapsed \in Nat /\ elapsed = MaxElapsed + (elapsed - MaxElapsed)
        BY <1>1
    <2> QED
        BY <2>1
<1>3. elapsed * Rate = MaxElapsed * Rate + more * Rate /\ more * Rate \in Nat
    BY <1>1, <1>2, Configuration
<1>4. /\ tokens + elapsed * Rate \in Nat /\ tokens + elapsed * Rate >= Capacity
      /\ tokens + MaxElapsed * Rate \in Nat /\ tokens + MaxElapsed * Rate >= Capacity
    BY <1>1, <1>3
<1> QED
    BY <1>1, <1>4, MinOfTwo

(* What is in the bucket is left alone by most steps.                      *)
LEMMA SameBucket ==
    ASSUME TokensBound, UNCHANGED <<bucket, recent>>
    PROVE  TokensBound'
    BY DEF TokensBound, Refilled

(* A refill that a refused caller makes is the one that would follow.      *)
LEMMA RefuseBound ==
    ASSUME TypeOK, TokensBound, bucket' = Refilled, UNCHANGED recent
    PROVE  TokensBound'
<1>1. /\ Refilled \in [tokens : 0 .. Capacity, elapsed : {0}] /\ MaxElapsed \in Nat
    BY RefilledTokens DEF TypeOK, Buckets
<1>2. bucket' \in Buckets /\ bucket'.elapsed = 0
    BY <1>1 DEF Buckets
<1>3. Refilled.tokens' = Min({Capacity, bucket'.tokens + 0 * Rate})
    BY <1>2 DEF Refilled
<1>4. Refilled.tokens' = Refilled.tokens
    <2>1. bucket'.tokens \in Nat /\ bucket'.tokens <= Capacity /\ bucket'.tokens + 0 * Rate = bucket'.tokens
        BY <1>2, CapacityType, Configuration DEF Buckets
    <2>2. Min({Capacity, bucket'.tokens}) = bucket'.tokens
        BY <2>1, CapacityType, MinOfTwo
    <2> QED
        BY <1>3, <2>1, <2>2
<1> QED
    BY <1>4 DEF TokensBound

(* A token that is taken moves from the bucket to the admissions.          *)
LEMMA AllowBound ==
    ASSUME TypeOK, TokensBound, NEW c \in Callers, Allow(c)
    PROVE  TokensBound' /\ recent' \in [1 .. Window -> Nat] /\ bucket' \in Buckets
<1>1. recent \in [1 .. Window -> Nat] /\ bucket \in Buckets
    BY DEF TypeOK, Buckets
<1>2. /\ Refilled \in [tokens : 0 .. Capacity, elapsed : {0}] /\ MaxElapsed \in Nat
    BY <1>1, RefilledTokens
<1>3. /\ Refilled.tokens >= Unit /\ bucket' = [Refilled EXCEPT !.tokens = @ - Unit]
      /\ recent' = [recent EXCEPT ![1] = @ + 1]
    BY DEF Allow
<1>4. /\ bucket' \in Buckets
      /\ bucket'.elapsed = 0 /\ bucket'.tokens = Refilled.tokens - Unit
    BY <1>2, <1>3, CapacityType, Configuration DEF Buckets
<1>5. recent' \in [1 .. Window -> Nat]
    BY <1>1, <1>3, Configuration
<1>6. Refilled.tokens' = Refilled.tokens - Unit
    <2>1. bucket'.tokens \in Nat /\ bucket'.tokens <= Capacity /\ bucket'.tokens + 0 * Rate = bucket'.tokens
        BY <1>4, CapacityType, Configuration DEF Buckets
    <2>2. Refilled.tokens' = Min({Capacity, bucket'.tokens + 0 * Rate})
        BY <1>4 DEF Refilled
    <2>3. Min({Capacity, bucket'.tokens}) = bucket'.tokens
        BY <2>1, CapacityType, MinOfTwo
    <2> QED
        BY <1>4, <2>1, <2>2, <2>3
<1>7. ASSUME NEW n \in 1 .. Window
      PROVE  Sums(recent')[n] * Unit + Refilled.tokens' <= Capacity + (n - 1) * Rate
    <2>1. Sums(recent')[n] = Sums(recent)[n] + 1
        BY <1>1, <1>3, SumsOfOneMore
    <2>2. Sums(recent)[n] \in Nat
        BY <1>1, SumsAre
    <2>3. (Sums(recent)[n] + 1) * Unit = Sums(recent)[n] * Unit + Unit
        BY <2>2, Configuration
    <2>4. Sums(recent)[n] * Unit + Refilled.tokens <= Capacity + (n - 1) * Rate
        BY DEF TokensBound
    <2>5. Sums(recent)[n] * Unit \in Nat /\ (n - 1) * Rate \in Nat /\ Refilled.tokens \in Nat
        BY <1>2, <2>2, CapacityType, Configuration
    <2> QED
        BY <1>6, <2>1, <2>3, <2>4, <2>5, Configuration, CapacityType
<1> QED
    BY <1>4, <1>5, <1>7 DEF TokensBound

(* A tick adds at most Rate to the bucket, and to what may be taken.       *)
LEMMA TickBound ==
    ASSUME TypeOK, TokensBound, Tick
    PROVE  TokensBound' /\ recent' \in [1 .. Window -> Nat] /\ bucket' \in Buckets
<1>1. recent \in [1 .. Window -> Nat] /\ bucket \in Buckets
    BY DEF TypeOK, Buckets
<1> DEFINE moved == [n \in 1 .. Window |-> IF n = 1 THEN 0 ELSE recent[n - 1]]
<1>2. /\ bucket' = [bucket EXCEPT !.elapsed = Min({MaxElapsed, @ + 1})]
      /\ recent' = moved
    BY DEF Tick
<1>3. /\ MaxElapsed \in Nat /\ bucket.tokens \in 0 .. Capacity
      /\ bucket.elapsed \in 0 .. MaxElapsed
      /\ Refilled.tokens = IF Capacity <= bucket.tokens + bucket.elapsed * Rate
                           THEN Capacity ELSE bucket.tokens + bucket.elapsed * Rate
      /\ Refilled.tokens \in 0 .. Capacity
    BY <1>1, RefilledTokens DEF Buckets
<1>4. /\ bucket'.tokens = bucket.tokens
      /\ bucket'.elapsed \in 0 .. MaxElapsed /\ bucket'.elapsed <= bucket.elapsed + 1
      /\ bucket' \in Buckets
    <2>1. Min({MaxElapsed, bucket.elapsed + 1})
              = IF MaxElapsed <= bucket.elapsed + 1 THEN MaxElapsed ELSE bucket.elapsed + 1
        BY <1>3, MinOfTwo
    <2> DEFINE e == Min({MaxElapsed, bucket.elapsed + 1})
    <2>2. e \in 0 .. MaxElapsed /\ e <= bucket.elapsed + 1
        BY <1>3, <2>1
    <2>3. bucket' = [bucket EXCEPT !.elapsed = e]
        BY <1>2
    <2> HIDE DEF e
    <2> QED
        BY <1>1, <2>2, <2>3 DEF Buckets
<1>5. recent' \in [1 .. Window -> Nat]
    BY <1>1, <1>2, Configuration
<1>6. /\ Refilled.tokens' \in 0 .. Capacity
      /\ Refilled.tokens' <= Refilled.tokens + Rate
    <2>1. /\ Refilled.tokens' = IF Capacity <= bucket'.tokens + bucket'.elapsed * Rate
                                THEN Capacity ELSE bucket'.tokens + bucket'.elapsed * Rate
          /\ Refilled.tokens' \in 0 .. Capacity
        BY <1>4, RefillOf DEF Refilled
    <2>2. bucket'.elapsed * Rate <= (bucket.elapsed + 1) * Rate
        <3>1. PICK d \in Nat : bucket.elapsed + 1 = bucket'.elapsed + d
            <4>1. /\ bucket.elapsed + 1 - bucket'.elapsed \in Nat
                  /\ bucket.elapsed + 1 = bucket'.elapsed + (bucket.elapsed + 1 - bucket'.elapsed)
                BY <1>3, <1>4
            <4> QED
                BY <4>1
        <3>2. (bucket'.elapsed + d) * Rate = bucket'.elapsed * Rate + d * Rate /\ d * Rate \in Nat
              /\ bucket'.elapsed * Rate \in Nat
            BY <1>3, <1>4, Configuration
        <3> QED
            BY <3>1, <3>2
    <2>3. /\ (bucket.elapsed + 1) * Rate = bucket.elapsed * Rate + Rate
          /\ bucket.elapsed * Rate \in Nat /\ bucket'.elapsed * Rate \in Nat
        BY <1>3, <1>4, Configuration
    <2> QED
        BY <1>3, <1>4, <2>1, <2>2, <2>3, Configuration, CapacityType
<1>7. ASSUME NEW n \in 1 .. Window
      PROVE  Sums(recent')[n] * Unit + Refilled.tokens' <= Capacity + (n - 1) * Rate
    <2>1. Sums(recent')[n] = Sums(recent)[n - 1]
        BY <1>1, <1>2, SumsOfShift
    <2>2. Sums(recent)[0] = 0 /\ Sums(recent)[n - 1] \in Nat
        BY <1>1, SumsAre, Configuration
    <2>3. CASE n = 1
        BY <1>6, <2>1, <2>2, <2>3, CapacityType, Configuration
    <2>4. CASE n # 1
        <3>1. n - 1 \in 1 .. Window
            BY <2>4, Configuration
        <3>2. Sums(recent)[n - 1] * Unit + Refilled.tokens <= Capacity + (n - 1 - 1) * Rate
            BY <3>1 DEF TokensBound
        <3>3. (n - 1) * Rate = (n - 1 - 1) * Rate + Rate /\ (n - 1 - 1) * Rate \in Nat
              /\ Sums(recent)[n - 1] * Unit \in Nat
            BY <2>2, <3>1, Configuration
        <3> QED
            BY <1>3, <1>6, <2>1, <3>2, <3>3, CapacityType, Configuration
    <2> QED
        BY <2>3, <2>4
<1> QED
    BY <1>4, <1>5, <1>7 DEF TokensBound

-----------------------------------------------------------------------------
(* The breaker.                                                            *)

Breakers == [state : {"closed", "open", "half-open"},
             expiry : 0 .. CircuitInterval + CircuitTimeout,
             requests : 0 .. CircuitMaxRequests, failures : 0 .. FailureThreshold,
             successes : 0 .. CircuitMaxRequests, calls : SUBSET Callers]

(* A breaker whose counts agree with the calls it has let through.         *)
Accounted(b) ==
    /\ b \in Breakers
    /\ IsFiniteSet(b.calls)
    /\ b.state = "open" => b.calls = {}
    /\ b.state = "half-open" => Cardinality(b.calls) + b.successes = b.requests

LEMMA NewGenerationAccounted ==
    ASSUME NEW state \in {"closed", "open", "half-open"}
    PROVE  /\ Accounted(NewGeneration(state)) /\ NewGeneration(state).state = state
           /\ NewGeneration(state).calls = {}
<1> DEFINE expiry == CASE state = "closed" -> CircuitInterval
                       [] state = "open" -> CircuitTimeout
                       [] state = "half-open" -> 0
<1>1. expiry \in 0 .. CircuitInterval + CircuitTimeout
    BY Configuration
<1>2. IsFiniteSet({}) /\ Cardinality({}) = 0
    BY FS_EmptySet
<1>3. NewGeneration(state) = [state |-> state, expiry |-> expiry, requests |-> 0,
                              failures |-> 0, successes |-> 0, calls |-> {}]
    BY DEF NewGeneration
<1> HIDE DEF expiry
<1> QED
    BY <1>1, <1>2, <1>3, Configuration DEF Accounted, Breakers

(* Bringing the state up to date begins a new period or changes nothing;   *)
(* within its timeout an open breaker stays open.                          *)
LEMMA CurrentStateAccounted ==
    ASSUME Accounted(breaker)
    PROVE  /\ Accounted(CurrentState) /\ CurrentState.calls \subseteq breaker.calls
           /\ breaker.state = "open" /\ breaker.expiry > 0 => CurrentState.state = "open"
<1>1. breaker.state \in {"closed", "open", "half-open"} /\ breaker.expiry \in Nat
    BY Configuration DEF Accounted, Breakers
<1>2. CASE breaker.expiry = 0 /\ breaker.state = "closed"
    BY <1>2, NewGenerationAccounted DEF CurrentState
<1>3. CASE breaker.expiry = 0 /\ breaker.state = "open"
    BY <1>3, NewGenerationAccounted DEF CurrentState
<1>4. CASE ~(breaker.expiry = 0 /\ breaker.state \in {"closed", "open"})
    <2>1. CurrentState = breaker
        BY <1>4 DEF CurrentState
    <2> QED
        BY <2>1
<1> QED
    BY <1>1, <1>2, <1>3, <1>4

(* A call that is let through is counted.                                  *)
LEMMA LetThroughAccounted ==
    ASSUME NEW b, Accounted(b), ~Refuses(b), NEW c \in Callers, c \notin b.calls
    PROVE  Accounted([b EXCEPT !.requests = IF b.state = "half-open" THEN @ + 1 ELSE @,
                               !.calls = @ \cup {c}])
<1> DEFINE requests == IF b.state = "half-open" THEN b.requests + 1 ELSE b.requests
           calls == b.calls \cup {c}
           d == [b EXCEPT !.requests = requests, !.calls = calls]
<1>1. /\ b \in Breakers /\ b.requests \in Nat /\ b.successes \in Nat /\ IsFiniteSet(b.calls)
      /\ b.calls \in SUBSET Callers /\ b.requests <= CircuitMaxRequests
    BY Configuration DEF Accounted, Breakers
<1>2. requests \in 0 .. CircuitMaxRequests
    BY <1>1, Configuration DEF Refuses
<1>3. IsFiniteSet(calls) /\ Cardinality(calls) = Cardinality(b.calls) + 1
    BY <1>1, FS_AddElement
<1>4. Cardinality(b.calls) \in Nat
    BY <1>1, FS_CardinalityType
<1>5. /\ d \in Breakers /\ d.calls = calls /\ d.requests = requests
      /\ d.successes = b.successes /\ d.state = b.state
    BY <1>1, <1>2 DEF Breakers
<1>6. d.state # "open"
    BY <1>5 DEF Refuses
<1>7. d.state = "half-open" => Cardinality(d.calls) + d.successes = d.requests
    BY <1>1, <1>3, <1>4, <1>5 DEF Accounted
<1>8. Accounted(d)
    BY <1>3, <1>5, <1>6, <1>7 DEF Accounted
<1> QED
    BY <1>8

(* The reply to a call of this period takes it off, and counts instead of  *)
(* it or ends the period.                                                  *)
LEMMA ReplyAccounted ==
    ASSUME NEW b, Accounted(b), NEW c \in b.calls, NEW ok \in BOOLEAN
    PROVE  LET d == [b EXCEPT !.calls = @ \ {c}]
               a == IF ok THEN Succeeded(d) ELSE Failed(d)
           IN  Accounted(a) /\ c \notin a.calls /\ a.calls \subseteq b.calls
<1> DEFINE calls == b.calls \ {c}
           d == [b EXCEPT !.calls = calls]
           a == IF ok THEN Succeeded(d) ELSE Failed(d)
<1> SUFFICES Accounted(a) /\ c \notin a.calls /\ a.calls \subseteq b.calls
    OBVIOUS
<1>1. /\ b \in Breakers /\ IsFiniteSet(b.calls) /\ b.calls \in SUBSET Callers
      /\ b.state \in {"closed", "half-open"}
      /\ b.requests \in Nat /\ b.successes \in 0 .. CircuitMaxRequests
      /\ b.failures \in 0 .. FailureThreshold
    BY Configuration DEF Accounted, Breakers
<1>2. /\ IsFiniteSet(calls) /\ Cardinality(calls) = Cardinality(b.calls) - 1
      /\ calls \in SUBSET Callers /\ c \notin calls /\ calls \subseteq b.calls
    BY <1>1, FS_RemoveElement
<1>3. Cardinality(b.calls) \in Nat
    BY <1>1, FS_CardinalityType
<1>4. /\ d \in Breakers /\ d.calls = calls /\ d.state = b.state /\ d.successes = b.successes
      /\ d.failures = b.failures /\ d.requests = b.requests
    BY <1>1, <1>2 DEF Breakers
<1> HIDE DEF calls, d
<1>5. ASSUME NEW state \in {"closed", "open"}, a = NewGeneration(state)
      PROVE  Accounted(a) /\ c \notin a.calls /\ a.calls \subseteq b.calls
    BY <1>5, NewGenerationAccounted
<1>6. CASE b.state = "closed"
    <2>1. CASE ok
        <3>1. a = [d EXCEPT !.failures = 0]
            BY <1>4, <1>6, <2>1 DEF Succeeded
        <3>2. a \in Breakers /\ a.calls = calls /\ a.state = "closed"
            BY <1>4, <1>6, <3>1, Configuration DEF Breakers
        <3> QED
            BY <1>2, <3>2 DEF Accounted
    <2>2. CASE ~ok /\ ReadyToTrip(d.failures + 1)
        BY <1>4, <1>5, <1>6, <2>2 DEF Failed
    <2>3. CASE ~ok /\ ~ReadyToTrip(d.failures + 1)
        <3>1. a = [d EXCEPT !.failures = d.failures + 1]
            BY <1>4, <1>6, <2>3 DEF Failed, Breakers
        <3>2. d.failures + 1 \in 0 .. FailureThreshold
            BY <1>1, <1>4, <2>3, Configuration DEF ReadyToTrip
        <3>3. a \in Breakers /\ a.calls = calls /\ a.state = "closed"
            BY <1>4, <1>6, <3>1, <3>2 DEF Breakers
        <3> QED
            BY <1>2, <3>3 DEF Accounted
    <2> QED
        BY <2>1, <2>2, <2>3
<1>7. CASE b.state = "half-open"
    <2>1. CASE ~ok
        BY <1>4, <1>5, <1>7, <2>1 DEF Failed
    <2>2. CASE ok /\ Closes(d.successes + 1)
        BY <1>4, <1>5, <1>7, <2>2 DEF Succeeded
    <2>3. CASE ok /\ ~Closes(d.successes + 1)
        <3>1. a = [d EXCEPT !.successes = d.successes + 1]
            BY <1>4, <1>7, <2>3 DEF Succeeded, Breakers
        <3>2. d.successes + 1 \in 0 .. CircuitMaxRequests
            BY <1>1, <1>4, <2>3, Configuration DEF Closes
        <3>3. /\ a \in Breakers /\ a.calls = calls /\ a.state = "half-open"
              /\ a.successes = b.successes + 1 /\ a.requests = b.requests
            BY <1>4, <1>7, <3>1, <3>2 DEF Breakers
        <3>4. Cardinality(b.calls) + b.successes = b.requests
            BY <1>7 DEF Accounted
        <3>5. Cardinality(a.calls) + a.successes = a.requests
            BY <1>1, <1>2, <1>3, <3>3, <3>4
        <3> QED
            BY <1>2, <3>3, <3>5 DEF Accounted
    <2> QED
        BY <2>1, <2>2, <2>3
<1> QED
    BY <1>1, <1>6, <1>7

-----------------------------------------------------------------------------
(* The invariant, with what is said of the breaker in one place.           *)

CallersOK ==
    /\ pc \in [Callers -> Phases]
    /\ timer \in [Callers -> 0 .. MaxWait]
    /\ deadline \in [Callers -> 0 .. WaitTimeout]
    /\ ~guard.breaker => \A c \in Callers : pc[c] # "breaker"

BucketOK == bucket \in Buckets /\ recent \in [1 .. Window -> Nat] /\ TokensBound

BreakerOK ==
    /\ Accounted(breaker)
    /\ \A c \in breaker.calls : pc[c] = "call"
    /\ ~guard.breaker => breaker.calls = {}

LEMMA GuardParts == GuardInv <=> guard \in Guards /\ CallersOK /\ BucketOK /\ BreakerOK
    BY DEF GuardInv, TypeOK, CallsRun, ProbesAccounted, CallersOK, BucketOK, BreakerOK,
           Buckets, Breakers, Accounted

LEMMA GuardPartsPrime ==
    guard' \in Guards /\ CallersOK' /\ BucketOK' /\ BreakerOK' => GuardInv'
    BY DEF GuardInv, TypeOK, CallsRun, ProbesAccounted, CallersOK, BucketOK, BreakerOK,
           Buckets, Breakers, Accounted

(* A step of a caller whose call is not running leaves the breaker's calls *)
(* running.                                                                *)
LEMMA SameBreaker ==
    ASSUME CallersOK, BreakerOK, UNCHANGED <<breaker, guard>>, NEW c \in Callers, pc[c] # "call",
           NEW phase, pc' = [pc EXCEPT ![c] = phase]
    PROVE  BreakerOK'
<1>1. breaker.calls \in SUBSET Callers
    BY DEF BreakerOK, Accounted, Breakers
<1> QED
    BY <1>1 DEF BreakerOK, CallersOK

LEMMA SameBucketOK == BucketOK /\ UNCHANGED <<bucket, recent>> => BucketOK'
    BY SameBucket DEF BucketOK

LEMMA AfterPhases ==
    ASSUME guard \in Guards
    PROVE  /\ After("idle") \in {"limit", "breaker", "call"}
           /\ After("limit") \in {"breaker", "call"} /\ After("breaker") = "call"
           /\ ~guard.breaker => After("idle") # "breaker" /\ After("limit") = "call"
           /\ guard.breaker => After("idle") # "call" /\ After("limit") # "call"
    BY GuardAssumption DEF After

LEMMA WaitTypes == MaxWait \in Nat /\ \A k \in 0 .. Unit : Ceiling(k, Rate) \in 0 .. MaxWait
<1>1. MaxWait \in Nat
    BY CeilingCovers, Configuration DEF MaxWait
<1>2. ASSUME NEW k \in 0 .. Unit PROVE Ceiling(k, Rate) \in 0 .. MaxWait
    <2>1. k \in Nat /\ k <= Unit
        BY Configuration
    <2>2. Ceiling(k, Rate) \in Nat
        BY <2>1, CeilingCovers, Configuration
    <2>3. Ceiling(k, Rate) <= Ceiling(Unit, Rate)
        BY <2>1, CeilingMonotone, Configuration
    <2> QED
        BY <1>1, <2>2, <2>3 DEF MaxWait
<1> QED
    BY <1>1, <1>2

LEMMA GuardInit == Init => GuardInv
<1> SUFFICES ASSUME Init PROVE guard \in Guards /\ CallersOK /\ BucketOK /\ BreakerOK
    BY GuardParts
<1>1. guard \in Guards /\ CallersOK
    BY WaitTypes, Configuration DEF Init, CallersOK, Phases
<1>2. BucketOK
    <2>1. bucket \in Buckets /\ recent \in [1 .. Window -> Nat]
        BY RefillOf, CapacityType, CeilingCovers, Configuration DEF Init, Buckets, MaxElapsed
    <2>2. recent = [k \in 1 .. Window |-> 0]
        BY DEF Init
    <2>3. Refilled.tokens \in 0 .. Capacity
        BY <2>1, RefilledTokens
    <2>4. ASSUME NEW n \in 1 .. Window
          PROVE  Sums(recent)[n] * Unit + Refilled.tokens <= Capacity + (n - 1) * Rate
        <3>1. Sums(recent)[n] = 0
            BY <2>2, SumsOfNothing, Configuration
        <3>2. (n - 1) * Rate \in Nat /\ 0 * Unit = 0
            BY Configuration
        <3> QED
            BY <2>3, <3>1, <3>2, CapacityType
    <2> QED
        BY <2>1, <2>4 DEF BucketOK, TokensBound
<1>3. BreakerOK
    BY NewGenerationAccounted DEF Init, BreakerOK
<1> QED
    BY <1>1, <1>2, <1>3

LEMMA ChatStep ==
    ASSUME GuardInv, NEW c \in Callers, Chat(c)
    PROVE  GuardInv'
<1>1. guard \in Guards /\ CallersOK /\ BucketOK /\ BreakerOK
    BY GuardParts
<1>2. CallersOK'
    BY <1>1, AfterPhases, Configuration DEF Chat, CallersOK, Phases
<1>3. BreakerOK'
    BY <1>1, SameBreaker DEF Chat
<1> QED
    BY <1>1, <1>2, <1>3, SameBucketOK, GuardPartsPrime DEF Chat

LEMMA AllowStep ==
    ASSUME GuardInv, NEW c \in Callers, Allow(c)
    PROVE  GuardInv'
<1>1. guard \in Guards /\ CallersOK /\ BucketOK /\ BreakerOK
    BY GuardParts
<1>2. CallersOK'
    BY <1>1, AfterPhases, Configuration DEF Allow, CallersOK, Phases
<1>3. BreakerOK'
    BY <1>1, SameBreaker DEF Allow
<1>4. BucketOK'
    BY AllowBound DEF GuardInv, BucketOK
<1> QED
    BY <1>1, <1>2, <1>3, <1>4, GuardPartsPrime DEF Allow

LEMMA RefuseStep ==
    ASSUME GuardInv, NEW c \in Callers, Refuse(c)
    PROVE  GuardInv'
<1>1. guard \in Guards /\ CallersOK /\ BucketOK /\ BreakerOK
    BY GuardParts
<1>2. CallersOK'
    BY <1>1 DEF Refuse, CallersOK, Phases
<1>3. BreakerOK'
    BY <1>1, SameBreaker DEF Refuse
<1>4. TokensBound'
    BY RefuseBound DEF GuardInv, Refuse
<1>5. Refilled \in Buckets
    BY <1>1, RefilledTokens DEF BucketOK, Buckets
<1>6. BucketOK'
    BY <1>1, <1>4, <1>5 DEF BucketOK, Refuse
<1> QED
    BY <1>1, <1>2, <1>3, <1>6, GuardPartsPrime DEF Refuse

LEMMA WaitStep ==
    ASSUME GuardInv, NEW c \in Callers, NextWait(c)
    PROVE  GuardInv'
<1>1. guard \in Guards /\ CallersOK /\ BucketOK /\ BreakerOK
    BY GuardParts
<1>2. bucket.tokens \in 0 .. Capacity
    BY <1>1 DEF BucketOK, Buckets
<1> DEFINE wait == IF bucket.tokens >= Unit THEN 0 ELSE Ceiling(Unit - bucket.tokens, Rate)
<1>3. wait \in 0 .. MaxWait
    BY <1>2, WaitTypes, CapacityType, Configuration
<1>4. timer' = [timer EXCEPT ![c] = wait]
    BY DEF NextWait, Sleep
<1> HIDE DEF wait
<1>5. CallersOK'
    BY <1>1, <1>3, <1>4 DEF NextWait, Sleep, CallersOK, Phases
<1>6. BreakerOK'
    BY <1>1, SameBreaker DEF NextWait, Sleep
<1> QED
    BY <1>1, <1>5, <1>6, SameBucketOK, GuardPartsPrime DEF NextWait, Sleep

LEMMA WakeStep ==
    ASSUME GuardInv, NEW c \in Callers, Wake(c)
    PROVE  GuardInv'
<1>1. guard \in Guards /\ CallersOK /\ BucketOK /\ BreakerOK
    BY GuardParts
<1>2. CallersOK'
    BY <1>1 DEF Wake, CallersOK, Phases
<1>3. BreakerOK'
    BY <1>1, SameBreaker DEF Wake
<1> QED
    BY <1>1, <1>2, <1>3, SameBucketOK, GuardPartsPrime DEF Wake

LEMMA GiveUpStep ==
    ASSUME GuardInv, NEW c \in Callers, pc[c] = "sleep", GiveUp(c)
    PROVE  GuardInv'
<1>1. guard \in Guards /\ CallersOK /\ BucketOK /\ BreakerOK
    BY GuardParts
<1>2. CallersOK'
    BY <1>1, WaitTypes, Configuration DEF GiveUp, CallersOK, Phases
<1>3. BreakerOK'
    BY <1>1, SameBreaker DEF GiveUp
<1> QED
    BY <1>1, <1>2, <1>3, SameBucketOK, GuardPartsPrime DEF GiveUp

LEMMA ExecuteStep ==
    ASSUME GuardInv, NEW c \in Callers, Execute(c)
    PROVE  GuardInv'
<1>1. guard \in Guards /\ CallersOK /\ BucketOK /\ BreakerOK
    BY GuardParts
<1> DEFINE b == CurrentState
           d == [b EXCEPT !.requests = IF b.state = "half-open" THEN @ + 1 ELSE @,
                          !.calls = @ \cup {c}]
<1>2. Accounted(b) /\ b.calls \subseteq breaker.calls /\ breaker.calls \in SUBSET Callers
    BY <1>1, CurrentStateAccounted DEF BreakerOK, Accounted, Breakers
<1>3. c \notin b.calls /\ pc[c] = "breaker"
    BY <1>1, <1>2 DEF Execute, BreakerOK
<1>4. UNCHANGED guard /\ guard.breaker
    BY <1>1, <1>3 DEF Execute, CallersOK
<1>5. \/ breaker' = b /\ pc' = [pc EXCEPT ![c] = "idle"]
      \/ ~Refuses(b) /\ breaker' = d /\ pc' = [pc EXCEPT ![c] = "call"]
    BY <1>1, AfterPhases DEF Execute
<1>6. d.calls = b.calls \cup {c}
    BY <1>2 DEF Accounted, Breakers
<1>7. ~Refuses(b) => Accounted(d)
    BY <1>2, <1>3, LetThroughAccounted
<1> HIDE DEF b, d
<1>8. BreakerOK'
    <2>1. CASE breaker' = b /\ pc' = [pc EXCEPT ![c] = "idle"]
        BY <1>1, <1>2, <1>3, <1>4, <2>1 DEF BreakerOK, CallersOK
    <2>2. CASE ~Refuses(b) /\ breaker' = d /\ pc' = [pc EXCEPT ![c] = "call"]
        BY <1>1, <1>2, <1>6, <1>7, <1>4, <2>2 DEF BreakerOK, CallersOK
    <2> QED
        BY <1>5, <2>1, <2>2
<1>9. CallersOK'
    BY <1>1, <1>5, <1>4 DEF Execute, CallersOK, Phases
<1> QED
    BY <1>1, <1>8, <1>9, SameBucketOK, GuardPartsPrime DEF Execute

LEMMA ReplyStep ==
    ASSUME GuardInv, NEW c \in Callers, NEW ok \in BOOLEAN, Reply(c, ok)
    PROVE  GuardInv'
<1>1. guard \in Guards /\ CallersOK /\ BucketOK /\ BreakerOK
    BY GuardParts
<1>2. /\ pc' = [pc EXCEPT ![c] = "idle"] /\ UNCHANGED guard
      /\ breaker.calls \in SUBSET Callers
    BY <1>1 DEF Reply, BreakerOK, Accounted, Breakers
<1>3. CallersOK'
    BY <1>1, <1>2 DEF Reply, CallersOK, Phases
<1>4. ASSUME Accounted(breaker'), breaker'.calls \subseteq breaker.calls, c \notin breaker'.calls
      PROVE  BreakerOK'
    BY <1>1, <1>2, <1>4 DEF BreakerOK, CallersOK
<1> DEFINE b == CurrentState
           d == [b EXCEPT !.calls = @ \ {c}]
           a == IF ok THEN Succeeded(d) ELSE Failed(d)
<1>5. Accounted(b) /\ b.calls \subseteq breaker.calls
    BY <1>1, CurrentStateAccounted DEF BreakerOK
<1>6. CASE ~guard.breaker
    <2>1. UNCHANGED breaker /\ breaker.calls = {}
        BY <1>1, <1>6 DEF Reply, BreakerOK
    <2>2. BreakerOK'
        BY <1>1, <1>4, <2>1 DEF BreakerOK
    <2> QED
        BY <1>1, <1>3, <2>2, SameBucketOK, GuardPartsPrime DEF Reply
<1>7. CASE guard.breaker /\ c \notin b.calls
    <2>1. breaker' = b
        BY <1>7 DEF Reply, Counts
    <2> QED
        BY <1>3, <1>4, <1>5, <1>7, <2>1, <1>1, SameBucketOK, GuardPartsPrime DEF Reply
<1>8. CASE guard.breaker /\ c \in b.calls
    <2>1. breaker' = a
        BY <1>8 DEF Reply, Counts
    <2>2. Accounted(a) /\ c \notin a.calls /\ a.calls \subseteq b.calls
        BY <1>5, <1>8, ReplyAccounted
    <2> HIDE DEF a
    <2>3. BreakerOK'
        BY <1>4, <1>5, <2>1, <2>2
    <2> QED
        BY <1>1, <1>3, <2>3, SameBucketOK, GuardPartsPrime DEF Reply
<1> QED
    BY <1>6, <1>7, <1>8

LEMMA TickStep ==
    ASSUME GuardInv, Tick
    PROVE  GuardInv'
<1>1. guard \in Guards /\ CallersOK /\ BucketOK /\ BreakerOK
    BY GuardParts
<1>2. \A n \in Nat : Passed(n) \in Nat /\ Passed(n) <= n
    BY DEF Passed
<1>3. CallersOK'
    <2>1. \A c \in Callers : /\ Passed(timer[c]) \in 0 .. MaxWait
                              /\ Passed(deadline[c]) \in 0 .. WaitTimeout
        BY <1>1, <1>2, WaitTypes, Configuration DEF CallersOK
    <2> QED
        BY <1>1, <2>1 DEF Tick, CallersOK
<1>4. BucketOK'
    BY TickBound DEF GuardInv, BucketOK
<1>5. BreakerOK'
    <2> DEFINE e == Passed(breaker.expiry)
    <2>1. breaker \in Breakers /\ breaker.expiry \in 0 .. CircuitInterval + CircuitTimeout
        BY <1>1 DEF BreakerOK, Accounted, Breakers
    <2>2. e \in 0 .. CircuitInterval + CircuitTimeout
        BY <1>2, <2>1, Configuration
    <2>3. breaker' = [breaker EXCEPT !.expiry = e]
        BY <2>1 DEF Tick
    <2> HIDE DEF e
    <2>4. /\ breaker' \in Breakers /\ breaker'.calls = breaker.calls
          /\ breaker'.state = breaker.state /\ breaker'.successes = breaker.successes
          /\ breaker'.requests = breaker.requests
        BY <2>1, <2>2, <2>3 DEF Breakers
    <2> QED
        BY <1>1, <2>4 DEF BreakerOK, Accounted, Tick
<1> QED
    BY <1>1, <1>3, <1>4, <1>5, GuardPartsPrime DEF Tick

LEMMA GuardStep == GuardInv /\ [Next]_vars => GuardInv'
<1> SUFFICES ASSUME GuardInv, [Next]_vars PROVE GuardInv'
    OBVIOUS
<1>1. ASSUME NEW c \in Callers, Limiter(c) PROVE GuardInv'
    BY <1>1, AllowStep, RefuseStep, WaitStep, WakeStep DEF Limiter
<1>2. ASSUME NEW c \in Callers, TimeOut(c) \/ Cancel(c) PROVE GuardInv'
    BY <1>2, GiveUpStep DEF TimeOut, Cancel
<1>3. ASSUME NEW c \in Callers, Returns(c) PROVE GuardInv'
    BY <1>3, ReplyStep DEF Returns
<1>4. CASE UNCHANGED vars
    BY <1>4 DEF vars, GuardInv, TypeOK, TokensBound, Refilled, CallsRun, ProbesAccounted
<1> QED
    BY <1>1, <1>2, <1>3, <1>4, ChatStep, ExecuteStep, TickStep DEF Next

(* The invariant of the guard holds with any number of callers and for any *)
(* configuration NewGuardedLLMClient may be given.                         *)
THEOREM GuardInvHolds == Spec => []GuardInv
    BY GuardInit, GuardStep, PTL DEF Spec

(* The token bucket lets no more through in a window of any length than    *)
(* the burst and what the window's ticks refill.                           *)
THEOREM RateIsBounded == Spec => []RateBound
<1>1. GuardInv => RateBound
    <2> SUFFICES ASSUME GuardInv, NEW n \in 1 .. Window
                 PROVE  Sums(recent)[n] * Unit <= Capacity + (n - 1) * Rate
        BY DEF RateBound
    <2>1. bucket \in Buckets /\ recent \in [1 .. Window -> Nat] /\ TokensBound
        BY GuardParts DEF BucketOK
    <2>2. Refilled.tokens \in Nat
        BY <2>1, RefilledTokens, CapacityType
    <2>3. Sums(recent)[n] * Unit + Refilled.tokens <= Capacity + (n - 1) * Rate
        BY <2>1 DEF TokensBound
    <2>4. Sums(recent)[n] \in Nat
        BY <2>1, SumsAre
    <2>5. Sums(recent)[n] * Unit \in Nat /\ (n - 1) * Rate \in Nat
        BY <2>4, Configuration
    <2> QED
        BY <2>2, <2>3, <2>5, CapacityType
<1> QED
    BY <1>1, GuardInvHolds, PTL

(* The breaker loses no probe, whatever replies of earlier periods arrive. *)
THEOREM ProbesAreAccounted == Spec => []ProbesAccounted
<1>1. GuardInv => ProbesAccounted
    BY DEF GuardInv
<1> QED
    BY <1>1, GuardInvHolds, PTL

(* GuardedLLMClient.Chat asks the breaker last: it lets nobody through     *)
(* while it is open, before its timeout.                                   *)
THEOREM OpenBreakerIsQuiet == Spec => QuietWhileOpen
<1> DEFINE Quiet == \A c \in Callers :
                       pc[c] # "call" /\ pc'[c] = "call" /\ guard.breaker
                           => ~(breaker.state = "open" /\ breaker.expiry > 0)
<1>1. GuardInv /\ [Next]_vars => [Quiet]_vars
    <2> SUFFICES ASSUME GuardInv, Next, NEW k \in Callers,
                        pc[k] # "call", pc'[k] = "call", guard.breaker
                 PROVE  ~(breaker.state = "open" /\ breaker.expiry > 0)
        OBVIOUS
    <2>1. guard \in Guards /\ CallersOK /\ BreakerOK
        BY GuardParts
    <2>2. pc \in [Callers -> Phases]
        BY <2>1 DEF CallersOK
    <2>3. PICK c \in Callers : Execute(c)
        <3>1. ASSUME NEW c \in Callers, NEW phase, phase # "call",
                     pc' = [pc EXCEPT ![c] = phase]
              PROVE  FALSE
            BY <2>2, <3>1
        <3>2. ASSUME NEW c \in Callers,
                     Chat(c) \/ Limiter(c) \/ TimeOut(c) \/ Cancel(c) \/ Returns(c)
              PROVE  FALSE
            <4>1. After("idle") # "call" /\ After("limit") # "call"
                BY <2>1, AfterPhases
            <4>2. \E phase : phase # "call" /\ pc' = [pc EXCEPT ![c] = phase]
                BY <3>2, <4>1 DEF Chat, Limiter, Allow, Refuse, NextWait, Sleep, Wake, TimeOut,
                                  Cancel, GiveUp, Returns, Reply
            <4> QED
                BY <3>1, <4>2
        <3>3. ~Tick
            BY DEF Tick
        <3> QED
            BY <3>2, <3>3 DEF Next
    <2>4. ~Refuses(CurrentState)
        <3>1. Refuses(CurrentState) => pc' = [pc EXCEPT ![c] = "idle"]
            BY <2>3 DEF Execute
        <3> QED
            BY <2>2, <3>1
    <2>5. CurrentState.state # "open"
        BY <2>4 DEF Refuses
    <2> QED
        BY <2>1, <2>5, CurrentStateAccounted DEF BreakerOK
<1>2. Spec => [][Quiet]_vars
    BY <1>1, GuardInvHolds, PTL DEF Spec
<1> QED
    BY <1>2 DEF QuietWhileOpen
=============================================================================

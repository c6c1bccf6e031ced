--------------------------- MODULE JobServiceProofs ---------------------------
(* Safety of the job service for any number of jobs, goroutines, tokens    *)
(* and faults.  JobInv is inductive; the properties follow from it.        *)
EXTENDS JobService, FiniteSetTheorems, SequenceTheorems, TLAPS

-----------------------------------------------------------------------------
(* The two-level semaphore (ConcurrencySlots) never exceeds its limits,    *)
(* for any number of tokens and scopes and any limits.  The invariant that *)
(* is inductive charges a scope with the tokens a renewal could put back.  *)

(* A subset of the tokens is finite and no larger than its supersets.      *)
LEMMA TokenSubsets ==
    ASSUME NEW S \in SUBSET Tokens, NEW R \in SUBSET S
    PROVE  /\ IsFiniteSet(S) /\ Cardinality(S) \in Nat
           /\ IsFiniteSet(R) /\ Cardinality(R) \in Nat
           /\ Cardinality(R) <= Cardinality(S)
<1>1. IsFiniteSet(S)
    BY SlotAssumption, FS_Subset
<1>2. IsFiniteSet(R) /\ Cardinality(R) <= Cardinality(S)
    BY <1>1, FS_Subset
<1> QED
    BY <1>1, <1>2, FS_CardinalityType

(* Adding one token to a set below its limit keeps the limit.              *)
LEMMA OneMore ==
    ASSUME NEW S \in SUBSET Tokens, NEW t \in Tokens, NEW limit \in Nat,
           Cardinality(S) < limit
    PROVE  Cardinality(S \cup {t}) <= limit
<1>1. IsFiniteSet(S) /\ Cardinality(S) \in Nat
    BY TokenSubsets
<1>2. Cardinality(S \cup {t}) = IF t \in S THEN Cardinality(S) ELSE Cardinality(S) + 1
    BY <1>1, FS_AddElement
<1> QED
    BY <1>1, <1>2

(* Scores belong to members after every step that forgets them.            *)
LEMMA ForgottenScores ==
    ASSUME SlotTypeOK, ForgetScores
    PROVE  /\ lapsed' \in SUBSET Tokens
           /\ lapsed' \subseteq lapsed
           /\ \A t \in lapsed' : InSlots(t)'
    BY DEF SlotTypeOK, ForgetScores

LEMMA TypeOfAdd ==
    ASSUME SlotTypeOK, NEW t \in Tokens, NEW s \in Scopes, AddSlot(t, s)
    PROVE  /\ global' \in SUBSET Tokens
           /\ scope' \in [Scopes -> SUBSET Tokens]
           /\ lapsed' \in SUBSET Tokens
           /\ lapsed' \subseteq lapsed
           /\ \A u \in lapsed' : InSlots(u)'
    BY ForgottenScores DEF SlotTypeOK, AddSlot, PurgedGlobal, PurgedScope

(* A script that adds a token counts first: the unlapsed members at the    *)
(* global level are, by LevelsAgree, members of the scope's purged set.    *)
LEMMA AddKeepsInv ==
    ASSUME SlotInv, NEW t \in Tokens, NEW s \in Scopes, AddSlot(t, s),
           FreshToken(t), holding' \in {holding, [holding EXCEPT ![t] = s]}
    PROVE  SlotInv'
<1> USE DEF SlotInv
<1>1. SlotTypeOK'
    BY TypeOfAdd DEF SlotTypeOK
<1>2. Cardinality(global') <= GlobalConcurrency
    <2>1. PurgedGlobal \in SUBSET Tokens
        BY DEF SlotTypeOK, PurgedGlobal
    <2>2. Cardinality(PurgedGlobal) < GlobalConcurrency /\ global' = PurgedGlobal \cup {t}
        BY DEF AddSlot, HasRoom
    <2> QED
        BY <2>1, <2>2, OneMore, SlotAssumption
<1>3. ASSUME NEW u \in Scopes
      PROVE  Cardinality(Charged(u)') <= ScopeConcurrency
    <2>1. CASE u = s
        <3>1. PurgedScope(s) \in SUBSET Tokens /\ Cardinality(PurgedScope(s)) < ScopeConcurrency
            BY DEF SlotTypeOK, PurgedScope, AddSlot, HasRoom
        <3>2. Cardinality(PurgedScope(s) \cup {t}) <= ScopeConcurrency
            BY <3>1, OneMore, SlotAssumption
        <3>3. Charged(s)' \subseteq PurgedScope(s) \cup {t}
            BY SlotAssumption DEF SlotTypeOK, AddSlot, Charged, PurgedGlobal, PurgedScope, LevelsAgree
        <3>4. PurgedScope(s) \cup {t} \in SUBSET Tokens
            BY <3>1
        <3>5. /\ Cardinality(Charged(s)') <= Cardinality(PurgedScope(s) \cup {t})
              /\ Cardinality(Charged(s)') \in Nat
              /\ Cardinality(PurgedScope(s) \cup {t}) \in Nat
            BY <3>3, <3>4, TokenSubsets
        <3> QED
            BY <2>1, <3>2, <3>5, SlotAssumption
    <2>2. CASE u # s
        <3>1. Charged(u)' \subseteq Charged(u)
            BY <2>2, SlotAssumption DEF SlotTypeOK, AddSlot, Charged, PurgedGlobal, FreshToken
        <3>2. Charged(u) \in SUBSET Tokens
            BY DEF SlotTypeOK, Charged
        <3>3. /\ Cardinality(Charged(u)') <= Cardinality(Charged(u))
              /\ Cardinality(Charged(u)') \in Nat
              /\ Cardinality(Charged(u)) \in Nat
            BY <3>1, <3>2, TokenSubsets
        <3> QED
            BY <3>3, SlotAssumption
    <2> QED
        BY <2>1, <2>2
<1>4. LevelsAgree'
    BY SlotAssumption, TypeOfAdd
       DEF SlotTypeOK, AddSlot, LevelsAgree, PurgedGlobal, PurgedScope, FreshToken
<1>5. \A u \in lapsed' : InSlots(u)'
    BY TypeOfAdd
<1> QED
    BY <1>1, <1>2, <1>3, <1>4, <1>5

(* A step that charges no scope with a new token keeps both limits.        *)
LEMMA ShrinkKeepsLimits ==
    ASSUME SlotInv, SlotTypeOK', global' \subseteq global,
           \A u \in Scopes : Charged(u)' \subseteq Charged(u)
    PROVE  /\ Cardinality(global') <= GlobalConcurrency
           /\ \A u \in Scopes : Cardinality(Charged(u)') <= ScopeConcurrency
<1> USE DEF SlotInv
<1>1. Cardinality(global') <= GlobalConcurrency
    <2>1. /\ Cardinality(global') <= Cardinality(global)
          /\ Cardinality(global') \in Nat /\ Cardinality(global) \in Nat
        BY TokenSubsets DEF SlotTypeOK
    <2> QED
        BY <2>1, SlotAssumption
<1>2. ASSUME NEW u \in Scopes
      PROVE  Cardinality(Charged(u)') <= ScopeConcurrency
    <2>1. Charged(u) \in SUBSET Tokens
        BY DEF SlotTypeOK, Charged
    <2>2. /\ Cardinality(Charged(u)') <= Cardinality(Charged(u))
          /\ Cardinality(Charged(u)') \in Nat /\ Cardinality(Charged(u)) \in Nat
        BY <2>1, TokenSubsets
    <2> QED
        BY <2>2, SlotAssumption
<1> QED
    BY <1>1, <1>2

LEMMA RefuseKeepsInv ==
    ASSUME SlotInv, NEW s \in Scopes, RefuseSlot(s)
    PROVE  SlotInv'
<1> USE DEF SlotInv
<1>1. SlotTypeOK'
    BY ForgottenScores DEF SlotTypeOK, RefuseSlot, PurgedGlobal, PurgedScope
<1>2. global' \subseteq global /\ \A u \in Scopes : Charged(u)' \subseteq Charged(u)
    BY DEF SlotTypeOK, RefuseSlot, PurgedGlobal, PurgedScope, Charged
<1>3. LevelsAgree'
    BY ForgottenScores DEF SlotTypeOK, RefuseSlot, PurgedGlobal, PurgedScope, LevelsAgree
<1>4. \A u \in lapsed' : InSlots(u)'
    BY ForgottenScores DEF RefuseSlot
<1> QED
    BY <1>1, <1>2, <1>3, <1>4, ShrinkKeepsLimits

LEMMA RenewKeepsInv ==
    ASSUME SlotInv, NEW t \in Tokens, RenewSlot(t)
    PROVE  SlotInv'
<1> USE DEF SlotInv
<1>1. SlotTypeOK'
    BY DEF SlotTypeOK, RenewSlot
<1>2. global' \subseteq global /\ \A u \in Scopes : Charged(u)' \subseteq Charged(u)
    BY DEF SlotTypeOK, RenewSlot, Charged
<1>3. LevelsAgree'
    BY DEF SlotTypeOK, RenewSlot, LevelsAgree
<1>4. \A u \in lapsed' : InSlots(u)'
    BY DEF SlotTypeOK, RenewSlot, InSlots
<1> QED
    BY <1>1, <1>2, <1>3, <1>4, ShrinkKeepsLimits

LEMMA ReleaseKeepsInv ==
    ASSUME SlotInv, NEW t \in Tokens, ReleaseSlot(t)
    PROVE  SlotInv'
<1> USE DEF SlotInv
<1>1. SlotTypeOK'
    BY ForgottenScores DEF SlotTypeOK, ReleaseSlot
<1>2. global' \subseteq global /\ \A u \in Scopes : Charged(u)' \subseteq Charged(u)
    BY SlotAssumption DEF SlotTypeOK, ReleaseSlot, Charged
<1>3. LevelsAgree'
    BY ForgottenScores DEF SlotTypeOK, ReleaseSlot, LevelsAgree, ForgetScores, InSlots
<1>4. \A u \in lapsed' : InSlots(u)'
    BY ForgottenScores DEF ReleaseSlot
<1> QED
    BY <1>1, <1>2, <1>3, <1>4, ShrinkKeepsLimits

LEMMA AbandonKeepsInv ==
    ASSUME SlotInv, NEW T, AbandonSlots(T)
    PROVE  SlotInv'
<1> USE DEF SlotInv
<1>1. SlotTypeOK'
    BY DEF SlotTypeOK, AbandonSlots
<1>2. global' \subseteq global /\ \A u \in Scopes : Charged(u)' \subseteq Charged(u)
    BY SlotAssumption DEF SlotTypeOK, AbandonSlots, Charged
<1>3. LevelsAgree'
    BY DEF SlotTypeOK, AbandonSlots, LevelsAgree
<1>4. \A u \in lapsed' : InSlots(u)'
    BY DEF AbandonSlots, InSlots
<1> QED
    BY <1>1, <1>2, <1>3, <1>4, ShrinkKeepsLimits

LEMMA LapseKeepsInv ==
    ASSUME SlotInv, NEW t \in Tokens, Lapse(t)
    PROVE  SlotInv'
    BY DEF SlotInv, SlotTypeOK, Lapse, LevelsAgree, Charged, InSlots

(* A key expires only when all its members have lapsed.                    *)
LEMMA ExpiryKeepsInv ==
    ASSUME SlotInv, ExpireGlobalKey \/ \E s \in Scopes : ExpireScopeKey(s)
    PROVE  SlotInv'
<1> USE DEF SlotInv
<1>1. ForgetScores
    BY DEF ExpireGlobalKey, ExpireScopeKey
<1>2. SlotTypeOK'
    BY <1>1, ForgottenScores DEF SlotTypeOK, ExpireGlobalKey, ExpireScopeKey
<1>3. global' \subseteq global /\ \A u \in Scopes : Charged(u)' \subseteq Charged(u)
    BY DEF SlotTypeOK, ExpireGlobalKey, ExpireScopeKey, Charged
<1>4. LevelsAgree'
    <2>1. CASE ExpireGlobalKey
        BY <2>1 DEF ExpireGlobalKey, LevelsAgree
    <2>2. ASSUME NEW s \in Scopes, ExpireScopeKey(s)
          PROVE  LevelsAgree'
        <3> SUFFICES ASSUME NEW t \in global', holding'[t] # NoScope, t \notin lapsed'
                     PROVE  t \in scope'[holding'[t]]
            BY DEF LevelsAgree
        <3>1. t \in global /\ holding'[t] = holding[t] /\ InSlots(t)'
            BY <2>2 DEF ExpireScopeKey, InSlots
        <3>2. t \notin lapsed
            BY <1>1, <3>1 DEF ForgetScores
        <3>3. t \in scope[holding[t]] /\ holding[t] # s
            BY <2>2, <3>1, <3>2 DEF LevelsAgree, ExpireScopeKey
        <3> QED
            BY <2>2, <3>1, <3>3 DEF SlotTypeOK, ExpireScopeKey
    <2> QED
        BY <2>1, <2>2
<1>5. \A u \in lapsed' : InSlots(u)'
    BY <1>1, ForgottenScores
<1> QED
    BY <1>2, <1>3, <1>4, <1>5, ShrinkKeepsLimits

-----------------------------------------------------------------------------
LEMMA EmptySlots == SlotInit => SlotInv
<1> SUFFICES ASSUME SlotInit PROVE SlotInv
    OBVIOUS
<1>1. \A s \in Scopes : Charged(s) = {}
    BY DEF SlotInit, Charged
<1>2. Cardinality({}) = 0
    BY FS_EmptySet
<1> QED
    BY <1>1, <1>2, SlotAssumption DEF SlotInit, SlotInv, SlotTypeOK, LevelsAgree

LEMMA SlotStep == SlotInv /\ [SlotNext]_slotVars => SlotInv'
<1> SUFFICES ASSUME SlotInv, [SlotNext]_slotVars PROVE SlotInv'
    OBVIOUS
<1>1. ASSUME NEW t \in Tokens, NEW s \in Scopes, FreshToken(t),
             AcquireSlot(t, s) \/ AcquireSlotUnanswered(t, s)
      PROVE  SlotInv'
    BY <1>1, AddKeepsInv DEF AcquireSlot, AcquireSlotUnanswered
<1>2. CASE UNCHANGED slotVars
    BY <1>2 DEF slotVars, SlotInv, SlotTypeOK, LevelsAgree, Charged, InSlots
<1> QED
    BY <1>1, <1>2, RefuseKeepsInv, RenewKeepsInv, ReleaseKeepsInv, AbandonKeepsInv,
       LapseKeepsInv, ExpiryKeepsInv DEF SlotNext

LEMMA ChargedCoversScope == SlotInv => SlotLimits
<1> SUFFICES ASSUME SlotInv, NEW s \in Scopes
             PROVE  Cardinality(scope[s]) <= ScopeConcurrency
    BY DEF SlotInv, SlotLimits
<1>1. Charged(s) \in SUBSET Tokens /\ scope[s] \in SUBSET Charged(s)
    BY DEF SlotInv, SlotTypeOK, Charged
<1>2. /\ Cardinality(scope[s]) <= Cardinality(Charged(s))
      /\ Cardinality(scope[s]) \in Nat /\ Cardinality(Charged(s)) \in Nat
    BY <1>1, TokenSubsets
<1> QED
    BY <1>2, SlotAssumption DEF SlotInv

(* The inductive invariant holds in every state of the semaphore.          *)
THEOREM SlotInvHolds == SlotSpec => []SlotInv
<1>1. SlotInit => SlotInv
    BY EmptySlots
<1>2. SlotInv /\ [SlotNext]_slotVars => SlotInv'
    BY SlotStep
<1> QED
    BY <1>1, <1>2, PTL DEF SlotSpec

(* acquireConcurrency, renewConcurrencyLease and releaseConcurrency keep   *)
(* both sorted sets within GlobalConcurrency and ScopeConcurrency.         *)
THEOREM SlotLimitsHold == SlotSpec => []SlotLimits
    BY SlotInvHolds, ChargedCoversScope, PTL

-----------------------------------------------------------------------------
(* Records.                                                                *)

(* finishLatestExecution changes only the history.                         *)
LEMMA FinishLatestFields ==
    ASSUME NEW r \in Record, NEW status \in Statuses
    PROVE  LET f == FinishLatestExecution(r, status) IN
           /\ f \in Record
           /\ f.status = r.status /\ f.version = r.version /\ f.attempts = r.attempts
           /\ f.execution = r.execution /\ f.parent = r.parent
<1>1. CASE r.executions = << >>
    BY <1>1 DEF FinishLatestExecution
<1>2. CASE r.executions # << >>
    <2> DEFINE n == Len(r.executions)
               e == [r.executions[n] EXCEPT !.status = status]
               s == [r.executions EXCEPT ![n] = e]
    <2>1. r.executions \in Seq(ExecutionAttempt) /\ n \in 1 .. Len(r.executions)
        BY <1>2, EmptySeq, LenProperties DEF Record
    <2>2. r.executions[n] \in ExecutionAttempt
        BY <2>1, ElementOfSeq
    <2>3. e \in ExecutionAttempt
        BY <2>2 DEF ExecutionAttempt
    <2>4. s \in Seq(ExecutionAttempt)
        BY <2>1, <2>3, ExceptSeq
    <2>5. FinishLatestExecution(r, status) = [r EXCEPT !.executions = s]
        BY <1>2 DEF FinishLatestExecution, Record
    <2> QED
        BY <2>4, <2>5 DEF Record
<1> QED
    BY <1>1, <1>2

LEMMA NextExecutionFields ==
    ASSUME NEW r \in Record, NEW id \in Nat
    PROVE  LET n == NextExecution(r, id) IN
           /\ n \in Record
           /\ n.status = Retrying /\ n.version = r.version /\ n.execution = id
<1>1. Failed \in Statuses /\ Retrying \in Statuses
    BY DEF Statuses
<1> QED
    BY <1>1, FinishLatestFields DEF NextExecution, Record

LEMMA BegunFields ==
    ASSUME NEW r \in Record
    PROVE  /\ Begun(r) \in Record
           /\ Begun(r).status = Running /\ Begun(r).version = r.version
           /\ Begun(r).execution = r.execution
<1> DEFINE e == [execution |-> r.execution, parent |-> r.parent, status |-> Running]
           s == Append(r.executions, e)
<1>1. Running \in Statuses
    BY DEF Statuses
<1>2. e \in ExecutionAttempt
    BY <1>1 DEF ExecutionAttempt, Record
<1>3. s \in Seq(ExecutionAttempt)
    BY <1>2, AppendProperties DEF Record
<1>4. Begun(r) = [r EXCEPT !.status = Running, !.attempts = @ + 1, !.executions = s]
    BY DEF Begun
<1> HIDE DEF s
<1>5. r.attempts \in Nat /\ r.attempts + 1 \in Nat
    BY DEF Record
<1>6. Begun(r) \in Record
    BY <1>1, <1>3, <1>4, <1>5 DEF Record
<1> QED
    BY <1>4, <1>6 DEF Record

(* What BeginRun stores: RUNNING, under a new id if it reclaims.           *)
LEMMA BeginFields ==
    ASSUME NEW r \in Record, NEW id \in Nat
    PROVE  LET b == Begun(Reclaimed(r, id)) IN
           /\ b \in Record
           /\ b.status = Running /\ b.version = r.version
           /\ b.execution = IF r.status = Running THEN id ELSE r.execution
    BY BegunFields, NextExecutionFields DEF Reclaimed

(* What FinishRun stores: a terminal status, or RETRYING under a new id.   *)
LEMMA SettledFields ==
    ASSUME NEW j \in Jobs, NEW r \in Record, NEW id \in Nat, NEW o \in Outcomes
    PROVE  LET n == Settled(j, r, o, id) IN
           /\ n \in Record
           /\ n.version = r.version
           /\ \/ IsTerminal(n.status) /\ n.execution = r.execution
              \/ n.status = Retrying /\ n.execution = id
<1>1. {Succeeded, Incomplete, Failed} \subseteq Statuses
    BY DEF Statuses
<1>2. \A s \in {Succeeded, Incomplete, Failed} :
         LET n == [FinishLatestExecution(r, s) EXCEPT !.status = s] IN
         n \in Record /\ n.version = r.version /\ n.status = s /\ n.execution = r.execution
    BY <1>1, FinishLatestFields DEF Record
<1> QED
    BY <1>2, NextExecutionFields DEF Settled, IsTerminal

LEMMA NextVersionFields ==
    ASSUME NEW r \in Record
    PROVE  /\ NextVersion(r) \in Record
           /\ NextVersion(r).version = r.version + 1
           /\ NextVersion(r).status = r.status
           /\ NextVersion(r).execution = r.execution
    BY DEF NextVersion, Record

LEMMA NewRecordFields ==
    NewRecord \in Record /\ NewRecord.status = Pending /\ NewRecord.execution = 1
<1>1. << >> \in Seq(ExecutionAttempt)
    OBVIOUS
<1> QED
    BY <1>1 DEF NewRecord, Record, Statuses

-----------------------------------------------------------------------------
(* Calls.                                                                  *)

LEMMA IdleCall == Idle \in Call /\ Idle.pc = "idle"
    BY DEF Idle, Call, Points, Outcomes

(* The parts of JobInv that speak of one call.                             *)
CallInv(c) == Shape(c) /\ Current(c) /\ Leased(c)

LEMMA IdleInv == CallInv(Idle)
    BY IdleCall DEF Idle, CallInv, Shape, Current, Leased, IsTerminal

LEMMA CallFacts ==
    ASSUME JobInv, NEW g \in Goroutines
    PROVE  call[g] \in Call /\ CallInv(call[g])
    BY DEF JobInv, TypeOK, CallShape, VersionIdentifiesRecord, LeaseOwnership, CallInv

(* A call that returns keeps what it holds.                                *)
LEMMA ReturnedInv ==
    ASSUME NEW c \in Call, CallInv(c), c.pc # "idle"
    PROVE  /\ Returned(c) \in Call /\ CallInv(Returned(c))
           /\ Returned(c).token \in {c.token, NoToken}
<1>1. CASE c.defers = 0
    BY <1>1, IdleCall, IdleInv DEF Returned, Idle
<1>2. CASE c.defers # 0
    <2>1. Returned(c) = [c EXCEPT !.pc = "return"]
        BY <1>2 DEF Returned
    <2>2. Returned(c) \in Call
        BY <2>1 DEF Call, Points
    <2>3. CallInv(Returned(c))
        BY <1>2, <2>1, <2>2 DEF Call, CallInv, Shape, Current, Leased
    <2> QED
        BY <2>1, <2>2, <2>3 DEF Call
<1> QED
    BY <1>1, <1>2

LEMMA GoesOnFacts ==
    ASSUME TypeOK, NEW g \in Goroutines, NEW c \in Call, GoesOn(g, c)
    PROVE  /\ call' \in [Goroutines -> Call]
           /\ call'[g] = c
           /\ \A h \in Goroutines : h # g => call'[h] = call[h]
    BY DEF TypeOK, GoesOn

(* A step of one goroutine that leaves records and locks alone.            *)
LEMMA ControlStep ==
    ASSUME JobInv, NEW g \in Goroutines, NEW c \in Call, GoesOn(g, c),
           CallInv(c), c.token \in {call[g].token, NoToken},
           UNCHANGED <<recordVars, lockVars, started>>,
           SlotTypeOK', faults' \in 0 .. MaxFaults,
           stream' \subseteq stream \cup pending, pending' \subseteq stream \cup pending,
           deadLetter' \subseteq Jobs, NoMessageLoss'
    PROVE  JobInv'
<1>1. /\ call' \in [Goroutines -> Call]
      /\ call'[g] = c
      /\ \A h \in Goroutines : h # g => call'[h] = call[h]
    BY GoesOnFacts DEF JobInv
<1>2. TypeOK'
    BY <1>1 DEF JobInv, TypeOK, recordVars, lockVars
<1>3. \A h \in Goroutines : CallInv(call'[h])
    BY <1>1, CallFacts
<1>4. ASSUME NEW d, CallInv(d)
      PROVE  Shape(d)' /\ Current(d)' /\ Leased(d)'
    BY <1>4 DEF CallInv, Shape, Current, Leased, Open, recordVars, lockVars
<1>5. CallShape' /\ VersionIdentifiesRecord' /\ LeaseOwnership'
    BY <1>3, <1>4 DEF CallShape, VersionIdentifiesRecord, LeaseOwnership
<1>6. UniqueTokens'
    BY <1>1 DEF JobInv, UniqueTokens
<1>7. QueueShape' /\ ExecutionIds'
    BY DEF JobInv, QueueShape, ExecutionIds, recordVars
<1> QED
    BY <1>2, <1>5, <1>6, <1>7 DEF JobInv

-----------------------------------------------------------------------------
(* Steps that change neither records nor locks.                            *)

LEMMA FaultType ==
    ASSUME TypeOK, Fault \/ NoFault
    PROVE  faults' \in 0 .. MaxFaults
    BY JobAssumption DEF TypeOK, Fault, NoFault

(* Nothing but the call, the slots and the fault counter changes.          *)
LEMMA CallStep ==
    ASSUME JobInv, NEW g \in Goroutines, NEW c \in Call, GoesOn(g, c),
           CallInv(c), c.token \in {call[g].token, NoToken},
           UNCHANGED <<recordVars, queueVars, lockVars, started>>,
           SlotTypeOK', Fault \/ NoFault
    PROVE  JobInv'
<1>1. faults' \in 0 .. MaxFaults
    BY FaultType DEF JobInv
<1>2. NoMessageLoss'
    BY DEF JobInv, NoMessageLoss, Open, recordVars, queueVars
<1>3. /\ stream' \subseteq stream \cup pending /\ pending' \subseteq stream \cup pending
      /\ deadLetter' \subseteq Jobs
    BY DEF JobInv, TypeOK, queueVars
<1> QED
    BY <1>1, <1>2, <1>3, ControlStep

LEMMA SameSlots ==
    ASSUME JobInv, UNCHANGED slotVars
    PROVE  SlotTypeOK'
    BY DEF JobInv, TypeOK, SlotTypeOK, slotVars

LEMMA ReturnStep ==
    ASSUME JobInv, NEW g \in Goroutines, call[g].pc # "idle", Return(g),
           UNCHANGED <<recordVars, queueVars, lockVars, started>>,
           SlotTypeOK', Fault \/ NoFault
    PROVE  JobInv'
<1>1. /\ Returned(call[g]) \in Call /\ CallInv(Returned(call[g]))
      /\ Returned(call[g]).token \in {call[g].token, NoToken}
    BY CallFacts, ReturnedInv
<1> QED
    BY <1>1, CallStep DEF Return

LEMMA TakenInv ==
    ASSUME JobInv, NEW j \in created, NEW pc \in {"fetch", "claim"}
    PROVE  Taken(pc, j) \in Call /\ CallInv(Taken(pc, j)) /\ Taken(pc, j).token = NoToken
<1>1. j \in Jobs
    BY DEF JobInv, TypeOK
<1>2. /\ Idle.token = NoToken /\ Idle.defers = 0 /\ Idle.loc = NoRecord
      /\ Idle.outcome = "none" /\ ~Idle.overdue
    BY DEF Idle
<1>3. /\ Taken(pc, j) \in Call /\ Taken(pc, j).pc = pc /\ Taken(pc, j).msg = j
      /\ Taken(pc, j).token = NoToken /\ Taken(pc, j).defers = 0 /\ Taken(pc, j).loc = NoRecord
    BY <1>1, <1>2, IdleCall DEF Taken, Call, Points
<1> QED
    BY <1>3 DEF CallInv, Shape, Current, Leased

LEMMA DeliverStep ==
    ASSUME JobInv, NEW g \in Goroutines, NEW j \in Jobs, Deliver(g, j)
    PROVE  JobInv'
<1>1. j \in created
    BY DEF JobInv, QueueShape, Deliver
<1>2. Taken("claim", j) \in Call /\ CallInv(Taken("claim", j)) /\ Taken("claim", j).token = NoToken
    BY <1>1, TakenInv
<1>3. NoMessageLoss'
    BY DEF JobInv, NoMessageLoss, Open, recordVars, Deliver
<1>4. faults' \in 0 .. MaxFaults
    BY DEF JobInv, TypeOK, Deliver
<1>5. /\ stream' \subseteq stream \cup pending /\ pending' \subseteq stream \cup pending
      /\ deadLetter' \subseteq Jobs
    BY DEF JobInv, TypeOK, Deliver
<1>6. SlotTypeOK'
    BY SameSlots DEF Deliver
<1> QED
    BY <1>2, <1>3, <1>4, <1>5, <1>6, ControlStep DEF Deliver

LEMMA AutoClaimStep ==
    ASSUME JobInv, NEW g \in Goroutines, NEW j \in Jobs, AutoClaim(g, j)
    PROVE  JobInv'
<1>1. j \in created
    BY DEF JobInv, QueueShape, AutoClaim
<1>2. Taken("fetch", j) \in Call /\ CallInv(Taken("fetch", j)) /\ Taken("fetch", j).token = NoToken
    BY <1>1, TakenInv
<1> QED
    BY <1>2, SameSlots, CallStep DEF AutoClaim, NoFault

LEMMA RecoverFetchStep ==
    ASSUME JobInv, NEW g \in Goroutines, RecoverFetch(g)
    PROVE  JobInv'
<1> DEFINE c == call[g]
<1>1. c \in Call /\ CallInv(c) /\ c.pc = "fetch" /\ c.defers = 0 /\ c.token = NoToken
    BY CallFacts DEF RecoverFetch, CallInv, Shape, Call
<1>2. ASSUME NEW pc \in {"ack", "claim"}, pc = "ack" => ~Open(c.msg)
      PROVE  /\ [c EXCEPT !.pc = pc] \in Call /\ CallInv([c EXCEPT !.pc = pc])
             /\ [c EXCEPT !.pc = pc].token = c.token
    BY <1>1, <1>2 DEF Call, Points, CallInv, Shape, Current, Leased
<1>3. \/ GoesOn(g, [c EXCEPT !.pc = "ack"]) /\ ~Open(c.msg)
      \/ GoesOn(g, [c EXCEPT !.pc = "claim"])
      \/ GoesOn(g, Idle)
    BY DEF RecoverFetch, At
<1>4. Idle.token = NoToken
    BY DEF Idle
<1>5. UNCHANGED <<recordVars, queueVars, lockVars, started>> /\ SlotTypeOK' /\ NoFault
    BY SameSlots DEF RecoverFetch, NoFault
<1> HIDE DEF c
<1> QED
    BY <1>2, <1>3, <1>4, <1>5, CallStep, IdleCall, IdleInv DEF c

LEMMA GetRecordStep ==
    ASSUME JobInv, NEW g \in Goroutines, GetRecord(g)
    PROVE  JobInv'
<1> DEFINE c == call[g]
           a == [c EXCEPT !.pc = "ack"]
           d == [c EXCEPT !.pc = "review", !.loc = rec[c.msg]]
<1>1. c \in Call /\ CallInv(c) /\ c.pc = "get" /\ c.defers = 1
    BY CallFacts DEF GetRecord, CallInv, Shape
<1>2. UNCHANGED <<recordVars, queueVars, lockVars, started>> /\ SlotTypeOK' /\ NoFault
    BY SameSlots DEF GetRecord, NoFault
<1>3. \/ GoesOn(g, a) /\ ~Open(c.msg)
      \/ Return(g)
      \/ GoesOn(g, d) /\ Open(c.msg)
    BY DEF GetRecord, At
<1>4. ASSUME ~Open(c.msg)
      PROVE  a \in Call /\ CallInv(a) /\ a.token = c.token
    BY <1>1, <1>4 DEF Call, Points, CallInv, Shape, Current, Leased
<1>5. ASSUME Open(c.msg)
      PROVE  d \in Call /\ CallInv(d) /\ d.token = c.token
    <2>1. c.msg \in Jobs /\ rec[c.msg] \in Record
        BY <1>1, <1>5 DEF CallInv, Shape, JobInv, TypeOK, Open
    <2>2. /\ d \in Call /\ d.pc = "review" /\ d.loc = rec[c.msg] /\ d.msg = c.msg
          /\ d.token = c.token /\ d.defers = c.defers /\ d.overdue = c.overdue
        BY <1>1, <2>1 DEF Call, Points
    <2> HIDE DEF d
    <2>3. rec[c.msg].version <= rec[c.msg].version
        BY <2>1 DEF Record
    <2> QED
        BY <1>1, <1>5, <2>1, <2>2, <2>3 DEF CallInv, Shape, Current, Leased, Open
<1>6. c.pc # "idle"
    BY <1>1
<1> HIDE DEF a, d
<1> QED
    BY <1>2, <1>3, <1>4, <1>5, <1>6, CallStep, ReturnStep

(* The scripts of the semaphore keep its types.                            *)
LEMMA SlotTypes ==
    ASSUME SlotTypeOK, NEW t \in Tokens,
           \/ \E s \in Scopes : AcquireSlot(t, s) \/ AcquireSlotUnanswered(t, s) \/ RefuseSlot(s)
           \/ RenewSlot(t) \/ ReleaseSlot(t) \/ AbandonSlots({t}) \/ Lapse(t)
    PROVE  SlotTypeOK'
<1>1. ASSUME NEW s \in Scopes, AddSlot(t, s), holding' \in {holding, [holding EXCEPT ![t] = s]}
      PROVE  SlotTypeOK'
    BY <1>1, TypeOfAdd DEF SlotTypeOK
<1>2. ASSUME NEW s \in Scopes, RefuseSlot(s)
      PROVE  SlotTypeOK'
    BY <1>2, ForgottenScores DEF SlotTypeOK, RefuseSlot, PurgedGlobal, PurgedScope
<1>3. CASE RenewSlot(t)
    BY <1>3 DEF SlotTypeOK, RenewSlot
<1>4. CASE ReleaseSlot(t)
    BY <1>4, ForgottenScores DEF SlotTypeOK, ReleaseSlot
<1>5. CASE AbandonSlots({t}) \/ Lapse(t)
    BY <1>5 DEF SlotTypeOK, AbandonSlots, Lapse
<1> QED
    BY <1>1, <1>2, <1>3, <1>4, <1>5 DEF AcquireSlot, AcquireSlotUnanswered

LEMMA AcquireConcurrencyStep ==
    ASSUME JobInv, NEW g \in Goroutines, AcquireConcurrency(g)
    PROVE  JobInv'
<1> DEFINE c == call[g]
           d == [c EXCEPT !.pc = "begin", !.defers = 3]
<1>1. c \in Call /\ CallInv(c) /\ c.pc = "slot" /\ c.defers = 2 /\ c.token \in Tokens
    BY CallFacts DEF AcquireConcurrency, CallInv, Shape, Call
<1>2. SlotTypeOK'
    <2>1. ScopeOf[c.msg] \in Scopes
        BY <1>1, JobAssumption DEF CallInv, Shape, JobInv, TypeOK
    <2> QED
        BY <1>1, <2>1, SlotTypes DEF AcquireConcurrency, JobInv, TypeOK
<1>3. d \in Call /\ CallInv(d) /\ d.token = c.token
    <2>1. 3 \in 0 .. 3 /\ "begin" \in Points
        BY DEF Points
    <2>2. d \in Call
        BY <1>1, <2>1 DEF Call
    <2>3. /\ d.pc = "begin" /\ d.defers = 3 /\ d.loc = c.loc /\ d.msg = c.msg
          /\ d.token = c.token /\ d.overdue = c.overdue
        BY <1>1 DEF Call
    <2> HIDE DEF d
    <2> QED
        BY <1>1, <2>2, <2>3, JobAssumption DEF CallInv, Shape, Current, Leased
<1>4. UNCHANGED <<recordVars, queueVars, lockVars, started>>
    BY DEF AcquireConcurrency
<1>5. (GoesOn(g, d) /\ NoFault) \/ (Return(g) /\ (Fault \/ NoFault))
    BY DEF AcquireConcurrency
<1>6. c.pc # "idle"
    BY <1>1
<1> HIDE DEF d
<1> QED
    BY <1>2, <1>3, <1>4, <1>5, <1>6, CallStep, ReturnStep

LEMMA RenewLeasesStep ==
    ASSUME JobInv, NEW g \in Goroutines, RenewLeases(g)
    PROVE  JobInv'
<1> DEFINE c == call[g]
           o == [c EXCEPT !.overdue = FALSE]
           d == [c EXCEPT !.cancelled = TRUE]
<1>1. c \in Call /\ CallInv(c) /\ c.pc = "run" /\ c.defers = 3 /\ c.token \in Tokens
    BY CallFacts DEF RenewLeases, CallInv, Shape, Call
<1>2. SlotTypeOK'
    BY <1>1, SlotTypes, SameSlots DEF RenewLeases, JobInv, TypeOK
<1>3. ASSUME OwnsLeases(g)
      PROVE  o \in Call /\ CallInv(o) /\ o.token = c.token
    BY <1>1, <1>3 DEF OwnsLeases, Call, CallInv, Shape, Current, Leased
<1>4. d \in Call /\ CallInv(d) /\ d.token = c.token
    BY <1>1 DEF Call, CallInv, Shape, Current, Leased
<1>5. UNCHANGED <<recordVars, queueVars, lockVars, started>>
    BY DEF RenewLeases
<1>6. /\ (GoesOn(g, o) /\ OwnsLeases(g)) \/ GoesOn(g, d)
      /\ Fault \/ NoFault
    BY DEF RenewLeases, NoFault
<1> HIDE DEF o, d
<1> QED
    BY <1>2, <1>3, <1>4, <1>5, <1>6, CallStep

LEMMA RunReturnsStep ==
    ASSUME JobInv, NEW g \in Goroutines, RunReturns(g)
    PROVE  JobInv'
<1>1. PICK o \in Outcomes \ {"none"} :
         GoesOn(g, [call[g] EXCEPT !.pc = "finish", !.outcome = o])
    BY DEF RunReturns
<1> DEFINE c == call[g]
           d == [c EXCEPT !.pc = "finish", !.outcome = o]
<1>2. c \in Call /\ CallInv(c) /\ c.pc = "run"
    BY CallFacts DEF RunReturns
<1>3. d \in Call /\ CallInv(d) /\ d.token = c.token
    BY <1>2 DEF Call, Points, CallInv, Shape, Current, Leased
<1>4. UNCHANGED <<recordVars, queueVars, lockVars, started>> /\ SlotTypeOK' /\ NoFault
    BY SameSlots DEF RunReturns, NoFault
<1> HIDE DEF d
<1> QED
    BY <1>1, <1>3, <1>4, CallStep DEF d

LEMMA WriteDeadLetterStep ==
    ASSUME JobInv, NEW g \in Goroutines, WriteDeadLetter(g)
    PROVE  JobInv'
<1> DEFINE c == call[g]
           d == [c EXCEPT !.pc = "ack"]
<1>1. c \in Call /\ CallInv(c) /\ c.pc = "deadletter" /\ c.msg \in Jobs
    BY CallFacts DEF WriteDeadLetter, CallInv, Shape, JobInv, TypeOK
<1>2. d \in Call /\ CallInv(d) /\ d.token = c.token
    BY <1>1 DEF Call, Points, CallInv, Shape, Current, Leased
<1>3. NoMessageLoss'
    BY DEF JobInv, NoMessageLoss, Open, recordVars, WriteDeadLetter
<1>4. /\ stream' \subseteq stream \cup pending /\ pending' \subseteq stream \cup pending
      /\ deadLetter' \subseteq Jobs
    BY <1>1 DEF JobInv, TypeOK, WriteDeadLetter
<1>5. SlotTypeOK' /\ faults' \in 0 .. MaxFaults
    BY SameSlots, FaultType DEF WriteDeadLetter, JobInv
<1>6. GoesOn(g, d) /\ UNCHANGED <<recordVars, lockVars, started>>
    BY DEF WriteDeadLetter, At
<1> HIDE DEF d
<1> QED
    BY <1>2, <1>3, <1>4, <1>5, <1>6, ControlStep

(* Only the message of a settled job is acknowledged.                      *)
LEMMA AckMessageStep ==
    ASSUME JobInv, NEW g \in Goroutines, AckMessage(g)
    PROVE  JobInv'
<1> DEFINE c == call[g]
<1>1. c \in Call /\ CallInv(c) /\ c.pc = "ack" /\ c.pc # "idle" /\ ~Open(c.msg)
    BY CallFacts DEF AckMessage, CallInv, Shape
<1>2. /\ Returned(c) \in Call /\ CallInv(Returned(c)) /\ Returned(c).token \in {c.token, NoToken}
    BY <1>1, ReturnedInv
<1>3. NoMessageLoss'
    BY <1>1 DEF JobInv, NoMessageLoss, Open, recordVars, AckMessage
<1>4. /\ stream' \subseteq stream \cup pending /\ pending' \subseteq stream \cup pending
      /\ deadLetter' \subseteq Jobs
    BY DEF JobInv, TypeOK, AckMessage
<1>5. SlotTypeOK' /\ faults' \in 0 .. MaxFaults
    BY SameSlots, FaultType DEF AckMessage, JobInv, NoFault
<1>6. GoesOn(g, Returned(c)) /\ UNCHANGED <<recordVars, lockVars, started>>
    BY DEF AckMessage, Return
<1> QED
    BY <1>2, <1>3, <1>4, <1>5, <1>6, ControlStep

LEMMA CallFailsStep ==
    ASSUME JobInv, NEW g \in Goroutines, CallFails(g)
    PROVE  JobInv'
<1>1. call[g].pc # "idle"
    BY DEF CallFails
<1> QED
    BY <1>1, SameSlots, ReturnStep DEF CallFails

LEMMA StallStep ==
    ASSUME JobInv, NEW g \in Goroutines, Stall(g)
    PROVE  JobInv'
<1> DEFINE c == call[g]
           d == [c EXCEPT !.overdue = TRUE]
<1>1. c \in Call /\ CallInv(c) /\ c.defers > 0
    BY CallFacts DEF Stall
<1>2. c.pc # "idle"
    BY <1>1 DEF CallInv, Shape, Idle
<1>3. d \in Call /\ CallInv(d) /\ d.token = c.token
    BY <1>1, <1>2 DEF Call, CallInv, Shape, Current, Leased
<1> HIDE DEF d
<1> QED
    BY <1>3, SameSlots, CallStep DEF Stall, d

-----------------------------------------------------------------------------
(* Steps that change locks but no record.                                  *)

(* Calls and locks may change, provided that tokens stay unique and that   *)
(* whoever is not overdue keeps its keys.                                  *)
LEMMA LockStep ==
    ASSUME JobInv, call' \in [Goroutines -> Call],
           \A h \in Goroutines : Shape(call'[h]) /\ Current(call'[h]),
           UNCHANGED <<recordVars, queueVars, started>>,
           SlotTypeOK', faults' \in 0 .. MaxFaults,
           claim' \in [Jobs -> Tokens \cup {NoToken}],
           review' \in [Reviews -> Tokens \cup {NoToken}],
           UniqueTokens', LeaseOwnership'
    PROVE  JobInv'
<1>1. TypeOK'
    BY DEF JobInv, TypeOK, recordVars, queueVars
<1>2. ASSUME NEW d, Shape(d), Current(d)
      PROVE  Shape(d)' /\ Current(d)'
    BY <1>2 DEF Shape, Current, Open, recordVars
<1>3. CallShape' /\ VersionIdentifiesRecord'
    BY <1>2 DEF CallShape, VersionIdentifiesRecord
<1>4. QueueShape' /\ ExecutionIds' /\ NoMessageLoss'
    BY DEF JobInv, QueueShape, ExecutionIds, NoMessageLoss, Open, recordVars, queueVars
<1> QED
    BY <1>1, <1>3, <1>4 DEF JobInv

(* The environment expires keys of the dead and of the overdue only.       *)
LEMMA ExpireClaimStep ==
    ASSUME JobInv, NEW j \in Jobs, ExpireClaim(j)
    PROVE  JobInv'
<1>1. call' = call /\ review' = review /\ faults' = faults
    BY DEF ExpireClaim
<1>2. LeaseOwnership'
    <2> SUFFICES ASSUME NEW h \in Goroutines PROVE Leased(call[h])'
        BY <1>1 DEF LeaseOwnership
    <2>1. Leased(call[h]) /\ call[h].overdue \in BOOLEAN
        BY CallFacts DEF CallInv, Call
    <2>2. CASE call[h].msg = j /\ claim[j] = call[h].token
        BY <1>1, <2>2 DEF ExpireClaim, MayExpire, Leased
    <2>3. CASE call[h].msg # j \/ claim[j] # call[h].token
        BY <1>1, <2>1, <2>3 DEF ExpireClaim, Leased, JobInv, TypeOK, Call
    <2> QED
        BY <2>2, <2>3
<1>3. UniqueTokens'
    BY <1>1 DEF JobInv, UniqueTokens
<1>4. \A h \in Goroutines : Shape(call'[h]) /\ Current(call'[h])
    BY <1>1, CallFacts DEF CallInv
<1>5. /\ SlotTypeOK' /\ call' \in [Goroutines -> Call] /\ faults' \in 0 .. MaxFaults
      /\ claim' \in [Jobs -> Tokens \cup {NoToken}]
      /\ review' \in [Reviews -> Tokens \cup {NoToken}]
      /\ UNCHANGED <<recordVars, queueVars, started>>
    BY <1>1, SameSlots DEF ExpireClaim, JobInv, TypeOK
<1> QED
    BY <1>2, <1>3, <1>4, <1>5, LockStep

LEMMA ExpireReviewStep ==
    ASSUME JobInv, NEW r \in Reviews, ExpireReview(r)
    PROVE  JobInv'
<1>1. call' = call /\ claim' = claim /\ faults' = faults
    BY DEF ExpireReview
<1>2. LeaseOwnership'
    <2> SUFFICES ASSUME NEW h \in Goroutines PROVE Leased(call[h])'
        BY <1>1 DEF LeaseOwnership
    <2>1. Leased(call[h])
        BY CallFacts DEF CallInv
    <2>2. CASE review[r] = call[h].token
        BY <1>1, <2>1, <2>2 DEF ExpireReview, MayExpire, Leased
    <2>3. CASE review[r] # call[h].token
        BY <1>1, <2>1, <2>3 DEF ExpireReview, Leased, JobInv, TypeOK
    <2> QED
        BY <2>2, <2>3
<1>3. UniqueTokens'
    BY <1>1 DEF JobInv, UniqueTokens
<1>4. \A h \in Goroutines : Shape(call'[h]) /\ Current(call'[h])
    BY <1>1, CallFacts DEF CallInv
<1>5. /\ SlotTypeOK' /\ call' \in [Goroutines -> Call] /\ faults' \in 0 .. MaxFaults
      /\ claim' \in [Jobs -> Tokens \cup {NoToken}]
      /\ review' \in [Reviews -> Tokens \cup {NoToken}]
      /\ UNCHANGED <<recordVars, queueVars, started>>
    BY <1>1, SameSlots DEF ExpireReview, JobInv, TypeOK
<1> QED
    BY <1>2, <1>3, <1>4, <1>5, LockStep

LEMMA ExpireSlotsStep ==
    ASSUME JobInv, ExpireSlots
    PROVE  JobInv'
<1>1. SlotTypeOK'
    BY SlotTypes, ForgottenScores
       DEF ExpireSlots, ExpireGlobalKey, ExpireScopeKey, JobInv, TypeOK, SlotTypeOK
<1>2. /\ UNCHANGED <<recordVars, queueVars, started>>
      /\ claim' = claim /\ review' = review /\ call' = call /\ faults' = faults
    BY DEF ExpireSlots, lockVars
<1>3. UniqueTokens' /\ LeaseOwnership'
    BY <1>2 DEF JobInv, UniqueTokens, LeaseOwnership, Leased
<1>4. \A h \in Goroutines : Shape(call'[h]) /\ Current(call'[h])
    BY <1>2, CallFacts DEF CallInv
<1>5. /\ call' \in [Goroutines -> Call] /\ faults' \in 0 .. MaxFaults
      /\ claim' \in [Jobs -> Tokens \cup {NoToken}]
      /\ review' \in [Reviews -> Tokens \cup {NoToken}]
    BY <1>2 DEF JobInv, TypeOK
<1> QED
    BY <1>1, <1>2, <1>3, <1>4, <1>5, LockStep

LEMMA CrashStep ==
    ASSUME JobInv, NEW P \in Processes, Crash(P)
    PROVE  JobInv'
<1>1. \A h \in Goroutines : call'[h] \in {Idle, call[h]}
    BY DEF Crash
<1>2. \A h \in Goroutines : call'[h] \in Call /\ CallInv(call'[h])
    BY <1>1, CallFacts, IdleCall, IdleInv
<1>3. call' \in [Goroutines -> Call]
    BY <1>2 DEF Crash
<1>4. UNCHANGED <<recordVars, queueVars, started>> /\ claim' = claim /\ review' = review
    BY DEF Crash, lockVars
<1>5. LeaseOwnership'
    BY <1>2, <1>4 DEF LeaseOwnership, CallInv, Leased
<1>6. UniqueTokens'
    <2>1. Idle.token = NoToken
        BY DEF Idle
    <2> QED
        BY <1>1, <2>1 DEF JobInv, UniqueTokens
<1>7. /\ SlotTypeOK' /\ faults' \in 0 .. MaxFaults
      /\ claim' \in [Jobs -> Tokens \cup {NoToken}]
      /\ review' \in [Reviews -> Tokens \cup {NoToken}]
    BY <1>4, FaultType DEF Crash, AbandonSlots, JobInv, TypeOK, SlotTypeOK
<1> QED
    BY <1>2, <1>3, <1>4, <1>5, <1>6, <1>7, LockStep DEF CallInv

(* SETNX writes a claim only where there was none, with a token that       *)
(* nobody else has.                                                        *)
LEMMA ClaimJobStep ==
    ASSUME JobInv, NEW g \in Goroutines, ClaimJob(g)
    PROVE  JobInv'
<1> DEFINE c == call[g]
           j == c.msg
           t == CHOOSE u \in FreeTokens : TRUE
           d == [c EXCEPT !.pc = "get", !.token = t, !.defers = 1]
<1>1. /\ c \in Call /\ CallInv(c) /\ c.pc = "claim" /\ c.pc # "idle" /\ c.defers = 0
      /\ j \in Jobs /\ c.loc \in Record \cup {NoRecord}
    BY CallFacts DEF ClaimJob, CallInv, Shape, JobInv, TypeOK, Call
<1>2. CASE claim[j] # NoToken
    <2>1. Return(g) /\ NoFault /\ UNCHANGED <<recordVars, queueVars, lockVars, slotVars, started>>
        BY <1>2 DEF ClaimJob, NoFault, lockVars
    <2> QED
        BY <1>1, <2>1, SameSlots, ReturnStep
<1>3. CASE claim[j] = NoToken
    <2>1. /\ FreeTokens # {}
          /\ claim' = [claim EXCEPT ![j] = t]
          /\ (GoesOn(g, d) /\ NoFault) \/ (Return(g) /\ Fault)
          /\ UNCHANGED <<recordVars, queueVars, review, slotVars, started>>
        BY <1>3 DEF ClaimJob
    <2>2. t \in Tokens /\ ~TokenInUse(t)
        <3>1. t \in FreeTokens
            BY <2>1
        <3> QED
            BY <3>1 DEF FreeTokens
    <2> HIDE DEF t
    <2>3. /\ d \in Call /\ d.pc = "get" /\ d.defers = 1 /\ d.loc = c.loc /\ d.msg = j
          /\ d.token = t /\ d.overdue = c.overdue
        <3>1. 1 \in 0 .. 3 /\ "get" \in Points
            BY DEF Points
        <3> QED
            BY <1>1, <2>2, <3>1 DEF Call
    <2> HIDE DEF d
    <2>4. Shape(d) /\ Current(d)
        BY <1>1, <2>2, <2>3, JobAssumption DEF CallInv, Shape, Current
    <2>5. /\ Returned(c) = Idle /\ Idle \in Call /\ Shape(Idle) /\ Current(Idle)
          /\ Idle.token = NoToken /\ Idle.defers = 0
        BY <1>1, IdleCall, IdleInv DEF Returned, CallInv, Idle
    <2>6. PICK e \in {d, Idle} : GoesOn(g, e)
        BY <2>1, <2>5 DEF Return
    <2>7. /\ call' \in [Goroutines -> Call] /\ call'[g] = e
          /\ \A h \in Goroutines : h # g => call'[h] = call[h]
        BY <2>3, <2>5, <2>6, GoesOnFacts DEF JobInv
    <2>8. \A h \in Goroutines : Shape(call'[h]) /\ Current(call'[h])
        BY <2>4, <2>5, <2>7, CallFacts DEF CallInv
    <2>9. UniqueTokens'
        BY <2>2, <2>3, <2>5, <2>7, JobAssumption DEF JobInv, UniqueTokens, TokenInUse
    <2>10. LeaseOwnership'
        <3> SUFFICES ASSUME NEW h \in Goroutines PROVE Leased(call[h])'
            BY DEF LeaseOwnership
        <3>1. CASE h = g
            BY <1>1, <2>1, <2>3, <2>5, <2>7, <3>1 DEF Leased, JobInv, TypeOK
        <3>2. CASE h # g
            <4>1. Leased(call[h]) /\ Shape(call[h]) /\ call[h] \in Call
                BY CallFacts DEF CallInv
            <4> QED
                BY <1>3, <2>1, <2>7, <3>2, <4>1 DEF Leased, Shape, JobInv, TypeOK, Call
        <3> QED
            BY <3>1, <3>2
    <2>11. /\ SlotTypeOK' /\ faults' \in 0 .. MaxFaults
           /\ claim' \in [Jobs -> Tokens \cup {NoToken}]
           /\ review' \in [Reviews -> Tokens \cup {NoToken}]
        BY <2>1, <2>2, SameSlots, FaultType DEF JobInv, TypeOK
    <2> QED
        BY <2>1, <2>7, <2>8, <2>9, <2>10, <2>11, LockStep
<1> QED
    BY <1>2, <1>3

LEMMA ClaimReviewStep ==
    ASSUME JobInv, NEW g \in Goroutines, ClaimReview(g)
    PROVE  JobInv'
<1> DEFINE c == call[g]
           r == ReviewOf[c.msg]
           d == [c EXCEPT !.pc = "slot", !.defers = 2]
<1>1. /\ c \in Call /\ CallInv(c) /\ c.pc = "review" /\ c.pc # "idle" /\ c.defers = 1
      /\ c.msg \in Jobs /\ r \in Reviews /\ c.token \in Tokens
    BY CallFacts, JobAssumption DEF ClaimReview, CallInv, Shape, JobInv, TypeOK, Call
<1>2. CASE review[r] # NoToken
    <2>1. Return(g) /\ NoFault /\ UNCHANGED <<recordVars, queueVars, lockVars, slotVars, started>>
        BY <1>2 DEF ClaimReview, NoFault, lockVars
    <2> QED
        BY <1>1, <2>1, SameSlots, ReturnStep
<1>3. CASE review[r] = NoToken
    <2>1. /\ review' = [review EXCEPT ![r] = c.token]
          /\ (GoesOn(g, d) /\ NoFault) \/ (Return(g) /\ Fault)
          /\ UNCHANGED <<recordVars, queueVars, claim, slotVars, started>>
        BY <1>3 DEF ClaimReview
    <2>2. /\ d \in Call /\ d.pc = "slot" /\ d.defers = 2 /\ d.loc = c.loc /\ d.msg = c.msg
          /\ d.token = c.token /\ d.overdue = c.overdue
        <3>1. 2 \in 0 .. 3 /\ "slot" \in Points
            BY DEF Points
        <3> QED
            BY <1>1, <3>1 DEF Call
    <2> HIDE DEF d
    <2>3. Shape(d) /\ Current(d)
        BY <1>1, <2>2, JobAssumption DEF CallInv, Shape, Current
    <2>4. /\ Returned(c) \in Call /\ CallInv(Returned(c)) /\ Returned(c).token = c.token
          /\ Returned(c).defers = 1 /\ Returned(c).msg = c.msg /\ Returned(c).overdue = c.overdue
        <3>1. Returned(c) \in Call /\ CallInv(Returned(c))
            BY <1>1, ReturnedInv
        <3> QED
            BY <1>1, <3>1 DEF Returned, Call
    <2>5. PICK e \in {d, Returned(c)} : GoesOn(g, e)
        BY <2>1 DEF Return
    <2>6. /\ e \in Call /\ Shape(e) /\ Current(e) /\ e.token = c.token
          /\ e.msg = c.msg /\ e.overdue = c.overdue
        BY <2>2, <2>3, <2>4, <2>5 DEF CallInv
    <2>7. /\ call' \in [Goroutines -> Call] /\ call'[g] = e
          /\ \A h \in Goroutines : h # g => call'[h] = call[h]
        BY <2>5, <2>6, GoesOnFacts DEF JobInv
    <2>8. \A h \in Goroutines : Shape(call'[h]) /\ Current(call'[h])
        BY <2>6, <2>7, CallFacts DEF CallInv
    <2>9. UniqueTokens'
        BY <2>6, <2>7 DEF JobInv, UniqueTokens
    <2>10. LeaseOwnership'
        <3> SUFFICES ASSUME NEW h \in Goroutines PROVE Leased(call[h])'
            BY DEF LeaseOwnership
        <3>1. CASE h = g
            BY <1>1, <2>1, <2>6, <2>7, <3>1 DEF CallInv, Leased, JobInv, TypeOK
        <3>2. CASE h # g
            <4>1. Leased(call[h]) /\ Shape(call[h]) /\ call[h] \in Call
                BY CallFacts DEF CallInv
            <4> QED
                BY <1>3, <2>1, <2>7, <3>2, <4>1 DEF Leased, Shape, JobInv, TypeOK, Call
        <3> QED
            BY <3>1, <3>2
    <2>11. /\ SlotTypeOK' /\ faults' \in 0 .. MaxFaults
           /\ claim' \in [Jobs -> Tokens \cup {NoToken}]
           /\ review' \in [Reviews -> Tokens \cup {NoToken}]
        BY <1>1, <2>1, SameSlots, FaultType DEF JobInv, TypeOK
    <2> QED
        BY <2>1, <2>7, <2>8, <2>9, <2>10, <2>11, LockStep
<1> QED
    BY <1>2, <1>3

(* One deferred release fewer.                                             *)
LEMMA DropFacts ==
    ASSUME JobInv, NEW g \in Goroutines, call[g].pc = "return", DropDefer(g)
    PROVE  \E e \in Call :
              /\ GoesOn(g, e)
              /\ Shape(e) /\ Current(e)
              /\ e.defers = call[g].defers - 1
              /\ e.token \in {call[g].token, NoToken}
              /\ e.defers > 0 => /\ e.token = call[g].token /\ e.msg = call[g].msg
                                 /\ e.overdue = call[g].overdue
<1> DEFINE c == call[g]
           d == [c EXCEPT !.defers = @ - 1]
<1>1. c \in Call /\ CallInv(c) /\ c.pc = "return" /\ c.defers \in 1 .. 3 /\ c.token # NoToken
    BY CallFacts DEF CallInv, Shape, Call
<1>2. CASE c.defers = 1
    <2>1. GoesOn(g, Idle) /\ Idle.defers = 0 /\ Idle.token = NoToken
        BY <1>2 DEF DropDefer, Idle
    <2> QED
        BY <1>2, <2>1, IdleCall, IdleInv DEF CallInv
<1>3. CASE c.defers # 1
    <2>1. GoesOn(g, d)
        BY <1>3 DEF DropDefer
    <2>2. c.defers - 1 \in 0 .. 3 /\ c.defers - 1 > 0
        BY <1>1, <1>3
    <2>3. /\ d \in Call /\ d.pc = "return" /\ d.defers = c.defers - 1 /\ d.loc = c.loc
          /\ d.msg = c.msg /\ d.token = c.token /\ d.overdue = c.overdue
        BY <1>1, <2>2 DEF Call
    <2> HIDE DEF d
    <2>4. Shape(d) /\ Current(d)
        BY <1>1, <2>2, <2>3 DEF CallInv, Shape, Current
    <2> QED
        BY <2>1, <2>3, <2>4
<1> QED
    BY <1>2, <1>3

(* A release deletes the caller's own key or none.                         *)
LEMMA ReleaseStep ==
    ASSUME JobInv, NEW g \in Goroutines, ReleaseNext(g) \/ ReleaseFails(g)
    PROVE  JobInv'
<1> DEFINE c == call[g]
           r == ReviewOf[c.msg]
<1>1. /\ c \in Call /\ CallInv(c) /\ c.pc = "return" /\ c.defers \in 1 .. 3
      /\ c.token \in Tokens /\ c.msg \in Jobs /\ r \in Reviews
    BY CallFacts, JobAssumption DEF CallInv, Shape, Call, ReleaseNext, ReleaseFails, JobInv, TypeOK
<1>2. DropDefer(g)
    BY DEF ReleaseNext, ReleaseFails
<1>3. PICK e \in Call :
              /\ GoesOn(g, e)
              /\ Shape(e) /\ Current(e)
              /\ e.defers = c.defers - 1
              /\ e.token \in {c.token, NoToken}
              /\ e.defers > 0 => e.token = c.token /\ e.msg = c.msg /\ e.overdue = c.overdue
    BY <1>1, <1>2, DropFacts
<1>4. /\ call' \in [Goroutines -> Call] /\ call'[g] = e
      /\ \A h \in Goroutines : h # g => call'[h] = call[h]
    BY <1>3, GoesOnFacts DEF JobInv
<1>5. /\ claim' \in {claim, Released(claim, c.msg, c.token)}
      /\ review' \in {review, Released(review, r, c.token)}
      /\ c.defers # 1 => claim' = claim
      /\ c.defers # 2 => review' = review
    BY <1>1 DEF ReleaseNext, ReleaseFails, lockVars
<1>6. \A h \in Goroutines : Shape(call'[h]) /\ Current(call'[h])
    BY <1>3, <1>4, CallFacts DEF CallInv
<1>7. UniqueTokens'
    BY <1>3, <1>4 DEF JobInv, UniqueTokens
<1>8. LeaseOwnership'
    <2> SUFFICES ASSUME NEW h \in Goroutines PROVE Leased(call[h])'
        BY DEF LeaseOwnership
    <2>1. CASE h = g
        BY <1>1, <1>3, <1>4, <1>5, <2>1 DEF CallInv, Leased
    <2>2. CASE h # g
        <3>1. Leased(call[h]) /\ Shape(call[h]) /\ call[h] \in Call /\ call[h].token # c.token
            BY <1>1, <2>2, CallFacts, JobAssumption DEF CallInv, JobInv, UniqueTokens
        <3>2. /\ \A m \in Jobs : claim[m] # c.token => claim'[m] = claim[m]
              /\ \A m \in Reviews : review[m] # c.token => review'[m] = review[m]
            BY <1>5 DEF Released, JobInv, TypeOK
        <3>3. call[h].defers >= 1 => call[h].msg \in Jobs /\ ReviewOf[call[h].msg] \in Reviews
            BY <3>1, JobAssumption DEF Shape, Idle, JobInv, TypeOK
        <3>4. call'[h] = call[h] /\ call[h].defers \in 0 .. 3
            BY <1>4, <2>2, <3>1 DEF Call
        <3> QED
            BY <3>1, <3>2, <3>3, <3>4 DEF Leased
    <2> QED
        BY <2>1, <2>2
<1>9. /\ claim' \in [Jobs -> Tokens \cup {NoToken}]
      /\ review' \in [Reviews -> Tokens \cup {NoToken}]
    BY <1>5 DEF Released, JobInv, TypeOK
<1>10. SlotTypeOK'
    BY <1>1, SameSlots, SlotTypes DEF ReleaseNext, ReleaseFails, JobInv, TypeOK
<1>11. faults' \in 0 .. MaxFaults /\ UNCHANGED <<recordVars, queueVars, started>>
    BY FaultType DEF ReleaseNext, ReleaseFails, NoFault, JobInv
<1> QED
    BY <1>4, <1>6, <1>7, <1>8, <1>9, <1>10, <1>11, LockStep

-----------------------------------------------------------------------------
(* Steps that change records.                                              *)

LEMMA SubmitStep ==
    ASSUME JobInv, NEW j \in Jobs, Submit(j)
    PROVE  JobInv'
<1>1. /\ call' = call /\ claim' = claim /\ review' = review /\ faults' = faults
      /\ rec' = [rec EXCEPT ![j] = NewRecord] /\ created' = created \cup {j}
      /\ started' = started /\ j \notin created
    BY DEF Submit, lockVars
<1>2. NewRecord \in Record /\ NewRecord.status = Pending /\ NewRecord.execution = 1
    BY NewRecordFields
<1>3. TypeOK'
    <2>1. source' \in [Sources -> Jobs \cup {NoJob}]
        BY DEF Submit, JobInv, TypeOK
    <2>2. lastExec' \in [Jobs -> Nat]
        BY DEF Submit, JobInv, TypeOK
    <2> QED
        BY <1>1, <1>2, <2>1, <2>2, SameSlots DEF Submit, JobInv, TypeOK
<1>4. CallShape' /\ VersionIdentifiesRecord' /\ LeaseOwnership' /\ UniqueTokens'
    <2>1. ASSUME NEW h \in Goroutines
          PROVE  Shape(call[h])' /\ Current(call[h])' /\ Leased(call[h])'
        <3>1. Shape(call[h]) /\ Current(call[h]) /\ Leased(call[h]) /\ call[h] \in Call
            BY CallFacts DEF CallInv
        <3>2. CASE call[h].pc = "idle"
            <4>1. call[h].loc = NoRecord /\ call[h].defers = 0 /\ call[h] = Idle
                BY <3>1, <3>2 DEF Shape, Idle
            <4> QED
                BY <1>1, <3>1, <3>2, <4>1 DEF Shape, Current, Leased
        <3>3. CASE call[h].pc # "idle"
            <4>1. call[h].msg # j /\ call[h].msg \in Jobs
                BY <1>1, <3>1, <3>3 DEF Shape, JobInv, TypeOK
            <4>2. rec'[call[h].msg] = rec[call[h].msg]
                BY <1>1, <4>1 DEF JobInv, TypeOK
            <4> QED
                BY <1>1, <3>1, <4>1, <4>2 DEF Shape, Current, Leased, Open
        <3> QED
            BY <3>2, <3>3
    <2> QED
        BY <1>1, <2>1 DEF CallShape, VersionIdentifiesRecord, LeaseOwnership, UniqueTokens, JobInv
<1>5. QueueShape' /\ NoMessageLoss'
    BY <1>1 DEF Submit, JobInv, TypeOK, QueueShape, NoMessageLoss, Open
<1>6. ExecutionIds'
    BY <1>1, <1>2, RecordAssumption DEF Submit, JobInv, TypeOK, QueueShape, ExecutionIds, Record
<1> QED
    BY <1>3, <1>4, <1>5, <1>6 DEF JobInv

(* A save that matches the version replaces exactly the record it read.    *)
LEMMA MatchedIsCurrent ==
    ASSUME JobInv, NEW g \in Goroutines, call[g].pc \in {"begin", "finish"},
           Matches(call[g].msg, call[g].loc)
    PROVE  /\ call[g].msg \in Jobs /\ call[g].msg \in created
           /\ call[g].loc \in Record
           /\ rec[call[g].msg] = call[g].loc /\ Open(call[g].msg)
           /\ call[g].token \in Tokens
<1>1. call[g] \in Call /\ CallInv(call[g])
    BY CallFacts
<1>2. call[g].msg \in created /\ call[g].loc # NoRecord /\ call[g].defers > 0
    BY <1>1 DEF CallInv, Shape
<1>3. call[g].msg \in Jobs /\ call[g].loc \in Record /\ call[g].token \in Tokens
    BY <1>1, <1>2 DEF JobInv, TypeOK, Call, CallInv, Shape
<1>4. rec[call[g].msg] = call[g].loc
    BY <1>1, <1>2 DEF CallInv, Current, Matches
<1> QED
    BY <1>1, <1>2, <1>3, <1>4 DEF CallInv, Shape, Open

(* Other goroutines' copies fall behind the new version; none of them is   *)
(* about to acknowledge the message.                                       *)
LEMMA StoreKeepsCalls ==
    ASSUME JobInv, NEW j \in Jobs, NEW r \in Record, Open(j), r.version = rec[j].version,
           Store(j, r), NEW d \in Call, CallInv(d)
    PROVE  Shape(d)' /\ Current(d)'
<1>1. /\ rec[j] \in Record /\ rec' = [rec EXCEPT ![j] = NextVersion(r)] /\ created' = created
      /\ NextVersion(r) \in Record /\ NextVersion(r).version = rec[j].version + 1
    BY NextVersionFields DEF Store, Open, JobInv, TypeOK
<1>2. CASE d.msg = j
    <2>1. d.pc \notin {"ack", "deadletter"}
        BY <1>2 DEF CallInv, Shape
    <2>2. Shape(d)'
        BY <1>1, <2>1 DEF CallInv, Shape
    <2>3. rec'[d.msg] = NextVersion(r)
        BY <1>1, <1>2 DEF JobInv, TypeOK
    <2>4. d.loc # NoRecord => d.loc.version <= rec[j].version /\ d.loc.version \in Nat
        BY <1>2 DEF CallInv, Current, Open, Call, Record
    <2>5. rec[j].version \in Nat
        BY <1>1 DEF Record
    <2>6. Current(d)'
        BY <1>1, <2>3, <2>4, <2>5 DEF Current
    <2> QED
        BY <2>2, <2>6
<1>3. CASE d.msg # j
    <2>1. rec'[d.msg] = rec[d.msg]
        BY <1>1, <1>3 DEF JobInv, TypeOK
    <2> QED
        BY <1>1, <2>1 DEF CallInv, Shape, Current, Open
<1> QED
    BY <1>2, <1>3

LEMMA StoreStep ==
    ASSUME JobInv, NEW g \in Goroutines, call[g].pc \in {"begin", "finish"},
           Matches(call[g].msg, call[g].loc),
           NEW r \in Record, r.version = call[g].loc.version, Store(call[g].msg, r),
           NEW e \in Call, GoesOn(g, e), Shape(e)', Current(e)', Leased(e),
           e.token \in {call[g].token, NoToken},
           started' \in {started, [started EXCEPT ![call[g].msg] = @ \cup {r.execution}]},
           r.status \in {Pending, Retrying} => r.execution \notin started'[call[g].msg],
           UNCHANGED <<queueVars, lockVars, slotVars>>, Fault \/ NoFault
    PROVE  JobInv'
<1> DEFINE j == call[g].msg
<1>1. /\ j \in Jobs /\ j \in created /\ rec[j] = call[g].loc /\ Open(j)
    BY MatchedIsCurrent
<1>2. /\ call' \in [Goroutines -> Call] /\ call'[g] = e
      /\ \A h \in Goroutines : h # g => call'[h] = call[h]
    BY GoesOnFacts DEF JobInv
<1>3. /\ rec' = [rec EXCEPT ![j] = NextVersion(r)] /\ created' = created
      /\ lastExec' = [lastExec EXCEPT ![j] = IF r.execution > @ THEN r.execution ELSE @]
      /\ NextVersion(r) \in Record /\ NextVersion(r).status = r.status
      /\ NextVersion(r).execution = r.execution /\ r.execution \in Nat
    BY NextVersionFields DEF Store, Record
<1> HIDE DEF j
<1>4. TypeOK'
    <2>1. rec' \in [Jobs -> Record \cup {NoRecord}] /\ lastExec' \in [Jobs -> Nat]
        BY <1>3 DEF JobInv, TypeOK
    <2>2. started' \in [Jobs -> SUBSET Nat]
        BY <1>3 DEF JobInv, TypeOK
    <2>3. source' \in [Sources -> Jobs \cup {NoJob}] /\ elapsed' \in SUBSET Jobs
        BY <1>1 DEF Store, JobInv, TypeOK, j
    <2>4. SlotTypeOK' /\ faults' \in 0 .. MaxFaults
        BY SameSlots, FaultType DEF JobInv
    <2> QED
        BY <1>2, <1>3, <2>1, <2>2, <2>3, <2>4 DEF JobInv, TypeOK, queueVars, lockVars
<1>5. CallShape' /\ VersionIdentifiesRecord'
    <2>1. ASSUME NEW h \in Goroutines
          PROVE  Shape(call[h])' /\ Current(call[h])'
        <3>1. CASE h = g
            BY <1>2, <3>1
        <3>2. CASE h # g
            <4>1. call[h] \in Call /\ CallInv(call[h])
                BY CallFacts
            <4>2. \A d \in Call : CallInv(d) => Shape(d)' /\ Current(d)'
                BY <1>1, StoreKeepsCalls DEF j
            <4> QED
                BY <1>2, <3>2, <4>1, <4>2
        <3> QED
            BY <3>1, <3>2
    <2> QED
        BY <2>1 DEF CallShape, VersionIdentifiesRecord
<1>6. UniqueTokens' /\ LeaseOwnership'
    <2>1. \A d : Leased(d) => Leased(d)'
        BY DEF Leased, lockVars
    <2>2. \A h \in Goroutines : Leased(call'[h])
        BY <1>2, CallFacts DEF CallInv
    <2>3. LeaseOwnership'
        BY <2>1, <2>2 DEF LeaseOwnership
    <2>4. UniqueTokens'
        BY <1>2 DEF JobInv, UniqueTokens
    <2> QED
        BY <2>3, <2>4
<1>7. QueueShape' /\ NoMessageLoss'
    <2>1. \A k \in Jobs : k # j => rec'[k] = rec[k] /\ started'[k] = started[k]
        BY <1>1, <1>3 DEF JobInv, TypeOK, j
    <2> QED
        BY <1>1, <1>3, <2>1 DEF JobInv, TypeOK, QueueShape, NoMessageLoss, Open, queueVars
<1>8. ExecutionIds'
    <2> SUFFICES ASSUME NEW k \in Jobs
                 PROVE  /\ started'[k] \subseteq 0 .. lastExec'[k]
                        /\ rec'[k] # NoRecord =>
                              /\ rec'[k].execution <= lastExec'[k]
                              /\ rec'[k].status \in {Pending, Retrying} =>
                                    rec'[k].execution \notin started'[k]
        BY DEF ExecutionIds
    <2>1. lastExec[k] \in Nat /\ started[k] \subseteq 0 .. lastExec[k]
        BY DEF JobInv, TypeOK, ExecutionIds
    <2>2. CASE k # j
        BY <1>3, <2>2 DEF JobInv, TypeOK, ExecutionIds, j
    <2>3. CASE k = j
        <3>1. rec'[k] = NextVersion(r)
            BY <1>1, <1>3, <2>3 DEF JobInv, TypeOK
        <3>2. lastExec'[k] = IF r.execution > lastExec[k] THEN r.execution ELSE lastExec[k]
            BY <1>1, <1>3, <2>3 DEF JobInv, TypeOK
        <3>3. started'[k] \subseteq started[k] \cup {r.execution}
            BY <1>1, <2>3 DEF JobInv, TypeOK, j
        <3>4. started'[k] \subseteq 0 .. lastExec'[k] /\ r.execution <= lastExec'[k]
            BY <1>3, <2>1, <3>2, <3>3
        <3> QED
            BY <1>3, <2>3, <3>1, <3>4 DEF j
    <2> QED
        BY <2>2, <2>3
<1> QED
    BY <1>4, <1>5, <1>6, <1>7, <1>8 DEF JobInv

(* A call that returns after the save is as good as before it.             *)
LEMMA StoreReturnStep ==
    ASSUME JobInv, NEW g \in Goroutines, call[g].pc \in {"begin", "finish"},
           Matches(call[g].msg, call[g].loc),
           NEW r \in Record, r.version = call[g].loc.version, Store(call[g].msg, r),
           Return(g), UNCHANGED started,
           r.status \in {Pending, Retrying} => r.execution \notin started[call[g].msg],
           UNCHANGED <<queueVars, lockVars, slotVars>>, Fault \/ NoFault
    PROVE  JobInv'
<1>1. /\ Returned(call[g]) \in Call /\ CallInv(Returned(call[g]))
      /\ Returned(call[g]).token \in {call[g].token, NoToken}
    BY CallFacts, ReturnedInv
<1>2. /\ call[g].msg \in Jobs /\ rec[call[g].msg] = call[g].loc /\ Open(call[g].msg)
    BY MatchedIsCurrent
<1>3. \A d \in Call : CallInv(d) => Shape(d)' /\ Current(d)'
    BY <1>2, StoreKeepsCalls
<1>4. PICK e \in Call : e = Returned(call[g])
    BY <1>1
<1>5. CallInv(e) /\ e.token \in {call[g].token, NoToken} /\ GoesOn(g, e)
    BY <1>1, <1>4 DEF Return
<1>6. Shape(e)' /\ Current(e)' /\ Leased(e)
    BY <1>3, <1>5 DEF CallInv
<1> QED
    BY <1>5, <1>6, StoreStep

LEMMA BeginRunStep ==
    ASSUME JobInv, NEW g \in Goroutines, BeginRun(g)
    PROVE  JobInv'
<1> DEFINE c == call[g]
           j == call[g].msg
           id == lastExec[j] + 1
           r == Begun(Reclaimed(c.loc, id))
<1>1. c.pc = "begin"
    BY DEF BeginRun
<1>2. CASE ~Matches(j, c.loc)
    BY <1>1, <1>2, ReturnStep, SameSlots DEF BeginRun, NoFault
<1>3. CASE Matches(j, c.loc)
    <2>1. /\ j \in Jobs /\ j \in created /\ c.loc \in Record /\ rec[j] = c.loc /\ Open(j)
          /\ c.token \in Tokens
        BY <1>1, <1>3, MatchedIsCurrent
    <2>2. id \in Nat
        BY <2>1 DEF JobInv, TypeOK
    <2>3. /\ r \in Record /\ r.status = Running /\ r.version = c.loc.version
        BY <2>1, <2>2, BeginFields
    <2>4. Store(j, r) /\ UNCHANGED <<queueVars, lockVars, slotVars>>
        BY <1>3 DEF BeginRun
    <2>5. r.status \notin {Pending, Retrying}
        BY <2>3 DEF Pending, Running, Retrying
    <2>6. CASE Return(g) /\ Fault /\ UNCHANGED started
        <3> HIDE DEF r
        <3> QED
            BY <1>1, <1>3, <2>3, <2>4, <2>6, <2>5, StoreReturnStep
    <2>7. CASE /\ GoesOn(g, [c EXCEPT !.pc = "run", !.loc = NextVersion(r)])
               /\ started' = [started EXCEPT ![j] = @ \cup {r.execution}]
               /\ NoFault
        <3> HIDE DEF r
        <3>1. c \in Call /\ CallInv(c)
            BY CallFacts
        <3>2. NextVersion(r) \in Record /\ NextVersion(r).status = Running
            BY <2>3, NextVersionFields
        <3>3. PICK e \in Call : e = [c EXCEPT !.pc = "run", !.loc = NextVersion(r)]
            BY <3>1, <3>2 DEF Call, Points
        <3>4. /\ e.pc = "run" /\ e.loc = NextVersion(r) /\ e.msg = j /\ e.token = c.token
              /\ e.defers = c.defers /\ e.overdue = c.overdue
            BY <3>1, <3>3 DEF Call
        <3>5. rec'[j] = NextVersion(r) /\ created' = created
            BY <2>1, <2>4 DEF Store, JobInv, TypeOK
        <3>6. Shape(e)'
            BY <1>1, <2>1, <3>1, <3>2, <3>4, <3>5, RecordAssumption
            DEF CallInv, Shape, IsTerminal, Running, Succeeded, Incomplete, Failed
        <3>7. Current(e)'
            BY <3>2, <3>4, <3>5 DEF Current, Record
        <3>8. Leased(e)
            BY <3>1, <3>4 DEF CallInv, Leased
        <3>9. GoesOn(g, e)
            BY <2>7, <3>3
        <3> QED
            BY <1>1, <1>3, <2>3, <2>4, <2>7, <2>5, <3>4, <3>6, <3>7, <3>8, <3>9, StoreStep
    <2> QED
        BY <1>3, <2>6, <2>7 DEF BeginRun
<1> QED
    BY <1>2, <1>3

LEMMA FinishRunStep ==
    ASSUME JobInv, NEW g \in Goroutines, FinishRun(g)
    PROVE  JobInv'
<1> DEFINE c == call[g]
           j == call[g].msg
           id == lastExec[j] + 1
           r == Settled(j, c.loc, c.outcome, id)
<1>1. c.pc = "finish"
    BY DEF FinishRun
<1>2. CASE ~Matches(j, c.loc)
    BY <1>1, <1>2, ReturnStep, SameSlots DEF FinishRun, NoFault
<1>3. CASE Matches(j, c.loc)
    <2>1. /\ j \in Jobs /\ j \in created /\ c.loc \in Record /\ rec[j] = c.loc /\ Open(j)
          /\ c.token \in Tokens
        BY <1>1, <1>3, MatchedIsCurrent
    <2>2. id \in Nat /\ c.outcome \in Outcomes /\ c \in Call /\ CallInv(c)
        BY <2>1, CallFacts DEF JobInv, TypeOK, Call
    <2>3. /\ r \in Record /\ r.version = c.loc.version
          /\ \/ IsTerminal(r.status)
             \/ r.status = Retrying /\ r.execution = id
        BY <2>1, <2>2, SettledFields
    <2>4. Store(j, r) /\ UNCHANGED started /\ UNCHANGED <<queueVars, lockVars, slotVars>>
        BY <1>3 DEF FinishRun
    <2>5. r.status \in {Pending, Retrying} => r.execution \notin started[j]
        <3>1. id \notin started[j]
            BY <2>1 DEF JobInv, TypeOK, ExecutionIds
        <3> HIDE DEF r, id
        <3> QED
            BY <2>3, <3>1 DEF IsTerminal, Pending, Retrying, Succeeded, Incomplete, Failed
    <2>6. ASSUME Return(g), Fault \/ NoFault
          PROVE  JobInv'
        <3> HIDE DEF r
        <3> QED
            BY <1>1, <1>3, <2>3, <2>4, <2>5, <2>6, StoreReturnStep
    <2>7. CASE GoesOn(g, AfterFinish(c, r)) /\ NoFault
        <3>1. CASE r.status = Retrying
            <4> HIDE DEF r
            <4>1. AfterFinish(c, r) = Returned(c)
                BY <3>1 DEF AfterFinish, Retrying, Failed
            <4> QED
                BY <2>6, <2>7, <4>1 DEF Return
        <3>2. CASE r.status # Retrying
            <4> HIDE DEF r
            <4>1. PICK pc \in {"ack", "deadletter"} : AfterFinish(c, r) = [c EXCEPT !.pc = pc]
                BY <3>2 DEF AfterFinish
            <4>2. PICK e \in Call : e = [c EXCEPT !.pc = pc]
                BY <2>2 DEF Call, Points
            <4>3. /\ e.pc = pc /\ e.msg = j /\ e.token = c.token /\ e.loc = c.loc
                  /\ e.defers = c.defers /\ e.overdue = c.overdue
                BY <2>2, <4>2 DEF Call
            <4>4. /\ rec'[j] = NextVersion(r) /\ created' = created /\ IsTerminal(rec'[j].status)
                  /\ rec'[j].version = c.loc.version + 1 /\ c.loc.version \in Nat
                BY <2>1, <2>3, <2>4, <3>2, NextVersionFields DEF Store, JobInv, TypeOK, Record
            <4>5. Shape(e)'
                BY <1>1, <2>1, <2>2, <4>3, <4>4 DEF CallInv, Shape, Open
            <4>6. Current(e)'
                BY <4>3, <4>4 DEF Current
            <4>7. Leased(e)
                BY <2>2, <4>3 DEF CallInv, Leased
            <4>8. GoesOn(g, e)
                BY <2>7, <4>1, <4>2
            <4> QED
                BY <1>1, <1>3, <2>3, <2>4, <2>5, <2>7, <4>3, <4>5, <4>6, <4>7, <4>8, StoreStep
        <3> QED
            BY <3>1, <3>2
    <2> QED
        BY <1>3, <2>6, <2>7 DEF FinishRun
<1> QED
    BY <1>2, <1>3

LEMMA ElapseStep ==
    ASSUME JobInv, NEW j \in Jobs, Elapse(j)
    PROVE  JobInv'
<1>1. elapsed' \in SUBSET Jobs /\ SlotTypeOK'
    BY SameSlots DEF Elapse, JobInv, TypeOK
<1>2. TypeOK'
    BY <1>1 DEF Elapse, JobInv, TypeOK, queueVars, lockVars
<1> QED
    BY <1>2 DEF Elapse, JobInv, CallShape, Shape, QueueShape, VersionIdentifiesRecord, Current,
                ExecutionIds, UniqueTokens, LeaseOwnership, Leased, NoMessageLoss, Open,
                queueVars, lockVars

LEMMA ExpireRecordStep ==
    ASSUME JobInv, NEW j \in Jobs, ExpireRecord(j)
    PROVE  JobInv'
<1>1. /\ rec' = [rec EXCEPT ![j] = NoRecord] /\ call' = call /\ created' = created
      /\ UNCHANGED <<started, lastExec, stream, pending, claim, review>>
    BY DEF ExpireRecord, queueVars, lockVars
<1>2. TypeOK'
    <2>1. rec' \in [Jobs -> Record \cup {NoRecord}]
        BY <1>1 DEF JobInv, TypeOK
    <2>2. source' \in [Sources -> Jobs \cup {NoJob}] /\ elapsed' \in SUBSET Jobs
        BY DEF ExpireRecord, JobInv, TypeOK
    <2>3. SlotTypeOK' /\ faults' \in 0 .. MaxFaults
        BY SameSlots, FaultType DEF ExpireRecord, JobInv
    <2> QED
        BY <1>1, <2>1, <2>2, <2>3 DEF ExpireRecord, JobInv, TypeOK, queueVars
<1>3. \A k \in Jobs : rec'[k] = NoRecord \/ rec'[k] = rec[k]
    BY <1>1 DEF JobInv, TypeOK
<1>4. \A h \in Goroutines : call[h] \in Call /\ CallInv(call[h])
    BY CallFacts
<1>5. CallShape' /\ VersionIdentifiesRecord'
    <2> SUFFICES ASSUME NEW h \in Goroutines PROVE Shape(call[h])' /\ Current(call[h])'
        BY DEF CallShape, VersionIdentifiesRecord
    <2>1. Shape(call[h]) /\ Current(call[h]) /\ call[h] \in Call
        BY <1>4 DEF CallInv
    <2>2. CASE call[h].pc = "idle"
        <3>1. call[h].loc = NoRecord
            BY <2>1, <2>2 DEF Shape, Idle
        <3> QED
            BY <1>1, <2>1, <2>2, <3>1 DEF Shape, Current
    <2>3. CASE call[h].pc # "idle"
        <3>1. call[h].msg \in Jobs
            BY <2>1, <2>3 DEF Shape, JobInv, TypeOK
        <3> QED
            BY <1>1, <1>3, <2>1, <3>1 DEF Shape, Current, Open
    <2> QED
        BY <2>2, <2>3
<1>6. LeaseOwnership' /\ UniqueTokens'
    BY <1>1 DEF JobInv, LeaseOwnership, Leased, UniqueTokens
<1>7. QueueShape' /\ NoMessageLoss' /\ ExecutionIds'
    BY <1>1, <1>3 DEF JobInv, QueueShape, NoMessageLoss, Open, ExecutionIds
<1> QED
    BY <1>2, <1>5, <1>6, <1>7 DEF JobInv

LEMMA InitInv == Init => JobInv
<1> SUFFICES ASSUME Init PROVE JobInv
    OBVIOUS
<1>1. TypeOK
    BY IdleCall, JobAssumption DEF Init, SlotInit, TypeOK, SlotTypeOK
<1>2. \A h \in Goroutines : call[h] = Idle
    BY DEF Init
<1>3. CallShape /\ VersionIdentifiesRecord /\ LeaseOwnership
    BY <1>2, IdleInv DEF CallInv, CallShape, VersionIdentifiesRecord, LeaseOwnership
<1>4. UniqueTokens
    BY <1>2 DEF UniqueTokens, Idle
<1>5. QueueShape /\ ExecutionIds /\ NoMessageLoss
    BY DEF Init, QueueShape, ExecutionIds, NoMessageLoss, Open
<1> QED
    BY <1>1, <1>3, <1>4, <1>5 DEF JobInv

(* One case per action of process(), recoverProcessing() and Redis.        *)
LEMMA JobStep == JobInv /\ [Next]_vars => JobInv'
<1> SUFFICES ASSUME JobInv, [Next]_vars PROVE JobInv'
    OBVIOUS
<1>1. ASSUME NEW j \in Jobs, Submit(j) PROVE JobInv'
    BY <1>1, SubmitStep
<1>2. ASSUME NEW g \in Goroutines, NEW j \in Jobs, Deliver(g, j) \/ AutoClaim(g, j)
      PROVE  JobInv'
    BY <1>2, DeliverStep, AutoClaimStep
<1>3. ASSUME NEW g \in Goroutines, Step(g) PROVE JobInv'
    BY <1>3, RecoverFetchStep, ClaimJobStep, GetRecordStep, ClaimReviewStep,
       AcquireConcurrencyStep, BeginRunStep, RunReturnsStep, FinishRunStep,
       WriteDeadLetterStep, AckMessageStep, ReleaseStep DEF Step
<1>4. ASSUME NEW g \in Goroutines, RenewLeases(g) PROVE JobInv'
    BY <1>4, RenewLeasesStep
<1>5. ASSUME NEW g \in Goroutines, Failure(g) PROVE JobInv'
    BY <1>5, CallFailsStep, ReleaseStep, StallStep DEF Failure
<1>6. ASSUME NEW P \in Processes, Crash(P) PROVE JobInv'
    BY <1>6, CrashStep
<1>7. ASSUME NEW j \in Jobs, ExpireClaim(j) \/ Elapse(j) \/ ExpireRecord(j) PROVE JobInv'
    BY <1>7, ExpireClaimStep, ElapseStep, ExpireRecordStep
<1>8. ASSUME NEW r \in Reviews, ExpireReview(r) PROVE JobInv'
    BY <1>8, ExpireReviewStep
<1>9. ASSUME ExpireSlots PROVE JobInv'
    BY <1>9, ExpireSlotsStep
<1>10. ASSUME UNCHANGED vars PROVE JobInv'
    <2>1. TypeOK'
        BY <1>10, SameSlots DEF vars, JobInv, TypeOK, recordVars, queueVars, lockVars
    <2> QED
        BY <1>10, <2>1
        DEF vars, JobInv, CallShape, Shape, QueueShape, VersionIdentifiesRecord, Current,
            ExecutionIds, UniqueTokens, LeaseOwnership, Leased, NoMessageLoss, Open,
            recordVars, queueVars, lockVars
<1> QED
    BY <1>1, <1>2, <1>3, <1>4, <1>5, <1>6, <1>7, <1>8, <1>9, <1>10 DEF Next

-----------------------------------------------------------------------------
(* The results.                                                            *)

(* JobInv holds in every reachable state, however the goroutines of all    *)
(* instances interleave, crash, stall and lose calls.                      *)
THEOREM JobInvHolds == Spec => []JobInv
<1>1. Init => JobInv
    BY InitInv
<1>2. JobInv /\ [Next]_vars => JobInv'
    BY JobStep
<1> QED
    BY <1>1, <1>2, PTL DEF Spec

(* Type correctness of the job service.                                    *)
THEOREM TypeCorrect == Spec => []TypeOK
<1>1. JobInv => TypeOK
    BY DEF JobInv
<1> QED
    BY <1>1, JobInvHolds, PTL

(* ackMessage is never reached while the stored record is open, so the     *)
(* queue keeps the message of every unfinished job.                        *)
THEOREM NoMessageIsLost == Spec => []NoMessageLoss
<1>1. JobInv => NoMessageLoss
    BY DEF JobInv
<1> QED
    BY <1>1, JobInvHolds, PTL

(* The version compared by saveJobScript identifies the record's content.  *)
THEOREM VersionsAreUnique == Spec => []VersionIdentifiesRecord
<1>1. JobInv => VersionIdentifiesRecord
    BY DEF JobInv
<1> QED
    BY <1>1, JobInvHolds, PTL

(* Two goroutines within their leases never run agents on one review: both *)
(* would have their token under the same review execution key.             *)
THEOREM ReviewsAreExclusive == Spec => []ReviewExclusion
<1>1. JobInv => ReviewExclusion
    <2> SUFFICES ASSUME JobInv, NEW g \in Goroutines, NEW h \in Goroutines, g # h,
                        call[g].pc = "run", call[h].pc = "run",
                        ReviewOf[call[g].msg] = ReviewOf[call[h].msg],
                        ~call[g].overdue, ~call[h].overdue
                 PROVE  FALSE
        BY DEF ReviewExclusion
    <2>1. /\ CallInv(call[g]) /\ CallInv(call[h])
        BY CallFacts
    <2>2. /\ call[g].defers = 3 /\ call[h].defers = 3 /\ call[g].token # NoToken
        BY <2>1 DEF CallInv, Shape
    <2>3. call[g].token = call[h].token
        BY <2>1, <2>2 DEF CallInv, Leased
    <2> QED
        BY <2>2, <2>3 DEF JobInv, UniqueTokens
<1> QED
    BY <1>1, JobInvHolds, PTL

(* The actions that write records.                                         *)
LEMMA RecordActions ==
    ASSUME [Next]_vars
    PROVE  \/ rec' = rec
           \/ \E k \in Jobs : Submit(k) \/ ExpireRecord(k)
           \/ \E g \in Goroutines : BeginRun(g) \/ FinishRun(g)
<1>1. ASSUME NEW g \in Goroutines, Step(g)
      PROVE  rec' = rec \/ BeginRun(g) \/ FinishRun(g)
    BY <1>1 DEF Step, RecoverFetch, ClaimJob, GetRecord, ClaimReview, AcquireConcurrency,
                RunReturns, WriteDeadLetter, AckMessage, ReleaseNext, recordVars
<1>2. ASSUME NEW g \in Goroutines, RenewLeases(g) \/ Failure(g)
      PROVE  rec' = rec
    BY <1>2 DEF RenewLeases, Failure, CallFails, ReleaseFails, Stall, recordVars
<1>3. ASSUME NEW g \in Goroutines, NEW k \in Jobs, Deliver(g, k) \/ AutoClaim(g, k)
      PROVE  rec' = rec
    BY <1>3 DEF Deliver, AutoClaim, recordVars
<1>4. ASSUME NEW P \in Processes, Crash(P) PROVE rec' = rec
    BY <1>4 DEF Crash, recordVars
<1>5. ASSUME NEW k \in Jobs, ExpireClaim(k) \/ Elapse(k) PROVE rec' = rec
    BY <1>5 DEF ExpireClaim, Elapse, recordVars
<1>6. ASSUME NEW r \in Reviews, ExpireReview(r) PROVE rec' = rec
    BY <1>6 DEF ExpireReview, recordVars
<1>7. ASSUME ExpireSlots PROVE rec' = rec
    BY <1>7 DEF ExpireSlots, recordVars
<1>8. ASSUME UNCHANGED vars PROVE rec' = rec
    BY <1>8 DEF vars, recordVars
<1> QED
    BY <1>1, <1>2, <1>3, <1>4, <1>5, <1>6, <1>7, <1>8 DEF Next

(* Only createJobScript, a save of an open record and expiry write a job.  *)
LEMMA RecordWrites ==
    ASSUME JobInv, [Next]_vars, NEW j \in Jobs
    PROVE  rec'[j] \in {rec[j], NoRecord} \/ rec[j] = NoRecord \/ Open(j)
<1>1. ASSUME NEW k \in Jobs, Submit(k)
      PROVE  rec'[j] = rec[j] \/ rec[j] = NoRecord
    BY <1>1 DEF Submit, JobInv, TypeOK, QueueShape
<1>2. ASSUME NEW g \in Goroutines, BeginRun(g) \/ FinishRun(g)
      PROVE  rec'[j] = rec[j] \/ Open(j)
    <2>1. CASE Matches(call[g].msg, call[g].loc)
        <3>1. call[g].pc \in {"begin", "finish"}
            BY <1>2 DEF BeginRun, FinishRun
        <3>2. Open(call[g].msg) /\ call[g].msg \in Jobs
            BY <2>1, <3>1, MatchedIsCurrent
        <3>3. PICK r : rec' = [rec EXCEPT ![call[g].msg] = r]
            BY <1>2, <2>1 DEF BeginRun, FinishRun, Store
        <3> QED
            BY <3>2, <3>3 DEF JobInv, TypeOK
    <2>2. CASE ~Matches(call[g].msg, call[g].loc)
        BY <1>2, <2>2 DEF BeginRun, FinishRun, recordVars
    <2> QED
        BY <2>1, <2>2
<1>3. ASSUME NEW k \in Jobs, ExpireRecord(k)
      PROVE  rec'[j] \in {rec[j], NoRecord}
    BY <1>3 DEF ExpireRecord, JobInv, TypeOK
<1>4. \/ rec' = rec
      \/ \E k \in Jobs : Submit(k) \/ ExpireRecord(k)
      \/ \E g \in Goroutines : BeginRun(g) \/ FinishRun(g)
    BY RecordActions
<1> QED
    BY <1>1, <1>2, <1>3, <1>4

(* SUCCEEDED, INCOMPLETE and FAILED are final: a worker that lost its      *)
(* leases cannot overwrite the outcome stored by its successor.            *)
THEOREM OutcomesAreFinal == Spec => TerminalIsFinal
<1>1. JobInv /\ [Next]_vars =>
         [\A j \in Jobs : rec[j] # NoRecord /\ IsTerminal(rec[j].status)
                              => rec'[j] \in {rec[j], NoRecord}]_vars
    BY RecordWrites DEF Open
<1> QED
    BY <1>1, JobInvHolds, PTL DEF Spec, TerminalIsFinal

(* BeginRun is the only way into the agent run.                            *)
LEMMA OnlyBeginRuns ==
    ASSUME JobInv, [Next]_vars, NEW g \in Goroutines,
           call[g].pc # "run", call'[g].pc = "run"
    PROVE  BeginRun(g)
<1>1. /\ \A h \in Goroutines : call[h] \in Call
      /\ \A h \in Goroutines : \A c : GoesOn(h, c) =>
            call'[h] = c /\ \A k \in Goroutines : k # h => call'[k] = call[k]
    BY DEF JobInv, TypeOK, GoesOn
<1>2. \A h \in Goroutines : Returned(call[h]).pc # "run" /\ Idle.pc # "run"
    BY <1>1 DEF Returned, Idle, Call
<1>3. ASSUME NEW h \in Goroutines, NEW c, GoesOn(h, c), c.pc # "run" PROVE FALSE
    BY <1>1, <1>3
<1>4. ASSUME NEW h \in Goroutines, Return(h) PROVE FALSE
    BY <1>2, <1>3, <1>4 DEF Return
<1>5. ASSUME NEW h \in Goroutines, NEW pc \in Points \ {"run"}, At(h, pc) PROVE FALSE
    <2>1. [call[h] EXCEPT !.pc = pc].pc = pc
        BY <1>1 DEF Call
    <2> QED
        BY <1>3, <1>5, <2>1 DEF At
<1>6. \A pc \in {"ack", "claim"} : pc \in Points \ {"run"}
    BY DEF Points
<1>7. ASSUME NEW h \in Goroutines, NEW j \in Jobs, Deliver(h, j) \/ AutoClaim(h, j)
      PROVE  FALSE
    <2>1. \A pc \in {"claim", "fetch"} : Taken(pc, j).pc # "run"
        BY DEF Taken, Idle
    <2> QED
        BY <1>3, <1>7, <2>1 DEF Deliver, AutoClaim
<1>8. ASSUME NEW h \in Goroutines, RecoverFetch(h) \/ GetRecord(h) PROVE FALSE
    <2>1. \A r : [call[h] EXCEPT !.pc = "review", !.loc = r].pc # "run"
        BY <1>1 DEF Call
    <2> QED
        BY <1>2, <1>3, <1>4, <1>5, <1>6, <1>8, <2>1 DEF RecoverFetch, GetRecord
<1>9. ASSUME NEW h \in Goroutines, ClaimJob(h) \/ ClaimReview(h) \/ AcquireConcurrency(h)
      PROVE  FALSE
    <2>1. /\ \A t : [call[h] EXCEPT !.pc = "get", !.token = t, !.defers = 1].pc # "run"
          /\ [call[h] EXCEPT !.pc = "slot", !.defers = 2].pc # "run"
          /\ [call[h] EXCEPT !.pc = "begin", !.defers = 3].pc # "run"
        BY <1>1 DEF Call
    <2> QED
        BY <1>3, <1>4, <1>9, <2>1 DEF ClaimJob, ClaimReview, AcquireConcurrency
<1>10. ASSUME NEW h \in Goroutines, BeginRun(h) PROVE h = g
    BY <1>1, <1>4, <1>10 DEF BeginRun
<1>11. ASSUME NEW h \in Goroutines, RunReturns(h) \/ RenewLeases(h) PROVE FALSE
    <2>1. \A o : [call[h] EXCEPT !.pc = "finish", !.outcome = o].pc # "run"
        BY <1>1 DEF Call
    <2>2. ASSUME RenewLeases(h) PROVE h # g /\ \E c : GoesOn(h, c)
        BY <2>2 DEF RenewLeases
    <2> QED
        BY <1>1, <1>3, <1>11, <2>1, <2>2 DEF RunReturns
<1>12. ASSUME NEW h \in Goroutines, FinishRun(h) PROVE FALSE
    <2>1. \A r : AfterFinish(call[h], r).pc # "run"
        BY <1>1, <1>2 DEF AfterFinish, Call
    <2> QED
        BY <1>3, <1>4, <1>12, <2>1 DEF FinishRun
<1>13. ASSUME NEW h \in Goroutines, WriteDeadLetter(h) \/ AckMessage(h) \/ CallFails(h)
       PROVE  FALSE
    BY <1>4, <1>5, <1>6, <1>13 DEF WriteDeadLetter, AckMessage, CallFails
<1>14. ASSUME NEW h \in Goroutines, ReleaseNext(h) \/ ReleaseFails(h) PROVE FALSE
    <2>1. call[h].pc = "return" => [call[h] EXCEPT !.defers = @ - 1].pc # "run"
        BY <1>1 DEF Call
    <2>2. DropDefer(h) /\ call[h].pc = "return"
        BY <1>14 DEF ReleaseNext, ReleaseFails
    <2> QED
        BY <1>2, <1>3, <2>1, <2>2 DEF DropDefer
<1>15. ASSUME NEW h \in Goroutines, Stall(h) PROVE FALSE
    <2>1. [call[h] EXCEPT !.overdue = TRUE].pc = call[h].pc
        BY <1>1 DEF Call
    <2> QED
        BY <1>1, <1>15, <2>1 DEF Stall
<1>16. ASSUME NEW P \in Processes, Crash(P) PROVE FALSE
    BY <1>2, <1>16 DEF Crash
<1>17. ASSUME call' = call PROVE FALSE
    BY <1>17
<1>18. ASSUME \/ \E j \in Jobs : Submit(j) \/ ExpireClaim(j) \/ Elapse(j) \/ ExpireRecord(j)
              \/ \E r \in Reviews : ExpireReview(r)
              \/ ExpireSlots \/ UNCHANGED vars
       PROVE  call' = call
    BY <1>18 DEF Submit, ExpireClaim, Elapse, ExpireRecord, ExpireReview, ExpireSlots, vars
<1> QED
    BY <1>7, <1>8, <1>9, <1>10, <1>11, <1>12, <1>13, <1>14, <1>15, <1>16, <1>17, <1>18
    DEF Next, Step, Failure

(* Every agent run has an execution id of its own: retries and reclaims    *)
(* alike take a new one before RunExecution is called.                     *)
THEOREM ExecutionsAreFresh == Spec => FreshExecution
<1>1. ASSUME JobInv, [Next]_vars, NEW g \in Goroutines,
             call[g].pc # "run", call'[g].pc = "run"
      PROVE  call'[g].loc.execution \notin started[call[g].msg]
    <2> DEFINE j == call[g].msg
               id == lastExec[j] + 1
               r == Begun(Reclaimed(call[g].loc, id))
    <2>1. BeginRun(g)
        BY <1>1, OnlyBeginRuns
    <2>2. call[g] \in Call /\ call[g].pc = "begin"
        BY <1>1, <2>1, CallFacts DEF BeginRun
    <2>3. ~Return(g)
        BY <1>1, <2>2, GoesOnFacts DEF JobInv, Return, Returned, Idle, Call, Points, GoesOn, TypeOK
    <2>4. Matches(j, call[g].loc) /\ GoesOn(g, [call[g] EXCEPT !.pc = "run", !.loc = NextVersion(r)])
        BY <2>1, <2>3 DEF BeginRun
    <2>5. j \in Jobs /\ call[g].loc \in Record /\ rec[j] = call[g].loc /\ Open(j)
        BY <1>1, <2>2, <2>4, MatchedIsCurrent
    <2>6. id \in Nat /\ id \notin started[j]
        BY <1>1, <2>5 DEF JobInv, TypeOK, ExecutionIds
    <2>7. /\ r \in Record
          /\ r.execution = IF call[g].loc.status = Running THEN id ELSE call[g].loc.execution
        BY <2>5, <2>6, BeginFields
    <2>8. r.execution \notin started[j]
        <3> HIDE DEF id, r
        <3>1. CASE call[g].loc.status = Running
            BY <2>6, <2>7, <3>1
        <3>2. CASE call[g].loc.status # Running
            <4>1. rec[j].status \in {Pending, Retrying} /\ rec[j] # NoRecord
                BY <2>5, <3>2 DEF Open, IsTerminal, Record, Statuses
            <4> QED
                BY <1>1, <2>5, <2>7, <3>2, <4>1 DEF JobInv, ExecutionIds
        <3> QED
            BY <3>1, <3>2
    <2>9. call'[g].loc.execution = r.execution
        <3> HIDE DEF r
        <3>1. call'[g] = [call[g] EXCEPT !.pc = "run", !.loc = NextVersion(r)]
            BY <1>1, <2>4 DEF JobInv, TypeOK, GoesOn
        <3> QED
            BY <2>2, <2>7, <3>1, NextVersionFields DEF Call
    <2> QED
        BY <2>8, <2>9
<1>2. JobInv /\ [Next]_vars =>
         [\A g \in Goroutines : call[g].pc # "run" /\ call'[g].pc = "run" =>
              call'[g].loc.execution \notin started[call[g].msg]]_vars
    BY <1>1
<1> QED
    BY <1>2, JobInvHolds, PTL DEF Spec, FreshExecution
=============================================================================

--------------------------- MODULE FinalizerProofs ---------------------------
(***************************************************************************)
(* Proofs about Finalizer for any number of calls, attempts and faults.    *)
(* FinalizerInv is inductive; the safety properties are its conjuncts or   *)
(* follow from them.                                                       *)
(***************************************************************************)
EXTENDS Finalizer, TLAPS

-----------------------------------------------------------------------------
(* The rules of CouponDecision.                                            *)

(* applyDecisionGuard yields a decision.                                   *)
LEMMA GuardType ==
    ASSUME NEW d \in Decision, NEW facts \in Facts
    PROVE  ApplyDecisionGuard(d, facts) \in Decision
<1> DEFINE d1 == Normalized(d)
           d2 == IF facts.hasAppeal THEN ToManualReview(d1, "DISPUTE_REVIEW") ELSE d1
           d3 == IF facts.score <= 2 /\ facts.quality
                 THEN ToManualReview(d2, "HIGH_RISK_REVIEW") ELSE d2
<1>1. d1 \in Decision
    BY DEF Normalized, Decision, Actions, Tags
<1>2. d2 \in Decision
    <2> HIDE DEF d1
    <2> QED BY <1>1 DEF ToManualReview, Decision, Actions, Tags, SceneNames
<1>3. d3 \in Decision
    <2> HIDE DEF d2
    <2> QED BY <1>2 DEF ToManualReview, Decision, Actions, Tags, SceneNames
<1>4. [d3 EXCEPT !.needHumanReview = @ \/ d3.action = "MANUAL_REVIEW"] \in Decision
    <2> HIDE DEF d3
    <2> QED BY <1>3 DEF Decision
<1> QED BY <1>4 DEF ApplyDecisionGuard

(* A decision that grantCouponIfNeeded does not refuse.                    *)
LEMMA NotRefused ==
    ASSUME NEW d, NEW dc, NEW configured, Refusal(d, dc, configured) = ""
    PROVE  /\ ~d.needHumanReview /\ d.action = "GRANT_COUPON" /\ configured
           /\ dc.identified /\ CampaignAllows(dc)
BY DEF Refusal

(* The comparisons of campaignConstraintReject, as a reader would put them. *)
LEMMA CampaignBounds ==
    ASSUME NEW dc \in Context, CampaignAllows(dc)
    PROVE  /\ dc.campaignActive /\ dc.productEligible /\ dc.userEligible
           /\ dc.remainingStock >= 1 /\ dc.remainingBudgetCent >= 1
           /\ dc.userGrantLimit <= 0 \/ dc.userGrantLimit - dc.userGrantedCount >= 1
<1>1. dc.campaignActive /\ dc.productEligible /\ dc.userEligible
    BY Zenon DEF CampaignAllows
<1>2. /\ dc.remainingStock \in Int /\ dc.remainingBudgetCent \in Int
      /\ dc.userGrantLimit \in Int /\ dc.userGrantedCount \in Int
    BY DEF Context
<1>3. /\ dc.remainingStock > 0 /\ dc.remainingBudgetCent > 0
      /\ dc.userGrantLimit > 0 => dc.userGrantedCount < dc.userGrantLimit
    BY Zenon DEF CampaignAllows
<1>4. dc.remainingStock >= 1 /\ dc.remainingBudgetCent >= 1
    BY <1>2, <1>3
<1>5. dc.userGrantLimit <= 0 \/ dc.userGrantLimit - dc.userGrantedCount >= 1
    BY <1>2, <1>3
<1> QED BY <1>1, <1>4, <1>5

(* What applyDecisionGuard lets through as a grant.                        *)
LEMMA GuardStops ==
    ASSUME NEW d \in Decision, NEW facts \in Facts,
           ApplyDecisionGuard(d, facts).action = "GRANT_COUPON",
           ~ApplyDecisionGuard(d, facts).needHumanReview
    PROVE  /\ d.action \in {"GRANT_COUPON", "SUGGEST_COUPON"}
           /\ ~d.needHumanReview
           /\ ~facts.hasAppeal
           /\ facts.score > 2 \/ ~facts.quality
<1>1. /\ ~facts.hasAppeal
      /\ ~(facts.score <= 2 /\ facts.quality)
      /\ d.action \in {"GRANT_COUPON", "SUGGEST_COUPON"}
      /\ ~d.needHumanReview
    BY DEF ApplyDecisionGuard, Normalized, ToManualReview, Decision, Facts
<1>2. facts.score \in 0 .. 5
    BY DEF Facts
<1>3. ~(facts.score <= 2) => facts.score > 2
    BY <1>2
<1> QED BY <1>1, <1>3, Zenon

(* A grant that survives the guard and grantCouponIfNeeded is one that the *)
(* rules, stated over the model's own decision, permit.                    *)
LEMMA GuardPermits ==
    ASSUME NEW in \in Input, in.context.known = TRUE,
           Refusal(ApplyDecisionGuard(in.decision, in.facts), in.context, in.configured) = ""
    PROVE  /\ Permitted(in)
           /\ ApplyDecisionGuard(in.decision, in.facts).action = "GRANT_COUPON"
           /\ ~ApplyDecisionGuard(in.decision, in.facts).needHumanReview
<1>1. PICK d, facts, dc, configured :
        d = in.decision /\ facts = in.facts /\ dc = in.context /\ configured = in.configured
    BY Zenon
<1>2. d \in Decision /\ facts \in Facts /\ dc \in Context
    BY <1>1 DEF Input
<1>3. /\ ~ApplyDecisionGuard(d, facts).needHumanReview
      /\ ApplyDecisionGuard(d, facts).action = "GRANT_COUPON"
      /\ configured /\ dc.identified /\ CampaignAllows(dc)
    <2>1. Refusal(ApplyDecisionGuard(d, facts), dc, configured) = ""
        BY <1>1, Zenon
    <2>2. PICK g : g = ApplyDecisionGuard(d, facts)
        BY Zenon
    <2>3. Refusal(g, dc, configured) = ""
        BY <2>1, <2>2, Zenon
    <2>4. /\ ~g.needHumanReview /\ g.action = "GRANT_COUPON" /\ configured
          /\ dc.identified /\ CampaignAllows(dc)
        BY <2>3, NotRefused, ZenonT(30)
    <2> QED BY <2>2, <2>4, Zenon
<1>4. /\ d.action \in {"GRANT_COUPON", "SUGGEST_COUPON"} /\ ~d.needHumanReview
      /\ ~facts.hasAppeal /\ (facts.score > 2 \/ ~facts.quality)
    BY <1>2, <1>3, GuardStops, Zenon
<1>5. /\ dc.campaignActive /\ dc.productEligible /\ dc.userEligible
      /\ dc.remainingStock >= 1 /\ dc.remainingBudgetCent >= 1
      /\ dc.userGrantLimit <= 0 \/ dc.userGrantLimit - dc.userGrantedCount >= 1
    BY <1>2, <1>3, CampaignBounds, Zenon
<1> QED BY <1>1, <1>3, <1>4, <1>5, Zenon DEF Permitted

(* A refusal is the execution status of a decision without a grant.        *)
LEMMA RefusalType ==
    ASSUME NEW d, NEW dc, NEW configured
    PROVE  Refusal(d, dc, configured) \in {"", "MANUAL_REVIEW", "REJECTED", "PROPOSED"}
BY DEF Refusal

(* decisionWithCouponGrant yields a decision, and leaves a granted one as  *)
(* it is but for its tags.                                                 *)
LEMMA GrantType ==
    ASSUME NEW d \in Decision, NEW o \in Outcome
    PROVE  /\ DecisionWithCouponGrant(d, o) \in Decision
           /\ d.action = "GRANT_COUPON" /\ o.attempted /\ o.success =>
                 /\ DecisionWithCouponGrant(d, o).action = "GRANT_COUPON"
                 /\ DecisionWithCouponGrant(d, o).needHumanReview = d.needHumanReview
BY DEF DecisionWithCouponGrant, Decision, Outcome, Actions, Tags

-----------------------------------------------------------------------------
(* Initial states.                                                         *)

(* A call that has not begun.                                              *)
LEMMA IdleTyped == IdleCall \in Call /\ Shape(IdleCall) /\ ~IdleCall.outcome.success
<1>1. NoInput.decision \in Decision
    BY DEF NoInput, Decision, Actions, SceneNames
<1>2. NoInput.facts \in Facts
    BY DEF NoInput, Facts
<1>3. NoInput.context \in Context
    BY DEF NoInput, Context
<1>4. NoInput \in Input
    BY <1>1, <1>2, <1>3 DEF NoInput, Input
<1>5. NotAttempted("REJECTED") \in Outcome
    BY DEF NotAttempted, Outcome, ExecutionStatuses
<1>6. IdleCall \in Call
    BY <1>1, <1>4, <1>5, FinalizerAssumption DEF IdleCall, Call, Points, Results
<1>7. /\ IdleCall.pc = "idle" /\ IdleCall.attempt = 0
      /\ IdleCall.outcome = NotAttempted("REJECTED")
    BY DEF IdleCall
<1>8. Shape(IdleCall)
    BY <1>7 DEF Shape, NotAttempted
<1> QED BY <1>6, <1>7, <1>8 DEF NotAttempted

LEMMA InvInit == Init => FinalizerInv
<1> SUFFICES ASSUME Init PROVE FinalizerInv
    OBVIOUS
<1>1. \A f \in Finalizations : fin[f] = IdleCall
    BY DEF Init
<1>2. TypeOK
    BY IdleTyped, FinalizerAssumption DEF Init, TypeOK
<1>3. CouponOnce
    BY DEF Init, CouponOnce
<1>4. CallShape /\ SuccessIsReal
    BY <1>1, IdleTyped, Zenon DEF CallShape, SuccessIsReal
<1>5. StoredGrantIsReal
    BY DEF Init, StoredGrantIsReal
<1>6. LockExclusion
    BY <1>1 DEF LockExclusion, Holds, IdleCall
<1>7. AllInformed
    BY FinalizerAssumption DEF Init, AllInformed, Informed
<1> QED BY <1>2, <1>3, <1>4, <1>5, <1>6, <1>7 DEF FinalizerInv

-----------------------------------------------------------------------------
(* Steps of one call.                                                      *)

(* Informed, for the state c that f is going to be in.                     *)
Heeds(f, c) ==
    c.result # "error" /\ ~c.unsure =>
        /\ \A q \in inflight : q.by = f => c.pc = "wait" /\ c.attempt = q.attempt
        /\ issuedTo = f =>
              \/ c.pc = "wait" /\ \A q \in inflight : q.by # f
              \/ /\ c.pc \in {"store", "release", "end"} /\ c.outcome.success
                 /\ c.result = "ok" => \E s \in stored : s.by = f /\ s.couponGranted

(* What holds of a call holds of the state it is in.                       *)
LEMMA InformedHeeds ==
    ASSUME FinalizerInv, NEW f \in Finalizations PROVE Heeds(f, fin[f])
BY DEF FinalizerInv, AllInformed, Informed, Heeds, Awaits

(* A step that replaces the state of one call.                             *)
LEMMA CallMoves ==
    ASSUME TypeOK, CallShape, NEW f \in Finalizations, NEW c \in Call, Shape(c), GoesOn(f, c)
    PROVE  /\ fin' \in [Finalizations -> Call]
           /\ CallShape'
           /\ fin'[f] = c
           /\ \A g \in Finalizations : g # f => fin'[g] = fin[g]
<1>1. /\ fin' \in [Finalizations -> Call]
      /\ fin'[f] = c
      /\ \A g \in Finalizations : g # f => fin'[g] = fin[g]
    BY DEF TypeOK, GoesOn
<1>2. \A g \in Finalizations : Shape(fin'[g])
    BY <1>1, Zenon DEF CallShape
<1> QED BY <1>1, <1>2, Zenon DEF CallShape

(* A step of one call that neither the coupon service nor the decision     *)
(* store takes part in.                                                    *)
LEMMA QuietStep ==
    ASSUME FinalizerInv, NEW f \in Finalizations, NEW c \in Call, Shape(c), GoesOn(f, c),
           c.outcome.success => fin[f].outcome.success,
           Heeds(f, c),
           UNCHANGED <<serviceVars, stored>>,
           faults' \in 0 .. MaxFaults,
           lock' \in Finalizations \cup {Nobody},
           lost' \subseteq Finalizations,
           LockExclusion'
    PROVE  FinalizerInv'
<1> USE DEF FinalizerInv
<1>1. /\ fin' \in [Finalizations -> Call] /\ CallShape' /\ fin'[f] = c
      /\ \A g \in Finalizations : g # f => fin'[g] = fin[g]
    BY CallMoves
<1>2. TypeOK'
    BY <1>1 DEF TypeOK, serviceVars
<1>3. CouponOnce'
    BY DEF CouponOnce, serviceVars
<1>4. SuccessIsReal'
    BY <1>1 DEF SuccessIsReal, serviceVars
<1>5. StoredGrantIsReal'
    BY DEF StoredGrantIsReal, serviceVars
<1>6. AllInformed'
    <2> SUFFICES ASSUME NEW g \in Finalizations PROVE Informed(g)'
        BY DEF AllInformed
    <2>1. CASE g = f
        BY <1>1, <2>1 DEF Heeds, Informed, Awaits, serviceVars
    <2>2. CASE g # f
        BY <1>1, <2>2 DEF AllInformed, Informed, Awaits, serviceVars
    <2> QED BY <2>1, <2>2
<1> QED BY <1>1, <1>2, <1>3, <1>4, <1>5, <1>6

(* Nobody loses the lock by a step that leaves the key alone.              *)
LEMMA LockKept ==
    ASSUME FinalizerInv, NEW f \in Finalizations, NEW c \in Call, GoesOn(f, c),
           UNCHANGED <<lock, lost>>,
           c.pc \in {"idle", "lock", "end"} \/ Holds(f) \/ ~LockEnabled
    PROVE  LockExclusion'
BY DEF FinalizerInv, TypeOK, GoesOn, LockExclusion, Holds, Call, Points

LEMMA StartStep ==
    ASSUME FinalizerInv, NEW f \in Finalizations, Start(f) PROVE FinalizerInv'
<1>1. PICK in \in Inputs :
        LET d == ApplyDecisionGuard(in.decision, in.facts)
            c == [IdleCall EXCEPT !.input = in, !.decision = d]
        IN  GoesOn(f, CASE ~in.context.known -> [c EXCEPT !.pc = "end", !.result = "error"]
                        [] in.context.known /\ LockEnabled -> [c EXCEPT !.pc = "lock"]
                        [] OTHER -> [c EXCEPT !.pc = "decide"])
    BY Zenon DEF Start
<1> DEFINE d == ApplyDecisionGuard(in.decision, in.facts)
           c == [IdleCall EXCEPT !.input = in, !.decision = d]
<1>2. in \in Input
    BY FinalizerAssumption
<1>3. d \in Decision
    <2>1. in.decision \in Decision /\ in.facts \in Facts
        BY <1>2 DEF Input
    <2> QED BY <2>1, GuardType
<1>4. fin[f] = IdleCall
    BY DEF Start, FinalizerInv, CallShape, Shape
<1>5. Heeds(f, IdleCall) /\ IdleCall.pc = "idle" /\ IdleCall.attempt = 0
      /\ IdleCall.result = "none" /\ ~IdleCall.unsure /\ ~IdleCall.outcome.success
      /\ ~IdleCall.outcome.attempted /\ IdleCall.outcome.status # "GRANTED"
    <2>1. Heeds(f, IdleCall)
        BY <1>4, InformedHeeds
    <2> QED BY <2>1 DEF IdleCall, NotAttempted
<1>6. c \in Call /\ c.input = in /\ c.decision = d /\ c.pc = "idle" /\ c.attempt = 0
      /\ c.outcome = IdleCall.outcome /\ c.result = "none" /\ c.unsure = IdleCall.unsure
    <2> HIDE DEF d
    <2> QED BY <1>2, <1>3, <1>5, IdleTyped DEF Call
<1>7. UNCHANGED <<serviceVars, stored, lock, lost, faults>>
    BY DEF Start
<1>8. /\ faults' \in 0 .. MaxFaults /\ lock' \in Finalizations \cup {Nobody}
      /\ lost' \subseteq Finalizations
    BY <1>7 DEF FinalizerInv, TypeOK
<1>9. CASE ~in.context.known
    <2> DEFINE e == [c EXCEPT !.pc = "end", !.result = "error"]
    <2>1. GoesOn(f, e)
        BY <1>1, <1>9
    <2>2. /\ e \in Call /\ e.pc = "end" /\ e.result = "error" /\ e.attempt = 0
          /\ e.outcome = IdleCall.outcome
        <3> HIDE DEF c
        <3> QED BY <1>6 DEF Call, Points, Results
    <2> HIDE DEF e
    <2>3. Shape(e)
        BY <1>5, <2>2 DEF Shape
    <2>4. Heeds(f, e)
        BY <2>2 DEF Heeds
    <2>5. LockExclusion'
        BY <1>7, <2>1, <2>2, LockKept
    <2> QED BY <1>5, <1>7, <1>8, <2>1, <2>2, <2>3, <2>4, <2>5, QuietStep
<1>10. ASSUME NEW pc \in {"lock", "decide"}, in.context.known, GoesOn(f, [c EXCEPT !.pc = pc]),
              pc = "lock" \/ ~LockEnabled
       PROVE  FinalizerInv'
    <2> DEFINE e == [c EXCEPT !.pc = pc]
    <2>1. /\ e \in Call /\ e.pc = pc /\ e.result = "none" /\ e.attempt = 0
          /\ e.outcome = IdleCall.outcome /\ e.input = in /\ e.decision = d
          /\ e.unsure = IdleCall.unsure
        <3> HIDE DEF c, d
        <3> QED BY <1>6 DEF Call, Points, Results
    <2>2. GoesOn(f, e)
        BY <1>10
    <2> HIDE DEF e
    <2>3. Shape(e)
        BY <1>5, <1>10, <2>1 DEF Shape
    <2>4. Heeds(f, e)
        BY <1>5, <2>1 DEF Heeds
    <2>5. LockExclusion'
        BY <1>7, <1>10, <2>2, <2>1, LockKept
    <2> QED BY <1>5, <1>7, <1>8, <2>2, <2>1, <2>3, <2>4, <2>5, QuietStep
<1>11. CASE in.context.known /\ LockEnabled
    <2>1. GoesOn(f, [c EXCEPT !.pc = "lock"])
        BY <1>1, <1>11
    <2> QED BY <1>10, <1>11, <2>1
<1>12. CASE in.context.known /\ ~LockEnabled
    <2>1. GoesOn(f, [c EXCEPT !.pc = "decide"])
        BY <1>1, <1>12
    <2> QED BY <1>10, <1>12, <2>1
<1> QED BY <1>9, <1>11, <1>12

(* A call that fails has nothing to answer for.                            *)
LEMMA FailStep ==
    ASSUME FinalizerInv, NEW f \in Finalizations, NEW pc \in {"release", "end"}, FailsAt(f, pc),
           UNCHANGED <<serviceVars, stored>>,
           faults' \in 0 .. MaxFaults,
           lock' \in Finalizations \cup {Nobody},
           lost' \subseteq Finalizations,
           LockExclusion'
    PROVE  FinalizerInv'
<1> DEFINE c == [fin[f] EXCEPT !.pc = pc, !.result = "error"]
<1>1. fin[f] \in Call /\ Shape(fin[f])
    BY DEF FinalizerInv, TypeOK, CallShape
<1>2. /\ c \in Call /\ c.pc = pc /\ c.result = "error" /\ c.attempt = fin[f].attempt
      /\ c.outcome = fin[f].outcome /\ c.decision = fin[f].decision /\ c.input = fin[f].input
    BY <1>1 DEF Call, Points, Results
<1>3. GoesOn(f, c)
    BY DEF FailsAt
<1> HIDE DEF c
<1>4. Shape(c)
    BY <1>1, <1>2 DEF Shape
<1>5. Heeds(f, c)
    BY <1>2 DEF Heeds
<1> QED BY <1>2, <1>3, <1>4, <1>5, QuietStep

(* The lock stays with its holder when another call fails, or f does.      *)
LEMMA LockKeptOnFailure ==
    ASSUME FinalizerInv, NEW f \in Finalizations, NEW pc \in {"release", "end"}, FailsAt(f, pc),
           UNCHANGED <<lock, lost>>, pc = "end" \/ Holds(f)
    PROVE  LockExclusion'
<1>1. fin[f] \in Call
    BY DEF FinalizerInv, TypeOK
<1>2. /\ [fin[f] EXCEPT !.pc = pc, !.result = "error"] \in Call
      /\ [fin[f] EXCEPT !.pc = pc, !.result = "error"].pc = pc
    BY <1>1 DEF Call, Points, Results
<1> QED BY <1>2, LockKept DEF FailsAt

(* Faults stay within their bound.                                         *)
LEMMA FaultBound ==
    ASSUME FinalizerInv PROVE faults \in 0 .. MaxFaults /\ (Fault => faults' \in 0 .. MaxFaults)
BY FinalizerAssumption DEF FinalizerInv, TypeOK, Fault

LEMMA AcquireStep ==
    ASSUME FinalizerInv, NEW f \in Finalizations, Acquire(f) PROVE FinalizerInv'
<1>1. /\ fin[f].pc = "lock" /\ UNCHANGED <<serviceVars, stored, lost>>
      /\ lost' \subseteq Finalizations
      /\ lock \in Finalizations \cup {Nobody}
    BY DEF Acquire, FinalizerInv, TypeOK
<1>2. faults' \in 0 .. MaxFaults
    BY FaultBound DEF Acquire
<1>3. CASE FailsAt(f, "end") /\ UNCHANGED lock
    BY <1>1, <1>2, <1>3, LockKeptOnFailure, FailStep
<1>4. CASE lock = Nobody /\ lock' = f /\ FailsAt(f, "end")
    <2>1. fin' = [fin EXCEPT ![f] = [fin[f] EXCEPT !.pc = "end", !.result = "error"]]
        BY <1>4 DEF FailsAt, GoesOn
    <2>2. fin \in [Finalizations -> Call] /\ fin[f] \in Call
        BY DEF FinalizerInv, TypeOK
    <2>3. fin'[f].pc = "end" /\ \A g \in Finalizations : g # f => fin'[g] = fin[g]
        BY <2>1, <2>2 DEF Call
    <2>4. LockExclusion'
        BY <1>1, <1>4, <2>3, FinalizerAssumption DEF FinalizerInv, LockExclusion, Holds
    <2> QED BY <1>1, <1>2, <1>4, <2>4, FailStep
<1>5. CASE lock = Nobody /\ lock' = f /\ At(f, "decide")
    <2> DEFINE c == [fin[f] EXCEPT !.pc = "decide"]
    <2>1. fin \in [Finalizations -> Call] /\ fin[f] \in Call /\ Shape(fin[f]) /\ Heeds(f, fin[f])
        BY InformedHeeds DEF FinalizerInv, TypeOK, CallShape
    <2>2. /\ c \in Call /\ c.pc = "decide" /\ c.result = fin[f].result
          /\ c.attempt = fin[f].attempt /\ c.unsure = fin[f].unsure
          /\ c.outcome = fin[f].outcome /\ c.decision = fin[f].decision /\ c.input = fin[f].input
        BY <2>1 DEF Call, Points
    <2>3. GoesOn(f, c)
        BY <1>5 DEF At
    <2> HIDE DEF c
    <2>4. Shape(c)
        BY <1>1, <2>1, <2>2 DEF Shape
    <2>5. Heeds(f, c)
        BY <1>1, <2>1, <2>2 DEF Heeds
    <2>6. \A g \in Finalizations : g # f => fin'[g] = fin[g]
        BY <2>1, <2>3 DEF GoesOn
    <2>7. LockExclusion'
        BY <1>1, <1>5, <2>6, FinalizerAssumption DEF FinalizerInv, LockExclusion, Holds
    <2> QED BY <1>1, <1>2, <1>5, <2>2, <2>3, <2>4, <2>5, <2>7, QuietStep
<1> QED BY <1>3, <1>4, <1>5 DEF Acquire

LEMMA DecideStep ==
    ASSUME FinalizerInv, NEW f \in Finalizations, Decide(f) PROVE FinalizerInv'
<1> DEFINE in == fin[f].input
           r == Refusal(fin[f].decision, in.context, in.configured)
<1>1. /\ fin[f].pc = "decide" /\ UNCHANGED <<serviceVars, stored, lock, lost, faults>>
      /\ fin[f] \in Call /\ Shape(fin[f]) /\ Heeds(f, fin[f])
      /\ lost' \subseteq Finalizations /\ lock' \in Finalizations \cup {Nobody}
      /\ faults' \in 0 .. MaxFaults
    BY InformedHeeds DEF Decide, FinalizerInv, TypeOK, CallShape
<1>2. Holds(f) \/ ~LockEnabled
    BY <1>1 DEF Holds
<1>3. CASE r # "" /\ GoesOn(f, [fin[f] EXCEPT !.pc = "store", !.outcome = NotAttempted(r)])
    <2> DEFINE c == [fin[f] EXCEPT !.pc = "store", !.outcome = NotAttempted(r)]
    <2>1. r \in {"MANUAL_REVIEW", "REJECTED", "PROPOSED"}
        BY <1>3, RefusalType
    <2>2. /\ NotAttempted(r) \in Outcome /\ ~NotAttempted(r).attempted
          /\ ~NotAttempted(r).success /\ NotAttempted(r).status # "GRANTED"
        <3> HIDE DEF r
        <3> QED BY <2>1 DEF NotAttempted, Outcome, ExecutionStatuses
    <2>3. /\ c \in Call /\ c.pc = "store" /\ c.outcome = NotAttempted(r)
          /\ c.result = fin[f].result /\ c.attempt = fin[f].attempt
          /\ c.unsure = fin[f].unsure /\ c.decision = fin[f].decision
          /\ c.input = fin[f].input
        <3> HIDE DEF r
        <3> QED BY <1>1, <2>2 DEF Call, Points
    <2>4. GoesOn(f, c)
        BY <1>3
    <2> HIDE DEF c, r
    <2>5. Shape(c)
        BY <1>1, <2>2, <2>3 DEF Shape
    <2>6. Heeds(f, c)
        BY <1>1, <2>3 DEF Heeds
    <2>7. LockExclusion'
        BY <1>1, <1>2, <2>3, <2>4, LockKept
    <2> QED BY <1>1, <2>2, <2>3, <2>4, <2>5, <2>6, <2>7, QuietStep
<1>4. CASE r = "" /\ GoesOn(f, [fin[f] EXCEPT !.pc = "send", !.attempt = 1])
    <2> DEFINE c == [fin[f] EXCEPT !.pc = "send", !.attempt = 1]
    <2>1. /\ in \in Input /\ in.context.known = TRUE
          /\ fin[f].decision = ApplyDecisionGuard(in.decision, in.facts)
        <3>1. in \in Input
            BY <1>1 DEF Call
        <3>2. in.context.known \in BOOLEAN
            BY <3>1 DEF Input, Context
        <3>3. in.context.known /\ fin[f].decision = ApplyDecisionGuard(in.decision, in.facts)
            BY <1>1 DEF Shape
        <3> QED BY <3>1, <3>2, <3>3
    <2>2. /\ Permitted(in) /\ fin[f].decision.action = "GRANT_COUPON"
          /\ ~fin[f].decision.needHumanReview
        <3>1. PICK x \in Input : x = in
            BY <2>1
        <3>2. Refusal(ApplyDecisionGuard(x.decision, x.facts), x.context, x.configured) = ""
            BY <1>4, <2>1, <3>1
        <3>3. x.context.known = TRUE
            BY <2>1, <3>1
        <3>4. /\ Permitted(x)
              /\ ApplyDecisionGuard(x.decision, x.facts).action = "GRANT_COUPON"
              /\ ~ApplyDecisionGuard(x.decision, x.facts).needHumanReview
            BY <3>2, <3>3, GuardPermits, Zenon
        <3> QED BY <2>1, <3>1, <3>4, Zenon
    <2>3. /\ c \in Call /\ c.pc = "send" /\ c.outcome = fin[f].outcome
          /\ c.result = fin[f].result /\ c.attempt = 1
          /\ c.unsure = fin[f].unsure /\ c.decision = fin[f].decision
          /\ c.input = fin[f].input
        <3>1. 1 \in 0 .. MaxAttempts
            BY FinalizerAssumption
        <3> QED BY <1>1, <3>1 DEF Call, Points
    <2>4. GoesOn(f, c)
        BY <1>4
    <2>5. ~fin[f].outcome.attempted
        BY <1>1 DEF Shape
    <2> HIDE DEF c
    <2>6. Shape(c)
        BY <1>1, <2>2, <2>3, <2>5 DEF Shape
    <2>7. Heeds(f, c)
        BY <1>1, <2>3 DEF Heeds
    <2>8. LockExclusion'
        BY <1>1, <1>2, <2>3, <2>4, LockKept
    <2> QED BY <1>1, <2>3, <2>4, <2>6, <2>7, <2>8, QuietStep
<1> QED BY <1>3, <1>4 DEF Decide

(* AfterError: another attempt only while one is left.                     *)
LEMMA AfterErrorShape ==
    ASSUME NEW c \in Call, Shape(c), c.pc \in {"send", "wait"}, NEW retryable
    PROVE  LET e == AfterError(c, retryable) IN
           /\ e \in Call /\ Shape(e) /\ e.pc \in {"backoff", "store"}
           /\ ~e.outcome.success /\ e.result = c.result /\ e.unsure = c.unsure
<1>1. GrantFailed \in Outcome /\ GrantFailed.attempted /\ ~GrantFailed.success
      /\ GrantFailed.status # "GRANTED"
    BY DEF GrantFailed, Outcome, ExecutionStatuses
<1>2. c.attempt > 0 /\ ~c.outcome.success
    BY DEF Shape
<1>3. CASE retryable /\ c.attempt < MaxAttempts
    <2> DEFINE e == [c EXCEPT !.pc = "backoff"]
    <2>1. AfterError(c, retryable) = e
        BY <1>3 DEF AfterError
    <2>2. /\ e \in Call /\ e.pc = "backoff" /\ e.outcome = c.outcome
          /\ e.result = c.result /\ e.attempt = c.attempt
          /\ e.unsure = c.unsure /\ e.decision = c.decision /\ e.input = c.input
        BY DEF Call, Points
    <2> HIDE DEF e
    <2>3. Shape(e)
        BY <1>3, <2>2 DEF Shape
    <2> QED BY <1>2, <2>1, <2>2, <2>3
<1>4. CASE ~(retryable /\ c.attempt < MaxAttempts)
    <2> DEFINE e == [c EXCEPT !.pc = "store", !.outcome = GrantFailed]
    <2>1. AfterError(c, retryable) = e
        BY <1>4 DEF AfterError, GivesUp
    <2>2. /\ e \in Call /\ e.pc = "store" /\ e.outcome = GrantFailed
          /\ e.result = c.result /\ e.attempt = c.attempt
          /\ e.unsure = c.unsure /\ e.decision = c.decision /\ e.input = c.input
        BY <1>1 DEF Call, Points
    <2> HIDE DEF e
    <2>3. Shape(e)
        BY <1>1, <1>2, <2>2 DEF Shape
    <2> QED BY <1>1, <2>1, <2>2, <2>3
<1> QED BY <1>3, <1>4

(* What every step of a call that holds its place needs.                   *)
LEMMA CallFacts ==
    ASSUME FinalizerInv, NEW f \in Finalizations
    PROVE  /\ fin[f] \in Call /\ Shape(fin[f]) /\ Heeds(f, fin[f])
           /\ lost \subseteq Finalizations /\ lock \in Finalizations \cup {Nobody}
           /\ faults \in 0 .. MaxFaults
BY InformedHeeds DEF FinalizerInv, TypeOK, CallShape

LEMMA GiveUpWaitingStep ==
    ASSUME FinalizerInv, NEW f \in Finalizations, GiveUpWaiting(f) PROVE FinalizerInv'
<1> DEFINE c == [fin[f] EXCEPT !.unsure = TRUE]
<1>0. PICK retryable \in BOOLEAN : GoesOn(f, AfterError(c, retryable))
    BY DEF GiveUpWaiting
<1> DEFINE e == AfterError(c, retryable)
<1>1. fin[f].pc = "wait" /\ GoesOn(f, e) /\ UNCHANGED <<serviceVars, stored, lock, lost, faults>>
    BY <1>0 DEF GiveUpWaiting
<1>2. /\ c \in Call /\ c.pc = fin[f].pc /\ c.outcome = fin[f].outcome
      /\ c.result = fin[f].result /\ c.attempt = fin[f].attempt /\ c.unsure = TRUE
      /\ c.decision = fin[f].decision /\ c.input = fin[f].input
    BY CallFacts DEF Call
<1>3. Shape(c)
    <2> HIDE DEF c
    <2> QED BY <1>1, <1>2, CallFacts DEF Shape
<1>4. /\ e \in Call /\ Shape(e) /\ e.pc \in {"backoff", "store"}
      /\ ~e.outcome.success /\ e.unsure = TRUE
    <2> HIDE DEF c
    <2> QED BY <1>1, <1>2, <1>3, AfterErrorShape
<1> HIDE DEF e
<1>5. Heeds(f, e)
    BY <1>4 DEF Heeds
<1>6. LockExclusion'
    <2>1. Holds(f) \/ ~LockEnabled
        BY <1>1 DEF Holds
    <2> QED BY <1>1, <1>4, <2>1, LockKept
<1> QED BY <1>1, <1>4, <1>5, <1>6, CallFacts, QuietStep

LEMMA BackoffStep ==
    ASSUME FinalizerInv, NEW f \in Finalizations, Backoff(f) PROVE FinalizerInv'
<1>1. /\ fin[f].pc = "backoff" /\ UNCHANGED <<serviceVars, stored, lock, lost, faults>>
      /\ Holds(f) \/ ~LockEnabled
    BY DEF Backoff, Holds
<1>2. CASE fin[f].cancelled
    <2> DEFINE c == [fin[f] EXCEPT !.pc = "store", !.outcome = GrantFailed]
    <2>1. GoesOn(f, c)
        BY <1>2 DEF Backoff, GivesUp
    <2>2. GrantFailed \in Outcome /\ GrantFailed.attempted /\ ~GrantFailed.success
          /\ GrantFailed.status # "GRANTED"
        BY DEF GrantFailed, Outcome, ExecutionStatuses
    <2>3. /\ c \in Call /\ c.pc = "store" /\ c.outcome = GrantFailed
          /\ c.result = fin[f].result /\ c.attempt = fin[f].attempt /\ c.unsure = fin[f].unsure
          /\ c.decision = fin[f].decision /\ c.input = fin[f].input
        BY <2>2, CallFacts DEF Call, Points
    <2> HIDE DEF c
    <2>4. Shape(c)
        BY <1>1, <2>2, <2>3, CallFacts DEF Shape
    <2>5. Heeds(f, c)
        BY <1>1, <2>3, CallFacts DEF Heeds
    <2>6. LockExclusion'
        BY <1>1, <2>1, <2>3, LockKept
    <2> QED BY <1>1, <2>1, <2>2, <2>3, <2>4, <2>5, <2>6, CallFacts, QuietStep
<1>3. CASE ~fin[f].cancelled
    <2> DEFINE c == [fin[f] EXCEPT !.pc = "send", !.attempt = @ + 1]
    <2>1. GoesOn(f, c)
        BY <1>3 DEF Backoff
    <2>2. fin[f].attempt + 1 \in 0 .. MaxAttempts
        <3>1. fin[f].attempt \in 0 .. MaxAttempts /\ fin[f].attempt < MaxAttempts
            BY <1>1, CallFacts DEF Shape, Call
        <3> QED BY <3>1, FinalizerAssumption
    <2>3. /\ c \in Call /\ c.pc = "send" /\ c.outcome = fin[f].outcome
          /\ c.result = fin[f].result /\ c.attempt = fin[f].attempt + 1
          /\ c.unsure = fin[f].unsure
          /\ c.decision = fin[f].decision /\ c.input = fin[f].input
        BY <2>2, CallFacts DEF Call, Points
    <2> HIDE DEF c
    <2>4. Shape(c)
        <3>1. fin[f].attempt \in Nat /\ fin[f].attempt > 0
            BY <1>1, CallFacts DEF Shape, Call
        <3>2. c.attempt > 0
            BY <2>3, <3>1
        <3> QED BY <1>1, <2>3, <3>1, <3>2, CallFacts DEF Shape
    <2>5. Heeds(f, c)
        BY <1>1, <2>3, CallFacts DEF Heeds
    <2>6. LockExclusion'
        BY <1>1, <2>1, <2>3, LockKept
    <2> QED BY <1>1, <2>1, <2>3, <2>4, <2>5, <2>6, CallFacts, QuietStep
<1> QED BY <1>2, <1>3

LEMMA ReleaseStep ==
    ASSUME FinalizerInv, NEW f \in Finalizations, Release(f) PROVE FinalizerInv'
<1> DEFINE c == [fin[f] EXCEPT !.pc = "end"]
<1>1. /\ fin[f].pc = "release" /\ UNCHANGED <<serviceVars, stored, lost>> /\ GoesOn(f, c)
      /\ lock' \in {Released(f), lock}
    BY DEF Release, At
<1>2. faults' \in 0 .. MaxFaults
    BY FaultBound DEF Release
<1>3. /\ c \in Call /\ c.pc = "end" /\ c.outcome = fin[f].outcome
      /\ c.result = fin[f].result /\ c.attempt = fin[f].attempt /\ c.unsure = fin[f].unsure
      /\ c.decision = fin[f].decision /\ c.input = fin[f].input
    BY CallFacts DEF Call, Points
<1> HIDE DEF c
<1>4. Shape(c)
    BY <1>1, <1>3, CallFacts DEF Shape
<1>5. Heeds(f, c)
    BY <1>1, <1>3, CallFacts DEF Heeds
<1>6. lock' \in Finalizations \cup {Nobody}
    BY <1>1, CallFacts DEF Released
<1>7. LockExclusion'
    <2>1. fin'[f] = c /\ \A g \in Finalizations : g # f => fin'[g] = fin[g]
        BY <1>1 DEF GoesOn, FinalizerInv, TypeOK
    <2> QED BY <1>1, <1>3, <2>1 DEF Released, LockExclusion, Holds, FinalizerInv
<1> QED BY <1>1, <1>2, <1>3, <1>4, <1>5, <1>6, <1>7, CallFacts, QuietStep

(* The end of a context is only noted.                                     *)
LEMMA CancelStep ==
    ASSUME FinalizerInv, NEW f \in Finalizations, fin[f].pc # "idle",
           GoesOn(f, [fin[f] EXCEPT !.cancelled = TRUE]),
           UNCHANGED <<lock, serviceVars, stored, lost>>, faults' \in 0 .. MaxFaults
    PROVE  FinalizerInv'
<1> DEFINE c == [fin[f] EXCEPT !.cancelled = TRUE]
<1>1. /\ c \in Call /\ c.pc = fin[f].pc /\ c.outcome = fin[f].outcome
      /\ c.result = fin[f].result /\ c.attempt = fin[f].attempt /\ c.unsure = fin[f].unsure
      /\ c.decision = fin[f].decision /\ c.input = fin[f].input
    BY CallFacts DEF Call
<1>2. GoesOn(f, c)
    OBVIOUS
<1> HIDE DEF c
<1>3. Shape(c)
    BY <1>1, CallFacts DEF Shape
<1>4. Heeds(f, c)
    BY <1>1, CallFacts DEF Heeds
<1>5. LockExclusion'
    <2>1. c.pc \in {"idle", "lock", "end"} \/ Holds(f) \/ ~LockEnabled
        BY <1>1, CallFacts DEF Holds, Call, Points
    <2> QED BY <1>1, <1>2, <2>1, LockKept
<1> QED BY <1>1, <1>2, <1>3, <1>4, <1>5, CallFacts, QuietStep

LEMMA LeaseStep ==
    ASSUME FinalizerInv, NEW f \in Finalizations,
           RenewFails(f) \/ CallerCancels(f) \/ Crash(f)
    PROVE  FinalizerInv'
<1>1. CASE RenewFails(f)
    <2>1. faults' \in 0 .. MaxFaults
        BY <1>1, FaultBound DEF RenewFails
    <2> QED BY <1>1, <2>1, CancelStep DEF RenewFails, Holds
<1>2. CASE CallerCancels(f)
    BY <1>2, FaultBound, CancelStep DEF CallerCancels
<1>3. CASE Crash(f)
    <2>1. FailsAt(f, "end") /\ UNCHANGED <<lock, serviceVars, stored, lost>>
          /\ faults' \in 0 .. MaxFaults
        BY <1>3, FaultBound DEF Crash
    <2> QED BY <2>1, CallFacts, LockKeptOnFailure, FailStep
<1> QED BY <1>1, <1>2, <1>3

LEMMA SendStep ==
    ASSUME FinalizerInv, NEW f \in Finalizations, Send(f) PROVE FinalizerInv'
<1>1. /\ fin[f].pc = "send" /\ UNCHANGED <<lock, grantKeys, coupons, issuedTo, stored, lost, faults>>
      /\ Holds(f) \/ ~LockEnabled
    BY DEF Send, Holds
<1>2. CASE /\ \E retryable \in BOOLEAN : GoesOn(f, AfterError(fin[f], retryable))
           /\ UNCHANGED inflight
    <2>0. PICK retryable \in BOOLEAN : GoesOn(f, AfterError(fin[f], retryable))
        BY <1>2
    <2> DEFINE e == AfterError(fin[f], retryable)
    <2>1. /\ e \in Call /\ Shape(e) /\ e.pc \in {"backoff", "store"}
          /\ ~e.outcome.success /\ e.result = fin[f].result /\ e.unsure = fin[f].unsure
        BY <1>1, CallFacts, AfterErrorShape
    <2>2. GoesOn(f, e)
        BY <2>0
    <2> HIDE DEF e
    <2>3. Heeds(f, e)
        BY <1>1, <2>1, CallFacts DEF Heeds
    <2>4. LockExclusion'
        BY <1>1, <2>1, <2>2, LockKept
    <2> QED BY <1>1, <1>2, <2>1, <2>2, <2>3, <2>4, CallFacts, QuietStep DEF serviceVars
<1>3. CASE /\ inflight' = inflight \cup {[by |-> f, attempt |-> fin[f].attempt]}
           /\ At(f, "wait")
    <2> DEFINE c == [fin[f] EXCEPT !.pc = "wait"]
               q == [by |-> f, attempt |-> fin[f].attempt]
    <2>1. GoesOn(f, c)
        BY <1>3 DEF At
    <2>2. /\ c \in Call /\ c.pc = "wait" /\ c.outcome = fin[f].outcome
          /\ c.result = fin[f].result /\ c.attempt = fin[f].attempt /\ c.unsure = fin[f].unsure
          /\ c.decision = fin[f].decision /\ c.input = fin[f].input
        BY CallFacts DEF Call, Points
    <2> HIDE DEF c
    <2>3. Shape(c)
        BY <1>1, <2>2, CallFacts DEF Shape
    <2>4. /\ fin' \in [Finalizations -> Call] /\ CallShape' /\ fin'[f] = c
          /\ \A g \in Finalizations : g # f => fin'[g] = fin[g]
        BY <2>1, <2>2, <2>3, CallMoves DEF FinalizerInv
    <2>5. q \in Request
        <3>1. fin[f].attempt \in 1 .. MaxAttempts
            BY <1>1, CallFacts DEF Call, Shape
        <3> QED BY <3>1 DEF Request
    <2>6. TypeOK'
        BY <1>1, <1>3, <2>4, <2>5 DEF FinalizerInv, TypeOK
    <2>7. CouponOnce' /\ SuccessIsReal' /\ StoredGrantIsReal'
        BY <1>1, <2>2, <2>4 DEF FinalizerInv, CouponOnce, SuccessIsReal, StoredGrantIsReal
    <2>8. LockExclusion'
        BY <1>1, <2>1, <2>2, LockKept
    <2>9. AllInformed'
        <3> SUFFICES ASSUME NEW g \in Finalizations PROVE Informed(g)'
            BY DEF AllInformed
        <3>1. CASE g = f
            BY <1>1, <1>3, <2>2, <2>4, <3>1, CallFacts DEF Heeds, Informed, Awaits
        <3>2. CASE g # f
            BY <1>1, <1>3, <2>4, <3>2 DEF FinalizerInv, AllInformed, Informed, Awaits
        <3> QED BY <3>1, <3>2
    <2> QED BY <2>4, <2>6, <2>7, <2>8, <2>9 DEF FinalizerInv
<1> QED BY <1>2, <1>3 DEF Send

LEMMA ExpireLockStep == ASSUME FinalizerInv, ExpireLock PROVE FinalizerInv'
<1>1. /\ lock # Nobody /\ lock' = Nobody /\ UNCHANGED <<fin, serviceVars, stored>>
      /\ \/ ~Holds(lock) /\ UNCHANGED <<lost, faults>>
         \/ Holds(lock) /\ lost' = lost \cup {lock} /\ Fault
    BY DEF ExpireLock
<1>2. TypeOK'
    BY <1>1, FaultBound DEF FinalizerInv, TypeOK, serviceVars
<1>3. CouponOnce' /\ CallShape' /\ SuccessIsReal' /\ StoredGrantIsReal'
    BY <1>1 DEF FinalizerInv, CouponOnce, CallShape, SuccessIsReal, StoredGrantIsReal, serviceVars
<1>4. LockExclusion'
    BY <1>1 DEF FinalizerInv, LockExclusion, Holds
<1>5. AllInformed'
    BY <1>1 DEF FinalizerInv, AllInformed, Informed, Awaits, serviceVars
<1> QED BY <1>2, <1>3, <1>4, <1>5 DEF FinalizerInv

(* The decision that is stored tells what the call knows.                  *)
LEMMA RequestIsReal ==
    ASSUME FinalizerInv, NEW f \in Finalizations
    PROVE  /\ DecisionRequest(f) \in StoredDecision /\ DecisionRequest(f).by = f
           /\ DecisionRequest(f).couponGranted = fin[f].outcome.success
           /\ DecisionRequest(f).couponGranted <=> DecisionRequest(f).status = "GRANTED"
           /\ DecisionRequest(f).couponGranted =>
                 /\ coupons > 0
                 /\ DecisionRequest(f).decision.action = "GRANT_COUPON"
                 /\ ~DecisionRequest(f).decision.needHumanReview
<1> DEFINE d == DecisionWithCouponGrant(fin[f].decision, fin[f].outcome)
<1>1. fin[f].decision \in Decision /\ fin[f].outcome \in Outcome
    BY CallFacts DEF Call
<1>2. /\ d \in Decision
      /\ fin[f].decision.action = "GRANT_COUPON" /\ fin[f].outcome.attempted /\ fin[f].outcome.success =>
            d.action = "GRANT_COUPON" /\ d.needHumanReview = fin[f].decision.needHumanReview
    BY <1>1, GrantType
<1>3. DecisionRequest(f) = [by |-> f, decision |-> d, couponGranted |-> fin[f].outcome.success,
                            status |-> fin[f].outcome.status]
    BY DEF DecisionRequest
<1> HIDE DEF d
<1>4. fin[f].outcome.success \in BOOLEAN /\ fin[f].outcome.status \in ExecutionStatuses
    BY <1>1 DEF Outcome
<1>5. DecisionRequest(f) \in StoredDecision
    BY <1>2, <1>3, <1>4 DEF StoredDecision
<1>6. fin[f].outcome.success =>
        /\ coupons > 0 /\ d.action = "GRANT_COUPON" /\ ~d.needHumanReview
    BY <1>2, CallFacts DEF Shape, FinalizerInv, SuccessIsReal
<1>7. fin[f].outcome.success <=> fin[f].outcome.status = "GRANTED"
    BY CallFacts DEF Shape
<1> QED BY <1>3, <1>5, <1>6, <1>7

LEMMA StoreStep ==
    ASSUME FinalizerInv, NEW f \in Finalizations, StoreDecision(f) PROVE FinalizerInv'
<1>1. /\ fin[f].pc = "store" /\ UNCHANGED <<lock, serviceVars, lost>>
      /\ Leave \in {"release", "end"} /\ (Leave = "end" \/ Holds(f))
      /\ faults' \in 0 .. MaxFaults
    BY FaultBound DEF StoreDecision, Leave, Holds
<1>2. CASE UNCHANGED stored /\ FailsAt(f, Leave)
    BY <1>1, <1>2, CallFacts, LockKeptOnFailure, FailStep
<1>3. ASSUME stored' = stored \cup {DecisionRequest(f)}, NEW r \in {"ok", "error"},
             GoesOn(f, [fin[f] EXCEPT !.pc = Leave, !.result = r])
      PROVE  FinalizerInv'
    <2> DEFINE c == [fin[f] EXCEPT !.pc = Leave, !.result = r]
    <2>1. GoesOn(f, c)
        BY <1>3
    <2>2. /\ c \in Call /\ c.pc = Leave /\ c.outcome = fin[f].outcome
          /\ c.result = r /\ c.attempt = fin[f].attempt /\ c.unsure = fin[f].unsure
          /\ c.decision = fin[f].decision /\ c.input = fin[f].input
        BY <1>1, CallFacts DEF Call, Points, Results
    <2> HIDE DEF c
    <2>3. Shape(c)
        BY <1>1, <2>2, CallFacts DEF Shape
    <2>4. /\ fin' \in [Finalizations -> Call] /\ CallShape' /\ fin'[f] = c
          /\ \A g \in Finalizations : g # f => fin'[g] = fin[g]
        BY <2>1, <2>2, <2>3, CallMoves DEF FinalizerInv
    <2>5. TypeOK'
        BY <1>1, <1>3, <2>4, RequestIsReal DEF FinalizerInv, TypeOK, serviceVars
    <2>6. CouponOnce' /\ SuccessIsReal'
        BY <1>1, <2>2, <2>4 DEF FinalizerInv, CouponOnce, SuccessIsReal, serviceVars
    <2>7. StoredGrantIsReal'
        BY <1>1, <1>3, RequestIsReal DEF FinalizerInv, StoredGrantIsReal, serviceVars
    <2>8. LockExclusion'
        BY <1>1, <2>1, <2>2, LockKept
    <2>9. AllInformed'
        <3> SUFFICES ASSUME NEW g \in Finalizations PROVE Informed(g)'
            BY DEF AllInformed
        <3>1. CASE g = f
            <4>1. DecisionRequest(f) \in stored' /\ DecisionRequest(f).by = f
                  /\ DecisionRequest(f).couponGranted = fin[f].outcome.success
                BY <1>3, RequestIsReal
            <4>2. issuedTo = f /\ ~fin[f].unsure => fin[f].outcome.success
                BY <1>1, CallFacts DEF Heeds, Shape
            <4>3. ~fin[f].unsure => \A q \in inflight : q.by # f
                BY <1>1, CallFacts DEF Heeds, Shape
            <4> QED BY <1>1, <2>2, <2>4, <3>1, <4>1, <4>2, <4>3 DEF Informed, Awaits, serviceVars
        <3>2. CASE g # f
            BY <1>1, <1>3, <2>4, <3>2 DEF FinalizerInv, AllInformed, Informed, Awaits, serviceVars
        <3> QED BY <3>1, <3>2
    <2> QED BY <2>4, <2>5, <2>6, <2>7, <2>8, <2>9 DEF FinalizerInv
<1> QED BY <1>2, <1>3 DEF StoreDecision, FailsAt

-----------------------------------------------------------------------------
(* Steps of the coupon service.                                            *)

(* A request is dealt with: no coupon is issued, or the first one is.      *)
Served(q) ==
    /\ q \in inflight
    /\ inflight' = inflight \ {q}
    /\ UNCHANGED <<lock, stored, lost, faults>>
    /\ \/ UNCHANGED <<grantKeys, coupons, issuedTo>>
       \/ coupons = 0 /\ coupons' = 1 /\ grantKeys' = {<<Review>>} /\ issuedTo' = q.by

(* What that means for all but the calls.                                  *)
LEMMA ServedFacts ==
    ASSUME FinalizerInv, NEW q, Served(q)
    PROVE  /\ q \in Request /\ q.by \in Finalizations
           /\ CouponOnce' /\ StoredGrantIsReal'
           /\ coupons' \in Nat /\ coupons' >= coupons
           /\ inflight' \subseteq Request /\ grantKeys' \subseteq {<<Review>>}
           /\ issuedTo' \in Finalizations \cup {Nobody}
           /\ \A f \in Finalizations : f # q.by /\ issuedTo' = f => issuedTo = f
<1>1. q \in Request /\ q.by \in Finalizations /\ coupons \in Nat
    BY DEF FinalizerInv, TypeOK, Served, Request
<1>2. CouponOnce'
    BY <1>1, FinalizerAssumption DEF FinalizerInv, CouponOnce, Served
<1>3. coupons' \in Nat /\ coupons' >= coupons
    BY <1>1 DEF Served
<1>4. StoredGrantIsReal'
    <2>1. stored' = stored
        BY DEF Served
    <2>2. coupons > 0 => coupons' > 0
        BY <1>1, <1>3
    <2> QED BY <2>1, <2>2 DEF FinalizerInv, StoredGrantIsReal
<1>5. /\ inflight' \subseteq Request /\ grantKeys' \subseteq {<<Review>>}
      /\ issuedTo' \in Finalizations \cup {Nobody}
      /\ \A f \in Finalizations : f # q.by /\ issuedTo' = f => issuedTo = f
    BY <1>1, FinalizerAssumption DEF FinalizerInv, TypeOK, Served
<1> QED BY <1>1, <1>2, <1>3, <1>4, <1>5

(* A call that is not unsure has no other request on its way.              *)
LEMMA OnlyRequest ==
    ASSUME FinalizerInv, NEW q \in inflight, NEW p \in inflight, p.by = q.by,
           fin[q.by].result # "error", ~fin[q.by].unsure
    PROVE  p = q
<1>1. q \in Request /\ p \in Request /\ q.by \in Finalizations
    BY DEF FinalizerInv, TypeOK, Request
<1>2. Heeds(q.by, fin[q.by])
    BY <1>1, InformedHeeds
<1>3. p.attempt = q.attempt
    BY <1>2 DEF Heeds
<1> QED BY <1>1, <1>3 DEF Request

(* The answer is lost, or nobody waits for it.                             *)
LEMMA ServedUnheard ==
    ASSUME FinalizerInv, NEW q, Served(q), UNCHANGED fin PROVE FinalizerInv'
<1>1. TypeOK'
    BY ServedFacts DEF FinalizerInv, TypeOK, Served
<1>2. CallShape'
    BY DEF FinalizerInv, CallShape
<1>3. LockExclusion'
    BY DEF FinalizerInv, LockExclusion, Holds, Served
<1>4. SuccessIsReal'
    <2>1. coupons > 0 => coupons' > 0
        BY ServedFacts DEF FinalizerInv, TypeOK
    <2> QED BY <2>1 DEF FinalizerInv, SuccessIsReal
<1>5. AllInformed'
    <2> SUFFICES ASSUME NEW f \in Finalizations, fin[f].result # "error", ~fin[f].unsure
                 PROVE  Informed(f)'
        BY DEF AllInformed, Informed
    <2>1. Heeds(f, fin[f]) /\ inflight' = inflight \ {q} /\ stored' = stored
        BY CallFacts DEF Served
    <2>2. CASE issuedTo' = issuedTo \/ f # q.by
        <3>1. issuedTo' = f => issuedTo = f
            BY <2>2, ServedFacts
        <3> QED BY <2>1, <3>1 DEF Heeds, Informed, Awaits
    <2>3. CASE issuedTo' # issuedTo /\ f = q.by
        <3>1. \A p \in inflight' : p.by # f
            BY <2>1, <2>3, OnlyRequest DEF Served
        <3>2. fin[f].pc = "wait"
            BY <2>1, <2>3 DEF Heeds, Served
        <3> QED BY <3>1, <3>2 DEF Informed, Awaits
    <2> QED BY <2>2, <2>3
<1> QED BY <1>1, <1>2, <1>3, <1>4, <1>5, ServedFacts DEF FinalizerInv

(* The answer reaches the call that waits for it.                          *)
LEMMA ServedHeard ==
    ASSUME FinalizerInv, NEW q, Served(q), Awaits(q.by, q), NEW c \in Call, Shape(c),
           GoesOn(q.by, c), c.pc \in {"backoff", "store"}, c.unsure = fin[q.by].unsure,
           c.outcome.success => coupons' > 0,
           issuedTo' = issuedTo \/ (c.pc = "store" /\ c.outcome.success)
    PROVE  FinalizerInv'
<1>1. /\ fin' \in [Finalizations -> Call] /\ CallShape' /\ fin'[q.by] = c
      /\ \A g \in Finalizations : g # q.by => fin'[g] = fin[g]
    BY ServedFacts, CallMoves DEF FinalizerInv
<1>2. TypeOK'
    BY <1>1, ServedFacts DEF FinalizerInv, TypeOK, Served
<1>3. fin[q.by].pc = "wait" /\ fin[q.by].result = "none"
    BY ServedFacts, CallFacts DEF Awaits, Shape
<1>4. LockExclusion'
    <2>1. Holds(q.by) \/ ~LockEnabled
        BY <1>3 DEF Holds
    <2> QED BY <2>1, ServedFacts, LockKept DEF Served
<1>5. SuccessIsReal'
    <2>1. coupons > 0 => coupons' > 0
        BY ServedFacts DEF FinalizerInv, TypeOK
    <2> QED BY <1>1, <2>1 DEF FinalizerInv, SuccessIsReal
<1>6. AllInformed'
    <2> SUFFICES ASSUME NEW f \in Finalizations PROVE Informed(f)'
        BY DEF AllInformed
    <2>1. CASE f # q.by
        <3>1. issuedTo' = f => issuedTo = f
            BY <2>1, ServedFacts
        <3>2. Heeds(f, fin[f]) /\ fin'[f] = fin[f] /\ inflight' = inflight \ {q} /\ stored' = stored
            BY <1>1, <2>1, CallFacts DEF Served
        <3> QED BY <3>1, <3>2 DEF Heeds, Informed, Awaits
    <2>2. CASE f = q.by
        <3>1. c.result = "none"
            BY DEF Shape
        <3> SUFFICES ASSUME ~fin[f].unsure PROVE Informed(f)'
            BY <1>1, <2>2 DEF Informed
        <3>2. \A p \in inflight' : p.by # f
            BY <1>3, <2>2, OnlyRequest DEF Served
        <3>3. issuedTo # f
            BY <1>3, <2>2, CallFacts DEF Heeds, Served
        <3> QED BY <1>1, <2>2, <3>1, <3>2, <3>3 DEF Informed, Awaits
    <2> QED BY <2>1, <2>2
<1> QED BY <1>1, <1>2, <1>4, <1>5, <1>6, ServedFacts DEF FinalizerInv

(* The state of a call that is answered.                                   *)
LEMMA AnsweredShape ==
    ASSUME NEW c \in Call, Shape(c), c.pc = "wait", NEW success \in BOOLEAN
    PROVE  LET e == [c EXCEPT !.pc = "store", !.outcome = Answered(success)] IN
           /\ e \in Call /\ Shape(e) /\ e.pc = "store" /\ e.outcome.success = success
           /\ e.unsure = c.unsure
<1> DEFINE e == [c EXCEPT !.pc = "store", !.outcome = Answered(success)]
<1>1. /\ Answered(success) \in Outcome /\ Answered(success).attempted
      /\ Answered(success).success = success
      /\ success <=> Answered(success).status = "GRANTED"
    BY DEF Answered, Outcome, ExecutionStatuses
<1>2. /\ e \in Call /\ e.pc = "store" /\ e.outcome = Answered(success)
      /\ e.result = c.result /\ e.attempt = c.attempt
      /\ e.unsure = c.unsure /\ e.decision = c.decision /\ e.input = c.input
    BY <1>1 DEF Call, Points
<1> HIDE DEF e
<1>3. Shape(e)
    BY <1>1, <1>2 DEF Shape
<1>4. e \in Call /\ Shape(e) /\ e.pc = "store" /\ e.outcome.success = success /\ e.unsure = c.unsure
    BY <1>1, <1>2, <1>3
<1> QED BY <1>4 DEF e

LEMMA ServeStep ==
    ASSUME FinalizerInv, NEW q \in Request, Serve(q) \/ LoseRequest(q) PROVE FinalizerInv'
<1>1. q.by \in Finalizations
    BY DEF Request
<1>2. CASE ServeGrant(q)
    <2>1. Served(q) /\ coupons' > 0
        <3>1. CASE coupons = 1 /\ grantKeys = {<<Review>>}
            <4>1. grantKeys' = grantKeys /\ UNCHANGED <<coupons, issuedTo>>
                BY <1>2, <3>1 DEF ServeGrant, GrantKey
            <4> QED BY <1>2, <3>1, <4>1 DEF ServeGrant, Served
        <3>2. CASE coupons = 0 /\ grantKeys = {}
            <4>1. coupons' = 1 /\ issuedTo' = q.by /\ grantKeys' = {<<Review>>}
                BY <1>2, <3>2 DEF ServeGrant, GrantKey
            <4> QED BY <1>2, <3>2, <4>1 DEF ServeGrant, Served
        <3> QED BY <3>1, <3>2 DEF FinalizerInv, CouponOnce
    <2>2. CASE UNCHANGED fin
        BY <2>1, <2>2, ServedUnheard
    <2>3. CASE /\ Awaits(q.by, q)
               /\ GoesOn(q.by, [fin[q.by] EXCEPT !.pc = "store", !.outcome = Answered(TRUE)])
        <3> DEFINE c == [fin[q.by] EXCEPT !.pc = "store", !.outcome = Answered(TRUE)]
        <3>1. /\ c \in Call /\ Shape(c) /\ c.pc = "store" /\ c.outcome.success = TRUE
              /\ c.unsure = fin[q.by].unsure
            BY <1>1, <2>3, CallFacts, AnsweredShape DEF Awaits
        <3>2. GoesOn(q.by, c)
            BY <2>3
        <3> HIDE DEF c
        <3> QED BY <2>1, <2>3, <3>1, <3>2, ServedHeard
    <2> QED BY <1>2, <2>2, <2>3 DEF ServeGrant, Reply
<1>3. CASE ServeRefusal(q)
    <2>1. Served(q) /\ issuedTo' = issuedTo
        BY <1>3 DEF ServeRefusal, Served
    <2>2. CASE UNCHANGED fin
        BY <2>1, <2>2, ServedUnheard
    <2>3. CASE /\ Awaits(q.by, q)
               /\ GoesOn(q.by, [fin[q.by] EXCEPT !.pc = "store", !.outcome = Answered(FALSE)])
        <3> DEFINE c == [fin[q.by] EXCEPT !.pc = "store", !.outcome = Answered(FALSE)]
        <3>1. /\ c \in Call /\ Shape(c) /\ c.pc = "store" /\ c.outcome.success = FALSE
              /\ c.unsure = fin[q.by].unsure
            BY <1>1, <2>3, CallFacts, AnsweredShape DEF Awaits
        <3>2. GoesOn(q.by, c)
            BY <2>3
        <3> HIDE DEF c
        <3> QED BY <2>1, <2>3, <3>1, <3>2, ServedHeard
    <2> QED BY <1>3, <2>2, <2>3 DEF ServeRefusal, Reply
<1>4. CASE ServeError(q)
    <2>1. Served(q) /\ issuedTo' = issuedTo
        BY <1>4 DEF ServeError, Served
    <2>2. CASE UNCHANGED fin
        BY <2>1, <2>2, ServedUnheard
    <2>3. ASSUME NEW retryable \in BOOLEAN, Awaits(q.by, q),
                 GoesOn(q.by, AfterError(fin[q.by], retryable))
          PROVE  FinalizerInv'
        <3> DEFINE c == AfterError(fin[q.by], retryable)
        <3>1. /\ c \in Call /\ Shape(c) /\ c.pc \in {"backoff", "store"} /\ ~c.outcome.success
              /\ c.unsure = fin[q.by].unsure
            BY <1>1, <2>3, CallFacts, AfterErrorShape DEF Awaits
        <3>2. GoesOn(q.by, c)
            BY <2>3
        <3> HIDE DEF c
        <3> QED BY <2>1, <2>3, <3>1, <3>2, ServedHeard
    <2> QED BY <1>4, <2>2, <2>3 DEF ServeError, Reply
<1>5. CASE LoseRequest(q)
    <2>1. Served(q) /\ UNCHANGED fin
        BY <1>5 DEF LoseRequest, Served
    <2> QED BY <2>1, ServedUnheard
<1> QED BY <1>2, <1>3, <1>4, <1>5 DEF Serve

-----------------------------------------------------------------------------
(* The invariant is inductive.                                             *)

LEMMA InvStep == FinalizerInv /\ [Next]_vars => FinalizerInv'
<1> SUFFICES ASSUME FinalizerInv, [Next]_vars PROVE FinalizerInv'
    OBVIOUS
<1>1. ASSUME NEW f \in Finalizations, Start(f) PROVE FinalizerInv'
    BY <1>1, StartStep
<1>2. ASSUME NEW f \in Finalizations, Step(f) PROVE FinalizerInv'
    BY <1>2, AcquireStep, DecideStep, SendStep, GiveUpWaitingStep, BackoffStep, StoreStep,
       ReleaseStep DEF Step
<1>3. ASSUME NEW f \in Finalizations, RenewFails(f) \/ CallerCancels(f) \/ Crash(f)
      PROVE  FinalizerInv'
    BY <1>3, LeaseStep
<1>4. ASSUME NEW q \in Request, Serve(q) \/ LoseRequest(q) PROVE FinalizerInv'
    BY <1>4, ServeStep
<1>5. CASE ExpireLock
    BY <1>5, ExpireLockStep
<1>6. CASE UNCHANGED vars
    BY <1>6 DEF vars, FinalizerInv, TypeOK, CouponOnce, CallShape, SuccessIsReal, StoredGrantIsReal,
                LockExclusion, Holds, AllInformed, Informed, Awaits
<1> QED BY <1>1, <1>2, <1>3, <1>4, <1>5, <1>6 DEF Next

(* The inductive invariant of Finalize: any number of calls, attempts,     *)
(* crashes, lost locks, lost and late replies.                             *)
THEOREM FinalizerInvHolds == Spec => []FinalizerInv
BY InvInit, InvStep, PTL DEF Spec

(* A review earns at most one coupon: grantCouponWithRetry and concurrent  *)
(* executions repeat requests under one idempotency key.                   *)
THEOREM OneCouponPerReview == Spec => []AtMostOneCoupon
<1>1. FinalizerInv => AtMostOneCoupon
    BY DEF FinalizerInv, CouponOnce, AtMostOneCoupon
<1> QED BY <1>1, FinalizerInvHolds, PTL

(* No request leaves that the appeal, quality, human review or campaign    *)
(* rules forbid, for every decision, evidence and campaign there is.       *)
THEOREM GrantsArePermitted == Spec => []OnlyPermittedGrants
<1>1. FinalizerInv => OnlyPermittedGrants
    BY DEF FinalizerInv, CallShape, Shape, OnlyPermittedGrants
<1> QED BY <1>1, FinalizerInvHolds, PTL

(* StoreDecision never records a grant that did not happen.                *)
THEOREM StoredGrantsAreReal == Spec => []StoredGrantIsReal
<1>1. FinalizerInv => StoredGrantIsReal
    BY DEF FinalizerInv
<1> QED BY <1>1, FinalizerInvHolds, PTL

(* A call that reports success has recorded the coupon that it obtained,   *)
(* unless it gave up waiting for a reply.                                  *)
THEOREM KnownGrantsAreStored == Spec => []KnownGrantIsStored
<1>1. ASSUME FinalizerInv, NEW f \in Finalizations,
             fin[f].result = "ok", issuedTo = f, ~fin[f].unsure
      PROVE  \E s \in stored : s.by = f /\ s.couponGranted
    BY <1>1, CallFacts DEF Heeds, Shape
<1>2. FinalizerInv => KnownGrantIsStored
    BY <1>1 DEF KnownGrantIsStored
<1> QED BY <1>2, FinalizerInvHolds, PTL

(* Nobody but time takes the decision lock from its holder.                *)
THEOREM LocksAreExclusive == Spec => []LockExclusion
<1>1. FinalizerInv => LockExclusion
    BY DEF FinalizerInv
<1> QED BY <1>1, FinalizerInvHolds, PTL
=============================================================================

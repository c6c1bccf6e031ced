---------------------------- MODULE CouponDecision ----------------------------
(***************************************************************************)
(* The rules between the language model's decision and a coupon            *)
(* (internal/agent/decision_guard.go, review_coupon_finalizer.go): the     *)
(* guard that overrides the model, the conditions on the review and the    *)
(* campaign under which a grant is requested, and what is reported about   *)
(* it.  Texts are left out; scenes are told apart only by whether the      *)
(* policy maps them to a scene of the coupon service.                      *)
(***************************************************************************)
EXTENDS Integers

Actions == {"GRANT_COUPON", "SUGGEST_COUPON", "MANUAL_REVIEW", "NO_COUPON"}

(* MAPPED and UNMAPPED stand for the scenes the model may name.            *)
SceneNames == {"MAPPED", "UNMAPPED", "DISPUTE_REVIEW", "HIGH_RISK_REVIEW"}

Tags == {"SUGGEST_COUPON_NORMALIZED", "CURRENT_EVIDENCE_PRIORITY", "DECISION_GUARD",
         "COUPON_GRANT_NOT_CONFIGURED", "COUPON_GRANTED", "CAMPAIGN_CONSTRAINT_REJECTED",
         "COUPON_GRANT_FAILED"}

Decision == [action : Actions, scene : SceneNames, needHumanReview : BOOLEAN,
             policyTags : SUBSET Tags]

(* decisionFacts: quality is the outcome of hasQualitySignal.              *)
Facts == [score : 0 .. 5, hasAppeal : BOOLEAN, quality : BOOLEAN]

(* The part of decisionContext on which a grant depends; identified stands *)
(* for activity, user and product id, known for review and store id.       *)
Context == [known : BOOLEAN, identified : BOOLEAN, campaignActive : BOOLEAN,
            productEligible : BOOLEAN, userEligible : BOOLEAN,
            remainingStock : Int, remainingBudgetCent : Int,
            userGrantLimit : Int, userGrantedCount : Int]

ToManualReview(d, scene) ==
    [d EXCEPT !.action = "MANUAL_REVIEW", !.scene = scene, !.needHumanReview = TRUE,
              !.policyTags = @ \cup {"CURRENT_EVIDENCE_PRIORITY", "DECISION_GUARD"}]

Normalized(d) ==
    IF d.action = "SUGGEST_COUPON"
    THEN [d EXCEPT !.action = "GRANT_COUPON", !.policyTags = @ \cup {"SUGGEST_COUPON_NORMALIZED"}]
    ELSE d

(* The rules apply one after another, later ones to the result of earlier. *)
ApplyDecisionGuard(d, facts) ==
    LET d1 == Normalized(d)
        d2 == IF facts.hasAppeal THEN ToManualReview(d1, "DISPUTE_REVIEW") ELSE d1
        d3 == IF facts.score <= 2 /\ facts.quality
              THEN ToManualReview(d2, "HIGH_RISK_REVIEW") ELSE d2
    IN  [d3 EXCEPT !.needHumanReview = @ \/ d3.action = "MANUAL_REVIEW"]

(* Faulty variant: the user's quota is exceeded by one.                    *)
BadCampaignAllows(dc) ==
    /\ dc.campaignActive /\ dc.productEligible /\ dc.userEligible
    /\ dc.remainingStock > 0 /\ dc.remainingBudgetCent > 0
    /\ dc.userGrantLimit > 0 => dc.userGrantedCount <= dc.userGrantLimit

(* The campaign's constraints at the time its context was read; a limit    *)
(* that is not positive is no limit.                                       *)
CampaignAllows(dc) ==
    /\ dc.campaignActive /\ dc.productEligible /\ dc.userEligible
    /\ dc.remainingStock > 0 /\ dc.remainingBudgetCent > 0
    /\ dc.userGrantLimit > 0 => dc.userGrantedCount < dc.userGrantLimit

(* grantCouponIfNeeded up to the call: the execution status of a decision  *)
(* for which no grant is requested, "" otherwise.                          *)
Refusal(d, dc, serviceConfigured) ==
    CASE d.needHumanReview          -> "MANUAL_REVIEW"
      [] ~d.needHumanReview /\ d.action # "GRANT_COUPON" -> "REJECTED"
      [] ~d.needHumanReview /\ d.action = "GRANT_COUPON" /\ ~serviceConfigured -> "PROPOSED"
      [] OTHER -> IF dc.identified /\ CampaignAllows(dc) /\ d.scene = "MAPPED"
                  THEN "" ELSE "REJECTED"

ExecutionStatuses == {"MANUAL_REVIEW", "REJECTED", "PROPOSED", "GRANTED", "GRANT_FAILED"}

(* couponGrantOutcome.                                                     *)
Outcome == [attempted : BOOLEAN, success : BOOLEAN, status : ExecutionStatuses]

NotAttempted(status) == [attempted |-> FALSE, success |-> FALSE, status |-> status]

(* The call returned an error, whatever the service did.                   *)
GrantFailed == [attempted |-> TRUE, success |-> FALSE, status |-> "GRANT_FAILED"]

(* Faulty variant: any reply counts as a grant.                            *)
BadAnswered(success) == [attempted |-> TRUE, success |-> TRUE, status |-> "GRANTED"]

Answered(success) ==
    [attempted |-> TRUE, success |-> success, status |-> IF success THEN "GRANTED" ELSE "REJECTED"]

(* What the stored decision says about the grant.                          *)
DecisionWithCouponGrant(d, o) ==
    CASE d.action # "GRANT_COUPON" -> d
      [] d.action = "GRANT_COUPON" /\ ~o.attempted ->
            [d EXCEPT !.policyTags = @ \cup {"COUPON_GRANT_NOT_CONFIGURED"}]
      [] d.action = "GRANT_COUPON" /\ o.attempted /\ o.success ->
            [d EXCEPT !.policyTags = @ \cup {"COUPON_GRANTED"}]
      [] OTHER ->
            IF o.status = "REJECTED"
            THEN [d EXCEPT !.action = "NO_COUPON",
                           !.policyTags = @ \cup {"CAMPAIGN_CONSTRAINT_REJECTED", "COUPON_GRANT_FAILED"}]
            ELSE [d EXCEPT !.policyTags = @ \cup {"COUPON_GRANT_FAILED"}]
=============================================================================

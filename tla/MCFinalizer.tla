------------------------------ MODULE MCFinalizer ------------------------------
(* Instances of Finalizer for TLC.                                         *)
EXTENDS Finalizer

CONSTANTS f1, f2

Campaign(active, product, user, stock, budget, limit, count) ==
    [known |-> TRUE, identified |-> TRUE, campaignActive |-> active, productEligible |-> product,
     userEligible |-> user, remainingStock |-> stock, remainingBudgetCent |-> budget,
     userGrantLimit |-> limit, userGrantedCount |-> count]

Proposal(action, scene, human) ==
    [action |-> action, scene |-> scene, needHumanReview |-> human, policyTags |-> {}]

GoodReview == [score |-> 5, hasAppeal |-> FALSE, quality |-> FALSE]

OpenCampaign == Campaign(TRUE, TRUE, TRUE, 1, 1, 1, 0)

(* One decision to grant, one not to: enough for the interleavings.        *)
TwoInputs ==
    {[decision |-> Proposal(a, "MAPPED", FALSE), facts |-> GoodReview, context |-> OpenCampaign,
      configured |-> TRUE] : a \in {"GRANT_COUPON", "NO_COUPON"}}

(* Every decision on every review, and the boundaries of each constraint.  *)
Campaigns ==
    {Campaign(TRUE, TRUE, TRUE, s, b, l, n) : s \in 0 .. 1, b \in 0 .. 1, l \in 0 .. 2, n \in 0 .. 2}
    \cup {Campaign(a, p, u, 1, 1, 0, 0) : a \in BOOLEAN, p \in BOOLEAN, u \in BOOLEAN}
    \cup {[OpenCampaign EXCEPT !.known = FALSE], [OpenCampaign EXCEPT !.identified = FALSE]}

AllInputs ==
    {[decision |-> Proposal(a, s, h), facts |-> x, context |-> OpenCampaign,
      configured |-> y] :
        y \in BOOLEAN, a \in Actions, s \in {"MAPPED", "UNMAPPED"}, h \in BOOLEAN, x \in Facts}
    \cup {[decision |-> Proposal("GRANT_COUPON", "MAPPED", FALSE), facts |-> GoodReview,
           context |-> c, configured |-> TRUE] : c \in Campaigns}
=============================================================================

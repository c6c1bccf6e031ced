----------------------------- MODULE PromptBudget -----------------------------
(***************************************************************************)
(* How the history of an execution is cut down to the prompt's budget      *)
(* (internal/contextx).  A text is its length in runes.                    *)
(***************************************************************************)
EXTENDS Integers, Sequences

Budget == [maxPromptTokens : Nat, maxRecentSteps : Nat, maxSummaryChars : Nat]

(* The texts of a step; the tool's name also decides how much of its       *)
(* output is kept.                                                         *)
StepText(tools) == [tool : tools, action : Nat, toolName : Nat, arguments : Nat,
                    output : Nat, error : Nat]

ApproxTokens(text) == IF text = 0 THEN 0 ELSE text \div 4 + 1

(* A text that is cut has the length of the limit, with the marker or, if  *)
(* the limit is too short for it, without.                                 *)
TrimPromptText(text, limit) == IF limit > 0 /\ text > limit THEN limit ELSE text

OutputLimit(tool) ==
    CASE tool = "retrieve_rag"               -> 2600
      [] tool = "get_review_evidence"        -> 1800
      [] tool = "get_review_stats"           -> 1600
      [] tool \in {"store_decision", "llm"}  -> 1200
      [] OTHER                               -> 1000

CompactStepsForPrompt(steps) ==
    [i \in 1 .. Len(steps) |->
        [steps[i] EXCEPT !.arguments = TrimPromptText(@, 800),
                         !.error = TrimPromptText(@, 800),
                         !.output = TrimPromptText(@, OutputLimit(steps[i].tool))]]

StepTokens(step) ==
    ApproxTokens(step.action) + ApproxTokens(step.toolName) + ApproxTokens(step.arguments)
    + ApproxTokens(step.output) + ApproxTokens(step.error)

(* Tokens of the first n steps.                                            *)
TokensOf(steps, n) ==
    LET Total[i \in 0 .. n] == IF i = 0 THEN 0 ELSE Total[i - 1] + StepTokens(steps[i])
    IN  Total[n]

(* Faulty variant: an error, which only some steps have, is never taken    *)
(* off the estimate again.                                                 *)
BadShed(steps, estimated, limit) ==
    LET Left[i \in 0 .. Len(steps)] ==
            IF i = 0 THEN estimated
            ELSE Left[i - 1] - StepTokens([steps[i] EXCEPT !.error = 0])
        Removed[i \in 0 .. Len(steps)] ==
            IF i = Len(steps) \/ Left[i] <= limit THEN i ELSE Removed[i + 1]
    IN  [removed |-> Removed[0], estimated |-> Left[Removed[0]]]

(* The loop that removes the oldest step until the estimate is within the  *)
(* limit: how many steps go, and the estimate that is left.                *)
Shed(steps, estimated, limit) ==
    LET Left[i \in 0 .. Len(steps)] ==
            IF i = 0 THEN estimated ELSE Left[i - 1] - StepTokens(steps[i])
        Removed[i \in 0 .. Len(steps)] ==
            IF i = Len(steps) \/ Left[i] <= limit THEN i ELSE Removed[i + 1]
    IN  [removed |-> Removed[0], estimated |-> Left[Removed[0]]]

(* The number of steps to drop for the limit on their number; 0 is none.   *)
Overflow(steps, limit) == IF limit > 0 /\ Len(steps) > limit THEN Len(steps) - limit ELSE 0

Compose(summaryText, steps, task, budget) ==
    LET summary == TrimPromptText(summaryText, budget.maxSummaryChars)
        compact == CompactStepsForPrompt(steps)
        recent == SubSeq(compact, Overflow(steps, budget.maxRecentSteps) + 1, Len(steps))
        estimated == ApproxTokens(task) + ApproxTokens(summary) + TokensOf(recent, Len(recent))
        shed == IF budget.maxPromptTokens > 0
                THEN Shed(recent, estimated, budget.maxPromptTokens)
                ELSE [removed |-> 0, estimated |-> estimated]
        left == SubSeq(recent, shed.removed + 1, Len(recent))
    IN  [summary |-> summary, recentSteps |-> left, estimatedTokens |-> shed.estimated,
         truncated |-> Len(left) < Len(steps)]
=============================================================================

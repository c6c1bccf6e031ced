------------------------------ MODULE AgentLoop ------------------------------
(***************************************************************************)
(* One call of Agent.RunExecution (internal/agent/agent.go) with its       *)
(* session memory (internal/memory) and the tools it runs in parallel      *)
(* (internal/agent/parallel_tools.go).                                     *)
(*                                                                         *)
(* The language model is free to answer anything: it may ask for any tool  *)
(* and any review, answer too early or in a wrong form, or fail.  A tool   *)
(* may fail.  A read or write of the session in Redis may fail, and the    *)
(* session may expire or be evicted: these are counted by "faults" and     *)
(* bounded by MaxFaults.  The store remembers only the error of its last   *)
(* operation, and other executions of the process use the same store.  The *)
(* agent is deployed with a finalizer and a decision store.                *)
(*                                                                         *)
(* A step record is reduced to the tool, its success, the review it is     *)
(* about and whether it is a degraded observation; how long its texts are  *)
(* depends on the setting.  The summary of dropped records feeds only the  *)
(* prompt and is reduced to a length, one of those the setting allows.     *)
(***************************************************************************)
EXTENDS CouponDecision, PromptBudget, FiniteSetsExt

CONSTANTS
    Reviews,         \* reviews the model may ask about
    Appealed,        \* reviews whose evidence shows an appeal
    Eligible,        \* reviews whose user and product the campaign accepts
    Settings,        \* configurations an instance may run with: the tools it
                     \* registers, maxSteps, the window of the session, the
                     \* budget of the prompt and the lengths of the texts
    MaxFaults,
    NoReview         \* an observation that names no review

ToolNames == {"get_review_evidence", "get_review_stats", "retrieve_rag", "get_campaign_context"}

(* Lengths of the task, the summary and what a tool or the guard writes.   *)
Texts == [task : Nat, summary : SUBSET Nat, arguments : Nat, output : Nat, error : Nat]

ASSUME AgentAssumption ==
    /\ Appealed \subseteq Reviews /\ Eligible \subseteq Reviews
    /\ Settings \subseteq [tools : SUBSET ToolNames, maxSteps : Nat \ {0},
                          maxRecentSteps : Nat \ {0}, budget : Budget, texts : Texts]
    /\ MaxFaults \in Nat
    /\ NoReview \notin Reviews

VARIABLES
    setting,   \* the configuration of this instance
    memory,    \* RecentSteps stored for this execution
    lastErr,   \* RedisStore.lastErr is not nil
    run,       \* the state of the call
    todo,      \* records the call is about to append
    grant,     \* what Finalize asked the coupon service for
    lostWrite, \* an AppendStep or Save of this call has failed
    faults

vars == <<setting, memory, lastErr, run, todo, grant, lostWrite, faults>>

MaxSteps == setting.maxSteps
MaxRecentSteps == setting.maxRecentSteps

(* A record of the session; tool_call records with an empty Error are ok.  *)
StepRecord == [tool : ToolNames \cup {"agent_guard", "llm", "store_decision"},
               ok : BOOLEAN, review : Reviews \cup {NoReview}, degraded : BOOLEAN]

ToolRecord(tool, ok, review, degraded) ==
    [tool |-> tool, ok |-> ok, review |-> review, degraded |-> degraded]

Correction == ToolRecord("agent_guard", FALSE, NoReview, FALSE)

Stages == {"collect_review_evidence", "collect_es_statistics", "collect_rag_history",
           "collect_campaign_context", "decision_ready"}

Results == {"none", "completed", "incomplete", "error"}

Run == [pc : {"boot", "check", "stage", "chat", "final", "append", "report", "end"},
        after : {"check", "report"}, stepNo : 1 .. MaxSteps + 1, stage : Stages,
        stored : BOOLEAN, result : Results]

(* What a grant was requested for, and the campaign observation behind it. *)
NoGrant == [review |-> NoReview, campaign |-> NoReview, degraded |-> FALSE]

TypeOK ==
    /\ setting \in Settings
    /\ memory \in Seq(StepRecord) /\ Len(memory) <= MaxRecentSteps
    /\ lastErr \in BOOLEAN
    /\ run \in Run
    /\ todo \in Seq(StepRecord)
    /\ grant \in [review : Reviews \cup {NoReview}, campaign : Reviews \cup {NoReview},
                  degraded : BOOLEAN]
    /\ lostWrite \in BOOLEAN
    /\ faults \in 0 .. MaxFaults

Init ==
    /\ setting \in Settings
    /\ memory = << >>
    /\ lastErr = FALSE
    /\ run \in [pc : {"boot"}, after : {"check"}, stepNo : {1}, stage : {"collect_review_evidence"},
               stored : {FALSE}, result : {"none"}]
    /\ todo = << >>
    /\ grant = NoGrant
    /\ lostWrite = FALSE
    /\ faults = 0

-----------------------------------------------------------------------------
(* Session memory.                                                         *)

Fault == faults < MaxFaults /\ faults' = faults + 1

(* Only the latest MaxRecentSteps records stay; the rest go to the summary. *)
NormalizeState(steps) ==
    IF Len(steps) <= MaxRecentSteps THEN steps
    ELSE SubSeq(steps, Len(steps) - MaxRecentSteps + 1, Len(steps))

(* Load leaves its own outcome in lastErr; a failed one finds nothing.     *)
Load(history) ==
    \/ history = memory /\ lastErr' = FALSE /\ UNCHANGED faults
    \/ history = << >> /\ lastErr' = TRUE /\ Fault

(* Save, of a session that was loaded at the cost of "spent" faults.       *)
SaveAfter(steps, spent) ==
    \/ /\ memory' = NormalizeState(steps)
       /\ lastErr' = FALSE
       /\ faults + spent <= MaxFaults
       /\ faults' = faults + spent
       /\ UNCHANGED lostWrite
    \/ /\ memory' \in {memory, NormalizeState(steps)}   \* the reply may be lost
       /\ lastErr' = TRUE
       /\ faults + spent < MaxFaults
       /\ faults' = faults + spent + 1
       /\ lostWrite' = TRUE

(* RedisStore.AppendStep: a session that cannot be loaded is begun anew,   *)
(* and the Save that follows overwrites the error of the Load.             *)
AppendStep ==
    /\ run.pc = "append"
    /\ todo # << >>
    /\ \/ SaveAfter(Append(memory, Head(todo)), 0)
       \/ SaveAfter(<<Head(todo)>>, 1)
    /\ todo' = Tail(todo)
    /\ UNCHANGED <<run, grant>>

Appended ==
    /\ run.pc = "append"
    /\ todo = << >>
    /\ run' = [run EXCEPT !.pc = run.after]
    /\ UNCHANGED <<memory, lastErr, todo, grant, lostWrite, faults>>

(* SessionTTL ends, or InMemoryStore evicts the session.                   *)
LoseSession ==
    /\ memory # << >>
    /\ Fault
    /\ memory' = << >>
    /\ UNCHANGED <<lastErr, run, todo, grant, lostWrite>>

(* Another execution of this process uses the store.                       *)
OtherExecution ==
    /\ run.pc # "end"
    /\ \/ lastErr /\ lastErr' = FALSE /\ UNCHANGED faults
       \/ ~lastErr /\ lastErr' = TRUE /\ Fault
    /\ UNCHANGED <<memory, run, todo, grant, lostWrite>>

-----------------------------------------------------------------------------
(* The loop.                                                               *)

Ends(result) == run' = [run EXCEPT !.pc = "end", !.result = result]

(* Faulty variant: a step does not count against maxSteps.                 *)
BadNextStep(records) ==
    /\ todo' = records
    /\ run' = [run EXCEPT !.pc = "append", !.after = "check"]

(* The records are appended, then the loop goes on with the next step.     *)
NextStep(records) ==
    /\ todo' = records
    /\ run' = [run EXCEPT !.pc = "append", !.after = "check", !.stepNo = @ + 1]

(* bootstrapExecution.                                                     *)
Bootstrap ==
    /\ run.pc = "boot"
    /\ SaveAfter(<< >>, 0)
    /\ run' = [run EXCEPT !.pc = "check"]
    /\ UNCHANGED <<todo, grant>>

(* memoryError at the head of the loop and after it.                       *)
CheckMemory ==
    /\ run.pc = "check"
    /\ \/ lastErr /\ Ends("error")
       \/ ~lastErr /\ run.stepNo > MaxSteps /\ Ends("incomplete")
       \/ ~lastErr /\ run.stepNo <= MaxSteps /\ run' = [run EXCEPT !.pc = "stage"]
    /\ UNCHANGED <<memory, lastErr, todo, grant, lostWrite, faults>>

(* Positions of the tool's successful records.                             *)
Successes(history, tool) ==
    {i \in 1 .. Len(history) : history[i].tool = tool /\ history[i].ok}

Has(history, tool) == Successes(history, tool) # {}

WorkflowStage(history) ==
    CASE ~Has(history, "get_review_evidence")  -> "collect_review_evidence"
      [] Has(history, "get_review_evidence") /\ ~Has(history, "get_review_stats")
            -> "collect_es_statistics"
      [] /\ Has(history, "get_review_evidence") /\ Has(history, "get_review_stats")
         /\ ~Has(history, "retrieve_rag")
            -> "collect_rag_history"
      [] OTHER -> IF Has(history, "get_campaign_context") THEN "decision_ready"
                  ELSE "collect_campaign_context"

NameLength(tool) ==
    CASE tool = "get_review_evidence"  -> 19 [] tool = "get_review_stats"     -> 16
      [] tool = "retrieve_rag"         -> 12 [] tool = "get_campaign_context" -> 20
      [] tool = "agent_guard"          -> 11 [] tool = "llm"                  -> 3
      [] tool = "store_decision"       -> 14

(* The texts of a record before a final answer: a tool call, which has an  *)
(* output or an error, or a correction, which has both and no arguments.   *)
TextOf(s) ==
    [tool |-> s.tool, toolName |-> NameLength(s.tool),
     action |-> IF s.tool = "agent_guard" THEN 10 ELSE 9,
     arguments |-> IF s.tool = "agent_guard" THEN 0 ELSE setting.texts.arguments,
     output |-> IF s.ok \/ s.tool = "agent_guard" THEN setting.texts.output ELSE 0,
     error |-> IF s.ok THEN 0 ELSE setting.texts.error]

TextsOf(history) == [i \in 1 .. Len(history) |-> TextOf(history[i])]

(* The prompt made of a view of the session with a summary of that length. *)
BuildPromptContext(view, summary) ==
    Compose(summary, TextsOf(view), setting.texts.task, setting.budget)

(* workflowHistory decides the stage and buildPromptContext loads once     *)
(* more: either may find nothing because Redis fails, and only an error of *)
(* the second is seen.  The prompt goes to the model, which may answer     *)
(* anything, and nowhere else.                                             *)
ReadStage ==
    /\ run.pc = "stage"
    /\ \E first, second \in BOOLEAN :
          /\ IF first /\ second THEN UNCHANGED faults ELSE Fault
          /\ lastErr' = ~second
          /\ run' = [run EXCEPT !.pc = "chat",
                        !.stage = WorkflowStage(IF first THEN memory ELSE << >>)]
    /\ UNCHANGED <<memory, todo, grant, lostWrite>>

RequiredTool(stage) ==
    CASE stage = "collect_review_evidence"  -> "get_review_evidence"
      [] stage = "collect_es_statistics"    -> "get_review_stats"
      [] stage = "collect_rag_history"      -> "retrieve_rag"
      [] stage = "collect_campaign_context" -> "get_campaign_context"
      [] stage = "decision_ready"           -> ""

(* Faulty variant: the model may call any tool at any stage.               *)
BadToolAllowed(stage, tool) == TRUE

ToolAllowed(stage, tool) == RequiredTool(stage) = tool

(* The call or the parsing of the answer fails.                            *)
ChatFails ==
    /\ run.pc = "chat"
    /\ Ends("error")
    /\ UNCHANGED <<memory, lastErr, todo, grant, lostWrite, faults>>

(* A final answer too early, a tool out of turn, or an unknown type.       *)
Correct ==
    /\ run.pc = "chat"
    /\ NextStep(<<Correction>>)
    /\ UNCHANGED <<memory, lastErr, grant, lostWrite, faults>>

(* The fallback observation of a tool that fails or is not registered.     *)
Fallback(tool, review) == ToolRecord(tool, TRUE, review, TRUE)

(* runStatsRAGAndCampaignAfterEvidence: three tools run concurrently, and  *)
(* their results, degraded or not, are appended in a fixed order.          *)
AutoTools(review) ==
    LET Observations(tool) == (IF tool \in setting.tools
                               THEN {ToolRecord(tool, TRUE, review, FALSE)} ELSE {})
                              \cup {Fallback(tool, review)}
    IN  {<<s, r, c>> : s \in Observations("get_review_stats"),
                       r \in Observations("retrieve_rag"),
                       c \in Observations("get_campaign_context")}

(* executeTool; evidence that names review and store starts the others.    *)
CallTool(tool, review) ==
    /\ run.pc = "chat"
    /\ ToolAllowed(run.stage, tool)
    /\ \/ /\ tool \notin setting.tools
          /\ NextStep(<< >>)
       \/ /\ tool \in setting.tools
          /\ NextStep(<<ToolRecord(tool, FALSE, NoReview, FALSE)>>)
       \/ /\ tool \in setting.tools
          /\ IF tool = "get_review_evidence" /\ review # NoReview
             THEN \E results \in AutoTools(review) :
                     NextStep(<<ToolRecord(tool, TRUE, review, FALSE)>> \o results)
             ELSE NextStep(<<ToolRecord(tool, TRUE, review, FALSE)>>)
    /\ UNCHANGED <<memory, lastErr, grant, lostWrite, faults>>

AcceptFinal ==
    /\ run.pc = "chat"
    /\ run.stage = "decision_ready"
    /\ run' = [run EXCEPT !.pc = "final"]
    /\ UNCHANGED <<memory, lastErr, todo, grant, lostWrite, faults>>

-----------------------------------------------------------------------------
(* Finalizing.                                                             *)

Evidence(history) ==
    {i \in Successes(history, "get_review_evidence") : history[i].review # NoReview}

(* extractDecisionContext: the first review named by evidence, the last    *)
(* campaign observation.                                                   *)
ReviewOf(history) ==
    IF Evidence(history) = {} THEN NoReview ELSE history[Min(Evidence(history))].review

CampaignOf(history) ==
    LET seen == Successes(history, "get_campaign_context")
    IN  IF seen = {} THEN ToolRecord("get_campaign_context", FALSE, NoReview, TRUE)
        ELSE history[Max(seen)]

(* Faulty variant: a campaign that could not be read counts as active.     *)
BadExtractContext(history) ==
    [known |-> ReviewOf(history) # NoReview, identified |-> ReviewOf(history) # NoReview,
     campaignActive |-> TRUE, productEligible |-> CampaignOf(history).review \in Eligible,
     userEligible |-> CampaignOf(history).review \in Eligible,
     remainingStock |-> 1, remainingBudgetCent |-> 1,
     userGrantLimit |-> 0, userGrantedCount |-> 0]

(* The campaign's constraints; one that could not be read has none of them. *)
ExtractContext(history) ==
    LET c == CampaignOf(history)
        ok == ~c.degraded /\ c.review \in Eligible
    IN  [known |-> ReviewOf(history) # NoReview, identified |-> ReviewOf(history) # NoReview,
         campaignActive |-> ~c.degraded, productEligible |-> ok, userEligible |-> ok,
         remainingStock |-> IF c.degraded THEN 0 ELSE 1,
         remainingBudgetCent |-> IF c.degraded THEN 0 ELSE 1,
         userGrantLimit |-> 0, userGrantedCount |-> 0]

(* Faulty variant: the last evidence alone decides about an appeal.        *)
BadExtractFacts(history) ==
    [score |-> 5, quality |-> FALSE,
     hasAppeal |-> /\ Evidence(history) # {}
                   /\ history[Max(Evidence(history))].review \in Appealed]

(* extractDecisionFacts: an appeal in any evidence counts.                 *)
ExtractFacts(history) ==
    [score |-> 5, quality |-> FALSE,
     hasAppeal |-> \E i \in Evidence(history) : history[i].review \in Appealed]

(* The model's final decision, after the guard, and the history it is      *)
(* finalized on: Finalize asks for a grant where nothing speaks against    *)
(* it, and stores the decision or fails.  Without a review, or without the *)
(* decision lock, it does neither.                                         *)
Finalize ==
    /\ run.pc = "final"
    /\ \E history \in {memory, << >>}, action \in {"GRANT_COUPON", "NO_COUPON"},
          locked, stored \in BOOLEAN :
          LET proposed == [action |-> action, scene |-> "MAPPED", needHumanReview |-> FALSE,
                           policyTags |-> {}]
              d == ApplyDecisionGuard(proposed, ExtractFacts(history))
              dc == ExtractContext(history)
          IN  /\ Load(history)
              /\ stored => dc.known /\ locked
              /\ grant' = IF dc.known /\ locked /\ Refusal(d, dc, TRUE) = ""
                          THEN [review |-> ReviewOf(history),
                                campaign |-> CampaignOf(history).review,
                                degraded |-> CampaignOf(history).degraded]
                          ELSE NoGrant
              /\ run' = [run EXCEPT !.pc = "append", !.after = "report", !.stored = stored]
              /\ todo' = <<ToolRecord("llm", TRUE, NoReview, FALSE),
                           ToolRecord("store_decision", stored, NoReview, FALSE)>>
    /\ UNCHANGED <<memory, lostWrite>>

(* Faulty variant: a decision that was not stored is another step of the   *)
(* loop instead of an error.                                               *)
BadReport ==
    /\ run.pc = "report"
    /\ \/ lastErr /\ Ends("error")
       \/ ~lastErr /\ run.stored /\ Ends("completed")
       \/ ~lastErr /\ ~run.stored /\ run' = [run EXCEPT !.pc = "check", !.stepNo = @ + 1]
    /\ UNCHANGED <<memory, lastErr, todo, grant, lostWrite, faults>>

(* The error of the store step, then memoryError, then the result.         *)
Report ==
    /\ run.pc = "report"
    /\ IF ~run.stored \/ lastErr THEN Ends("error") ELSE Ends("completed")
    /\ UNCHANGED <<memory, lastErr, todo, grant, lostWrite, faults>>

-----------------------------------------------------------------------------
Step ==
    \/ Bootstrap \/ CheckMemory \/ ReadStage \/ AcceptFinal \/ Correct \/ ChatFails
    \/ \E tool \in ToolNames, review \in Reviews \cup {NoReview} : CallTool(tool, review)
    \/ Finalize \/ AppendStep \/ Appended \/ Report

Next == (Step \/ LoseSession \/ OtherExecution) /\ UNCHANGED setting

Spec == Init /\ [][Next]_vars

FairSpec == Spec /\ WF_vars(Step /\ UNCHANGED setting)

-----------------------------------------------------------------------------
(* Safety.                                                                 *)

(* No coupon is asked for a review under appeal, not even when a failed    *)
(* read of the session has made the loop collect the evidence of two       *)
(* reviews.                                                                *)
AppealRespected == grant.review \notin Appealed

(* A campaign that could not be read never leads to a grant.               *)
NoGrantOnFallback == ~grant.degraded

(* Without memory failures, the campaign's answer behind a grant is about  *)
(* the review that earns it, even after the window has dropped records and *)
(* the evidence of another review was collected.                           *)
CampaignOfReview == faults = 0 => grant.review = grant.campaign

(* The model is shown the latest records, as many as both limits of the    *)
(* budget allow and not one less, and the estimate is that of what it is   *)
(* shown: the removals take off the running sum what the records had added *)
(* to it.                                                                  *)
PromptIsLongestTail ==
    run.pc = "stage" =>
        \A summary \in setting.texts.summary :
            LET prompt == BuildPromptContext(memory, summary)
                shown == Len(prompt.recentSteps)
                steps == CompactStepsForPrompt(TextsOf(memory))
                Latest(n) == SubSeq(steps, Len(steps) - n + 1, Len(steps))
                Estimate(n) == ApproxTokens(setting.texts.task) + ApproxTokens(prompt.summary)
                               + TokensOf(Latest(n), n)
                Fits(n) == /\ setting.budget.maxRecentSteps \notin 1 .. n - 1
                           /\ \/ setting.budget.maxPromptTokens = 0
                              \/ Estimate(n) <= setting.budget.maxPromptTokens
            IN  /\ prompt.recentSteps = Latest(shown)
                /\ prompt.estimatedTokens = Estimate(shown)
                /\ shown = 0 \/ Fits(shown)
                /\ \A n \in shown + 1 .. Len(steps) : ~Fits(n)
                /\ prompt.truncated <=> shown < Len(steps)

(* A grant is asked for at most once in an execution, and nothing but the  *)
(* report follows it: the loop never goes on after the money has moved.    *)
GrantEndsLoop ==
    [][grant # NoGrant => grant' = grant /\ run'.pc \in {"append", "report", "end"}
                          /\ run'.stepNo = run.stepNo]_vars

(* The loop ends, whatever the model answers.                              *)
Terminates == <>(run.pc = "end")

(* The inductive strengthening: a step beyond maxSteps is never begun, and *)
(* what follows a grant leads to the report.                               *)
LoopInv ==
    /\ TypeOK
    /\ run.pc \in {"stage", "chat", "final"} => run.stepNo <= MaxSteps
    /\ grant # NoGrant => /\ run.pc \in {"append", "report", "end"}
                          /\ run.pc = "append" => run.after = "report"
    /\ AppealRespected
    /\ NoGrantOnFallback

(* Behind every evidence that names a review there is a campaign's answer, *)
(* and all of them are about that review.  A window that drops the oldest  *)
(* records keeps it so: the evidence goes before the answers behind it.    *)
CampaignFollows(steps) ==
    \A i \in Evidence(steps) :
        LET later == {k \in Successes(steps, "get_campaign_context") : k > i}
        IN  later # {} /\ \A k \in later : steps[k].review = steps[i].review

(* The strengthening of CampaignOfReview: without memory failures the      *)
(* model's turn is at the stage of the stored session, and the session     *)
(* with the records about to be appended has its campaigns in place.       *)
SessionInv ==
    /\ run.pc # "append" => todo = << >>
    /\ faults = 0 =>
          /\ run.pc = "chat" => run.stage = WorkflowStage(memory)
          /\ CampaignFollows(memory \o todo)
    /\ CampaignOfReview

-----------------------------------------------------------------------------
(* An expectation of the repository's corpus that the code does not meet.  *)

(* "no_success_report_without_memory" (NEG-016 of the evaluation corpus):  *)
(* an execution that could not write its memory does not report success.   *)
NoSuccessWithoutMemory == run.result = "completed" => ~lostWrite
=============================================================================

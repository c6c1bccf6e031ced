---------------------------- MODULE AgentLoopProofs ----------------------------
(* What an execution may ask the coupon service for, for any reviews,      *)
(* settings and faults, whatever the language model answers; what the      *)
(* session says about campaigns, and what of it the model is shown.        *)
EXTENDS AgentLoop, WellFoundedInduction, SequenceTheorems, TLAPS

-----------------------------------------------------------------------------
(* The session.                                                            *)

LEMMA NormalizeType ==
    ASSUME setting \in Settings, NEW steps \in Seq(StepRecord)
    PROVE  /\ NormalizeState(steps) \in Seq(StepRecord)
           /\ Len(NormalizeState(steps)) <= MaxRecentSteps
<1>1. MaxRecentSteps \in Nat \ {0} /\ Len(steps) \in Nat
    BY AgentAssumption DEF MaxRecentSteps
<1>2. CASE Len(steps) <= MaxRecentSteps
    BY <1>2 DEF NormalizeState
<1>3. CASE ~(Len(steps) <= MaxRecentSteps)
    <2> DEFINE m == Len(steps) - MaxRecentSteps + 1
               n == Len(steps)
    <2>1. m \in 1 .. n /\ n \in 1 .. Len(steps) /\ n - m + 1 = MaxRecentSteps /\ m <= n
        BY <1>1, <1>3
    <2>2. NormalizeState(steps) = SubSeq(steps, m, n)
        BY <1>3 DEF NormalizeState
    <2> HIDE DEF m, n
    <2>3. SubSeq(steps, m, n) \in Seq(StepRecord) /\ Len(SubSeq(steps, m, n)) = n - m + 1
        BY <2>1, SubSeqProperties
    <2> QED
        BY <1>1, <2>1, <2>2, <2>3
<1> QED
    BY <1>2, <1>3

LEMMA SaveType ==
    ASSUME TypeOK, NEW steps \in Seq(StepRecord), NEW spent \in {0, 1}, SaveAfter(steps, spent)
    PROVE  /\ memory' \in Seq(StepRecord) /\ Len(memory') <= MaxRecentSteps
           /\ lastErr' \in BOOLEAN /\ lostWrite' \in BOOLEAN /\ faults' \in 0 .. MaxFaults
<1>1. /\ memory' \in {memory, NormalizeState(steps)}
      /\ lastErr' \in BOOLEAN /\ lostWrite' \in BOOLEAN
    BY DEF SaveAfter, TypeOK
<1>2. faults' \in 0 .. MaxFaults
    BY AgentAssumption DEF SaveAfter, TypeOK
<1> QED
    BY <1>1, <1>2, NormalizeType DEF TypeOK

LEMMA FaultType ==
    ASSUME TypeOK, Fault \/ UNCHANGED faults
    PROVE  faults' \in 0 .. MaxFaults
    BY AgentAssumption DEF TypeOK, Fault

-----------------------------------------------------------------------------
(* Decisions.                                                              *)

LEMMA MinProperties ==
    ASSUME NEW E \in SUBSET Nat, E # {}
    PROVE  Min(E) \in E /\ \A y \in E : Min(E) <= y
<1> DEFINE R == OpToRel(<, Nat)
<1>1. IsWellFoundedOn(R, Nat)
    BY NatLessThanWellFounded
<1>2. \A x, y \in Nat : <<y, x>> \in R <=> y < x
    BY DEF OpToRel
<1> HIDE DEF R
<1>3. \E x \in E : \A y \in E : <<y, x>> \notin R
    BY <1>1, WFMin
<1>4. PICK x \in E : \A y \in E : <<y, x>> \notin R
    BY <1>3
<1>5. \A y \in E : x <= y
    <2> SUFFICES ASSUME NEW y \in E PROVE x <= y
        OBVIOUS
    <2>1. x \in Nat /\ y \in Nat /\ ~(y < x)
        BY <1>2, <1>4
    <2> QED
        BY <2>1
<1> QED
    BY <1>5 DEF Min

(* The largest position is the one at the smallest distance from the end.  *)
LEMMA MaxProperties ==
    ASSUME NEW n \in Nat, NEW E \in SUBSET (1 .. n), E # {}
    PROVE  Max(E) \in E /\ \A y \in E : y <= Max(E)
<1> DEFINE D == {n - x : x \in E}
<1>1. \A x \in E : x \in Nat /\ n - x \in Nat
    OBVIOUS
<1>2. D \in SUBSET Nat /\ D # {}
    BY <1>1
<1>3. PICK x \in E : n - x = Min(D)
    BY <1>2, MinProperties
<1>4. \A y \in E : y <= x
    <2> SUFFICES ASSUME NEW y \in E PROVE y <= x
        OBVIOUS
    <2>1. n - x <= n - y
        BY <1>2, <1>3, MinProperties
    <2> QED
        BY <1>1, <2>1
<1> QED
    BY <1>4 DEF Max

(* The review a decision is about is one the session has evidence of.      *)
LEMMA ReviewHasEvidence ==
    ASSUME NEW history \in Seq(StepRecord), ReviewOf(history) # NoReview
    PROVE  \E i \in Evidence(history) : history[i].review = ReviewOf(history)
<1> DEFINE E == Evidence(history)
<1>1. E \in SUBSET Nat /\ E # {} /\ ReviewOf(history) = history[Min(E)].review
    BY DEF Evidence, Successes, ReviewOf
<1> QED
    BY <1>1, MinProperties

LEMMA ContextTypes ==
    ASSUME NEW history \in Seq(StepRecord)
    PROVE  /\ ReviewOf(history) \in Reviews \cup {NoReview}
           /\ ExtractContext(history).known <=> ReviewOf(history) # NoReview
<1>1. ReviewOf(history) \in Reviews \cup {NoReview}
    <2>1. \A i \in Evidence(history) : history[i] \in StepRecord
        BY DEF Evidence, Successes
    <2> QED
        BY <2>1, ReviewHasEvidence DEF StepRecord
<1>2. ExtractContext(history).known <=> ReviewOf(history) # NoReview
    BY DEF ExtractContext
<1> QED
    BY <1>1, <1>2

(* A campaign observation that was read is a record of the session.        *)
LEMMA CampaignType ==
    ASSUME NEW history \in Seq(StepRecord), ~CampaignOf(history).degraded
    PROVE  CampaignOf(history) \in StepRecord
<1> DEFINE seen == Successes(history, "get_campaign_context")
<1>1. seen # {} /\ CampaignOf(history) = history[Max(seen)]
    BY DEF CampaignOf, ToolRecord
<1>2. seen \in SUBSET (1 .. Len(history)) /\ Len(history) \in Nat
    BY DEF Successes
<1>3. Max(seen) \in seen
    BY <1>1, <1>2, MaxProperties
<1> QED
    BY <1>1, <1>2, <1>3

(* An appeal turns every decision into one for a human.                    *)
LEMMA AppealIsManual ==
    ASSUME NEW action \in {"GRANT_COUPON", "NO_COUPON"}, NEW facts, NEW dc,
           facts.hasAppeal, facts.score = 5
    PROVE  LET proposed == [action |-> action, scene |-> "MAPPED", needHumanReview |-> FALSE,
                            policyTags |-> {}]
           IN  Refusal(ApplyDecisionGuard(proposed, facts), dc, TRUE) # ""
<1> DEFINE p == [action |-> action, scene |-> "MAPPED", needHumanReview |-> FALSE,
                 policyTags |-> {}]
           d == ApplyDecisionGuard(p, facts)
           d2 == ToManualReview(p, "DISPUTE_REVIEW")
<1>1. Normalized(p) = p
    BY DEF Normalized
<1>2. ~(facts.score <= 2)
    OBVIOUS
<1>3. d = [d2 EXCEPT !.needHumanReview = @ \/ d2.action = "MANUAL_REVIEW"]
    BY <1>1, <1>2, Zenon DEF ApplyDecisionGuard
<1>4. DOMAIN d2 = {"action", "scene", "needHumanReview", "policyTags"} /\ d2.needHumanReview = TRUE
    BY DEF ToManualReview
<1> HIDE DEF d2, d
<1>5. d.needHumanReview = TRUE
    BY <1>3, <1>4
<1> QED
    BY <1>5 DEF Refusal, d

(* A grant is asked for only under a campaign that was read.               *)
LEMMA GrantNeedsCampaign ==
    ASSUME NEW history, NEW d, Refusal(d, ExtractContext(history), TRUE) = ""
    PROVE  ~CampaignOf(history).degraded
<1>1. CampaignAllows(ExtractContext(history))
    BY DEF Refusal
<1> QED
    BY <1>1 DEF CampaignAllows, ExtractContext

-----------------------------------------------------------------------------
(* Steps of the loop.                                                      *)

LEMMA RunTypes ==
    ASSUME TypeOK
    PROVE  /\ MaxSteps \in Nat \ {0} /\ run.stepNo \in 1 .. MaxSteps + 1
           /\ \A pc \in {"boot", "check", "stage", "chat", "final", "append", "report", "end"} :
                 [run EXCEPT !.pc = pc] \in Run
           /\ \A result \in Results : [run EXCEPT !.pc = "end", !.result = result] \in Run
           /\ run.after \in {"check", "report"}
    BY AgentAssumption DEF TypeOK, Run, MaxSteps

(* The parts of LoopInv that concern a step without a new grant.           *)
LEMMA SameGrant ==
    ASSUME LoopInv, UNCHANGED <<setting, grant>>, TypeOK',
           run'.pc \in {"stage", "chat", "final"} => run'.stepNo <= MaxSteps,
           grant # NoGrant => /\ run'.pc \in {"append", "report", "end"}
                              /\ run'.pc = "append" => run'.after = "report"
    PROVE  LoopInv'
    BY DEF LoopInv, AppealRespected, NoGrantOnFallback, MaxSteps

(* A step of the model's turn: the records it adds are appended next.      *)
LEMMA NextStepInv ==
    ASSUME LoopInv, run.pc = "chat", NEW records \in Seq(StepRecord), NextStep(records),
           UNCHANGED <<setting, memory, lastErr, grant, lostWrite, faults>>
    PROVE  LoopInv'
<1>1. /\ MaxSteps \in Nat \ {0} /\ run.stepNo \in 1 .. MaxSteps + 1
      /\ run \in Run /\ todo' = records
    BY RunTypes DEF LoopInv, TypeOK, NextStep
<1>2. run.stepNo <= MaxSteps /\ grant = NoGrant
    BY DEF LoopInv
<1>3. run.stepNo + 1 \in 1 .. MaxSteps + 1
    BY <1>1, <1>2
<1>4. run' \in Run /\ run'.pc = "append" /\ run'.after = "check"
    BY <1>1, <1>3 DEF NextStep, Run
<1>5. TypeOK'
    BY <1>1, <1>4 DEF LoopInv, TypeOK, Run, MaxSteps, MaxRecentSteps
<1> QED
    BY <1>2, <1>4, <1>5, SameGrant

LEMMA RecordTypes ==
    ASSUME NEW tool \in ToolNames \cup {"agent_guard", "llm", "store_decision"},
           NEW review \in Reviews \cup {NoReview}
    PROVE  /\ \A ok, degraded \in BOOLEAN : ToolRecord(tool, ok, review, degraded) \in StepRecord
           /\ ToolRecord(tool, TRUE, review, FALSE) \in StepRecord
           /\ ToolRecord(tool, FALSE, review, FALSE) \in StepRecord
           /\ ToolRecord(tool, TRUE, review, TRUE) \in StepRecord
    BY DEF ToolRecord, StepRecord

LEMMA RecordSeqs ==
    /\ << >> \in Seq(StepRecord)
    /\ \A a \in StepRecord : <<a>> \in Seq(StepRecord)
    /\ \A a, b \in StepRecord : <<a, b>> \in Seq(StepRecord)
    /\ \A a, b, c \in StepRecord : <<a, b, c>> \in Seq(StepRecord)
    OBVIOUS

LEMMA AutoTypes ==
    ASSUME NEW review \in Reviews \cup {NoReview}
    PROVE  AutoTools(review) \subseteq Seq(StepRecord)
<1> SUFFICES ASSUME NEW results \in AutoTools(review) PROVE results \in Seq(StepRecord)
    OBVIOUS
<1>1. ASSUME NEW tool \in ToolNames
      PROVE  /\ ToolRecord(tool, TRUE, review, FALSE) \in StepRecord
             /\ Fallback(tool, review) \in StepRecord
    BY RecordTypes DEF Fallback
<1> DEFINE O(tool) == (IF tool \in setting.tools
                      THEN {ToolRecord(tool, TRUE, review, FALSE)} ELSE {})
                     \cup {Fallback(tool, review)}
<1>2. \A tool \in ToolNames : O(tool) \subseteq StepRecord
    BY <1>1, Zenon
<1>3. AutoTools(review) = {<<s, r, c>> : s \in O("get_review_stats"), r \in O("retrieve_rag"),
                                         c \in O("get_campaign_context")}
    BY DEF AutoTools
<1> HIDE DEF O
<1>4. \E a, b, c \in StepRecord : results = <<a, b, c>>
    BY <1>2, <1>3 DEF ToolNames
<1> QED
    BY <1>4, RecordSeqs

LEMMA CallToolInv ==
    ASSUME LoopInv, NEW tool \in ToolNames, NEW review \in Reviews \cup {NoReview},
           CallTool(tool, review), UNCHANGED setting
    PROVE  LoopInv'
<1> DEFINE done == <<ToolRecord(tool, TRUE, review, FALSE)>>
           failed == <<ToolRecord(tool, FALSE, NoReview, FALSE)>>
<1>1. done \in Seq(StepRecord) /\ failed \in Seq(StepRecord) /\ << >> \in Seq(StepRecord)
    <2>1. /\ ToolRecord(tool, TRUE, review, FALSE) \in StepRecord
          /\ ToolRecord(tool, FALSE, NoReview, FALSE) \in StepRecord
        BY RecordTypes
    <2> QED
        BY <2>1, RecordSeqs, Zenon
<1> HIDE DEF done, failed
<1>2. \A results \in AutoTools(review) : done \o results \in Seq(StepRecord)
    BY <1>1, AutoTypes
<1>3. \E records \in Seq(StepRecord) : NextStep(records)
    BY <1>1, <1>2 DEF CallTool, done, failed
<1>4. run.pc = "chat" /\ UNCHANGED <<setting, memory, lastErr, grant, lostWrite, faults>>
    BY DEF CallTool
<1> QED
    BY <1>3, <1>4, NextStepInv

LEMMA CorrectInv ==
    ASSUME LoopInv, Correct, UNCHANGED setting
    PROVE  LoopInv'
<1>1. Correction \in StepRecord
    BY DEF Correction, ToolRecord, StepRecord
<1>2. <<Correction>> \in Seq(StepRecord)
    BY <1>1
<1> QED
    BY <1>2, NextStepInv DEF Correct

(* Steps that change only the point the call has reached.                  *)
LEMMA ControlInv ==
    ASSUME LoopInv, UNCHANGED setting, CheckMemory \/ ChatFails \/ AcceptFinal \/ Appended \/ Report
    PROVE  LoopInv'
<1>1. UNCHANGED <<memory, lastErr, todo, grant, lostWrite, faults>>
    BY DEF CheckMemory, ChatFails, AcceptFinal, Appended, Report
<1>2. run' \in Run
    BY RunTypes DEF LoopInv, CheckMemory, ChatFails, AcceptFinal, Appended, Report, Ends, Results
<1>3. TypeOK'
    BY <1>1, <1>2 DEF LoopInv, TypeOK, Run, MaxSteps, MaxRecentSteps
<1>4. run'.stepNo = run.stepNo /\ run'.after = run.after
    BY DEF LoopInv, TypeOK, Run, CheckMemory, ChatFails, AcceptFinal, Appended, Report, Ends
<1>5. run'.pc \in {"stage", "chat", "final"} => run.stepNo <= MaxSteps
    <2>1. CASE CheckMemory
        BY <2>1 DEF LoopInv, TypeOK, Run, CheckMemory, Ends
    <2>2. CASE Appended
        BY <2>2, RunTypes DEF LoopInv, TypeOK, Run, Appended
    <2>3. CASE ChatFails \/ Report
        BY <2>3 DEF LoopInv, TypeOK, Run, ChatFails, Report, Ends
    <2>4. CASE AcceptFinal
        BY <2>4 DEF LoopInv, AcceptFinal
    <2> QED
        BY <2>1, <2>2, <2>3, <2>4
<1>6. grant # NoGrant => run'.pc \in {"report", "end"}
    BY DEF LoopInv, TypeOK, Run, CheckMemory, ChatFails, AcceptFinal, Appended, Report, Ends
<1> QED
    BY <1>1, <1>3, <1>4, <1>5, <1>6, SameGrant

LEMMA BootstrapInv ==
    ASSUME LoopInv, Bootstrap, UNCHANGED setting
    PROVE  LoopInv'
<1>1. << >> \in Seq(StepRecord)
    OBVIOUS
<1>2. /\ memory' \in Seq(StepRecord) /\ Len(memory') <= MaxRecentSteps
      /\ lastErr' \in BOOLEAN /\ lostWrite' \in BOOLEAN /\ faults' \in 0 .. MaxFaults
    BY <1>1, SaveType DEF Bootstrap, LoopInv
<1>3. run' \in Run /\ run'.pc = "check" /\ grant = NoGrant /\ UNCHANGED <<todo, grant>>
    BY RunTypes DEF Bootstrap, LoopInv, TypeOK, Run
<1>4. TypeOK'
    BY <1>2, <1>3 DEF LoopInv, TypeOK, Run, MaxSteps, MaxRecentSteps
<1> QED
    BY <1>3, <1>4, SameGrant

LEMMA AppendInv ==
    ASSUME LoopInv, AppendStep, UNCHANGED setting
    PROVE  LoopInv'
<1>1. /\ todo \in Seq(StepRecord) /\ todo # << >> /\ memory \in Seq(StepRecord)
      /\ UNCHANGED <<run, grant>> /\ todo' = Tail(todo) /\ run.pc = "append"
    BY DEF AppendStep, LoopInv, TypeOK
<1>2. Head(todo) \in StepRecord /\ Tail(todo) \in Seq(StepRecord)
    BY <1>1
<1>3. Append(memory, Head(todo)) \in Seq(StepRecord) /\ <<Head(todo)>> \in Seq(StepRecord)
    BY <1>1, <1>2
<1>4. /\ memory' \in Seq(StepRecord) /\ Len(memory') <= MaxRecentSteps
      /\ lastErr' \in BOOLEAN /\ lostWrite' \in BOOLEAN /\ faults' \in 0 .. MaxFaults
    BY <1>3, SaveType DEF AppendStep, LoopInv
<1>5. TypeOK'
    BY <1>1, <1>2, <1>4 DEF LoopInv, TypeOK, Run, MaxSteps, MaxRecentSteps
<1> QED
    BY <1>1, <1>5, SameGrant DEF LoopInv

LEMMA ReadStageInv ==
    ASSUME LoopInv, ReadStage, UNCHANGED setting
    PROVE  LoopInv'
<1>1. faults' \in 0 .. MaxFaults /\ lastErr' \in BOOLEAN
    BY FaultType DEF ReadStage, LoopInv
<1>2. \A history : WorkflowStage(history) \in Stages
    BY DEF WorkflowStage, Stages
<1>3. run' \in Run /\ run'.pc = "chat" /\ run'.stepNo = run.stepNo
    <2>1. PICK stage \in Stages : run' = [run EXCEPT !.pc = "chat", !.stage = stage]
        BY <1>2 DEF ReadStage
    <2> QED
        BY <2>1 DEF LoopInv, TypeOK, Run
<1>4. UNCHANGED <<memory, todo, grant, lostWrite>> /\ run.pc = "stage"
    BY DEF ReadStage
<1>5. TypeOK'
    BY <1>1, <1>3, <1>4 DEF LoopInv, TypeOK, Run, MaxSteps, MaxRecentSteps
<1> QED
    BY <1>3, <1>4, <1>5, SameGrant DEF LoopInv

LEMMA OutsideInv ==
    ASSUME LoopInv, LoseSession \/ OtherExecution, UNCHANGED setting
    PROVE  LoopInv'
<1>1. UNCHANGED <<run, todo, grant, lostWrite>> /\ faults' \in 0 .. MaxFaults
    BY FaultType DEF LoseSession, OtherExecution, LoopInv
<1>2. memory' \in {memory, << >>} /\ lastErr' \in BOOLEAN
    BY DEF LoseSession, OtherExecution, LoopInv, TypeOK
<1>3. memory' \in Seq(StepRecord) /\ Len(memory') <= MaxRecentSteps
    <2>1. MaxRecentSteps \in Nat /\ memory \in Seq(StepRecord) /\ Len(memory) <= MaxRecentSteps
        BY AgentAssumption DEF LoopInv, TypeOK, MaxRecentSteps
    <2>2. CASE memory' = << >>
        BY <2>1, <2>2
    <2> QED
        BY <1>2, <2>1, <2>2
<1>4. TypeOK'
    BY <1>1, <1>2, <1>3 DEF LoopInv, TypeOK, Run, MaxSteps, MaxRecentSteps
<1> QED
    BY <1>1, <1>4, SameGrant DEF LoopInv

(* Finalize: the guard sees the appeal of every review a grant could be    *)
(* for, because the grant is for a review the history has evidence of.     *)
LEMMA FinalizeInv ==
    ASSUME LoopInv, Finalize, UNCHANGED setting
    PROVE  LoopInv'
<1>1. PICK history \in {memory, << >>}, action \in {"GRANT_COUPON", "NO_COUPON"},
           locked \in BOOLEAN, stored \in BOOLEAN :
          LET proposed == [action |-> action, scene |-> "MAPPED", needHumanReview |-> FALSE,
                           policyTags |-> {}]
              d == ApplyDecisionGuard(proposed, ExtractFacts(history))
              dc == ExtractContext(history)
          IN  /\ Load(history)
              /\ grant' = IF dc.known /\ locked /\ Refusal(d, dc, TRUE) = ""
                          THEN [review |-> ReviewOf(history),
                                campaign |-> CampaignOf(history).review,
                                degraded |-> CampaignOf(history).degraded]
                          ELSE NoGrant
              /\ run' = [run EXCEPT !.pc = "append", !.after = "report", !.stored = stored]
              /\ todo' = <<ToolRecord("llm", TRUE, NoReview, FALSE),
                           ToolRecord("store_decision", stored, NoReview, FALSE)>>
    BY DEF Finalize
<1> DEFINE proposed == [action |-> action, scene |-> "MAPPED", needHumanReview |-> FALSE,
                        policyTags |-> {}]
           d == ApplyDecisionGuard(proposed, ExtractFacts(history))
           dc == ExtractContext(history)
           asked == dc.known /\ locked /\ Refusal(d, dc, TRUE) = ""
<1>2. history \in Seq(StepRecord)
    <2>1. memory \in Seq(StepRecord) /\ << >> \in Seq(StepRecord)
        BY DEF LoopInv, TypeOK
    <2> QED
        BY <2>1
<1>3. faults' \in 0 .. MaxFaults /\ lastErr' \in BOOLEAN /\ UNCHANGED <<memory, lostWrite>>
    BY <1>1, FaultType DEF Load, LoopInv, Finalize
<1>4. run' \in Run /\ run'.pc = "append" /\ run'.after = "report"
    BY <1>1 DEF LoopInv, TypeOK, Run
<1>5. todo' \in Seq(StepRecord)
    <2>1. /\ ToolRecord("llm", TRUE, NoReview, FALSE) \in StepRecord
          /\ ToolRecord("store_decision", stored, NoReview, FALSE) \in StepRecord
        BY DEF ToolRecord, StepRecord
    <2> QED
        BY <1>1, <2>1, RecordSeqs, Zenon
<1>6. ASSUME asked
      PROVE  /\ ReviewOf(history) \in Reviews \ Appealed
             /\ CampaignOf(history) \in StepRecord /\ ~CampaignOf(history).degraded
    <2>1. ReviewOf(history) \in Reviews
        BY <1>2, <1>6, ContextTypes
    <2>2. ReviewOf(history) \notin Appealed
        <3> SUFFICES ASSUME ReviewOf(history) \in Appealed PROVE FALSE
            OBVIOUS
        <3>1. ExtractFacts(history).hasAppeal /\ ExtractFacts(history).score = 5
            BY <1>2, <2>1, ReviewHasEvidence, AgentAssumption DEF ExtractFacts
        <3> QED
            BY <1>6, <3>1, AppealIsManual
    <2>3. ~CampaignOf(history).degraded
        BY <1>6, GrantNeedsCampaign
    <2>4. CampaignOf(history) \in StepRecord
        BY <1>2, <2>3, CampaignType
    <2> QED
        BY <2>1, <2>2, <2>3, <2>4
<1>7. CASE asked
    <2>1. grant' = [review |-> ReviewOf(history), campaign |-> CampaignOf(history).review,
                    degraded |-> CampaignOf(history).degraded]
        BY <1>1, <1>7
    <2>2. /\ grant' \in [review : Reviews \cup {NoReview}, campaign : Reviews \cup {NoReview},
                         degraded : BOOLEAN]
          /\ grant'.review \notin Appealed /\ ~grant'.degraded
        BY <1>6, <1>7, <2>1 DEF StepRecord
    <2>3. TypeOK'
        BY <1>3, <1>4, <1>5, <2>2 DEF LoopInv, TypeOK, Run, MaxSteps, MaxRecentSteps
    <2> QED
        BY <1>4, <2>2, <2>3 DEF LoopInv, AppealRespected, NoGrantOnFallback
<1>8. CASE ~asked
    <2>1. grant' = NoGrant
        BY <1>1, <1>8
    <2>2. /\ grant' \in [review : Reviews \cup {NoReview}, campaign : Reviews \cup {NoReview},
                         degraded : BOOLEAN]
          /\ grant'.review \notin Appealed /\ ~grant'.degraded
        BY <2>1, AgentAssumption DEF NoGrant
    <2>3. TypeOK'
        BY <1>3, <1>4, <1>5, <2>2 DEF LoopInv, TypeOK, Run, MaxSteps, MaxRecentSteps
    <2> QED
        BY <1>4, <2>2, <2>3 DEF LoopInv, AppealRespected, NoGrantOnFallback
<1> QED
    BY <1>7, <1>8

-----------------------------------------------------------------------------
LEMMA InitLoop == Init => LoopInv
<1> SUFFICES ASSUME Init PROVE LoopInv
    OBVIOUS
<1>1. /\ MaxSteps \in Nat \ {0} /\ MaxRecentSteps \in Nat /\ setting \in Settings
      /\ MaxFaults \in Nat /\ NoReview \notin Appealed
    BY AgentAssumption DEF Init, MaxSteps, MaxRecentSteps
<1>2. run \in Run /\ run.pc = "boot"
    <2>1. 1 \in 1 .. MaxSteps + 1 /\ "collect_review_evidence" \in Stages /\ "none" \in Results
        BY <1>1 DEF Stages, Results
    <2> QED
        BY <2>1 DEF Init, Run
<1>3. memory \in Seq(StepRecord) /\ todo \in Seq(StepRecord) /\ Len(memory) <= MaxRecentSteps
    BY <1>1 DEF Init
<1>4. grant = NoGrant /\ lastErr \in BOOLEAN /\ lostWrite \in BOOLEAN /\ faults \in 0 .. MaxFaults
    <2>1. faults = 0 /\ faults \in 0 .. MaxFaults
        BY <1>1 DEF Init
    <2> QED
        BY <2>1, Zenon DEF Init
<1>5. /\ NoGrant \in [review : Reviews \cup {NoReview}, campaign : Reviews \cup {NoReview},
                      degraded : BOOLEAN]
      /\ NoGrant.review = NoReview /\ ~NoGrant.degraded
    BY DEF NoGrant
<1>6. TypeOK
    BY <1>1, <1>2, <1>3, <1>4, <1>5 DEF TypeOK
<1> QED
    BY <1>1, <1>2, <1>4, <1>5, <1>6 DEF LoopInv, AppealRespected, NoGrantOnFallback

LEMMA LoopStep == LoopInv /\ [Next]_vars => LoopInv'
<1> SUFFICES ASSUME LoopInv, [Next]_vars PROVE LoopInv'
    OBVIOUS
<1>1. CASE UNCHANGED vars
    BY <1>1 DEF vars, LoopInv, TypeOK, Run, MaxSteps, MaxRecentSteps, AppealRespected,
                NoGrantOnFallback
<1>2. CASE Next
    BY <1>2, CallToolInv, CorrectInv, ControlInv, BootstrapInv, AppendInv, ReadStageInv,
       OutsideInv, FinalizeInv DEF Next, Step
<1> QED
    BY <1>1, <1>2

(* The inductive invariant of RunExecution.                                *)
THEOREM LoopInvHolds == Spec => []LoopInv
    BY InitLoop, LoopStep, PTL DEF Spec

(* No coupon is asked for a review under appeal, whatever the model        *)
(* answers and however the session's reads and writes fail                 *)
(* (applyDecisionGuard, extractDecisionFacts).                             *)
THEOREM AppealsAreRespected == Spec => []AppealRespected
    BY LoopInvHolds, PTL DEF LoopInv

(* The fallback observation of a failed campaign tool never leads to a     *)
(* grant (campaignConstraintReason).                                       *)
THEOREM FallbackGrantsNothing == Spec => []NoGrantOnFallback
    BY LoopInvHolds, PTL DEF LoopInv

(* After the grant was asked for, RunExecution appends its two records,    *)
(* reports and ends; it never asks again.                                  *)
THEOREM GrantsEndTheLoop == Spec => GrantEndsLoop
<1>1. LoopInv /\ [Next]_vars =>
        [grant # NoGrant => grant' = grant /\ run'.pc \in {"append", "report", "end"}
                            /\ run'.stepNo = run.stepNo]_vars
    <2> SUFFICES ASSUME LoopInv, Next, grant # NoGrant
                 PROVE  grant' = grant /\ run'.pc \in {"append", "report", "end"}
                        /\ run'.stepNo = run.stepNo
        OBVIOUS
    <2>1. run.pc \in {"append", "report", "end"} /\ (run.pc = "append" => run.after = "report")
          /\ run \in Run
        BY DEF LoopInv, TypeOK
    <2>2. AppendStep \/ Appended \/ Report \/ LoseSession \/ OtherExecution
        BY <2>1 DEF Next, Step, Bootstrap, CheckMemory, ReadStage, AcceptFinal, Correct,
                    ChatFails, CallTool, Finalize
    <2>3. CASE AppendStep \/ LoseSession \/ OtherExecution
        BY <2>1, <2>3 DEF AppendStep, LoseSession, OtherExecution
    <2>4. CASE Appended \/ Report
        BY <2>1, <2>4 DEF Appended, Report, Ends, Run
    <2> QED
        BY <2>2, <2>3, <2>4
<1> QED
    BY <1>1, LoopInvHolds, PTL DEF Spec, GrantEndsLoop

-----------------------------------------------------------------------------
(* The campaign behind a grant.                                            *)

LEMMA ConcatAt ==
    ASSUME NEW s \in Seq(StepRecord), NEW x \in Seq(StepRecord)
    PROVE  /\ s \o x \in Seq(StepRecord) /\ Len(s \o x) = Len(s) + Len(x)
           /\ Len(s) \in Nat /\ Len(x) \in Nat
           /\ \A k \in 1 .. Len(s) : (s \o x)[k] = s[k]
           /\ \A k \in 1 .. Len(x) : (s \o x)[Len(s) + k] = x[k]
           /\ \A k \in 1 .. Len(s \o x) :
                 k \in 1 .. Len(s) \/ \E n \in 1 .. Len(x) : k = Len(s) + n
<1> DEFINE u == s \o x
<1>1. /\ u \in Seq(StepRecord) /\ Len(u) = Len(s) + Len(x) /\ Len(s) \in Nat /\ Len(x) \in Nat
      /\ \A k \in 1 .. Len(s) : u[k] = s[k]
      /\ \A k \in 1 .. Len(x) : u[Len(s) + k] = x[k]
    BY ConcatProperties
<1> HIDE DEF u
<1>2. ASSUME NEW k \in 1 .. Len(u), k \notin 1 .. Len(s)
      PROVE  \E n \in 1 .. Len(x) : k = Len(s) + n
    <2>1. k - Len(s) \in 1 .. Len(x) /\ k = Len(s) + (k - Len(s))
        BY <1>1, <1>2
    <2> QED
        BY <2>1
<1> QED
    BY <1>1, <1>2 DEF u

(* Dropping the oldest records.                                            *)
LEMMA SuffixFollows ==
    ASSUME NEW s \in Seq(StepRecord), NEW t \in Seq(StepRecord), CampaignFollows(s),
           NEW m \in Nat, Len(s) = Len(t) + m, \A k \in 1 .. Len(t) : t[k] = s[k + m]
    PROVE  CampaignFollows(t)
<1>1. Len(s) \in Nat /\ Len(t) \in Nat /\ \A k \in 1 .. Len(t) : k + m \in 1 .. Len(s)
    OBVIOUS
<1>2. \A k \in 1 .. Len(t), tool \in ToolNames :
         k \in Successes(t, tool) <=> k + m \in Successes(s, tool)
    BY <1>1 DEF Successes
<1> SUFFICES ASSUME NEW i \in Evidence(t)
             PROVE  LET later == {k \in Successes(t, "get_campaign_context") : k > i}
                    IN  later # {} /\ \A k \in later : t[k].review = t[i].review
    BY DEF CampaignFollows
<1>3. i \in 1 .. Len(t) /\ i + m \in Evidence(s) /\ t[i] = s[i + m]
    BY <1>1, <1>2 DEF Evidence, Successes, ToolNames
<1>4. PICK k \in Successes(s, "get_campaign_context") : k > i + m
    BY <1>3 DEF CampaignFollows
<1>5. k \in 1 .. Len(s)
    BY DEF Successes
<1>6. k - m \in 1 .. Len(t) /\ (k - m) + m = k /\ k - m > i
    BY <1>1, <1>3, <1>4, <1>5
<1>7. k - m \in Successes(t, "get_campaign_context")
    BY <1>2, <1>6 DEF ToolNames
<1>8. ASSUME NEW n \in Successes(t, "get_campaign_context"), n > i
      PROVE  t[n].review = t[i].review
    <2>1. n \in 1 .. Len(t)
        BY DEF Successes
    <2>2. n + m \in Successes(s, "get_campaign_context") /\ n + m > i + m /\ t[n] = s[n + m]
        BY <1>1, <1>2, <1>3, <1>8, <2>1 DEF ToolNames
    <2>3. s[n + m].review = s[i + m].review
        BY <1>3, <2>2 DEF CampaignFollows
    <2> QED
        BY <1>3, <2>2, <2>3
<1> QED
    BY <1>6, <1>7, <1>8

(* Records that are neither evidence of a review nor of a campaign.        *)
LEMMA OthersFollow ==
    ASSUME NEW s \in Seq(StepRecord), NEW x \in Seq(StepRecord), CampaignFollows(s),
           \A k \in 1 .. Len(x) :
              x[k].ok => /\ x[k].tool # "get_campaign_context"
                         /\ x[k].tool = "get_review_evidence" => x[k].review = NoReview
    PROVE  CampaignFollows(s \o x)
<1> DEFINE u == s \o x
<1>1. /\ u \in Seq(StepRecord) /\ Len(u) = Len(s) + Len(x) /\ Len(s) \in Nat /\ Len(x) \in Nat
      /\ \A k \in 1 .. Len(s) : u[k] = s[k]
      /\ \A k \in 1 .. Len(x) : u[Len(s) + k] = x[k]
    BY ConcatAt
<1>2. \A k \in 1 .. Len(u) : k \in 1 .. Len(s) \/ \E n \in 1 .. Len(x) : k = Len(s) + n
    BY ConcatAt
<1> HIDE DEF u
<1>3. /\ Successes(u, "get_campaign_context") = Successes(s, "get_campaign_context")
      /\ Evidence(u) = Evidence(s)
    <2>1. Successes(u, "get_campaign_context") = Successes(s, "get_campaign_context")
        <3>1. ASSUME NEW k \in Successes(u, "get_campaign_context")
              PROVE  k \in Successes(s, "get_campaign_context")
            <4>1. k \in 1 .. Len(u) /\ u[k].ok /\ u[k].tool = "get_campaign_context"
                BY DEF Successes
            <4>2. k \in 1 .. Len(s)
                BY <1>1, <1>2, <4>1
            <4> QED
                BY <1>1, <4>1, <4>2 DEF Successes
        <3>2. ASSUME NEW k \in Successes(s, "get_campaign_context")
              PROVE  k \in Successes(u, "get_campaign_context")
            BY <1>1 DEF Successes
        <3> QED
            BY <3>1, <3>2
    <2>2. Evidence(u) = Evidence(s)
        <3>1. ASSUME NEW k \in Evidence(u) PROVE k \in Evidence(s)
            <4>1. /\ k \in 1 .. Len(u) /\ u[k].ok /\ u[k].tool = "get_review_evidence"
                  /\ u[k].review # NoReview
                BY DEF Evidence, Successes
            <4>2. k \in 1 .. Len(s)
                <5> SUFFICES ASSUME NEW n \in 1 .. Len(x), k = Len(s) + n PROVE FALSE
                    BY <1>2, <4>1
                <5>1. u[k] = x[n]
                    BY <1>1
                <5> QED
                    BY <4>1, <5>1
            <4> QED
                BY <1>1, <4>1, <4>2 DEF Evidence, Successes
        <3>2. ASSUME NEW k \in Evidence(s) PROVE k \in Evidence(u)
            BY <1>1 DEF Evidence, Successes
        <3> QED
            BY <3>1, <3>2
    <2> QED
        BY <2>1, <2>2
<1>4. \A k \in Successes(s, "get_campaign_context") \cup Evidence(s) : u[k] = s[k]
    BY <1>1 DEF Successes, Evidence
<1>5. CampaignFollows(u)
    BY <1>3, <1>4 DEF CampaignFollows
<1> QED
    BY <1>5 DEF u

(* The campaign tool alone, called when the session has no such answer and *)
(* therefore no evidence of a review either.                               *)
LEMMA CampaignAlone ==
    ASSUME NEW s \in Seq(StepRecord), NEW c \in StepRecord, CampaignFollows(s),
           ~Has(s, "get_campaign_context"), c.tool # "get_review_evidence"
    PROVE  CampaignFollows(s \o <<c>>)
<1> DEFINE u == s \o <<c>>
<1>1. /\ Len(u) = Len(s) + 1 /\ Len(s) \in Nat /\ u[Len(s) + 1] = c
      /\ \A k \in 1 .. Len(s) : u[k] = s[k]
    <2>1. <<c>> \in Seq(StepRecord) /\ Len(<<c>>) = 1 /\ <<c>>[1] = c
        OBVIOUS
    <2> QED
        BY <2>1, ConcatProperties
<1> HIDE DEF u
<1>2. Evidence(s) = {}
    BY DEF CampaignFollows, Has
<1>3. Evidence(u) = {}
    <2> SUFFICES ASSUME NEW k \in Evidence(u) PROVE FALSE
        OBVIOUS
    <2>1. k \in 1 .. Len(s) + 1 /\ u[k].tool = "get_review_evidence"
        BY <1>1 DEF Evidence, Successes
    <2>2. k \in 1 .. Len(s)
        BY <1>1, <2>1
    <2>3. k \in Evidence(s)
        BY <1>1, <2>2 DEF Evidence, Successes
    <2> QED
        BY <1>2, <2>3
<1>4. CampaignFollows(u)
    BY <1>3 DEF CampaignFollows
<1> QED
    BY <1>4 DEF u

(* Evidence of a review with the three observations made for it, when the  *)
(* session has no evidence.                                                *)
LEMMA EvidenceFollows ==
    ASSUME NEW s \in Seq(StepRecord), ~Has(s, "get_review_evidence"),
           NEW e \in StepRecord, NEW a \in StepRecord, NEW b \in StepRecord,
           NEW c \in StepRecord,
           a.tool = "get_review_stats", b.tool = "retrieve_rag",
           c.tool = "get_campaign_context", c.ok, c.review = e.review
    PROVE  CampaignFollows(s \o <<e, a, b, c>>)
<1> DEFINE x == <<e, a, b, c>>
           u == s \o x
           n == Len(s)
<1>1. /\ Len(u) = n + 4 /\ n \in Nat
      /\ \A k \in 1 .. n : u[k] = s[k]
      /\ u[n + 1] = e /\ u[n + 2] = a /\ u[n + 3] = b /\ u[n + 4] = c
    <2>1. /\ x \in Seq(StepRecord) /\ Len(x) = 4
          /\ x[1] = e /\ x[2] = a /\ x[3] = b /\ x[4] = c
        OBVIOUS
    <2> HIDE DEF x
    <2>2. /\ Len(u) = n + Len(x) /\ n \in Nat /\ \A k \in 1 .. n : u[k] = s[k]
          /\ \A k \in 1 .. Len(x) : u[n + k] = x[k]
        BY <2>1, ConcatAt
    <2>3. {1, 2, 3, 4} \subseteq 1 .. Len(x)
        BY <2>1
    <2> QED
        BY <2>1, <2>2, <2>3
<1> HIDE DEF u, n
<1>2. ASSUME NEW i \in Evidence(u) PROVE i = n + 1
    <2>1. i \in 1 .. n + 4 /\ u[i].tool = "get_review_evidence" /\ u[i].ok
        BY <1>1 DEF Evidence, Successes
    <2>2. i \notin 1 .. n
        BY <1>1, <2>1 DEF Has, Successes, n
    <2>3. i \in {n + 1, n + 2, n + 3, n + 4}
        BY <1>1, <2>1, <2>2
    <2> QED
        BY <1>1, <2>1, <2>3
<1>3. n + 4 \in Successes(u, "get_campaign_context") /\ n + 4 > n + 1
    BY <1>1 DEF Successes
<1>4. ASSUME NEW k \in Successes(u, "get_campaign_context"), k > n + 1
      PROVE  u[k].review = e.review
    <2>1. k \in 1 .. n + 4 /\ u[k].tool = "get_campaign_context"
        BY <1>1 DEF Successes
    <2>2. k \in {n + 2, n + 3, n + 4}
        BY <1>1, <1>4, <2>1
    <2> QED
        BY <1>1, <2>1, <2>2
<1>5. CampaignFollows(u)
    BY <1>1, <1>2, <1>3, <1>4 DEF CampaignFollows
<1> QED
    BY <1>5 DEF u

(* What Finalize reads from such a session.                                *)
LEMMA FollowsCampaign ==
    ASSUME NEW s \in Seq(StepRecord), CampaignFollows(s), ReviewOf(s) # NoReview
    PROVE  CampaignOf(s).review = ReviewOf(s)
<1> DEFINE E == Evidence(s)
           seen == Successes(s, "get_campaign_context")
<1>1. /\ E \in SUBSET Nat /\ E # {} /\ ReviewOf(s) = s[Min(E)].review
      /\ seen \in SUBSET (1 .. Len(s)) /\ Len(s) \in Nat
    BY DEF Evidence, Successes, ReviewOf
<1>2. Min(E) \in E /\ Min(E) \in Nat
    BY <1>1, MinProperties
<1>3. PICK k \in seen : k > Min(E)
    BY <1>2 DEF CampaignFollows
<1>4. Max(seen) \in seen /\ \A y \in seen : y <= Max(seen)
    BY <1>1, <1>3, MaxProperties
<1>5. Max(seen) > Min(E)
    BY <1>1, <1>2, <1>3, <1>4
<1>6. CampaignOf(s) = s[Max(seen)]
    BY <1>3 DEF CampaignOf
<1> QED
    BY <1>1, <1>2, <1>4, <1>5, <1>6 DEF CampaignFollows
(* AppendStep moves the first of the records to append and drops what the  *)
(* window has no room for.                                                 *)
LEMMA AppendFollows ==
    ASSUME TypeOK, todo # << >>, CampaignFollows(memory \o todo),
           NEW kept, kept = NormalizeState(Append(memory, Head(todo)))
    PROVE  CampaignFollows(kept \o Tail(todo))
<1> DEFINE up == memory \o todo
           a == Append(memory, Head(todo))
           rest == Tail(todo)
           m == IF Len(a) <= MaxRecentSteps THEN 0 ELSE Len(a) - MaxRecentSteps
           t == kept \o rest
<1>1. /\ memory \in Seq(StepRecord) /\ todo \in Seq(StepRecord) /\ setting \in Settings
      /\ MaxRecentSteps \in Nat \ {0} /\ Len(memory) \in Nat /\ Len(todo) \in Nat
    BY AgentAssumption DEF TypeOK, MaxRecentSteps
<1>2. /\ Head(todo) = todo[1] /\ todo[1] \in StepRecord /\ rest \in Seq(StepRecord)
      /\ Len(todo) = Len(rest) + 1 /\ \A i \in 1 .. Len(rest) : rest[i] = todo[i + 1]
      /\ Len(rest) \in Nat
    BY <1>1, HeadTailProperties
<1>3. /\ a \in Seq(StepRecord) /\ Len(a) = Len(memory) + 1 /\ a[Len(memory) + 1] = todo[1]
      /\ \A i \in 1 .. Len(memory) : a[i] = memory[i]
    BY <1>1, <1>2, AppendProperties
<1>4. /\ up \in Seq(StepRecord) /\ Len(up) = Len(memory) + Len(todo)
      /\ \A i \in 1 .. Len(memory) : up[i] = memory[i]
      /\ \A i \in 1 .. Len(todo) : up[Len(memory) + i] = todo[i]
    BY <1>1, ConcatProperties
<1> HIDE DEF up, a, rest
<1>5. /\ kept \in Seq(StepRecord) /\ m \in Nat /\ m <= Len(a) /\ Len(kept) = Len(a) - m
      /\ \A i \in 1 .. Len(kept) : kept[i] = a[i + m]
    <2>1. CASE Len(a) <= MaxRecentSteps
        BY <1>1, <1>3, <2>1 DEF NormalizeState, a
    <2>2. CASE ~(Len(a) <= MaxRecentSteps)
        <3> DEFINE f == Len(a) - MaxRecentSteps + 1
        <3>1. kept = SubSeq(a, f, Len(a)) /\ m = Len(a) - MaxRecentSteps
            BY <2>2 DEF NormalizeState, a
        <3>2. f \in 1 .. Len(a) /\ Len(a) \in Nat /\ f \in Int
            BY <1>1, <1>3, <2>2
        <3>3. /\ kept \in Seq(StepRecord) /\ Len(kept) = Len(a) - f + 1
              /\ \A i \in 1 .. Len(a) - f + 1 : kept[i] = a[f + i - 1]
            <4>1. \A i \in f .. Len(a) : a[i] \in StepRecord
                BY <1>3, <3>2
            <4> DEFINE n == Len(a)
            <4>2. f <= n /\ n \in Int /\ f \in Int /\ kept = SubSeq(a, f, n)
                BY <3>1, <3>2
            <4> HIDE DEF f, n
            <4>3. /\ SubSeq(a, f, n) \in Seq(StepRecord) /\ Len(SubSeq(a, f, n)) = n - f + 1
                  /\ \A i \in 1 .. n - f + 1 : SubSeq(a, f, n)[i] = a[f + i - 1]
                BY <4>1, <4>2, SubSeqProperties DEF n
            <4> QED
                BY <4>2, <4>3 DEF n
        <3>4. f - 1 = m /\ Len(kept) = Len(a) - m /\ m \in Nat /\ m <= Len(a)
            BY <1>1, <1>3, <2>2, <3>1, <3>2, <3>3
        <3>5. ASSUME NEW i \in 1 .. Len(kept) PROVE kept[i] = a[i + m]
            <4>1. i \in 1 .. Len(a) - f + 1 /\ f + i - 1 = i + m
                BY <3>2, <3>3, <3>4
            <4> QED
                BY <3>3, <4>1
        <3> QED
            BY <3>3, <3>4, <3>5
    <2> QED
        BY <2>1, <2>2
<1>6. /\ t \in Seq(StepRecord) /\ Len(t) = Len(kept) + Len(rest) /\ Len(kept) \in Nat
      /\ \A i \in 1 .. Len(kept) : t[i] = kept[i]
      /\ \A i \in 1 .. Len(rest) : t[Len(kept) + i] = rest[i]
    BY <1>2, <1>5, ConcatProperties
<1> HIDE DEF t, m
<1>7. Len(up) = Len(t) + m
    BY <1>1, <1>2, <1>3, <1>4, <1>5, <1>6
<1>8. ASSUME NEW i \in 1 .. Len(t) PROVE t[i] = up[i + m]
    <2>1. CASE i \in 1 .. Len(kept)
        <3>1. t[i] = a[i + m] /\ i + m \in 1 .. Len(memory) + 1
            BY <1>1, <1>3, <1>5, <1>6, <2>1
        <3>2. CASE i + m \in 1 .. Len(memory)
            BY <1>3, <1>4, <3>1, <3>2
        <3>3. CASE i + m = Len(memory) + 1
            <4>1. 1 \in 1 .. Len(todo)
                BY <1>2
            <4> QED
                BY <1>3, <1>4, <3>1, <3>3, <4>1
        <3> QED
            BY <1>1, <3>1, <3>2, <3>3
    <2>2. CASE i \notin 1 .. Len(kept)
        <3> DEFINE k == i - Len(kept)
        <3>1. k \in 1 .. Len(rest) /\ Len(kept) + k = i
            BY <1>2, <1>6, <2>2
        <3>2. t[i] = rest[k]
            BY <1>6, <3>1
        <3>3. k + 1 \in 1 .. Len(todo) /\ Len(memory) + (k + 1) = i + m
            <4>1. /\ Len(memory) \in Nat /\ Len(todo) = Len(rest) + 1 /\ Len(rest) \in Nat
                  /\ Len(a) = Len(memory) + 1 /\ Len(kept) = Len(a) - m /\ m \in Nat /\ i \in Nat
                  /\ Len(kept) \in Nat /\ k \in 1 .. Len(rest) /\ Len(kept) + k = i
                BY <1>1, <1>2, <1>3, <1>5, <1>6, <3>1
            <4> HIDE DEF k
            <4> QED
                BY <4>1
        <3> QED
            BY <1>2, <1>4, <3>1, <3>2, <3>3
    <2> QED
        BY <2>1, <2>2
<1>9. CampaignFollows(up)
    BY DEF up
<1>10. CampaignFollows(t)
    BY <1>4, <1>5, <1>6, <1>7, <1>8, <1>9, SuffixFollows
<1> QED
    BY <1>10 DEF t, rest
(* A turn of the model at the stage of the stored session.                 *)
LEMMA TurnFollows ==
    ASSUME TypeOK, SessionInv, faults = 0, run.pc = "chat", NEW records \in Seq(StepRecord),
           NextStep(records), UNCHANGED <<memory, grant, faults>>,
           CampaignFollows(memory \o records)
    PROVE  SessionInv'
<1>1. run'.pc = "append" /\ todo' = records
    BY DEF NextStep, TypeOK, Run
<1> QED
    BY <1>1 DEF SessionInv, CampaignOfReview

LEMMA FaultyTurn ==
    ASSUME TypeOK, SessionInv, faults # 0, NEW records, NextStep(records), UNCHANGED faults
    PROVE  SessionInv'
<1>1. run'.pc = "append"
    BY DEF NextStep, TypeOK, Run
<1> QED
    BY <1>1 DEF SessionInv, CampaignOfReview

(* At the model's turn nothing is left to append.                          *)
LEMMA StoredFollows ==
    ASSUME TypeOK, SessionInv, faults = 0, run.pc # "append"
    PROVE  memory \in Seq(StepRecord) /\ memory \o << >> = memory /\ CampaignFollows(memory)
<1>1. memory \in Seq(StepRecord)
    BY DEF TypeOK
<1>2. memory \o << >> = memory
    BY <1>1, ConcatEmptySeq
<1> QED
    BY <1>1, <1>2 DEF SessionInv

LEMMA AutoResults ==
    ASSUME NEW review \in Reviews \cup {NoReview}, NEW results \in AutoTools(review)
    PROVE  \E a, b, c \in StepRecord :
              /\ results = <<a, b, c>>
              /\ a.tool = "get_review_stats" /\ b.tool = "retrieve_rag"
              /\ c.tool = "get_campaign_context" /\ c.ok /\ c.review = review
<1> DEFINE O(tool) == (IF tool \in setting.tools
                      THEN {ToolRecord(tool, TRUE, review, FALSE)} ELSE {})
                     \cup {Fallback(tool, review)}
<1>1. ASSUME NEW tool \in ToolNames, NEW o \in O(tool)
      PROVE  o \in StepRecord /\ o.tool = tool /\ o.ok /\ o.review = review
    <2>1. o \in {ToolRecord(tool, TRUE, review, FALSE), ToolRecord(tool, TRUE, review, TRUE)}
        BY DEF Fallback
    <2> QED
        <3>1. ASSUME NEW degraded \in BOOLEAN
              PROVE  LET q == ToolRecord(tool, TRUE, review, degraded) IN
                     q \in StepRecord /\ q.tool = tool /\ q.ok /\ q.review = review
            BY DEF ToolRecord, StepRecord
        <3> QED
            BY <2>1, <3>1
<1>2. AutoTools(review) = {<<s, r, c>> : s \in O("get_review_stats"), r \in O("retrieve_rag"),
                                         c \in O("get_campaign_context")}
    BY DEF AutoTools
<1> HIDE DEF O
<1>3. PICK a \in O("get_review_stats"), b \in O("retrieve_rag"), c \in O("get_campaign_context") :
         results = <<a, b, c>>
    BY <1>2
<1> QED
    BY <1>1, <1>3 DEF ToolNames

LEMMA FourRecords ==
    ASSUME NEW e \in StepRecord, NEW a \in StepRecord, NEW b \in StepRecord, NEW c \in StepRecord
    PROVE  <<e>> \o <<a, b, c>> = <<e, a, b, c>>
<1>1. ASSUME NEW x \in Seq(StepRecord), NEW y \in Seq(StepRecord), NEW z \in Seq(StepRecord),
             Len(x) = 1, Len(y) = 3, Len(z) = 4,
             z[1] = x[1], z[2] = y[1], z[3] = y[2], z[4] = y[3]
      PROVE  x \o y = z
    <2> DEFINE u == x \o y
    <2>1. /\ u \in Seq(StepRecord) /\ Len(u) = Len(x) + Len(y)
          /\ \A i \in 1 .. Len(x) + Len(y) : u[i] = IF i <= Len(x) THEN x[i] ELSE y[i - Len(x)]
        BY ConcatProperties
    <2> HIDE DEF u
    <2>2. Len(u) = Len(z) /\ u[1] = x[1] /\ u[2] = y[1] /\ u[3] = y[2] /\ u[4] = y[3]
        BY <1>1, <2>1
    <2>3. \A i \in 1 .. Len(u) : u[i] = z[i]
        BY <1>1, <2>2
    <2> QED
        BY <2>1, <2>2, <2>3, SeqEqual DEF u
<1>2. <<e>> \in Seq(StepRecord) /\ Len(<<e>>) = 1 /\ <<e>>[1] = e
    OBVIOUS
<1>3. /\ <<a, b, c>> \in Seq(StepRecord) /\ Len(<<a, b, c>>) = 3
      /\ <<a, b, c>>[1] = a /\ <<a, b, c>>[2] = b /\ <<a, b, c>>[3] = c
    OBVIOUS
<1>4. /\ <<e, a, b, c>> \in Seq(StepRecord) /\ Len(<<e, a, b, c>>) = 4
      /\ <<e, a, b, c>>[1] = e /\ <<e, a, b, c>>[2] = a /\ <<e, a, b, c>>[3] = b
      /\ <<e, a, b, c>>[4] = c
    OBVIOUS
<1> QED
    BY <1>1, <1>2, <1>3, <1>4

LEMMA CallToolFollows ==
    ASSUME LoopInv, SessionInv, NEW tool \in ToolNames, NEW review \in Reviews \cup {NoReview},
           CallTool(tool, review), UNCHANGED setting
    PROVE  SessionInv'
<1>1. /\ TypeOK /\ run.pc = "chat" /\ UNCHANGED <<memory, grant, faults>>
      /\ ToolAllowed(run.stage, tool)
    BY DEF LoopInv, CallTool
<1>2. CASE faults # 0
    BY <1>1, <1>2, FaultyTurn DEF CallTool
<1>3. CASE faults = 0
    <2>1. /\ memory \in Seq(StepRecord) /\ memory \o << >> = memory /\ CampaignFollows(memory)
          /\ run.stage = WorkflowStage(memory)
        BY <1>1, <1>3, StoredFollows DEF SessionInv
    <2>2. /\ tool = "get_review_evidence" => ~Has(memory, "get_review_evidence")
          /\ tool = "get_campaign_context" => ~Has(memory, "get_campaign_context")
        BY <1>1, <2>1 DEF ToolAllowed, RequiredTool, WorkflowStage
    <2> DEFINE done == ToolRecord(tool, TRUE, review, FALSE)
               failed == ToolRecord(tool, FALSE, NoReview, FALSE)
    <2>3. /\ done \in StepRecord /\ done.tool = tool /\ done.ok /\ done.review = review
          /\ failed \in StepRecord /\ ~failed.ok
        BY RecordTypes DEF ToolRecord
    <2> HIDE DEF done, failed
    <2>4. ASSUME NEW r \in StepRecord,
                 r.ok => /\ r.tool # "get_campaign_context"
                         /\ r.tool = "get_review_evidence" => r.review = NoReview
          PROVE  CampaignFollows(memory \o <<r>>)
        <3>1. <<r>> \in Seq(StepRecord) /\ Len(<<r>>) = 1 /\ <<r>>[1] = r
            OBVIOUS
        <3>2. \A k \in 1 .. Len(<<r>>) : <<r>>[k] = r
            BY <3>1
        <3> QED
            BY <2>1, <2>4, <3>1, <3>2, OthersFollow
    <2>5. << >> \in Seq(StepRecord) /\ \A r \in StepRecord : <<r>> \in Seq(StepRecord)
        BY RecordSeqs
    <2>6. CASE NextStep(<< >>)
        BY <1>1, <1>3, <2>1, <2>5, <2>6, TurnFollows
    <2>7. CASE NextStep(<<failed>>)
        BY <1>1, <1>3, <2>3, <2>4, <2>5, <2>7, TurnFollows
    <2>8. CASE NextStep(<<done>>) /\ ~(tool = "get_review_evidence" /\ review # NoReview)
        <3>1. CASE tool = "get_campaign_context"
            <4>1. CampaignFollows(memory \o <<done>>)
                BY <2>1, <2>2, <2>3, <3>1, CampaignAlone
            <4> QED
                BY <1>1, <1>3, <2>3, <2>5, <2>8, <4>1, TurnFollows
        <3>2. CASE tool # "get_campaign_context"
            <4>1. CampaignFollows(memory \o <<done>>)
                BY <2>3, <2>4, <2>8, <3>2
            <4> QED
                BY <1>1, <1>3, <2>3, <2>5, <2>8, <4>1, TurnFollows
        <3> QED
            BY <3>1, <3>2
    <2>9. ASSUME NEW results \in AutoTools(review), NextStep(<<done>> \o results),
                 tool = "get_review_evidence"
          PROVE  SessionInv'
        <3>1. PICK a \in StepRecord, b \in StepRecord, c \in StepRecord :
                 /\ results = <<a, b, c>>
                 /\ a.tool = "get_review_stats" /\ b.tool = "retrieve_rag"
                 /\ c.tool = "get_campaign_context" /\ c.ok /\ c.review = review
            BY AutoResults
        <3>2. <<done>> \o results = <<done, a, b, c>>
            BY <2>3, <3>1, FourRecords
        <3>3. <<done, a, b, c>> \in Seq(StepRecord)
            BY <2>3
        <3>4. CampaignFollows(memory \o <<done, a, b, c>>)
            BY <2>1, <2>2, <2>3, <2>9, <3>1, EvidenceFollows
        <3> QED
            BY <1>1, <1>3, <2>9, <3>2, <3>3, <3>4, TurnFollows
    <2> QED
        BY <2>6, <2>7, <2>8, <2>9 DEF CallTool, done, failed
<1> QED
    BY <1>2, <1>3

LEMMA CorrectFollows ==
    ASSUME LoopInv, SessionInv, Correct
    PROVE  SessionInv'
<1>1. /\ TypeOK /\ run.pc = "chat" /\ UNCHANGED <<memory, grant, faults>>
      /\ NextStep(<<Correction>>)
    BY DEF LoopInv, Correct
<1>2. CASE faults # 0
    BY <1>1, <1>2, FaultyTurn
<1>3. CASE faults = 0
    <2>1. Correction \in StepRecord /\ ~Correction.ok
        BY DEF Correction, ToolRecord, StepRecord
    <2> DEFINE x == <<Correction>>
    <2>2. x \in Seq(StepRecord) /\ Len(x) = 1 /\ x[1] = Correction
        BY <2>1
    <2> HIDE DEF x
    <2>3. \A k \in 1 .. Len(x) : x[k] = Correction
        BY <2>2
    <2>4. CampaignFollows(memory \o x)
        BY <1>1, <1>3, <2>1, <2>2, <2>3, StoredFollows, OthersFollow
    <2>5. NextStep(x)
        BY <1>1 DEF x
    <2> QED
        BY <1>1, <1>3, <2>2, <2>4, <2>5, TurnFollows
<1> QED
    BY <1>2, <1>3

(* Steps that leave session and records alone.                             *)
LEMMA ControlFollows ==
    ASSUME LoopInv, SessionInv, CheckMemory \/ ChatFails \/ AcceptFinal \/ Appended \/ Report
    PROVE  SessionInv'
<1>1. UNCHANGED <<memory, todo, grant, faults>>
    BY DEF CheckMemory, ChatFails, AcceptFinal, Appended, Report
<1>2. run'.pc # "append" /\ run'.pc # "chat"
    <2>1. run \in Run /\ run.after \in {"check", "report"}
        BY DEF LoopInv, TypeOK, Run
    <2>2. CASE CheckMemory \/ ChatFails \/ Report
        BY <2>1, <2>2 DEF Run, CheckMemory, ChatFails, Report, Ends
    <2>3. CASE AcceptFinal \/ Appended
        BY <2>1, <2>3 DEF Run, AcceptFinal, Appended
    <2> QED
        BY <2>2, <2>3
<1>3. todo = << >>
    BY DEF SessionInv, CheckMemory, ChatFails, AcceptFinal, Appended, Report
<1> QED
    BY <1>1, <1>2, <1>3 DEF SessionInv, CampaignOfReview

LEMMA NoRecordsFollow == CampaignFollows(<< >> \o << >>)
<1>1. << >> \o << >> = << >>
    BY ConcatEmptySeq
<1> QED
    BY <1>1 DEF CampaignFollows, Evidence, Successes

LEMMA BootstrapFollows ==
    ASSUME LoopInv, SessionInv, Bootstrap
    PROVE  SessionInv'
<1>1. run'.pc = "check" /\ todo = << >> /\ UNCHANGED <<todo, grant>> /\ faults \in Nat
    BY DEF LoopInv, TypeOK, Run, Bootstrap, SessionInv
<1>2. ASSUME faults' = 0 PROVE faults = 0 /\ memory' = << >>
    <2>1. NormalizeState(<< >>) = << >>
        BY AgentAssumption DEF NormalizeState, LoopInv, TypeOK, MaxRecentSteps
    <2> QED
        BY <1>1, <1>2, <2>1 DEF Bootstrap, SaveAfter
<1> QED
    BY <1>1, <1>2, NoRecordsFollow DEF SessionInv, CampaignOfReview

LEMMA AppendStepFollows ==
    ASSUME LoopInv, SessionInv, AppendStep
    PROVE  SessionInv'
<1>1. /\ TypeOK /\ run.pc = "append" /\ todo # << >> /\ todo' = Tail(todo)
      /\ UNCHANGED <<run, grant>> /\ faults \in Nat
    BY DEF LoopInv, TypeOK, AppendStep
<1>2. ASSUME faults' = 0
      PROVE  faults = 0 /\ memory' = NormalizeState(Append(memory, Head(todo)))
    BY <1>1, <1>2 DEF AppendStep, SaveAfter
<1>3. ASSUME faults' = 0 PROVE CampaignFollows(memory' \o Tail(todo))
    BY <1>1, <1>2, <1>3, AppendFollows DEF SessionInv
<1> QED
    BY <1>1, <1>2, <1>3 DEF SessionInv, CampaignOfReview

LEMMA ReadStageFollows ==
    ASSUME LoopInv, SessionInv, ReadStage
    PROVE  SessionInv'
<1>1. /\ run'.pc = "chat" /\ UNCHANGED <<memory, todo, grant>> /\ faults \in Nat
      /\ todo = << >>
    BY DEF LoopInv, TypeOK, Run, ReadStage, SessionInv
<1>2. ASSUME faults' = 0 PROVE faults = 0 /\ run'.stage = WorkflowStage(memory)
    BY <1>1, <1>2 DEF ReadStage, Fault, LoopInv, TypeOK, Run
<1> QED
    BY <1>1, <1>2 DEF SessionInv, CampaignOfReview

LEMMA OutsideFollows ==
    ASSUME LoopInv, SessionInv, LoseSession \/ OtherExecution
    PROVE  SessionInv'
<1>1. UNCHANGED <<run, todo, grant>> /\ faults \in Nat
    BY DEF LoopInv, TypeOK, LoseSession, OtherExecution
<1>2. ASSUME faults' = 0 PROVE faults = 0 /\ memory' = memory
    BY <1>1, <1>2 DEF LoseSession, OtherExecution, Fault
<1> QED
    BY <1>1, <1>2 DEF SessionInv, CampaignOfReview

(* The grant is about the first review with evidence, under the last       *)
(* campaign's answer.                                                      *)
LEMMA FinalizeFollows ==
    ASSUME LoopInv, SessionInv, Finalize
    PROVE  SessionInv'
<1>1. \A history : ExtractContext(history).known <=> ReviewOf(history) # NoReview
    BY DEF ExtractContext
<1>2. PICK history \in {memory, << >>}, action \in {"GRANT_COUPON", "NO_COUPON"},
           locked \in BOOLEAN, stored \in BOOLEAN :
          LET proposed == [action |-> action, scene |-> "MAPPED", needHumanReview |-> FALSE,
                           policyTags |-> {}]
              d == ApplyDecisionGuard(proposed, ExtractFacts(history))
              dc == ExtractContext(history)
          IN  /\ Load(history)
              /\ grant' = IF dc.known /\ locked /\ Refusal(d, dc, TRUE) = ""
                          THEN [review |-> ReviewOf(history),
                                campaign |-> CampaignOf(history).review,
                                degraded |-> CampaignOf(history).degraded]
                          ELSE NoGrant
              /\ run' = [run EXCEPT !.pc = "append", !.after = "report", !.stored = stored]
              /\ todo' = <<ToolRecord("llm", TRUE, NoReview, FALSE),
                           ToolRecord("store_decision", stored, NoReview, FALSE)>>
    BY DEF Finalize
<1>3. TypeOK /\ run.pc # "append" /\ memory' = memory /\ faults \in Nat /\ run'.pc = "append"
    <2>1. TypeOK /\ run.pc = "final" /\ memory' = memory /\ faults \in Nat /\ run \in Run
        <3>1. run.pc = "final" /\ memory' = memory
            BY DEF Finalize
        <3> QED
            BY <3>1 DEF LoopInv, TypeOK
    <2>2. run' = [run EXCEPT !.pc = "append", !.after = "report", !.stored = stored]
        BY <1>2
    <2> QED
        BY <2>1, <2>2 DEF Run
<1>4. ASSUME faults' = 0
      PROVE  faults = 0 /\ history = memory /\ CampaignFollows(memory) /\ memory \in Seq(StepRecord)
    <2>1. faults = 0 /\ history = memory
        <3>1. Load(history)
            BY <1>2
        <3> QED
            BY <1>3, <1>4, <3>1 DEF Load, Fault
    <2> QED
        BY <1>3, <2>1, StoredFollows
<1>5. ASSUME faults' = 0 PROVE CampaignFollows(memory' \o todo')
    <2>1. /\ ToolRecord("llm", TRUE, NoReview, FALSE) \in StepRecord
          /\ ToolRecord("store_decision", stored, NoReview, FALSE) \in StepRecord
        BY DEF ToolRecord, StepRecord
    <2>2. /\ todo' \in Seq(StepRecord) /\ Len(todo') = 2
          /\ todo'[1].tool = "llm" /\ todo'[2].tool = "store_decision"
        <3>1. todo' = <<ToolRecord("llm", TRUE, NoReview, FALSE),
                        ToolRecord("store_decision", stored, NoReview, FALSE)>>
            BY <1>2
        <3> QED
            BY <2>1, <3>1 DEF ToolRecord
    <2>3. \A k \in 1 .. Len(todo') : todo'[k].tool \in {"llm", "store_decision"}
        BY <2>2
    <2> QED
        BY <1>3, <1>4, <1>5, <2>2, <2>3, OthersFollow
<1>6. ASSUME faults' = 0 PROVE grant'.review = grant'.campaign
    <2>1. \/ grant' = NoGrant
          \/ /\ ReviewOf(history) # NoReview
             /\ grant' = [review |-> ReviewOf(history), campaign |-> CampaignOf(history).review,
                          degraded |-> CampaignOf(history).degraded]
        BY <1>1, <1>2
    <2> QED
        BY <1>4, <1>6, <2>1, FollowsCampaign DEF NoGrant
<1> QED
    BY <1>3, <1>5, <1>6 DEF SessionInv, CampaignOfReview

LEMMA SessionStep == LoopInv /\ SessionInv /\ [Next]_vars => SessionInv'
<1> SUFFICES ASSUME LoopInv, SessionInv, [Next]_vars PROVE SessionInv'
    OBVIOUS
<1>1. CASE UNCHANGED vars
    BY <1>1 DEF vars, SessionInv, CampaignOfReview
<1>2. CASE Next
    BY <1>2, CallToolFollows, CorrectFollows, ControlFollows, BootstrapFollows,
       AppendStepFollows, ReadStageFollows, OutsideFollows, FinalizeFollows DEF Next, Step
<1> QED
    BY <1>1, <1>2

(* As long as the session's reads and writes succeed, the campaign's       *)
(* answer on which RunExecution asks for a coupon is about the review that *)
(* earns it, whatever tools and reviews the model asks for and however few *)
(* records the window keeps.                                               *)
THEOREM CampaignsMatchReviews == Spec => []CampaignOfReview
<1>1. Init => SessionInv
    BY NoRecordsFollow DEF Init, SessionInv, CampaignOfReview, NoGrant
<1>2. SessionInv => CampaignOfReview
    BY DEF SessionInv
<1> QED
    BY <1>1, <1>2, SessionStep, LoopInvHolds, PTL DEF Spec

-----------------------------------------------------------------------------
(* Running sums.                                                           *)

(* Induction over the naturals, for a set of them instead of a predicate:  *)
(* the least number that were missing would follow one that is not.        *)
LEMMA Induction ==
    ASSUME NEW T \in SUBSET Nat, 0 \in T, \A n \in T : n + 1 \in T
    PROVE  T = Nat
<1> DEFINE Rest == Nat \ T
<1> SUFFICES ASSUME Rest # {} PROVE FALSE
    OBVIOUS
<1>1. PICK x \in Rest : \A y \in Rest : x <= y
    BY MinProperties
<1>2. x \in Nat /\ x # 0 /\ x - 1 \in Nat
    OBVIOUS
<1>3. x - 1 \in T
    BY <1>1, <1>2
<1>4. (x - 1) + 1 \in T /\ (x - 1) + 1 = x
    BY <1>2, <1>3
<1> QED
    BY <1>4

LEMMA RunningSum ==
    ASSUME NEW n \in Nat, NEW w \in [1 .. n -> Int], NEW a \in Int
    PROVE  \E sum \in [0 .. n -> Int] :
              sum[0] = a /\ \A i \in 1 .. n : sum[i] = sum[i - 1] + w[i]
<1> DEFINE IsSum(sum, m) == sum[0] = a /\ \A i \in 1 .. m : sum[i] = sum[i - 1] + w[i]
           Exists(m) == \E sum \in [0 .. m -> Int] : IsSum(sum, m)
           T == {m \in Nat : m <= n => Exists(m)}
<1>1. Exists(0)
    <2> DEFINE sum == [i \in 0 .. 0 |-> a]
    <2>1. sum \in [0 .. 0 -> Int] /\ IsSum(sum, 0)
        OBVIOUS
    <2> QED
        BY <2>1
<1>2. ASSUME NEW m \in Nat, m + 1 <= n, Exists(m) PROVE Exists(m + 1)
    <2>1. PICK sum \in [0 .. m -> Int] : IsSum(sum, m)
        BY <1>2
    <2> DEFINE next == [i \in 0 .. m + 1 |-> IF i <= m THEN sum[i] ELSE sum[m] + w[i]]
    <2>2. next \in [0 .. m + 1 -> Int] /\ next[0] = a
        BY <1>2, <2>1
    <2>3. ASSUME NEW i \in 1 .. m + 1 PROVE next[i] = next[i - 1] + w[i]
        <3>1. CASE i <= m
            BY <2>1, <3>1
        <3>2. CASE i = m + 1
            <4>1. next[i] = sum[m] + w[i]
                BY <3>2
            <4>2. i - 1 = m /\ next[m] = sum[m]
                BY <3>2
            <4> QED
                BY <4>1, <4>2
        <3> QED
            BY <3>1, <3>2
    <2> QED
        BY <2>2, <2>3
<1> HIDE DEF Exists
<1>3. 0 \in T /\ T \in SUBSET Nat /\ \A m \in T : m + 1 \in T
    BY <1>1, <1>2
<1>4. T = Nat
    <2> HIDE DEF T
    <2> QED BY <1>3, Induction
<1>5. Exists(n)
    <2>1. n \in T
        BY <1>4
    <2> QED
        BY <2>1
<1> QED
    BY <1>5 DEF Exists

LEMMA Telescope ==
    ASSUME NEW a \in Int, NEW b \in Int, NEW c \in Int, NEW x \in Int, NEW y \in Int,
           NEW z \in Int, a - b = x - y, b - c = y - z
    PROVE  a - c = x - z
OBVIOUS

(* Two running sums with the same steps.                                   *)
LEMMA SumsAgree ==
    ASSUME NEW n \in Nat, NEW f \in [0 .. n -> Int], NEW g \in [0 .. n -> Int],
           \A i \in 1 .. n : f[i] - f[i - 1] = g[i] - g[i - 1]
    PROVE  \A i \in 0 .. n : f[i] - f[0] = g[i] - g[0]
<1> DEFINE T == {i \in Nat : i <= n => f[i] - f[0] = g[i] - g[0]}
<1>1. 0 \in T
    OBVIOUS
<1>2. ASSUME NEW i \in T PROVE i + 1 \in T
    <2> SUFFICES ASSUME i + 1 <= n
                 PROVE  f[i + 1] - f[0] = g[i + 1] - g[0]
        OBVIOUS
    <2>1. i + 1 \in 1 .. n /\ (i + 1) - 1 = i /\ i \in 0 .. n /\ 0 \in 0 .. n
        OBVIOUS
    <2>2. f[i + 1] - f[i] = g[i + 1] - g[i]
        BY <2>1
    <2>3. f[i] - f[0] = g[i] - g[0]
        BY <2>1
    <2>4. f[i] \in Int /\ f[i + 1] \in Int /\ f[0] \in Int
        BY <2>1
    <2>5. g[i] \in Int /\ g[i + 1] \in Int /\ g[0] \in Int
        BY <2>1
    <2>6. PICK a, b, c \in Int : a = f[i + 1] /\ b = f[i] /\ c = f[0]
        BY <2>4
    <2>7. PICK x, y, z \in Int : x = g[i + 1] /\ y = g[i] /\ z = g[0]
        BY <2>5
    <2>8. a - b = x - y /\ b - c = y - z
        BY <2>2, <2>3, <2>6, <2>7
    <2>9. a - c = x - z
        BY <2>8, Telescope
    <2> QED
        BY <2>6, <2>7, <2>9
<1>3. T = Nat
    <2>1. T \in SUBSET Nat
        OBVIOUS
    <2> HIDE DEF T
    <2> QED BY <1>1, <1>2, <2>1, Induction
<1>4. ASSUME NEW i \in 0 .. n PROVE f[i] - f[0] = g[i] - g[0]
    <2>1. i \in Nat /\ i <= n
        OBVIOUS
    <2>2. i \in T
        <3> HIDE DEF T
        <3> QED BY <1>3, <2>1
    <2> QED
        BY <2>1, <2>2
<1> QED
    BY <1>4

(* The tokens of the first n steps.                                        *)
LEMMA TokensSum ==
    ASSUME NEW steps, NEW n \in Nat, \A i \in 1 .. n : StepTokens(steps[i]) \in Int
    PROVE  \E sum \in [0 .. n -> Int] :
              /\ sum[0] = 0 /\ \A i \in 1 .. n : sum[i] = sum[i - 1] + StepTokens(steps[i])
              /\ TokensOf(steps, n) = sum[n]
<1> DEFINE w == [i \in 1 .. n |-> StepTokens(steps[i])]
           IsTotal(f) == f = [i \in 0 .. n |-> IF i = 0 THEN 0
                                               ELSE f[i - 1] + StepTokens(steps[i])]
           Total == CHOOSE f : IsTotal(f)
<1>1. PICK sum \in [0 .. n -> Int] :
           sum[0] = 0 /\ \A i \in 1 .. n : sum[i] = sum[i - 1] + StepTokens(steps[i])
    <2>1. w \in [1 .. n -> Int]
        OBVIOUS
    <2>2. \A i \in 1 .. n : w[i] = StepTokens(steps[i])
        OBVIOUS
    <2> HIDE DEF w
    <2>3. PICK a \in Int : a = 0
        OBVIOUS
    <2>4. \E sum \in [0 .. n -> Int] :
              sum[0] = a /\ \A i \in 1 .. n : sum[i] = sum[i - 1] + w[i]
        BY <2>1, RunningSum
    <2> QED
        BY <2>2, <2>3, <2>4
<1>2. IsTotal(sum)
    <2>1. \A i \in 0 .. n : sum[i] = IF i = 0 THEN 0 ELSE sum[i - 1] + StepTokens(steps[i])
        BY <1>1
    <2> QED
        BY <1>1, <2>1
<1>3. IsTotal(Total)
    BY <1>2
<1>4. TokensOf(steps, n) = Total[n]
    BY DEF TokensOf
<1> HIDE DEF Total
<1>5. /\ Total[0] = 0
      /\ \A i \in 1 .. n : Total[i] = Total[i - 1] + StepTokens(steps[i])
    BY <1>3
<1>6. Total = [i \in 0 .. n |-> Total[i]]
    BY <1>3
<1> DEFINE U == {i \in Nat : i <= n => Total[i] \in Int}
<1>7. 0 \in U /\ U \in SUBSET Nat /\ \A i \in U : i + 1 \in U
    <2>1. ASSUME NEW i \in U, i + 1 <= n PROVE Total[i + 1] \in Int
        <3>1. i + 1 \in 1 .. n /\ (i + 1) - 1 = i /\ Total[i] \in Int
            BY <2>1
        <3>2. Total[i + 1] = Total[i] + StepTokens(steps[i + 1])
            BY <1>5, <3>1
        <3> QED
            BY <3>1, <3>2
    <2> QED
        BY <1>5, <2>1
<1>8. U = Nat
    <2> HIDE DEF U
    <2> QED BY <1>7, Induction
<1>9. \A i \in 0 .. n : Total[i] \in Int
    BY <1>8
<1>10. Total \in [0 .. n -> Int]
    BY <1>6, <1>9
<1> QED
    BY <1>4, <1>5, <1>10

(* The first place where the removals stop.                                *)
LEMMA FirstStop ==
    ASSUME NEW n \in Nat, NEW left \in [0 .. n -> Int], NEW limit \in Int
    PROVE  LET IsRemoved(f) == f = [i \in 0 .. n |-> IF i = n \/ left[i] <= limit THEN i
                                                     ELSE f[i + 1]]
           IN  /\ \E f : IsRemoved(f)
               /\ \A f : IsRemoved(f) =>
                     /\ f[0] \in 0 .. n
                     /\ f[0] = n \/ left[f[0]] <= limit
                     /\ \A k \in 0 .. f[0] - 1 : ~(left[k] <= limit)
<1> DEFINE stops == {k \in 0 .. n : k = n \/ left[k] <= limit}
           IsRemoved(f) == f = [i \in 0 .. n |-> IF i = n \/ left[i] <= limit THEN i
                                                 ELSE f[i + 1]]
           After(i) == {k \in stops : i <= k}
           g == [i \in 0 .. n |-> Min(After(i))]
<1>1. n \in stops /\ stops \in SUBSET Nat
    OBVIOUS
<1>2. \A i \in 0 .. n : i \in stops <=> i = n \/ left[i] <= limit
    OBVIOUS
<1> HIDE DEF stops
<1>3. ASSUME NEW i \in 0 .. n PROVE g[i] = IF i \in stops THEN i ELSE g[i + 1]
    <2>1. i \in Nat /\ i <= n /\ \A k \in stops : k \in Nat
        BY <1>1
    <2>2. After(i) \in SUBSET Nat /\ n \in After(i)
        BY <1>1, <2>1
    <2>3. CASE i \in stops
        <3>1. i \in After(i)
            BY <2>3
        <3>2. Min(After(i)) \in After(i) /\ Min(After(i)) <= i
            BY <2>2, <3>1, MinProperties
        <3>3. PICK m : m = Min(After(i))
            OBVIOUS
        <3>4. m \in stops /\ i <= m /\ m <= i
            BY <3>2, <3>3
        <3>5. m = i
            BY <2>1, <3>4
        <3> QED
            BY <2>3, <3>3, <3>5
    <2>4. CASE i \notin stops
        <3>1. i + 1 \in 0 .. n
            BY <1>1, <2>4
        <3>2. \A k \in stops : i <= k <=> i + 1 <= k
            <4> SUFFICES ASSUME NEW k \in stops PROVE i <= k <=> i + 1 <= k
                OBVIOUS
            <4>1. k # i /\ k \in Nat
                BY <2>1, <2>4
            <4> QED
                BY <2>1, <4>1
        <3>3. After(i) = After(i + 1)
            BY <3>2
        <3> QED
            BY <2>4, <3>1, <3>3
    <2> QED
        BY <2>3, <2>4
<1>4. IsRemoved(g)
    <2>1. g = [i \in 0 .. n |-> g[i]]
        OBVIOUS
    <2> HIDE DEF g
    <2>2. \A i \in 0 .. n : g[i] = IF i = n \/ left[i] <= limit THEN i ELSE g[i + 1]
        BY <1>2, <1>3
    <2> QED
        BY <2>1, <2>2
<1> SUFFICES ASSUME NEW R, IsRemoved(R)
             PROVE  /\ R[0] \in 0 .. n
                    /\ R[0] = n \/ left[R[0]] <= limit
                    /\ \A k \in 0 .. R[0] - 1 : ~(left[k] <= limit)
    BY <1>4
<1>5. \A i \in 0 .. n : R[i] = IF i \in stops THEN i ELSE R[i + 1]
    BY <1>2
<1> HIDE DEF IsRemoved
<1> DEFINE First(i) == /\ R[i] \in stops /\ i <= R[i]
                       /\ \A k \in Nat : i <= k /\ k < R[i] => k \notin stops
           T == {d \in Nat : d <= n => First(n - d)}
<1>6. 0 \in T
    <2>1. R[n] = n
        BY <1>1, <1>5
    <2> QED
        BY <1>1, <2>1
<1>7. ASSUME NEW d \in T PROVE d + 1 \in T
    <2> SUFFICES ASSUME d + 1 <= n PROVE First(n - (d + 1))
        OBVIOUS
    <2> DEFINE i == n - (d + 1)
    <2>1. i \in 0 .. n /\ i \in Nat /\ i + 1 = n - d /\ d <= n
        BY <1>7
    <2>2. First(i + 1)
        BY <1>7, <2>1
    <2> HIDE DEF i
    <2>3. CASE i \in stops
        <3>1. R[i] = i
            BY <1>5, <2>1, <2>3
        <3>2. First(i)
            BY <2>1, <2>3, <3>1
        <3> QED
            BY <3>2 DEF i
    <2>4. CASE i \notin stops
        <3>1. R[i] = R[i + 1]
            BY <1>5, <2>1, <2>4
        <3>2. R[i] \in Nat /\ R[i] \in stops /\ i + 1 <= R[i]
            BY <1>1, <2>2, <3>1
        <3>3. ASSUME NEW k \in Nat, i <= k, k < R[i] PROVE k \notin stops
            <4>1. k = i \/ i + 1 <= k
                BY <2>1, <3>3
            <4> QED
                BY <2>2, <2>4, <3>1, <3>3, <4>1
        <3>4. First(i)
            BY <2>1, <3>2, <3>3
        <3> QED
            BY <3>4 DEF i
    <2> QED
        BY <2>3, <2>4
<1>8. T = Nat
    <2>1. T \in SUBSET Nat
        OBVIOUS
    <2> HIDE DEF T
    <2> QED BY <1>6, <1>7, <2>1, Induction
<1>9. First(0)
    <2>1. n \in T
        <3> HIDE DEF T
        <3> QED BY <1>8
    <2>2. n - n = 0
        OBVIOUS
    <2> QED
        BY <2>1, <2>2
<1>10. R[0] \in 0 .. n /\ (R[0] = n \/ left[R[0]] <= limit)
    BY <1>9 DEF stops
<1>11. \A k \in 0 .. R[0] - 1 : k \in 0 .. n /\ k \notin stops
    BY <1>9, <1>10
<1> QED
    BY <1>10, <1>11 DEF stops

(* The removals: the estimate runs down by what a step had added to it,    *)
(* and they stop at the first place within the limit.                      *)
Sheds(steps, estimated, limit, left, r) ==
    /\ left[0] = estimated
    /\ \A i \in 1 .. Len(steps) : left[i] = left[i - 1] - StepTokens(steps[i])
    /\ Shed(steps, estimated, limit) = [removed |-> r, estimated |-> left[r]]
    /\ r = Len(steps) \/ left[r] <= limit
    /\ \A k \in 0 .. r - 1 : ~(left[k] <= limit)

LEMMA ShedFirst ==
    ASSUME NEW steps, NEW estimated \in Int, NEW limit \in Nat, Len(steps) \in Nat,
           \A i \in 1 .. Len(steps) : StepTokens(steps[i]) \in Int
    PROVE  \E left \in [0 .. Len(steps) -> Int], r \in 0 .. Len(steps) :
              Sheds(steps, estimated, limit, left, r)
<1> DEFINE n == Len(steps)
           w == [i \in 1 .. n |-> 0 - StepTokens(steps[i])]
           IsLeft(f) == f = [i \in 0 .. Len(steps) |->
                                IF i = 0 THEN estimated ELSE f[i - 1] - StepTokens(steps[i])]
           Left == CHOOSE f : IsLeft(f)
           IsRemoved(f) == f = [i \in 0 .. Len(steps) |->
                                   IF i = Len(steps) \/ Left[i] <= limit THEN i
                                   ELSE f[i + 1]]
           Removed == CHOOSE f : IsRemoved(f)
<1>1. Shed(steps, estimated, limit) = [removed |-> Removed[0], estimated |-> Left[Removed[0]]]
    BY DEF Shed
<1>2. PICK sum \in [0 .. n -> Int] :
           sum[0] = estimated /\ \A i \in 1 .. n : sum[i] = sum[i - 1] - StepTokens(steps[i])
    <2>1. w \in [1 .. n -> Int]
        OBVIOUS
    <2>2. \A i \in 1 .. n : w[i] = 0 - StepTokens(steps[i])
        OBVIOUS
    <2> HIDE DEF w, n
    <2>3. n \in Nat
        BY DEF n
    <2>4. PICK sum \in [0 .. n -> Int] :
              sum[0] = estimated /\ \A i \in 1 .. n : sum[i] = sum[i - 1] + w[i]
        BY <2>1, <2>3, RunningSum
    <2>5. ASSUME NEW i \in 1 .. n PROVE sum[i] = sum[i - 1] - StepTokens(steps[i])
        <3>1. i - 1 \in 0 .. n
            BY <2>3
        <3>2. sum[i - 1] \in Int /\ StepTokens(steps[i]) \in Int
            BY <3>1 DEF n
        <3>3. sum[i] = sum[i - 1] + (0 - StepTokens(steps[i]))
            BY <2>2, <2>4
        <3> QED
            BY <3>2, <3>3
    <2> QED
        BY <2>4, <2>5
<1>3. IsLeft(sum)
    <2>1. \A i \in 0 .. n :
              sum[i] = IF i = 0 THEN estimated ELSE sum[i - 1] - StepTokens(steps[i])
        BY <1>2
    <2> QED
        BY <1>2, <2>1
<1>4. IsLeft(Left)
    BY <1>3
<1> HIDE DEF Left
<1>5. /\ Left[0] = estimated
      /\ \A i \in 1 .. n : Left[i] = Left[i - 1] - StepTokens(steps[i])
    BY <1>4
<1>6. Left = [i \in 0 .. n |-> Left[i]]
    BY <1>4
<1> DEFINE U == {i \in Nat : i <= n => Left[i] \in Int}
<1>7. 0 \in U /\ U \in SUBSET Nat /\ \A i \in U : i + 1 \in U
    <2>1. ASSUME NEW i \in U, i + 1 <= n PROVE Left[i + 1] \in Int
        <3>1. i + 1 \in 1 .. n /\ (i + 1) - 1 = i /\ Left[i] \in Int
            BY <2>1
        <3>2. Left[i + 1] = Left[i] - StepTokens(steps[i + 1])
            BY <1>5, <3>1
        <3> QED
            BY <3>1, <3>2
    <2> QED
        BY <1>5, <2>1
<1>8. U = Nat
    <2> HIDE DEF U
    <2> QED BY <1>7, Induction
<1>9. \A i \in 0 .. n : Left[i] \in Int
    BY <1>8
<1>10. Left \in [0 .. n -> Int]
    BY <1>6, <1>9
<1>11. /\ \E f : IsRemoved(f)
       /\ \A f : IsRemoved(f) => /\ f[0] \in 0 .. n
                                 /\ f[0] = n \/ Left[f[0]] <= limit
                                 /\ \A k \in 0 .. f[0] - 1 : ~(Left[k] <= limit)
    <2>1. limit \in Int
        OBVIOUS
    <2> QED
        BY <1>10, <2>1, FirstStop
<1>12. IsRemoved(Removed)
    <2>1. \E f : IsRemoved(f)
        BY <1>11
    <2> HIDE DEF IsRemoved
    <2> QED
        BY <2>1
<1> HIDE DEF Removed
<1> QED
    BY <1>1, <1>5, <1>10, <1>11, <1>12 DEF Sheds

(* The latest records, counted by the running sum over all of them.        *)
LEMMA TailTokens ==
    ASSUME NEW D, NEW steps \in Seq(D), NEW n \in 0 .. Len(steps),
           \A i \in 1 .. Len(steps) : StepTokens(steps[i]) \in Int,
           NEW W \in [0 .. Len(steps) -> Int],
           \A i \in 1 .. Len(steps) : W[i] = W[i - 1] + StepTokens(steps[i])
    PROVE  LET latest == SubSeq(steps, Len(steps) - n + 1, Len(steps)) IN
           /\ latest \in Seq(D) /\ Len(latest) = n
           /\ \A i \in 1 .. n : latest[i] = steps[Len(steps) - n + i]
           /\ TokensOf(latest, n) = W[Len(steps)] - W[Len(steps) - n]
<1> DEFINE N == Len(steps)
           m == N - n
           latest == SubSeq(steps, m + 1, N)
<1>1. N \in Nat /\ n \in Nat /\ m \in Nat /\ m + n = N
    OBVIOUS
<1>2. /\ latest \in Seq(D) /\ Len(latest) = n
      /\ \A i \in 1 .. n : latest[i] = steps[m + i]
    <2> HIDE DEF m
    <2>1. SubSeq(steps, m + 1, N) \in Seq(D)
        BY <1>1
    <2>2. Len(SubSeq(steps, m + 1, N)) = n
        BY <1>1
    <2>3. \A i \in 1 .. n : SubSeq(steps, m + 1, N)[i] = steps[m + i]
        BY <1>1
    <2> QED
        BY <2>1, <2>2, <2>3
<1> HIDE DEF latest, m
<1>3. \A i \in 1 .. n : m + i \in 1 .. N /\ i - 1 \in 0 .. n /\ m + (i - 1) = (m + i) - 1
    BY <1>1
<1>4. \A i \in 1 .. n : StepTokens(latest[i]) \in Int
    BY <1>2, <1>3
<1>5. PICK sum \in [0 .. n -> Int] :
          /\ sum[0] = 0 /\ \A i \in 1 .. n : sum[i] = sum[i - 1] + StepTokens(latest[i])
          /\ TokensOf(latest, n) = sum[n]
    BY <1>1, <1>4, TokensSum
<1> DEFINE g == [i \in 0 .. n |-> W[m + i]]
<1>6. \A i \in 0 .. n : m + i \in 0 .. N
    BY <1>1
<1>7. g \in [0 .. n -> Int] /\ \A i \in 0 .. n : g[i] = W[m + i]
    BY <1>6
<1> HIDE DEF g
<1>8. ASSUME NEW i \in 1 .. n PROVE sum[i] - sum[i - 1] = g[i] - g[i - 1]
    <2>1. PICK t \in Int : t = StepTokens(latest[i])
        BY <1>4
    <2>2. i \in 0 .. n /\ i - 1 \in 0 .. n
        BY <1>1
    <2>3. g[i] = W[m + i] /\ g[i - 1] = W[(m + i) - 1] /\ g[i] \in Int /\ g[i - 1] \in Int
        BY <1>3, <1>7, <2>2
    <2>4. g[i] = g[i - 1] + t
        BY <1>2, <1>3, <2>1, <2>3
    <2>5. sum[i] = sum[i - 1] + t /\ sum[i] \in Int /\ sum[i - 1] \in Int
        BY <1>5, <2>1, <2>2
    <2> QED
        BY <2>3, <2>4, <2>5
<1>9. sum[n] - sum[0] = g[n] - g[0]
    <2>1. \A i \in 0 .. n : sum[i] - sum[0] = g[i] - g[0]
        BY <1>1, <1>5, <1>7, <1>8, SumsAgree
    <2>2. n \in 0 .. n
        BY <1>1
    <2> QED
        BY <2>1, <2>2
<1>10. g[n] = W[N] /\ g[0] = W[m]
    <2>1. n \in 0 .. n /\ 0 \in 0 .. n /\ m + n = N /\ m + 0 = m
        BY <1>1
    <2> QED
        BY <1>7, <2>1
<1>11. sum[n] = W[N] - W[m]
    <2>1. sum[n] \in Int /\ sum[0] = 0 /\ g[n] \in Int /\ g[0] \in Int
        BY <1>1, <1>5, <1>7
    <2> QED
        BY <1>9, <1>10, <2>1
<1> QED
    BY <1>2, <1>5, <1>11 DEF latest, m

(* A tail of a tail.                                                       *)
LEMMA TailOfTail ==
    ASSUME NEW D, NEW steps \in Seq(D), NEW M \in 0 .. Len(steps), NEW r \in 0 .. M
    PROVE  LET Latest(n) == SubSeq(steps, Len(steps) - n + 1, Len(steps))
           IN  SubSeq(Latest(M), r + 1, M) = Latest(M - r)
<1> DEFINE N == Len(steps)
           Latest(n) == SubSeq(steps, N - n + 1, N)
           o == N - M
           k == N - (M - r)
           recent == SubSeq(steps, o + 1, N)
           long == SubSeq(recent, r + 1, M)
           short == SubSeq(steps, k + 1, N)
<1>1. /\ N \in Nat /\ M \in Nat /\ r \in Nat /\ o \in Nat /\ k \in Nat
      /\ o + M = N /\ k + (M - r) = N /\ k = o + r /\ M - r \in Nat
    OBVIOUS
<1> HIDE DEF o, k
<1>2. recent \in Seq(D) /\ Len(recent) = M /\ \A i \in 1 .. M : recent[i] = steps[o + i]
    BY <1>1
<1>3. short \in Seq(D) /\ Len(short) = M - r /\ \A i \in 1 .. M - r : short[i] = steps[k + i]
    BY <1>1
<1> HIDE DEF recent, short
<1>4. long \in Seq(D) /\ Len(long) = M - r /\ \A i \in 1 .. M - r : long[i] = recent[r + i]
    <2>1. M = Len(recent) /\ M \in Nat /\ r \in Nat /\ r + (M - r) = M /\ M - r \in Nat
        BY <1>1, <1>2
    <2>2. Len(long) = M - r
        BY <1>2, <2>1
    <2>3. \A i \in 1 .. M - r : long[i] = recent[r + i]
        BY <1>2, <2>1
    <2>4. long \in Seq(D)
        BY <1>2, <2>1
    <2> QED
        BY <2>2, <2>3, <2>4
<1> HIDE DEF long
<1>5. ASSUME NEW i \in 1 .. M - r PROVE long[i] = short[i]
    <2>1. r + i \in 1 .. M /\ o + (r + i) = k + i
        BY <1>1
    <2> QED
        BY <1>2, <1>3, <1>4, <2>1
<1>6. long = short
    BY <1>3, <1>4, <1>5, SeqEqual
<1> QED
    BY <1>6 DEF long, short, recent, o, k

(* What Shed leaves of the latest M records, in terms of the running sum.  *)
LEMMA ShedTail ==
    ASSUME NEW D, NEW steps \in Seq(D), NEW M \in 0 .. Len(steps), NEW base \in Int,
           NEW limit \in Nat,
           \A i \in 1 .. Len(steps) : StepTokens(steps[i]) \in Int,
           NEW W \in [0 .. Len(steps) -> Int],
           \A i \in 1 .. Len(steps) : W[i] = W[i - 1] + StepTokens(steps[i])
    PROVE  LET Latest(n) == SubSeq(steps, Len(steps) - n + 1, Len(steps))
               Estimate(n) == base + (W[Len(steps)] - W[Len(steps) - n])
               shed == Shed(Latest(M), Estimate(M), limit)
           IN  /\ shed.removed \in 0 .. M
               /\ shed.estimated = Estimate(M - shed.removed)
               /\ shed.removed = M \/ shed.estimated <= limit
               /\ \A k \in 0 .. shed.removed - 1 : ~(Estimate(M - k) <= limit)
<1> DEFINE N == Len(steps)
           Estimate(n) == base + (W[N] - W[N - n])
           recent == SubSeq(steps, N - M + 1, N)
           o == N - M
           e == Estimate(M)
<1>1. N \in Nat /\ M \in Nat /\ o \in Nat /\ o + M = N
    OBVIOUS
<1>2. recent \in Seq(D) /\ Len(recent) = M /\ \A i \in 1 .. M : recent[i] = steps[o + i]
    BY TailTokens
<1>3. e \in Int
    <2>1. N \in 0 .. N /\ N - M \in 0 .. N
        BY <1>1
    <2>2. W[N] \in Int /\ W[N - M] \in Int
        BY <2>1
    <2> QED
        BY <2>2
<1>4. N - M = o /\ \A i \in 0 .. M : N - (M - i) = o + i
    BY <1>1
<1> HIDE DEF recent, o
<1>5. \A i \in 1 .. M : o + i \in 1 .. N /\ o + (i - 1) = (o + i) - 1
    BY <1>1
<1>6. \A i \in 1 .. M : StepTokens(recent[i]) \in Int
    BY <1>2, <1>5
<1>7. PICK left \in [0 .. M -> Int], r \in 0 .. M :
          /\ left[0] = e
          /\ \A i \in 1 .. M : left[i] = left[i - 1] - StepTokens(recent[i])
          /\ Shed(recent, e, limit) = [removed |-> r, estimated |-> left[r]]
          /\ r = M \/ left[r] <= limit
          /\ \A k \in 0 .. r - 1 : ~(left[k] <= limit)
    <2>1. e \in Int /\ Len(recent) \in Nat /\ \A i \in 1 .. Len(recent) : StepTokens(recent[i]) \in Int
        BY <1>1, <1>2, <1>3, <1>6
    <2> HIDE DEF e
    <2>2. \E left \in [0 .. Len(recent) -> Int], r \in 0 .. Len(recent) :
              Sheds(recent, e, limit, left, r)
        BY <2>1, ShedFirst
    <2> QED
        BY <1>2, <2>2 DEF Sheds
<1> DEFINE g == [i \in 0 .. M |-> 0 - W[o + i]]
<1>8. \A i \in 0 .. M : o + i \in 0 .. N
    BY <1>1
<1>9. g \in [0 .. M -> Int] /\ \A i \in 0 .. M : g[i] = 0 - W[o + i] /\ W[o + i] \in Int
    BY <1>8
<1> HIDE DEF g
<1>10. ASSUME NEW i \in 1 .. M PROVE left[i] - left[i - 1] = g[i] - g[i - 1]
    <2>1. PICK t \in Int : t = StepTokens(recent[i])
        BY <1>6
    <2>2. i \in 0 .. M /\ i - 1 \in 0 .. M
        BY <1>1
    <2>3. /\ g[i] = 0 - W[o + i] /\ g[i - 1] = 0 - W[(o + i) - 1]
          /\ W[o + i] \in Int /\ W[(o + i) - 1] \in Int
        BY <1>5, <1>9, <2>2
    <2>4. W[o + i] = W[(o + i) - 1] + t
        BY <1>2, <1>5, <2>1
    <2>5. left[i] = left[i - 1] - t /\ left[i] \in Int /\ left[i - 1] \in Int
        BY <1>7, <2>1, <2>2
    <2>6. g[i] - g[i - 1] = 0 - t
        BY <2>3, <2>4
    <2>7. left[i] - left[i - 1] = 0 - t
        BY <2>5
    <2> QED
        BY <2>6, <2>7
<1>11. \A i \in 0 .. M : left[i] - left[0] = g[i] - g[0]
    BY <1>1, <1>7, <1>9, <1>10, SumsAgree
<1>12. ASSUME NEW i \in 0 .. M PROVE left[i] = Estimate(M - i)
    <2>1. i \in 0 .. M /\ 0 \in 0 .. M /\ o + 0 = o /\ N - (M - i) = o + i /\ N - M = o
        BY <1>1, <1>4
    <2>2. o + i \in 0 .. N /\ o \in 0 .. N /\ N \in 0 .. N
        BY <1>1, <1>8, <2>1
    <2>3. PICK a, b, c \in Int : a = W[o + i] /\ b = W[o] /\ c = W[N]
        BY <2>2
    <2>4. g[i] = 0 - a /\ g[0] = 0 - b
        BY <1>9, <2>1, <2>3
    <2>5. left[i] \in Int /\ left[0] = base + (c - b)
        BY <1>7, <2>1, <2>3
    <2>6. left[i] - left[0] = g[i] - g[0]
        BY <1>11, <2>1
    <2>7. left[i] = base + (c - a)
        BY <2>4, <2>5, <2>6
    <2> QED
        BY <2>1, <2>3, <2>7
<1> DEFINE shed == Shed(recent, e, limit)
<1>13. shed.removed = r /\ shed.estimated = left[r]
    BY <1>7
<1> HIDE DEF shed, e
<1>14. \A k \in 0 .. r - 1 : k \in 0 .. M
    BY <1>1, <1>7
<1>15. /\ shed.removed \in 0 .. M
       /\ shed.estimated = Estimate(M - shed.removed)
       /\ shed.removed = M \/ shed.estimated <= limit
       /\ \A k \in 0 .. shed.removed - 1 : ~(Estimate(M - k) <= limit)
    <2> HIDE DEF Estimate
    <2> QED
        BY <1>7, <1>12, <1>13, <1>14
<1> QED
    BY <1>15 DEF shed, e, recent

-----------------------------------------------------------------------------
(* The prompt.                                                             *)

LEMMA TokenTypes ==
    /\ \A text \in Nat : ApproxTokens(text) \in Nat
    /\ \A text, limit \in Nat : TrimPromptText(text, limit) \in Nat
    /\ \A tool : OutputLimit(tool) \in Nat
BY DEF ApproxTokens, TrimPromptText, OutputLimit

LEMMA CompactTokens ==
    ASSUME NEW tools, NEW steps \in Seq(StepText(tools))
    PROVE  LET compact == CompactStepsForPrompt(steps) IN
           /\ compact \in Seq(StepText(tools)) /\ Len(compact) = Len(steps)
           /\ \A i \in 1 .. Len(steps) : StepTokens(compact[i]) \in Nat
<1> DEFINE Cut(s) == [s EXCEPT !.arguments = TrimPromptText(@, 800),
                               !.error = TrimPromptText(@, 800),
                               !.output = TrimPromptText(@, OutputLimit(s.tool))]
           compact == CompactStepsForPrompt(steps)
<1>1. compact = [i \in 1 .. Len(steps) |-> Cut(steps[i])]
    BY DEF CompactStepsForPrompt
<1>2. ASSUME NEW s \in StepText(tools) PROVE Cut(s) \in StepText(tools)
    <2>1. /\ TrimPromptText(s.arguments, 800) \in Nat /\ TrimPromptText(s.error, 800) \in Nat
          /\ TrimPromptText(s.output, OutputLimit(s.tool)) \in Nat
        <3>1. s.arguments \in Nat /\ s.error \in Nat /\ s.output \in Nat /\ 800 \in Nat
            BY DEF StepText
        <3>2. OutputLimit(s.tool) \in Nat
            BY TokenTypes
        <3>3. \A text, limit \in Nat : TrimPromptText(text, limit) \in Nat
            BY TokenTypes
        <3>4. PICK limit \in Nat : limit = 800
            OBVIOUS
        <3>5. /\ TrimPromptText(s.arguments, limit) \in Nat /\ TrimPromptText(s.error, limit) \in Nat
              /\ TrimPromptText(s.output, OutputLimit(s.tool)) \in Nat
            BY <3>1, <3>2, <3>3
        <3> QED
            BY <3>4, <3>5
    <2>2. \A a, e, u \in Nat : [s EXCEPT !.arguments = a, !.error = e, !.output = u] \in StepText(tools)
        BY DEF StepText
    <2>3. PICK a, e, u \in Nat : /\ a = TrimPromptText(s.arguments, 800)
                                 /\ e = TrimPromptText(s.error, 800)
                                 /\ u = TrimPromptText(s.output, OutputLimit(s.tool))
        BY <2>1
    <2>4. Cut(s) = [s EXCEPT !.arguments = a, !.error = e, !.output = u]
        BY <2>3
    <2>5. [s EXCEPT !.arguments = a, !.error = e, !.output = u] \in StepText(tools)
        BY <2>2
    <2> HIDE DEF Cut
    <2> QED
        BY <2>4, <2>5
<1>3. ASSUME NEW s \in StepText(tools) PROVE StepTokens(s) \in Nat
    <2>1. /\ ApproxTokens(s.action) \in Nat /\ ApproxTokens(s.toolName) \in Nat
          /\ ApproxTokens(s.arguments) \in Nat /\ ApproxTokens(s.output) \in Nat
          /\ ApproxTokens(s.error) \in Nat
        BY TokenTypes DEF StepText
    <2> QED
        BY <2>1 DEF StepTokens
<1> HIDE DEF Cut
<1>4. Len(steps) \in Nat /\ \A i \in 1 .. Len(steps) : steps[i] \in StepText(tools)
    OBVIOUS
<1>5. compact \in [1 .. Len(steps) -> StepText(tools)]
    BY <1>1, <1>2, <1>4
<1>6. compact \in Seq(StepText(tools)) /\ Len(compact) = Len(steps)
    BY <1>4, <1>5
<1> HIDE DEF compact
<1>7. \A i \in 1 .. Len(steps) : StepTokens(compact[i]) \in Nat
    BY <1>3, <1>5
<1> QED
    BY <1>6, <1>7 DEF compact

(* Compose keeps a tail of the records: as long as the limits allow, and   *)
(* with the estimate of what it keeps.                                     *)
LEMMA ComposeTail ==
    ASSUME NEW tools, NEW steps \in Seq(StepText(tools)), NEW budget \in Budget, NEW summaryText \in Nat,
           NEW task \in Nat
    PROVE  LET prompt == Compose(summaryText, steps, task, budget)
               shown == Len(prompt.recentSteps)
               compact == CompactStepsForPrompt(steps)
               Latest(n) == SubSeq(compact, Len(compact) - n + 1, Len(compact))
               Estimate(n) == ApproxTokens(task) + ApproxTokens(prompt.summary)
                              + TokensOf(Latest(n), n)
               Fits(n) == /\ budget.maxRecentSteps \notin 1 .. n - 1
                          /\ \/ budget.maxPromptTokens = 0
                             \/ Estimate(n) <= budget.maxPromptTokens
           IN  /\ prompt.recentSteps = Latest(shown)
               /\ prompt.estimatedTokens = Estimate(shown)
               /\ shown = 0 \/ Fits(shown)
               /\ \A n \in shown + 1 .. Len(compact) : ~Fits(n)
               /\ prompt.truncated <=> shown < Len(compact)
<1> DEFINE prompt == Compose(summaryText, steps, task, budget)
           summary == TrimPromptText(summaryText, budget.maxSummaryChars)
           compact == CompactStepsForPrompt(steps)
           N == Len(compact)
           Latest(n) == SubSeq(compact, N - n + 1, N)
           base == ApproxTokens(task) + ApproxTokens(summary)
           o == Overflow(steps, budget.maxRecentSteps)
           M == N - o
           recent == SubSeq(compact, o + 1, Len(steps))
           estimated == base + TokensOf(recent, Len(recent))
           shed == IF budget.maxPromptTokens > 0
                   THEN Shed(recent, estimated, budget.maxPromptTokens)
                   ELSE [removed |-> 0, estimated |-> estimated]
           left == SubSeq(recent, shed.removed + 1, Len(recent))
<1>1. prompt = [summary |-> summary, recentSteps |-> left, estimatedTokens |-> shed.estimated,
                truncated |-> Len(left) < Len(steps)]
    BY DEF Compose
<1>2. /\ compact \in Seq(StepText(tools)) /\ N = Len(steps) /\ N \in Nat
      /\ \A i \in 1 .. N : StepTokens(compact[i]) \in Int
    BY CompactTokens
<1>3. base \in Int
    <2>1. budget.maxSummaryChars \in Nat
        BY DEF Budget
    <2>2. ApproxTokens(task) \in Nat /\ ApproxTokens(summary) \in Nat
        BY <2>1, TokenTypes
    <2> QED
        BY <2>2
<1>4. budget.maxPromptTokens \in Nat /\ budget.maxRecentSteps \in Nat
    BY DEF Budget
<1> HIDE DEF compact, summary
<1>5. /\ M \in 0 .. N /\ N - M = o
      /\ budget.maxRecentSteps = 0 => M = N
      /\ budget.maxRecentSteps > 0 => M <= budget.maxRecentSteps
      /\ M < N => budget.maxRecentSteps = M /\ M > 0
    BY <1>2, <1>4 DEF Overflow
<1> HIDE DEF M, o
<1>6. recent = Latest(M)
    BY <1>2, <1>5
<1>7. PICK W \in [0 .. N -> Int] :
          \A i \in 1 .. N : W[i] = W[i - 1] + StepTokens(compact[i])
    BY <1>2, TokensSum
<1> DEFINE Sum(n) == base + (W[N] - W[N - n])
<1>8. ASSUME NEW n \in 0 .. N
      PROVE  /\ Len(Latest(n)) = n /\ TokensOf(Latest(n), n) = W[N] - W[N - n]
             /\ Sum(n) \in Int
    <2>1. Len(Latest(n)) = n /\ TokensOf(Latest(n), n) = W[N] - W[N - n]
        <3>1. n \in 0 .. Len(compact) /\ W \in [0 .. Len(compact) -> Int]
            OBVIOUS
        <3>2. PICK D : compact \in Seq(D)
            BY <1>2
        <3>3. Len(Latest(n)) = n
            BY <1>2, <1>7, <3>1, <3>2, TailTokens
        <3>4. TokensOf(Latest(n), n) = W[N] - W[N - n]
            BY <1>2, <1>7, <3>1, <3>2, TailTokens
        <3> QED
            BY <3>3, <3>4
    <2>2. N \in 0 .. N /\ N - n \in 0 .. N
        BY <1>2
    <2>3. W[N] \in Int /\ W[N - n] \in Int
        BY <1>7, <2>2
    <2> QED
        BY <1>3, <2>1, <2>3
<1> HIDE DEF base
<1>9. Len(recent) = M /\ estimated = Sum(M)
    BY <1>5, <1>6, <1>8
<1>10. /\ shed.removed \in 0 .. M /\ shed.estimated = Sum(M - shed.removed)
       /\ \/ shed.removed = M \/ budget.maxPromptTokens = 0
          \/ Sum(M - shed.removed) <= budget.maxPromptTokens
       /\ \A k \in 0 .. shed.removed - 1 :
             budget.maxPromptTokens # 0 /\ ~(Sum(M - k) <= budget.maxPromptTokens)
    <2>1. CASE budget.maxPromptTokens > 0
        <3> DEFINE sh == Shed(Latest(M), Sum(M), budget.maxPromptTokens)
        <3>1. /\ sh.removed \in 0 .. M
              /\ sh.estimated = Sum(M - sh.removed)
              /\ sh.removed = M \/ sh.estimated <= budget.maxPromptTokens
              /\ \A k \in 0 .. sh.removed - 1 : ~(Sum(M - k) <= budget.maxPromptTokens)
            BY <1>2, <1>3, <1>4, <1>5, <1>7, ShedTail
        <3>2. shed = sh
            BY <1>6, <1>9, <2>1
        <3> HIDE DEF shed, sh
        <3> QED
            BY <1>4, <2>1, <3>1, <3>2
    <2>2. CASE ~(budget.maxPromptTokens > 0)
        <3>1. shed = [removed |-> 0, estimated |-> estimated]
            <4> HIDE DEF estimated
            <4> QED BY <2>2
        <3>2. budget.maxPromptTokens = 0
            BY <1>4, <2>2
        <3>3. shed.removed = 0 /\ shed.estimated = estimated /\ budget.maxPromptTokens = 0
            <4> HIDE DEF shed, estimated
            <4> QED BY <3>1, <3>2
        <3>4. M - 0 = M /\ 0 \in 0 .. M /\ 0 .. 0 - 1 = {}
            BY <1>5
        <3> HIDE DEF shed, estimated, Sum
        <3> QED
            BY <1>9, <3>3, <3>4
    <2> QED
        BY <2>1, <2>2
<1> HIDE DEF shed, recent
<1>11. PICK r \in 0 .. M : r = shed.removed
    BY <1>10
<1> DEFINE s == M - r
<1>12. s \in 0 .. N /\ s <= M /\ r \in Nat /\ M \in Nat
    BY <1>2, <1>5
<1>13. left = Latest(s) /\ Len(left) = s
    <2>1. left = SubSeq(Latest(M), r + 1, M)
        BY <1>6, <1>9, <1>11
    <2>2. left = Latest(s)
        BY <1>2, <1>5, <2>1, TailOfTail
    <2> QED
        BY <1>8, <1>12, <2>2
<1> HIDE DEF left
<1> DEFINE Estimate(n) == ApproxTokens(task) + ApproxTokens(prompt.summary)
                          + TokensOf(Latest(n), n)
           Fits(n) == /\ budget.maxRecentSteps \notin 1 .. n - 1
                      /\ \/ budget.maxPromptTokens = 0
                         \/ Estimate(n) <= budget.maxPromptTokens
<1>14. /\ prompt.summary = summary /\ prompt.recentSteps = left
       /\ prompt.estimatedTokens = shed.estimated /\ prompt.truncated = (Len(left) < Len(steps))
    BY <1>1
<1> HIDE DEF prompt
<1>15. \A n \in 0 .. N : Estimate(n) = Sum(n)
    BY <1>8, <1>14 DEF base
<1> HIDE DEF Estimate, Sum, Latest
<1>16. s = 0 \/ Fits(s)
    <2>1. SUFFICES ASSUME s # 0 PROVE Fits(s)
        OBVIOUS
    <2>2. r # M
        BY <1>12, <2>1
    <2>3. budget.maxRecentSteps \notin 1 .. s - 1
        BY <1>4, <1>5, <1>12
    <2>4. budget.maxPromptTokens = 0 \/ Sum(s) <= budget.maxPromptTokens
        BY <1>10, <1>11, <2>2
    <2> QED
        BY <1>12, <1>15, <2>3, <2>4
<1>17. ASSUME NEW n \in s + 1 .. N PROVE ~Fits(n)
    <2>1. n \in 0 .. N /\ n \in Nat
        BY <1>2, <1>12
    <2>2. CASE n > M
        <3>1. M < N
            BY <1>2, <1>12, <2>1, <2>2
        <3>2. budget.maxRecentSteps \in 1 .. n - 1
            BY <1>5, <1>12, <2>1, <2>2, <3>1
        <3> QED
            BY <3>2
    <2>3. CASE n <= M
        <3>1. M - n \in 0 .. r - 1 /\ M - (M - n) = n
            BY <1>12, <1>17, <2>1, <2>3
        <3>2. budget.maxPromptTokens # 0 /\ ~(Sum(n) <= budget.maxPromptTokens)
            BY <1>10, <1>11, <3>1
        <3> QED
            BY <1>15, <2>1, <3>2
    <2> QED
        BY <1>12, <2>1, <2>2, <2>3
<1>18. prompt.estimatedTokens = Estimate(s)
    BY <1>10, <1>11, <1>12, <1>14, <1>15
<1> HIDE DEF Fits, s
<1>19. /\ prompt.recentSteps = Latest(Len(prompt.recentSteps))
       /\ prompt.estimatedTokens = Estimate(Len(prompt.recentSteps))
       /\ Len(prompt.recentSteps) = 0 \/ Fits(Len(prompt.recentSteps))
       /\ \A n \in Len(prompt.recentSteps) + 1 .. N : ~Fits(n)
       /\ prompt.truncated <=> Len(prompt.recentSteps) < N
    BY <1>2, <1>13, <1>14, <1>16, <1>17, <1>18
<1> QED
    BY <1>19 DEF prompt, Latest, Estimate, Fits, compact

(* Who writes records of the session.                                      *)
Writers == ToolNames \cup {"agent_guard", "llm", "store_decision"}

LEMMA TextTypes ==
    ASSUME TypeOK
    PROVE  /\ TextsOf(memory) \in Seq(StepText(Writers))
           /\ setting.budget \in Budget /\ setting.texts.task \in Nat
           /\ setting.texts.summary \in SUBSET Nat
<1>1. setting.budget \in Budget /\ setting.texts \in Texts
    BY AgentAssumption DEF TypeOK
<1>2. /\ setting.texts.task \in Nat /\ setting.texts.summary \in SUBSET Nat
      /\ setting.texts.arguments \in Nat /\ setting.texts.output \in Nat
      /\ setting.texts.error \in Nat
    BY <1>1 DEF Texts
<1>3. ASSUME NEW s \in StepRecord PROVE TextOf(s) \in StepText(Writers)
    <2>1. s.tool \in Writers
        BY DEF StepRecord, Writers
    <2>2. NameLength(s.tool) \in Nat
        <3>1. s.tool \in {"get_review_evidence", "get_review_stats", "retrieve_rag",
                          "get_campaign_context", "agent_guard", "llm", "store_decision"}
            BY <2>1 DEF ToolNames, Writers
        <3>2. PICK tool : tool = s.tool
            OBVIOUS
        <3>3. NameLength(tool) \in Nat
            BY <3>1, <3>2 DEF NameLength
        <3> QED
            BY <3>2, <3>3
    <2> DEFINE a == IF s.tool = "agent_guard" THEN 10 ELSE 9
               g == IF s.tool = "agent_guard" THEN 0 ELSE setting.texts.arguments
               u == IF s.ok \/ s.tool = "agent_guard" THEN setting.texts.output ELSE 0
               e == IF s.ok THEN 0 ELSE setting.texts.error
    <2>3. a \in Nat /\ g \in Nat /\ u \in Nat /\ e \in Nat
        BY <1>2
    <2>4. TextOf(s) = [tool |-> s.tool, toolName |-> NameLength(s.tool), action |-> a,
                       arguments |-> g, output |-> u, error |-> e]
        BY DEF TextOf
    <2> HIDE DEF a, g, u, e
    <2> QED
        BY <2>1, <2>2, <2>3, <2>4 DEF StepText
<1>4. Len(memory) \in Nat /\ \A i \in 1 .. Len(memory) : memory[i] \in StepRecord
    BY DEF TypeOK
<1>5. TextsOf(memory) \in [1 .. Len(memory) -> StepText(Writers)]
    BY <1>3, <1>4 DEF TextsOf
<1>6. TextsOf(memory) \in Seq(StepText(Writers))
    BY <1>4, <1>5
<1> QED
    BY <1>1, <1>2, <1>6

(* Whatever the session holds and whatever the limits of the budget,       *)
(* buildPromptContext shows the model the latest records, as many as the   *)
(* limits allow, with the estimate of exactly these: the removals of       *)
(* Composer.Compose take off what their sum had added.                     *)
THEOREM PromptsAreLongestTails == Spec => []PromptIsLongestTail
<1>1. TypeOK => PromptIsLongestTail
    BY TextTypes, ComposeTail DEF PromptIsLongestTail, BuildPromptContext
<1>2. LoopInv => TypeOK
    BY DEF LoopInv
<1> QED
    BY <1>1, <1>2, LoopInvHolds, PTL
=============================================================================

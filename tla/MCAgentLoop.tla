------------------------------ MODULE MCAgentLoop ------------------------------
(* Instances of AgentLoop for TLC.                                         *)
EXTENDS AgentLoop

CONSTANTS r1, r2

Setting(tools, steps, records, tokens, shown) ==
    [tools |-> tools, maxSteps |-> steps, maxRecentSteps |-> records,
     budget |-> [maxPromptTokens |-> tokens, maxRecentSteps |-> shown, maxSummaryChars |-> 1200],
     texts |-> [task |-> 400, summary |-> {0, 1500}, arguments |-> 120, output |-> 2000,
                error |-> 100]]

(* The campaign tool is registered only with a seckill client.             *)
WithoutCampaign == ToolNames \ {"get_campaign_context"}

(* Room for the evidence of two reviews; and executions long enough for a  *)
(* small window to drop the evidence.                                      *)
WideAndNarrow ==
    {Setting(ToolNames, 4, 8, 2000, 6), Setting(ToolNames, 6, 5, 4000, 3),
     Setting(WithoutCampaign, 6, 5, 0, 0)}

TwoSteps == {Setting(ToolNames, 2, 8, 2000, 6)}
=============================================================================

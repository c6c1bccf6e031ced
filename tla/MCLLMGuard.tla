------------------------------ MODULE MCLLMGuard ------------------------------
(* An instance of LLMGuard for TLC.                                        *)
EXTENDS LLMGuard, TLC

(* Both guards, as configured by default, and each one switched off.       *)
DefaultOrOneOff ==
    {[limiter |-> TRUE, breaker |-> TRUE], [limiter |-> TRUE, breaker |-> FALSE],
     [limiter |-> FALSE, breaker |-> TRUE]}
=============================================================================

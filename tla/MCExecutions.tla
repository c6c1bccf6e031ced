----------------------------- MODULE MCExecutions -----------------------------
(* An instance of Executions for TLC.                                      *)
EXTENDS Executions, TLC

CONSTANTS c1, c2, c3, r1, r2, n1

(* The id the service makes up for the second attempt of c1.               *)
Retry == <<c1, 2>>

Deployed(redis, sessions, steps, a, b, c, names) ==
    [redis |-> redis, maxSessions |-> sessions, maxSteps |-> steps, names |-> names,
     attempts |-> [x \in Callers |-> CASE x = c1 -> a [] x = c2 -> b [] x = c3 -> c]]

(* With Redis, a job of two attempts, which may overlap, and two requests, *)
(* long enough to collect evidence twice; and such a job next to a request *)
(* that may come with the id of the job's retry.  Without, two requests    *)
(* with room for one session; and three, which only collect evidence, with *)
(* room for two.                                                           *)
TheDeployments ==
    {Deployed(TRUE, 1, 3, 2, 0, 0, {n1}), Deployed(TRUE, 1, 3, 1, 1, 0, {n1}),
     Deployed(TRUE, 1, 1, 2, 1, 0, {Retry}),
     Deployed(FALSE, 1, 2, 1, 1, 0, {n1}), Deployed(FALSE, 2, 1, 1, 1, 1, {n1})}

TheNames == {n1, Retry}

ReviewSymmetry == Permutations(Reviews)
=============================================================================

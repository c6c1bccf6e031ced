----------------------------- MODULE MCJobService -----------------------------
(* Small instances of JobService for TLC.  Every instance has one worker   *)
(* and one or two recovery goroutines; each goroutine is a process of its  *)
(* own, so that crashes are independent.                                   *)
EXTENDS JobService, TLC

CONSTANTS j1, j2, w1, c1, c2, r1, r2, e1, s1

OwnProcesses == {{g} : g \in Goroutines}

SameReview == [j \in Jobs |-> r1]
TwoReviews == [j \in Jobs |-> IF j = j1 THEN r1 ELSE r2]
SameSource == [j \in Jobs |-> e1]
NoSources == [j \in Jobs |-> NoSource]
OneScope == [j \in Jobs |-> s1]
NoRetries == [j \in Jobs |-> 0]
OneRetry == [j \in Jobs |-> 1]
=============================================================================

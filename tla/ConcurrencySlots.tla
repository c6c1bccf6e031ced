--------------------------- MODULE ConcurrencySlots ---------------------------
(***************************************************************************)
(* The job service's two-level semaphore: one Redis sorted set for the     *)
(* whole deployment (agent:jobs:semaphore:global) and one per store and    *)
(* activity (agent:jobs:semaphore:scope:...).  A member is the limitToken  *)
(* of one call of process(), its score the time at which its lease lapses. *)
(* Every script runs atomically in Redis and works on the global set and   *)
(* on the caller's own scope set, never on the other scopes' sets, so the  *)
(* two levels can disagree about a token whose lease has lapsed.           *)
(*                                                                         *)
(* Time is abstracted: a score is either in the future or, once Lapse has  *)
(* happened, in the past.  Scores of one token in the two sets are always  *)
(* written together and are equal, so one set "lapsed" serves both.        *)
(***************************************************************************)
EXTENDS Naturals, FiniteSets

CONSTANTS
    Tokens,             \* the values newID() may return for a limitToken
    Scopes,             \* the values of scopeConcurrencyKey(record)
    NoScope,            \* "this token has no releaseConcurrency deferred"
    GlobalConcurrency,  \* cfg.GlobalConcurrency, after NewService's defaults
    ScopeConcurrency    \* cfg.ScopeConcurrency, after NewService's defaults

ASSUME SlotAssumption ==
    /\ IsFiniteSet(Tokens)
    /\ NoScope \notin Scopes
    /\ GlobalConcurrency \in Nat \ {0}
    /\ ScopeConcurrency \in Nat \ {0}

VARIABLES
    global,   \* members of the global sorted set
    scope,    \* members of each scope's sorted set
    lapsed,   \* members of either whose score is in the past
    holding   \* the scope in which a live call of process() has its slot

slotVars == <<global, scope, lapsed, holding>>

SlotTypeOK ==
    /\ global \in SUBSET Tokens
    /\ scope \in [Scopes -> SUBSET Tokens]
    /\ lapsed \in SUBSET Tokens
    /\ holding \in [Tokens -> Scopes \cup {NoScope}]

SlotInit ==
    /\ global = {}
    /\ scope = [s \in Scopes |-> {}]
    /\ lapsed = {}
    /\ holding = [t \in Tokens |-> NoScope]

-----------------------------------------------------------------------------
(* Helpers.                                                                *)

InSlots(t) == t \in global \/ \E s \in Scopes : t \in scope[s]

(* ZREMRANGEBYSCORE -inf now, on the two keys that a script is given.      *)
PurgedGlobal == global \ lapsed
PurgedScope(s) == scope[s] \ lapsed

(* Faulty variant: the caller's scope is never counted.                    *)
BadHasRoom(s) == Cardinality(PurgedGlobal) < GlobalConcurrency

HasRoom(s) ==
    /\ Cardinality(PurgedGlobal) < GlobalConcurrency
    /\ Cardinality(PurgedScope(s)) < ScopeConcurrency

(* A score exists only as long as its member does.                         *)
ForgetScores == lapsed' = {t \in lapsed : InSlots(t)'}

-----------------------------------------------------------------------------
(* One action per script; holding is left to the caller where the answer   *)
(* decides what the caller does next.                                      *)

(* acquireConcurrencyScript, answer 1 (without the reply).                 *)
AddSlot(t, s) ==
    /\ HasRoom(s)
    /\ global' = PurgedGlobal \cup {t}
    /\ scope' = [scope EXCEPT ![s] = PurgedScope(s) \cup {t}]
    /\ ForgetScores

(* acquireConcurrencyScript, answer 0: both purges have happened.          *)
RefuseSlot(s) ==
    /\ ~HasRoom(s)
    /\ global' = PurgedGlobal
    /\ scope' = [scope EXCEPT ![s] = PurgedScope(s)]
    /\ ForgetScores
    /\ UNCHANGED holding

(* The reply arrives and process() defers releaseConcurrency.              *)
AcquireSlot(t, s) == AddSlot(t, s) /\ holding' = [holding EXCEPT ![t] = s]

(* The script ran but its reply was lost: process() returns on the error   *)
(* without having deferred releaseConcurrency.                             *)
AcquireSlotUnanswered(t, s) == AddSlot(t, s) /\ UNCHANGED holding

(* renewConcurrencyLeaseScript, answer 1: only the global set is looked at *)
(* but both sets are written, a scope entry is put back if it has gone.    *)
RenewSlot(t) ==
    /\ holding[t] # NoScope
    /\ t \in global
    /\ scope' = [scope EXCEPT ![holding[t]] = @ \cup {t}]
    /\ lapsed' = lapsed \ {t}
    /\ UNCHANGED <<global, holding>>

(* releaseConcurrencyScript.                                               *)
ReleaseSlot(t) ==
    /\ holding[t] # NoScope
    /\ global' = global \ {t}
    /\ scope' = [scope EXCEPT ![holding[t]] = @ \ {t}]
    /\ holding' = [holding EXCEPT ![t] = NoScope]
    /\ ForgetScores

(* The release call failed (its error is only logged) or the process died: *)
(* the entry stays until its score lapses and somebody purges it.          *)
AbandonSlots(T) ==
    /\ holding' = [t \in Tokens |-> IF t \in T THEN NoScope ELSE holding[t]]
    /\ UNCHANGED <<global, scope, lapsed>>

(* A score passes into the past.                                           *)
Lapse(t) ==
    /\ InSlots(t)
    /\ t \notin lapsed
    /\ lapsed' = lapsed \cup {t}
    /\ UNCHANGED <<global, scope, holding>>

(* PEXPIRE is set to the same span as the score of the last write, so a    *)
(* whole key goes only when every one of its members has lapsed.           *)
ExpireGlobalKey ==
    /\ global # {}
    /\ global \subseteq lapsed
    /\ global' = {}
    /\ UNCHANGED <<scope, holding>>
    /\ ForgetScores

ExpireScopeKey(s) ==
    /\ scope[s] # {}
    /\ scope[s] \subseteq lapsed
    /\ scope' = [scope EXCEPT ![s] = {}]
    /\ UNCHANGED <<global, holding>>
    /\ ForgetScores

-----------------------------------------------------------------------------
(* The semaphore on its own, used by calls that may do anything allowed.   *)

FreshToken(t) == ~InSlots(t) /\ holding[t] = NoScope

SlotNext ==
    \/ \E t \in Tokens, s \in Scopes :
          FreshToken(t) /\ (AcquireSlot(t, s) \/ AcquireSlotUnanswered(t, s))
    \/ \E s \in Scopes : RefuseSlot(s) \/ ExpireScopeKey(s)
    \/ \E t \in Tokens : RenewSlot(t) \/ ReleaseSlot(t) \/ Lapse(t)
    \/ \E T \in SUBSET {t \in Tokens : holding[t] # NoScope} : AbandonSlots(T)
    \/ ExpireGlobalKey

SlotSpec == SlotInit /\ [][SlotNext]_slotVars

-----------------------------------------------------------------------------
(* Tokens that are, or that a renewal can put back, in the set of s.       *)
Charged(s) == scope[s] \cup {t \in global : holding[t] = s}

(* Neither sorted set ever holds more members than its limit, although a   *)
(* renewal adds to the scope set without counting it and the two sets are  *)
(* purged at different times (acquireConcurrencyScript,                    *)
(* renewConcurrencyLeaseScript).                                           *)
SlotLimits ==
    /\ Cardinality(global) <= GlobalConcurrency
    /\ \A s \in Scopes : Cardinality(scope[s]) <= ScopeConcurrency

(* A slot that has not lapsed counts at both levels: no call runs on a     *)
(* global slot that its scope's limit does not see.                        *)
LevelsAgree ==
    \A t \in global : holding[t] # NoScope /\ t \notin lapsed => t \in scope[holding[t]]

(* The strengthening of SlotLimits that every script preserves.            *)
SlotInv ==
    /\ SlotTypeOK
    /\ Cardinality(global) <= GlobalConcurrency
    /\ \A s \in Scopes : Cardinality(Charged(s)) <= ScopeConcurrency
    /\ LevelsAgree
    /\ \A t \in lapsed : InSlots(t)
=============================================================================

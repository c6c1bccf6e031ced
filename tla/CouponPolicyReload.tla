-------------------------- MODULE CouponPolicyReload --------------------------
(***************************************************************************)
(* The hot reload of the coupon policy (CouponPolicyProvider in            *)
(* internal/agent/coupon_policy.go).  Every finalization asks the provider *)
(* for the current policy, from goroutines of its own; each of them may    *)
(* find that the file is due for a look and reload it.  Stat, read and the *)
(* update under the mutex are separate steps, and only the update is       *)
(* protected: lastLoad and lastMod are read without the mutex.             *)
(*                                                                         *)
(* A policy is identified by the modification time of the file it was read *)
(* from, 0 being the default policy.  Writers of the file are external: a  *)
(* write gives the file a later modification time, and leaves it valid, or *)
(* half written or wrong (reloadIfNeeded then fails), or removes it.  Hot  *)
(* reload is enabled; without it the policy never changes after Init.      *)
(***************************************************************************)
EXTENDS Naturals

CONSTANTS
    Callers,     \* goroutines that ask for the policy
    MaxWrites    \* bound on the number of writes to the file

ASSUME PolicyAssumption == MaxWrites \in Nat

VARIABLES
    file,      \* the policy file
    policy,    \* p.policy
    lastMod,   \* p.lastMod
    due,       \* reloadEvery has passed since p.lastLoad
    caller     \* what each goroutine does in reloadIfNeeded

vars == <<file, policy, lastMod, due, caller>>

Caller == [pc : {"idle", "stat", "read", "store"}, mod : Nat, content : Nat]

IdleCaller == [pc |-> "idle", mod |-> 0, content |-> 0]

TypeOK ==
    /\ file \in [mod : Nat, exists : BOOLEAN, valid : BOOLEAN]
    /\ policy \in Nat
    /\ lastMod \in Nat
    /\ due \in BOOLEAN
    /\ caller \in [Callers -> Caller]

(* NewCouponPolicyProvider: the forced reload of a file that may be there  *)
(* and may be valid; otherwise the default policy, due at once because     *)
(* lastLoad is zero.                                                       *)
Init ==
    /\ file \in {[mod |-> 1, exists |-> e, valid |-> v] : e, v \in BOOLEAN}
    /\ policy = (IF file.exists /\ file.valid THEN 1 ELSE 0)
    /\ lastMod = policy
    /\ due = (policy = 0)
    /\ caller = [c \in Callers |-> IdleCaller]

-----------------------------------------------------------------------------
GoesOn(c, state) == caller' = [caller EXCEPT ![c] = state]

WriteFile ==
    /\ file.mod <= MaxWrites
    /\ \E e, v \in BOOLEAN : file' = [mod |-> file.mod + 1, exists |-> e, valid |-> v]
    /\ UNCHANGED <<policy, lastMod, due, caller>>

Tick ==
    /\ ~due
    /\ due' = TRUE
    /\ UNCHANGED <<file, policy, lastMod, caller>>

(* lastLoad and lastMod are read while another caller may be writing them: *)
(* a comparison with them may then come out either way.                    *)
Racing(c) == \E d \in Callers \ {c} : caller[d].pc = "store"

(* current(): the policy is returned as it is unless a look is due.        *)
Begin(c) ==
    /\ caller[c].pc = "idle"
    /\ due \/ Racing(c)
    /\ GoesOn(c, [caller[c] EXCEPT !.pc = "stat"])
    /\ UNCHANGED <<file, policy, lastMod, due>>

(* os.Stat and the comparison with lastMod.  An error leaves lastLoad.     *)
Stat(c) ==
    /\ caller[c].pc = "stat"
    /\ \/ /\ ~file.exists
          /\ GoesOn(c, IdleCaller)
          /\ UNCHANGED due
       \/ /\ file.exists
          /\ file.mod <= lastMod \/ Racing(c)
          /\ GoesOn(c, IdleCaller)
          /\ due' = FALSE
       \/ /\ file.exists
          /\ file.mod > lastMod \/ Racing(c)
          /\ GoesOn(c, [caller[c] EXCEPT !.pc = "read", !.mod = file.mod])
          /\ UNCHANGED due
    /\ UNCHANGED <<file, policy, lastMod>>

(* os.ReadFile, json.Unmarshal and the check of version and scenes.        *)
Read(c) ==
    /\ caller[c].pc = "read"
    /\ \/ /\ file.exists /\ file.valid
          /\ GoesOn(c, [caller[c] EXCEPT !.pc = "store", !.content = file.mod])
       \/ /\ ~(file.exists /\ file.valid)
          /\ GoesOn(c, IdleCaller)
    /\ UNCHANGED <<file, policy, lastMod, due>>

(* Faulty variant: the modification time is that of the file by now.       *)
BadStore(c) ==
    /\ caller[c].pc = "store"
    /\ policy' = caller[c].content
    /\ lastMod' = file.mod
    /\ due' = FALSE
    /\ GoesOn(c, IdleCaller)
    /\ UNCHANGED file

(* The update under the mutex: the policy that was read, the modification  *)
(* time that was seen before.                                              *)
Store(c) ==
    /\ caller[c].pc = "store"
    /\ policy' = caller[c].content
    /\ lastMod' = caller[c].mod
    /\ due' = FALSE
    /\ GoesOn(c, IdleCaller)
    /\ UNCHANGED file

-----------------------------------------------------------------------------
Reload(c) == Begin(c) \/ Stat(c) \/ Read(c) \/ Store(c)

Next == WriteFile \/ Tick \/ \E c \in Callers : Reload(c)

Spec == Init /\ [][Next]_vars

(* lastMod never claims more than the policy has: a file that is newer     *)
(* than the policy in force is newer than lastMod too, so that a later     *)
(* look reloads it, however callers and writers overtake each other.       *)
NeverTooSure ==
    /\ lastMod <= policy
    /\ policy <= file.mod

(* The strengthening that the steps of reloadIfNeeded preserve.            *)
PolicyInv ==
    /\ TypeOK
    /\ NeverTooSure
    /\ \A c \in Callers : caller[c].pc \in {"read", "store"} => caller[c].mod <= file.mod
    /\ \A c \in Callers : caller[c].pc = "store" =>
          caller[c].mod <= caller[c].content /\ caller[c].content <= file.mod

-----------------------------------------------------------------------------
(* Finalizations keep coming, their goroutines run, and time passes.       *)
Fairness ==
    /\ \A c \in Callers : WF_vars(Reload(c))
    /\ WF_vars(Tick)

FairSpec == Spec /\ Fairness

(* A valid file that stays as it is becomes the policy for good, although  *)
(* a slow reload may first put an older one back.                          *)
EventuallyCurrent ==
    \A m \in 1 .. MaxWrites + 1 :
        <>[](file = [mod |-> m, exists |-> TRUE, valid |-> TRUE]) => <>[](policy = m)
=============================================================================

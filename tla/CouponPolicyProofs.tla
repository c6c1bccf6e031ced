-------------------------- MODULE CouponPolicyProofs --------------------------
(***************************************************************************)
(* For any number of goroutines and of writes to the file, lastMod never   *)
(* runs ahead of the policy in force.                                      *)
(***************************************************************************)
EXTENDS CouponPolicyReload, TLAPS

USE PolicyAssumption

LEMMA PolicyInvInit == Init => PolicyInv
BY DEF Init, PolicyInv, TypeOK, NeverTooSure, Caller, IdleCaller

LEMMA PolicyInvStep == PolicyInv /\ [Next]_vars => PolicyInv'
<1> SUFFICES ASSUME PolicyInv, [Next]_vars PROVE PolicyInv'
    OBVIOUS
<1> USE DEF PolicyInv, TypeOK, NeverTooSure
<1>1. CASE WriteFile
    <2>1. PICK e \in BOOLEAN, v \in BOOLEAN :
              file' = [mod |-> file.mod + 1, exists |-> e, valid |-> v]
        BY <1>1 DEF WriteFile
    <2>2. file.mod' = file.mod + 1 /\ UNCHANGED <<policy, lastMod, due, caller>>
        BY <1>1, <2>1 DEF WriteFile
    <2> QED BY <2>1, <2>2 DEF Caller
<1>2. CASE Tick
    BY <1>2 DEF Tick
<1>3. ASSUME NEW c \in Callers, Begin(c) PROVE PolicyInv'
    BY <1>3 DEF Begin, GoesOn, Caller
<1>4. ASSUME NEW c \in Callers, Stat(c) PROVE PolicyInv'
    <2>1. UNCHANGED <<file, policy, lastMod>>
        BY <1>4 DEF Stat
    <2>2. CASE caller' = [caller EXCEPT ![c] = IdleCaller] /\ due' \in BOOLEAN
        BY <2>1, <2>2 DEF Caller, IdleCaller
    <2>3. CASE /\ caller' = [caller EXCEPT ![c] = [caller[c] EXCEPT !.pc = "read",
                                                                    !.mod = file.mod]]
               /\ UNCHANGED due
        <3> DEFINE s == [caller[c] EXCEPT !.pc = "read", !.mod = file.mod]
        <3>1. s \in Caller /\ s.pc = "read" /\ s.mod = file.mod
            BY DEF Caller
        <3>2. caller' = [caller EXCEPT ![c] = s]
            BY <2>3
        <3> HIDE DEF s
        <3> QED BY <2>1, <2>3, <3>1, <3>2
    <2> QED BY <1>4, <2>2, <2>3 DEF Stat, GoesOn
<1>5. ASSUME NEW c \in Callers, Read(c) PROVE PolicyInv'
    <2>1. UNCHANGED <<file, policy, lastMod, due>> /\ caller[c].pc = "read"
        BY <1>5 DEF Read
    <2>2. CASE caller' = [caller EXCEPT ![c] = IdleCaller]
        BY <2>1, <2>2 DEF Caller, IdleCaller
    <2>3. CASE caller' = [caller EXCEPT ![c] = [caller[c] EXCEPT !.pc = "store",
                                                                 !.content = file.mod]]
        <3> DEFINE s == [caller[c] EXCEPT !.pc = "store", !.content = file.mod]
        <3>1. s \in Caller /\ s.pc = "store" /\ s.mod = caller[c].mod /\ s.content = file.mod
            BY DEF Caller
        <3>2. caller' = [caller EXCEPT ![c] = s]
            BY <2>3
        <3> HIDE DEF s
        <3> QED BY <2>1, <3>1, <3>2
    <2> QED BY <1>5, <2>2, <2>3 DEF Read, GoesOn
<1>6. ASSUME NEW c \in Callers, Store(c) PROVE PolicyInv'
    BY <1>6 DEF Store, GoesOn, Caller, IdleCaller
<1>7. CASE UNCHANGED vars
    BY <1>7 DEF vars
<1> QED BY <1>1, <1>2, <1>3, <1>4, <1>5, <1>6, <1>7 DEF Next, Reload

(* Whatever the goroutines of reloadIfNeeded and the writers of the policy *)
(* file do between each other's steps, what was loaded is at least as new  *)
(* as lastMod says.                                                        *)
THEOREM PolicyNeverTooSure == Spec => []NeverTooSure
<1>1. PolicyInv => NeverTooSure
    BY DEF PolicyInv
<1> QED BY PolicyInvInit, PolicyInvStep, <1>1, PTL DEF Spec
=============================================================================

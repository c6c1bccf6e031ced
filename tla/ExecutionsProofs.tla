-------------------------- MODULE ExecutionsProofs --------------------------
(* Proofs about Executions, for every number of callers, attempts, reviews *)
(* and supplied ids.                                                       *)
EXTENDS Executions, FiniteSetTheorems, SequenceTheorems, TLAPS

(* An execution that nobody shares an id with has a scope of its own.      *)
LEMMA ScopeIsOwn ==
    ASSUME Typed, NEW r \in Runs, NEW q \in Runs, r # q, Alone(r)
    PROVE  ScopeOf(r) # ScopeOf(q)
<1>1. /\ r = <<r[1], r[2]>> /\ q = <<q[1], q[2]>> /\ r[1] \in Callers /\ q[1] \in Callers
      /\ r[2] \in 1 .. MaxAttempts /\ q[2] \in 1 .. MaxAttempts
      BY DEF Runs
<1>2. requested[r[1]] \in Names \cup {NoName} /\ requested[q[1]] \in Names \cup {NoName}
      BY <1>1 DEF Typed
<1>3. CASE ~(r[2] = 1 /\ requested[r[1]] # NoName)
  <2>1. ScopeOf(r) = r /\ \A c \in Callers : requested[c] # r
        BY <1>3 DEF ScopeOf, Alone
  <2> QED BY <1>1, <2>1 DEF ScopeOf
<1>4. CASE r[2] = 1 /\ requested[r[1]] # NoName
  <2>1. r[2] = 1 /\ requested[r[1]] # NoName /\ ScopeOf(r) = requested[r[1]]
        BY <1>4 DEF ScopeOf
  <2>2. /\ requested[r[1]] \notin Runs \ {r}
        /\ \A c \in Callers \ {r[1]} : requested[c] # requested[r[1]]
        BY <2>1 DEF Alone
  <2>3. CASE ScopeOf(q) = q
        BY <2>1, <2>2, <2>3
  <2>4. CASE ScopeOf(q) # q
    <3>1. q[2] = 1 /\ ScopeOf(q) = requested[q[1]]
          BY <2>4 DEF ScopeOf
    <3>2. q[1] # r[1]
          BY <3>1, <2>1, <1>1
    <3> QED BY <3>1, <3>2, <2>1, <2>2, <1>1
  <2> QED BY <2>3, <2>4
<1> QED BY <1>3, <1>4

LEMMA ScopeType == ASSUME Typed, NEW r \in Runs PROVE ScopeOf(r) \in Scopes
<1>1. r[1] \in Callers /\ requested[r[1]] \in Names \cup {NoName}
      BY DEF Runs, Typed
<1> QED BY <1>1 DEF ScopeOf, Scopes

(* Suffixes.                                                               *)
LEMMA EmptyIsSuffix == ASSUME NEW t \in Seq(Record) PROVE IsSuffix(<< >>, t)
BY DEF IsSuffix

LEMMA AppendedSuffix ==
    ASSUME NEW s \in Seq(Record), NEW t \in Seq(Record), NEW e \in Record, IsSuffix(s, t)
    PROVE  IsSuffix(Append(s, e), Append(t, e))
<1>1. /\ Len(Append(s, e)) = Len(s) + 1 /\ Len(Append(t, e)) = Len(t) + 1
      /\ Len(s) \in Nat /\ Len(t) \in Nat /\ Len(s) <= Len(t)
      BY DEF IsSuffix
<1>2. ASSUME NEW i \in 1 .. Len(s) + 1
      PROVE  Append(s, e)[i] = Append(t, e)[Len(t) - Len(s) + i]
  <2>1. CASE i = Len(s) + 1
    <3>1. Len(t) - Len(s) + i = Len(t) + 1
          BY <2>1, <1>1
    <3> QED BY <2>1, <3>1
  <2>2. CASE i # Len(s) + 1
    <3>1. i \in 1 .. Len(s) /\ Len(t) - Len(s) + i \in 1 .. Len(t)
          BY <2>2, <1>1
    <3> QED BY <3>1, <1>1 DEF IsSuffix
  <2> QED BY <2>1, <2>2
<1> DEFINE a == Append(s, e)
           b == Append(t, e)
<1>3. /\ Len(a) = Len(s) + 1 /\ Len(b) = Len(t) + 1
      /\ \A i \in 1 .. Len(s) + 1 : a[i] = b[Len(t) - Len(s) + i]
      BY <1>1, <1>2
<1> HIDE DEF a, b
<1>4. \A i \in 1 .. Len(a) : a[i] = b[Len(b) - Len(a) + i]
  <2> TAKE i \in 1 .. Len(a)
  <2>1. Len(b) - Len(a) + i = Len(t) - Len(s) + i
        BY <1>1, <1>3
  <2> QED BY <1>3, <2>1
<1>5. Len(a) <= Len(b)
      BY <1>1, <1>3
<1>6. IsSuffix(a, b)
      BY <1>4, <1>5 DEF IsSuffix
<1> QED BY <1>6 DEF a, b

(* A step of one execution, to n, with w stored by it so far.  What the    *)
(* others must find: their sessions as they were, or empty, and the locks  *)
(* they hold.                                                              *)
LEMMA OneRunMoves ==
    ASSUME ExecInv, NEW r \in Runs, NEW n \in Run, NEW w \in Seq(Record),
           Becomes(r, n), wrote' = [wrote EXCEPT ![r] = w],
           UNCHANGED <<deployment, requested>>,
           session' \in [Scopes -> Seq(Record)],
           lock' \in [Reviews -> Runs \cup {Nobody}],
           \A q \in Runs : q # r /\ Alone(q) =>
               session'[ScopeOf(q)] \in {session[ScopeOf(q)], << >>},
           \A q \in Runs : /\ q # r /\ deployment.redis /\ run[q].pc = "hold" /\ ~run[q].lost
                           => lock'[run[q].review] = q,
           \A i \in 1 .. Len(w) : w[i].by = r,
           n.pc # "idle",
           n.pc \notin {"idle", "done", "failed", "dead"} /\ Alone(r)
               => IsSuffix(session'[ScopeOf(r)], w),
           n.pc = "save" /\ Alone(r) => IsSuffix(n.loaded, w),
           n.pc \in {"lock", "hold"} => n.review \in Reviews,
           n.pc \in {"lock", "hold"} /\ Alone(r) =>
               \E i \in 1 .. Len(w) : w[i] = [by |-> r, review |-> n.review],
           deployment.redis /\ n.pc = "hold" /\ ~n.lost => lock'[n.review] = r
    PROVE  ExecInv'
<1>1. /\ run' \in [Runs -> Run] /\ run'[r] = n /\ \A q \in Runs \ {r} : run'[q] = run[q]
      /\ wrote' \in [Runs -> Seq(Record)] /\ wrote'[r] = w
      /\ \A q \in Runs \ {r} : wrote'[q] = wrote[q]
      BY DEF ExecInv, Typed, Becomes
<1>2. Typed'
      BY <1>1 DEF ExecInv, Typed, Scopes, Runs, Record
<1>3. \A q \in Runs : /\ Alone(q)' <=> Alone(q)
                      /\ ScopeOf(q)' = ScopeOf(q)
                      /\ q # r => (Active(q)' <=> Active(q))
      BY <1>1 DEF Alone, ScopeOf, Active
<1>4. WritesAreOwn' /\ ScopesStartEmpty'
      BY <1>1, <1>3 DEF ExecInv, WritesAreOwn, ScopesStartEmpty
<1>5. SessionIsOwn'
  <2> SUFFICES ASSUME NEW q \in Runs, Active(q)', Alone(q)'
               PROVE  IsSuffix(session[ScopeOf(q)], wrote[q])'
      BY DEF SessionIsOwn
  <2>1. Alone(q) /\ ScopeOf(q)' = ScopeOf(q)
        BY <1>3
  <2> SUFFICES IsSuffix(session'[ScopeOf(q)], wrote'[q])
      BY <2>1 DEF IsSuffix
  <2>2. CASE q = r
        BY <2>1, <2>2, <1>1 DEF Active
  <2>3. CASE q # r
    <3>1. IsSuffix(session[ScopeOf(q)], wrote[q])
          BY <2>1, <2>3, <1>3 DEF ExecInv, SessionIsOwn
    <3>2. IsSuffix(<< >>, wrote[q])
          BY EmptyIsSuffix DEF ExecInv, Typed
    <3>3. wrote'[q] = wrote[q] /\ session'[ScopeOf(q)] \in {session[ScopeOf(q)], << >>}
          BY <2>1, <2>3, <1>1
    <3> QED BY <3>1, <3>2, <3>3
  <2> QED BY <2>2, <2>3
<1>6. LoadedIsOwn'
  <2> SUFFICES ASSUME NEW q \in Runs, run'[q].pc = "save", Alone(q)
               PROVE  IsSuffix(run'[q].loaded, wrote'[q])
      BY <1>3 DEF LoadedIsOwn, IsSuffix
  <2>1. CASE q = r
        BY <2>1, <1>1
  <2>2. CASE q # r
        BY <2>2, <1>1 DEF ExecInv, LoadedIsOwn
  <2> QED BY <2>1, <2>2
<1>7. FinalizesOwnEvidence'
  <2> SUFFICES ASSUME NEW q \in Runs, run'[q].pc \in {"lock", "hold"}, Alone(q)
               PROVE  \E i \in 1 .. Len(wrote'[q]) :
                         wrote'[q][i] = [by |-> q, review |-> run'[q].review]
      BY <1>3 DEF FinalizesOwnEvidence
  <2>1. CASE q = r
        BY <2>1, <1>1
  <2>2. CASE q # r
    <3>1. run'[q] = run[q] /\ wrote'[q] = wrote[q]
          BY <2>2, <1>1
    <3>2. \E i \in 1 .. Len(wrote[q]) : wrote[q][i] = [by |-> q, review |-> run[q].review]
          BY <3>1 DEF ExecInv, FinalizesOwnEvidence
    <3> QED BY <3>1, <3>2
  <2> QED BY <2>1, <2>2
<1>8. LockIsHeld'
      BY <1>1 DEF ExecInv, LockIsHeld
<1> QED BY <1>2, <1>4, <1>5, <1>6, <1>7, <1>8 DEF ExecInv

-----------------------------------------------------------------------------
(* The store: every other session is left alone or lost.                   *)

LEMMA PutEffect ==
    ASSUME Typed, NEW k \in Scopes, NEW steps \in Seq(Record),
           PutInRedis(k, steps) \/ PutInMemory(k, steps)
    PROVE  /\ session' \in [Scopes -> Seq(Record)]
           /\ \A s \in Scopes \ {k} : session'[s] \in {session[s], << >>}
           /\ session'[k] \in {steps, << >>}
<1>1. CASE PutInRedis(k, steps)
      BY <1>1 DEF PutInRedis, Typed
<1>2. CASE PutInMemory(k, steps)
  <2>1. PICK gone : session' = [s \in Scopes |-> IF s \in gone THEN << >>
                                                 ELSE IF s = k THEN steps ELSE session[s]]
        BY <1>2 DEF PutInMemory
  <2>2. << >> \in Seq(Record)
        OBVIOUS
  <2> QED BY <2>1, <2>2 DEF Typed
<1> QED BY <1>1, <1>2

LEMMA LoadEffect ==
    ASSUME Typed, NEW k \in Scopes, NEW history, Load(k, history)
    PROVE  /\ session' \in [Scopes -> Seq(Record)]
           /\ \A s \in Scopes : session'[s] \in {session[s], << >>}
           /\ history \in {session[k], << >>}
<1>1. CASE history \in {session[k], << >>} /\ UNCHANGED storeVars
      BY <1>1 DEF storeVars, Typed
<1>2. CASE history = << >> /\ session' = [session EXCEPT ![k] = << >>]
  <2>1. << >> \in Seq(Record)
        OBVIOUS
  <2> QED BY <1>2, <2>1 DEF Typed
<1> QED BY <1>1, <1>2 DEF Load

(* The other executions see an effect on one scope as OneRunMoves asks.    *)
LEMMA OthersUnaffected ==
    ASSUME Typed, NEW r \in Runs, NEW q \in Runs, q # r, Alone(q),
           \A s \in Scopes \ {ScopeOf(r)} : session'[s] \in {session[s], << >>}
    PROVE  session'[ScopeOf(q)] \in {session[ScopeOf(q)], << >>}
BY ScopeIsOwn, ScopeType

-----------------------------------------------------------------------------
(* Assigning fields of an execution.                                       *)
LEMMA RunUpdates ==
    ASSUME NEW r \in Run
    PROVE  /\ \A pc \in Points : [r EXCEPT !.pc = pc] \in Run
           /\ \A x \in Reviews \cup {NoReview} : [r EXCEPT !.todo = x] \in Run
           /\ \A x \in Reviews \cup {NoReview} : [r EXCEPT !.review = x] \in Run
           /\ \A x \in Seq(Record) : [r EXCEPT !.loaded = x] \in Run
           /\ \A x \in Nat : [r EXCEPT !.step = x] \in Run
           /\ \A x \in BOOLEAN : [r EXCEPT !.lost = x] \in Run
           /\ \A x \in {"look", "done", "failed"} : [r EXCEPT !.then = x] \in Run
BY DEF Run

LEMMA IdleIsRun == Idle \in Run
<1>1. << >> \in Seq(Record)
      OBVIOUS
<1> QED BY <1>1 DEF Idle, Run, Points

(* An execution ends: nothing is claimed of it any more.                   *)
LEMMA EndKeeps ==
    ASSUME ExecInv, NEW r \in Runs, NEW pc \in {"done", "failed", "dead"}, Ends(r, pc),
           UNCHANGED <<deployment, requested, lock>>,
           session' \in [Scopes -> Seq(Record)],
           \A s \in Scopes \ {ScopeOf(r)} : session'[s] \in {session[s], << >>}
    PROVE  ExecInv'
<1>1. PICK n : n = [Idle EXCEPT !.pc = pc]
      OBVIOUS
<1>2. n \in Run
      BY <1>1, IdleIsRun, RunUpdates DEF Points
<1>3. n.pc = pc
      BY <1>1 DEF Idle
<1>4. << >> \in Seq(Record) /\ \A i \in 1 .. Len(<< >>) : << >>[i].by = r
      OBVIOUS
<1>5. \A q \in Runs : q # r /\ Alone(q) => session'[ScopeOf(q)] \in {session[ScopeOf(q)], << >>}
      BY OthersUnaffected DEF ExecInv
<1>6. Becomes(r, n) /\ wrote' = [wrote EXCEPT ![r] = << >>]
      BY <1>1 DEF Ends
<1>7. lock' \in [Reviews -> Runs \cup {Nobody}]
      BY DEF ExecInv, Typed
<1>8. \A q \in Runs : /\ q # r /\ deployment.redis /\ run[q].pc = "hold" /\ ~run[q].lost
                      => lock'[run[q].review] = q
      BY DEF ExecInv, LockIsHeld
<1> QED BY <1>2, <1>3, <1>4, <1>5, <1>6, <1>7, <1>8, OneRunMoves

(* An execution goes on without writing, at most losing sessions.          *)
LEMMA MoveKeeps ==
    ASSUME ExecInv, NEW r \in Runs, Active(r), NEW n \in Run, Becomes(r, n),
           n.pc \notin {"idle", "save", "lock", "hold"},
           UNCHANGED <<deployment, requested, wrote>>,
           session' \in [Scopes -> Seq(Record)],
           \A s \in Scopes : session'[s] \in {session[s], << >>},
           lock' \in [Reviews -> Runs \cup {Nobody}],
           \A q \in Runs : /\ q # r /\ deployment.redis /\ run[q].pc = "hold" /\ ~run[q].lost
                           => lock'[run[q].review] = q
    PROVE  ExecInv'
<1>1. wrote[r] \in Seq(Record) /\ wrote' = [wrote EXCEPT ![r] = wrote[r]]
      BY DEF ExecInv, Typed
<1>2. \A i \in 1 .. Len(wrote[r]) : wrote[r][i].by = r
      BY DEF ExecInv, WritesAreOwn
<1>3. \A q \in Runs : Alone(q) => session'[ScopeOf(q)] \in {session[ScopeOf(q)], << >>}
      BY ScopeType DEF ExecInv
<1>4. Alone(r) => IsSuffix(session'[ScopeOf(r)], wrote[r])
  <2>1. Alone(r) => IsSuffix(session[ScopeOf(r)], wrote[r])
        BY DEF ExecInv, SessionIsOwn
  <2>2. IsSuffix(<< >>, wrote[r])
        BY <1>1, EmptyIsSuffix
  <2> QED BY <1>3, <2>1, <2>2
<1>5. PICK w \in Seq(Record) : w = wrote[r]
      BY <1>1
<1> QED BY <1>1, <1>2, <1>3, <1>4, <1>5, OneRunMoves

-----------------------------------------------------------------------------
(* Every action keeps the invariant.                                       *)

(* What a step that leaves lock and store alone gives the lemmas above.    *)
LEMMA Quiet ==
    ASSUME ExecInv
    PROVE  /\ lock \in [Reviews -> Runs \cup {Nobody}]
           /\ \A q \in Runs : deployment.redis /\ run[q].pc = "hold" /\ ~run[q].lost
                              => lock[run[q].review] = q
           /\ session \in [Scopes -> Seq(Record)]
           /\ \A r \in Runs : run[r] \in Run /\ wrote[r] \in Seq(Record)
BY DEF ExecInv, Typed, LockIsHeld

LEMMA BeginKeeps ==
    ASSUME ExecInv, NEW r \in Runs, Begin(r)
    PROVE  ExecInv'
<1>1. ScopeOf(r) \in Scopes /\ << >> \in Seq(Record)
      BY ScopeType DEF ExecInv
<1>2. \/ PutInRedis(ScopeOf(r), << >>) \/ PutInMemory(ScopeOf(r), << >>)
      \/ UNCHANGED session
      BY DEF Begin, Put, storeVars
<1>3. /\ session' \in [Scopes -> Seq(Record)]
      /\ \A s \in Scopes \ {ScopeOf(r)} : session'[s] \in {session[s], << >>}
      /\ Alone(r) => session'[ScopeOf(r)] = << >>
  <2>1. CASE UNCHANGED session
    <3>1. Alone(r) => session[ScopeOf(r)] = << >>
          BY DEF Begin, ExecInv, ScopesStartEmpty
    <3> QED BY <2>1, <3>1, Quiet
  <2>2. CASE PutInRedis(ScopeOf(r), << >>) \/ PutInMemory(ScopeOf(r), << >>)
        BY <1>1, <2>2, PutEffect DEF ExecInv
  <2> QED BY <1>2, <2>1, <2>2
<1>4. PICK n : n = [Idle EXCEPT !.pc = "look", !.step = 1]
      OBVIOUS
<1>5. n.pc = "look"
      BY <1>4 DEF Idle
<1>6. n \in Run
  <2>1. "look" \in Points /\ 1 \in Nat
        BY DEF Points
  <2>2. [Idle EXCEPT !.pc = "look"] \in Run
        BY <2>1, IdleIsRun, RunUpdates, Zenon
  <2>3. [[Idle EXCEPT !.pc = "look"] EXCEPT !.step = 1] \in Run
        BY <2>1, <2>2, RunUpdates, Zenon
  <2> QED BY <1>4, <2>3, Zenon
<1>7. /\ Becomes(r, n) /\ UNCHANGED <<deployment, requested, lock>>
      /\ wrote' = [wrote EXCEPT ![r] = wrote[r]]
      BY <1>4 DEF Begin, ExecInv, Typed
<1>8. PICK w \in Seq(Record) : w = wrote[r]
      BY Quiet
<1>9. Alone(r) => IsSuffix(session'[ScopeOf(r)], w)
      BY <1>3, EmptyIsSuffix
<1>10. \A i \in 1 .. Len(w) : w[i].by = r
       BY <1>8 DEF ExecInv, WritesAreOwn
<1>11. \A q \in Runs : q # r /\ Alone(q) => session'[ScopeOf(q)] \in {session[ScopeOf(q)], << >>}
       BY <1>3, OthersUnaffected DEF ExecInv
<1>12. /\ lock' \in [Reviews -> Runs \cup {Nobody}]
       /\ \A q \in Runs : deployment.redis /\ run[q].pc = "hold" /\ ~run[q].lost
                          => lock'[run[q].review] = q
       BY <1>7, Quiet
<1> QED BY <1>3, <1>5, <1>6, <1>7, <1>8, <1>9, <1>10, <1>11, <1>12, OneRunMoves

LEMMA LoopStepKeeps ==
    ASSUME ExecInv, NEW r \in Runs, LoopStep(r)
    PROVE  ExecInv'
<1>1. PICK history : Load(ScopeOf(r), history)
      BY DEF LoopStep
<1>2. session' \in [Scopes -> Seq(Record)] /\ \A s \in Scopes : session'[s] \in {session[s], << >>}
      BY <1>1, ScopeType, LoadEffect DEF ExecInv
<1>3. run[r] \in Run /\ Active(r) /\ UNCHANGED <<deployment, requested, lock, wrote>>
      BY Quiet DEF LoopStep, Active
<1>4. ASSUME NEW x \in Reviews \cup {NoReview}
      PROVE  [run[r] EXCEPT !.pc = "append", !.todo = x, !.step = @ + 1] \in Run
  <2>1. "append" \in Points /\ run[r].step \in Nat /\ run[r].step + 1 \in Nat
        BY <1>3 DEF Points, Run
  <2> DEFINE a == [run[r] EXCEPT !.pc = "append"]
             b == [a EXCEPT !.todo = x]
  <2>2. a \in Run
        BY <1>3, <2>1, RunUpdates, Zenon
  <2>3. b \in Run
        BY <2>2, RunUpdates, Zenon
  <2>4. [b EXCEPT !.step = run[r].step + 1] \in Run
        BY <2>1, <2>3, RunUpdates, Zenon
  <2>5. b.step = run[r].step
        BY <1>3 DEF Run
  <2>6. [run[r] EXCEPT !.pc = "append", !.todo = x, !.step = @ + 1]
        = [b EXCEPT !.step = run[r].step + 1]
        BY <1>3 DEF Run
  <2> QED BY <2>4, <2>6, Zenon
<1>5. PICK n \in Run : Becomes(r, n) /\ n.pc \in {"append", "final"}
  <2>1. CASE \E x \in Reviews \cup {NoReview} :
                Becomes(r, [run[r] EXCEPT !.pc = "append", !.todo = x, !.step = @ + 1])
    <3>1. PICK x \in Reviews \cup {NoReview} :
             Becomes(r, [run[r] EXCEPT !.pc = "append", !.todo = x, !.step = @ + 1])
          BY <2>1
    <3>2. [run[r] EXCEPT !.pc = "append", !.todo = x, !.step = @ + 1].pc = "append"
          BY <1>3 DEF Run
    <3> QED BY <3>1, <3>2, <1>4, Zenon
  <2>2. CASE At(r, "final")
    <3>1. [run[r] EXCEPT !.pc = "final"] \in Run /\ [run[r] EXCEPT !.pc = "final"].pc = "final"
          BY <1>3 DEF Run, Points
    <3> QED BY <2>2, <3>1 DEF At
  <2> QED BY <2>1, <2>2 DEF LoopStep
<1> QED BY <1>2, <1>3, <1>5, MoveKeeps, Quiet

LEMMA EndingsKeep ==
    ASSUME ExecInv, NEW r \in Runs, GiveUp(r) \/ Fail(r) \/ Crash(r)
    PROVE  ExecInv'
<1>1. /\ UNCHANGED <<deployment, requested, lock, session>>
      /\ Ends(r, "done") \/ Ends(r, "failed") \/ Ends(r, "dead")
      BY DEF GiveUp, Fail, Crash, storeVars
<1> QED BY <1>1, EndKeeps, Quiet

(* The record an execution appends.                                        *)
LEMMA RecordType ==
    ASSUME ExecInv, NEW r \in Runs, NEW s \in Seq(Record), NEW e,
           e = [by |-> r, review |-> run[r].todo]
    PROVE  e \in Record /\ Append(s, e) \in Seq(Record)
<1>1. e \in Record
      BY Quiet DEF Record, Run
<1> QED BY <1>1

(* The end of AppendStep: the record is stored, its session may be evicted. *)
LEMMA AppendedKeeps ==
    ASSUME ExecInv, NEW r \in Runs, NEW w \in Seq(Record), Appended(r, w),
           UNCHANGED <<deployment, requested, lock>>,
           session' \in [Scopes -> Seq(Record)],
           \A s \in Scopes \ {ScopeOf(r)} : session'[s] \in {session[s], << >>},
           \A i \in 1 .. Len(w) : w[i].by = r,
           Alone(r) => IsSuffix(session'[ScopeOf(r)], w)
    PROVE  ExecInv'
<1>1. CASE run[r].then # "look"
  <2>1. Ends(r, "done") \/ Ends(r, "failed")
        BY <1>1, Quiet DEF Appended, Run
  <2> QED BY <2>1, EndKeeps
<1>2. CASE run[r].then = "look"
  <2>1. PICK n : n = [run[r] EXCEPT !.pc = "look", !.todo = NoReview, !.loaded = << >>]
        OBVIOUS
  <2>2. Becomes(r, n) /\ wrote' = [wrote EXCEPT ![r] = w]
        BY <1>2, <2>1 DEF Appended
  <2>3. run[r] \in Run
        BY Quiet
  <2>4. n.pc = "look"
        BY <2>1, <2>3 DEF Run
  <2>5. n \in Run
    <3> DEFINE a == [run[r] EXCEPT !.pc = "look"]
               b == [a EXCEPT !.todo = NoReview]
    <3>1. "look" \in Points /\ NoReview \in Reviews \cup {NoReview} /\ << >> \in Seq(Record)
          BY DEF Points
    <3>2. a \in Run
          BY <2>3, <3>1, RunUpdates, Zenon
    <3>3. b \in Run
          BY <3>1, <3>2, RunUpdates, Zenon
    <3>4. [b EXCEPT !.loaded = << >>] \in Run
          BY <3>1, <3>3, RunUpdates, Zenon
    <3> QED BY <2>1, <3>4, Zenon
  <2>6. \A q \in Runs : q # r /\ Alone(q) => session'[ScopeOf(q)] \in {session[ScopeOf(q)], << >>}
        BY OthersUnaffected DEF ExecInv
  <2> QED BY <2>2, <2>4, <2>5, <2>6, Quiet, OneRunMoves
<1> QED BY <1>1, <1>2

LEMMA AppendInMemoryKeeps ==
    ASSUME ExecInv, NEW r \in Runs, AppendInMemory(r)
    PROVE  ExecInv'
<1>1. PICK k, e, old, w : /\ k = ScopeOf(r) /\ e = [by |-> r, review |-> run[r].todo]
                          /\ old = Append(session[k], e) /\ w = Append(wrote[r], e)
      OBVIOUS
<1>2. /\ PutInMemory(k, old) /\ Appended(r, w) /\ UNCHANGED <<deployment, requested, lock>>
      /\ Active(r)
      BY <1>1 DEF AppendInMemory, Active
<1>3. k \in Scopes /\ session[k] \in Seq(Record) /\ wrote[r] \in Seq(Record)
      BY <1>1, ScopeType DEF ExecInv, Typed
<1>4. e \in Record /\ old \in Seq(Record) /\ w \in Seq(Record) /\ e.by = r
      BY <1>1, <1>3, RecordType
<1>5. /\ session' \in [Scopes -> Seq(Record)]
      /\ \A s \in Scopes \ {k} : session'[s] \in {session[s], << >>}
      /\ session'[k] \in {old, << >>}
      BY <1>2, <1>3, <1>4, PutEffect DEF ExecInv
<1>6. \A i \in 1 .. Len(w) : w[i].by = r
  <2>1. \A i \in 1 .. Len(wrote[r]) : wrote[r][i].by = r
        BY DEF ExecInv, WritesAreOwn
  <2> QED BY <1>1, <1>3, <1>4, <2>1
<1>7. Alone(r) => IsSuffix(session'[k], w)
  <2>1. IsSuffix(<< >>, w)
        BY <1>4, EmptyIsSuffix
  <2>2. Alone(r) => IsSuffix(session[k], wrote[r])
        BY <1>1, <1>2 DEF ExecInv, SessionIsOwn
  <2>3. Alone(r) => IsSuffix(old, w)
        BY <1>1, <1>3, <1>4, <2>2, AppendedSuffix
  <2> QED BY <1>5, <2>1, <2>3
<1> QED BY <1>1, <1>2, <1>4, <1>5, <1>6, <1>7, AppendedKeeps

LEMMA AppendLoadKeeps ==
    ASSUME ExecInv, NEW r \in Runs, AppendLoad(r)
    PROVE  ExecInv'
<1>1. PICK h : /\ h \in {session[ScopeOf(r)], << >>}
               /\ Becomes(r, [run[r] EXCEPT !.pc = "save", !.loaded = h])
      BY DEF AppendLoad
<1>2. PICK n : n = [run[r] EXCEPT !.pc = "save", !.loaded = h]
      OBVIOUS
<1>3. run[r] \in Run /\ Active(r) /\ ScopeOf(r) \in Scopes /\ h \in Seq(Record)
  <2>1. run[r] \in Run /\ session \in [Scopes -> Seq(Record)]
        BY Quiet
  <2>2. ScopeOf(r) \in Scopes
        BY ScopeType DEF ExecInv
  <2>3. Active(r)
        BY DEF AppendLoad, Active
  <2>4. h = session[ScopeOf(r)] \/ h = << >>
        BY <1>1, Zenon
  <2>5. session[ScopeOf(r)] \in Seq(Record) /\ << >> \in Seq(Record)
        BY <2>1, <2>2
  <2> QED BY <2>1, <2>2, <2>3, <2>4, <2>5, Zenon
<1>4. n.pc = "save" /\ n.loaded = h
      BY <1>2, <1>3 DEF Run
<1>5. n \in Run
  <2>1. "save" \in Points
        BY DEF Points
  <2>2. [run[r] EXCEPT !.pc = "save"] \in Run
        BY <1>3, <2>1, RunUpdates, Zenon
  <2>3. [[run[r] EXCEPT !.pc = "save"] EXCEPT !.loaded = h] \in Run
        BY <1>3, <2>2, RunUpdates, Zenon
  <2> QED BY <1>2, <2>3, Zenon
<1>6. PICK w \in Seq(Record) : w = wrote[r]
      BY Quiet
<1>7. /\ Becomes(r, n) /\ UNCHANGED <<deployment, requested, session, lock>>
      /\ wrote' = [wrote EXCEPT ![r] = w]
      BY <1>1, <1>2, <1>6 DEF AppendLoad, storeVars, ExecInv, Typed
<1>8. \A i \in 1 .. Len(w) : w[i].by = r
      BY <1>6 DEF ExecInv, WritesAreOwn
<1>9. Alone(r) => IsSuffix(session[ScopeOf(r)], w)
      BY <1>3, <1>6 DEF ExecInv, SessionIsOwn
<1>10. Alone(r) => IsSuffix(h, w)
       BY <1>1, <1>9, EmptyIsSuffix
<1>11. \A q \in Runs : q # r /\ Alone(q) => session'[ScopeOf(q)] \in {session[ScopeOf(q)], << >>}
       BY <1>7
<1>12. Alone(r) => IsSuffix(session'[ScopeOf(r)], w)
       BY <1>7, <1>9
<1> QED BY <1>4, <1>5, <1>7, <1>8, <1>10, <1>11, <1>12, Quiet, OneRunMoves

LEMMA AppendSaveKeeps ==
    ASSUME ExecInv, NEW r \in Runs, AppendSave(r)
    PROVE  ExecInv'
<1>1. PICK k, e, new, w : /\ k = ScopeOf(r) /\ e = [by |-> r, review |-> run[r].todo]
                          /\ new = Append(run[r].loaded, e) /\ w = Append(wrote[r], e)
      OBVIOUS
<1>2. k \in Scopes /\ run[r].loaded \in Seq(Record) /\ wrote[r] \in Seq(Record) /\ run[r].pc = "save"
      BY <1>1, ScopeType, Quiet DEF ExecInv, Run, AppendSave
<1>3. e \in Record /\ new \in Seq(Record) /\ w \in Seq(Record) /\ e.by = r
      BY <1>1, <1>2, RecordType
<1>4. \A i \in 1 .. Len(wrote[r]) : wrote[r][i].by = r
      BY DEF ExecInv, WritesAreOwn
<1>5. CASE PutInRedis(k, new) /\ Appended(r, w)
  <2>1. /\ session' \in [Scopes -> Seq(Record)]
        /\ \A s \in Scopes \ {k} : session'[s] \in {session[s], << >>}
        /\ session'[k] = new
        BY <1>2, <1>3, <1>5, PutEffect DEF ExecInv, PutInRedis, Typed
  <2>2. \A i \in 1 .. Len(w) : w[i].by = r
        BY <1>1, <1>2, <1>3, <1>4
  <2>3. Alone(r) => IsSuffix(run[r].loaded, wrote[r])
        BY <1>2 DEF ExecInv, LoadedIsOwn
  <2>4. Alone(r) => IsSuffix(new, w)
        BY <1>1, <1>2, <1>3, <2>3, AppendedSuffix
  <2>5. UNCHANGED <<deployment, requested, lock>>
        BY DEF AppendSave
  <2> QED BY <1>1, <1>3, <1>5, <2>1, <2>2, <2>4, <2>5, AppendedKeeps
<1>6. CASE Appended(r, wrote[r]) /\ UNCHANGED storeVars
  <2>1. UNCHANGED <<deployment, requested, lock, session>>
        BY <1>6 DEF AppendSave, storeVars
  <2>2. Alone(r) => IsSuffix(session[ScopeOf(r)], wrote[r])
        BY <1>2 DEF ExecInv, SessionIsOwn, Active
  <2>3. PICK v \in Seq(Record) : v = wrote[r]
        BY <1>2
  <2> QED BY <1>4, <1>6, <2>1, <2>2, <2>3, Quiet, AppendedKeeps
<1> QED BY <1>1, <1>5, <1>6 DEF AppendSave

(* Finalize has ended, with or without success.                            *)
LEMMA FinalizedRun ==
    ASSUME ExecInv, NEW r \in Runs, NEW result \in {"done", "failed"}, Finalized(r, result)
    PROVE  \E n \in Run : Becomes(r, n) /\ n.pc = "append"
<1>1. PICK n : n = [run[r] EXCEPT !.pc = "append", !.then = result, !.review = NoReview,
                                  !.lost = FALSE]
      OBVIOUS
<1>2. run[r] \in Run
      BY Quiet
<1>3. n \in Run
  <2> DEFINE a == [run[r] EXCEPT !.pc = "append"]
             b == [a EXCEPT !.then = result]
             d == [b EXCEPT !.review = NoReview]
  <2>1. /\ "append" \in Points /\ NoReview \in Reviews \cup {NoReview}
        /\ result \in {"look", "done", "failed"}
        BY DEF Points
  <2>2. a \in Run
        BY <1>2, <2>1, RunUpdates, Zenon
  <2>3. b \in Run
        BY <2>1, <2>2, RunUpdates, Zenon
  <2>4. d \in Run
        BY <2>1, <2>3, RunUpdates, Zenon
  <2>5. [d EXCEPT !.lost = FALSE] \in Run
        BY <2>4, RunUpdates, Zenon
  <2> QED BY <1>1, <2>5, Zenon
<1>4. n.pc = "append" /\ Becomes(r, n)
      BY <1>1, <1>2 DEF Run, Finalized
<1> QED BY <1>3, <1>4

LEMMA ReadReviewKeeps ==
    ASSUME ExecInv, NEW r \in Runs, ReadReview(r)
    PROVE  ExecInv'
<1>1. PICK history :
         /\ Load(ScopeOf(r), history)
         /\ \/ Finalized(r, "failed")
            \/ \E i \in 1 .. Len(history) :
                  /\ history[i].review # NoReview
                  /\ Becomes(r, [run[r] EXCEPT !.pc = "lock", !.review = history[i].review])
      BY DEF ReadReview
<1>2. ScopeOf(r) \in Scopes /\ Typed
      BY ScopeType DEF ExecInv
<1>3. /\ session' \in [Scopes -> Seq(Record)]
      /\ \A s \in Scopes : session'[s] \in {session[s], << >>}
      /\ history \in {session[ScopeOf(r)], << >>}
      BY <1>1, <1>2, LoadEffect
<1>4. UNCHANGED <<deployment, requested, lock, wrote>> /\ Active(r)
      BY DEF ReadReview, Active
<1>5. CASE Finalized(r, "failed")
  <2>1. PICK n \in Run : Becomes(r, n) /\ n.pc = "append"
        BY <1>5, FinalizedRun
  <2> QED BY <1>3, <1>4, <2>1, Quiet, MoveKeeps
<1>6. CASE \E i \in 1 .. Len(history) :
              /\ history[i].review # NoReview
              /\ Becomes(r, [run[r] EXCEPT !.pc = "lock", !.review = history[i].review])
  <2>1. PICK i \in 1 .. Len(history) :
              /\ history[i].review # NoReview
              /\ Becomes(r, [run[r] EXCEPT !.pc = "lock", !.review = history[i].review])
        BY <1>6
  <2>2. PICK x : x = history[i].review
        OBVIOUS
  <2>3. PICK n : n = [run[r] EXCEPT !.pc = "lock", !.review = x]
        OBVIOUS
  <2>4. PICK w \in Seq(Record) : w = wrote[r]
        BY Quiet
  <2>5. /\ Becomes(r, n) /\ wrote' = [wrote EXCEPT ![r] = w]
        BY <1>4, <2>1, <2>2, <2>3, <2>4 DEF ExecInv, Typed
  <2>6. history \in Seq(Record) /\ history[i] \in Record /\ history = session[ScopeOf(r)]
        BY <1>2, <1>3, <2>1 DEF Typed
  <2>7. x \in Reviews
        BY <2>1, <2>2, <2>6 DEF Record
  <2>8. run[r] \in Run
        BY Quiet
  <2>9. n \in Run /\ n.pc = "lock" /\ n.review = x
    <3>1. "lock" \in Points /\ x \in Reviews \cup {NoReview}
          BY <2>7 DEF Points
    <3>2. [run[r] EXCEPT !.pc = "lock"] \in Run
          BY <2>8, <3>1, RunUpdates, Zenon
    <3>3. [[run[r] EXCEPT !.pc = "lock"] EXCEPT !.review = x] \in Run
          BY <3>1, <3>2, RunUpdates, Zenon
    <3>4. n \in Run
          BY <2>3, <3>3, Zenon
    <3> QED BY <2>3, <2>8, <3>4 DEF Run
  <2>10. \A j \in 1 .. Len(w) : w[j].by = r
         BY <2>4 DEF ExecInv, WritesAreOwn
  <2>11. Alone(r) => IsSuffix(session[ScopeOf(r)], w)
         BY <1>4, <2>4 DEF ExecInv, SessionIsOwn
  <2>12. Alone(r) => IsSuffix(session'[ScopeOf(r)], w)
         BY <1>2, <1>3, <2>11, EmptyIsSuffix
  <2>13. Alone(r) => \E j \in 1 .. Len(w) : w[j] = [by |-> r, review |-> x]
    <3> SUFFICES ASSUME Alone(r) PROVE \E j \in 1 .. Len(w) : w[j] = [by |-> r, review |-> x]
        OBVIOUS
    <3>1. Len(history) <= Len(w) /\ history[i] = w[Len(w) - Len(history) + i]
          BY <2>6, <2>11 DEF IsSuffix
    <3>2. Len(w) - Len(history) + i \in 1 .. Len(w)
          BY <2>6, <3>1
    <3>3. PICK j \in 1 .. Len(w) : history[i] = w[j]
          BY <3>1, <3>2
    <3>4. w[j] \in Record /\ w[j].by = r /\ w[j].review = x
          BY <2>2, <2>10, <3>3
    <3>5. w[j] = [by |-> r, review |-> x]
          BY <3>4 DEF Record
    <3> QED BY <3>5
  <2>14. \A q \in Runs : q # r /\ Alone(q) => session'[ScopeOf(q)] \in {session[ScopeOf(q)], << >>}
         BY <1>2, <1>3, ScopeType
  <2>15. /\ lock' \in [Reviews -> Runs \cup {Nobody}]
         /\ \A q \in Runs : deployment.redis /\ run[q].pc = "hold" /\ ~run[q].lost
                            => lock'[run[q].review] = q
         BY <1>4, Quiet
  <2> QED BY <1>3, <1>4, <2>5, <2>7, <2>9, <2>10, <2>12, <2>13, <2>14, <2>15, OneRunMoves
<1> QED BY <1>1, <1>5, <1>6

(* An execution moves between "lock" and "hold" on the review it has       *)
(* chosen.                                                                 *)
LEMMA HoldKeeps ==
    ASSUME ExecInv, NEW r \in Runs, run[r].pc \in {"lock", "hold"}, NEW n \in Run, Becomes(r, n),
           n.pc = "hold", n.review = run[r].review,
           UNCHANGED <<deployment, requested, session, wrote>>,
           lock' \in [Reviews -> Runs \cup {Nobody}],
           deployment.redis /\ ~n.lost => lock'[n.review] = r,
           \A q \in Runs : /\ q # r /\ deployment.redis /\ run[q].pc = "hold" /\ ~run[q].lost
                           => lock'[run[q].review] = q
    PROVE  ExecInv'
<1>1. PICK w \in Seq(Record) : w = wrote[r]
      BY Quiet
<1>2. wrote' = [wrote EXCEPT ![r] = w]
      BY <1>1 DEF ExecInv, Typed
<1>3. \A j \in 1 .. Len(w) : w[j].by = r
      BY <1>1 DEF ExecInv, WritesAreOwn
<1>4. Alone(r) => IsSuffix(session'[ScopeOf(r)], w)
      BY <1>1 DEF ExecInv, SessionIsOwn, Active
<1>5. /\ n.review \in Reviews
      /\ Alone(r) => \E j \in 1 .. Len(w) : w[j] = [by |-> r, review |-> n.review]
      BY <1>1 DEF ExecInv, LockIsHeld, FinalizesOwnEvidence
<1>6. session' \in [Scopes -> Seq(Record)]
      BY Quiet
<1> QED BY <1>2, <1>3, <1>4, <1>5, <1>6, OneRunMoves

LEMMA AcquireKeeps ==
    ASSUME ExecInv, NEW r \in Runs, Acquire(r)
    PROVE  ExecInv'
<1>1. /\ UNCHANGED <<deployment, requested, session, wrote>>
      /\ run[r].pc = "lock" /\ run[r] \in Run /\ Active(r)
      BY Quiet DEF Acquire, storeVars, Active
<1>2. CASE Finalized(r, "failed") /\ UNCHANGED lock
  <2>1. PICK n \in Run : Becomes(r, n) /\ n.pc = "append"
        BY <1>2, FinalizedRun
  <2> QED BY <1>1, <1>2, <2>1, Quiet, MoveKeeps
<1>3. CASE /\ deployment.redis => lock[run[r].review] = Nobody
           /\ lock' = IF deployment.redis THEN [lock EXCEPT ![run[r].review] = r] ELSE lock
           /\ At(r, "hold")
  <2>1. PICK n : n = [run[r] EXCEPT !.pc = "hold"]
        OBVIOUS
  <2>2. n \in Run /\ n.pc = "hold" /\ n.review = run[r].review /\ Becomes(r, n)
        BY <1>1, <1>3, <2>1 DEF Run, Points, At
  <2>3. run[r].review \in Reviews /\ lock \in [Reviews -> Runs \cup {Nobody}]
        BY <1>1 DEF ExecInv, LockIsHeld, Typed
  <2>4. lock' \in [Reviews -> Runs \cup {Nobody}] /\ (deployment.redis => lock'[n.review] = r)
        BY <1>3, <2>2, <2>3
  <2>5. \A q \in Runs : /\ q # r /\ deployment.redis /\ run[q].pc = "hold" /\ ~run[q].lost
                        => lock'[run[q].review] = q
    <3> SUFFICES ASSUME NEW q \in Runs, q # r, deployment.redis, run[q].pc = "hold", ~run[q].lost
                 PROVE  lock'[run[q].review] = q
        OBVIOUS
    <3>1. lock[run[q].review] = q /\ run[q].review \in Reviews
          BY DEF ExecInv, LockIsHeld
    <3>2. run[q].review # run[r].review
          BY <1>3, <3>1, NobodyIsNoRun
    <3> QED BY <1>3, <2>3, <3>1, <3>2
  <2> QED BY <1>1, <1>3, <2>2, <2>4, <2>5, HoldKeeps
<1> QED BY <1>2, <1>3 DEF Acquire

LEMMA LoseLockKeeps ==
    ASSUME ExecInv, NEW r \in Runs, LoseLock(r)
    PROVE  ExecInv'
<1>1. /\ UNCHANGED <<deployment, requested, session, wrote>> /\ run[r].pc = "hold"
      /\ run[r] \in Run /\ lock[run[r].review] = r
      /\ lock' = [lock EXCEPT ![run[r].review] = Nobody]
      BY Quiet DEF LoseLock, storeVars
<1>2. PICK n : n = [run[r] EXCEPT !.lost = TRUE]
      OBVIOUS
<1>3. n \in Run /\ n.pc = "hold" /\ n.review = run[r].review /\ n.lost /\ Becomes(r, n)
      BY <1>1, <1>2 DEF Run, LoseLock
<1>4. run[r].review \in Reviews /\ lock \in [Reviews -> Runs \cup {Nobody}]
      BY <1>1 DEF ExecInv, LockIsHeld, Typed
<1>5. \A q \in Runs : /\ q # r /\ deployment.redis /\ run[q].pc = "hold" /\ ~run[q].lost
                      => lock'[run[q].review] = q
      BY <1>1, <1>4, Quiet
<1>6. lock' \in [Reviews -> Runs \cup {Nobody}]
      BY <1>1, <1>4
<1> QED BY <1>1, <1>3, <1>5, <1>6, HoldKeeps

LEMMA ReleaseKeeps ==
    ASSUME ExecInv, NEW r \in Runs, Release(r)
    PROVE  ExecInv'
<1>1. /\ UNCHANGED <<deployment, requested, session, wrote>> /\ run[r].pc = "hold"
      /\ run[r] \in Run /\ Active(r)
      /\ lock' = [x \in Reviews |-> IF x = run[r].review /\ lock[x] = r THEN Nobody ELSE lock[x]]
      BY Quiet DEF Release, storeVars, Active
<1>2. PICK n \in Run : Becomes(r, n) /\ n.pc = "append"
      BY FinalizedRun DEF Release
<1>3. /\ lock' \in [Reviews -> Runs \cup {Nobody}]
      /\ \A q \in Runs : /\ q # r /\ deployment.redis /\ run[q].pc = "hold" /\ ~run[q].lost
                         => lock'[run[q].review] = q
      BY <1>1 DEF ExecInv, LockIsHeld, Typed
<1> QED BY <1>1, <1>2, <1>3, Quiet, MoveKeeps

(* Steps of the surroundings, in which sessions or locks expire.           *)
LEMMA SurroundingsKeep ==
    ASSUME ExecInv, UNCHANGED <<deployment, requested, run, wrote>>,
           session' \in [Scopes -> Seq(Record)],
           \A s \in Scopes : session'[s] \in {session[s], << >>},
           lock' \in [Reviews -> Runs \cup {Nobody}],
           LockIsHeld'
    PROVE  ExecInv'
<1>1. \A r \in Runs : /\ Alone(r)' <=> Alone(r)
                      /\ Active(r)' <=> Active(r)
                      /\ ScopeOf(r)' = ScopeOf(r)
      BY DEF Alone, Active, ScopeOf
<1>2. SessionIsOwn'
  <2> SUFFICES ASSUME NEW r \in Runs, Active(r)', Alone(r)'
               PROVE  IsSuffix(session[ScopeOf(r)], wrote[r])'
      BY DEF SessionIsOwn
  <2>1. IsSuffix(session[ScopeOf(r)], wrote[r])
        BY <1>1 DEF ExecInv, SessionIsOwn
  <2>2. IsSuffix(<< >>, wrote[r])
        BY EmptyIsSuffix DEF ExecInv, Typed
  <2>3. session'[ScopeOf(r)] \in {session[ScopeOf(r)], << >>}
        BY ScopeType DEF ExecInv
  <2>4. IsSuffix(session'[ScopeOf(r)], wrote[r])
        BY <2>1, <2>2, <2>3
  <2> QED BY <1>1, <2>4 DEF IsSuffix
<1>3. Typed'
      BY DEF ExecInv, Typed
<1>4. WritesAreOwn' /\ ScopesStartEmpty'
      BY <1>1, ScopeType DEF ExecInv, WritesAreOwn, ScopesStartEmpty
<1>5. LoadedIsOwn'
  <2> SUFFICES ASSUME NEW r \in Runs, run'[r].pc = "save", Alone(r)'
               PROVE  IsSuffix(run[r].loaded, wrote[r])'
      BY DEF LoadedIsOwn
  <2>1. IsSuffix(run[r].loaded, wrote[r])
        BY <1>1 DEF ExecInv, LoadedIsOwn
  <2> QED BY <2>1 DEF IsSuffix
<1>6. FinalizesOwnEvidence'
      BY <1>1 DEF ExecInv, FinalizesOwnEvidence
<1> QED BY <1>2, <1>3, <1>4, <1>5, <1>6 DEF ExecInv

LEMMA ExpireSessionKeeps ==
    ASSUME ExecInv, ExpireSession
    PROVE  ExecInv'
<1>1. << >> \in Seq(Record)
      OBVIOUS
<1>2. /\ UNCHANGED <<deployment, requested, run, lock, wrote>>
      /\ session' \in [Scopes -> Seq(Record)]
      /\ \A s \in Scopes : session'[s] \in {session[s], << >>}
      BY <1>1 DEF ExpireSession, ExecInv, Typed
<1>3. LockIsHeld' /\ lock' \in [Reviews -> Runs \cup {Nobody}]
      BY <1>2 DEF ExecInv, LockIsHeld, Typed
<1> QED BY <1>2, <1>3, SurroundingsKeep

LEMMA ExpireLockKeeps ==
    ASSUME ExecInv, NEW x \in Reviews, ExpireLock(x)
    PROVE  ExecInv'
<1>1. /\ UNCHANGED <<deployment, requested, run, session, wrote>>
      /\ lock' = [lock EXCEPT ![x] = Nobody] /\ run[lock[x]].pc = "dead"
      BY DEF ExpireLock, storeVars
<1>2. LockIsHeld' /\ lock' \in [Reviews -> Runs \cup {Nobody}]
      BY <1>1 DEF ExecInv, LockIsHeld, Typed
<1> QED BY <1>1, <1>2, Quiet, SurroundingsKeep

-----------------------------------------------------------------------------

LEMMA InitInv == Init => ExecInv
<1> SUFFICES ASSUME Init PROVE ExecInv
    OBVIOUS
<1>1. << >> \in Seq(Record)
      OBVIOUS
<1>2. Typed
  <2>1. deployment.names \subseteq Names
        BY ExecutionsAssumption DEF Init
  <2>2. requested \in [Callers -> Names \cup {NoName}]
        BY <2>1 DEF Init
  <2> QED BY <1>1, <2>2, IdleIsRun DEF Init, Typed
<1>3. \A r \in Runs : run[r].pc = "idle" /\ wrote[r] = << >>
      BY DEF Init, Idle
<1>4. \A r \in Runs : session[ScopeOf(r)] = << >>
      BY <1>2, ScopeType DEF Init
<1> QED BY <1>2, <1>3, <1>4 DEF ExecInv, ScopesStartEmpty, WritesAreOwn, LoadedIsOwn, FinalizesOwnEvidence, SessionIsOwn,
                         LockIsHeld, Active

LEMMA NextInv == ExecInv /\ [Next]_vars => ExecInv'
<1> SUFFICES ASSUME ExecInv, [Next]_vars PROVE ExecInv'
    OBVIOUS
<1>1. CASE \E r \in Runs : Step(r) \/ LoseLock(r) \/ Crash(r)
      BY <1>1, BeginKeeps, LoopStepKeeps, EndingsKeep, AppendInMemoryKeeps, AppendLoadKeeps,
         AppendSaveKeeps, ReadReviewKeeps, AcquireKeeps, ReleaseKeeps, LoseLockKeeps DEF Step
<1>2. CASE ExpireSession
      BY <1>2, ExpireSessionKeeps
<1>3. CASE \E x \in Reviews : ExpireLock(x)
      BY <1>3, ExpireLockKeeps
<1>4. CASE UNCHANGED vars
  <2>1. UNCHANGED <<deployment, requested, session, run, lock, wrote>>
        BY <1>4 DEF vars, storeVars
  <2>2. LockIsHeld'
        BY <2>1 DEF ExecInv, LockIsHeld
  <2> QED BY <2>1, <2>2, Quiet, SurroundingsKeep
<1> QED BY <1>1, <1>2, <1>3, <1>4 DEF Next

(* The strengthened invariant of the executions that share store and locks. *)
THEOREM ExecutionsInvariant == Spec => []ExecInv
BY InitInv, NextInv, PTL DEF Spec

(* No execution reads another's records, whatever retries, zombies,        *)
(* evictions and lost writes there are, unless its id was given to two.    *)
THEOREM SessionsAreOwn == Spec => []SessionIsOwn
BY ExecutionsInvariant, PTL DEF ExecInv

(* The review an execution finalizes is one it has evidence of.            *)
THEOREM EvidenceIsOwn == Spec => []FinalizesOwnEvidence
BY ExecutionsInvariant, PTL DEF ExecInv

(* The lock is the review's, so that no two holders finalize one review.   *)
THEOREM FinalizeAlone == Spec => []FinalizedAlone
<1>1. ExecInv => FinalizedAlone
  <2> SUFFICES ASSUME ExecInv, deployment.redis, NEW r \in Runs, NEW q \in Runs,
                      run[r].pc = "hold", run[q].pc = "hold", run[r].review = run[q].review,
                      ~run[r].lost, ~run[q].lost
               PROVE  r = q
      BY DEF FinalizedAlone
  <2>1. lock[run[r].review] = r /\ lock[run[q].review] = q
        BY DEF ExecInv, LockIsHeld
  <2> QED BY <2>1
<1> QED BY <1>1, ExecutionsInvariant, PTL

-----------------------------------------------------------------------------
(* The order of InMemoryStore.                                             *)

(* The scope is in the store.                                              *)
Holds(keys, k) == \E i \in 1 .. Len(keys) : keys[i] = k

(* Taking a scope out leaves the others, in their order.                   *)
LEMMA WithoutKeeps ==
    ASSUME NEW keys \in Seq(Scopes), NEW k,
           \A i, j \in 1 .. Len(keys) : i < j => keys[i] # keys[j]
    PROVE  LET w == Without(keys, k) IN
           /\ w \in Seq(Scopes) /\ Len(w) \in Nat /\ Len(w) <= Len(keys)
           /\ Holds(keys, k) => Len(w) < Len(keys)
           /\ ~Holds(keys, k) => w = keys
           /\ \A i \in 1 .. Len(w) : w[i] # k
           /\ \A s : Holds(keys, s) /\ s # k => Holds(w, s)
           /\ \A i, j \in 1 .. Len(w) : i < j =>
                 \E m, n \in 1 .. Len(keys) : m < n /\ keys[m] = w[i] /\ keys[n] = w[j]
<1> DEFINE at == {i \in 1 .. Len(keys) : keys[i] = k}
           place == CHOOSE i \in at : TRUE
           cut == [i \in 1 .. Len(keys) - 1 |-> keys[IF i < place THEN i ELSE i + 1]]
<1>1. Len(keys) \in Nat
      OBVIOUS
<1>2. CASE at = {}
  <2>1. Without(keys, k) = keys
        BY <1>2 DEF Without
  <2>2. ~Holds(keys, k)
        BY <1>2 DEF Holds
  <2>3. \A i \in 1 .. Len(keys) : keys[i] # k
        BY <1>2
  <2> QED BY <1>1, <2>1, <2>2, <2>3
<1>3. CASE at # {}
  <2>1. Without(keys, k) = cut
        BY <1>3 DEF Without
  <2>2. place \in 1 .. Len(keys) /\ keys[place] = k
        BY <1>3
  <2>3. Len(keys) - 1 \in Nat
        BY <1>1, <2>2
  <2> HIDE DEF place
  <2>4. \A i \in 1 .. Len(keys) - 1 : (IF i < place THEN i ELSE i + 1) \in 1 .. Len(keys)
        BY <1>1, <2>2
  <2>5. \A i \in 1 .. Len(keys) : keys[i] \in Scopes
        OBVIOUS
  <2>6. cut \in [1 .. Len(keys) - 1 -> Scopes]
        BY <2>4, <2>5
  <2>7. cut \in Seq(Scopes) /\ Len(cut) = Len(keys) - 1
        BY <2>3, <2>6
  <2>8. \A i \in 1 .. Len(cut) : cut[i] = keys[IF i < place THEN i ELSE i + 1]
        BY <2>7
  <2> HIDE DEF cut
  <2>9. \A i \in 1 .. Len(cut) : cut[i] # k
        BY <1>1, <2>2, <2>4, <2>7, <2>8
  <2>10. ASSUME NEW s, Holds(keys, s), s # k PROVE Holds(cut, s)
    <3>1. PICK m \in 1 .. Len(keys) : keys[m] = s
          BY <2>10 DEF Holds
    <3>2. m # place
          BY <2>2, <2>10, <3>1
    <3>3. CASE m < place
      <4>1. m \in 1 .. Len(cut) /\ cut[m] = s
            BY <1>1, <2>2, <2>7, <2>8, <3>1, <3>3
      <4> QED BY <4>1 DEF Holds
    <3>4. CASE m > place
      <4>1. m - 1 \in 1 .. Len(cut) /\ ~(m - 1 < place) /\ (m - 1) + 1 = m
            BY <1>1, <2>2, <2>7, <3>1, <3>4
      <4>2. cut[m - 1] = s
            BY <2>8, <3>1, <4>1
      <4> QED BY <4>1, <4>2 DEF Holds
    <3> QED BY <2>2, <3>1, <3>2, <3>3, <3>4
  <2>11. ASSUME NEW i \in 1 .. Len(cut), NEW j \in 1 .. Len(cut), i < j
         PROVE  \E m, n \in 1 .. Len(keys) : m < n /\ keys[m] = cut[i] /\ keys[n] = cut[j]
    <3>1. (IF i < place THEN i ELSE i + 1) < (IF j < place THEN j ELSE j + 1)
          BY <1>1, <2>2, <2>7, <2>11
    <3> QED BY <2>4, <2>7, <2>8, <3>1
  <2>12. Holds(keys, k)
         BY <2>2 DEF Holds
  <2>13. Len(cut) \in Nat /\ Len(cut) < Len(keys) /\ Len(cut) <= Len(keys)
         BY <1>1, <2>3, <2>7
  <2> QED BY <2>1, <2>7, <2>9, <2>10, <2>11, <2>12, <2>13
<1> QED BY <1>2, <1>3

(* The scopes of the order are different from each other.                  *)
LEMMA OrderDistinct ==
    ASSUME StoreInv
    PROVE  \A i, j \in 1 .. Len(order) : i < j => order[i] # order[j]
<1> SUFFICES ASSUME NEW i \in 1 .. Len(order), NEW j \in 1 .. Len(order), i < j
             PROVE  order[i] # order[j]
    OBVIOUS
<1>1. order[i] \in Scopes /\ order[j] \in since[order[i]]
      BY DEF StoreInv
<1> QED BY <1>1 DEF StoreInv

(* A set that n different elements belong to has as many.                  *)
LEMMA AtLeast ==
    ASSUME NEW S, IsFiniteSet(S), NEW n \in Nat, NEW f \in [1 .. n -> S],
           \A i, j \in 1 .. n : i < j => f[i] # f[j]
    PROVE  Cardinality(S) >= n
<1>1. f \in Injection(1 .. n, S)
  <2>1. \A i, j \in 1 .. n : f[i] = f[j] => i = j
        OBVIOUS
  <2> QED BY <2>1 DEF Injection, IsInjective
<1>2. Cardinality(1 .. n) <= Cardinality(S)
      BY <1>1, FS_Injection
<1>3. Cardinality(1 .. n) = IF 1 > n THEN 0 ELSE n - 1 + 1
      BY FS_Interval
<1>4. Cardinality(1 .. n) = n
      BY <1>3
<1>5. Cardinality(S) \in Nat
      BY FS_CardinalityType
<1> QED BY <1>2, <1>4, <1>5

-----------------------------------------------------------------------------
(* A step that leaves the order of the sessions alone.                     *)
LEMMA OrderStays ==
    ASSUME StoreInv, UNCHANGED <<deployment, requested, order, since>>, faults' \in Nat,
           faults' = 0 => faults = 0 /\ stale' = {},
           deployment.redis => stale' = {},
           ~deployment.redis => \A r \in Runs : Active(r)' => Active(r)
    PROVE  StoreInv'
<1>1. \A r : ScopeOf(r)' = ScopeOf(r)
      BY DEF ScopeOf
<1>2. StoreIsLRU'
      BY <1>1 DEF StoreInv, StoreIsLRU, MaxSessions
<1> QED BY <1>2 DEF StoreInv

(* A stale session is found and deleted.                                   *)
LEMMA StaleGoes ==
    ASSUME StoreInv, NEW k \in stale, order' = Without(order, k), stale' = stale \ {k},
           UNCHANGED <<deployment, requested, since, faults>>
    PROVE  StoreInv'
<1>1. faults # 0 /\ ~deployment.redis
      BY DEF StoreInv
<1>2. /\ order' \in Seq(Scopes) /\ Len(order') \in Nat /\ Len(order') <= Len(order)
      /\ \A i, j \in 1 .. Len(order') : i < j =>
            \E m, n \in 1 .. Len(order) : m < n /\ order[m] = order'[i] /\ order[n] = order'[j]
      BY OrderDistinct, WithoutKeeps DEF StoreInv
<1>3. \A i, j \in 1 .. Len(order') : i < j => order'[j] \in since'[order'[i]]
      BY <1>2 DEF StoreInv
<1>4. Len(order') <= MaxSessions'
  <2>1. MaxSessions' = MaxSessions /\ MaxSessions \in Nat
        BY ExecutionsAssumption DEF MaxSessions, StoreInv
  <2>2. Len(order) <= MaxSessions /\ Len(order) \in Nat
        BY DEF StoreInv, StoreIsLRU
  <2> QED BY <1>2, <2>1, <2>2
<1>5. StoreIsLRU'
      BY <1>1, <1>4 DEF StoreIsLRU
<1> QED BY <1>1, <1>2, <1>3, <1>5 DEF StoreInv

(* The order after a write, before the eviction.                           *)
LEMMA TouchedOrder ==
    ASSUME StoreInv, NEW k \in Scopes,
           since' = [s \in Scopes |-> IF s = k THEN {} ELSE since[s] \cup {k}]
    PROVE  LET t == Touched(k) IN
           /\ t \in Seq(Scopes) /\ Len(t) \in Nat \ {0} /\ Len(t) <= Len(order) + 1
           /\ t[Len(t)] = k
           /\ \A s : Holds(order, s) => Holds(t, s)
           /\ \A i, j \in 1 .. Len(t) : i < j => t[i] \in Scopes /\ t[j] \in since'[t[i]]
           /\ \A i, j \in 1 .. Len(t) : i < j => t[i] # t[j]
<1> DEFINE w == Without(order, k)
           t == Append(w, k)
<1>1. /\ w \in Seq(Scopes) /\ Len(w) \in Nat /\ Len(w) <= Len(order)
      /\ \A i \in 1 .. Len(w) : w[i] # k
      /\ \A s : Holds(order, s) /\ s # k => Holds(w, s)
      /\ \A i, j \in 1 .. Len(w) : i < j =>
            \E m, n \in 1 .. Len(order) : m < n /\ order[m] = w[i] /\ order[n] = w[j]
      BY OrderDistinct, WithoutKeeps DEF StoreInv
<1> HIDE DEF w
<1>2. /\ t \in Seq(Scopes) /\ Len(t) = Len(w) + 1 /\ t[Len(w) + 1] = k
      /\ \A i \in 1 .. Len(w) : t[i] = w[i]
      BY <1>1, AppendProperties
<1>3. t = Touched(k) /\ Len(order) \in Nat
      BY DEF w, Touched, StoreInv
<1> HIDE DEF t
<1>4. \A i, j \in 1 .. Len(w) : i < j => w[j] \in since[w[i]]
  <2> SUFFICES ASSUME NEW i \in 1 .. Len(w), NEW j \in 1 .. Len(w), i < j
               PROVE  w[j] \in since[w[i]]
      OBVIOUS
  <2>1. PICK m, n \in 1 .. Len(order) : m < n /\ order[m] = w[i] /\ order[n] = w[j]
        BY <1>1
  <2>2. order[n] \in since[order[m]]
        BY <2>1 DEF StoreInv
  <2> QED BY <2>1, <2>2
<1>5. Len(w) \in Nat /\ Len(t) = Len(w) + 1
      BY <1>1, <1>2
<1>6. ASSUME NEW i \in 1 .. Len(t), NEW j \in 1 .. Len(t), i < j
      PROVE  t[i] \in Scopes /\ t[j] \in since'[t[i]] /\ t[i] # t[j]
  <2>1. i \in 1 .. Len(w) /\ (j \in 1 .. Len(w) \/ j = Len(w) + 1)
        BY <1>6, <1>5
  <2>2. t[i] = w[i] /\ w[i] \in Scopes /\ w[i] # k
        BY <1>1, <1>2, <2>1
  <2>3. since'[w[i]] = since[w[i]] \cup {k}
        BY <2>2
  <2>4. CASE j = Len(w) + 1
        BY <1>2, <2>2, <2>3, <2>4
  <2>5. CASE j \in 1 .. Len(w)
    <3>1. t[j] = w[j] /\ w[j] \in since[w[i]]
          BY <1>2, <1>4, <1>6, <2>1, <2>5
    <3>2. w[i] \notin since[w[i]]
          BY <2>2 DEF StoreInv
    <3> QED BY <2>2, <2>3, <3>1, <3>2
  <2> QED BY <2>1, <2>4, <2>5
<1>7. ASSUME NEW s, Holds(order, s) PROVE Holds(t, s)
  <2>1. CASE s = k
        BY <1>1, <1>2, <2>1 DEF Holds
  <2>2. CASE s # k
    <3>1. PICK i \in 1 .. Len(w) : w[i] = s
          BY <1>1, <1>7, <2>2 DEF Holds
    <3>2. i \in 1 .. Len(t)
          BY <1>5
    <3> QED BY <1>2, <3>1, <3>2 DEF Holds
  <2> QED BY <2>1, <2>2
<1>8. Len(t) \in Nat \ {0} /\ Len(t) <= Len(order) + 1 /\ t[Len(t)] = k
      BY <1>1, <1>2, <1>3
<1> QED BY <1>2, <1>3, <1>6, <1>7, <1>8

(* A write to InMemoryStore, by an execution that has the scope.  Only a   *)
(* full store evicts, and then every session it keeps was written since    *)
(* the evicted one.                                                        *)
LEMMA PutOrders ==
    ASSUME StoreInv, NEW k \in Scopes, NEW steps, PutInMemory(k, steps), ~deployment.redis,
           UNCHANGED <<deployment, requested>>, faults' \in Nat, faults' = 0 => faults = 0,
           \A r \in Runs : Active(r)' => Active(r) \/ ScopeOf(r) = k,
           \A r \in Runs : ScopeOf(r) \in Scopes
    PROVE  StoreInv'
<1> DEFINE t == Touched(k)
<1>1. since' = [s \in Scopes |-> IF s = k THEN {} ELSE since[s] \cup {k}]
      BY DEF PutInMemory
<1>2. /\ t \in Seq(Scopes) /\ Len(t) \in Nat \ {0} /\ Len(t) <= Len(order) + 1
      /\ t[Len(t)] = k
      /\ \A s : Holds(order, s) => Holds(t, s)
      /\ \A i, j \in 1 .. Len(t) : i < j => t[i] \in Scopes /\ t[j] \in since'[t[i]]
      /\ \A i, j \in 1 .. Len(t) : i < j => t[i] # t[j]
      BY <1>1, TouchedOrder
<1>3. order' = IF Len(t) > MaxSessions THEN Tail(t) ELSE t
      BY DEF PutInMemory, Evicted
<1>4. faults' = 0 => stale' = {}
      BY DEF PutInMemory, StoreInv
<1> HIDE DEF t
<1>5. MaxSessions' = MaxSessions /\ MaxSessions \in Nat \ {0}
      BY ExecutionsAssumption DEF MaxSessions, StoreInv
<1>6. Len(order) \in Nat /\ Len(order) <= MaxSessions
      BY DEF StoreInv, StoreIsLRU
<1>7. ASSUME NEW s \in Scopes
      PROVE  IsFiniteSet(since'[s]) /\ s \notin since'[s] /\ since'[s] \in SUBSET Scopes
  <2>1. CASE s = k
        BY <1>1, <2>1, FS_EmptySet
  <2>2. CASE s # k
    <3>1. since'[s] = since[s] \cup {k} /\ IsFiniteSet(since[s]) /\ s \notin since[s]
          BY <1>1, <2>2 DEF StoreInv
    <3>2. since[s] \in SUBSET Scopes
          BY DEF StoreInv
    <3> QED BY <2>2, <3>1, <3>2, FS_AddElement
  <2> QED BY <2>1, <2>2
<1>8. since' \in [Scopes -> SUBSET Scopes]
      BY <1>1, <1>7
<1>9. /\ order' \in Seq(Scopes) /\ Len(order') <= MaxSessions
      /\ \A i, j \in 1 .. Len(order') : i < j => order'[j] \in since'[order'[i]]
      /\ \A s : Holds(t, s) => \/ Holds(order', s)
                               \/ Len(t) = MaxSessions + 1 /\ s = t[1] /\ s # k
  <2>1. CASE Len(t) > MaxSessions
    <3>1. Len(t) = MaxSessions + 1
          BY <1>2, <1>5, <1>6, <2>1
    <3>2. t # << >>
          BY <1>2
    <3>3. /\ Tail(t) \in Seq(Scopes) /\ Len(Tail(t)) = MaxSessions
          /\ \A i \in 1 .. MaxSessions : Tail(t)[i] = t[i + 1]
          BY <1>2, <1>5, <3>1, <3>2
    <3>4. order' = Tail(t)
          BY <1>3, <2>1
    <3>5. \A i \in 1 .. MaxSessions : i + 1 \in 1 .. Len(t)
          BY <1>5, <3>1
    <3>6. \A i, j \in 1 .. MaxSessions : i < j => order'[j] \in since'[order'[i]]
      <4> SUFFICES ASSUME NEW i \in 1 .. MaxSessions, NEW j \in 1 .. MaxSessions, i < j
                   PROVE  order'[j] \in since'[order'[i]]
          OBVIOUS
      <4>1. i + 1 < j + 1
            BY <1>5
      <4> QED BY <1>2, <3>3, <3>4, <3>5, <4>1
    <3>7. t[1] # k
          BY <1>2, <1>5, <3>1
    <3>8. ASSUME NEW s, Holds(t, s), s # t[1] PROVE Holds(order', s)
      <4>1. PICK i \in 1 .. Len(t) : t[i] = s
            BY <3>8 DEF Holds
      <4>2. i - 1 \in 1 .. MaxSessions /\ (i - 1) + 1 = i
            BY <1>5, <3>1, <3>8, <4>1
      <4>3. Tail(t)[i - 1] = s
            BY <3>3, <4>1, <4>2
      <4> QED BY <3>3, <3>4, <4>2, <4>3 DEF Holds
    <3>9. Len(order') = MaxSessions /\ Len(order') <= MaxSessions
          BY <1>5, <3>3, <3>4
    <3>10. \A i, j \in 1 .. Len(order') : i < j => order'[j] \in since'[order'[i]]
          BY <3>6, <3>9
    <3> QED BY <3>1, <3>3, <3>4, <3>7, <3>8, <3>9, <3>10
  <2>2. CASE ~(Len(t) > MaxSessions)
    <3>1. order' = t /\ Len(t) <= MaxSessions
          BY <1>2, <1>3, <1>5, <2>2
    <3> QED BY <1>2, <3>1
  <2> QED BY <2>1, <2>2
<1>10. ASSUME NEW r \in Runs, Active(r)', faults' = 0, ~Holds(order', ScopeOf(r))
       PROVE  Cardinality(since'[ScopeOf(r)]) >= MaxSessions
  <2> DEFINE q == ScopeOf(r)
  <2>1. q \in Scopes
        OBVIOUS
  <2> HIDE DEF q
  <2>2. ~Holds(order', q)
        BY <1>10 DEF q
  <2>3. Holds(t, k)
        BY <1>2 DEF Holds
  <2>4. q # k
        BY <1>9, <2>2, <2>3
  <2>5. Active(r) /\ faults = 0
        BY <1>10, <2>4 DEF q
  <2>6. IsFiniteSet(since'[q])
        BY <1>7, <2>1
  <2>7. CASE Holds(order, q)
    <3>1. Len(t) = MaxSessions + 1 /\ q = t[1]
          BY <1>2, <1>9, <2>2, <2>7
    <3> DEFINE f == [i \in 1 .. MaxSessions |-> t[i + 1]]
    <3>2. \A i \in 1 .. MaxSessions : i + 1 \in 1 .. Len(t) /\ 1 < i + 1 /\ 1 \in 1 .. Len(t)
          BY <1>5, <3>1
    <3>3. \A i \in 1 .. MaxSessions : t[i + 1] \in since'[q]
          BY <1>2, <3>1, <3>2
    <3>4. f \in [1 .. MaxSessions -> since'[q]]
          BY <3>3
    <3>5. \A i, j \in 1 .. MaxSessions : i < j => f[i] # f[j]
      <4> SUFFICES ASSUME NEW i \in 1 .. MaxSessions, NEW j \in 1 .. MaxSessions, i < j
                   PROVE  f[i] # f[j]
          OBVIOUS
      <4>1. i + 1 < j + 1
            BY <1>5
      <4> QED BY <1>2, <3>2, <4>1
    <3> HIDE DEF f
    <3> QED BY <1>5, <2>6, <3>4, <3>5, AtLeast DEF q
  <2>8. CASE ~Holds(order, q)
    <3>1. Cardinality(since[q]) >= MaxSessions
          BY <2>5, <2>8 DEF StoreInv, StoreIsLRU, Holds, q
    <3>2. since[q] \in SUBSET since'[q] /\ IsFiniteSet(since[q])
          BY <1>1, <2>1, <2>4 DEF StoreInv
    <3>3. Cardinality(since[q]) <= Cardinality(since'[q])
          BY <2>6, <3>2, FS_Subset
    <3>4. Cardinality(since[q]) \in Nat /\ Cardinality(since'[q]) \in Nat
          BY <2>6, <3>2, FS_CardinalityType
    <3> QED BY <1>5, <3>1, <3>3, <3>4 DEF q
  <2> QED BY <2>7, <2>8
<1>11. \A r : ScopeOf(r)' = ScopeOf(r)
       BY DEF ScopeOf
<1>12. StoreIsLRU'
       BY <1>5, <1>9, <1>10, <1>11 DEF StoreIsLRU, Holds
<1>13. deployment' \in Deployments /\ ~deployment'.redis
       BY DEF StoreInv
<1> QED BY <1>4, <1>7, <1>8, <1>9, <1>12, <1>13 DEF StoreInv

-----------------------------------------------------------------------------
(* Every action keeps the order.                                           *)

LEMMA OthersStayActive ==
    ASSUME Typed, NEW r \in Runs, NEW n, Becomes(r, n)
    PROVE  \A q \in Runs : Active(q)' => Active(q) \/ q = r
BY DEF Becomes, Active, Typed

(* The store is left as it is, by an execution that was active.            *)
LEMMA StoreLeftAlone ==
    ASSUME Typed, StoreInv, NEW r \in Runs, Active(r), NEW n, Becomes(r, n),
           UNCHANGED <<deployment, requested, order, stale, since>>,
           UNCHANGED faults \/ Fault
    PROVE  StoreInv'
<1>1. faults' \in Nat /\ (faults' = 0 => faults = 0)
      BY DEF Fault, Faults, StoreInv
<1>2. \A q \in Runs : Active(q)' => Active(q)
      BY OthersStayActive
<1>3. (faults = 0 => stale' = {}) /\ (deployment.redis => stale' = {})
      BY DEF StoreInv
<1> QED BY <1>1, <1>2, <1>3, OrderStays

LEMMA LoadOrders ==
    ASSUME Typed, StoreInv, NEW r \in Runs, Active(r), NEW n, Becomes(r, n),
           NEW k, NEW history, Load(k, history), UNCHANGED <<deployment, requested>>
    PROVE  StoreInv'
<1>1. CASE UNCHANGED storeVars /\ (UNCHANGED faults \/ Fault)
      BY <1>1, StoreLeftAlone DEF storeVars
<1>2. CASE /\ k \in stale /\ order' = Without(order, k) /\ stale' = stale \ {k}
           /\ UNCHANGED <<since, faults>>
      BY <1>2, StaleGoes
<1> QED BY <1>1, <1>2 DEF Load

LEMMA BeginOrders ==
    ASSUME Typed, StoreInv, NEW r \in Runs, Begin(r)
    PROVE  StoreInv'
<1>1. UNCHANGED <<deployment, requested>> /\ faults' \in Nat /\ (faults' = 0 => faults = 0)
      BY DEF Begin, Faults, StoreInv
<1>2. \A q \in Runs : Active(q)' => Active(q) \/ q = r
      BY OthersStayActive DEF Begin
<1>3. \A q \in Runs : ScopeOf(q) \in Scopes
      BY ScopeType
<1>4. CASE deployment.redis
  <2>1. UNCHANGED <<order, stale, since>>
        BY <1>4 DEF Begin, Put, PutInRedis, storeVars
  <2> QED BY <1>1, <1>4, <2>1, OrderStays DEF StoreInv
<1>5. CASE ~deployment.redis
  <2>1. PutInMemory(ScopeOf(r), << >>)
        BY <1>5 DEF Begin, Put
  <2> QED BY <1>1, <1>2, <1>3, <1>5, <2>1, PutOrders
<1> QED BY <1>4, <1>5

LEMMA AppendOrders ==
    ASSUME Typed, StoreInv, NEW r \in Runs, AppendInMemory(r)
    PROVE  StoreInv'
<1>1. UNCHANGED <<deployment, requested, faults>> /\ ~deployment.redis /\ faults' \in Nat
      BY DEF AppendInMemory, StoreInv
<1>2. PICK n : Becomes(r, n)
      BY DEF AppendInMemory, Appended, Ends
<1>3. Active(r)
      BY DEF AppendInMemory, Active
<1>4. \A q \in Runs : Active(q)' => Active(q)
      BY <1>2, <1>3, OthersStayActive
<1>5. \A q \in Runs : ScopeOf(q) \in Scopes
      BY ScopeType
<1>6. PICK steps : PutInMemory(ScopeOf(r), steps)
      BY DEF AppendInMemory
<1> QED BY <1>1, <1>4, <1>5, <1>6, PutOrders

(* The steps that neither read nor write InMemoryStore.                    *)
LEMMA OtherSteps ==
    ASSUME Typed, StoreInv, NEW r \in Runs,
           \/ GiveUp(r) \/ Fail(r) \/ AppendLoad(r) \/ AppendSave(r) \/ Acquire(r)
           \/ Release(r) \/ LoseLock(r) \/ Crash(r)
    PROVE  StoreInv'
<1>1. Active(r)
      BY DEF Active, GiveUp, Fail, AppendLoad, AppendSave, Acquire, Release, LoseLock, Crash
<1>2. \E n : Becomes(r, n)
      BY DEF GiveUp, Fail, AppendLoad, AppendSave, Acquire, Release, LoseLock, Crash,
             Ends, Appended, At, Finalized
<1>3. UNCHANGED <<deployment, requested, order, stale, since>>
      BY DEF GiveUp, Fail, AppendLoad, AppendSave, Acquire, Release, LoseLock, Crash,
             PutInRedis, storeVars
<1>4. UNCHANGED faults \/ Fault
      BY DEF GiveUp, Fail, AppendLoad, AppendSave, Acquire, Release, LoseLock, Crash
<1> QED BY <1>1, <1>2, <1>3, <1>4, StoreLeftAlone

LEMMA ReadOrders ==
    ASSUME Typed, StoreInv, NEW r \in Runs, LoopStep(r) \/ ReadReview(r)
    PROVE  StoreInv'
<1>1. Active(r)
      BY DEF Active, LoopStep, ReadReview
<1>2. \E n : Becomes(r, n)
      BY DEF LoopStep, ReadReview, At, Finalized
<1>3. UNCHANGED <<deployment, requested>>
      BY DEF LoopStep, ReadReview
<1>4. \E history : Load(ScopeOf(r), history)
      BY DEF LoopStep, ReadReview
<1> QED BY <1>1, <1>2, <1>3, <1>4, LoadOrders

LEMMA SurroundingsOrder ==
    ASSUME StoreInv, ExpireSession \/ \E x \in Reviews : ExpireLock(x)
    PROVE  StoreInv'
<1>1. /\ UNCHANGED <<deployment, requested, order, since, run>>
      /\ \/ UNCHANGED <<stale, faults>>
         \/ Fault /\ (deployment.redis => UNCHANGED stale)
      BY DEF ExpireSession, ExpireLock, storeVars
<1>2. \A r \in Runs : Active(r)' => Active(r)
      BY <1>1 DEF Active
<1>3. faults' \in Nat /\ (faults' = 0 => faults = 0 /\ stale' = {})
      BY <1>1 DEF Fault, Faults, StoreInv
<1>4. deployment.redis => stale' = {}
      BY <1>1 DEF StoreInv
<1> QED BY <1>1, <1>2, <1>3, <1>4, OrderStays

LEMMA StoreInit == Init => StoreInv
<1> SUFFICES ASSUME Init PROVE StoreInv
    OBVIOUS
<1>1. /\ order = << >> /\ stale = {} /\ faults = 0 /\ deployment \in Deployments
      /\ since = [k \in Scopes |-> {}]
      BY DEF Init
<1>2. order \in Seq(Scopes) /\ Len(order) = 0
      BY <1>1
<1>3. MaxSessions \in Nat \ {0}
      BY <1>1, ExecutionsAssumption DEF MaxSessions
<1>4. \A r \in Runs : ~Active(r)
      BY DEF Init, Idle, Active
<1>5. StoreIsLRU
      BY <1>2, <1>3, <1>4 DEF StoreIsLRU
<1> QED BY <1>1, <1>2, <1>5, FS_EmptySet DEF StoreInv

LEMMA StoreStep == ExecInv /\ StoreInv /\ [Next]_vars => StoreInv'
<1> SUFFICES ASSUME Typed, StoreInv, [Next]_vars PROVE StoreInv'
    BY DEF ExecInv
<1>1. CASE UNCHANGED vars
  <2>1. UNCHANGED <<deployment, requested, order, stale, since, faults, run>>
        BY <1>1 DEF vars, storeVars
  <2>2. \A r \in Runs : Active(r)' => Active(r)
        BY <2>1 DEF Active
  <2> QED BY <2>1, <2>2, OrderStays DEF StoreInv
<1>2. CASE Next
      BY <1>2, BeginOrders, AppendOrders, OtherSteps, ReadOrders, SurroundingsOrder
      DEF Next, Step
<1> QED BY <1>1, <1>2

(* InMemoryStore never holds more sessions than MaxSessions, and until the *)
(* first fault evictIfNeeded takes the session of an active execution only *)
(* after Save and AppendStep have written that many others.                *)
THEOREM StoreEvictsOldest == Spec => []StoreIsLRU
<1>1. StoreInv => StoreIsLRU
      BY DEF StoreInv
<1> QED BY <1>1, StoreInit, StoreStep, ExecutionsInvariant, PTL DEF Spec
=============================================================================

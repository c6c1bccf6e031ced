---------------------------- MODULE JobAPIProofs ----------------------------
(* Proofs about JobAPI, for every number of clients, events and requests.  *)
EXTENDS JobAPI, TLAPS

(* The item a handler is at is one of its request.                         *)
LEMMA ItemType ==
    ASSUME APIInv, NEW c \in Clients, req[c].pc \in {"item", "dup"}
    PROVE  /\ req[c] \in Request
           /\ req[c].items \in Seq(Items)
           /\ req[c].at \in 1 .. Len(req[c].items)
           /\ Item(c) \in Items
           /\ Item(c).event \in Events \cup {NoEvent}
<1>1. req[c] \in Request /\ req[c].items \in Seq(Items) /\ req[c].at \in Nat \ {0}
      BY APIAssumption DEF APIInv, TypeOK, Request
<1>2. req[c].at <= Len(req[c].items)
      BY DEF APIInv, AllCollect, Collects
<1>3. req[c].at \in 1 .. Len(req[c].items)
      BY <1>1, <1>2
<1>4. Item(c) \in Items
      BY <1>1, <1>3 DEF Item
<1> QED BY <1>1, <1>3, <1>4, APIAssumption

(* Assigning one field of a request.                                       *)
LEMMA RequestUpdates ==
    ASSUME NEW r \in Request
    PROVE  /\ \A pc \in Points : [r EXCEPT !.pc = pc] \in Request
           /\ \A n \in Nat \ {0} : [r EXCEPT !.at = n] \in Request
           /\ \A ids \in Seq(Nat) : [r EXCEPT !.ids = ids] \in Request
           /\ \A dup \in Nat \cup {NoJob} : [r EXCEPT !.dup = dup] \in Request
           /\ [r EXCEPT !.dup = NoJob] \in Request
BY DEF Request

(* Adding a job to the answer keeps the shape of a request, the jobs       *)
(* collected before and their places.                                      *)
LEMMA CollectedShape ==
    ASSUME NEW r \in Request, r.items \in Seq(Items), r.at \in 1 .. Len(r.items),
           Len(r.ids) = r.at - 1, NEW j \in Nat, NEW s, s = Collected(r, j)
    PROVE  /\ s \in Request
           /\ s.pc \in {"item", "answer"}
           /\ s.items = r.items
           /\ s.ids = Append(r.ids, j)
           /\ Len(s.ids) = r.at
           /\ \A i \in 1 .. r.at : s.ids[i] = IF i = r.at THEN j ELSE r.ids[i]
           /\ s.pc = "item" => s.at <= Len(s.items) /\ Len(s.ids) = s.at - 1
           /\ s.pc = "answer" => Len(s.ids) = Len(s.items)
<1>1. r.ids \in Seq(Nat) /\ r.at \in Nat \ {0} /\ Len(r.items) \in Nat
      BY DEF Request
<1>2. Append(r.ids, j) \in Seq(Nat) /\ Len(Append(r.ids, j)) = r.at
      BY <1>1
<1>3. \A i \in 1 .. r.at : Append(r.ids, j)[i] = IF i = r.at THEN j ELSE r.ids[i]
      BY <1>1
<1>4. /\ s.ids = Append(r.ids, j) /\ s.items = r.items
      /\ s.at = IF r.at = Len(r.items) THEN r.at ELSE r.at + 1
      /\ s.pc = IF r.at = Len(r.items) THEN "answer" ELSE "item"
      BY DEF Collected, Request
<1>5. s \in Request
  <2> DEFINE last == r.at = Len(r.items)
             a == [r EXCEPT !.ids = Append(r.ids, j)]
             b == [a EXCEPT !.dup = NoJob]
             d == [b EXCEPT !.at = IF last THEN r.at ELSE r.at + 1]
             f == [d EXCEPT !.pc = IF last THEN "answer" ELSE "item"]
  <2>1. (IF last THEN r.at ELSE r.at + 1) \in Nat \ {0}
        BY <1>1
  <2>2. (IF last THEN "answer" ELSE "item") \in Points
        BY DEF Points
  <2>3. a \in Request
        BY <1>2, RequestUpdates, Zenon
  <2>4. b \in Request
        BY <2>3, RequestUpdates, Zenon
  <2>5. d \in Request
        BY <2>4, <2>1, RequestUpdates, Zenon
  <2>6. f \in Request
        BY <2>5, <2>2, RequestUpdates, Zenon
  <2> QED BY <2>6, Zenon DEF Collected
<1> QED BY <1>1, <1>2, <1>3, <1>4, <1>5

(* A step in which one handler goes on and the records known before keep   *)
(* their event: what the handlers have collected stays right.              *)
LEMMA HandlerGoesOn ==
    ASSUME APIInv, NEW c \in Clients, NEW r \in Request, GoesOn(c, r),
           Jobs \subseteq Jobs', \A j \in Jobs : eventOf'[j] = eventOf[j],
           Collects(r)',
           \/ r.ids = << >>
           \/ r.ids = req[c].ids
           \/ \E j \in Jobs' : /\ r.ids = Append(req[c].ids, j)
                               /\ eventOf'[j] # NoEvent \/ j \notin Jobs
    PROVE  req' \in [Clients -> Request] /\ AllCollect' /\ AnonymousOnce'
<1>1. req' \in [Clients -> Request] /\ req'[c] = r /\ \A d \in Clients \ {c} : req'[d] = req[d]
      BY DEF APIInv, TypeOK, GoesOn
<1>2. AllCollect'
  <2> SUFFICES ASSUME NEW d \in Clients PROVE Collects(req[d])'
      BY DEF AllCollect
  <2>1. CASE d = c
        BY <2>1, <1>1 DEF Collects
  <2>2. CASE d # c
    <3>1. Collects(req[d]) /\ req'[d] = req[d] /\ req[d] \in Request
          BY <2>2, <1>1 DEF APIInv, AllCollect, TypeOK
    <3>2. req[d].ids \in Seq(Nat)
          BY <3>1 DEF Request
    <3>3. \A x \in Jobs : x \in Jobs' /\ eventOf'[x] = eventOf[x]
          OBVIOUS
    <3> HIDE DEF Jobs
    <3> QED BY <3>1, <3>3, SMTT(30) DEF Collects
  <2> QED BY <2>1, <2>2
<1>3. ASSUME NEW d \in Clients, NEW i \in 1 .. Len(req'[d].ids)
      PROVE  \/ d = c /\ i = Len(req'[d].ids) /\ Len(req'[d].ids) = Len(req[d].ids) + 1
                /\ req'[d].ids[i] \in Jobs'
                /\ (eventOf'[req'[d].ids[i]] # NoEvent \/ req'[d].ids[i] \notin Jobs)
             \/ i \in 1 .. Len(req[d].ids) /\ req'[d].ids[i] = req[d].ids[i]
  <2>1. req[d].ids \in Seq(Nat)
        BY DEF APIInv, TypeOK, Request
  <2>2. CASE d # c \/ r.ids = << >> \/ r.ids = req[c].ids
        BY <2>1, <2>2, <1>1, <1>3
  <2>3. CASE d = c /\ \E j \in Jobs' : /\ r.ids = Append(req[c].ids, j)
                                       /\ eventOf'[j] # NoEvent \/ j \notin Jobs
    <3>1. PICK j \in Jobs' : /\ r.ids = Append(req[d].ids, j)
                             /\ eventOf'[j] # NoEvent \/ j \notin Jobs
          BY <2>3
    <3>2. j \in Nat
          BY <3>1 DEF Jobs
    <3>3. Len(r.ids) = Len(req[d].ids) + 1 /\ Len(req[d].ids) \in Nat
          BY <3>1, <3>2, <2>1
    <3>4. CASE i = Len(r.ids)
          BY <3>1, <3>2, <3>3, <3>4, <2>1, <2>3, <1>1
    <3>5. CASE i # Len(r.ids)
      <4>1. i \in 1 .. Len(req[d].ids)
            BY <3>3, <3>5, <2>3, <1>1, <1>3
      <4>2. r.ids[i] = req[d].ids[i]
            BY <4>1, <3>1, <3>2, <2>1
      <4> QED BY <4>1, <4>2, <2>3, <1>1
    <3> QED BY <3>4, <3>5
  <2> QED BY <2>2, <2>3
<1>4. AnonymousOnce'
  <2> SUFFICES ASSUME NEW d \in Clients, NEW f \in Clients,
                      NEW i \in 1 .. Len(req'[d].ids), NEW k \in 1 .. Len(req'[f].ids)
               PROVE  /\ req'[d].ids[i] \in Jobs'
                      /\ req'[d].ids[i] = req'[f].ids[k] /\ eventOf'[req'[d].ids[i]] = NoEvent
                            => d = f /\ i = k
      BY DEF AnonymousOnce
  <2> DEFINE Old(x, n) == n \in 1 .. Len(req[x].ids) /\ req'[x].ids[n] = req[x].ids[n]
             New(x, n) == /\ x = c /\ n = Len(req'[x].ids) /\ req'[x].ids[n] \in Jobs'
                          /\ (eventOf'[req'[x].ids[n]] # NoEvent \/ req'[x].ids[n] \notin Jobs)
  <2>1. (Old(d, i) \/ New(d, i)) /\ (Old(f, k) \/ New(f, k))
        BY <1>3
  <2>2. ASSUME NEW x \in Clients, NEW n, Old(x, n) PROVE req[x].ids[n] \in Jobs
        BY <2>2 DEF APIInv, AnonymousOnce
  <2>3. CASE Old(d, i) /\ Old(f, k)
    <3>1. req[d].ids[i] \in Jobs /\ eventOf'[req[d].ids[i]] = eventOf[req[d].ids[i]]
          BY <2>2, <2>3
    <3>2. req[d].ids[i] = req[f].ids[k] /\ eventOf[req[d].ids[i]] = NoEvent => d = f /\ i = k
          BY <2>3 DEF APIInv, AnonymousOnce
    <3> QED BY <3>1, <3>2, <2>3
  <2>4. CASE New(d, i) /\ New(f, k)
        BY <2>4
  <2>5. CASE Old(d, i) /\ New(f, k)
    <3>1. req'[d].ids[i] \in Jobs
          BY <2>2, <2>5
    <3> QED BY <3>1, <2>5
  <2>6. CASE New(d, i) /\ Old(f, k)
    <3>1. req'[f].ids[k] \in Jobs
          BY <2>2, <2>6
    <3> QED BY <3>1, <2>6
  <2> QED BY <2>1, <2>3, <2>4, <2>5, <2>6
<1> QED BY <1>1, <1>2, <1>4

-----------------------------------------------------------------------------
(* Every action keeps the invariant.                                       *)

LEMMA PostKeeps ==
    ASSUME APIInv, NEW c \in Clients, Post(c)
    PROVE  APIInv'
<1> PICK r : r = req'[c]
    OBVIOUS
<1>1. /\ req[c] \in Request /\ req[c].pc \in Points
      /\ r = IF Acceptable(req[c].items)
             THEN [req[c] EXCEPT !.pc = "item", !.at = 1, !.ids = << >>]
             ELSE [req[c] EXCEPT !.pc = "refused"]
      /\ GoesOn(c, r)
      BY DEF APIInv, TypeOK, Request, Post, GoesOn
<1>2. UNCHANGED <<enabled, issued, eventOf, live, source, faults>>
      BY DEF Post, redisVars
<1>3. r \in Request
  <2>1. CASE Acceptable(req[c].items)
    <3> DEFINE a == [req[c] EXCEPT !.pc = "item"]
               b == [a EXCEPT !.at = 1]
    <3>1. "item" \in Points /\ 1 \in Nat \ {0} /\ << >> \in Seq(Nat)
          BY DEF Points
    <3>2. a \in Request
          BY <1>1, <3>1, RequestUpdates, Zenon
    <3>3. b \in Request
          BY <3>1, <3>2, RequestUpdates, Zenon
    <3>4. [b EXCEPT !.ids = << >>] \in Request
          BY <3>1, <3>3, RequestUpdates, Zenon
    <3> QED BY <3>4, <2>1, <1>1, Zenon
  <2>2. CASE ~Acceptable(req[c].items)
        BY <2>2, <1>1 DEF Request, Points
  <2> QED BY <2>1, <2>2
<1>4. /\ r.items = req[c].items
      /\ Acceptable(req[c].items) => r.pc = "item" /\ r.at = 1 /\ r.ids = << >>
      /\ ~Acceptable(req[c].items) => r.pc = "refused" /\ r.ids = req[c].ids
      BY <1>1 DEF Request
<1>5. Collects(r)'
  <2>1. CASE Acceptable(req[c].items)
    <3>1. req[c].items \in Seq(Items) /\ req[c].items # << >>
          BY <2>1, <1>1, APIAssumption DEF Acceptable, Request
    <3>2. 1 <= Len(r.items) /\ Len(r.ids) = 0
          BY <3>1, <2>1, <1>4
    <3> QED BY <3>2, <2>1, <1>4 DEF Collects
  <2>2. CASE ~Acceptable(req[c].items)
        BY <2>2, <1>4 DEF Collects
  <2> QED BY <2>1, <2>2
<1>6. Jobs' = Jobs
      BY <1>2 DEF Jobs
<1>7. req' \in [Clients -> Request] /\ AllCollect' /\ AnonymousOnce'
      BY <1>1, <1>2, <1>3, <1>4, <1>5, <1>6, HandlerGoesOn
<1>8. KeyOfLiveJob' /\ KeysMatch'
      BY <1>2 DEF APIInv, KeyOfLiveJob, KeysMatch
<1>9. TypeOK'
      BY <1>2, <1>6, <1>7 DEF APIInv, TypeOK
<1> QED BY <1>7, <1>8, <1>9 DEF APIInv

(* A step in which a handler only moves to an end of its request.          *)
LEMMA HandlerEnds ==
    ASSUME APIInv, NEW c \in Clients, NEW pc \in {"failed", "refused"}, At(c, pc),
           UNCHANGED <<issued, eventOf>>
    PROVE  req' \in [Clients -> Request] /\ AllCollect' /\ AnonymousOnce'
<1> PICK r : r = [req[c] EXCEPT !.pc = pc]
    OBVIOUS
<1>1. req[c] \in Request
      BY DEF APIInv, TypeOK
<1>2. r \in Request /\ r.pc = pc /\ r.ids = req[c].ids
      BY <1>1 DEF Request, Points
<1>3. GoesOn(c, r)
      BY DEF At
<1>4. Jobs' = Jobs
      BY DEF Jobs
<1>5. Collects(r)'
      BY <1>2 DEF Collects
<1> QED BY <1>2, <1>3, <1>4, <1>5, HandlerGoesOn

(* A step that changes nothing in Redis and at most counts a fault.        *)
LEMMA RedisUnchanged ==
    ASSUME APIInv, UNCHANGED <<enabled, redisVars>>, faults' = faults \/ Fault,
           req' \in [Clients -> Request]
    PROVE  TypeOK' /\ KeyOfLiveJob' /\ KeysMatch'
<1>1. UNCHANGED <<enabled, issued, eventOf, live, source>> /\ Jobs' = Jobs
      BY DEF redisVars, Jobs
<1>2. KeyOfLiveJob' /\ KeysMatch'
      BY <1>1 DEF APIInv, KeyOfLiveJob, KeysMatch
<1>3. faults' \in 0 .. MaxFaults
      BY APIAssumption DEF APIInv, TypeOK, Fault
<1> QED BY <1>1, <1>2, <1>3 DEF APIInv, TypeOK

LEMMA RefuseKeeps ==
    ASSUME APIInv, NEW c \in Clients, RefuseItem(c)
    PROVE  APIInv'
<1>1. At(c, "refused") /\ UNCHANGED <<enabled, redisVars, faults, issued, eventOf>>
      BY DEF RefuseItem, redisVars
<1>2. req' \in [Clients -> Request] /\ AllCollect' /\ AnonymousOnce'
      BY <1>1, HandlerEnds
<1> QED BY <1>1, <1>2, RedisUnchanged DEF APIInv

LEMMA AnswerKeeps ==
    ASSUME APIInv, NEW c \in Clients, Answer(c)
    PROVE  APIInv'
<1>1. UNCHANGED <<enabled, redisVars, issued, eventOf>> /\ (faults' = faults \/ Fault)
      BY DEF Answer, redisVars
<1>2. req' \in [Clients -> Request] /\ AllCollect' /\ AnonymousOnce'
  <2>1. CASE At(c, "accepted")
    <3> PICK r : r = [req[c] EXCEPT !.pc = "accepted"]
        OBVIOUS
    <3>1. req[c] \in Request /\ Collects(req[c]) /\ req[c].pc = "answer"
          BY DEF APIInv, TypeOK, AllCollect, Answer
    <3>2. r \in Request /\ r.pc = "accepted" /\ r.ids = req[c].ids /\ r.items = req[c].items
          BY <3>1 DEF Request, Points
    <3>3. GoesOn(c, r)
          BY <2>1 DEF At
    <3>4. Jobs' = Jobs
          BY <1>1 DEF Jobs
    <3>5. Collects(r)'
          BY <1>1, <3>1, <3>2, <3>4 DEF Collects
    <3> QED BY <1>1, <3>2, <3>3, <3>4, <3>5, HandlerGoesOn
  <2>2. CASE At(c, "failed")
        BY <2>2, <1>1, HandlerEnds
  <2> QED BY <2>1, <2>2 DEF Answer
<1> QED BY <1>1, <1>2, RedisUnchanged DEF APIInv

(* A handler adds a job of the item's event to its answer.                 *)
LEMMA HandlerCollects ==
    ASSUME APIInv, NEW c \in Clients, req[c].pc \in {"item", "dup"}, NEW j \in Jobs',
           GoesOn(c, Collected(req[c], j)),
           Jobs \subseteq Jobs', \A k \in Jobs : eventOf'[k] = eventOf[k],
           eventOf'[j] = Item(c).event, Item(c).event # NoEvent \/ j \notin Jobs
    PROVE  req' \in [Clients -> Request] /\ AllCollect' /\ AnonymousOnce'
<1>1. PICK r : r = Collected(req[c], j)
      OBVIOUS
<1>2. /\ req[c] \in Request /\ req[c].items \in Seq(Items)
      /\ req[c].at \in 1 .. Len(req[c].items)
      BY ItemType
<1>3. /\ Len(req[c].ids) = req[c].at - 1
      /\ \A i \in 1 .. Len(req[c].ids) :
            req[c].ids[i] \in Jobs /\ eventOf[req[c].ids[i]] = req[c].items[i].event
      BY DEF APIInv, AllCollect, Collects
<1>4. j \in Nat
      BY DEF Jobs
<1>5. /\ r \in Request /\ r.pc \in {"item", "answer"} /\ r.items = req[c].items
      /\ r.ids = Append(req[c].ids, j) /\ Len(r.ids) = req[c].at
      /\ \A i \in 1 .. req[c].at : r.ids[i] = IF i = req[c].at THEN j ELSE req[c].ids[i]
      /\ r.pc = "item" => r.at <= Len(r.items) /\ Len(r.ids) = r.at - 1
      /\ r.pc = "answer" => Len(r.ids) = Len(r.items)
  <2>1. PICK q : q = req[c]
        OBVIOUS
  <2>2. /\ q \in Request /\ q.items \in Seq(Items) /\ q.at \in 1 .. Len(q.items)
        /\ Len(q.ids) = q.at - 1 /\ r = Collected(q, j)
        BY <1>1, <1>2, <1>3, <2>1, Zenon
  <2>3. /\ r \in Request /\ r.pc \in {"item", "answer"} /\ r.items = q.items
        /\ r.ids = Append(q.ids, j) /\ Len(r.ids) = q.at
        /\ \A i \in 1 .. q.at : r.ids[i] = IF i = q.at THEN j ELSE q.ids[i]
        /\ r.pc = "item" => r.at <= Len(r.items) /\ Len(r.ids) = r.at - 1
        /\ r.pc = "answer" => Len(r.ids) = Len(r.items)
        BY <1>4, <2>2, CollectedShape
  <2> QED BY <2>1, <2>3
<1>6. ASSUME NEW i \in 1 .. Len(r.ids)
      PROVE  r.ids[i] \in Jobs' /\ eventOf'[r.ids[i]] = r.items[i].event
  <2>1. CASE i = req[c].at
        BY <2>1, <1>5 DEF Item
  <2>2. CASE i # req[c].at
    <3>1. i \in 1 .. Len(req[c].ids) /\ r.ids[i] = req[c].ids[i]
          BY <2>2, <1>2, <1>3, <1>5, <1>6
    <3> QED BY <3>1, <1>3, <1>5
  <2> QED BY <2>1, <2>2
<1>7. Collects(r)'
      BY <1>5, <1>6 DEF Collects
<1> QED BY <1>1, <1>5, <1>7, HandlerGoesOn

(* createJobScript: the new job takes the source-event key of its event,   *)
(* which no live job holds.                                                *)
LEMMA CreateKeeps ==
    ASSUME APIInv, NEW e \in Events \cup {NoEvent}, ~DuplicateOf(e), Create(e)
    PROVE  /\ Jobs \subseteq Jobs' /\ issued + 1 \in Jobs' /\ issued + 1 \notin Jobs
           /\ \A k \in Jobs : eventOf'[k] = eventOf[k]
           /\ eventOf'[issued + 1] = e
           /\ issued' \in Nat
           /\ eventOf' \in [Jobs' -> Events \cup {NoEvent}]
           /\ live' \in SUBSET Jobs'
           /\ source' \in [Events -> Jobs' \cup {NoJob}]
           /\ KeyOfLiveJob' /\ KeysMatch'
<1>1. issued \in Nat /\ issued' = issued + 1 /\ Jobs' = 1 .. issued + 1
      BY DEF APIInv, TypeOK, Create, Jobs
<1>2. Jobs \subseteq Jobs' /\ issued + 1 \in Jobs' /\ issued + 1 \notin Jobs /\ issued' \in Nat
      BY <1>1 DEF Jobs
<1>3. /\ eventOf' \in [Jobs' -> Events \cup {NoEvent}]
      /\ \A k \in Jobs : eventOf'[k] = eventOf[k]
      /\ eventOf'[issued + 1] = e
      BY <1>1, <1>2 DEF APIInv, TypeOK, Create, Jobs
<1>4. live \in SUBSET Jobs /\ live' = live \cup {issued + 1}
      BY DEF APIInv, TypeOK, Create
<1>5. source \in [Events -> Jobs \cup {NoJob}]
      BY DEF APIInv, TypeOK
<1>6. source' = IF e = NoEvent THEN source ELSE [source EXCEPT ![e] = issued + 1]
      BY DEF Create
<1>7. source' \in [Events -> Jobs' \cup {NoJob}]
      BY <1>2, <1>5, <1>6
<1>8. NoJob \notin Jobs /\ NoJob \notin Jobs'
      BY APIAssumption, <1>1 DEF Jobs
<1>9. KeyOfLiveJob'
  <2> SUFFICES ASSUME NEW j \in live', eventOf'[j] # NoEvent
               PROVE  source'[eventOf'[j]] = j
      BY DEF KeyOfLiveJob
  <2>1. CASE j = issued + 1
        BY <2>1, <1>3, <1>5, <1>6
  <2>2. CASE j # issued + 1
    <3>1. j \in live /\ j \in Jobs /\ eventOf'[j] = eventOf[j]
          BY <2>2, <1>3, <1>4
    <3>2. source[eventOf[j]] = j /\ eventOf[j] \in Events
          BY <3>1 DEF APIInv, KeyOfLiveJob, TypeOK
    <3>3. eventOf[j] # e
          BY <3>1, <3>2, <1>8 DEF DuplicateOf
    <3> QED BY <3>1, <3>2, <3>3, <1>5, <1>6
  <2> QED BY <2>1, <2>2
<1>10. KeysMatch'
  <2> SUFFICES ASSUME NEW f \in Events, source'[f] # NoJob
               PROVE  eventOf'[source'[f]] = f
      BY DEF KeysMatch
  <2>1. CASE f = e
        BY <2>1, <1>3, <1>5, <1>6, APIAssumption
  <2>2. CASE f # e
    <3>1. source'[f] = source[f] /\ source[f] \in Jobs
          BY <2>2, <1>5, <1>6
    <3> QED BY <3>1, <1>3 DEF APIInv, KeysMatch
  <2> QED BY <2>1, <2>2
<1> QED BY <1>2, <1>3, <1>4, <1>7, <1>9, <1>10

LEMMA SubmitKeeps ==
    ASSUME APIInv, NEW c \in Clients, SubmitItem(c)
    PROVE  APIInv'
<1> DEFINE e == Item(c).event
<1>1. req[c].pc = "item" /\ e \in Events \cup {NoEvent} /\ UNCHANGED enabled
      BY ItemType DEF SubmitItem
<1>2. CASE /\ ~DuplicateOf(e)
           /\ Create(e)
           /\ \/ GoesOn(c, Collected(req[c], issued + 1)) /\ UNCHANGED faults
              \/ At(c, "failed") /\ Fault
  <2>1. /\ Jobs \subseteq Jobs' /\ issued + 1 \in Jobs' /\ issued + 1 \notin Jobs
        /\ \A k \in Jobs : eventOf'[k] = eventOf[k]
        /\ eventOf'[issued + 1] = e
        /\ issued' \in Nat
        /\ eventOf' \in [Jobs' -> Events \cup {NoEvent}]
        /\ live' \in SUBSET Jobs'
        /\ source' \in [Events -> Jobs' \cup {NoJob}]
        /\ KeyOfLiveJob' /\ KeysMatch'
        BY <1>1, <1>2, CreateKeeps
  <2>2. req' \in [Clients -> Request] /\ AllCollect' /\ AnonymousOnce'
    <3>1. CASE GoesOn(c, Collected(req[c], issued + 1))
          BY <3>1, <2>1, <1>1, HandlerCollects
    <3>2. CASE At(c, "failed")
      <4> PICK r : r = [req[c] EXCEPT !.pc = "failed"]
          OBVIOUS
      <4>1. r \in Request /\ r.pc = "failed" /\ r.ids = req[c].ids
            BY DEF APIInv, TypeOK, Request, Points
      <4>2. Collects(r)'
            BY <4>1 DEF Collects
      <4>3. GoesOn(c, r)
            BY <3>2 DEF At
      <4> QED BY <4>1, <4>2, <4>3, <2>1, HandlerGoesOn
    <3> QED BY <3>1, <3>2, <1>2
  <2>3. faults' \in 0 .. MaxFaults
        BY <1>2, APIAssumption DEF Fault, APIInv, TypeOK
  <2>4. TypeOK'
        BY <1>1, <2>1, <2>2, <2>3 DEF TypeOK, APIInv
  <2> QED BY <2>1, <2>2, <2>4 DEF APIInv
<1>3. CASE /\ DuplicateOf(e)
           /\ GoesOn(c, [req[c] EXCEPT !.pc = "dup", !.dup = source[e]])
           /\ UNCHANGED <<redisVars, faults>>
  <2>1. PICK r : r = [req[c] EXCEPT !.pc = "dup", !.dup = source[e]]
        OBVIOUS
  <2>2. /\ source[e] \in Jobs /\ source[e] \in Nat /\ eventOf[source[e]] = e /\ e # NoEvent
        BY <1>1, <1>3 DEF DuplicateOf, APIInv, TypeOK, KeysMatch, Jobs
  <2>3. req[c] \in Request /\ Collects(req[c])
        BY DEF APIInv, TypeOK, AllCollect
  <2>4. /\ r.pc = "dup" /\ r.dup = source[e] /\ r.items = req[c].items /\ r.at = req[c].at
        /\ r.ids = req[c].ids
        BY <2>1, <2>3 DEF Request
  <2>5. r \in Request
    <3> DEFINE a == [req[c] EXCEPT !.pc = "dup"]
    <3>1. a \in Request
          BY <2>3, RequestUpdates DEF Points
    <3>2. [a EXCEPT !.dup = source[e]] \in Request
          BY <2>2, <3>1, RequestUpdates, Zenon
    <3> QED BY <2>1, <3>2, Zenon
  <2>6. UNCHANGED <<issued, eventOf>> /\ Jobs' = Jobs
        BY <1>3 DEF redisVars, Jobs
  <2>7. Collects(r)'
    <3>1. /\ req[c].at <= Len(req[c].items) /\ Len(req[c].ids) = req[c].at - 1
          /\ \A i \in 1 .. Len(req[c].ids) :
                req[c].ids[i] \in Jobs /\ eventOf[req[c].ids[i]] = req[c].items[i].event
          BY <1>1, <2>3 DEF Collects
    <3>2. r.at <= Len(r.items) /\ Len(r.ids) = r.at - 1
          BY <3>1, <2>4
    <3>3. \A i \in 1 .. Len(r.ids) :
                r.ids[i] \in Jobs' /\ eventOf'[r.ids[i]] = r.items[i].event
          BY <3>1, <2>4, <2>6
    <3>4. r.dup \in Jobs' /\ eventOf'[r.dup] = r.items[r.at].event /\ r.items[r.at].event # NoEvent
          BY <2>2, <2>4, <2>6 DEF Item
    <3> QED BY <2>4, <3>2, <3>3, <3>4 DEF Collects
  <2>8. req' \in [Clients -> Request] /\ AllCollect' /\ AnonymousOnce'
        BY <1>3, <2>1, <2>4, <2>5, <2>6, <2>7, HandlerGoesOn
  <2> QED BY <1>1, <1>3, <2>8, RedisUnchanged DEF APIInv
<1>4. CASE At(c, "failed") /\ Fault /\ UNCHANGED redisVars
  <2>1. UNCHANGED <<issued, eventOf>>
        BY <1>4 DEF redisVars
  <2>2. req' \in [Clients -> Request] /\ AllCollect' /\ AnonymousOnce'
        BY <1>4, <2>1, HandlerEnds
  <2> QED BY <1>1, <1>4, <2>2, RedisUnchanged DEF APIInv
<1> QED BY <1>2, <1>3, <1>4 DEF SubmitItem

LEMMA GetExistingKeeps ==
    ASSUME APIInv, NEW c \in Clients, GetExisting(c)
    PROVE  APIInv'
<1>1. /\ UNCHANGED <<enabled, redisVars, issued, eventOf>> /\ Jobs' = Jobs
      /\ (faults' = faults \/ Fault) /\ req[c].pc = "dup"
      BY DEF GetExisting, redisVars, Jobs
<1>2. req' \in [Clients -> Request] /\ AllCollect' /\ AnonymousOnce'
  <2>1. CASE GoesOn(c, Collected(req[c], req[c].dup))
    <3>1. /\ req[c].dup \in Jobs /\ eventOf[req[c].dup] = Item(c).event
          /\ Item(c).event # NoEvent
          BY <1>1 DEF APIInv, AllCollect, Collects, Item
    <3> QED BY <1>1, <2>1, <3>1, HandlerCollects
  <2>2. CASE At(c, "failed")
        BY <1>1, <2>2, HandlerEnds
  <2> QED BY <2>1, <2>2 DEF GetExisting
<1> QED BY <1>1, <1>2, RedisUnchanged DEF APIInv

LEMMA ExpireKeeps ==
    ASSUME APIInv, NEW j \in Jobs, ExpireRecord(j)
    PROVE  APIInv'
<1>1. /\ UNCHANGED <<enabled, issued, eventOf, req>> /\ Jobs' = Jobs
      /\ live' = live \ {j}
      /\ \/ UNCHANGED source
         \/ source' = [e \in Events |-> IF source[e] = j THEN NoJob ELSE source[e]]
      BY DEF ExpireRecord, Jobs
<1>2. AllCollect' /\ AnonymousOnce'
      BY <1>1 DEF APIInv, AllCollect, AnonymousOnce, Collects
<1>3. KeyOfLiveJob'
  <2> SUFFICES ASSUME NEW k \in live', eventOf'[k] # NoEvent
               PROVE  source'[eventOf'[k]] = k
      BY DEF KeyOfLiveJob
  <2>1. k \in live /\ k # j /\ eventOf[k] # NoEvent /\ k \in Jobs
        BY <1>1 DEF APIInv, TypeOK
  <2>2. source[eventOf[k]] = k /\ eventOf[k] \in Events
        BY <2>1 DEF APIInv, KeyOfLiveJob, TypeOK
  <2> QED BY <1>1, <2>1, <2>2
<1>4. KeysMatch'
      BY <1>1 DEF APIInv, KeysMatch
<1>5. faults' \in 0 .. MaxFaults
      BY APIAssumption DEF ExpireRecord, Fault, APIInv, TypeOK
<1>6. TypeOK'
      BY <1>1, <1>5 DEF APIInv, TypeOK
<1> QED BY <1>2, <1>3, <1>4, <1>6 DEF APIInv

-----------------------------------------------------------------------------

LEMMA InitInv == Init => APIInv
<1> SUFFICES ASSUME Init PROVE APIInv
    OBVIOUS
<1>1. Jobs = {}
      BY DEF Init, Jobs
<1>2. ASSUME NEW c \in Clients
      PROVE  /\ req[c] \in Request /\ req[c].pc = "idle" /\ req[c].ids = << >>
  <2>1. req[c] \in [pc : {"idle"}, items : Requests, at : {1}, ids : {<< >>}, dup : {NoJob}]
        BY DEF Init
  <2>2. << >> \in Seq(Nat) /\ "idle" \in Points /\ 1 \in Nat \ {0}
        BY DEF Points
  <2> QED BY <2>1, <2>2 DEF Request
<1>3. req \in [Clients -> Request]
      BY <1>2 DEF Init
<1>4. TypeOK
      BY <1>1, <1>3, APIAssumption DEF Init, TypeOK
<1>5. AllCollect
      BY <1>2 DEF AllCollect, Collects
<1>6. AnonymousOnce
      BY <1>2 DEF AnonymousOnce
<1>7. KeyOfLiveJob /\ KeysMatch
      BY DEF Init, KeyOfLiveJob, KeysMatch
<1> QED BY <1>4, <1>5, <1>6, <1>7 DEF APIInv

LEMMA NextInv == APIInv /\ [Next]_vars => APIInv'
<1> SUFFICES ASSUME APIInv, [Next]_vars PROVE APIInv'
    OBVIOUS
<1>1. CASE \E c \in Clients : Post(c) \/ Handle(c)
      BY <1>1, PostKeeps, RefuseKeeps, SubmitKeeps, GetExistingKeeps, AnswerKeeps DEF Handle
<1>2. CASE \E j \in Jobs : ExpireRecord(j)
      BY <1>2, ExpireKeeps
<1>3. CASE UNCHANGED vars
  <2>1. UNCHANGED <<enabled, issued, eventOf, live, source, req, faults>> /\ Jobs' = Jobs
        BY <1>3 DEF vars, redisVars, Jobs
  <2>2. TypeOK' /\ KeyOfLiveJob' /\ KeysMatch'
        BY <2>1 DEF APIInv, TypeOK, KeyOfLiveJob, KeysMatch
  <2>3. AllCollect' /\ AnonymousOnce'
        BY <2>1 DEF APIInv, AllCollect, AnonymousOnce, Collects
  <2> QED BY <2>2, <2>3 DEF APIInv
<1> QED BY <1>1, <1>2, <1>3 DEF Next

(* The strengthened invariant: a live job of an event is the one its       *)
(* source-event key names, and every handler's list runs in step with its  *)
(* items.                                                                  *)
THEOREM APIInvariant == Spec => []APIInv
BY InitInv, NextInv, PTL DEF Spec

(* However requests overlap, stop half way and are repeated, an event has  *)
(* one live job: createJobScript finds the key of any live job there is.   *)
THEOREM EventsHaveOneJob == Spec => []OneJobPerEvent
<1>1. APIInv => OneJobPerEvent
      BY DEF APIInv, KeyOfLiveJob, OneJobPerEvent
<1> QED BY <1>1, APIInvariant, PTL

(* The answer of a batch names the items' own jobs, in their order.        *)
THEOREM AnswersAreRight == Spec => []AnswersMatch
<1>1. APIInv => AnswersMatch
  <2> SUFFICES ASSUME APIInv, NEW c \in Clients, req[c].pc = "accepted"
               PROVE  /\ Len(req[c].ids) = Len(req[c].items)
                      /\ \A i \in 1 .. Len(req[c].ids) :
                            /\ eventOf[req[c].ids[i]] = req[c].items[i].event
                            /\ req[c].items[i].event = NoEvent =>
                                  \A d \in Clients : \A k \in 1 .. Len(req[d].ids) :
                                      req[d].ids[k] = req[c].ids[i] => d = c /\ k = i
      BY DEF AnswersMatch
  <2>1. Collects(req[c])
        BY DEF APIInv, AllCollect
  <2>2. /\ Len(req[c].ids) = Len(req[c].items)
        /\ \A i \in 1 .. Len(req[c].ids) : eventOf[req[c].ids[i]] = req[c].items[i].event
        BY <2>1 DEF Collects
  <2> QED BY <2>2 DEF APIInv, AnonymousOnce
<1> QED BY <1>1, APIInvariant, PTL
=============================================================================

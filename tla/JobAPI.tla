-------------------------------- MODULE JobAPI --------------------------------
(***************************************************************************)
(* How jobs enter the queue: the handlers of internal/server/http/         *)
(* handler.go that submit one job or a batch, and Submit of                *)
(* internal/job/service.go behind them.                                    *)
(*                                                                         *)
(* A handler submits the items of a batch one after the other and answers  *)
(* with an error at the first that fails, although the jobs of the items   *)
(* before it are queued by then.  A client that is not told "accepted"     *)
(* repeats its request.  Requests of several clients overlap, and so do a  *)
(* request and its repetition: the repetition is another client with the   *)
(* same items.                                                             *)
(*                                                                         *)
(* A call to Redis may fail without effect, or take effect and lose its    *)
(* reply; the answer of the handler may be lost; the record of a job may   *)
(* expire, and the source-event key that points to it later than the       *)
(* record.  These are counted by "faults" and bounded by MaxFaults.        *)
(*                                                                         *)
(* What happens to a queued job is the subject of JobService; here only    *)
(* the existence of its record matters.                                    *)
(***************************************************************************)
EXTENDS Naturals, Sequences

CONSTANTS
    Clients,
    Items,          \* job.Request: [event, valid]
    Requests,       \* what clients may post: sequences of items
    Events,         \* the SourceEventIDs
    NoEvent,        \* an item without SourceEventID
    MaxBatchSize,
    MaxFaults,
    NoJob

ASSUME APIAssumption ==
    /\ Items \subseteq [event : Events \cup {NoEvent}, valid : BOOLEAN]
    /\ Requests \subseteq Seq(Items)
    /\ MaxBatchSize \in Nat
    /\ MaxFaults \in Nat
    /\ NoEvent \notin Events
    /\ NoJob \notin Nat

VARIABLES
    enabled,  \* Service.Enabled(): the queue is configured
    issued,   \* number of ids newID() has handed out; a job is its number
    eventOf,  \* SourceEventID in the record of each job
    live,     \* jobs whose record exists
    source,   \* the job each source-event key points to
    req,      \* the request of each client
    faults

redisVars == <<issued, eventOf, live, source>>
vars == <<enabled, redisVars, req, faults>>

Jobs == 1 .. issued

-----------------------------------------------------------------------------
(* A request: the items, the one the handler is at, the ids it has         *)
(* collected, and the job a duplicate points to.                           *)
(* "refused" is an error that posting again cannot mend.                   *)
Points == {"idle", "item", "dup", "answer", "failed", "refused", "accepted"}

Request == [pc : Points, items : Requests, at : Nat \ {0}, ids : Seq(Nat),
            dup : Nat \cup {NoJob}]

TypeOK ==
    /\ enabled \in BOOLEAN
    /\ issued \in Nat
    /\ eventOf \in [Jobs -> Events \cup {NoEvent}]
    /\ live \in SUBSET Jobs
    /\ source \in [Events -> Jobs \cup {NoJob}]
    /\ req \in [Clients -> Request]
    /\ faults \in 0 .. MaxFaults

Init ==
    /\ enabled \in BOOLEAN
    /\ issued = 0
    /\ eventOf = << >>
    /\ live = {}
    /\ source = [e \in Events |-> NoJob]
    /\ req \in [Clients -> [pc : {"idle"}, items : Requests, at : {1}, ids : {<< >>},
                            dup : {NoJob}]]
    /\ faults = 0

GoesOn(c, r) == req' = [req EXCEPT ![c] = r]

At(c, pc) == GoesOn(c, [req[c] EXCEPT !.pc = pc])

Fault == faults < MaxFaults /\ faults' = faults + 1

Item(c) == req[c].items[req[c].at]

-----------------------------------------------------------------------------
(* handleAgentJobSubmit and handleAgentJobBatchSubmit.                     *)

(* The checks before the first item; a single job is a batch of one, and a *)
(* body that is not JSON is refused like an empty batch.                   *)
Acceptable(items) == enabled /\ items # << >> /\ Len(items) <= MaxBatchSize

(* The client posts its request, for the first time or after a failure.    *)
Post(c) ==
    /\ req[c].pc \in {"idle", "failed"}
    /\ GoesOn(c, IF Acceptable(req[c].items)
                 THEN [req[c] EXCEPT !.pc = "item", !.at = 1, !.ids = << >>]
                 ELSE [req[c] EXCEPT !.pc = "refused"])
    /\ UNCHANGED <<enabled, redisVars, faults>>

(* Faulty variant: the answer lists the jobs in reverse.                   *)
BadCollected(r, j) == [r EXCEPT !.ids = <<j>> \o @, !.dup = NoJob,
    !.at = IF r.at = Len(r.items) THEN @ ELSE @ + 1,
    !.pc = IF r.at = Len(r.items) THEN "answer" ELSE "item"]

(* The job of the item is added to the answer.                             *)
Collected(r, j) == [r EXCEPT !.ids = Append(@, j), !.dup = NoJob,
    !.at = IF r.at = Len(r.items) THEN @ ELSE @ + 1,
    !.pc = IF r.at = Len(r.items) THEN "answer" ELSE "item"]

(* The response is written, and reaches the client or does not.            *)
Answer(c) ==
    /\ req[c].pc = "answer"
    /\ \/ At(c, "accepted") /\ UNCHANGED faults
       \/ At(c, "failed") /\ Fault
    /\ UNCHANGED <<enabled, redisVars>>

-----------------------------------------------------------------------------
(* Submit.                                                                 *)

(* A task, a review, a store or an evidence version is missing.            *)
RefuseItem(c) ==
    /\ req[c].pc = "item"
    /\ ~Item(c).valid
    /\ At(c, "refused")
    /\ UNCHANGED <<enabled, redisVars, faults>>

(* Faulty variant: the key alone makes a duplicate, whether or not the     *)
(* job it points to still exists.                                          *)
BadDuplicateOf(e) == e # NoEvent /\ source[e] # NoJob

(* createJobScript finds the source event taken by a job that still exists. *)
DuplicateOf(e) == e # NoEvent /\ source[e] # NoJob /\ source[e] \in live

(* Faulty variant: the record is written and the source-event key is not.  *)
BadCreate(e) ==
    /\ issued' = issued + 1
    /\ eventOf' = [j \in 1 .. issued + 1 |-> IF j = issued + 1 THEN e ELSE eventOf[j]]
    /\ live' = live \cup {issued + 1}
    /\ UNCHANGED source

(* createJobScript writes the record, the source-event key and the message. *)
Create(e) ==
    /\ issued' = issued + 1
    /\ eventOf' = [j \in 1 .. issued + 1 |-> IF j = issued + 1 THEN e ELSE eventOf[j]]
    /\ live' = live \cup {issued + 1}
    /\ source' = IF e = NoEvent THEN source ELSE [source EXCEPT ![e] = issued + 1]

(* createAndEnqueue.                                                       *)
SubmitItem(c) ==
    LET e == Item(c).event IN
    /\ req[c].pc = "item"
    /\ Item(c).valid
    /\ \/ /\ ~DuplicateOf(e)
          /\ Create(e)
          /\ \/ GoesOn(c, Collected(req[c], issued + 1)) /\ UNCHANGED faults
             \/ At(c, "failed") /\ Fault
       \/ /\ DuplicateOf(e)
          /\ GoesOn(c, [req[c] EXCEPT !.pc = "dup", !.dup = source[e]])
          /\ UNCHANGED <<redisVars, faults>>
       \/ At(c, "failed") /\ Fault /\ UNCHANGED redisVars
    /\ UNCHANGED enabled

(* Get of the existing job, which may have expired meanwhile: "source      *)
(* event points to missing job".                                           *)
GetExisting(c) ==
    /\ req[c].pc = "dup"
    /\ \/ /\ req[c].dup \in live
          /\ GoesOn(c, Collected(req[c], req[c].dup))
          /\ UNCHANGED faults
       \/ /\ req[c].dup \notin live
          /\ At(c, "failed")
          /\ UNCHANGED faults
       \/ At(c, "failed") /\ Fault
    /\ UNCHANGED <<enabled, redisVars>>

-----------------------------------------------------------------------------
(* JobTTL ends.  Record and source-event key were written with the same    *)
(* time to live; the key is gone as well, or is found once more.           *)
ExpireRecord(j) ==
    /\ j \in live
    /\ Fault
    /\ live' = live \ {j}
    /\ \/ UNCHANGED source
       \/ source' = [e \in Events |-> IF source[e] = j THEN NoJob ELSE source[e]]
    /\ UNCHANGED <<enabled, issued, eventOf, req>>

-----------------------------------------------------------------------------
Handle(c) == RefuseItem(c) \/ SubmitItem(c) \/ GetExisting(c) \/ Answer(c)

Next ==
    \/ \E c \in Clients : Post(c) \/ Handle(c)
    \/ \E j \in Jobs : ExpireRecord(j)

Spec == Init /\ [][Next]_vars

(* Handlers run, and clients whose request failed post it again.           *)
Fairness == \A c \in Clients : WF_vars(Post(c)) /\ WF_vars(Handle(c))

FairSpec == Spec /\ Fairness

-----------------------------------------------------------------------------
(* An event has at most one job at a time, although batches stop half way, *)
(* are repeated after the reply of Redis or of the handler was lost, and   *)
(* overlap with other batches that name the event.                         *)
OneJobPerEvent ==
    \A j, k \in live : eventOf[j] = eventOf[k] /\ eventOf[j] # NoEvent => j = k

(* The answer to a batch names, item by item, a job of the item's event,   *)
(* whether this try created it, an earlier try did, or another client; and *)
(* nobody else is told of the job of an item that has no event.            *)
AnswersMatch ==
    \A c \in Clients : req[c].pc = "accepted" =>
        /\ Len(req[c].ids) = Len(req[c].items)
        /\ \A i \in 1 .. Len(req[c].ids) :
              /\ eventOf[req[c].ids[i]] = req[c].items[i].event
              /\ req[c].items[i].event = NoEvent =>
                    \A d \in Clients : \A k \in 1 .. Len(req[d].ids) :
                        req[d].ids[k] = req[c].ids[i] => d = c /\ k = i

Valid(items) == Acceptable(items) /\ \A i \in 1 .. Len(items) : items[i].valid

(* A batch of valid items is accepted in the end, however many of its      *)
(* items earlier tries have queued already and whatever has expired since. *)
EventuallyAccepted ==
    \A c \in Clients : Valid(req[c].items) ~> req[c].pc = "accepted"

-----------------------------------------------------------------------------
(* The inductive strengthening behind the safety properties above.         *)

(* A live job of an event is the one its source-event key points to.       *)
KeyOfLiveJob ==
    \A j \in live : eventOf[j] # NoEvent => source[eventOf[j]] = j

(* A source-event key points to a job of that event.                       *)
KeysMatch == \A e \in Events : source[e] # NoJob => eventOf[source[e]] = e

(* What a handler has collected so far.                                    *)
Collects(r) ==
    /\ r.pc \in {"item", "dup"} =>
          /\ r.at <= Len(r.items) /\ Len(r.ids) = r.at - 1
          /\ \A i \in 1 .. Len(r.ids) :
                r.ids[i] \in Jobs /\ eventOf[r.ids[i]] = r.items[i].event
    /\ r.pc = "dup" => r.dup \in Jobs /\ eventOf[r.dup] = r.items[r.at].event
                       /\ r.items[r.at].event # NoEvent
    /\ r.pc \in {"answer", "accepted"} =>
          /\ Len(r.ids) = Len(r.items)
          /\ \A i \in 1 .. Len(r.ids) :
                r.ids[i] \in Jobs /\ eventOf[r.ids[i]] = r.items[i].event

AllCollect == \A c \in Clients : Collects(req[c])

(* Every id in an answer is one that was issued, and the job of an item    *)
(* without event stands in one answer only, at one place.                  *)
AnonymousOnce ==
    \A c, d \in Clients : \A i \in 1 .. Len(req[c].ids) : \A k \in 1 .. Len(req[d].ids) :
        /\ req[c].ids[i] \in Jobs
        /\ req[c].ids[i] = req[d].ids[k] /\ eventOf[req[c].ids[i]] = NoEvent => c = d /\ i = k

APIInv == TypeOK /\ KeyOfLiveJob /\ KeysMatch /\ AllCollect /\ AnonymousOnce
=============================================================================

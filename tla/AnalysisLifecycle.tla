------------------------- MODULE AnalysisLifecycle --------------------------
(***************************************************************************)
(* The life of DocumentAnalysis records: the requests that create, retry   *)
(* and remove them, and the RabbitMQ consumers that run the LLM on them.   *)
(*                                                                         *)
(* An analysis is unique per (document, request), so it is named here by   *)
(* the request that creates it.  Every action is one access to MongoDB or  *)
(* to the broker.  update_analysis_fields is two of them: it finds the     *)
(* record and then saves the whole of it, whatever happened in between,    *)
(* and saving a record that was removed inserts it again.                  *)
(***************************************************************************)
EXTENDS Integers, FiniteSets

CONSTANTS
  Requests,       \* requests that may create an analysis, each at most one at a time
  Consumers,      \* concurrent executions of the message handler
  Blank,          \* requests of a document whose extracted text is empty
  None,           \* no request
  MaxAttempts,    \* Celery max_retries of the extraction task that dispatches (3 in the code)
  MaxRetries,     \* MAX_RETRIES of the consumer (3 in the code)
  PublishFaults,  \* the ways a publication may go wrong, beside succeeding
  Redelivers,     \* the broker may requeue a message whose handler still runs
  MaxFaults,      \* bound: environment faults in one behaviour
  MaxRemovals     \* bound: delete requests in one behaviour

ASSUME RequestsAssumption == Blank \subseteq Requests /\ None \notin Requests
ASSUME EnvironmentAssumption ==
  PublishFaults \subseteq {"error", "ambiguous", "twice"} /\ Redelivers \in BOOLEAN
ASSUME CountsAssumption ==
  MaxAttempts \in Nat /\ MaxRetries \in Nat /\ MaxFaults \in Nat /\ MaxRemovals \in Nat

VARIABLES
  row,        \* the collection: the record of each request, or NoRow
  created,    \* how many records each request has inserted: the next one's id
  queue,      \* messages ready, or waiting in the retry queue, with multiplicity
  req,        \* the request that creates and dispatches
  removal,    \* the delete request on each record
  con,        \* what each consumer executes
  faults, removals,  \* counters for MaxFaults and MaxRemovals
  abandoned   \* history: requests some step of which was lost for good

vars == <<row, created, queue, req, removal, con, faults, removals, abandoned>>

Terminal == {"success", "failed"}
RowStatuses == {"none", "queued", "analyzing"} \cup Terminal   \* "none": no record
Kinds == {"none", "transient", "permanent"}                    \* failure_kind

\* A record is inserted at most once per attempt to dispatch it.
Ids == 0..(MaxAttempts + 1)

\* _id of another record, for retry_of_analysis_id.
Parents == [req : Requests \cup {None}, id : Ids]
NoParent == [req |-> None, id |-> 0]

Rows == [id : Ids, status : RowStatuses, kind : Kinds, result : BOOLEAN, parent : Parents]
NoRow == [id |-> 0, status |-> "none", kind |-> "none", result |-> FALSE, parent |-> NoParent]

\* AnalysisRequestedEvent, with the count the broker keeps in x-death.
Messages == [req : Requests, id : Ids, count : 0..MaxRetries]

\* The field sets that update_analysis_fields is called with.
Updates == {"analyzing", "success", "permanent", "transient"}

ReqPcs == {"absent", "get_or_create", "check_child", "insert", "publish", "raise",
           "mark", "mark_find", "mark_save", "given_up", "done"}
Reqs == [pc : ReqPcs, kind : {"task", "api"}, attempt : 0..MaxAttempts,
         parent : Parents, draft : Rows]
NoReq == [pc |-> "absent", kind |-> "api", attempt |-> 0, parent |-> NoParent, draft |-> NoRow]

Removals == [pc : {"idle", "check_child", "delete"}, id : Ids]
NoRemoval == [pc |-> "idle", id |-> 0]

ConPcs == {"idle", "read", "load", "find", "save", "llm", "raise", "final_read", "ack"}
Cons == [pc : ConPcs, msg : Messages \cup {None}, update : Updates, draft : Rows, final : BOOLEAN]
NoCon == [pc |-> "idle", msg |-> None, update |-> "analyzing", draft |-> NoRow, final |-> FALSE]

\* Every variable has its type.
TypeOK ==
  /\ row \in [Requests -> Rows]
  /\ created \in [Requests -> Ids]
  /\ queue \in [Messages -> Nat]
  /\ req \in [Requests -> Reqs]
  /\ removal \in [Requests -> Removals]
  /\ con \in [Consumers -> Cons]
  /\ faults \in Nat /\ removals \in Nat
  /\ abandoned \in SUBSET Requests

Init ==
  /\ row = [r \in Requests |-> NoRow]
  /\ created = [r \in Requests |-> 0]
  /\ queue = [m \in Messages |-> 0]
  /\ req = [r \in Requests |-> NoReq]
  /\ removal = [r \in Requests |-> NoRemoval]
  /\ con = [c \in Consumers |-> NoCon]
  /\ faults = 0 /\ removals = 0
  /\ abandoned = {}

-----------------------------------------------------------------------------
(* The collection and the broker.                                           *)

Fault == faults < MaxFaults /\ faults' = faults + 1
Abandon(r) == abandoned' = abandoned \cup {r}

Present(r) == row[r].status # "none"
Name(r, id) == [req |-> r, id |-> id]

\* get_analysis_by_id
ById(r, id) == IF row[r].id = id THEN row[r] ELSE NoRow

\* get_analysis_by_retry_of_analysis_id
Children(parent) == {r \in Requests : Present(r) /\ row[r].parent = parent}

\* The unique indexes let record x be written: on (document, request), and on
\* retry_of_analysis_id where there is one.
Unique(r, x) ==
  /\ Present(r) => row[r].id = x.id
  /\ x.parent # NoParent => Children(x.parent) \subseteq {r}

Insert(r, parent) ==
  /\ row' = [row EXCEPT ![r] = [NoRow EXCEPT !.id = created[r] + 1, !.status = "queued",
                                             !.parent = parent]]
  /\ created' = [created EXCEPT ![r] = @ + 1]

\* Mutant: only status and result are set on success.
ApplyPartly(update, x) ==
  CASE update = "analyzing" -> [x EXCEPT !.status = "analyzing"]
    [] update = "success"   -> [x EXCEPT !.status = "success", !.result = TRUE]
    [] OTHER                -> [x EXCEPT !.status = "failed", !.kind = update]

\* The fields each caller of update_analysis_fields sets.
Apply(update, x) ==
  CASE update = "analyzing" -> [x EXCEPT !.status = "analyzing"]
    [] update = "success"   -> [x EXCEPT !.status = "success", !.result = TRUE, !.kind = "none"]
    [] OTHER                -> [x EXCEPT !.status = "failed", !.kind = update]

\* A publication succeeds, raises without delivering, raises although the broker
\* has the message, or is repeated by the producer's own retry.
Outcomes == {"ok"} \cup PublishFaults
Raises(o) == o \in {"error", "ambiguous"}
Copies(o) == IF o = "error" THEN 0 ELSE IF o = "twice" THEN 2 ELSE 1

-----------------------------------------------------------------------------
(* Requests: the extraction task's dispatch, POST analyses, POST retry.     *)

ReqAt(r, pc) == req[r].pc = pc
ReqGoto(r, pc) == req' = [req EXCEPT ![r].pc = pc]

\* The extraction of a document is over and its task dispatches the analysis.
TaskDispatches(r) ==
  /\ ReqAt(r, "absent")
  /\ req' = [req EXCEPT ![r].pc = "get_or_create", ![r].kind = "task"]
  /\ UNCHANGED <<row, created, queue, removal, con, faults, removals, abandoned>>

\* get_or_create_analysis: the unique index makes find and insert one step.
GetOrCreate(r) ==
  /\ ReqAt(r, "get_or_create")
  /\ IF Present(r) THEN UNCHANGED <<row, created>> ELSE Insert(r, NoParent)
  /\ ReqGoto(r, "publish")
  /\ UNCHANGED <<queue, removal, con, faults, removals, abandoned>>

\* create_and_dispatch_analysis, for a document that has a text.
Create(r) ==
  /\ ReqAt(r, "absent") /\ r \notin Blank
  /\ Insert(r, NoParent)
  /\ ReqGoto(r, "publish")
  /\ UNCHANGED <<queue, removal, con, faults, removals, abandoned>>

\* Mutant: every failed analysis may be retried.
RetryReadAny(r, p) ==
  /\ ReqAt(r, "absent") /\ r \notin Blank
  /\ row[p].status \in {"failed", "success"}
  /\ req' = [req EXCEPT ![r].pc = "check_child", ![r].parent = Name(p, row[p].id)]
  /\ UNCHANGED <<row, created, queue, removal, con, faults, removals, abandoned>>

\* retry_analysis: the guard on the analysis that was read ...
RetryRead(r, p) ==
  /\ ReqAt(r, "absent") /\ r \notin Blank
  /\ row[p].status = "failed" /\ row[p].kind = "transient"
  /\ req' = [req EXCEPT ![r].pc = "check_child", ![r].parent = Name(p, row[p].id)]
  /\ UNCHANGED <<row, created, queue, removal, con, faults, removals, abandoned>>

\* ... the look for another retry of it ...
RetryCheckChild(r) ==
  /\ ReqAt(r, "check_child")
  /\ ReqGoto(r, IF Children(req[r].parent) # {} THEN "done" ELSE "insert")
  /\ UNCHANGED <<row, created, queue, removal, con, faults, removals, abandoned>>

\* Mutant: the insert relies on the look before it.
RetryInsertBlindly(r) ==
  /\ ReqAt(r, "insert")
  /\ Insert(r, req[r].parent) /\ ReqGoto(r, "publish")
  /\ UNCHANGED <<queue, removal, con, faults, removals, abandoned>>

\* ... and the insert, where DuplicateKeyError answers a conflict.
RetryInsert(r) ==
  /\ ReqAt(r, "insert")
  /\ IF Children(req[r].parent) = {}
     THEN Insert(r, req[r].parent) /\ ReqGoto(r, "publish")
     ELSE ReqGoto(r, "done") /\ UNCHANGED <<row, created>>
  /\ UNCHANGED <<queue, removal, con, faults, removals, abandoned>>

\* publish_document_analysis_requested names the record the request holds.
PublishRequested(r) ==
  /\ ReqAt(r, "publish")
  /\ \E o \in Outcomes :
       /\ IF o = "ok" THEN UNCHANGED faults ELSE Fault
       /\ queue' = [queue EXCEPT ![[req |-> r, id |-> created[r], count |-> 0]] = @ + Copies(o)]
       /\ ReqGoto(r, IF ~ Raises(o) THEN "done"
                     ELSE IF req[r].kind = "task" THEN "raise" ELSE "mark")
  /\ UNCHANGED <<row, created, removal, con, removals, abandoned>>

\* The Celery task raises and runs again: it finds its document extracted.
TaskRetries(r) ==
  /\ ReqAt(r, "raise") /\ req[r].attempt < MaxAttempts
  /\ req' = [req EXCEPT ![r].pc = "get_or_create", ![r].attempt = @ + 1]
  /\ UNCHANGED <<row, created, queue, removal, con, faults, removals, abandoned>>

\* No retry dispatches.  Either the extracted document was cancelled in the meantime, and
\* the retry, or the failure handler, returns when it reads the status; or the retries are
\* over, and mark_dispatch_failed raises: on_failure runs it in an event loop of its own,
\* while the MongoDB client belongs to the loop of the task, which is closed.
TaskGivesUp(r) ==
  /\ ReqAt(r, "raise")
  /\ ReqGoto(r, "given_up")
  /\ UNCHANGED <<row, created, queue, removal, con, faults, removals, abandoned>>

\* The request of the API marks the dispatch failed itself, in mark_dispatch_failed: only
\* a queued analysis ...
Mark(r) ==
  /\ ReqAt(r, "mark")
  /\ ReqGoto(r, IF row[r].status = "queued" THEN "mark_find" ELSE "done")
  /\ UNCHANGED <<row, created, queue, removal, con, faults, removals, abandoned>>

\* ... is found again by update_analysis_fields ...
MarkFind(r) ==
  /\ ReqAt(r, "mark_find")
  /\ IF Present(r)
     THEN req' = [req EXCEPT ![r].pc = "mark_save", ![r].draft = Apply("transient", row[r])]
     ELSE ReqGoto(r, "done")
  /\ UNCHANGED <<row, created, queue, removal, con, faults, removals, abandoned>>

\* ... and saved.
MarkSave(r) ==
  /\ ReqAt(r, "mark_save")
  /\ IF Unique(r, req[r].draft)
     THEN row' = [row EXCEPT ![r] = req[r].draft] /\ UNCHANGED abandoned
     ELSE UNCHANGED row /\ Abandon(r)
  /\ req' = [req EXCEPT ![r].pc = "done", ![r].draft = NoRow]
  /\ UNCHANGED <<created, queue, removal, con, faults, removals>>

\* An access of the request raises, or its process dies.  Before the insert nothing
\* is left behind; a task that fails there runs again.
RequestFails(r) ==
  /\ req[r].pc \notin {"absent", "raise", "given_up", "done"}
  /\ Fault
  /\ IF req[r].pc = "get_or_create"
     THEN ReqGoto(r, "raise") /\ UNCHANGED abandoned
     ELSE /\ req' = [req EXCEPT ![r].pc = "done", ![r].draft = NoRow]
          /\ IF Present(r) THEN Abandon(r) ELSE UNCHANGED abandoned
  /\ UNCHANGED <<row, created, queue, removal, con, removals>>

-----------------------------------------------------------------------------
(* DELETE: remove_analysis.                                                 *)

\* Mutant: any analysis may be removed.
RemoveReadAny(r) ==
  /\ removal[r].pc = "idle" /\ Present(r)
  /\ removals < MaxRemovals /\ removals' = removals + 1
  /\ removal' = [removal EXCEPT ![r] = [pc |-> "check_child", id |-> row[r].id]]
  /\ UNCHANGED <<row, created, queue, req, con, faults, abandoned>>

\* The status is checked on the record that was read.
RemoveRead(r) ==
  /\ removal[r].pc = "idle" /\ row[r].status \in Terminal
  /\ removals < MaxRemovals /\ removals' = removals + 1
  /\ removal' = [removal EXCEPT ![r] = [pc |-> "check_child", id |-> row[r].id]]
  /\ UNCHANGED <<row, created, queue, req, con, faults, abandoned>>

RemoveCheckChild(r) ==
  /\ removal[r].pc = "check_child"
  /\ removal' = [removal EXCEPT ![r] = IF Children(Name(r, @.id)) # {} THEN NoRemoval
                                       ELSE [@ EXCEPT !.pc = "delete"]]
  /\ UNCHANGED <<row, created, queue, req, con, faults, removals, abandoned>>

\* remove_analysis_by_id
RemoveDelete(r) ==
  /\ removal[r].pc = "delete"
  /\ row' = [row EXCEPT ![r] = IF @.id = removal[r].id THEN NoRow ELSE @]
  /\ removal' = [removal EXCEPT ![r] = NoRemoval]
  /\ UNCHANGED <<created, queue, req, con, faults, removals, abandoned>>

-----------------------------------------------------------------------------
(* DocumentAnalysisConsumer, one message at a time in each execution.       *)

At(c, pc) == con[c].pc = pc
Msg(c) == con[c].msg
ConGoto(c, pc) == con' = [con EXCEPT ![c].pc = pc]
StartUpdate(c, update) == con' = [con EXCEPT ![c].pc = "find", ![c].update = update]

\* Mutant: the message is taken twice.
ReceiveTwice(c, m) ==
  /\ At(c, "idle")
  /\ queue[m] > 0
  /\ queue' = [queue EXCEPT ![m] = @ - 2]
  /\ con' = [con EXCEPT ![c].pc = "read", ![c].msg = m]
  /\ UNCHANGED <<row, created, req, removal, faults, removals, abandoned>>

\* The broker delivers a message that stays its own until it is acknowledged.
Receive(c, m) ==
  /\ At(c, "idle")
  /\ queue[m] > 0
  /\ queue' = [queue EXCEPT ![m] = @ - 1]
  /\ con' = [con EXCEPT ![c].pc = "read", ![c].msg = m]
  /\ UNCHANGED <<row, created, req, removal, faults, removals, abandoned>>

\* Mutant: the status of the analysis is not looked at.
AfterReadPlain(x) == IF x.status = "none" THEN "ack" ELSE "load"

\* A removed or a finished analysis is left alone.
AfterRead(x) == IF x.status \in {"none"} \cup Terminal THEN "ack" ELSE "load"

ReadAnalysis(c) ==
  /\ At(c, "read")
  /\ ConGoto(c, AfterRead(ById(Msg(c).req, Msg(c).id)))
  /\ UNCHANGED <<row, created, queue, req, removal, faults, removals, abandoned>>

\* get_content and get_active_prompt; a missing prompt is an error like any other.
LoadText(c) ==
  /\ At(c, "load")
  /\ StartUpdate(c, IF Msg(c).req \in Blank THEN "permanent" ELSE "analyzing")
  /\ UNCHANGED <<row, created, queue, req, removal, faults, removals, abandoned>>

AfterUpdate(update) == IF update = "analyzing" THEN "llm" ELSE "ack"

\* update_analysis_fields: find by document and request, where nothing found is no error ...
FindRow(c) ==
  LET r == Msg(c).req IN
  /\ At(c, "find")
  /\ IF Present(r)
     THEN con' = [con EXCEPT ![c].pc = "save", ![c].draft = Apply(con[c].update, row[r])]
     ELSE ConGoto(c, AfterUpdate(con[c].update))
  /\ UNCHANGED <<row, created, queue, req, removal, faults, removals, abandoned>>

\* A failing access: the handler raises, or _on_final_failure gives up.
Fails(c) ==
  IF con[c].final
  THEN con' = [con EXCEPT ![c].pc = "ack", ![c].draft = NoRow] /\ Abandon(Msg(c).req)
  ELSE con' = [con EXCEPT ![c].pc = "raise", ![c].draft = NoRow] /\ UNCHANGED abandoned

\* ... and save the whole record.
SaveRow(c) ==
  LET r == Msg(c).req  x == con[c].draft IN
  /\ At(c, "save")
  /\ IF Unique(r, x)
     THEN /\ row' = [row EXCEPT ![r] = x]
          /\ con' = [con EXCEPT ![c].pc = AfterUpdate(con[c].update), ![c].draft = NoRow]
          /\ UNCHANGED abandoned
     ELSE Fails(c) /\ UNCHANGED row
  /\ UNCHANGED <<created, queue, req, removal, faults, removals>>

\* analyze_text: an answer, or an error no retry can mend.
CallLLM(c) ==
  /\ At(c, "llm")
  /\ \E update \in {"success", "permanent"} : StartUpdate(c, update)
  /\ UNCHANGED <<row, created, queue, req, removal, faults, removals, abandoned>>

\* A retryable LLM error, or an access of the handler that raises.
HandlerFails(c) ==
  /\ con[c].pc \in {"read", "load", "find", "save", "llm", "final_read"}
  /\ Fault
  /\ Fails(c)
  /\ UNCHANGED <<row, created, queue, req, removal, removals>>

\* Mutant: a message out of retries is dropped.
RaiseAndDrop(c) ==
  /\ At(c, "raise")
  /\ IF Msg(c).count < MaxRetries
     THEN /\ queue' = [queue EXCEPT ![[Msg(c) EXCEPT !.count = @ + 1]] = @ + 1]
          /\ con' = [con EXCEPT ![c] = NoCon]
     ELSE ConGoto(c, "ack") /\ UNCHANGED queue
  /\ UNCHANGED <<row, created, req, removal, faults, removals, abandoned>>

\* BaseConsumer.__call__: the message is rejected into the retry queue, from which it
\* comes back with a higher count, or the final failure is handled.
Raise(c) ==
  /\ At(c, "raise")
  /\ IF Msg(c).count < MaxRetries
     THEN /\ queue' = [queue EXCEPT ![[Msg(c) EXCEPT !.count = @ + 1]] = @ + 1]
          /\ con' = [con EXCEPT ![c] = NoCon]
     ELSE con' = [con EXCEPT ![c].pc = "final_read", ![c].final = TRUE] /\ UNCHANGED queue
  /\ UNCHANGED <<row, created, req, removal, faults, removals, abandoned>>

\* _on_final_failure
FinalRead(c) ==
  /\ At(c, "final_read")
  /\ IF ById(Msg(c).req, Msg(c).id).status \in {"none"} \cup Terminal
     THEN ConGoto(c, "ack")
     ELSE StartUpdate(c, "transient")
  /\ UNCHANGED <<row, created, queue, req, removal, faults, removals, abandoned>>

Ack(c) ==
  /\ At(c, "ack")
  /\ con' = [con EXCEPT ![c] = NoCon]
  /\ UNCHANGED <<row, created, queue, req, removal, faults, removals, abandoned>>

\* The process dies: the broker requeues what was not acknowledged.
ConsumerDies(c) ==
  /\ ~ At(c, "idle")
  /\ Fault
  /\ queue' = [queue EXCEPT ![Msg(c)] = @ + 1]
  /\ con' = [con EXCEPT ![c] = NoCon]
  /\ UNCHANGED <<row, created, req, removal, removals, abandoned>>

\* Only the connection is lost: the handler runs on.
Redeliver(c) ==
  /\ Redelivers /\ ~ At(c, "idle")
  /\ Fault
  /\ queue' = [queue EXCEPT ![Msg(c)] = @ + 1]
  /\ UNCHANGED <<row, created, req, removal, con, removals, abandoned>>

-----------------------------------------------------------------------------
Arrives(r) == TaskDispatches(r) \/ Create(r) \/ \E p \in Requests : RetryRead(r, p)

RequestStep(r) ==
  \/ GetOrCreate(r) \/ RetryCheckChild(r) \/ RetryInsert(r) \/ PublishRequested(r)
  \/ TaskRetries(r) \/ TaskGivesUp(r) \/ Mark(r) \/ MarkFind(r) \/ MarkSave(r)

RemovalStep(r) == RemoveRead(r) \/ RemoveCheckChild(r) \/ RemoveDelete(r)

ConsumerStep(c) ==
  \/ ReadAnalysis(c) \/ LoadText(c) \/ FindRow(c) \/ SaveRow(c) \/ CallLLM(c)
  \/ Raise(c) \/ FinalRead(c) \/ Ack(c)

ConsumerFault(c) == HandlerFails(c) \/ ConsumerDies(c) \/ Redeliver(c)

Next ==
  \/ \E r \in Requests : Arrives(r) \/ RequestStep(r) \/ RequestFails(r) \/ RemovalStep(r)
  \/ \E c \in Consumers, m \in Messages : Receive(c, m)
  \/ \E c \in Consumers : ConsumerStep(c) \/ ConsumerFault(c)

Spec == Init /\ [][Next]_vars

\* Requests that have arrived and consumers keep running.  A delete may stop anywhere.
Fairness ==
  /\ \A r \in Requests : WF_vars(RequestStep(r))
  /\ \A c \in Consumers : WF_vars(ConsumerStep(c)) /\ WF_vars(\E m \in Messages : Receive(c, m))

FairSpec == Spec /\ Fairness

-----------------------------------------------------------------------------
(* Properties.                                                              *)

Quiet(r) ==
  /\ req[r].pc \in {"absent", "given_up", "done"}
  /\ \A c \in Consumers : At(c, "idle") \/ Msg(c).req # r
  /\ \A m \in Messages : m.req = r => queue[m] = 0

\* Whatever is repeated, overtaken, saved over or saved back, an analysis nobody works on
\* any more is finished, unless a step was lost for good or its task created it again
\* after it was removed (then a late message of the first record may write the second).
\* It is left queued only where its task gave the dispatch up, and never analyzing.
NoStuckAnalysis ==
  \A r \in Requests : Quiet(r) /\ r \notin abandoned /\ created[r] = 1
    => /\ row[r].status # "analyzing"
       /\ row[r].status = "queued" => ReqAt(r, "given_up")

\* At most one direct retry of an analysis exists, although two requests may both find
\* none and a removed retry may be saved back.
OneRetryEach ==
  \A r, q \in Requests :
    Present(r) /\ Present(q) /\ row[r].parent # NoParent /\ row[r].parent = row[q].parent => r = q

\* A successful analysis has its result and shows no failure kind of an earlier save.
SuccessIsClean ==
  \A r \in Requests : row[r].status = "success" => row[r].result /\ row[r].kind = "none"

\* Where messages are handled by one consumer at a time, what was retried stays a
\* transient failure: the retry and the original never both succeed.
RetriedHasFailed ==
  \A r, p \in Requests :
    Present(r) /\ row[r].parent = Name(p, row[p].id) /\ Present(p)
      => row[p].status = "failed" /\ row[p].kind = "transient"

\* A retry's parent is there: an analysis with a retry cannot be removed.
RetryHasParent ==
  \A r \in Requests : Present(r) /\ row[r].parent # NoParent
    => row[row[r].parent.req].id = row[r].parent.id

\* Where messages are handled by one consumer at a time, a finished analysis is final:
\* it changes only by being removed.
FinishedIsFinal ==
  [][\A r \in Requests : row[r].status \in Terminal => row'[r] \in {row[r], NoRow}]_vars

\* Where messages are handled by one consumer at a time, a removed analysis is not
\* saved back; only its task's own repeated dispatch may create another.
RemovedStaysRemoved ==
  [][\A r \in Requests : ~ Present(r) /\ Present(r)' => created'[r] = created[r] + 1]_vars

\* Every analysis finishes or is removed, unless a step was lost for good or its task gave
\* the dispatch up.
AnalysisSettles ==
  \A r \in Requests :
    Present(r) ~> \/ row[r].status \in Terminal \cup {"none"}
                  \/ r \in abandoned \/ ReqAt(r, "given_up")
=============================================================================

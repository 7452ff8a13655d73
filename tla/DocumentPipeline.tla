-------------------------- MODULE DocumentPipeline --------------------------
(***************************************************************************)
(* The document pipeline of DocMind: the upload, cancel and reading        *)
(* requests of the API and the three Celery tasks (antivirus scan, object  *)
(* storage upload, text extraction) that move one Document row from        *)
(* created to extracted.                                                   *)
(*                                                                         *)
(* Every action is one access to something other processes can see: the    *)
(* PostgreSQL row, the shared temporary directory, the object store, the   *)
(* MongoDB text, the analysis record, or a queue.  A handler is the        *)
(* sequence of its actions, named by its program counter, so requests and  *)
(* tasks interleave between any two accesses as they do in the code.       *)
(***************************************************************************)
EXTENDS Integers, FiniteSets

CONSTANTS
  Docs,              \* uploads; each owns one row, one temp file name and one object key
  Workers,           \* Celery worker processes
  Readers,           \* requests that only read
  Contents,          \* file contents; equal contents have equal SHA-256
  Infected,          \* contents the antivirus reports
  Broken,            \* contents the extractor rejects with ExtractionError
  Blank,             \* contents whose extracted text is the empty string
  None,              \* no key, no file, no text
  AntivirusEnabled,  \* settings.antivirus.enabled
  FailOnUnavailable, \* settings.antivirus.fail_on_unavailable
  MaxRetries,        \* Celery max_retries (3 in the code)
  PublishFaults,     \* the ways a publication may go wrong, beside succeeding
  MaxFaults,         \* bound: environment faults in one behaviour
  MaxCancels         \* bound: cancel requests in one behaviour

Statuses == {"none", "created", "scanning", "uploading", "uploaded", "extracting",
             "extracted", "infected", "failed", "cancelled"}   \* "none": no row yet
Tasks == {"scan", "upload", "extract"}

ASSUME ContentsAssumption ==
  /\ Infected \subseteq Contents /\ Broken \subseteq Contents /\ Blank \subseteq Contents
  /\ None \notin Contents /\ None \notin Docs
ASSUME SettingsAssumption ==
  /\ AntivirusEnabled \in BOOLEAN /\ FailOnUnavailable \in BOOLEAN
  /\ PublishFaults \subseteq {"error", "ambiguous", "twice"}
ASSUME BoundsAssumption ==
  MaxRetries \in Nat /\ MaxFaults \in Nat /\ MaxCancels \in Nat

VARIABLES
  status,     \* Document.document_status
  named,      \* Document.temp_filename is not NULL
  key,        \* Document.file_key: the upload whose object it names, or None
  temp,       \* the shared temp directory: content of the file of each upload, or None
  object,     \* the bucket: content stored under each upload's key, or None
  text,       \* MongoDB raw_text of each document, as the content it came from, or None
  analysis,   \* the DocumentAnalysis of the upload's own request
  requested,  \* an analysis event of that request reached the broker
  queue,      \* Celery messages waiting, with multiplicity
  run,        \* what each worker process executes
  up,         \* the upload request of each document
  cancel,     \* the cancel request of each document
  view,       \* what each reading request has read
  content,    \* what the user uploaded (Document.file_hash)
  faults, cancels,  \* counters for MaxFaults and MaxCancels
  abandoned,  \* history: documents some step of which was lost for good
  littered    \* history: documents whose file could not be unlinked once

row == <<status, named, key>>
stores == <<temp, object, text>>
analyses == <<analysis, requested>>
requests == <<up, cancel, content, cancels, view>>
env == <<faults, abandoned, littered>>
vars == <<row, stores, analyses, queue, run, requests, env>>

Messages == [task : Tasks, doc : Docs, retries : 0..MaxRetries]

Paths == {"full", "extraction_only", "analysis_only"}

\* The ORM instance a session still references.  A task that drops its reference
\* reads the row afresh before each update, which NoInstance stands for: no value
\* written ever equals it, so every field is sent to the database.
Instances == [status : Statuses, named : BOOLEAN]
NoInstance == [status |-> "none", named |-> TRUE]

RunPcs == {"idle", "check_cancelled", "check_path", "write_missing", "mark_scanning", "scan",
           "write_infected", "publish_upload", "mark_uploading", "check_object", "put_object",
           "write_uploaded", "publish_extract", "load", "check_local", "restore",
           "mark_extracting", "extract", "restore_again", "extract_again", "store_text",
           "write_extracted", "unlink", "create_analysis", "publish_event", "write_failed",
           "cleanup", "raise", "on_failure", "recheck", "write_failure",
           "mark_dispatch_failed"}

UpPcs == {"absent", "lookup", "texts", "create", "send", "upsert", "degrade", "unlink",
          "create_analysis", "publish_event", "mark_dispatch_failed", "mark_failed",
          "remove", "done"}

\* What a worker executes: the message's arguments, the ORM instance it references
\* and the text it has read.
Runs == [pc : RunPcs, doc : Docs \cup {None}, task : Tasks, retries : 0..MaxRetries,
         seen : Instances, text : Contents \cup {None}]

\* An upload request and the PreparedUpload it works from.
Uploads == [pc : UpPcs, path : Paths, candidates : SUBSET Docs,
            key : Docs \cup {None}, raw : Contents \cup {None}]

Cancels == [pc : {"idle", "write", "unlink"}, seen : Instances]

\* A reading request: its document, the key it answers, the text it has read, and whether
\* a missing text is explained (MongoDB failed, or the upload had yet to copy it).
Views ==
  {v \in [pc : {"idle", "text", "analyses", "ready", "linked"}, kind : {"show", "check"},
          doc : Docs \cup {None}, key : Docs \cup {None}, text : Contents \cup {None},
          excused : BOOLEAN] : v.pc # "idle" => v.doc \in Docs}

\* Every variable has its type.
TypeOK ==
  /\ status \in [Docs -> Statuses]
  /\ named \in [Docs -> BOOLEAN]
  /\ key \in [Docs -> Docs \cup {None}]
  /\ temp \in [Docs -> Contents \cup {None}]
  /\ object \in [Docs -> Contents \cup {None}]
  /\ text \in [Docs -> Contents \cup {None}]
  /\ content \in [Docs -> Contents \cup {None}]
  /\ analysis \in [Docs -> {"none", "queued", "failed"}]
  /\ requested \in [Docs -> BOOLEAN]
  /\ queue \in [Messages -> Nat]
  /\ run \in [Workers -> Runs]
  /\ up \in [Docs -> Uploads]
  /\ cancel \in [Docs -> Cancels]
  /\ view \in [Readers -> Views]
  /\ faults \in Nat /\ cancels \in Nat
  /\ abandoned \in SUBSET Docs /\ littered \in SUBSET Docs

Idle == [pc |-> "idle", doc |-> None, task |-> "scan", retries |-> 0, seen |-> NoInstance,
         text |-> None]
NoUpload == [pc |-> "absent", path |-> "full", candidates |-> {},
             key |-> None, raw |-> None]
NoCancel == [pc |-> "idle", seen |-> NoInstance]
NoView == [pc |-> "idle", kind |-> "show", doc |-> None, key |-> None, text |-> None,
           excused |-> FALSE]

Init ==
  /\ status = [d \in Docs |-> "none"]
  /\ named = [d \in Docs |-> FALSE]
  /\ key = [d \in Docs |-> None]
  /\ temp = [d \in Docs |-> None]
  /\ object = [d \in Docs |-> None]
  /\ text = [d \in Docs |-> None]
  /\ content = [d \in Docs |-> None]
  /\ analysis = [d \in Docs |-> "none"]
  /\ requested = [d \in Docs |-> FALSE]
  /\ queue = [m \in Messages |-> 0]
  /\ run = [w \in Workers |-> Idle]
  /\ up = [d \in Docs |-> NoUpload]
  /\ cancel = [d \in Docs |-> NoCancel]
  /\ view = [u \in Readers |-> NoView]
  /\ faults = 0 /\ cancels = 0
  /\ abandoned = {} /\ littered = {}

-----------------------------------------------------------------------------
(* Shared by the handlers.                                                  *)

\* The environment misbehaves once more.
Fault == faults < MaxFaults /\ faults' = faults + 1

Abandon(d) == abandoned' = abandoned \cup {d}

\* A publication succeeds, raises without delivering, raises although the broker
\* has the message, or is repeated by the producer's own retry.
Outcomes == {"ok"} \cup PublishFaults
Raises(o) == o \in {"error", "ambiguous"}
Copies(o) == IF o = "error" THEN 0 ELSE IF o = "twice" THEN 2 ELSE 1
Costs(o) == IF o = "ok" THEN UNCHANGED faults ELSE Fault

Enqueue(m, n) == queue' = [queue EXCEPT ![m] = @ + n]
FirstAttempt(task, d) == [task |-> task, doc |-> d, retries |-> 0]

\* What a column holds after a flush: SQLAlchemy sends only the attributes that
\* differ from the instance the session loaded.
Written(old, seen, new) == IF new = seen THEN old ELSE new

\* update_document_fields(document_status=st)
SaveStatus(d, seen, st) ==
  status' = [status EXCEPT ![d] = Written(@, seen.status, st)]

\* Mutant: temp_filename is not among the updated fields.
KeepName(d, seen) == UNCHANGED named

\* update_document_fields(temp_filename=None)
ClearName(d, seen) == named' = [named EXCEPT ![d] = Written(@, seen.named, FALSE)]

\* The instance after session.refresh, for a run that still references it.
Refreshed(seen, d) ==
  IF seen = NoInstance THEN NoInstance ELSE [status |-> status'[d], named |-> named'[d]]

Instance(d) == [status |-> status[d], named |-> named[d]]

\* unlink of a document's temporary file; an OSError is only logged.
RemoveFile(d) ==
  \/ temp' = [temp EXCEPT ![d] = None] /\ UNCHANGED env
  \/ Fault /\ littered' = littered \cup {d} /\ UNCHANGED <<temp, abandoned>>

\* get_or_create_analysis for the (document, request) of this upload
GetOrCreateAnalysis(d) == analysis' = [analysis EXCEPT ![d] = IF @ = "none" THEN "queued" ELSE @]

\* Mutant: the analysis is left as it is.
ForgetDispatch(d) == UNCHANGED analysis

\* mark_dispatch_failed: only a queued analysis becomes failed.
MarkDispatchFailed(d) == analysis' = [analysis EXCEPT ![d] = IF @ = "queued" THEN "failed" ELSE @]

-----------------------------------------------------------------------------
(* Celery runs: control.                                                    *)

At(w, pc) == run[w].pc = pc
Doc(w) == run[w].doc
Goto(w, pc) == run' = [run EXCEPT ![w].pc = pc]
End(w) == run' = [run EXCEPT ![w] = Idle]
GotoRefreshed(w, pc) ==
  run' = [run EXCEPT ![w].pc = pc, ![w].seen = Refreshed(@, Doc(w))]

FirstPc(task) == IF task = "extract" THEN "load" ELSE "check_cancelled"

\* Mutant: the message is taken twice.
TakeTwice(w, m) ==
  /\ At(w, "idle")
  /\ queue[m] > 0
  /\ queue' = [queue EXCEPT ![m] = @ - 2]
  /\ run' = [run EXCEPT ![w] = [pc |-> FirstPc(m.task), doc |-> m.doc, task |-> m.task,
                               retries |-> m.retries, seen |-> NoInstance, text |-> None]]
  /\ UNCHANGED <<row, stores, analyses, requests, env>>

\* A worker process receives a message; Celery acknowledges it before running it,
\* since the option the decorators pass, task_acks_late, is not a task option.
Take(w, m) ==
  /\ At(w, "idle")
  /\ queue[m] > 0
  /\ queue' = [queue EXCEPT ![m] = @ - 1]
  /\ run' = [run EXCEPT ![w] = [pc |-> FirstPc(m.task), doc |-> m.doc, task |-> m.task,
                               retries |-> m.retries, seen |-> NoInstance, text |-> None]]
  /\ UNCHANGED <<row, stores, analyses, requests, env>>

\* The run raises: Celery sees the exception, and what the run held is gone.
Escapes(w) ==
  /\ Fault
  /\ run' = [run EXCEPT ![w].pc = "raise", ![w].seen = NoInstance, ![w].text = None]

\* update_document_fields commits and then refreshes its instance.  A refresh that raises
\* leaves the row written and the run without an answer.
Acknowledged(w, next) == (next /\ UNCHANGED faults) \/ Escapes(w)

\* The access the run is about to make raises.  After the updates of mark_scanning,
\* mark_uploading, mark_extracting and write_uploaded this stands for their refresh, too.
RaisingPcs == RunPcs \ {"idle", "check_path", "check_local", "unlink", "cleanup", "raise",
                        "on_failure", "recheck", "write_failure", "mark_dispatch_failed"}
AccessFails(w) ==
  /\ run[w].pc \in RaisingPcs
  /\ Escapes(w)
  /\ UNCHANGED <<row, stores, analyses, queue, requests, abandoned, littered>>

\* Mutant: the extraction task does not look whether the document is extracted.
FailurePcPlain(task) == "recheck"

\* Where _handle_final_failure starts.
FailurePc(task) == IF task = "extract" THEN "on_failure" ELSE "recheck"

\* Mutant: a run out of retries ends without on_failure.
RaiseQuietly(w) ==
  /\ At(w, "raise")
  /\ IF run[w].retries < MaxRetries
     THEN Enqueue([task |-> run[w].task, doc |-> Doc(w), retries |-> run[w].retries + 1], 1)
     ELSE UNCHANGED queue
  /\ End(w)
  /\ UNCHANGED <<row, stores, analyses, requests, env>>

\* autoretry_for=(Exception,): another message until max_retries, then on_failure.
Raise(w) ==
  /\ At(w, "raise")
  /\ IF run[w].retries < MaxRetries
     THEN /\ Enqueue([task |-> run[w].task, doc |-> Doc(w), retries |-> run[w].retries + 1], 1)
          /\ End(w)
     ELSE Goto(w, FailurePc(run[w].task)) /\ UNCHANGED queue
  /\ UNCHANGED <<row, stores, analyses, requests, env>>

\* An exception of dont_autoretry_for: straight to on_failure.
RaiseFinally(w) ==
  run' = [run EXCEPT ![w].pc = FailurePc(run[w].task), ![w].seen = NoInstance]

\* The process dies, meets task_time_limit, or cannot publish its retry: nobody
\* else holds the message.
RunLost(w) ==
  /\ ~ At(w, "idle")
  /\ Fault
  /\ Abandon(Doc(w))
  /\ End(w)
  /\ UNCHANGED <<row, stores, analyses, queue, requests, littered>>

\* _cleanup_file at the end of a run.
Cleanup(w) ==
  /\ At(w, "cleanup")
  /\ End(w)
  /\ RemoveFile(Doc(w))
  /\ UNCHANGED <<row, object, text, analyses, queue, requests>>

-----------------------------------------------------------------------------
(* DocumentScanTask.execute and UploadTask.execute.                         *)

\* BaseTask._is_document_cancelled
CheckCancelled(w) ==
  /\ At(w, "check_cancelled")
  /\ Goto(w, IF status[Doc(w)] \in {"none", "cancelled"} THEN "cleanup" ELSE "check_path")
  /\ UNCHANGED <<row, stores, analyses, queue, requests, env>>

\* Mutant: a task without its file ends there.
AfterPathCheckQuiet(found, task) ==
  IF ~ found THEN "cleanup" ELSE IF task = "scan" THEN "mark_scanning" ELSE "mark_uploading"

AfterPathCheck(found, task) ==
  IF ~ found THEN "write_missing" ELSE IF task = "scan" THEN "mark_scanning" ELSE "mark_uploading"

\* BaseTask._is_path_exists: the look at the file ...
CheckPath(w) ==
  /\ At(w, "check_path")
  /\ Goto(w, AfterPathCheck(temp[Doc(w)] # None, run[w].task))
  /\ UNCHANGED <<row, stores, analyses, queue, requests, env>>

\* ... and, when it is missing, the update of the row.
WriteMissing(w) ==
  /\ At(w, "write_missing")
  /\ SaveStatus(Doc(w), NoInstance, "cancelled")
  /\ ClearName(Doc(w), NoInstance)
  /\ Acknowledged(w, End(w))
  /\ UNCHANGED <<key, stores, analyses, queue, requests, abandoned, littered>>

MarkScanning(w) ==
  /\ At(w, "mark_scanning")
  /\ SaveStatus(Doc(w), NoInstance, "scanning")
  /\ Goto(w, "scan")
  /\ UNCHANGED <<named, key, stores, analyses, queue, requests, env>>

\* The scanner's answer.  A file that is gone is an OSError, which the scanner
\* reports like an unreachable clamd.
Verdict(w, found) ==
  /\ temp[Doc(w)] # None
  /\ temp[Doc(w)] \in Infected <=> found
  /\ Goto(w, IF found THEN "write_infected" ELSE "publish_upload")
  /\ UNCHANGED faults

\* Mutant: the scan is skipped whatever the setting.
AlwaysSkipScan == "publish_upload"

WithoutScan == IF FailOnUnavailable THEN "write_failed" ELSE "publish_upload"

Unavailable(w) ==
  /\ IF temp[Doc(w)] = None THEN UNCHANGED faults ELSE Fault
  /\ Goto(w, WithoutScan)

Scan(w) ==
  /\ At(w, "scan")
  /\ Verdict(w, TRUE) \/ Verdict(w, FALSE) \/ Unavailable(w)
  /\ UNCHANGED <<row, stores, analyses, queue, requests, abandoned, littered>>

WriteInfected(w) ==
  /\ At(w, "write_infected")
  /\ SaveStatus(Doc(w), NoInstance, "infected")
  /\ ClearName(Doc(w), NoInstance)
  /\ Acknowledged(w, Goto(w, "cleanup"))
  /\ UNCHANGED <<key, stores, analyses, queue, requests, abandoned, littered>>

\* A task hands the document to the next task: ends the run, or raises.
Publish(w, task) ==
  \E o \in Outcomes :
    /\ Costs(o)
    /\ Enqueue(FirstAttempt(task, Doc(w)), Copies(o))
    /\ IF Raises(o) THEN Goto(w, "raise") ELSE End(w)
    /\ UNCHANGED <<row, stores, analyses, requests, abandoned, littered>>

PublishUpload(w) == At(w, "publish_upload") /\ Publish(w, "upload")

MarkUploading(w) ==
  /\ At(w, "mark_uploading")
  /\ SaveStatus(Doc(w), NoInstance, "uploading")
  /\ Goto(w, "check_object")
  /\ UNCHANGED <<named, key, stores, analyses, queue, requests, env>>

\* Mutant: the HEAD is trusted to have found the object.
AfterHeadSkipped(d) == "write_uploaded"

AfterHead(d) == IF object[d] # None THEN "write_uploaded" ELSE "put_object"

\* _upload_document: HEAD first; an answer that is not retryable fails the document.
CheckObject(w) ==
  /\ At(w, "check_object")
  /\ \/ /\ Goto(w, AfterHead(Doc(w)))
        /\ UNCHANGED faults
     \/ Fault /\ Goto(w, "write_failed")
  /\ UNCHANGED <<row, stores, analyses, queue, requests, abandoned, littered>>

\* The PUT.  FileNotFoundError for a file that is gone is not retried.
PutObject(w) ==
  /\ At(w, "put_object")
  /\ \/ /\ temp[Doc(w)] # None
        /\ object' = [object EXCEPT ![Doc(w)] = temp[Doc(w)]]
        /\ Goto(w, "write_uploaded")
        /\ UNCHANGED faults
     \/ temp[Doc(w)] = None /\ RaiseFinally(w) /\ UNCHANGED <<object, faults>>
     \/ temp[Doc(w)] # None /\ Fault /\ Goto(w, "write_failed") /\ UNCHANGED object
  /\ UNCHANGED <<row, temp, text, analyses, queue, requests, abandoned, littered>>

WriteUploaded(w) ==
  /\ At(w, "write_uploaded")
  /\ SaveStatus(Doc(w), NoInstance, "uploaded")
  /\ key' = [key EXCEPT ![Doc(w)] = Doc(w)]
  /\ Goto(w, "publish_extract")
  /\ UNCHANGED <<named, stores, analyses, queue, requests, env>>

PublishExtract(w) == At(w, "publish_extract") /\ Publish(w, "extract")

\* The row update of every error the tasks do not retry: failed, temp_filename NULL.
WriteFailed(w) ==
  /\ At(w, "write_failed")
  /\ SaveStatus(Doc(w), run[w].seen, "failed")
  /\ ClearName(Doc(w), run[w].seen)
  /\ Acknowledged(w, Goto(w, "cleanup"))
  /\ UNCHANGED <<key, stores, analyses, queue, requests, abandoned, littered>>

-----------------------------------------------------------------------------
(* DocumentExtractionTask.execute.  It keeps the instance it loads, so its  *)
(* updates compare against that instance and not against the row.           *)

\* Mutant: a failed document is extracted again.
LoadAnyFailed(w) ==
  LET d == Doc(w) IN
  /\ At(w, "load")
  /\ \/ /\ status[d] \in {"uploaded", "extracting", "failed"}
        /\ run' = [run EXCEPT ![w].pc = "check_local", ![w].seen = Instance(d)]
     \/ status[d] \in {"none", "cancelled", "infected"} /\ Goto(w, "cleanup")
     \/ status[d] \in {"created", "scanning", "uploading"} /\ End(w)
     \/ status[d] = "extracted" /\ Goto(w, "unlink")
  /\ UNCHANGED <<row, stores, analyses, queue, requests, env>>

LoadDocument(w) ==
  LET d == Doc(w) IN
  /\ At(w, "load")
  /\ \/ /\ status[d] \in {"uploaded", "extracting"}
        /\ run' = [run EXCEPT ![w].pc = "check_local", ![w].seen = Instance(d)]
     \/ status[d] \in {"none", "cancelled", "failed", "infected"} /\ Goto(w, "cleanup")
     \/ status[d] \in {"created", "scanning", "uploading"} /\ End(w)
     \/ status[d] = "extracted" /\ Goto(w, "unlink")
  /\ UNCHANGED <<row, stores, analyses, queue, requests, env>>

CheckLocal(w) ==
  /\ At(w, "check_local")
  /\ Goto(w, IF temp[Doc(w)] = None THEN "restore" ELSE "mark_extracting")
  /\ UNCHANGED <<row, stores, analyses, queue, requests, env>>

\* _restore_file_from_storage: without a key an ExtractionError, which is not
\* retried; a missing object or a refusal fails the document.
Restore(w, from, to) ==
  LET d == Doc(w) IN
  /\ At(w, from)
  /\ IF key[d] = None
     THEN RaiseFinally(w) /\ UNCHANGED <<temp, faults>>
     ELSE \/ /\ object[key[d]] # None
             /\ temp' = [temp EXCEPT ![d] = object[key[d]]]
             /\ Goto(w, to)
             /\ UNCHANGED faults
          \/ /\ IF object[key[d]] = None THEN UNCHANGED faults ELSE Fault
             /\ Goto(w, "write_failed")
             /\ UNCHANGED temp
  /\ UNCHANGED <<row, object, text, analyses, queue, requests, abandoned, littered>>

RestoreMissing(w) == Restore(w, "restore", "mark_extracting")

MarkExtracting(w) ==
  /\ At(w, "mark_extracting")
  /\ SaveStatus(Doc(w), run[w].seen, "extracting")
  /\ UNCHANGED named
  /\ GotoRefreshed(w, "extract")
  /\ UNCHANGED <<key, stores, analyses, queue, requests, env>>

\* Mutant: the status is updated and the text is not stored.
ExtractedUnstored(w, c) == Goto(w, "write_extracted")

\* The task holds the text of what it read until it is stored.
Extracted(w, c) == run' = [run EXCEPT ![w].pc = "store_text", ![w].text = c]

\* TextExtractor.extract: file_not_found is worth one restore, any other
\* ExtractionError fails the document.
Extract(w) ==
  LET found == temp[Doc(w)] IN
  /\ At(w, "extract")
  /\ \/ found = None /\ Goto(w, "restore_again")
     \/ found \in Broken /\ Goto(w, "write_failed")
     \/ found \in Contents \ Broken /\ Extracted(w, found)
  /\ UNCHANGED <<row, stores, analyses, queue, requests, env>>

RestoreAgain(w) == Restore(w, "restore_again", "extract_again")

\* The second attempt runs inside the except clause: its ExtractionError escapes.
ExtractAgain(w) ==
  /\ At(w, "extract_again")
  /\ IF temp[Doc(w)] \in Contents \ Broken THEN Extracted(w, temp[Doc(w)]) ELSE RaiseFinally(w)
  /\ UNCHANGED <<row, stores, analyses, queue, requests, env>>

\* upsert_raw_text, once per extraction, replaces whatever text there was.
StoreText(w) ==
  /\ At(w, "store_text")
  /\ text' = [text EXCEPT ![Doc(w)] = run[w].text]
  /\ run' = [run EXCEPT ![w].pc = "write_extracted", ![w].text = None]
  /\ UNCHANGED <<row, temp, object, analyses, queue, requests, env>>

WriteExtracted(w) ==
  /\ At(w, "write_extracted")
  /\ SaveStatus(Doc(w), run[w].seen, "extracted")
  /\ ClearName(Doc(w), run[w].seen)
  /\ Acknowledged(w, run' = [run EXCEPT ![w].pc = "unlink", ![w].seen = NoInstance])
  /\ UNCHANGED <<key, stores, analyses, queue, requests, abandoned, littered>>

\* Mutant: the run ends with the cleanup.
UnlinkAndEnd(w) ==
  /\ At(w, "unlink")
  /\ End(w)
  /\ RemoveFile(Doc(w))
  /\ UNCHANGED <<row, object, text, analyses, queue, requests>>

\* _cleanup_file before the dispatch, where the run goes on.
UnlinkLocal(w) ==
  /\ At(w, "unlink")
  /\ Goto(w, "create_analysis")
  /\ RemoveFile(Doc(w))
  /\ UNCHANGED <<row, object, text, analyses, queue, requests>>

CreateAnalysis(w) ==
  /\ At(w, "create_analysis")
  /\ GetOrCreateAnalysis(Doc(w))
  /\ Goto(w, "publish_event")
  /\ UNCHANGED <<row, stores, requested, queue, requests, env>>

\* Mutant: an event that was not published is dropped.
PublishEventOnce(w) ==
  /\ At(w, "publish_event")
  /\ \E o \in Outcomes :
       /\ Costs(o)
       /\ requested' = [requested EXCEPT ![Doc(w)] = @ \/ Copies(o) > 0]
       /\ End(w)
  /\ UNCHANGED <<row, stores, analysis, queue, requests, abandoned, littered>>

PublishEvent(w) ==
  /\ At(w, "publish_event")
  /\ \E o \in Outcomes :
       /\ Costs(o)
       /\ requested' = [requested EXCEPT ![Doc(w)] = @ \/ Copies(o) > 0]
       /\ IF Raises(o) THEN Goto(w, "raise") ELSE End(w)
  /\ UNCHANGED <<row, stores, analysis, queue, requests, abandoned, littered>>

-----------------------------------------------------------------------------
(* on_failure, after the last attempt: _handle_final_failure, then cleanup. *)

\* DocumentExtractionTask._handle_final_failure
OnFailure(w) ==
  /\ At(w, "on_failure")
  /\ Goto(w, IF status[Doc(w)] = "extracted" THEN "mark_dispatch_failed"
             ELSE IF status[Doc(w)] = "none" THEN "cleanup" ELSE "recheck")
  /\ UNCHANGED <<row, stores, analyses, queue, requests, env>>

\* Mutant: a cancelled document is left alone altogether.
RecheckAndLeave(w) ==
  LET d == Doc(w) IN
  /\ At(w, "recheck")
  /\ IF status[d] \in {"none", "cancelled"}
     THEN End(w)
     ELSE run' = [run EXCEPT ![w].pc = "write_failure", ![w].seen = Instance(d)]
  /\ UNCHANGED <<row, stores, analyses, queue, requests, env>>

\* _update_status_after_failure: the read in a session of its own ...
Recheck(w) ==
  LET d == Doc(w) IN
  /\ At(w, "recheck")
  /\ IF status[d] \in {"none", "cancelled"}
     THEN Goto(w, "cleanup")
     ELSE run' = [run EXCEPT ![w].pc = "write_failure", ![w].seen = Instance(d)]
  /\ UNCHANGED <<row, stores, analyses, queue, requests, env>>

\* ... and the write, which compares against what was read.
WriteFailure(w) ==
  /\ At(w, "write_failure")
  /\ SaveStatus(Doc(w), run[w].seen, "failed")
  /\ ClearName(Doc(w), run[w].seen)
  /\ run' = [run EXCEPT ![w].pc = "cleanup", ![w].seen = NoInstance]
  /\ UNCHANGED <<key, stores, analyses, queue, requests, env>>

\* mark_dispatch_failed, which never succeeds here: asyncio.run gives the handler an event
\* loop of its own, and the Mongo client, bound to the run's closed loop, refuses another.
\* The refusal is dropped like any exception of the handler.
MarkAnalysisFailed(w) ==
  /\ At(w, "mark_dispatch_failed")
  /\ Goto(w, "cleanup")
  /\ UNCHANGED <<row, stores, analyses, queue, requests, env>>

\* An exception of the handler is logged and dropped; the cleanup still runs.
HandlerFails(w) ==
  /\ run[w].pc \in {"on_failure", "recheck", "write_failure"}
  /\ Fault
  /\ Abandon(Doc(w))
  /\ run' = [run EXCEPT ![w].pc = "cleanup", ![w].seen = NoInstance]
  /\ UNCHANGED <<row, stores, analyses, queue, requests, littered>>

-----------------------------------------------------------------------------
(* UploadService.process_upload, one request per document.                  *)

UpAt(d, pc) == up[d].pc = pc
UpGoto(d, pc) == up' = [up EXCEPT ![d].pc = pc]

\* The validated file is saved under a fresh name and hashed while it is written.
ReceiveFile(d, c) ==
  /\ UpAt(d, "absent")
  /\ temp' = [temp EXCEPT ![d] = c]
  /\ content' = [content EXCEPT ![d] = c]
  /\ UpGoto(d, "lookup")
  /\ UNCHANGED <<row, object, text, analyses, queue, run, cancel, cancels, view, env>>

\* Mutant: the hash is not compared.
AnyStoredDocument(d) == {e \in Docs : key[e] # None}

\* Mutant: documents that are not stored yet are candidates too.
AnyEqualDocument(d) == {e \in Docs : content[e] = content[d] /\ status[e] # "none"}

\* get_reuse_candidates: rows with this hash and an object key, whatever their status.
ReuseCandidates(d) == {e \in Docs : content[e] = content[d] /\ key[e] # None}

LookUpDuplicates(d) ==
  /\ UpAt(d, "lookup")
  /\ up' = [up EXCEPT ![d].candidates = ReuseCandidates(d),
                      ![d].pc = IF ReuseCandidates(d) = {} THEN "create" ELSE "texts"]
  /\ UNCHANGED <<row, stores, analyses, queue, run, cancel, content, cancels, view, env>>

\* get_content_for_deduplicate: any candidate with a non-empty text.
TextSources(d) == {e \in up[d].candidates : text[e] \in Contents \ Blank}

\* PreparedUpload
ChoosePath(d, path, e, raw) ==
  up' = [up EXCEPT ![d].pc = "create", ![d].path = path, ![d].candidates = {},
                  ![d].key = key[e], ![d].raw = raw]

LookUpTexts(d) ==
  /\ UpAt(d, "texts")
  /\ \/ /\ \E e \in TextSources(d) : ChoosePath(d, "analysis_only", e, text[e])
        /\ UNCHANGED faults
     \/ /\ IF TextSources(d) = {} THEN UNCHANGED faults ELSE Fault
        /\ \E e \in up[d].candidates : ChoosePath(d, "extraction_only", e, None)
  /\ UNCHANGED <<row, stores, analyses, queue, run, cancel, content, cancels, view, abandoned, littered>>

\* The row each path starts from.
InitialStatus == [full |-> "created", extraction_only |-> "uploaded", analysis_only |-> "extracted"]

CreateRow(d) ==
  /\ status' = [status EXCEPT ![d] = InitialStatus[up[d].path]]
  /\ named' = [named EXCEPT ![d] = up[d].path # "analysis_only"]
  /\ key' = [key EXCEPT ![d] = up[d].key]

CreateDocument(d) ==
  /\ UpAt(d, "create")
  /\ CreateRow(d)
  /\ UpGoto(d, IF up[d].path = "analysis_only" THEN "upsert" ELSE "send")
  /\ UNCHANGED <<stores, analyses, queue, run, cancel, content, cancels, view, env>>

\* The commit succeeds and the refresh after it raises: process_upload has no
\* document to mark failed, so the row stays as it was created.
CreateOrphan(d) ==
  /\ UpAt(d, "create")
  /\ Fault
  /\ Abandon(d)
  /\ CreateRow(d)
  /\ UpGoto(d, "remove")
  /\ UNCHANGED <<stores, analyses, queue, run, cancel, content, cancels, view, littered>>

\* _full_pipeline_processing and _extracting_only_processing
FirstTask(path) ==
  IF path = "full" THEN (IF AntivirusEnabled THEN "scan" ELSE "upload") ELSE "extract"

SendToQueue(d) ==
  /\ UpAt(d, "send")
  /\ \E o \in Outcomes :
       /\ Costs(o)
       /\ Enqueue(FirstAttempt(FirstTask(up[d].path), d), Copies(o))
       /\ UpGoto(d, IF Raises(o) THEN "mark_failed" ELSE "done")
  /\ UNCHANGED <<row, stores, analyses, run, cancel, content, cancels, view, abandoned, littered>>

\* Mutant: an unreachable MongoDB is ignored.
CopyTextBlindly(d) ==
  /\ UpAt(d, "upsert")
  /\ UpGoto(d, "unlink")
  /\ \/ text' = [text EXCEPT ![d] = up[d].raw] /\ UNCHANGED faults
     \/ UNCHANGED text /\ Fault
  /\ UNCHANGED <<row, temp, object, analyses, queue, run, cancel, content, cancels, view, abandoned, littered>>

\* _analyzing_only_processing: the text of the duplicate becomes this document's;
\* without MongoDB the request falls back to extraction.
CopyText(d) ==
  /\ UpAt(d, "upsert")
  /\ \/ /\ text' = [text EXCEPT ![d] = up[d].raw]
        /\ UpGoto(d, "unlink")
        /\ UNCHANGED faults
     \/ Fault /\ UpGoto(d, "degrade") /\ UNCHANGED text
  /\ UNCHANGED <<row, temp, object, analyses, queue, run, cancel, content, cancels, view, abandoned, littered>>

Degrade(d) ==
  /\ UpAt(d, "degrade")
  /\ SaveStatus(d, NoInstance, "uploaded")
  /\ named' = [named EXCEPT ![d] = TRUE]
  /\ up' = [up EXCEPT ![d].pc = "send", ![d].path = "extraction_only"]
  /\ UNCHANGED <<key, stores, analyses, queue, run, cancel, content, cancels, view, env>>

\* Mutant: the copied text makes the file worthless, but nobody removes it.
KeepAfterCopy(d) ==
  /\ UpAt(d, "unlink")
  /\ UpGoto(d, "create_analysis")
  /\ UNCHANGED <<row, stores, analyses, queue, run, cancel, content, cancels, view, env>>

RemoveAfterCopy(d) ==
  /\ UpAt(d, "unlink")
  /\ RemoveFile(d)
  /\ UpGoto(d, "create_analysis")
  /\ UNCHANGED <<row, object, text, analyses, queue, run, cancel, content, cancels, view>>

StartAnalysis(d) ==
  /\ UpAt(d, "create_analysis")
  /\ GetOrCreateAnalysis(d)
  /\ UpGoto(d, "publish_event")
  /\ UNCHANGED <<row, stores, requested, queue, run, cancel, content, cancels, view, env>>

SendEvent(d) ==
  /\ UpAt(d, "publish_event")
  /\ \E o \in Outcomes :
       /\ Costs(o)
       /\ requested' = [requested EXCEPT ![d] = @ \/ Copies(o) > 0]
       /\ UpGoto(d, IF Raises(o) THEN "mark_dispatch_failed" ELSE "done")
  /\ UNCHANGED <<row, stores, analysis, queue, run, cancel, content, cancels, view, abandoned, littered>>

\* The dispatch failed: the document stays extracted, its analysis becomes failed.
UndoDispatch(d) ==
  /\ UpAt(d, "mark_dispatch_failed")
  /\ UpGoto(d, "remove")
  /\ \/ MarkDispatchFailed(d) /\ UNCHANGED env
     \/ Fault /\ Abandon(d) /\ UNCHANGED <<analysis, littered>>
  /\ UNCHANGED <<row, stores, requested, queue, run, cancel, content, cancels, view>>

\* Where the next access of the request raises, the request answers an error: before
\* there is a row only the file goes, a failed start of the analysis leaves the
\* document extracted, and anything else marks the document failed.
ErrorPc(pc) ==
  CASE pc \in {"lookup", "texts", "create", "create_analysis"} -> "remove"
    [] pc \in {"upsert", "degrade"} -> "mark_failed"
UploadFails(d) ==
  /\ up[d].pc \in {"lookup", "texts", "create", "create_analysis", "upsert", "degrade"}
  /\ Fault
  /\ UpGoto(d, ErrorPc(up[d].pc))
  /\ UNCHANGED <<row, stores, analyses, queue, run, cancel, content, cancels, view, abandoned, littered>>

\* _try_mark_document_failed writes whatever the status is by now.
TryMarkFailed(d) ==
  /\ UpAt(d, "mark_failed")
  /\ UpGoto(d, "remove")
  /\ \/ /\ SaveStatus(d, NoInstance, "failed")
        /\ ClearName(d, NoInstance)
        /\ UNCHANGED env
     \/ Fault /\ Abandon(d) /\ UNCHANGED <<status, named, littered>>
  /\ UNCHANGED <<key, stores, analyses, queue, run, cancel, content, cancels, view>>

RemoveFromTemp(d) ==
  /\ UpAt(d, "remove")
  /\ RemoveFile(d)
  /\ UpGoto(d, "done")
  /\ UNCHANGED <<row, object, text, analyses, queue, run, cancel, content, cancels, view>>

-----------------------------------------------------------------------------
(* DocumentService.cancel_document_processing.                              *)

CancelRead(d) ==
  /\ cancel[d].pc = "idle"
  /\ cancels < MaxCancels /\ cancels' = cancels + 1
  /\ status[d] \notin {"none", "cancelled"}
  /\ cancel' = [cancel EXCEPT ![d] = [pc |-> "write", seen |-> Instance(d)]]
  /\ UNCHANGED <<row, stores, analyses, queue, run, up, content, view, env>>

\* The request still holds the instance it read, so a temp_filename that was NULL
\* then is neither cleared nor unlinked now.
CancelWrite(d) ==
  /\ cancel[d].pc = "write"
  /\ SaveStatus(d, cancel[d].seen, "cancelled")
  /\ ClearName(d, cancel[d].seen)
  /\ cancel' = [cancel EXCEPT ![d] = IF @.seen.named THEN [@ EXCEPT !.pc = "unlink"] ELSE NoCancel]
  /\ UNCHANGED <<key, stores, analyses, queue, run, up, content, cancels, view, env>>

CancelUnlink(d) ==
  /\ cancel[d].pc = "unlink"
  /\ RemoveFile(d)
  /\ cancel' = [cancel EXCEPT ![d] = NoCancel]
  /\ UNCHANGED <<row, object, text, analyses, queue, run, up, content, cancels, view>>

\* The API process dies with the upload request.
UploadLost(d) ==
  /\ up[d].pc \notin {"absent", "done"}
  /\ Fault
  /\ Abandon(d)
  /\ UpGoto(d, "done")
  /\ UNCHANGED <<row, stores, analyses, queue, run, cancel, content, cancels, view, littered>>

\* The cancel request fails before its update, or dies before its unlink.
CancelLost(d) ==
  /\ cancel[d].pc # "idle"
  /\ Fault
  /\ littered' = IF cancel[d].pc = "unlink" THEN littered \cup {d} ELSE littered
  /\ cancel' = [cancel EXCEPT ![d] = NoCancel]
  /\ UNCHANGED <<row, stores, analyses, queue, run, up, content, cancels, view, abandoned>>

-----------------------------------------------------------------------------
(* The requests of DocumentService that only read.  Row, text and analyses  *)
(* are read one after another, from two databases.                          *)

\* The request that copies a duplicate's text creates the row before the text.
Copying(d) == up[d].pc \in {"upsert", "degrade", "mark_failed"}

\* get_document, for get_document_by_id.  The answer is followed when it says that the
\* document is extracted; any other status promises no text.
Show(u, d) ==
  /\ view[u].pc = "idle" /\ status[d] = "extracted"
  /\ view' = [view EXCEPT ![u] = [NoView EXCEPT !.pc = "text", !.doc = d,
                                                !.excused = Copying(d) \/ d \in abandoned]]
  /\ UNCHANGED <<row, stores, analyses, queue, run, up, cancel, content, cancels, env>>

\* get_document, for ensure_ready_for_analysis: a conflict unless it is extracted.
EnsureReady(u, d) ==
  /\ view[u].pc = "idle" /\ status[d] = "extracted"
  /\ view' = [view EXCEPT ![u] = [NoView EXCEPT !.pc = "text", !.kind = "check", !.doc = d]]
  /\ UNCHANGED <<row, stores, analyses, queue, run, up, cancel, content, cancels, env>>

\* get_download_url signs a link for the key of the row, and looks at no object.
GetDownloadUrl(u, d) ==
  /\ view[u].pc = "idle" /\ key[d] # None
  /\ view' = [view EXCEPT ![u] = [NoView EXCEPT !.pc = "linked", !.doc = d, !.key = key[d]]]
  /\ UNCHANGED <<row, stores, analyses, queue, run, up, cancel, content, cancels, env>>

\* Mutant: the status is enough.
ReadyAnyway(t) == TRUE

\* There is a text, and it is not the empty string.
ReadyWith(t) == t \in Contents \ Blank

\* _get_document_content.
ReadText(u) ==
  LET found == text[view[u].doc] IN
  /\ view[u].pc = "text"
  /\ view' = [view EXCEPT ![u] =
       IF @.kind = "show" THEN [@ EXCEPT !.pc = "analyses", !.text = found]
       ELSE IF ReadyWith(found) THEN [@ EXCEPT !.pc = "ready", !.text = found] ELSE NoView]
  /\ UNCHANGED <<row, stores, analyses, queue, run, up, cancel, content, cancels, env>>

\* MongoDB fails: a document is shown without its text, a check answers an error.
ReadTextFails(u) ==
  /\ view[u].pc = "text"
  /\ view' = [view EXCEPT ![u] =
       IF @.kind = "show" THEN [@ EXCEPT !.pc = "analyses", !.excused = TRUE] ELSE NoView]
  /\ Fault
  /\ UNCHANGED <<row, stores, analyses, queue, run, up, cancel, content, cancels, abandoned, littered>>

\* get_analyses_by_document_id is the last read of what is shown.  An answer is on its
\* way until the user has it.
Answer(u) ==
  /\ view[u].pc \in {"analyses", "ready", "linked"}
  /\ view' = [view EXCEPT ![u] = NoView]
  /\ UNCHANGED <<row, stores, analyses, queue, run, up, cancel, content, cancels, env>>

-----------------------------------------------------------------------------
RunStep(w) ==
  \/ Raise(w) \/ Cleanup(w)
  \/ CheckCancelled(w) \/ CheckPath(w) \/ WriteMissing(w)
  \/ MarkScanning(w) \/ Scan(w) \/ WriteInfected(w) \/ PublishUpload(w)
  \/ MarkUploading(w) \/ CheckObject(w) \/ PutObject(w) \/ WriteUploaded(w)
  \/ PublishExtract(w) \/ WriteFailed(w)
  \/ LoadDocument(w) \/ CheckLocal(w) \/ RestoreMissing(w) \/ MarkExtracting(w)
  \/ Extract(w) \/ RestoreAgain(w) \/ ExtractAgain(w) \/ StoreText(w)
  \/ WriteExtracted(w) \/ UnlinkLocal(w) \/ CreateAnalysis(w) \/ PublishEvent(w)
  \/ OnFailure(w) \/ Recheck(w) \/ WriteFailure(w) \/ MarkAnalysisFailed(w)

RunFault(w) == AccessFails(w) \/ HandlerFails(w) \/ RunLost(w)

UploadStep(d) ==
  \/ LookUpDuplicates(d) \/ LookUpTexts(d) \/ CreateDocument(d) \/ SendToQueue(d)
  \/ CopyText(d) \/ Degrade(d) \/ RemoveAfterCopy(d) \/ StartAnalysis(d) \/ SendEvent(d)
  \/ UndoDispatch(d) \/ TryMarkFailed(d) \/ RemoveFromTemp(d)

RequestFault(d) == CreateOrphan(d) \/ UploadFails(d) \/ UploadLost(d) \/ CancelLost(d)

CancelStep(d) == CancelWrite(d) \/ CancelUnlink(d)

ReadStep(u) ==
  \/ \E d \in Docs : Show(u, d) \/ EnsureReady(u, d) \/ GetDownloadUrl(u, d)
  \/ ReadText(u) \/ ReadTextFails(u) \/ Answer(u)

Next ==
  \/ \E w \in Workers, m \in Messages : Take(w, m)
  \/ \E w \in Workers : RunStep(w) \/ RunFault(w)
  \/ \E d \in Docs, c \in Contents : ReceiveFile(d, c)
  \/ \E d \in Docs : UploadStep(d) \/ RequestFault(d) \/ CancelRead(d) \/ CancelStep(d)
  \/ \E u \in Readers : ReadStep(u)

Spec == Init /\ [][Next]_vars

\* Requests run to their end, and worker processes keep consuming and running.
Fairness ==
  /\ \A w \in Workers : WF_vars(RunStep(w)) /\ WF_vars(\E m \in Messages : Take(w, m))
  /\ \A d \in Docs : WF_vars(UploadStep(d)) /\ WF_vars(CancelStep(d))

FairSpec == Spec /\ Fairness

-----------------------------------------------------------------------------
(* Properties.                                                              *)

Terminal == {"extracted", "infected", "failed", "cancelled"}

\* Nothing in the system will act on document d again, unless a user cancels it.
Quiet(d) ==
  /\ up[d].pc \in {"absent", "done"} /\ cancel[d].pc = "idle"
  /\ \A w \in Workers : run[w].doc # d
  /\ \A m \in Messages : m.doc = d => queue[m] = 0

\* A document whose status says its file is in object storage has a file_key, and the
\* object that key names is the file its user uploaded: what get_download_url, the
\* reuse of duplicates and the extraction's restore rely on, whatever tasks repeat or
\* overtake each other and whoever uploaded the object.
StoredHasObject ==
  \A d \in Docs :
    /\ status[d] \in {"uploaded", "extracting", "extracted"} => key[d] # None
    /\ key[d] # None => content[d] # None /\ object[key[d]] = content[d]

\* The text a document ends up with is the text of the file its user uploaded, also
\* when it was copied from a duplicate or extracted from a duplicate's object.
TextIsOwn == \A d \in Docs : text[d] # None => text[d] = content[d]

\* Unless its upload is still copying, a document is extracted only with its text stored.
ExtractedHasText ==
  \A d \in Docs :
    status[d] = "extracted" /\ d \notin abandoned => text[d] # None \/ Copying(d)

\* The consumer is never asked to analyse a document whose text is not stored.
RequestedHasText == \A d \in Docs : requested[d] => text[d] # None

\* An answer is true while it is on its way, although its reads were apart: a link leads
\* to the user's own file, a document said to be ready has its own text to analyse, and
\* one shown as extracted is shown with its text, unless MongoDB failed or its upload had
\* yet to copy the text.
AnswersAreTrue ==
  \A u \in Readers :
    LET d == view[u].doc IN
    /\ view[u].pc = "linked" => object[view[u].key] = content[d]
    /\ view[u].pc = "ready" => text[d] = content[d] /\ text[d] \notin Blank
    /\ view[u].pc = "analyses" /\ ~ view[u].excused => view[u].text = content[d]

\* With a mandatory antivirus no infected content reaches object storage: not by a
\* retry, a repeated message, or a duplicate's shortcut around the scan.
InfectedNeverStored == \A d \in Docs : object[d] \notin Infected

\* Once nothing acts on a document any more its temporary file is gone, however its
\* processing ended, unless a process died or an unlink failed.
NoLeakedTempFile ==
  \A d \in Docs : Quiet(d) /\ d \notin abandoned \cup littered => temp[d] = None

\* No document is left in a working status with nobody to move it, unless a step was
\* lost with its process.
NoStuckDocument ==
  \A d \in Docs : Quiet(d) /\ d \notin abandoned => status[d] \in Terminal \cup {"none"}

\* The analysis of an extracted document does not stay queued without an event, unless its
\* dispatch failed on every attempt of the task, which records no last failure: fewer faults
\* than attempts do not lose it.  A request that dispatches itself records its failure.
\* A cancelled document is left out: its cancel drops a dispatch that was to be tried again.
NoQueuedOrphan ==
  \A d \in Docs :
    /\ Quiet(d) /\ d \notin abandoned /\ status[d] = "extracted"
    /\ up[d].path = "analysis_only" \/ faults <= MaxRetries
    => (analysis[d] = "queued" => requested[d])

\* The upload has fallen back from the copied text to extraction, which names the file anew.
Degraded(d) == up[d].path = "extraction_only" /\ up[d].raw # None

\* temp_filename names no file that is gone, once nothing acts on the document.  The
\* exception is an upload that fell back: a cancel that read the row before leaves the name.
NoDanglingName ==
  \A d \in Docs : Quiet(d) /\ d \notin abandoned /\ ~ Degraded(d) => ~ named[d]

\* A recorded file_key is never cleared or replaced, so links handed out and rows of
\* duplicates that copied it stay valid.
KeyIsStable == [][\A d \in Docs : key[d] # None => key'[d] = key[d]]_vars

\* Once its own upload request is over, only the user's cancel takes a document out of
\* extracted: no failing dispatch and no late task undoes the extraction.
ExtractedIsKept ==
  [][\A d \in Docs :
       status[d] = "extracted" /\ up[d].pc = "done"
         => \/ status'[d] = "extracted"
            \/ status'[d] = "cancelled" /\ cancel[d].pc = "write"]_vars

\* A task repeats what another attempt of it has ended, or its failure handler ends it anew.
Reopened(d) ==
  \E w \in Workers :
    /\ run[w].doc = d
    /\ \/ run[w].pc \in {"write_missing", "mark_scanning", "mark_uploading"} /\ run[w].retries > 0
       \/ run[w].pc = "write_failure"

\* An infected or failed document is not worked on again, nor is its verdict replaced, but
\* by a retry of the scan or upload that ended it and did not learn so, or by the handler
\* of that task's last failure; the user may cancel it.
EndedIsKept ==
  [][\A d \in Docs :
       status[d] \in {"infected", "failed"}
         => status'[d] = status[d] \/ cancel[d].pc = "write" \/ Reopened(d)]_vars

\* A cancelled document stays cancelled.
CancelledIsFinal == [][\A d \in Docs : status[d] = "cancelled" => status'[d] = "cancelled"]_vars

\* Every document that has a row reaches a terminal status, unless a step was lost.
DocumentSettles ==
  \A d \in Docs : status[d] # "none" ~> status[d] \in Terminal \/ d \in abandoned

\* Without faults and cancels, every readable upload ends in an analysis request.
UploadIsAnalysed ==
  \A d \in Docs :
    content[d] # None ~>
      requested[d] \/ content[d] \in Infected \cup Broken \/ faults > 0 \/ cancels > 0
=============================================================================

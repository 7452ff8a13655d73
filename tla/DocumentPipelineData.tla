------------------------- MODULE DocumentPipelineData -------------------------
(***************************************************************************)
(* What the pipeline stores is what was uploaded: the proof of             *)
(* StoredHasObject, TextIsOwn, InfectedNeverStored and KeyIsStable, and of *)
(* ExtractedHasText, RequestedHasText and AnswersAreTrue, for every value  *)
(* of the constants.                                                       *)
(*                                                                         *)
(* None of them is inductive: each write is right because of what the      *)
(* task or request knows when it comes to it (a loaded document has a key, *)
(* the text in hand was read from the document's own file, a task that     *)
(* uploads was preceded by a scan).  DataInv states that knowledge.  What  *)
(* makes it stable while others act is Grows: contents, keys and objects   *)
(* are set once and never change.  The proof shows that every step grows,  *)
(* so that only the facts of the one actor that moved remain to be shown.  *)
(***************************************************************************)
EXTENDS DocumentPipelineTypes

\* The upload request has created its row.
Started(d) == up[d].pc \notin {"absent", "lookup", "texts", "create"}

\* A mandatory antivirus would let the content of this document pass.
Clean(d) == AntivirusEnabled /\ FailOnUnavailable => content[d] \notin Infected

\* A file, an object or a text of a document is the uploaded content or absent.
ContentIsOwn ==
  \A d \in Docs :
    temp[d] \in {None, content[d]} /\ object[d] \in {None, content[d]} /\ text[d] \in {None, content[d]}

\* What holds as long as a task of document d is queued or runs.
TaskFacts(task, d) ==
  /\ Started(d)
  /\ task # "extract" => up[d].path = "full"
  /\ task = "upload" => Clean(d)

QueueFacts == \A m \in Messages : queue[m] > 0 => TaskFacts(m.task, m.doc)

ScanPcs == {"mark_scanning", "scan", "publish_upload"}
UploadPcs == {"mark_uploading", "check_object", "put_object", "write_uploaded", "publish_extract"}
LoadedPcs == {"check_local", "restore", "mark_extracting", "extract", "restore_again",
              "extract_again", "store_text", "write_extracted"}

\* What a run that is under way knows.
RunFacts(r) ==
  r.pc # "idle" =>
    /\ TaskFacts(r.task, r.doc)
    /\ r.pc \in {"check_cancelled", "check_path"} => r.task # "extract"
    /\ r.pc \in ScanPcs => r.task = "scan"
    /\ r.pc \in UploadPcs => r.task = "upload"
    /\ r.pc = "publish_upload" => Clean(r.doc)
    /\ r.pc = "write_uploaded" => object[r.doc] # None
    /\ r.pc \in LoadedPcs => key[r.doc] # None
    /\ r.pc = "store_text" => r.text = content[r.doc]

RunsFacts == \A w \in Workers : RunFacts(run[w])

\* What an upload request has established.
RequestFacts(d) ==
  /\ up[d].pc = "absent" => content[d] = None
  /\ up[d].pc \in {"absent", "lookup", "texts"} =>
       up[d].path = "full" /\ up[d].key = None /\ up[d].raw = None
  /\ ~ Started(d) => key[d] = None
  /\ \A e \in up[d].candidates : key[e] # None /\ content[e] = content[d]
  /\ up[d].pc = "create" => IF up[d].path = "full" THEN up[d].key = None
                            ELSE /\ up[d].key # None /\ content[d] # None
                                 /\ object[up[d].key] = content[d]
  /\ up[d].raw \in {None, content[d]}
  /\ up[d].pc \in {"upsert", "degrade"} => key[d] # None /\ up[d].path = "analysis_only"
  /\ Started(d) /\ up[d].path = "full" => key[d] \in {None, d}

RequestsFacts == \A d \in Docs : RequestFacts(d)

DataInv ==
  /\ ContentIsOwn /\ StoredHasObject /\ QueueFacts /\ RunsFacts /\ RequestsFacts
  /\ AntivirusEnabled /\ FailOnUnavailable => InfectedNeverStored

-----------------------------------------------------------------------------
(* The steps of a worker: what each changes, and what the worker knows next. *)

Stored == {"uploaded", "extracting", "extracted"}

\* All a step of a worker may do to what others can see.
OthersWait(w) == UNCHANGED <<up, content>> /\ \A v \in Workers : v # w => run'[v] = run[v]

StoresEffect ==
  \A d \in Docs :
    /\ temp'[d] \in {None, temp[d], content[d]}
    /\ \/ object'[d] = object[d]
       \/ object'[d] = content[d] /\ Clean(d)
    /\ text'[d] \in {None, text[d], content[d]}

RowEffect ==
  \A d \in Docs :
    /\ \/ key'[d] = key[d]
       \/ key'[d] = d /\ Started(d) /\ up[d].path = "full" /\ object[d] # None
    /\ status'[d] \in Stored => status[d] \in Stored \/ key'[d] # None

QueueEffect ==
  \A m \in Messages : queue'[m] > 0 => queue[m] > 0 \/ TaskFacts(m.task, m.doc)

RunEffect(w) == OthersWait(w) /\ StoresEffect /\ RowEffect /\ QueueEffect

\* Contents, keys and objects are set once.
Grows ==
  \A d \in Docs :
    /\ content[d] # None => content'[d] = content[d]
    /\ key[d] # None => key'[d] = key[d]
    /\ object[d] # None => object'[d] = object[d]

LEMMA RunGrows ==
  ASSUME Typed, DataInv, NEW w \in Workers, RunEffect(w)
  PROVE  Grows
<1>. SUFFICES ASSUME NEW d \in Docs
              PROVE  /\ content[d] # None => content'[d] = content[d]
                     /\ key[d] # None => key'[d] = key[d]
                     /\ object[d] # None => object'[d] = object[d]
  BY DEF Grows
<1>1. content' = content
  BY DEF RunEffect, OthersWait
<1>2. key[d] # None => key'[d] = key[d]
  BY DEF RunEffect, RowEffect, DataInv, RequestsFacts, RequestFacts
<1>3. object[d] # None => object'[d] = object[d]
  BY DEF RunEffect, StoresEffect, DataInv, ContentIsOwn
<1>. QED BY <1>1, <1>2, <1>3

LEMMA RunKeepsData ==
  ASSUME Typed, DataInv, NEW w \in Workers, RunEffect(w), RunFacts(run[w])'
  PROVE  DataInv'
<1>. Grows /\ content' = content /\ up' = up
  BY RunGrows DEF RunEffect, OthersWait
<1>1. ContentIsOwn'
  BY DEF RunEffect, StoresEffect, DataInv, ContentIsOwn
<1>2. StoredHasObject'
  <2>. SUFFICES ASSUME NEW d \in Docs
                PROVE  /\ status'[d] \in Stored => key'[d] # None
                       /\ key'[d] # None => content'[d] # None /\ object'[key'[d]] = content'[d]
    BY DEF StoredHasObject, Stored
  <2>1. status'[d] \in Stored => key'[d] # None
    BY DEF RunEffect, RowEffect, DataInv, StoredHasObject, Stored, Grows
  <2>2. CASE key'[d] = key[d]
    <3>1. key[d] # None => key[d] \in Docs
      BY DEF Typed, TypeOK
    <3>. QED BY <2>1, <2>2, <3>1 DEF DataInv, StoredHasObject, Grows
  <2>3. CASE key'[d] = d /\ object[d] # None
    BY <2>1, <2>3 DEF DataInv, ContentIsOwn, Grows
  <2>. QED BY <2>2, <2>3 DEF RunEffect, RowEffect
<1>3. QueueFacts'
  BY DEF RunEffect, QueueEffect, DataInv, QueueFacts, TaskFacts, Started, Clean
<1>4. RunsFacts'
  <2>. SUFFICES ASSUME NEW v \in Workers, v # w
                PROVE  RunFacts(run[v])'
    BY DEF RunsFacts
  <2>1. run'[v] = run[v] /\ RunFacts(run[v])
    BY DEF RunEffect, OthersWait, DataInv, RunsFacts
  <2>2. run[v].pc # "idle" => run[v].doc \in Docs
    BY DEF Typed, RunsHaveDocuments
  <2>. QED BY <2>1, <2>2 DEF RunFacts, TaskFacts, Started, Clean, Grows
<1>5. RequestsFacts'
  <2>. SUFFICES ASSUME NEW d \in Docs
                PROVE  RequestFacts(d)'
    BY DEF RequestsFacts
  <2>1. RequestFacts(d)
    BY DEF DataInv, RequestsFacts
  <2>2. ~ Started(d) => key'[d] = None
    BY <2>1 DEF RequestFacts, RunEffect, RowEffect
  <2>3. \A e \in up[d].candidates : key'[e] # None
    <3>1. up[d].candidates \subseteq Docs
      BY DEF Typed, TypeOK, Uploads
    <3>. QED BY <2>1, <3>1 DEF RequestFacts, Grows
  <2>4. up[d].pc = "create" /\ up[d].path # "full" => object'[up[d].key] = content[d]
    <3>1. up[d].key \in Docs \cup {None}
      BY DEF Typed, TypeOK, Uploads
    <3>. QED BY <2>1, <3>1 DEF RequestFacts, Grows
  <2>5. Started(d) /\ up[d].path = "full" => key'[d] \in {None, d}
    BY <2>1 DEF RequestFacts, RunEffect, RowEffect
  <2>6. up[d].pc \in {"upsert", "degrade"} => key'[d] # None
    BY <2>1 DEF RequestFacts, Grows
  <2>. QED BY <2>1, <2>2, <2>3, <2>4, <2>5, <2>6 DEF RequestFacts, Started
<1>6. AntivirusEnabled /\ FailOnUnavailable => InfectedNeverStored'
  BY DEF RunEffect, OthersWait, StoresEffect, DataInv, InfectedNeverStored, Clean
<1>. QED BY <1>1, <1>2, <1>3, <1>4, <1>5, <1>6 DEF DataInv

LEMMA SameStores == UNCHANGED stores => StoresEffect
  BY DEF stores, StoresEffect

LEMMA SameRow == UNCHANGED row => RowEffect
  BY DEF row, RowEffect

LEMMA SameQueue == UNCHANGED queue => QueueEffect
  BY DEF QueueEffect

LEMMA RemovedFile ==
  ASSUME Typed, NEW d \in Docs, RemoveFile(d), UNCHANGED <<object, text>>
  PROVE  StoresEffect
  BY DEF Typed, TypeOK, RemoveFile, StoresEffect

LEMMA SavedStatus ==
  ASSUME Typed, NEW d \in Docs, NEW seen, NEW st, SaveStatus(d, seen, st), UNCHANGED key,
         st \notin Stored \/ key[d] # None
  PROVE  RowEffect
  BY DEF Typed, TypeOK, SaveStatus, Written, RowEffect

LEMMA Enqueued ==
  ASSUME Typed, NEW m \in Messages, NEW n, Enqueue(m, n), n = 0 \/ TaskFacts(m.task, m.doc)
  PROVE  QueueEffect
  BY DEF Typed, TypeOK, Enqueue, QueueEffect

LEMMA WorkerEffect ==
  ASSUME Typed, DataInv, NEW w \in Workers, RunStep(w) \/ RunFault(w)
  PROVE  RunEffect(w)
<1>. DEFINE d == Doc(w)
<1>. /\ run \in [Workers -> Runs] /\ run[w] \in Runs
     /\ run[w].pc # "idle" => d \in Docs
     /\ RunFacts(run[w]) /\ ContentIsOwn /\ StoredHasObject
  BY DEF Typed, TypeOK, RunsHaveDocuments, DataInv, RunsFacts, Doc
<1>. USE DEF At
<1>1. CASE Raise(w)
  <2>1. OthersWait(w)
    BY <1>1 DEF Raise, OthersWait, requests, Goto, End, Idle
  <2>2. StoresEffect /\ RowEffect
    BY <1>1, SameStores, SameRow DEF Raise
  <2>3. QueueEffect
    <3>1. CASE run[w].retries < MaxRetries
      <4>1. [task |-> run[w].task, doc |-> d, retries |-> run[w].retries + 1] \in Messages
        BY <1>1, <3>1, BoundsAssumption DEF Raise, Messages, Runs
      <4>2. TaskFacts(run[w].task, d)
        BY <1>1 DEF Raise, RunFacts, Doc
      <4>. QED BY <1>1, <3>1, <4>1, <4>2, Enqueued DEF Raise
    <3>. QED BY <1>1, <3>1, SameQueue DEF Raise
  <2>. QED BY <2>1, <2>2, <2>3 DEF RunEffect
<1>2. CASE Cleanup(w)
  <2>1. OthersWait(w)
    BY <1>2 DEF Cleanup, OthersWait, requests, End, Idle
  <2>2. RowEffect /\ QueueEffect
    BY <1>2, SameRow, SameQueue DEF Cleanup
  <2>3. StoresEffect
    BY <1>2, RemovedFile DEF Cleanup
  <2>. QED BY <2>1, <2>2, <2>3 DEF RunEffect
<1>3. CASE CheckCancelled(w)
  <2>1. OthersWait(w)
    BY <1>3 DEF CheckCancelled, OthersWait, requests, Goto
  <2>2. StoresEffect /\ RowEffect /\ QueueEffect
    BY <1>3, SameStores, SameRow, SameQueue DEF CheckCancelled
  <2>. QED BY <2>1, <2>2 DEF RunEffect
<1>4. CASE CheckPath(w)
  <2>1. OthersWait(w)
    BY <1>4 DEF CheckPath, OthersWait, requests, Goto
  <2>2. StoresEffect /\ RowEffect /\ QueueEffect
    BY <1>4, SameStores, SameRow, SameQueue DEF CheckPath
  <2>. QED BY <2>1, <2>2 DEF RunEffect
<1>5. CASE WriteMissing(w)
  <2>1. OthersWait(w)
    BY <1>5 DEF WriteMissing, OthersWait, requests, End, Idle, Acknowledged, Escapes
  <2>2. StoresEffect /\ QueueEffect
    BY <1>5, SameStores, SameQueue DEF WriteMissing
  <2>3. RowEffect
    BY <1>5, SavedStatus DEF WriteMissing, Stored
  <2>. QED BY <2>1, <2>2, <2>3 DEF RunEffect
<1>6. CASE MarkScanning(w)
  <2>1. OthersWait(w)
    BY <1>6 DEF MarkScanning, OthersWait, requests, Goto
  <2>2. StoresEffect /\ QueueEffect
    BY <1>6, SameStores, SameQueue DEF MarkScanning
  <2>3. RowEffect
    BY <1>6, SavedStatus DEF MarkScanning, Stored
  <2>. QED BY <2>1, <2>2, <2>3 DEF RunEffect
<1>7. CASE Scan(w)
  <2>1. OthersWait(w)
    BY <1>7 DEF Scan, OthersWait, requests, Goto, Verdict, Unavailable
  <2>2. StoresEffect /\ RowEffect /\ QueueEffect
    BY <1>7, SameStores, SameRow, SameQueue DEF Scan
  <2>. QED BY <2>1, <2>2 DEF RunEffect
<1>8. CASE WriteInfected(w)
  <2>1. OthersWait(w)
    BY <1>8 DEF WriteInfected, OthersWait, requests, Goto, Acknowledged, Escapes
  <2>2. StoresEffect /\ QueueEffect
    BY <1>8, SameStores, SameQueue DEF WriteInfected
  <2>3. RowEffect
    BY <1>8, SavedStatus DEF WriteInfected, Stored
  <2>. QED BY <2>1, <2>2, <2>3 DEF RunEffect
<1>9. CASE PublishUpload(w)
  <2>1. OthersWait(w)
    BY <1>9 DEF PublishUpload, Publish, OthersWait, requests, Goto, End, Idle
  <2>2. StoresEffect /\ RowEffect
    BY <1>9, SameStores, SameRow DEF PublishUpload, Publish
  <2>3. QueueEffect
    <3>1. FirstAttempt("upload", d) \in Messages
      BY <1>9, BoundsAssumption DEF PublishUpload, Messages, FirstAttempt, Tasks
    <3>2. TaskFacts("upload", d)
      BY <1>9 DEF PublishUpload, RunFacts, TaskFacts, Doc, ScanPcs
    <3>. QED BY <1>9, <3>1, <3>2, Enqueued DEF PublishUpload, Publish, FirstAttempt
  <2>. QED BY <2>1, <2>2, <2>3 DEF RunEffect
<1>10. CASE MarkUploading(w)
  <2>1. OthersWait(w)
    BY <1>10 DEF MarkUploading, OthersWait, requests, Goto
  <2>2. StoresEffect /\ QueueEffect
    BY <1>10, SameStores, SameQueue DEF MarkUploading
  <2>3. RowEffect
    BY <1>10, SavedStatus DEF MarkUploading, Stored
  <2>. QED BY <2>1, <2>2, <2>3 DEF RunEffect
<1>11. CASE CheckObject(w)
  <2>1. OthersWait(w)
    BY <1>11 DEF CheckObject, OthersWait, requests, Goto
  <2>2. StoresEffect /\ RowEffect /\ QueueEffect
    BY <1>11, SameStores, SameRow, SameQueue DEF CheckObject
  <2>. QED BY <2>1, <2>2 DEF RunEffect
<1>12. CASE PutObject(w)
  <2>1. OthersWait(w)
    BY <1>12 DEF PutObject, OthersWait, requests, Goto, RaiseFinally
  <2>2. RowEffect /\ QueueEffect
    BY <1>12, SameRow, SameQueue DEF PutObject
  <2>3. StoresEffect
    BY <1>12
    DEF PutObject, StoresEffect, ContentIsOwn, Doc, RunFacts, TaskFacts, UploadPcs, Typed,
        TypeOK
  <2>. QED BY <2>1, <2>2, <2>3 DEF RunEffect
<1>13. CASE WriteUploaded(w)
  <2>1. OthersWait(w)
    BY <1>13 DEF WriteUploaded, OthersWait, requests, Goto
  <2>2. StoresEffect /\ QueueEffect
    BY <1>13, SameStores, SameQueue DEF WriteUploaded
  <2>3. RowEffect
    BY <1>13, ContentsAssumption
    DEF WriteUploaded, RowEffect, SaveStatus, Doc, RunFacts, TaskFacts, UploadPcs, Typed, TypeOK
  <2>. QED BY <2>1, <2>2, <2>3 DEF RunEffect
<1>14. CASE PublishExtract(w)
  <2>1. OthersWait(w)
    BY <1>14 DEF PublishExtract, Publish, OthersWait, requests, Goto, End, Idle
  <2>2. StoresEffect /\ RowEffect
    BY <1>14, SameStores, SameRow DEF PublishExtract, Publish
  <2>3. QueueEffect
    <3>1. FirstAttempt("extract", d) \in Messages
      BY <1>14, BoundsAssumption DEF PublishExtract, Messages, FirstAttempt, Tasks
    <3>2. TaskFacts("extract", d)
      BY <1>14 DEF PublishExtract, RunFacts, TaskFacts, Doc, UploadPcs
    <3>. QED BY <1>14, <3>1, <3>2, Enqueued DEF PublishExtract, Publish, FirstAttempt
  <2>. QED BY <2>1, <2>2, <2>3 DEF RunEffect
<1>15. CASE WriteFailed(w)
  <2>1. OthersWait(w)
    BY <1>15 DEF WriteFailed, OthersWait, requests, Goto, Acknowledged, Escapes
  <2>2. StoresEffect /\ QueueEffect
    BY <1>15, SameStores, SameQueue DEF WriteFailed
  <2>3. RowEffect
    BY <1>15, SavedStatus DEF WriteFailed, Stored
  <2>. QED BY <2>1, <2>2, <2>3 DEF RunEffect
<1>16. CASE LoadDocument(w)
  <2>1. OthersWait(w)
    BY <1>16 DEF LoadDocument, OthersWait, requests, Goto, End, Idle
  <2>2. StoresEffect /\ RowEffect /\ QueueEffect
    BY <1>16, SameStores, SameRow, SameQueue DEF LoadDocument
  <2>. QED BY <2>1, <2>2 DEF RunEffect
<1>17. CASE CheckLocal(w)
  <2>1. OthersWait(w)
    BY <1>17 DEF CheckLocal, OthersWait, requests, Goto
  <2>2. StoresEffect /\ RowEffect /\ QueueEffect
    BY <1>17, SameStores, SameRow, SameQueue DEF CheckLocal
  <2>. QED BY <2>1, <2>2 DEF RunEffect
<1>18. CASE RestoreMissing(w)
  <2>1. OthersWait(w)
    BY <1>18 DEF RestoreMissing, Restore, OthersWait, requests, RaiseFinally, Goto
  <2>2. RowEffect /\ QueueEffect
    BY <1>18, SameRow, SameQueue DEF RestoreMissing, Restore
  <2>3. StoresEffect
    BY <1>18 DEF RestoreMissing, Restore, StoresEffect, StoredHasObject, Doc, Typed, TypeOK
  <2>. QED BY <2>1, <2>2, <2>3 DEF RunEffect
<1>19. CASE MarkExtracting(w)
  <2>1. OthersWait(w)
    BY <1>19 DEF MarkExtracting, OthersWait, requests, GotoRefreshed
  <2>2. StoresEffect /\ QueueEffect
    BY <1>19, SameStores, SameQueue DEF MarkExtracting
  <2>3. RowEffect
    BY <1>19, SavedStatus DEF MarkExtracting, RunFacts, LoadedPcs, Doc
  <2>. QED BY <2>1, <2>2, <2>3 DEF RunEffect
<1>20. CASE Extract(w)
  <2>1. OthersWait(w)
    BY <1>20 DEF Extract, OthersWait, requests, Extracted, Goto
  <2>2. StoresEffect /\ RowEffect /\ QueueEffect
    BY <1>20, SameStores, SameRow, SameQueue DEF Extract
  <2>. QED BY <2>1, <2>2 DEF RunEffect
<1>21. CASE RestoreAgain(w)
  <2>1. OthersWait(w)
    BY <1>21 DEF RestoreAgain, Restore, OthersWait, requests, RaiseFinally, Goto
  <2>2. RowEffect /\ QueueEffect
    BY <1>21, SameRow, SameQueue DEF RestoreAgain, Restore
  <2>3. StoresEffect
    BY <1>21 DEF RestoreAgain, Restore, StoresEffect, StoredHasObject, Doc, Typed, TypeOK
  <2>. QED BY <2>1, <2>2, <2>3 DEF RunEffect
<1>22. CASE ExtractAgain(w)
  <2>1. OthersWait(w)
    BY <1>22 DEF ExtractAgain, OthersWait, requests, Extracted, RaiseFinally
  <2>2. StoresEffect /\ RowEffect /\ QueueEffect
    BY <1>22, SameStores, SameRow, SameQueue DEF ExtractAgain
  <2>. QED BY <2>1, <2>2 DEF RunEffect
<1>23. CASE StoreText(w)
  <2>1. OthersWait(w)
    BY <1>23 DEF StoreText, OthersWait, requests
  <2>2. RowEffect /\ QueueEffect
    BY <1>23, SameRow, SameQueue DEF StoreText
  <2>3. StoresEffect
    BY <1>23 DEF StoreText, StoresEffect, Doc, RunFacts, Typed, TypeOK
  <2>. QED BY <2>1, <2>2, <2>3 DEF RunEffect
<1>24. CASE WriteExtracted(w)
  <2>1. OthersWait(w)
    BY <1>24 DEF WriteExtracted, OthersWait, requests, Acknowledged, Escapes
  <2>2. StoresEffect /\ QueueEffect
    BY <1>24, SameStores, SameQueue DEF WriteExtracted
  <2>3. RowEffect
    BY <1>24, SavedStatus DEF WriteExtracted, RunFacts, LoadedPcs, Doc
  <2>. QED BY <2>1, <2>2, <2>3 DEF RunEffect
<1>25. CASE UnlinkLocal(w)
  <2>1. OthersWait(w)
    BY <1>25 DEF UnlinkLocal, OthersWait, requests, Goto
  <2>2. RowEffect /\ QueueEffect
    BY <1>25, SameRow, SameQueue DEF UnlinkLocal
  <2>3. StoresEffect
    BY <1>25, RemovedFile DEF UnlinkLocal
  <2>. QED BY <2>1, <2>2, <2>3 DEF RunEffect
<1>26. CASE CreateAnalysis(w)
  <2>1. OthersWait(w)
    BY <1>26 DEF CreateAnalysis, OthersWait, requests, Goto
  <2>2. StoresEffect /\ RowEffect /\ QueueEffect
    BY <1>26, SameStores, SameRow, SameQueue DEF CreateAnalysis
  <2>. QED BY <2>1, <2>2 DEF RunEffect
<1>27. CASE PublishEvent(w)
  <2>1. OthersWait(w)
    BY <1>27 DEF PublishEvent, OthersWait, requests, Goto, End, Idle
  <2>2. StoresEffect /\ RowEffect /\ QueueEffect
    BY <1>27, SameStores, SameRow, SameQueue DEF PublishEvent
  <2>. QED BY <2>1, <2>2 DEF RunEffect
<1>28. CASE OnFailure(w)
  <2>1. OthersWait(w)
    BY <1>28 DEF OnFailure, OthersWait, requests, Goto
  <2>2. StoresEffect /\ RowEffect /\ QueueEffect
    BY <1>28, SameStores, SameRow, SameQueue DEF OnFailure
  <2>. QED BY <2>1, <2>2 DEF RunEffect
<1>29. CASE Recheck(w)
  <2>1. OthersWait(w)
    BY <1>29 DEF Recheck, OthersWait, requests, Goto
  <2>2. StoresEffect /\ RowEffect /\ QueueEffect
    BY <1>29, SameStores, SameRow, SameQueue DEF Recheck
  <2>. QED BY <2>1, <2>2 DEF RunEffect
<1>30. CASE WriteFailure(w)
  <2>1. OthersWait(w)
    BY <1>30 DEF WriteFailure, OthersWait, requests
  <2>2. StoresEffect /\ QueueEffect
    BY <1>30, SameStores, SameQueue DEF WriteFailure
  <2>3. RowEffect
    BY <1>30, SavedStatus DEF WriteFailure, Stored
  <2>. QED BY <2>1, <2>2, <2>3 DEF RunEffect
<1>31. CASE MarkAnalysisFailed(w)
  <2>1. OthersWait(w)
    BY <1>31 DEF MarkAnalysisFailed, OthersWait, requests, Goto
  <2>2. StoresEffect /\ RowEffect /\ QueueEffect
    BY <1>31, SameStores, SameRow, SameQueue DEF MarkAnalysisFailed
  <2>. QED BY <2>1, <2>2 DEF RunEffect
<1>32. CASE AccessFails(w)
  <2>1. OthersWait(w)
    BY <1>32 DEF AccessFails, OthersWait, requests, Escapes
  <2>2. StoresEffect /\ RowEffect /\ QueueEffect
    BY <1>32, SameStores, SameRow, SameQueue DEF AccessFails
  <2>. QED BY <2>1, <2>2 DEF RunEffect
<1>33. CASE HandlerFails(w)
  <2>1. OthersWait(w)
    BY <1>33 DEF HandlerFails, OthersWait, requests
  <2>2. StoresEffect /\ RowEffect /\ QueueEffect
    BY <1>33, SameStores, SameRow, SameQueue DEF HandlerFails
  <2>. QED BY <2>1, <2>2 DEF RunEffect
<1>34. CASE RunLost(w)
  <2>1. OthersWait(w)
    BY <1>34 DEF RunLost, OthersWait, requests, End, Idle
  <2>2. StoresEffect /\ RowEffect /\ QueueEffect
    BY <1>34, SameStores, SameRow, SameQueue DEF RunLost
  <2>. QED BY <2>1, <2>2 DEF RunEffect
<1>. QED BY <1>1, <1>2, <1>3, <1>4, <1>5, <1>6, <1>7, <1>8, <1>9, <1>10, <1>11, <1>12,
            <1>13, <1>14, <1>15, <1>16, <1>17, <1>18, <1>19, <1>20, <1>21, <1>22, <1>23, <1>24,
            <1>25, <1>26, <1>27, <1>28, <1>29, <1>30, <1>31, <1>32, <1>33, <1>34
     DEF RunStep, RunFault

LEMMA WorkerFacts ==
  ASSUME Typed, DataInv, NEW w \in Workers, RunStep(w) \/ RunFault(w)
  PROVE  RunFacts(run[w])'
<1>. /\ run \in [Workers -> Runs] /\ run[w] \in Runs
     /\ run[w].pc # "idle" => Doc(w) \in Docs
     /\ RunFacts(run[w]) /\ ContentIsOwn /\ StoredHasObject
     /\ content' = content /\ up' = up
  BY WorkerEffect DEF Typed, TypeOK, RunsHaveDocuments, DataInv, RunsFacts, Doc, RunEffect, OthersWait
<1>. USE DEF At, Doc, Runs, RunFacts, TaskFacts, Started, Clean, ScanPcs, UploadPcs, LoadedPcs,
             row, stores
<1>1. CASE Raise(w)
  BY <1>1 DEF Raise, Goto, End, Idle, FailurePc
<1>2. CASE Cleanup(w)
  BY <1>2 DEF Cleanup, End, Idle
<1>3. CASE CheckCancelled(w)
  BY <1>3 DEF CheckCancelled, Goto
<1>4. CASE CheckPath(w)
  BY <1>4 DEF CheckPath, Goto, AfterPathCheck, Tasks
<1>5. CASE WriteMissing(w)
  BY <1>5 DEF WriteMissing, End, Idle, Acknowledged, Escapes
<1>6. CASE MarkScanning(w)
  BY <1>6 DEF MarkScanning, Goto
<1>7. CASE Scan(w)
  BY <1>7 DEF Scan, Goto, Verdict, Unavailable, WithoutScan, ContentIsOwn
<1>8. CASE WriteInfected(w)
  BY <1>8 DEF WriteInfected, Goto, Acknowledged, Escapes
<1>9. CASE PublishUpload(w)
  BY <1>9 DEF PublishUpload, Publish, Goto, End, Idle
<1>10. CASE MarkUploading(w)
  BY <1>10 DEF MarkUploading, Goto
<1>11. CASE CheckObject(w)
  BY <1>11 DEF CheckObject, Goto, AfterHead
<1>12. CASE PutObject(w)
  BY <1>12 DEF PutObject, Goto, RaiseFinally, FailurePc, Typed, TypeOK
<1>13. CASE WriteUploaded(w)
  BY <1>13 DEF WriteUploaded, Goto, Typed, TypeOK
<1>14. CASE PublishExtract(w)
  BY <1>14 DEF PublishExtract, Publish, Goto, End, Idle
<1>15. CASE WriteFailed(w)
  BY <1>15 DEF WriteFailed, Goto, Acknowledged, Escapes
<1>16. CASE LoadDocument(w)
  BY <1>16 DEF LoadDocument, Goto, End, Idle, StoredHasObject
<1>17. CASE CheckLocal(w)
  BY <1>17 DEF CheckLocal, Goto
<1>18. CASE RestoreMissing(w)
  BY <1>18 DEF RestoreMissing, Restore, RaiseFinally, Goto, FailurePc
<1>19. CASE MarkExtracting(w)
  BY <1>19 DEF MarkExtracting, GotoRefreshed
<1>20. CASE Extract(w)
  BY <1>20, ContentsAssumption DEF Extract, Extracted, Goto, ContentIsOwn
<1>21. CASE RestoreAgain(w)
  BY <1>21 DEF RestoreAgain, Restore, RaiseFinally, Goto, FailurePc
<1>22. CASE ExtractAgain(w)
  BY <1>22, ContentsAssumption DEF ExtractAgain, Extracted, RaiseFinally, FailurePc, ContentIsOwn
<1>23. CASE StoreText(w)
  BY <1>23 DEF StoreText
<1>24. CASE WriteExtracted(w)
  BY <1>24 DEF WriteExtracted, Acknowledged, Escapes
<1>25. CASE UnlinkLocal(w)
  BY <1>25 DEF UnlinkLocal, Goto
<1>26. CASE CreateAnalysis(w)
  BY <1>26 DEF CreateAnalysis, Goto
<1>27. CASE PublishEvent(w)
  BY <1>27 DEF PublishEvent, Goto, End, Idle
<1>28. CASE OnFailure(w)
  BY <1>28 DEF OnFailure, Goto
<1>29. CASE Recheck(w)
  BY <1>29 DEF Recheck, Goto
<1>30. CASE WriteFailure(w)
  BY <1>30 DEF WriteFailure
<1>31. CASE MarkAnalysisFailed(w)
  BY <1>31 DEF MarkAnalysisFailed, Goto
<1>32. CASE AccessFails(w)
  BY <1>32 DEF AccessFails, RaisingPcs, Escapes
<1>33. CASE HandlerFails(w)
  BY <1>33 DEF HandlerFails
<1>34. CASE RunLost(w)
  BY <1>34 DEF RunLost, End, Idle
<1>. QED BY <1>1, <1>2, <1>3, <1>4, <1>5, <1>6, <1>7, <1>8, <1>9, <1>10, <1>11, <1>12,
            <1>13, <1>14, <1>15, <1>16, <1>17, <1>18, <1>19, <1>20, <1>21, <1>22, <1>23, <1>24,
            <1>25, <1>26, <1>27, <1>28, <1>29, <1>30, <1>31, <1>32, <1>33, <1>34
     DEF RunStep, RunFault

LEMMA TakeKeepsData ==
  ASSUME Typed, DataInv, NEW w \in Workers, NEW m \in Messages, Take(w, m)
  PROVE  RunEffect(w) /\ RunFacts(run[w])'
<1>1. OthersWait(w)
  BY DEF Take, OthersWait, requests
<1>2. StoresEffect /\ RowEffect
  BY SameStores, SameRow DEF Take
<1>3. QueueEffect
  BY DEF Take, QueueEffect, Typed, TypeOK
<1>4. RunFacts(run[w])'
  <2>1. m.task \in Tasks /\ TaskFacts(m.task, m.doc)
    BY DEF Take, DataInv, QueueFacts, Messages
  <2>. QED BY <1>1, <2>1 DEF Take, OthersWait, RunFacts, TaskFacts, Started, Clean, Typed, TypeOK,
                             FirstPc, Tasks, ScanPcs, UploadPcs, LoadedPcs
<1>. QED BY <1>1, <1>2, <1>3, <1>4 DEF RunEffect

-----------------------------------------------------------------------------
(* The steps of the requests.                                               *)

\* All a step of a request for document d may do.
RequestEffect(d) ==
  /\ UNCHANGED <<run, content, object>>
  /\ \A e \in Docs :
       /\ temp'[e] \in {None, temp[e]}
       /\ text'[e] \in {None, text[e], content[e]}
       /\ e # d => up'[e] = up[e] /\ key'[e] = key[e]
       /\ status'[e] \in Stored => status[e] \in Stored \/ key'[e] # None
  /\ Started(d) => /\ Started(d)' /\ key'[d] = key[d]
                   /\ up[d].path = "full" => up'[d].path = "full"
  /\ key'[d] # None => content[d] # None /\ object[key'[d]] = content[d]
  /\ QueueEffect

LEMMA RequestKeepsData ==
  ASSUME Typed, DataInv, NEW d \in Docs, RequestEffect(d), RequestFacts(d)'
  PROVE  DataInv'
<1>0. \A e \in Docs : key[e] # None => key'[e] = key[e]
  BY DEF RequestEffect, DataInv, RequestsFacts, RequestFacts
<1>1. \A task, e \in Docs : TaskFacts(task, e) => TaskFacts(task, e)'
  BY DEF RequestEffect, TaskFacts, Started, Clean
<1>2. ContentIsOwn'
  BY DEF RequestEffect, DataInv, ContentIsOwn
<1>3. StoredHasObject'
  BY <1>0 DEF RequestEffect, DataInv, StoredHasObject, Stored
<1>4. QueueFacts'
  <2>1. \A m \in Messages : m.doc \in Docs
    BY DEF Messages
  <2>. QED BY <1>1, <2>1 DEF RequestEffect, QueueEffect, DataInv, QueueFacts, TaskFacts, Started, Clean
<1>5. RunsFacts'
  <2>. SUFFICES ASSUME NEW w \in Workers, run[w].pc # "idle"
                PROVE  RunFacts(run[w])'
    BY DEF RunsFacts, RunFacts, RequestEffect
  <2>1. run' = run /\ RunFacts(run[w]) /\ run[w].doc \in Docs
    BY DEF RequestEffect, DataInv, RunsFacts, Typed, RunsHaveDocuments
  <2>. QED BY <1>0, <2>1 DEF RequestEffect, RunFacts, TaskFacts, Started, Clean
<1>6. RequestsFacts'
  <2>. SUFFICES ASSUME NEW e \in Docs, e # d
                PROVE  RequestFacts(e)'
    BY DEF RequestsFacts
  <2>1. RequestFacts(e) /\ up'[e] = up[e] /\ key'[e] = key[e] /\ content' = content /\ object' = object
    BY DEF RequestEffect, DataInv, RequestsFacts
  <2>2. up[e].candidates \subseteq Docs
    BY DEF Typed, TypeOK, Uploads
  <2>. QED BY <1>0, <2>1, <2>2 DEF RequestFacts, Started
<1>7. AntivirusEnabled /\ FailOnUnavailable => InfectedNeverStored'
  BY DEF RequestEffect, DataInv, InfectedNeverStored
<1>. QED BY <1>2, <1>3, <1>4, <1>5, <1>6, <1>7 DEF DataInv

\* A step that creates no row leaves the row's key, and much else, alone.
LEMMA QuietRequest ==
  ASSUME Typed, DataInv, NEW d \in Docs, UNCHANGED <<run, content, object, key>>,
         StoresEffect, QueueEffect,
         \A e \in Docs : temp'[e] \in {None, temp[e]},
         \A e \in Docs : e # d => up'[e] = up[e],
         Started(d) => Started(d)' /\ (up[d].path = "full" => up'[d].path = "full"),
         \A e \in Docs : status'[e] \in Stored => status[e] \in Stored \/ key[e] # None
  PROVE  RequestEffect(d)
  BY DEF RequestEffect, StoresEffect, DataInv, StoredHasObject

LEMMA CreateKeepsData ==
  ASSUME Typed, DataInv, NEW d \in Docs, NEW pc \in {"upsert", "send", "remove"},
         UpAt(d, "create"), CreateRow(d), UpGoto(d, pc), pc = "upsert" => up[d].path = "analysis_only",
         UNCHANGED <<run, content, object, temp, text, queue>>
  PROVE  RequestEffect(d) /\ RequestFacts(d)'
<1>. up \in [Docs -> Uploads] /\ up[d] \in Uploads /\ RequestFacts(d)
  BY DEF Typed, TypeOK, DataInv, RequestsFacts
<1>1. up' = [up EXCEPT ![d].pc = pc] /\ ~ Started(d) /\ Started(d)' /\ up'[d].path = up[d].path
  BY DEF UpAt, UpGoto, Started
<1>2. key' = [key EXCEPT ![d] = up[d].key] /\ key'[d] = up[d].key
  BY DEF CreateRow, Typed, TypeOK
<1>3. status'[d] \in Stored => key'[d] # None
  BY <1>2 DEF CreateRow, UpAt, RequestFacts, InitialStatus, Stored, Typed, TypeOK
<1>4. \A e \in Docs : e # d => status'[e] = status[e] /\ key'[e] = key[e] /\ up'[e] = up[e]
  BY <1>1, <1>2 DEF CreateRow, Typed, TypeOK
<1>5. key'[d] # None => content[d] # None /\ object[key'[d]] = content[d]
  BY <1>2 DEF UpAt, RequestFacts
<1>6. RequestEffect(d)
  <2>1. QueueEffect
    BY SameQueue
  <2>. QED BY <1>1, <1>3, <1>4, <1>5, <2>1 DEF RequestEffect
<1>7. RequestFacts(d)'
  <2>1. \A e \in up[d].candidates : key'[e] # None
    <3>1. up[d].candidates \subseteq Docs
      BY DEF Uploads
    <3>2. \A e \in up[d].candidates : e # d
      BY <1>1 DEF RequestFacts
    <3>. QED BY <1>4, <3>1, <3>2 DEF RequestFacts
  <2>2. up[d].path = "full" => key'[d] = None
    BY <1>2 DEF UpAt, RequestFacts
  <2>3. pc = "upsert" => key'[d] # None
    BY <1>2 DEF UpAt, RequestFacts
  <2>4. /\ up'[d].pc = pc /\ up'[d].candidates = up[d].candidates
        /\ up'[d].raw = up[d].raw /\ up'[d].key = up[d].key
    BY <1>1 DEF Uploads
  <2>. QED BY <1>1, <2>1, <2>2, <2>3, <2>4 DEF RequestFacts
<1>. QED BY <1>6, <1>7

\* The PreparedUpload of a duplicate e.
LEMMA ChosenFacts ==
  ASSUME Typed, DataInv, NEW d \in Docs, NEW e \in Docs, UpAt(d, "texts"),
         key[e] # None, content[e] = content[d],
         NEW path \in {"analysis_only", "extraction_only"}, NEW raw \in {None, content[d]},
         ChoosePath(d, path, e, raw), UNCHANGED <<content, object, key>>
  PROVE  RequestFacts(d)'
<1>. up \in [Docs -> Uploads] /\ RequestFacts(d)
  BY DEF Typed, TypeOK, DataInv, RequestsFacts
<1>1. /\ up'[d].pc = "create" /\ up'[d].path = path /\ up'[d].candidates = {}
      /\ up'[d].key = key[e] /\ up'[d].raw = raw
  BY DEF ChoosePath, Uploads
<1>2. content[d] # None /\ object[key[e]] = content[d]
  BY DEF DataInv, StoredHasObject
<1>3. key[d] = None
  BY DEF RequestFacts, Started, UpAt
<1>. QED BY <1>1, <1>2, <1>3 DEF RequestFacts, Started

LEMMA UploadKeepsData ==
  ASSUME Typed, DataInv, NEW d \in Docs, UploadStep(d)
  PROVE  RequestEffect(d) /\ RequestFacts(d)'
<1>. /\ up \in [Docs -> Uploads] /\ up[d] \in Uploads
     /\ RequestFacts(d) /\ ContentIsOwn /\ StoredHasObject
  BY DEF Typed, TypeOK, DataInv, RequestsFacts
<1>1. CASE LookUpDuplicates(d)
  <2>1. UNCHANGED <<run, content, object, key>> /\ \A e \in Docs : e # d => up'[e] = up[e]
    BY <1>1 DEF LookUpDuplicates, row, stores
  <2>2. StoresEffect /\ \A e \in Docs : temp'[e] \in {None, temp[e]}
    BY <1>1, SameStores DEF LookUpDuplicates, stores
  <2>3. QueueEffect
    BY <1>1, SameQueue DEF LookUpDuplicates
  <2>4. Started(d) => Started(d)' /\ (up[d].path = "full" => up'[d].path = "full")
    BY <1>1 DEF LookUpDuplicates, Started, UpAt, RequestFacts, Typed, TypeOK
  <2>5. status' = status
    BY <1>1 DEF LookUpDuplicates, row
  <2>6. RequestFacts(d)'
    BY <1>1, <2>1 DEF LookUpDuplicates, ReuseCandidates, RequestFacts, Started, UpAt, Typed, TypeOK
  <2>. QED BY <2>1, <2>2, <2>3, <2>4, <2>5, <2>6, QuietRequest
<1>2. CASE LookUpTexts(d)
  <2>1. UNCHANGED <<run, content, object, key>> /\ \A e \in Docs : e # d => up'[e] = up[e]
    BY <1>2 DEF LookUpTexts, ChoosePath, row, stores
  <2>2. StoresEffect /\ \A e \in Docs : temp'[e] \in {None, temp[e]}
    BY <1>2, SameStores DEF LookUpTexts, stores
  <2>3. QueueEffect
    BY <1>2, SameQueue DEF LookUpTexts
  <2>4. Started(d) => Started(d)' /\ (up[d].path = "full" => up'[d].path = "full")
    BY <1>2 DEF LookUpTexts, ChoosePath, Started, UpAt, RequestFacts, Typed, TypeOK
  <2>5. status' = status
    BY <1>2 DEF LookUpTexts, row
  <2>6. RequestFacts(d)'
    <3>1. ASSUME NEW e \in TextSources(d), ChoosePath(d, "analysis_only", e, text[e])
          PROVE  RequestFacts(d)'
      <4>1. e \in Docs /\ key[e] # None /\ content[e] = content[d] /\ text[e] # None
        BY <3>1, ContentsAssumption DEF TextSources, RequestFacts, Typed, TypeOK, Uploads
      <4>. QED BY <1>2, <2>1, <3>1, <4>1, ChosenFacts DEF LookUpTexts, ContentIsOwn
    <3>2. ASSUME NEW e \in up[d].candidates, ChoosePath(d, "extraction_only", e, None)
          PROVE  RequestFacts(d)'
      <4>1. e \in Docs /\ key[e] # None /\ content[e] = content[d]
        BY <3>2 DEF RequestFacts, Typed, TypeOK, Uploads
      <4>. QED BY <1>2, <2>1, <3>2, <4>1, ChosenFacts DEF LookUpTexts
    <3>. QED BY <1>2, <3>1, <3>2 DEF LookUpTexts
  <2>. QED BY <2>1, <2>2, <2>3, <2>4, <2>5, <2>6, QuietRequest
<1>3. CASE SendToQueue(d)
  <2>1. UNCHANGED <<run, content, object, key>> /\ \A e \in Docs : e # d => up'[e] = up[e]
    BY <1>3 DEF SendToQueue, UpGoto, row, stores
  <2>2. StoresEffect /\ \A e \in Docs : temp'[e] \in {None, temp[e]}
    BY <1>3, SameStores DEF SendToQueue, stores
  <2>3. QueueEffect
    <3>1. FirstAttempt(FirstTask(up[d].path), d) \in Messages
      BY BoundsAssumption DEF FirstAttempt, FirstTask, Messages, Tasks
    <3>2. TaskFacts(FirstTask(up[d].path), d)
      BY <1>3 DEF SendToQueue, UpAt, TaskFacts, Started, Clean, FirstTask
    <3>. QED BY <1>3, <3>1, <3>2, Enqueued DEF SendToQueue, FirstAttempt
  <2>4. Started(d) => Started(d)' /\ (up[d].path = "full" => up'[d].path = "full")
    BY <1>3 DEF SendToQueue, UpGoto, Started, UpAt, RequestFacts, Typed, TypeOK
  <2>5. status' = status
    BY <1>3 DEF SendToQueue, row
  <2>6. RequestFacts(d)'
    BY <1>3, <2>1 DEF SendToQueue, UpGoto, RequestFacts, Started, UpAt, Typed, TypeOK
  <2>. QED BY <2>1, <2>2, <2>3, <2>4, <2>5, <2>6, QuietRequest
<1>4. CASE CopyText(d)
  <2>1. UNCHANGED <<run, content, object, key>> /\ \A e \in Docs : e # d => up'[e] = up[e]
    BY <1>4 DEF CopyText, UpGoto, row, stores
  <2>2. StoresEffect /\ \A e \in Docs : temp'[e] \in {None, temp[e]}
    BY <1>4 DEF CopyText, StoresEffect, UpAt, RequestFacts, Typed, TypeOK
  <2>3. QueueEffect
    BY <1>4, SameQueue DEF CopyText
  <2>7. PICK pc \in {"unlink", "degrade"} : up' = [up EXCEPT ![d].pc = pc]
    BY <1>4 DEF CopyText, UpGoto
  <2>4. Started(d) => Started(d)' /\ (up[d].path = "full" => up'[d].path = "full")
    BY <2>7 DEF Started, Typed, TypeOK
  <2>5. status' = status
    BY <1>4 DEF CopyText, row
  <2>6. RequestFacts(d)'
    BY <1>4, <2>1, <2>7 DEF CopyText, RequestFacts, Started, UpAt, Typed, TypeOK
  <2>. QED BY <2>1, <2>2, <2>3, <2>4, <2>5, <2>6, QuietRequest
<1>5. CASE Degrade(d)
  <2>1. UNCHANGED <<run, content, object, key>> /\ \A e \in Docs : e # d => up'[e] = up[e]
    BY <1>5 DEF Degrade, row, stores
  <2>2. StoresEffect /\ \A e \in Docs : temp'[e] \in {None, temp[e]}
    BY <1>5, SameStores DEF Degrade, stores
  <2>3. QueueEffect
    BY <1>5, SameQueue DEF Degrade
  <2>4. Started(d) => Started(d)' /\ (up[d].path = "full" => up'[d].path = "full")
    BY <1>5 DEF Degrade, Started, UpAt, RequestFacts, Typed, TypeOK
  <2>5. \A e \in Docs : status'[e] \in Stored => status[e] \in Stored \/ key[e] # None
    BY <1>5 DEF Degrade, UpAt, SaveStatus, RequestFacts, Typed, TypeOK
  <2>6. RequestFacts(d)'
    BY <1>5, <2>1 DEF Degrade, RequestFacts, Started, UpAt, Typed, TypeOK
  <2>. QED BY <2>1, <2>2, <2>3, <2>4, <2>5, <2>6, QuietRequest
<1>6. CASE RemoveAfterCopy(d)
  <2>1. UNCHANGED <<run, content, object, key>> /\ \A e \in Docs : e # d => up'[e] = up[e]
    BY <1>6 DEF RemoveAfterCopy, UpGoto, row, stores
  <2>2. StoresEffect /\ \A e \in Docs : temp'[e] \in {None, temp[e]}
    BY <1>6, RemovedFile DEF RemoveAfterCopy, RemoveFile, Typed, TypeOK
  <2>3. QueueEffect
    BY <1>6, SameQueue DEF RemoveAfterCopy
  <2>4. Started(d) => Started(d)' /\ (up[d].path = "full" => up'[d].path = "full")
    BY <1>6 DEF RemoveAfterCopy, UpGoto, Started, UpAt, RequestFacts, Typed, TypeOK
  <2>5. status' = status
    BY <1>6 DEF RemoveAfterCopy, row
  <2>6. RequestFacts(d)'
    BY <1>6, <2>1 DEF RemoveAfterCopy, UpGoto, RequestFacts, Started, UpAt, Typed, TypeOK
  <2>. QED BY <2>1, <2>2, <2>3, <2>4, <2>5, <2>6, QuietRequest
<1>7. CASE StartAnalysis(d)
  <2>1. UNCHANGED <<run, content, object, key>> /\ \A e \in Docs : e # d => up'[e] = up[e]
    BY <1>7 DEF StartAnalysis, UpGoto, row, stores
  <2>2. StoresEffect /\ \A e \in Docs : temp'[e] \in {None, temp[e]}
    BY <1>7, SameStores DEF StartAnalysis, stores
  <2>3. QueueEffect
    BY <1>7, SameQueue DEF StartAnalysis
  <2>4. Started(d) => Started(d)' /\ (up[d].path = "full" => up'[d].path = "full")
    BY <1>7 DEF StartAnalysis, UpGoto, Started, UpAt, RequestFacts, Typed, TypeOK
  <2>5. status' = status
    BY <1>7 DEF StartAnalysis, row
  <2>6. RequestFacts(d)'
    BY <1>7, <2>1 DEF StartAnalysis, UpGoto, RequestFacts, Started, UpAt, Typed, TypeOK
  <2>. QED BY <2>1, <2>2, <2>3, <2>4, <2>5, <2>6, QuietRequest
<1>8. CASE SendEvent(d)
  <2>1. UNCHANGED <<run, content, object, key>> /\ \A e \in Docs : e # d => up'[e] = up[e]
    BY <1>8 DEF SendEvent, UpGoto, row, stores
  <2>2. StoresEffect /\ \A e \in Docs : temp'[e] \in {None, temp[e]}
    BY <1>8, SameStores DEF SendEvent, stores
  <2>3. QueueEffect
    BY <1>8, SameQueue DEF SendEvent
  <2>4. Started(d) => Started(d)' /\ (up[d].path = "full" => up'[d].path = "full")
    BY <1>8 DEF SendEvent, UpGoto, Started, UpAt, RequestFacts, Typed, TypeOK
  <2>5. status' = status
    BY <1>8 DEF SendEvent, row
  <2>6. RequestFacts(d)'
    BY <1>8, <2>1 DEF SendEvent, UpGoto, RequestFacts, Started, UpAt, Typed, TypeOK
  <2>. QED BY <2>1, <2>2, <2>3, <2>4, <2>5, <2>6, QuietRequest
<1>9. CASE UndoDispatch(d)
  <2>1. UNCHANGED <<run, content, object, key>> /\ \A e \in Docs : e # d => up'[e] = up[e]
    BY <1>9 DEF UndoDispatch, UpGoto, row, stores
  <2>2. StoresEffect /\ \A e \in Docs : temp'[e] \in {None, temp[e]}
    BY <1>9, SameStores DEF UndoDispatch, stores
  <2>3. QueueEffect
    BY <1>9, SameQueue DEF UndoDispatch
  <2>4. Started(d) => Started(d)' /\ (up[d].path = "full" => up'[d].path = "full")
    BY <1>9 DEF UndoDispatch, UpGoto, Started, UpAt, RequestFacts, Typed, TypeOK
  <2>5. status' = status
    BY <1>9 DEF UndoDispatch, row
  <2>6. RequestFacts(d)'
    BY <1>9, <2>1 DEF UndoDispatch, UpGoto, RequestFacts, Started, UpAt, Typed, TypeOK
  <2>. QED BY <2>1, <2>2, <2>3, <2>4, <2>5, <2>6, QuietRequest
<1>10. CASE TryMarkFailed(d)
  <2>1. UNCHANGED <<run, content, object, key>> /\ \A e \in Docs : e # d => up'[e] = up[e]
    BY <1>10 DEF TryMarkFailed, UpGoto, row, stores
  <2>2. StoresEffect /\ \A e \in Docs : temp'[e] \in {None, temp[e]}
    BY <1>10, SameStores DEF TryMarkFailed, stores
  <2>3. QueueEffect
    BY <1>10, SameQueue DEF TryMarkFailed
  <2>4. Started(d) => Started(d)' /\ (up[d].path = "full" => up'[d].path = "full")
    BY <1>10 DEF TryMarkFailed, UpGoto, Started, UpAt, RequestFacts, Typed, TypeOK
  <2>5. \A e \in Docs : status'[e] \in Stored => status[e] \in Stored
    BY <1>10 DEF TryMarkFailed, SaveStatus, Written, Stored, Typed, TypeOK
  <2>6. RequestFacts(d)'
    BY <1>10, <2>1 DEF TryMarkFailed, UpGoto, RequestFacts, Started, UpAt, Typed, TypeOK
  <2>. QED BY <2>1, <2>2, <2>3, <2>4, <2>5, <2>6, QuietRequest
<1>11. CASE RemoveFromTemp(d)
  <2>1. UNCHANGED <<run, content, object, key>> /\ \A e \in Docs : e # d => up'[e] = up[e]
    BY <1>11 DEF RemoveFromTemp, UpGoto, row, stores
  <2>2. StoresEffect /\ \A e \in Docs : temp'[e] \in {None, temp[e]}
    BY <1>11, RemovedFile DEF RemoveFromTemp, RemoveFile, Typed, TypeOK
  <2>3. QueueEffect
    BY <1>11, SameQueue DEF RemoveFromTemp
  <2>4. Started(d) => Started(d)' /\ (up[d].path = "full" => up'[d].path = "full")
    BY <1>11 DEF RemoveFromTemp, UpGoto, Started, UpAt, RequestFacts, Typed, TypeOK
  <2>5. status' = status
    BY <1>11 DEF RemoveFromTemp, row
  <2>6. RequestFacts(d)'
    BY <1>11, <2>1 DEF RemoveFromTemp, UpGoto, RequestFacts, Started, UpAt, Typed, TypeOK
  <2>. QED BY <2>1, <2>2, <2>3, <2>4, <2>5, <2>6, QuietRequest
<1>12. CASE CreateDocument(d)
  <2>1. /\ CreateRow(d) /\ UNCHANGED <<run, content, object, temp, text, queue>> /\ UpAt(d, "create")
        /\ \E pc \in {"upsert", "send", "remove"} :
             UpGoto(d, pc) /\ (pc = "upsert" => up[d].path = "analysis_only")
    BY <1>12 DEF CreateDocument, stores
  <2>. QED BY <2>1, CreateKeepsData
<1>. QED BY <1>1, <1>2, <1>3, <1>4, <1>5, <1>6, <1>7, <1>8, <1>9, <1>10, <1>11, <1>12 DEF UploadStep

LEMMA RequestFaultKeepsData ==
  ASSUME Typed, DataInv, NEW d \in Docs, RequestFault(d)
  PROVE  RequestEffect(d) /\ RequestFacts(d)'
<1>. /\ up \in [Docs -> Uploads] /\ up[d] \in Uploads
     /\ RequestFacts(d) /\ ContentIsOwn /\ StoredHasObject
  BY DEF Typed, TypeOK, DataInv, RequestsFacts
<1>1. CASE UploadFails(d)
  <2>1. UNCHANGED <<run, content, object, key>> /\ \A e \in Docs : e # d => up'[e] = up[e]
    BY <1>1 DEF UploadFails, UpGoto, ErrorPc, row, stores
  <2>2. StoresEffect /\ \A e \in Docs : temp'[e] \in {None, temp[e]}
    BY <1>1, SameStores DEF UploadFails, stores
  <2>3. QueueEffect
    BY <1>1, SameQueue DEF UploadFails
  <2>4. Started(d) => Started(d)' /\ (up[d].path = "full" => up'[d].path = "full")
    BY <1>1 DEF UploadFails, UpGoto, ErrorPc, Started, UpAt, RequestFacts, Typed, TypeOK
  <2>5. status' = status
    BY <1>1 DEF UploadFails, row
  <2>6. RequestFacts(d)'
    BY <1>1, <2>1 DEF UploadFails, UpGoto, ErrorPc, RequestFacts, Started, UpAt, Typed, TypeOK
  <2>. QED BY <2>1, <2>2, <2>3, <2>4, <2>5, <2>6, QuietRequest
<1>2. CASE UploadLost(d)
  <2>1. UNCHANGED <<run, content, object, key>> /\ \A e \in Docs : e # d => up'[e] = up[e]
    BY <1>2 DEF UploadLost, UpGoto, row, stores
  <2>2. StoresEffect /\ \A e \in Docs : temp'[e] \in {None, temp[e]}
    BY <1>2, SameStores DEF UploadLost, stores
  <2>3. QueueEffect
    BY <1>2, SameQueue DEF UploadLost
  <2>4. Started(d) => Started(d)' /\ (up[d].path = "full" => up'[d].path = "full")
    BY <1>2 DEF UploadLost, UpGoto, Started, UpAt, RequestFacts, Typed, TypeOK
  <2>5. status' = status
    BY <1>2 DEF UploadLost, row
  <2>6. RequestFacts(d)'
    BY <1>2, <2>1 DEF UploadLost, UpGoto, RequestFacts, Started, UpAt, Typed, TypeOK
  <2>. QED BY <2>1, <2>2, <2>3, <2>4, <2>5, <2>6, QuietRequest
<1>3. CASE CancelLost(d)
  <2>1. UNCHANGED <<run, content, object, key>> /\ \A e \in Docs : e # d => up'[e] = up[e]
    BY <1>3 DEF CancelLost, row, stores
  <2>2. StoresEffect /\ \A e \in Docs : temp'[e] \in {None, temp[e]}
    BY <1>3, SameStores DEF CancelLost, stores
  <2>3. QueueEffect
    BY <1>3, SameQueue DEF CancelLost
  <2>4. Started(d) => Started(d)' /\ (up[d].path = "full" => up'[d].path = "full")
    BY <1>3 DEF CancelLost, Started, RequestFacts, Typed, TypeOK
  <2>5. status' = status
    BY <1>3 DEF CancelLost, row
  <2>6. RequestFacts(d)'
    BY <1>3, <2>1 DEF CancelLost, RequestFacts, Started, Typed, TypeOK
  <2>. QED BY <2>1, <2>2, <2>3, <2>4, <2>5, <2>6, QuietRequest
<1>4. CASE CreateOrphan(d)
  <2>1. /\ CreateRow(d) /\ UNCHANGED <<run, content, object, temp, text, queue>> /\ UpAt(d, "create")
        /\ \E pc \in {"upsert", "send", "remove"} :
             UpGoto(d, pc) /\ (pc = "upsert" => up[d].path = "analysis_only")
    BY <1>4 DEF CreateOrphan, stores
  <2>. QED BY <2>1, CreateKeepsData
<1>. QED BY <1>1, <1>2, <1>3, <1>4 DEF RequestFault

LEMMA CancelKeepsData ==
  ASSUME Typed, DataInv, NEW d \in Docs, CancelRead(d) \/ CancelStep(d)
  PROVE  RequestEffect(d) /\ RequestFacts(d)'
<1>. /\ up \in [Docs -> Uploads] /\ up[d] \in Uploads
     /\ RequestFacts(d) /\ ContentIsOwn /\ StoredHasObject
  BY DEF Typed, TypeOK, DataInv, RequestsFacts
<1>1. CASE CancelRead(d)
  <2>1. UNCHANGED <<run, content, object, key>> /\ \A e \in Docs : e # d => up'[e] = up[e]
    BY <1>1 DEF CancelRead, row, stores
  <2>2. StoresEffect /\ \A e \in Docs : temp'[e] \in {None, temp[e]}
    BY <1>1, SameStores DEF CancelRead, stores
  <2>3. QueueEffect
    BY <1>1, SameQueue DEF CancelRead
  <2>4. Started(d) => Started(d)' /\ (up[d].path = "full" => up'[d].path = "full")
    BY <1>1 DEF CancelRead, Started, RequestFacts, Typed, TypeOK
  <2>5. status' = status
    BY <1>1 DEF CancelRead, row
  <2>6. RequestFacts(d)'
    BY <1>1, <2>1 DEF CancelRead, RequestFacts, Started, Typed, TypeOK
  <2>. QED BY <2>1, <2>2, <2>3, <2>4, <2>5, <2>6, QuietRequest
<1>2. CASE CancelWrite(d)
  <2>1. UNCHANGED <<run, content, object, key>> /\ \A e \in Docs : e # d => up'[e] = up[e]
    BY <1>2 DEF CancelWrite, row, stores
  <2>2. StoresEffect /\ \A e \in Docs : temp'[e] \in {None, temp[e]}
    BY <1>2, SameStores DEF CancelWrite, stores
  <2>3. QueueEffect
    BY <1>2, SameQueue DEF CancelWrite
  <2>4. Started(d) => Started(d)' /\ (up[d].path = "full" => up'[d].path = "full")
    BY <1>2 DEF CancelWrite, Started, RequestFacts, Typed, TypeOK
  <2>5. \A e \in Docs : status'[e] \in Stored => status[e] \in Stored
    BY <1>2 DEF CancelWrite, SaveStatus, Written, Stored, Typed, TypeOK
  <2>6. RequestFacts(d)'
    BY <1>2, <2>1 DEF CancelWrite, RequestFacts, Started, Typed, TypeOK
  <2>. QED BY <2>1, <2>2, <2>3, <2>4, <2>5, <2>6, QuietRequest
<1>3. CASE CancelUnlink(d)
  <2>1. UNCHANGED <<run, content, object, key>> /\ \A e \in Docs : e # d => up'[e] = up[e]
    BY <1>3 DEF CancelUnlink, row, stores
  <2>2. StoresEffect /\ \A e \in Docs : temp'[e] \in {None, temp[e]}
    BY <1>3, RemovedFile DEF CancelUnlink, RemoveFile, Typed, TypeOK
  <2>3. QueueEffect
    BY <1>3, SameQueue DEF CancelUnlink
  <2>4. Started(d) => Started(d)' /\ (up[d].path = "full" => up'[d].path = "full")
    BY <1>3 DEF CancelUnlink, Started, RequestFacts, Typed, TypeOK
  <2>5. status' = status
    BY <1>3 DEF CancelUnlink, row
  <2>6. RequestFacts(d)'
    BY <1>3, <2>1 DEF CancelUnlink, RequestFacts, Started, Typed, TypeOK
  <2>. QED BY <2>1, <2>2, <2>3, <2>4, <2>5, <2>6, QuietRequest
<1>. QED BY <1>1, <1>2, <1>3 DEF CancelStep

LEMMA ReceiveKeepsData ==
  ASSUME Typed, DataInv, NEW d \in Docs, NEW c \in Contents, ReceiveFile(d, c)
  PROVE  DataInv'
<1>1. content[d] = None /\ key[d] = None /\ ~ Started(d)
  BY DEF ReceiveFile, UpAt, Started, DataInv, RequestsFacts, RequestFacts
<1>2. object[d] = None /\ text[d] = None
  BY <1>1 DEF DataInv, ContentIsOwn
<1>3. /\ UNCHANGED <<status, key, object, text, queue, run>>
      /\ \A e \in Docs : e # d => content'[e] = content[e] /\ temp'[e] = temp[e] /\ up'[e] = up[e]
      /\ content'[d] = c /\ temp'[d] = c
      /\ up'[d].pc = "lookup" /\ up'[d].path = up[d].path /\ up'[d].candidates = up[d].candidates
      /\ up'[d].key = up[d].key /\ up'[d].raw = up[d].raw
  BY DEF ReceiveFile, UpGoto, row, Typed, TypeOK, Uploads
<1>4. \A e \in Docs : Started(e) => Started(e)' /\ content'[e] = content[e] /\ up'[e] = up[e]
  BY <1>1, <1>3 DEF Started
<1>5. ContentIsOwn'
  BY <1>2, <1>3 DEF DataInv, ContentIsOwn
<1>6. StoredHasObject'
  <2>1. \A e \in Docs : key[e] # None => e # d
    BY <1>1
  <2>. QED BY <1>3, <2>1 DEF DataInv, StoredHasObject
<1>7. QueueFacts'
  <2>1. \A m \in Messages : m.doc \in Docs
    BY DEF Messages
  <2>. QED BY <1>3, <1>4, <2>1 DEF DataInv, QueueFacts, TaskFacts, Clean
<1>8. RunsFacts'
  <2>. SUFFICES ASSUME NEW w \in Workers, run[w].pc # "idle"
                PROVE  RunFacts(run[w])'
    BY <1>3 DEF RunsFacts, RunFacts
  <2>1. RunFacts(run[w]) /\ run[w].doc \in Docs
    BY DEF DataInv, RunsFacts, Typed, RunsHaveDocuments
  <2>. QED BY <1>3, <1>4, <2>1 DEF RunFacts, TaskFacts, Clean
<1>9. RequestsFacts'
  <2>. SUFFICES ASSUME NEW e \in Docs
                PROVE  RequestFacts(e)'
    BY DEF RequestsFacts
  <2>1. RequestFacts(e) /\ up[e].candidates \subseteq Docs
    BY DEF DataInv, RequestsFacts, Typed, TypeOK, Uploads
  <2>2. \A f \in up[e].candidates : f # d
    BY <1>1, <2>1 DEF RequestFacts
  <2>3. CASE e # d
    BY <1>3, <2>1, <2>2, <2>3 DEF RequestFacts, Started
  <2>4. CASE e = d
    <3>1. up[d].candidates = {}
      <4>1. \A f \in up[d].candidates : content[f] = None /\ key[f] # None
        BY <1>1, <2>1, <2>4 DEF RequestFacts
      <4>. QED BY <2>1, <2>4, <4>1 DEF DataInv, StoredHasObject
    <3>. QED BY <1>1, <1>3, <2>1, <2>4, <3>1 DEF RequestFacts, Started, ReceiveFile, UpAt
  <2>. QED BY <2>3, <2>4
<1>10. AntivirusEnabled /\ FailOnUnavailable => InfectedNeverStored'
  BY <1>3 DEF DataInv, InfectedNeverStored
<1>. QED BY <1>5, <1>6, <1>7, <1>8, <1>9, <1>10 DEF DataInv

-----------------------------------------------------------------------------
LEMMA InitData == Init => DataInv
<1>. SUFFICES ASSUME Init PROVE DataInv
  OBVIOUS
<1>1. ContentIsOwn /\ StoredHasObject
  BY ContentsAssumption DEF Init, ContentIsOwn, StoredHasObject
<1>2. QueueFacts /\ RunsFacts
  BY DEF Init, Idle, QueueFacts, RunsFacts, RunFacts
<1>3. RequestsFacts
  BY DEF Init, NoUpload, RequestsFacts, RequestFacts, Started
<1>4. InfectedNeverStored
  BY ContentsAssumption DEF Init, InfectedNeverStored
<1>. QED BY <1>1, <1>2, <1>3, <1>4 DEF DataInv

\* What DataInv speaks of; a request that only reads leaves it alone.
dataVars == <<row, stores, queue, run, up, content>>

\* A step of the system is the step of one worker, of one request, the arrival of a
\* file, or leaves the data alone.
LEMMA StepKinds ==
  ASSUME Typed, DataInv, [Next]_vars
  PROVE  \/ \E w \in Workers : RunEffect(w) /\ RunFacts(run[w])'
         \/ \E d \in Docs : RequestEffect(d) /\ RequestFacts(d)'
         \/ \E d \in Docs, c \in Contents : ReceiveFile(d, c)
         \/ UNCHANGED dataVars
<1>1. CASE \E u \in Readers : ReadStep(u)
  BY <1>1 DEF ReadStep, Show, EnsureReady, GetDownloadUrl, ReadText, ReadTextFails, Answer, dataVars
<1>2. CASE UNCHANGED vars
  BY <1>2 DEF vars, requests, dataVars
<1>. QED
  BY <1>1, <1>2, TakeKeepsData, WorkerEffect, WorkerFacts, UploadKeepsData, RequestFaultKeepsData,
     CancelKeepsData
  DEF Next

LEMMA NextData == Typed /\ DataInv /\ [Next]_vars => DataInv'
<1>. SUFFICES ASSUME Typed, DataInv, [Next]_vars PROVE DataInv'
  OBVIOUS
<1>1. CASE UNCHANGED dataVars
  BY <1>1
     DEF dataVars, row, stores, DataInv, ContentIsOwn, StoredHasObject, QueueFacts, RunsFacts,
       RequestsFacts, InfectedNeverStored, TaskFacts, RunFacts, RequestFacts, Started, Clean
<1>. QED BY <1>1, StepKinds, RunKeepsData, RequestKeepsData, ReceiveKeepsData

\* The inductive invariant of the data.
THEOREM DataAlways == Spec => []DataInv
<1>1. Typed /\ DataInv /\ [Next]_vars => Typed' /\ DataInv'
  BY NextTyped, NextData
<1>. QED BY <1>1, InitTyped, InitData, PTL DEF Spec

\* A document that is stored, being extracted or extracted has a file_key, and the object
\* it names is the file the user uploaded, whatever is repeated, lost, retried or cancelled.
THEOREM StoredHasObjectAlways == Spec => []StoredHasObject
<1>1. DataInv => StoredHasObject
  BY DEF DataInv
<1>. QED BY <1>1, DataAlways, PTL

\* No document ever carries the text of another content.
THEOREM TextIsOwnAlways == Spec => []TextIsOwn
<1>1. DataInv => TextIsOwn
  BY DEF DataInv, ContentIsOwn, TextIsOwn
<1>. QED BY <1>1, DataAlways, PTL

\* With the antivirus enabled and mandatory, infected content never reaches the bucket.
THEOREM InfectedNeverStoredAlways ==
  AntivirusEnabled /\ FailOnUnavailable => (Spec => []InfectedNeverStored)
<1>1. ASSUME AntivirusEnabled, FailOnUnavailable PROVE DataInv => InfectedNeverStored
  BY <1>1 DEF DataInv
<1>. SUFFICES ASSUME AntivirusEnabled, FailOnUnavailable PROVE Spec => []InfectedNeverStored
  OBVIOUS
<1>2. DataInv => InfectedNeverStored
  BY <1>1
<1>. QED BY <1>2, DataAlways, PTL

LEMMA KeyKept ==
  ASSUME Typed, DataInv, [Next]_vars
  PROVE  \A d \in Docs : key[d] # None => key'[d] = key[d]
<1>1. ASSUME NEW w \in Workers, RunEffect(w)
      PROVE  \A d \in Docs : key[d] # None => key'[d] = key[d]
  BY <1>1, RunGrows DEF Grows
<1>2. ASSUME NEW d \in Docs, RequestEffect(d)
      PROVE  \A e \in Docs : key[e] # None => key'[e] = key[e]
  BY <1>2 DEF RequestEffect, DataInv, RequestsFacts, RequestFacts
<1>3. (\E d \in Docs, c \in Contents : ReceiveFile(d, c)) \/ UNCHANGED dataVars => key' = key
  BY DEF ReceiveFile, dataVars, row
<1>. QED BY <1>1, <1>2, <1>3, StepKinds

\* A recorded file_key is never cleared or replaced.
THEOREM KeyIsStableAlways == Spec => KeyIsStable
<1>1. Typed /\ DataInv /\ [Next]_vars => [\A d \in Docs : key[d] # None => key'[d] = key[d]]_vars
  BY KeyKept
<1>. QED BY <1>1, TypedAlways, DataAlways, PTL DEF Spec, KeyIsStable

-----------------------------------------------------------------------------
(* Who is promised a text finds one: ExtractedHasText, RequestedHasText and *)
(* AnswersAreTrue.                                                          *)
(*                                                                          *)
(* A text is never lost once it is stored, and a task stores it before it   *)
(* writes extracted.  The exception is the request that copies the text of  *)
(* a duplicate, whose row is extracted before its text is copied: nothing   *)
(* may act on that document meanwhile.  TextInv says so, by the path its    *)
(* request has taken: no task exists for a document on that path.           *)

\* What an upload request implies about texts.
RequestTexts(d) ==
  /\ up[d].pc \in {"create", "upsert", "degrade"} /\ up[d].path = "analysis_only" => up[d].raw # None
  /\ up[d].pc = "send" => up[d].path # "analysis_only"
  /\ up[d].pc \in {"unlink", "create_analysis", "publish_event"} => text[d] # None

\* What the document of d promises.
RowTexts(d) ==
  /\ status[d] = "extracted" /\ text[d] = None =>
       up[d].path = "analysis_only" /\ (Copying(d) \/ d \in abandoned)
  /\ requested[d] => text[d] # None

\* What a queued or running task implies.
ExtractedPcs == {"write_extracted", "unlink", "create_analysis", "publish_event"}
RunTexts(r) ==
  r.pc # "idle" => /\ up[r.doc].path # "analysis_only"
                   /\ r.pc \in ExtractedPcs => text[r.doc] # None

\* What a reading request has found.
ViewTexts(v) ==
  /\ v.pc = "linked" => v.key = key[v.doc] /\ key[v.doc] # None
  /\ v.pc = "text" /\ v.kind = "show" /\ ~ v.excused => text[v.doc] # None
  /\ v.pc = "analyses" /\ ~ v.excused => v.text = content[v.doc] /\ content[v.doc] # None
  /\ v.pc = "ready" => text[v.doc] \in Contents \ Blank

TextInv ==
  /\ \A d \in Docs : RequestTexts(d)
  /\ \A d \in Docs : RowTexts(d)
  /\ \A m \in Messages : queue[m] > 0 => up[m.doc].path # "analysis_only"
  /\ \A w \in Workers : RunTexts(run[w])
  /\ \A u \in Readers : ViewTexts(view[u])

-----------------------------------------------------------------------------
(* The steps of a worker.                                                   *)

\* What every step leaves readable: no text goes, nothing is promised without one, and
\* no task appears for a document whose text is being copied.
KeepsTexts ==
  /\ abandoned \subseteq abandoned'
  /\ \A d \in Docs : text[d] # None => text'[d] # None
  /\ \A d \in Docs : status'[d] = "extracted" => status[d] = "extracted" \/ text[d] # None
  /\ \A d \in Docs : requested'[d] => requested[d] \/ text[d] # None
  /\ \A m \in Messages : queue'[m] > 0 => queue[m] > 0 \/ up[m.doc].path # "analysis_only"

LEMMA OtherStatus ==
  ASSUME Typed, NEW d \in Docs, NEW seen, NEW st, SaveStatus(d, seen, st),
         st # "extracted" \/ text[d] # None
  PROVE  \A e \in Docs : status'[e] = "extracted" => status[e] = "extracted" \/ text[e] # None
  BY DEF Typed, TypeOK, SaveStatus, Written

LEMMA QueuedFor ==
  ASSUME Typed, NEW m \in Messages, NEW n, Enqueue(m, n), up[m.doc].path # "analysis_only"
  PROVE  \A x \in Messages : queue'[x] > 0 => queue[x] > 0 \/ up[x.doc].path # "analysis_only"
  BY DEF Typed, TypeOK, Enqueue

LEMMA WorkerKeepsTexts ==
  ASSUME Typed, DataInv, TextInv, NEW w \in Workers, RunStep(w) \/ RunFault(w)
  PROVE  KeepsTexts
<1>. DEFINE d == Doc(w)
<1>. /\ run \in [Workers -> Runs] /\ run[w] \in Runs
     /\ run[w].pc # "idle" => d \in Docs
     /\ RunTexts(run[w])
  BY DEF Typed, TypeOK, RunsHaveDocuments, TextInv, Doc
<1>. USE DEF At
<1>1. CASE Raise(w)
  <2>1. \A m \in Messages : queue'[m] > 0 => queue[m] > 0 \/ up[m.doc].path # "analysis_only"
    <3>1. CASE run[w].retries < MaxRetries
      <4>1. [task |-> run[w].task, doc |-> d, retries |-> run[w].retries + 1] \in Messages
        BY <1>1, <3>1, BoundsAssumption DEF Raise, Messages, Runs
      <4>. QED BY <1>1, <3>1, <4>1, QueuedFor DEF Raise, RunTexts, Doc
    <3>. QED BY <1>1, <3>1 DEF Raise
  <2>. QED BY <1>1, <2>1 DEF Raise, KeepsTexts, row, stores, analyses, env
<1>2. CASE Cleanup(w)
  BY <1>2 DEF Cleanup, RemoveFile, KeepsTexts, row, stores, analyses, env
<1>3. CASE CheckCancelled(w)
  BY <1>3 DEF CheckCancelled, KeepsTexts, row, stores, analyses, env
<1>4. CASE CheckPath(w)
  BY <1>4 DEF CheckPath, KeepsTexts, row, stores, analyses, env
<1>5. CASE WriteMissing(w)
  <2>1. \A e \in Docs : status'[e] = "extracted" => status[e] = "extracted" \/ text[e] # None
    BY <1>5, OtherStatus DEF WriteMissing
  <2>. QED BY <1>5, <2>1 DEF WriteMissing, KeepsTexts, stores, analyses, env
<1>6. CASE MarkScanning(w)
  <2>1. \A e \in Docs : status'[e] = "extracted" => status[e] = "extracted" \/ text[e] # None
    BY <1>6, OtherStatus DEF MarkScanning
  <2>. QED BY <1>6, <2>1 DEF MarkScanning, KeepsTexts, stores, analyses, env
<1>7. CASE Scan(w)
  BY <1>7 DEF Scan, KeepsTexts, row, stores, analyses, env
<1>8. CASE WriteInfected(w)
  <2>1. \A e \in Docs : status'[e] = "extracted" => status[e] = "extracted" \/ text[e] # None
    BY <1>8, OtherStatus DEF WriteInfected
  <2>. QED BY <1>8, <2>1 DEF WriteInfected, KeepsTexts, stores, analyses, env
<1>9. CASE PublishUpload(w)
  <2>1. FirstAttempt("upload", d) \in Messages
    BY <1>9, BoundsAssumption DEF PublishUpload, Messages, FirstAttempt, Tasks
  <2>2. \A m \in Messages : queue'[m] > 0 => queue[m] > 0 \/ up[m.doc].path # "analysis_only"
    BY <1>9, <2>1, QueuedFor DEF PublishUpload, Publish, FirstAttempt, RunTexts, Doc
  <2>. QED BY <1>9, <2>2 DEF PublishUpload, Publish, KeepsTexts, row, stores, analyses
<1>10. CASE MarkUploading(w)
  <2>1. \A e \in Docs : status'[e] = "extracted" => status[e] = "extracted" \/ text[e] # None
    BY <1>10, OtherStatus DEF MarkUploading
  <2>. QED BY <1>10, <2>1 DEF MarkUploading, KeepsTexts, stores, analyses, env
<1>11. CASE CheckObject(w)
  BY <1>11 DEF CheckObject, KeepsTexts, row, stores, analyses, env
<1>12. CASE PutObject(w)
  BY <1>12 DEF PutObject, KeepsTexts, row, stores, analyses, env
<1>13. CASE WriteUploaded(w)
  <2>1. \A e \in Docs : status'[e] = "extracted" => status[e] = "extracted" \/ text[e] # None
    BY <1>13, OtherStatus DEF WriteUploaded
  <2>. QED BY <1>13, <2>1 DEF WriteUploaded, KeepsTexts, stores, analyses, env
<1>14. CASE PublishExtract(w)
  <2>1. FirstAttempt("extract", d) \in Messages
    BY <1>14, BoundsAssumption DEF PublishExtract, Messages, FirstAttempt, Tasks
  <2>2. \A m \in Messages : queue'[m] > 0 => queue[m] > 0 \/ up[m.doc].path # "analysis_only"
    BY <1>14, <2>1, QueuedFor DEF PublishExtract, Publish, FirstAttempt, RunTexts, Doc
  <2>. QED BY <1>14, <2>2 DEF PublishExtract, Publish, KeepsTexts, row, stores, analyses
<1>15. CASE WriteFailed(w)
  <2>1. \A e \in Docs : status'[e] = "extracted" => status[e] = "extracted" \/ text[e] # None
    BY <1>15, OtherStatus DEF WriteFailed
  <2>. QED BY <1>15, <2>1 DEF WriteFailed, KeepsTexts, stores, analyses, env
<1>16. CASE LoadDocument(w)
  BY <1>16 DEF LoadDocument, KeepsTexts, row, stores, analyses, env
<1>17. CASE CheckLocal(w)
  BY <1>17 DEF CheckLocal, KeepsTexts, row, stores, analyses, env
<1>18. CASE RestoreMissing(w)
  BY <1>18 DEF RestoreMissing, Restore, KeepsTexts, row, analyses
<1>19. CASE MarkExtracting(w)
  <2>1. \A e \in Docs : status'[e] = "extracted" => status[e] = "extracted" \/ text[e] # None
    BY <1>19, OtherStatus DEF MarkExtracting
  <2>. QED BY <1>19, <2>1 DEF MarkExtracting, KeepsTexts, stores, analyses, env
<1>20. CASE Extract(w)
  BY <1>20 DEF Extract, KeepsTexts, row, stores, analyses, env
<1>21. CASE RestoreAgain(w)
  BY <1>21 DEF RestoreAgain, Restore, KeepsTexts, row, analyses
<1>22. CASE ExtractAgain(w)
  BY <1>22 DEF ExtractAgain, KeepsTexts, row, stores, analyses, env
<1>23. CASE StoreText(w)
  <2>1. run[w].text = content[d] /\ content[d] # None
    BY <1>23 DEF StoreText, DataInv, RunsFacts, RunFacts, LoadedPcs, StoredHasObject, Doc
  <2>. QED BY <1>23, <2>1 DEF StoreText, KeepsTexts, Typed, TypeOK, row, analyses, env
<1>24. CASE WriteExtracted(w)
  <2>1. \A e \in Docs : status'[e] = "extracted" => status[e] = "extracted" \/ text[e] # None
    BY <1>24, OtherStatus DEF WriteExtracted, RunTexts, ExtractedPcs, Doc
  <2>. QED BY <1>24, <2>1 DEF WriteExtracted, KeepsTexts, stores, analyses, env
<1>25. CASE UnlinkLocal(w)
  BY <1>25 DEF UnlinkLocal, RemoveFile, KeepsTexts, row, stores, analyses, env
<1>26. CASE CreateAnalysis(w)
  BY <1>26 DEF CreateAnalysis, KeepsTexts, row, stores, analyses, env
<1>27. CASE PublishEvent(w)
  <2>1. d \in Docs /\ text[d] # None
    BY <1>27 DEF PublishEvent, RunTexts, ExtractedPcs, Doc
  <2>2. \A e \in Docs : e # d => requested'[e] = requested[e]
    BY <1>27 DEF PublishEvent, Typed, TypeOK
  <2>. QED BY <1>27, <2>1, <2>2 DEF PublishEvent, KeepsTexts, row, stores
<1>28. CASE OnFailure(w)
  BY <1>28 DEF OnFailure, KeepsTexts, row, stores, analyses, env
<1>29. CASE Recheck(w)
  BY <1>29 DEF Recheck, KeepsTexts, row, stores, analyses, env
<1>30. CASE WriteFailure(w)
  <2>1. \A e \in Docs : status'[e] = "extracted" => status[e] = "extracted" \/ text[e] # None
    BY <1>30, OtherStatus DEF WriteFailure
  <2>. QED BY <1>30, <2>1 DEF WriteFailure, KeepsTexts, stores, analyses, env
<1>31. CASE MarkAnalysisFailed(w)
  BY <1>31 DEF MarkAnalysisFailed, KeepsTexts, row, stores, analyses, env
<1>32. CASE AccessFails(w)
  BY <1>32 DEF AccessFails, KeepsTexts, row, stores, analyses, env
<1>33. CASE HandlerFails(w)
  BY <1>33 DEF HandlerFails, Abandon, KeepsTexts, row, stores, analyses
<1>34. CASE RunLost(w)
  BY <1>34 DEF RunLost, Abandon, KeepsTexts, row, stores, analyses
<1>. QED BY <1>1, <1>2, <1>3, <1>4, <1>5, <1>6, <1>7, <1>8, <1>9, <1>10, <1>11, <1>12, <1>13,
            <1>14, <1>15, <1>16, <1>17, <1>18, <1>19, <1>20, <1>21, <1>22, <1>23, <1>24, <1>25,
            <1>26, <1>27, <1>28, <1>29, <1>30, <1>31, <1>32, <1>33, <1>34
     DEF RunStep, RunFault

LEMMA WorkerTexts ==
  ASSUME Typed, DataInv, TextInv, NEW w \in Workers, RunStep(w) \/ RunFault(w)
  PROVE  RunTexts(run[w])'
<1>. /\ run \in [Workers -> Runs] /\ run[w] \in Runs
     /\ run[w].pc # "idle" => Doc(w) \in Docs
     /\ RunTexts(run[w]) /\ KeepsTexts /\ up' = up
  BY WorkerEffect, WorkerKeepsTexts
     DEF Typed, TypeOK, RunsHaveDocuments, TextInv, Doc, RunEffect, OthersWait
<1>. USE DEF At, Doc, Runs, RunTexts, KeepsTexts, ExtractedPcs
<1>1. CASE Raise(w)
  BY <1>1 DEF Raise, Goto, End, Idle, FailurePc
<1>2. CASE Cleanup(w)
  BY <1>2 DEF Cleanup, End, Idle
<1>3. CASE CheckCancelled(w)
  BY <1>3 DEF CheckCancelled, Goto
<1>4. CASE CheckPath(w)
  BY <1>4 DEF CheckPath, Goto, AfterPathCheck
<1>5. CASE WriteMissing(w)
  BY <1>5 DEF WriteMissing, End, Idle, Acknowledged, Escapes
<1>6. CASE MarkScanning(w)
  BY <1>6 DEF MarkScanning, Goto
<1>7. CASE Scan(w)
  BY <1>7 DEF Scan, Goto, Verdict, Unavailable, WithoutScan
<1>8. CASE WriteInfected(w)
  BY <1>8 DEF WriteInfected, Goto, Acknowledged, Escapes
<1>9. CASE PublishUpload(w)
  BY <1>9 DEF PublishUpload, Publish, Goto, End, Idle
<1>10. CASE MarkUploading(w)
  BY <1>10 DEF MarkUploading, Goto
<1>11. CASE CheckObject(w)
  BY <1>11 DEF CheckObject, Goto, AfterHead
<1>12. CASE PutObject(w)
  BY <1>12 DEF PutObject, Goto, RaiseFinally, FailurePc
<1>13. CASE WriteUploaded(w)
  BY <1>13 DEF WriteUploaded, Goto
<1>14. CASE PublishExtract(w)
  BY <1>14 DEF PublishExtract, Publish, Goto, End, Idle
<1>15. CASE WriteFailed(w)
  BY <1>15 DEF WriteFailed, Goto, Acknowledged, Escapes
<1>16. CASE LoadDocument(w)
  <2>1. status[Doc(w)] = "extracted" => text[Doc(w)] # None
    BY <1>16 DEF LoadDocument, TextInv, RowTexts
  <2>. QED BY <1>16, <2>1 DEF LoadDocument, Goto, End, Idle
<1>17. CASE CheckLocal(w)
  BY <1>17 DEF CheckLocal, Goto
<1>18. CASE RestoreMissing(w)
  BY <1>18 DEF RestoreMissing, Restore, RaiseFinally, Goto, FailurePc
<1>19. CASE MarkExtracting(w)
  BY <1>19 DEF MarkExtracting, GotoRefreshed
<1>20. CASE Extract(w)
  BY <1>20 DEF Extract, Extracted, Goto
<1>21. CASE RestoreAgain(w)
  BY <1>21 DEF RestoreAgain, Restore, RaiseFinally, Goto, FailurePc
<1>22. CASE ExtractAgain(w)
  BY <1>22 DEF ExtractAgain, Extracted, RaiseFinally, FailurePc
<1>23. CASE StoreText(w)
  <2>1. run[w].text = content[Doc(w)] /\ content[Doc(w)] # None
    BY <1>23 DEF StoreText, DataInv, RunsFacts, RunFacts, LoadedPcs, StoredHasObject
  <2>. QED BY <1>23, <2>1 DEF StoreText, Typed, TypeOK
<1>24. CASE WriteExtracted(w)
  BY <1>24 DEF WriteExtracted, Acknowledged, Escapes
<1>25. CASE UnlinkLocal(w)
  BY <1>25 DEF UnlinkLocal, Goto
<1>26. CASE CreateAnalysis(w)
  BY <1>26 DEF CreateAnalysis, Goto
<1>27. CASE PublishEvent(w)
  BY <1>27 DEF PublishEvent, Goto, End, Idle
<1>28. CASE OnFailure(w)
  BY <1>28 DEF OnFailure, Goto
<1>29. CASE Recheck(w)
  BY <1>29 DEF Recheck, Goto
<1>30. CASE WriteFailure(w)
  BY <1>30 DEF WriteFailure
<1>31. CASE MarkAnalysisFailed(w)
  BY <1>31 DEF MarkAnalysisFailed, Goto
<1>32. CASE AccessFails(w)
  BY <1>32 DEF AccessFails, RaisingPcs, Escapes
<1>33. CASE HandlerFails(w)
  BY <1>33 DEF HandlerFails
<1>34. CASE RunLost(w)
  BY <1>34 DEF RunLost, End, Idle
<1>. QED BY <1>1, <1>2, <1>3, <1>4, <1>5, <1>6, <1>7, <1>8, <1>9, <1>10, <1>11, <1>12, <1>13,
            <1>14, <1>15, <1>16, <1>17, <1>18, <1>19, <1>20, <1>21, <1>22, <1>23, <1>24, <1>25,
            <1>26, <1>27, <1>28, <1>29, <1>30, <1>31, <1>32, <1>33, <1>34
     DEF RunStep, RunFault

LEMMA TakeTexts ==
  ASSUME Typed, DataInv, TextInv, NEW w \in Workers, NEW m \in Messages, Take(w, m)
  PROVE  KeepsTexts /\ RunTexts(run[w])'
<1>1. KeepsTexts
  BY DEF Take, KeepsTexts, row, stores, analyses, env, Typed, TypeOK
<1>2. RunTexts(run[w])'
  <2>1. up[m.doc].path # "analysis_only" /\ m.task \in Tasks
    BY DEF Take, TextInv, Messages
  <2>. QED BY <2>1 DEF Take, RunTexts, ExtractedPcs, FirstPc, Tasks, requests, Typed, TypeOK
<1>. QED BY <1>1, <1>2

\* What was found stays true as long as keys, contents and texts do.
LEMMA ViewKept ==
  ASSUME Typed, DataInv, DataInv', NEW v \in Views, ViewTexts(v),
         \A d \in Docs : /\ key[d] # None => key'[d] = key[d]
                         /\ content[d] # None => content'[d] = content[d]
                         /\ text[d] # None => text'[d] # None
  PROVE  ViewTexts(v)'
<1>1. v.pc # "idle" => v.doc \in Docs
  BY DEF Views
<1>2. \A d \in Docs : text[d] # None => text'[d] = text[d]
  BY DEF DataInv, ContentIsOwn
<1>. QED BY <1>1, <1>2, ContentsAssumption DEF ViewTexts

LEMMA RunKeepsTexts ==
  ASSUME Typed, DataInv, DataInv', TextInv, NEW w \in Workers, RunEffect(w), KeepsTexts,
         RunTexts(run[w])', UNCHANGED view
  PROVE  TextInv'
<1>. up' = up /\ content' = content /\ Grows
  BY RunGrows DEF RunEffect, OthersWait
<1>1. \A d \in Docs : RequestTexts(d)'
  BY DEF KeepsTexts, TextInv, RequestTexts
<1>2. \A d \in Docs : RowTexts(d)'
  BY DEF KeepsTexts, TextInv, RowTexts, Copying
<1>3. \A m \in Messages : queue'[m] > 0 => up'[m.doc].path # "analysis_only"
  BY DEF KeepsTexts, TextInv
<1>4. ASSUME NEW v \in Workers PROVE RunTexts(run[v])'
  <2>1. CASE v # w
    <3>1. run'[v] = run[v] /\ RunTexts(run[v]) /\ (run[v].pc # "idle" => run[v].doc \in Docs)
      BY <2>1 DEF RunEffect, OthersWait, TextInv, Typed, RunsHaveDocuments
    <3>. QED BY <3>1 DEF RunTexts, KeepsTexts
  <2>. QED BY <2>1
<1>5. ASSUME NEW u \in Readers PROVE ViewTexts(view[u])'
  BY ViewKept DEF KeepsTexts, Grows, TextInv, Typed, TypeOK
<1>. QED BY <1>1, <1>2, <1>3, <1>4, <1>5 DEF TextInv

-----------------------------------------------------------------------------
(* The steps of the requests.                                               *)

\* All a step of a request for document d does to texts and what is promised of them.
RequestKeeps(d) ==
  /\ abandoned \subseteq abandoned' /\ UNCHANGED view
  /\ text[d] # None => text'[d] # None
  /\ \A e \in Docs : e # d => /\ status'[e] = status[e] /\ requested'[e] = requested[e]
                              /\ text'[e] = text[e]
  /\ up'[d].path = "analysis_only" => up[d].path = "analysis_only" \/ ~ Started(d)
  /\ \A m \in Messages : queue'[m] > 0 => queue[m] > 0 \/ up'[m.doc].path # "analysis_only"

LEMMA RequestKeepsTexts ==
  ASSUME Typed, DataInv, DataInv', TextInv, NEW d \in Docs, RequestEffect(d), RequestKeeps(d),
         RequestTexts(d)', RowTexts(d)'
  PROVE  TextInv'
<1>1. \A e \in Docs : e # d => up'[e] = up[e] /\ status'[e] = status[e]
                              /\ requested'[e] = requested[e] /\ text'[e] = text[e]
  BY DEF RequestEffect, RequestKeeps
<1>2. \A e \in Docs : RequestTexts(e)'
  BY <1>1 DEF TextInv, RequestTexts
<1>3. \A e \in Docs : RowTexts(e)'
  BY <1>1 DEF TextInv, RowTexts, Copying, RequestKeeps
<1>4. \A m \in Messages : queue'[m] > 0 => up'[m.doc].path # "analysis_only"
  <2>. SUFFICES ASSUME NEW m \in Messages, queue[m] > 0 PROVE up'[m.doc].path # "analysis_only"
    BY DEF RequestKeeps
  <2>1. m.doc \in Docs /\ Started(m.doc) /\ up[m.doc].path # "analysis_only"
    BY DEF Messages, DataInv, QueueFacts, TaskFacts, TextInv
  <2>. QED BY <1>1, <2>1 DEF RequestKeeps
<1>5. ASSUME NEW w \in Workers PROVE RunTexts(run[w])'
  <2>1. CASE run[w].pc # "idle"
    <3>1. run[w].doc \in Docs /\ Started(run[w].doc) /\ RunTexts(run[w])
      BY <2>1 DEF Typed, RunsHaveDocuments, DataInv, RunsFacts, RunFacts, TaskFacts, TextInv
    <3>2. up'[run[w].doc].path # "analysis_only"
      BY <1>1, <2>1, <3>1 DEF RunTexts, RequestKeeps
    <3>3. text[run[w].doc] # None => text'[run[w].doc] # None
      BY <1>1, <3>1 DEF RequestKeeps
    <3>. QED BY <3>1, <3>2, <3>3 DEF RunTexts, RequestEffect
  <2>. QED BY <2>1 DEF RunTexts, RequestEffect
<1>6. ASSUME NEW u \in Readers PROVE ViewTexts(view[u])'
  <2>1. \A e \in Docs : key[e] # None => key'[e] = key[e]
    BY DEF RequestEffect, DataInv, RequestsFacts, RequestFacts
  <2>2. \A e \in Docs : text[e] # None => text'[e] # None
    BY <1>1 DEF RequestKeeps
  <2>. QED BY <2>1, <2>2, ViewKept DEF RequestEffect, RequestKeeps, TextInv, Typed, TypeOK
<1>. QED BY <1>2, <1>3, <1>4, <1>5, <1>6 DEF TextInv

LEMMA UploadTexts ==
  ASSUME Typed, DataInv, TextInv, NEW d \in Docs,
         UploadStep(d) \/ RequestFault(d) \/ CancelRead(d) \/ CancelStep(d)
  PROVE  RequestKeeps(d) /\ RequestTexts(d)' /\ RowTexts(d)'
<1>. /\ up \in [Docs -> Uploads] /\ up[d] \in Uploads
     /\ RequestTexts(d) /\ RowTexts(d) /\ RequestFacts(d)
     /\ status \in [Docs -> Statuses] /\ text \in [Docs -> Contents \cup {None}]
  BY DEF Typed, TypeOK, TextInv, DataInv, RequestsFacts
<1>. USE DEF UpAt, RequestKeeps, RequestTexts, RowTexts, Copying, Started, Uploads
<1>1. CASE LookUpDuplicates(d)
  BY <1>1 DEF LookUpDuplicates, row, stores, analyses, env
<1>2. CASE CreateDocument(d)
  <2>1. /\ status'[d] = InitialStatus[up[d].path]
        /\ \A e \in Docs : e # d => status'[e] = status[e]
    BY <1>2 DEF CreateDocument, CreateRow
  <2>2. status'[d] = "extracted" => up[d].path = "analysis_only"
    BY <2>1 DEF InitialStatus, Paths
  <2>3. up' = [up EXCEPT ![d].pc = IF up[d].path = "analysis_only" THEN "upsert" ELSE "send"]
    BY <1>2 DEF CreateDocument, UpGoto
  <2>. QED BY <1>2, <2>1, <2>2, <2>3 DEF CreateDocument, stores, analyses, env
<1>3. CASE SendToQueue(d)
  <2>. DEFINE m == FirstAttempt(FirstTask(up[d].path), d)
  <2>1. m \in Messages /\ m.doc = d
    BY BoundsAssumption DEF FirstAttempt, FirstTask, Messages, Tasks
  <2>2. \A x \in Messages : queue'[x] > 0 => queue[x] > 0 \/ up[x.doc].path # "analysis_only"
    BY <1>3, <2>1, QueuedFor DEF SendToQueue
  <2>3. up'[d].path = up[d].path /\ up'[d].pc \in {"mark_failed", "done"}
        /\ \A e \in Docs : e # d => up'[e] = up[e]
    BY <1>3 DEF SendToQueue, UpGoto
  <2>4. \A x \in Messages : x.doc \in Docs
    BY DEF Messages
  <2>. QED BY <1>3, <2>2, <2>3, <2>4 DEF SendToQueue, row, stores, analyses
<1>4. CASE CopyText(d)
  <2>1. up[d].raw # None
    BY <1>4 DEF CopyText, RequestFacts
  <2>. QED BY <1>4, <2>1 DEF CopyText, UpGoto, row, analyses
<1>5. CASE Degrade(d)
  <2>1. status' = [status EXCEPT ![d] = "uploaded"]
    BY <1>5 DEF Degrade, SaveStatus, Written, NoInstance
  <2>. QED BY <1>5, <2>1 DEF Degrade, stores, analyses, env
<1>6. CASE RemoveAfterCopy(d)
  BY <1>6 DEF RemoveAfterCopy, UpGoto, RemoveFile, row, analyses, env
<1>7. CASE StartAnalysis(d)
  BY <1>7 DEF StartAnalysis, UpGoto, row, stores, env
<1>8. CASE SendEvent(d)
  <2>1. text[d] # None
    BY <1>8 DEF SendEvent
  <2>2. \A e \in Docs : e # d => requested'[e] = requested[e]
    BY <1>8 DEF SendEvent, Typed, TypeOK
  <2>. QED BY <1>8, <2>1, <2>2 DEF SendEvent, UpGoto, row, stores
<1>9. CASE UndoDispatch(d)
  BY <1>9 DEF UndoDispatch, UpGoto, Abandon, row, stores, env
<1>10. CASE TryMarkFailed(d)
  <2>1. status' = [status EXCEPT ![d] = "failed"] \/ (Abandon(d) /\ status' = status)
    BY <1>10 DEF TryMarkFailed, SaveStatus, Written, NoInstance
  <2>. QED BY <1>10, <2>1 DEF TryMarkFailed, Abandon, UpGoto, stores, analyses, env
<1>11. CASE RemoveFromTemp(d)
  BY <1>11 DEF RemoveFromTemp, UpGoto, RemoveFile, row, analyses, env
<1>12. CASE CreateOrphan(d)
  <2>1. /\ status'[d] = InitialStatus[up[d].path]
        /\ \A e \in Docs : e # d => status'[e] = status[e]
    BY <1>12 DEF CreateOrphan, CreateRow
  <2>2. status'[d] = "extracted" => up[d].path = "analysis_only"
    BY <2>1 DEF InitialStatus, Paths
  <2>3. up' = [up EXCEPT ![d].pc = "remove"]
    BY <1>12 DEF CreateOrphan, UpGoto
  <2>. QED BY <1>12, <2>1, <2>2, <2>3 DEF CreateOrphan, stores, analyses, Abandon
<1>13. CASE LookUpTexts(d)
  <2>1. ASSUME NEW e, NEW path, NEW raw, ChoosePath(d, path, e, raw),
               path = "analysis_only" => raw # None
        PROVE  /\ up'[d].pc = "create" /\ up'[d].path = path
               /\ up'[d].path = "analysis_only" => up'[d].raw # None
               /\ \A f \in Docs : f # d => up'[f] = up[f]
    BY <2>1 DEF ChoosePath
  <2>2. \A e \in TextSources(d) : text[e] # None
    BY ContentsAssumption DEF TextSources
  <2>3. /\ up'[d].pc = "create" /\ (up'[d].path = "analysis_only" => up'[d].raw # None)
        /\ \A f \in Docs : f # d => up'[f] = up[f]
    BY <1>13, <2>1, <2>2 DEF LookUpTexts
  <2>4. status[d] = "extracted" => text[d] # None
    BY <1>13 DEF LookUpTexts, RequestFacts
  <2>. QED BY <1>13, <2>3, <2>4 DEF LookUpTexts, row, stores, analyses
<1>14. CASE UploadFails(d)
  BY <1>14 DEF UploadFails, UpGoto, ErrorPc, row, stores, analyses
<1>15. CASE UploadLost(d)
  BY <1>15 DEF UploadLost, UpGoto, Abandon, row, stores, analyses
<1>16. CASE CancelLost(d)
  BY <1>16 DEF CancelLost, row, stores, analyses
<1>17. CASE CancelRead(d)
  BY <1>17 DEF CancelRead, row, stores, analyses, env
<1>18. CASE CancelWrite(d)
  <2>1. status'[d] \in {status[d], "cancelled"} /\ \A e \in Docs : e # d => status'[e] = status[e]
    BY <1>18 DEF CancelWrite, SaveStatus, Written
  <2>. QED BY <1>18, <2>1 DEF CancelWrite, stores, analyses, env
<1>19. CASE CancelUnlink(d)
  BY <1>19 DEF CancelUnlink, RemoveFile, row, analyses, env
<1>. QED BY <1>1, <1>2, <1>3, <1>4, <1>5, <1>6, <1>7, <1>8, <1>9, <1>10, <1>11, <1>12, <1>13, <1>14, <1>15, <1>16, <1>17, <1>18, <1>19
     DEF UploadStep, RequestFault, CancelStep

LEMMA ReceiveTexts ==
  ASSUME Typed, DataInv, DataInv', TextInv, NEW d \in Docs, NEW c \in Contents, ReceiveFile(d, c)
  PROVE  TextInv'
<1>1. content[d] = None /\ up[d].pc = "absent"
  BY DEF ReceiveFile, UpAt, DataInv, RequestsFacts, RequestFacts
<1>2. /\ UNCHANGED <<row, text, analyses, queue, run, view, abandoned>>
      /\ \A e \in Docs : e # d => content'[e] = content[e] /\ up'[e] = up[e]
      /\ up'[d].pc = "lookup" /\ up'[d].path = up[d].path
  BY DEF ReceiveFile, UpGoto, Typed, TypeOK, Uploads, env
<1>3. \A e \in Docs : RequestTexts(e)'
  BY <1>2 DEF TextInv, RequestTexts
<1>4. \A e \in Docs : RowTexts(e)'
  BY <1>1, <1>2 DEF TextInv, RowTexts, Copying, row, analyses
<1>5. \A m \in Messages : queue'[m] > 0 => up'[m.doc].path # "analysis_only"
  <2>1. \A m \in Messages : m.doc \in Docs
    BY DEF Messages
  <2>. QED BY <1>2, <2>1 DEF TextInv
<1>6. ASSUME NEW w \in Workers PROVE RunTexts(run[w])'
  <2>1. run[w].pc # "idle" => run[w].doc \in Docs
    BY DEF Typed, RunsHaveDocuments
  <2>. QED BY <1>2, <2>1 DEF TextInv, RunTexts
<1>7. ASSUME NEW u \in Readers PROVE ViewTexts(view[u])'
  BY <1>1, <1>2, ViewKept DEF TextInv, Typed, TypeOK, row
<1>. QED BY <1>3, <1>4, <1>5, <1>6, <1>7 DEF TextInv

-----------------------------------------------------------------------------
(* The steps of the reading requests, and the theorems.                     *)

LEMMA ReadTexts ==
  ASSUME Typed, DataInv, TextInv, NEW u \in Readers, ReadStep(u)
  PROVE  /\ UNCHANGED <<row, stores, analyses, queue, run, up, content, abandoned>>
         /\ \A v \in Readers : ViewTexts(view'[v])
<1>. view \in [Readers -> Views] /\ view[u] \in Views /\ ViewTexts(view[u])
  BY DEF Typed, TypeOK, TextInv
<1>1. UNCHANGED <<row, stores, analyses, queue, run, up, content, abandoned>>
  BY DEF ReadStep, Show, EnsureReady, GetDownloadUrl, ReadText, ReadTextFails, Answer, env
<1>2. \A v \in Readers : v # u => view'[v] = view[v]
  BY DEF ReadStep, Show, EnsureReady, GetDownloadUrl, ReadText, ReadTextFails, Answer
<1>3. ViewTexts(NoView)
  BY DEF ViewTexts, NoView
<1>4. ViewTexts(view'[u])
  <2>1. ASSUME NEW d \in Docs, Show(u, d) PROVE ViewTexts(view'[u])
    <3>1. view'[u] = [NoView EXCEPT !.pc = "text", !.doc = d, !.excused = Copying(d) \/ d \in abandoned]
      BY <2>1 DEF Show
    <3>2. view'[u].pc = "text" /\ view'[u].doc = d
      BY <3>1 DEF NoView
    <3>3. view'[u].excused <=> (Copying(d) \/ d \in abandoned)
      BY <3>1, Zenon DEF NoView
    <3>4. Copying(d) \/ d \in abandoned \/ text[d] # None
      BY <2>1 DEF Show, TextInv, RowTexts
    <3>. QED BY <3>2, <3>3, <3>4 DEF ViewTexts
  <2>2. ASSUME NEW d \in Docs, EnsureReady(u, d) PROVE ViewTexts(view'[u])
    BY <2>2 DEF EnsureReady, ViewTexts, NoView
  <2>3. ASSUME NEW d \in Docs, GetDownloadUrl(u, d) PROVE ViewTexts(view'[u])
    BY <2>3 DEF GetDownloadUrl, ViewTexts, NoView
  <2>4. CASE ReadText(u)
    <3>. DEFINE d == view[u].doc
    <3>1. d \in Docs /\ text[d] \in {None, content[d]}
      BY <2>4 DEF ReadText, Views, DataInv, ContentIsOwn
    <3>2. CASE view[u].kind = "show"
      <4>1. view'[u] = [view[u] EXCEPT !.pc = "analyses", !.text = text[d]]
        BY <2>4, <3>2 DEF ReadText
      <4>2. /\ view'[u].pc = "analyses" /\ view'[u].doc = d /\ view'[u].text = text[d]
            /\ view'[u].excused = view[u].excused
        BY <4>1 DEF Views
      <4>3. ~ view[u].excused => text[d] # None
        BY <2>4, <3>2 DEF ReadText, ViewTexts
      <4>. QED BY <3>1, <4>2, <4>3 DEF ViewTexts
    <3>3. CASE view[u].kind # "show" /\ ReadyWith(text[d])
      <4>1. view'[u] = [view[u] EXCEPT !.pc = "ready", !.text = text[d]]
        BY <2>4, <3>3 DEF ReadText
      <4>2. view'[u].pc = "ready" /\ view'[u].doc = d
        BY <4>1 DEF Views
      <4>. QED BY <3>3, <4>2 DEF ViewTexts, ReadyWith
    <3>4. CASE view[u].kind # "show" /\ ~ ReadyWith(text[d])
      BY <1>3, <2>4, <3>4 DEF ReadText
    <3>. QED BY <3>2, <3>3, <3>4
  <2>5. CASE ReadTextFails(u)
    <3>1. CASE view[u].kind = "show"
      <4>1. view'[u] = [view[u] EXCEPT !.pc = "analyses", !.excused = TRUE]
        BY <2>5, <3>1 DEF ReadTextFails
      <4>2. view'[u].pc = "analyses" /\ view'[u].excused
        BY <4>1 DEF Views
      <4>. QED BY <4>2 DEF ViewTexts
    <3>. QED BY <1>3, <2>5, <3>1 DEF ReadTextFails
  <2>6. CASE Answer(u)
    BY <1>3, <2>6 DEF Answer
  <2>. QED BY <2>1, <2>2, <2>3, <2>4, <2>5, <2>6 DEF ReadStep
<1>5. ASSUME NEW v \in Readers PROVE ViewTexts(view'[v])
  BY <1>2, <1>4 DEF TextInv
<1>. QED BY <1>1, <1>5

LEMMA NextTexts == Typed /\ DataInv /\ TextInv /\ [Next]_vars => TextInv'
<1>. SUFFICES ASSUME Typed, DataInv, TextInv, [Next]_vars PROVE TextInv'
  OBVIOUS
<1>0. DataInv'
  BY NextData
<1>1. ASSUME NEW w \in Workers, RunStep(w) \/ RunFault(w) PROVE TextInv'
  <2>1. UNCHANGED view
    BY <1>1 DEF RunStep, RunFault, Raise, Cleanup, CheckCancelled, CheckPath, WriteMissing,
       MarkScanning, Scan, WriteInfected, PublishUpload, MarkUploading, CheckObject, PutObject,
       WriteUploaded, PublishExtract, WriteFailed, LoadDocument, CheckLocal, RestoreMissing,
       MarkExtracting, Extract, RestoreAgain, ExtractAgain, StoreText, WriteExtracted,
       UnlinkLocal, CreateAnalysis, PublishEvent, OnFailure, Recheck, WriteFailure,
       MarkAnalysisFailed, AccessFails, HandlerFails, RunLost, Publish, Restore, requests
  <2>. QED BY <1>0, <1>1, <2>1, WorkerEffect, WorkerKeepsTexts, WorkerTexts, RunKeepsTexts
<1>2. ASSUME NEW w \in Workers, NEW m \in Messages, Take(w, m) PROVE TextInv'
  <2>1. UNCHANGED view
    BY <1>2 DEF Take, requests
  <2>. QED BY <1>0, <1>2, <2>1, TakeKeepsData, TakeTexts, RunKeepsTexts
<1>3. ASSUME NEW d \in Docs, UploadStep(d) \/ RequestFault(d) \/ CancelRead(d) \/ CancelStep(d)
      PROVE  TextInv'
  <2>1. RequestEffect(d)
    BY <1>3, UploadKeepsData, RequestFaultKeepsData, CancelKeepsData
  <2>. QED BY <1>0, <1>3, <2>1, UploadTexts, RequestKeepsTexts
<1>4. ASSUME NEW d \in Docs, NEW c \in Contents, ReceiveFile(d, c) PROVE TextInv'
  BY <1>0, <1>4, ReceiveTexts
<1>5. ASSUME NEW u \in Readers, ReadStep(u) PROVE TextInv'
  <2>1. /\ UNCHANGED <<row, stores, analyses, queue, run, up, content, abandoned>>
        /\ \A v \in Readers : ViewTexts(view'[v])
    BY <1>5, ReadTexts
  <2>. QED BY <2>1 DEF TextInv, RequestTexts, RowTexts, RunTexts, ViewTexts, Copying, row, stores,
                       analyses
<1>6. CASE UNCHANGED vars
  BY <1>6 DEF vars, row, stores, analyses, requests, env, TextInv, RequestTexts, RowTexts,
     RunTexts, ViewTexts, Copying
<1>. QED BY <1>1, <1>2, <1>3, <1>4, <1>5, <1>6 DEF Next

LEMMA InitTexts == Init => TextInv
<1>. SUFFICES ASSUME Init PROVE TextInv
  OBVIOUS
<1>1. \A d \in Docs : RequestTexts(d)
  BY DEF Init, NoUpload, RequestTexts
<1>2. \A d \in Docs : RowTexts(d)
  <2>1. \A d \in Docs : ~ requested[d]
    BY Zenon DEF Init
  <2>. QED BY <2>1 DEF Init, RowTexts
<1>3. \A w \in Workers : RunTexts(run[w])
  BY DEF Init, Idle, RunTexts
<1>4. \A u \in Readers : ViewTexts(view[u])
  BY DEF Init, NoView, ViewTexts
<1>. QED BY <1>1, <1>2, <1>3, <1>4 DEF Init, TextInv

\* The inductive invariant of the texts.
THEOREM TextsAlways == Spec => []TextInv
<1>1. Typed /\ DataInv /\ TextInv /\ [Next]_vars => TextInv'
  BY NextTexts
<1>. QED BY <1>1, InitTexts, TypedAlways, DataAlways, PTL DEF Spec

\* A document is extracted only with its text stored, unless its upload is still copying
\* it or was lost, for any number of documents, workers, faults and repeated messages.
THEOREM ExtractedHasTextAlways == Spec => []ExtractedHasText
<1>1. TextInv => ExtractedHasText
  BY DEF TextInv, RowTexts, ExtractedHasText
<1>. QED BY <1>1, TextsAlways, PTL

\* The consumer is never asked to analyse a document without a text, by no path, retry or
\* repeated message.
THEOREM RequestedHasTextAlways == Spec => []RequestedHasText
<1>1. TextInv => RequestedHasText
  BY DEF TextInv, RowTexts, RequestedHasText
<1>. QED BY <1>1, TextsAlways, PTL

\* What a reading request answers is still true when the user has it, although its reads
\* were apart and from two databases.
THEOREM AnswersAreTrueAlways == Spec => []AnswersAreTrue
<1>1. Typed /\ DataInv /\ TextInv => AnswersAreTrue
  <2>. SUFFICES ASSUME Typed, DataInv, TextInv, NEW u \in Readers, view[u].pc # "idle"
                PROVE  LET d == view[u].doc IN
                       /\ view[u].pc = "linked" => object[view[u].key] = content[d]
                       /\ view[u].pc = "ready" => text[d] = content[d] /\ text[d] \notin Blank
                       /\ view[u].pc = "analyses" /\ ~ view[u].excused => view[u].text = content[d]
    BY DEF AnswersAreTrue
  <2>1. view[u].doc \in Docs /\ ViewTexts(view[u])
    BY DEF Typed, TypeOK, Views, TextInv
  <2>. QED BY <2>1, ContentsAssumption DEF ViewTexts, DataInv, StoredHasObject, ContentIsOwn
<1>. QED BY <1>1, TypedAlways, DataAlways, TextsAlways, PTL
=============================================================================

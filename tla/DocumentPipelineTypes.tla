------------------------ MODULE DocumentPipelineTypes ------------------------
(***************************************************************************)
(* Type correctness of DocumentPipeline, for every value of its constants. *)
(* A step changes few variables, most of them through an operator of its   *)
(* own (Goto, SaveStatus, Enqueue, ...).  The lemmas of the first part say *)
(* that each such operator keeps its variable in its type; the second part *)
(* goes through the actions and cites them.                                *)
(***************************************************************************)
EXTENDS DocumentPipeline, TLAPS

\* A worker that is not idle executes a message of some document.
RunsHaveDocuments == \A w \in Workers : run[w].pc # "idle" => run[w].doc \in Docs

RunsTyped == run \in [Workers -> Runs] /\ RunsHaveDocuments

\* TypeOK alone is not inductive: a run reads the row of the document it names.
Typed == TypeOK /\ RunsHaveDocuments

-----------------------------------------------------------------------------
(* Constants and the operators that change one variable.                    *)

LEMMA RunPcNames ==
  /\ "idle" \in RunPcs /\ "check_cancelled" \in RunPcs /\ "check_path" \in RunPcs
  /\ "write_missing" \in RunPcs /\ "mark_scanning" \in RunPcs /\ "scan" \in RunPcs
  /\ "write_infected" \in RunPcs /\ "publish_upload" \in RunPcs /\ "mark_uploading" \in RunPcs
  /\ "check_object" \in RunPcs /\ "put_object" \in RunPcs /\ "write_uploaded" \in RunPcs
  /\ "publish_extract" \in RunPcs /\ "load" \in RunPcs /\ "check_local" \in RunPcs
  /\ "restore" \in RunPcs /\ "mark_extracting" \in RunPcs /\ "extract" \in RunPcs
  /\ "restore_again" \in RunPcs /\ "extract_again" \in RunPcs /\ "store_text" \in RunPcs
  /\ "write_extracted" \in RunPcs /\ "unlink" \in RunPcs /\ "create_analysis" \in RunPcs
  /\ "publish_event" \in RunPcs /\ "write_failed" \in RunPcs /\ "cleanup" \in RunPcs
  /\ "raise" \in RunPcs /\ "on_failure" \in RunPcs /\ "recheck" \in RunPcs
  /\ "write_failure" \in RunPcs /\ "mark_dispatch_failed" \in RunPcs
  BY DEF RunPcs

LEMMA UpPcNames ==
  /\ "absent" \in UpPcs /\ "lookup" \in UpPcs /\ "texts" \in UpPcs /\ "create" \in UpPcs
  /\ "send" \in UpPcs /\ "upsert" \in UpPcs /\ "degrade" \in UpPcs /\ "unlink" \in UpPcs
  /\ "create_analysis" \in UpPcs /\ "publish_event" \in UpPcs
  /\ "mark_dispatch_failed" \in UpPcs /\ "mark_failed" \in UpPcs /\ "remove" \in UpPcs
  /\ "done" \in UpPcs
  BY DEF UpPcs

LEMMA StatusNames ==
  /\ "none" \in Statuses /\ "created" \in Statuses /\ "scanning" \in Statuses
  /\ "uploading" \in Statuses /\ "uploaded" \in Statuses /\ "extracting" \in Statuses
  /\ "extracted" \in Statuses /\ "infected" \in Statuses /\ "failed" \in Statuses
  /\ "cancelled" \in Statuses
  BY DEF Statuses

LEMMA TaskNames == "scan" \in Tasks /\ "upload" \in Tasks /\ "extract" \in Tasks
  BY DEF Tasks

LEMMA NoInstanceTyped == NoInstance \in Instances
  BY StatusNames DEF NoInstance, Instances

LEMMA IdleTyped == Idle \in Runs /\ Idle.pc = "idle"
  BY BoundsAssumption, RunPcNames, TaskNames, NoInstanceTyped DEF Idle, Runs

LEMMA InstanceTyped ==
  ASSUME TypeOK, NEW d \in Docs
  PROVE  Instance(d) \in Instances
  BY DEF TypeOK, Instance, Instances

LEMMA GotoTyped ==
  ASSUME RunsTyped, NEW w \in Workers, run[w].pc # "idle", NEW pc \in RunPcs, Goto(w, pc)
  PROVE  RunsTyped'
  BY DEF RunsTyped, RunsHaveDocuments, Goto, Runs

LEMMA EndTyped ==
  ASSUME RunsTyped, NEW w \in Workers, End(w)
  PROVE  RunsTyped'
  BY IdleTyped DEF RunsTyped, RunsHaveDocuments, End

LEMMA SeenTyped ==
  ASSUME RunsTyped, NEW w \in Workers, run[w].pc # "idle", NEW pc \in RunPcs,
         NEW seen \in Instances, run' = [run EXCEPT ![w].pc = pc, ![w].seen = seen]
  PROVE  RunsTyped'
  BY DEF RunsTyped, RunsHaveDocuments, Runs

LEMMA TextTyped ==
  ASSUME RunsTyped, NEW w \in Workers, run[w].pc # "idle", NEW pc \in RunPcs,
         NEW c \in Contents \cup {None}, run' = [run EXCEPT ![w].pc = pc, ![w].text = c]
  PROVE  RunsTyped'
  BY DEF RunsTyped, RunsHaveDocuments, Runs

LEMMA SaveStatusTyped ==
  ASSUME TypeOK, NEW d, NEW seen, NEW st \in Statuses, SaveStatus(d, seen, st)
  PROVE  status' \in [Docs -> Statuses]
  BY DEF TypeOK, SaveStatus, Written

LEMMA ClearNameTyped ==
  ASSUME TypeOK, NEW d, NEW seen, ClearName(d, seen)
  PROVE  named' \in [Docs -> BOOLEAN]
  BY DEF TypeOK, ClearName, Written

LEMMA RemoveFileTyped ==
  ASSUME TypeOK, NEW d \in Docs, RemoveFile(d)
  PROVE  /\ temp' \in [Docs -> Contents \cup {None}]
         /\ faults' \in Nat /\ abandoned' \in SUBSET Docs /\ littered' \in SUBSET Docs
  BY DEF TypeOK, RemoveFile, Fault, env

LEMMA FaultTyped ==
  ASSUME TypeOK, Fault \/ UNCHANGED faults
  PROVE  faults' \in Nat
  BY DEF TypeOK, Fault

LEMMA EnqueueTyped ==
  ASSUME TypeOK, NEW m, NEW n \in Nat, Enqueue(m, n)
  PROVE  queue' \in [Messages -> Nat]
<1>1. queue \in [Messages -> Nat]
  BY DEF TypeOK
<1>2. \A x \in Messages : queue[x] \in Nat /\ queue[x] + n \in Nat
  BY <1>1
<1>3. queue' = [x \in Messages |-> IF x = m THEN queue[x] + n ELSE queue[x]]
  BY <1>1 DEF Enqueue
<1>. QED BY <1>2, <1>3

LEMMA AnalysisTyped ==
  ASSUME TypeOK, NEW d, GetOrCreateAnalysis(d) \/ MarkDispatchFailed(d)
  PROVE  analysis' \in [Docs -> {"none", "queued", "failed"}]
  BY DEF TypeOK, GetOrCreateAnalysis, MarkDispatchFailed

LEMMA AbortTyped ==
  ASSUME RunsTyped, NEW w \in Workers, run[w].pc # "idle", NEW pc \in RunPcs,
         run' = [run EXCEPT ![w].pc = pc, ![w].seen = NoInstance, ![w].text = None]
  PROVE  RunsTyped'
<1>1. ASSUME NEW seen \in Instances, NEW c \in Contents \cup {None}
      PROVE  [run EXCEPT ![w].pc = pc, ![w].seen = seen, ![w].text = c] \in [Workers -> Runs]
  BY DEF RunsTyped, Runs
<1>2. run' \in [Workers -> Runs]
  BY <1>1, NoInstanceTyped
<1>. QED BY <1>2 DEF RunsTyped, RunsHaveDocuments, Runs

LEMMA EscapesTyped ==
  ASSUME RunsTyped, NEW w \in Workers, run[w].pc # "idle", Escapes(w)
  PROVE  RunsTyped'
  BY AbortTyped, RunPcNames DEF Escapes

LEMMA AcknowledgedTyped ==
  ASSUME TypeOK, NEW w, NEW ACTION next, Acknowledged(w, next)
  PROVE  faults' \in Nat /\ (next \/ Escapes(w))
  BY FaultTyped DEF Acknowledged, Escapes

LEMMA RowTyped ==
  ASSUME TypeOK, NEW d \in Docs, CreateRow(d)
  PROVE  /\ status' \in [Docs -> Statuses] /\ named' \in [Docs -> BOOLEAN]
         /\ key' \in [Docs -> Docs \cup {None}]
<1>1. up[d].path \in Paths /\ up[d].key \in Docs \cup {None}
  BY DEF TypeOK, Uploads
<1>2. InitialStatus[up[d].path] \in Statuses
  BY <1>1, StatusNames DEF InitialStatus, Paths
<1>. QED BY <1>1, <1>2 DEF TypeOK, CreateRow

-----------------------------------------------------------------------------
(* The actions of a worker.                                                 *)

LEMMA RunTyped ==
  ASSUME Typed, NEW w \in Workers, RunStep(w) \/ RunFault(w)
  PROVE  Typed'
<1>. RunsTyped
  BY DEF Typed, TypeOK, RunsTyped
<1>1. CASE Raise(w)
  <2>1. RunsTyped'
    BY <1>1, GotoTyped, EndTyped, RunPcNames DEF Raise, At, FailurePc
  <2>2. queue' \in [Messages -> Nat]
    BY <1>1, EnqueueTyped DEF Raise, Typed, TypeOK
  <2>. QED BY <1>1, <2>1, <2>2
       DEF Raise, Typed, TypeOK, RunsTyped, row, stores, analyses, requests, env
<1>2. CASE Cleanup(w)
  <2>1. RunsTyped'
    BY <1>2, EndTyped, RunPcNames DEF Cleanup, At
  <2>2. /\ temp' \in [Docs -> Contents \cup {None}]
       /\ faults' \in Nat /\ abandoned' \in SUBSET Docs /\ littered' \in SUBSET Docs
    BY <1>2, RemoveFileTyped DEF Cleanup, At, Doc, Typed, RunsHaveDocuments
  <2>. QED BY <1>2, <2>1, <2>2
       DEF Cleanup, Typed, TypeOK, RunsTyped, row, stores, analyses, requests, env
<1>3. CASE CheckCancelled(w)
  <2>1. RunsTyped'
    BY <1>3, GotoTyped, RunPcNames DEF CheckCancelled, At
  <2>. QED BY <1>3, <2>1
       DEF CheckCancelled, Typed, TypeOK, RunsTyped, row, stores, analyses, requests, env
<1>4. CASE CheckPath(w)
  <2>1. RunsTyped'
    BY <1>4, GotoTyped, RunPcNames DEF CheckPath, At, AfterPathCheck
  <2>. QED BY <1>4, <2>1
       DEF CheckPath, Typed, TypeOK, RunsTyped, row, stores, analyses, requests, env
<1>5. CASE WriteMissing(w)
  <2>1. faults' \in Nat /\ (End(w) \/ Escapes(w))
    BY <1>5, AcknowledgedTyped DEF WriteMissing, Typed
  <2>2. RunsTyped'
    BY <1>5, <2>1, EndTyped, EscapesTyped DEF WriteMissing, At
  <2>3. status' \in [Docs -> Statuses]
    BY <1>5, SaveStatusTyped, StatusNames DEF WriteMissing, Typed
  <2>4. named' \in [Docs -> BOOLEAN]
    BY <1>5, ClearNameTyped DEF WriteMissing, Typed
  <2>. QED BY <1>5, <2>1, <2>2, <2>3, <2>4
       DEF WriteMissing, Typed, TypeOK, RunsTyped, row, stores, analyses, requests, env
<1>6. CASE MarkScanning(w)
  <2>1. RunsTyped'
    BY <1>6, GotoTyped, RunPcNames DEF MarkScanning, At
  <2>2. status' \in [Docs -> Statuses]
    BY <1>6, SaveStatusTyped, StatusNames DEF MarkScanning, Typed
  <2>. QED BY <1>6, <2>1, <2>2
       DEF MarkScanning, Typed, TypeOK, RunsTyped, row, stores, analyses, requests, env
<1>7. CASE Scan(w)
  <2>1. RunsTyped'
    BY <1>7, GotoTyped, RunPcNames DEF Scan, At, Verdict, Unavailable, WithoutScan
  <2>2. faults' \in Nat
    BY <1>7, FaultTyped DEF Scan, Typed, Verdict, Unavailable
  <2>. QED BY <1>7, <2>1, <2>2
       DEF Scan, Typed, TypeOK, RunsTyped, row, stores, analyses, requests, env
<1>8. CASE WriteInfected(w)
  <2>1. faults' \in Nat /\ (Goto(w, "cleanup") \/ Escapes(w))
    BY <1>8, AcknowledgedTyped DEF WriteInfected, Typed
  <2>2. RunsTyped'
    BY <1>8, <2>1, GotoTyped, EscapesTyped, RunPcNames DEF WriteInfected, At
  <2>3. status' \in [Docs -> Statuses]
    BY <1>8, SaveStatusTyped, StatusNames DEF WriteInfected, Typed
  <2>4. named' \in [Docs -> BOOLEAN]
    BY <1>8, ClearNameTyped DEF WriteInfected, Typed
  <2>. QED BY <1>8, <2>1, <2>2, <2>3, <2>4
       DEF WriteInfected, Typed, TypeOK, RunsTyped, row, stores, analyses, requests, env
<1>9. CASE PublishUpload(w)
  <2>1. RunsTyped'
    BY <1>9, GotoTyped, EndTyped, RunPcNames DEF PublishUpload, At, Publish
  <2>2. queue' \in [Messages -> Nat]
    BY <1>9, EnqueueTyped DEF PublishUpload, Publish, Typed, Copies
  <2>3. faults' \in Nat
    BY <1>9, FaultTyped DEF PublishUpload, Typed, Publish, Costs
  <2>. QED BY <1>9, <2>1, <2>2, <2>3
       DEF PublishUpload, Publish, Typed, TypeOK, RunsTyped, row, stores, analyses, requests, env
<1>10. CASE MarkUploading(w)
  <2>1. RunsTyped'
    BY <1>10, GotoTyped, RunPcNames DEF MarkUploading, At
  <2>2. status' \in [Docs -> Statuses]
    BY <1>10, SaveStatusTyped, StatusNames DEF MarkUploading, Typed
  <2>. QED BY <1>10, <2>1, <2>2
       DEF MarkUploading, Typed, TypeOK, RunsTyped, row, stores, analyses, requests, env
<1>11. CASE CheckObject(w)
  <2>1. RunsTyped'
    BY <1>11, GotoTyped, RunPcNames DEF CheckObject, At, AfterHead
  <2>2. faults' \in Nat
    BY <1>11, FaultTyped DEF CheckObject, Typed
  <2>. QED BY <1>11, <2>1, <2>2
       DEF CheckObject, Typed, TypeOK, RunsTyped, row, stores, analyses, requests, env
<1>12. CASE PutObject(w)
  <2>1. RunsTyped'
    BY <1>12, GotoTyped, SeenTyped, NoInstanceTyped, RunPcNames DEF PutObject, At, RaiseFinally, FailurePc
  <2>2. faults' \in Nat
    BY <1>12, FaultTyped DEF PutObject, Typed
  <2>3. object' \in [Docs -> Contents \cup {None}]
    BY <1>12 DEF PutObject, At, Doc, Typed, TypeOK, RunsHaveDocuments
  <2>. QED BY <1>12, <2>1, <2>2, <2>3
       DEF PutObject, Typed, TypeOK, RunsTyped, row, stores, analyses, requests, env
<1>13. CASE WriteUploaded(w)
  <2>1. RunsTyped'
    BY <1>13, GotoTyped, RunPcNames DEF WriteUploaded, At
  <2>2. status' \in [Docs -> Statuses]
    BY <1>13, SaveStatusTyped, StatusNames DEF WriteUploaded, Typed
  <2>3. key' \in [Docs -> Docs \cup {None}]
    BY <1>13 DEF WriteUploaded, At, Doc, Typed, TypeOK, RunsHaveDocuments
  <2>. QED BY <1>13, <2>1, <2>2, <2>3
       DEF WriteUploaded, Typed, TypeOK, RunsTyped, row, stores, analyses, requests, env
<1>14. CASE PublishExtract(w)
  <2>1. RunsTyped'
    BY <1>14, GotoTyped, EndTyped, RunPcNames DEF PublishExtract, At, Publish
  <2>2. queue' \in [Messages -> Nat]
    BY <1>14, EnqueueTyped DEF PublishExtract, Publish, Typed, Copies
  <2>3. faults' \in Nat
    BY <1>14, FaultTyped DEF PublishExtract, Typed, Publish, Costs
  <2>. QED BY <1>14, <2>1, <2>2, <2>3
       DEF PublishExtract, Publish, Typed, TypeOK, RunsTyped, row, stores, analyses, requests, env
<1>15. CASE WriteFailed(w)
  <2>1. faults' \in Nat /\ (Goto(w, "cleanup") \/ Escapes(w))
    BY <1>15, AcknowledgedTyped DEF WriteFailed, Typed
  <2>2. RunsTyped'
    BY <1>15, <2>1, GotoTyped, EscapesTyped, RunPcNames DEF WriteFailed, At
  <2>3. status' \in [Docs -> Statuses]
    BY <1>15, SaveStatusTyped, StatusNames DEF WriteFailed, Typed
  <2>4. named' \in [Docs -> BOOLEAN]
    BY <1>15, ClearNameTyped DEF WriteFailed, Typed
  <2>. QED BY <1>15, <2>1, <2>2, <2>3, <2>4
       DEF WriteFailed, Typed, TypeOK, RunsTyped, row, stores, analyses, requests, env
<1>16. CASE LoadDocument(w)
  <2>1. RunsTyped'
    BY <1>16, GotoTyped, EndTyped, SeenTyped, InstanceTyped, RunPcNames DEF LoadDocument, At, Typed, TypeOK, RunsHaveDocuments, Doc
  <2>. QED BY <1>16, <2>1
       DEF LoadDocument, Typed, TypeOK, RunsTyped, row, stores, analyses, requests, env
<1>17. CASE CheckLocal(w)
  <2>1. RunsTyped'
    BY <1>17, GotoTyped, RunPcNames DEF CheckLocal, At
  <2>. QED BY <1>17, <2>1
       DEF CheckLocal, Typed, TypeOK, RunsTyped, row, stores, analyses, requests, env
<1>18. CASE RestoreMissing(w)
  <2>1. RunsTyped'
    BY <1>18, GotoTyped, SeenTyped, NoInstanceTyped, RunPcNames DEF RestoreMissing, At, Restore, RaiseFinally, FailurePc
  <2>2. faults' \in Nat
    BY <1>18, FaultTyped DEF RestoreMissing, Typed, Restore
  <2>3. temp' \in [Docs -> Contents \cup {None}]
    BY <1>18 DEF RestoreMissing, Restore, At, Doc, Typed, TypeOK, RunsHaveDocuments
  <2>. QED BY <1>18, <2>1, <2>2, <2>3
       DEF RestoreMissing, Restore, Typed, TypeOK, RunsTyped, row, stores, analyses, requests, env
<1>19. CASE MarkExtracting(w)
  <2>1. status' \in [Docs -> Statuses]
    BY <1>19, SaveStatusTyped, StatusNames DEF MarkExtracting, Typed
  <2>2. Refreshed(run[w].seen, Doc(w)) \in Instances
    BY <1>19, <2>1, NoInstanceTyped
    DEF MarkExtracting, At, Doc, Refreshed, Instances, Typed, TypeOK, RunsHaveDocuments
  <2>3. RunsTyped'
    BY <1>19, <2>2, SeenTyped, RunPcNames DEF MarkExtracting, At, GotoRefreshed
  <2>. QED BY <1>19, <2>1, <2>3
       DEF MarkExtracting, Typed, TypeOK, RunsTyped, row, stores, analyses, requests, env
<1>20. CASE Extract(w)
  <2>1. RunsTyped'
    BY <1>20, GotoTyped, TextTyped, RunPcNames DEF Extract, At, Extracted, Runs, Doc, Typed, TypeOK
  <2>. QED BY <1>20, <2>1
       DEF Extract, Typed, TypeOK, RunsTyped, row, stores, analyses, requests, env
<1>21. CASE RestoreAgain(w)
  <2>1. RunsTyped'
    BY <1>21, GotoTyped, SeenTyped, NoInstanceTyped, RunPcNames DEF RestoreAgain, At, Restore, RaiseFinally, FailurePc
  <2>2. faults' \in Nat
    BY <1>21, FaultTyped DEF RestoreAgain, Typed, Restore
  <2>3. temp' \in [Docs -> Contents \cup {None}]
    BY <1>21 DEF RestoreAgain, Restore, At, Doc, Typed, TypeOK, RunsHaveDocuments
  <2>. QED BY <1>21, <2>1, <2>2, <2>3
       DEF RestoreAgain, Restore, Typed, TypeOK, RunsTyped, row, stores, analyses, requests, env
<1>22. CASE ExtractAgain(w)
  <2>1. RunsTyped'
    BY <1>22, TextTyped, SeenTyped, NoInstanceTyped, RunPcNames DEF ExtractAgain, At, Extracted, RaiseFinally, FailurePc, Runs, Doc, Typed, TypeOK
  <2>. QED BY <1>22, <2>1
       DEF ExtractAgain, Typed, TypeOK, RunsTyped, row, stores, analyses, requests, env
<1>23. CASE StoreText(w)
  <2>1. RunsTyped'
    BY <1>23, TextTyped, RunPcNames DEF StoreText, At, Runs, Doc, Typed, TypeOK
  <2>2. text' \in [Docs -> Contents \cup {None}]
    BY <1>23 DEF StoreText, Doc, Typed, TypeOK, Runs
  <2>. QED BY <1>23, <2>1, <2>2
       DEF StoreText, Typed, TypeOK, RunsTyped, row, stores, analyses, requests, env
<1>24. CASE WriteExtracted(w)
  <2>1. faults' \in Nat /\ (run' = [run EXCEPT ![w].pc = "unlink", ![w].seen = NoInstance] \/ Escapes(w))
    BY <1>24, AcknowledgedTyped DEF WriteExtracted, Typed
  <2>2. RunsTyped'
    BY <1>24, <2>1, SeenTyped, EscapesTyped, NoInstanceTyped, RunPcNames DEF WriteExtracted, At
  <2>3. status' \in [Docs -> Statuses]
    BY <1>24, SaveStatusTyped, StatusNames DEF WriteExtracted, Typed
  <2>4. named' \in [Docs -> BOOLEAN]
    BY <1>24, ClearNameTyped DEF WriteExtracted, Typed
  <2>. QED BY <1>24, <2>1, <2>2, <2>3, <2>4
       DEF WriteExtracted, Typed, TypeOK, RunsTyped, row, stores, analyses, requests, env
<1>25. CASE UnlinkLocal(w)
  <2>1. RunsTyped'
    BY <1>25, GotoTyped, RunPcNames DEF UnlinkLocal, At
  <2>2. /\ temp' \in [Docs -> Contents \cup {None}]
       /\ faults' \in Nat /\ abandoned' \in SUBSET Docs /\ littered' \in SUBSET Docs
    BY <1>25, RemoveFileTyped DEF UnlinkLocal, At, Doc, Typed, RunsHaveDocuments
  <2>. QED BY <1>25, <2>1, <2>2
       DEF UnlinkLocal, Typed, TypeOK, RunsTyped, row, stores, analyses, requests, env
<1>26. CASE CreateAnalysis(w)
  <2>1. RunsTyped'
    BY <1>26, GotoTyped, RunPcNames DEF CreateAnalysis, At
  <2>2. analysis' \in [Docs -> {"none", "queued", "failed"}]
    BY <1>26, AnalysisTyped DEF CreateAnalysis, Typed
  <2>. QED BY <1>26, <2>1, <2>2
       DEF CreateAnalysis, Typed, TypeOK, RunsTyped, row, stores, analyses, requests, env
<1>27. CASE PublishEvent(w)
  <2>1. RunsTyped'
    BY <1>27, GotoTyped, EndTyped, RunPcNames DEF PublishEvent, At
  <2>2. faults' \in Nat
    BY <1>27, FaultTyped DEF PublishEvent, Typed, Costs
  <2>3. requested' \in [Docs -> BOOLEAN]
    BY <1>27 DEF PublishEvent, Typed, TypeOK
  <2>. QED BY <1>27, <2>1, <2>2, <2>3
       DEF PublishEvent, Typed, TypeOK, RunsTyped, row, stores, analyses, requests, env
<1>28. CASE OnFailure(w)
  <2>1. RunsTyped'
    BY <1>28, GotoTyped, RunPcNames DEF OnFailure, At
  <2>. QED BY <1>28, <2>1
       DEF OnFailure, Typed, TypeOK, RunsTyped, row, stores, analyses, requests, env
<1>29. CASE Recheck(w)
  <2>1. RunsTyped'
    BY <1>29, GotoTyped, SeenTyped, InstanceTyped, RunPcNames DEF Recheck, At, Typed, TypeOK, RunsHaveDocuments, Doc
  <2>. QED BY <1>29, <2>1
       DEF Recheck, Typed, TypeOK, RunsTyped, row, stores, analyses, requests, env
<1>30. CASE WriteFailure(w)
  <2>1. RunsTyped'
    BY <1>30, SeenTyped, NoInstanceTyped, RunPcNames DEF WriteFailure, At
  <2>2. status' \in [Docs -> Statuses]
    BY <1>30, SaveStatusTyped, StatusNames DEF WriteFailure, Typed
  <2>3. named' \in [Docs -> BOOLEAN]
    BY <1>30, ClearNameTyped DEF WriteFailure, Typed
  <2>. QED BY <1>30, <2>1, <2>2, <2>3
       DEF WriteFailure, Typed, TypeOK, RunsTyped, row, stores, analyses, requests, env
<1>31. CASE MarkAnalysisFailed(w)
  <2>1. RunsTyped'
    BY <1>31, GotoTyped, RunPcNames DEF MarkAnalysisFailed, At
  <2>. QED BY <1>31, <2>1
       DEF MarkAnalysisFailed, Typed, TypeOK, RunsTyped, row, stores, analyses, requests, env
<1>32. CASE AccessFails(w)
  <2>1. RunsTyped'
    <3>1. run[w].pc # "idle"
      BY <1>32 DEF AccessFails, RaisingPcs
    <3>. QED BY <1>32, <3>1, EscapesTyped DEF AccessFails
  <2>2. faults' \in Nat
    BY <1>32, FaultTyped DEF AccessFails, Escapes, Typed
  <2>. QED BY <1>32, <2>1, <2>2
       DEF AccessFails, Typed, TypeOK, RunsTyped, row, stores, analyses, requests, env
<1>33. CASE HandlerFails(w)
  <2>1. RunsTyped'
    BY <1>33, SeenTyped, NoInstanceTyped, RunPcNames DEF HandlerFails, At
  <2>2. faults' \in Nat
    BY <1>33, FaultTyped DEF HandlerFails, Typed
  <2>3. abandoned' \in SUBSET Docs
    BY <1>33 DEF HandlerFails, Abandon, At, Doc, Typed, TypeOK, RunsHaveDocuments
  <2>. QED BY <1>33, <2>1, <2>2, <2>3
       DEF HandlerFails, Typed, TypeOK, RunsTyped, row, stores, analyses, requests, env
<1>34. CASE RunLost(w)
  <2>1. RunsTyped'
    BY <1>34, EndTyped, RunPcNames DEF RunLost, At
  <2>2. faults' \in Nat
    BY <1>34, FaultTyped DEF RunLost, Typed
  <2>3. abandoned' \in SUBSET Docs
    BY <1>34 DEF RunLost, Abandon, At, Doc, Typed, TypeOK, RunsHaveDocuments
  <2>. QED BY <1>34, <2>1, <2>2, <2>3
       DEF RunLost, Typed, TypeOK, RunsTyped, row, stores, analyses, requests, env
<1>. QED BY <1>1, <1>2, <1>3, <1>4, <1>5, <1>6, <1>7, <1>8, <1>9, <1>10, <1>11, <1>12, <1>13, <1>14, <1>15, <1>16, <1>17, <1>18, <1>19, <1>20, <1>21, <1>22, <1>23, <1>24, <1>25, <1>26, <1>27, <1>28, <1>29, <1>30, <1>31, <1>32, <1>33, <1>34 DEF RunStep, RunFault

-----------------------------------------------------------------------------
(* Messages, requests and the theorem.                                      *)

LEMMA TakeTyped ==
  ASSUME Typed, NEW w \in Workers, NEW m \in Messages, Take(w, m)
  PROVE  Typed'
<1>1. m.task \in Tasks /\ m.doc \in Docs /\ m.retries \in 0..MaxRetries
  BY DEF Messages
<1>2. FirstPc(m.task) \in RunPcs
  BY RunPcNames DEF FirstPc
<1>3. [pc |-> FirstPc(m.task), doc |-> m.doc, task |-> m.task, retries |-> m.retries,
       seen |-> NoInstance, text |-> None] \in Runs
  <2>1. PICK n \in Contents \cup {None} : n = None
    OBVIOUS
  <2>. QED BY <1>1, <1>2, <2>1, NoInstanceTyped DEF Runs
<1>4. run' \in [Workers -> Runs] /\ RunsHaveDocuments'
  BY <1>1, <1>3 DEF Take, Typed, TypeOK, RunsHaveDocuments
<1>5. queue' \in [Messages -> Nat]
  <2>1. queue \in [Messages -> Nat] /\ queue[m] \in Nat /\ queue[m] > 0
    BY DEF Take, Typed, TypeOK
  <2>2. queue[m] - 1 \in Nat
    BY <2>1
  <2>. QED BY <2>1, <2>2 DEF Take
<1>. QED BY <1>4, <1>5 DEF Take, Typed, TypeOK, row, stores, analyses, requests, env

LEMMA FoundTyped ==
  ASSUME NEW u \in Uploads, NEW pc \in UpPcs, NEW S \in SUBSET Docs
  PROVE  [u EXCEPT !.candidates = S, !.pc = pc] \in Uploads
  BY Zenon DEF Uploads

LEMMA PathTyped ==
  ASSUME NEW u \in Uploads, NEW pc \in UpPcs, NEW path \in Paths
  PROVE  [u EXCEPT !.pc = pc, !.path = path] \in Uploads
  BY Zenon DEF Uploads

LEMMA ChosenTyped ==
  ASSUME NEW u \in Uploads, NEW pc \in UpPcs, NEW path \in Paths, NEW S \in SUBSET Docs,
         NEW k \in Docs \cup {None}, NEW raw \in Contents \cup {None}
  PROVE  [u EXCEPT !.pc = pc, !.path = path, !.candidates = S, !.key = k, !.raw = raw] \in Uploads
  BY Zenon DEF Uploads

LEMMA UpGotoTyped ==
  ASSUME TypeOK, NEW d \in Docs, NEW pc \in UpPcs, UpGoto(d, pc)
  PROVE  up' \in [Docs -> Uploads]
  BY DEF TypeOK, UpGoto, Uploads

LEMMA UploadTyped ==
  ASSUME Typed, NEW d \in Docs, UploadStep(d)
  PROVE  Typed'
<1>. TypeOK /\ RunsHaveDocuments
  BY DEF Typed
<1>. USE UpPcNames
<1>1. CASE LookUpDuplicates(d)
  <2>1. ReuseCandidates(d) \in SUBSET Docs
    BY DEF ReuseCandidates
  <2>2. up' \in [Docs -> Uploads]
    <3>1. PICK pc \in UpPcs :
            up' = [up EXCEPT ![d].candidates = ReuseCandidates(d), ![d].pc = pc]
      BY <1>1 DEF LookUpDuplicates
    <3>. QED BY <2>1, <3>1, FoundTyped, Zenon DEF TypeOK
  <2>. QED BY <1>1, <2>2
       DEF LookUpDuplicates, Typed, TypeOK, RunsHaveDocuments, row, stores, analyses, env
<1>2. CASE LookUpTexts(d)
  <2>1. up' \in [Docs -> Uploads]
    <3>0. /\ {} \in SUBSET Docs /\ None \in Contents \cup {None}
          /\ "analysis_only" \in Paths /\ "extraction_only" \in Paths
          /\ up \in [Docs -> Uploads]
      BY DEF Paths, TypeOK
    <3>1. ASSUME NEW e \in TextSources(d), ChoosePath(d, "analysis_only", e, text[e])
          PROVE  up' \in [Docs -> Uploads]
      <4>1. e \in Docs /\ key[e] \in Docs \cup {None} /\ text[e] \in Contents \cup {None}
        BY <3>1 DEF TextSources, TypeOK, Uploads
      <4>2. up[d] \in Uploads
        BY <3>0
      <4>3. [up[d] EXCEPT !.pc = "create", !.path = "analysis_only", !.candidates = {},
                          !.key = key[e], !.raw = text[e]] \in Uploads
        BY <4>1, <4>2, <3>0, ChosenTyped, Zenon
      <4>. QED BY <3>1, <4>3, <3>0, Zenon DEF ChoosePath
    <3>2. ASSUME NEW e \in up[d].candidates, ChoosePath(d, "extraction_only", e, None)
          PROVE  up' \in [Docs -> Uploads]
      <4>1. e \in Docs /\ key[e] \in Docs \cup {None}
        BY <3>2 DEF TypeOK, Uploads
      <4>. QED BY <3>2, <4>1, <3>0, ChosenTyped, Zenon DEF ChoosePath
    <3>. QED BY <1>2, <3>1, <3>2 DEF LookUpTexts
  <2>2. faults' \in Nat
    BY <1>2, FaultTyped DEF LookUpTexts
  <2>. QED BY <1>2, <2>1, <2>2
       DEF LookUpTexts, Typed, TypeOK, RunsHaveDocuments, row, stores, analyses
<1>3. CASE CreateDocument(d)
  <2>1. CreateRow(d) /\ up' \in [Docs -> Uploads]
    BY <1>3, UpGotoTyped DEF CreateDocument
  <2>2. /\ status' \in [Docs -> Statuses] /\ named' \in [Docs -> BOOLEAN]
        /\ key' \in [Docs -> Docs \cup {None}]
    BY <2>1, RowTyped
  <2>. QED BY <1>3, <2>1, <2>2
       DEF CreateDocument, Typed, TypeOK, RunsHaveDocuments, stores, analyses, env
<1>4. CASE SendToQueue(d)
  <2>1. up' \in [Docs -> Uploads] /\ faults' \in Nat
    BY <1>4, UpGotoTyped, FaultTyped DEF SendToQueue, Costs
  <2>2. queue' \in [Messages -> Nat]
    BY <1>4, EnqueueTyped DEF SendToQueue, Copies
  <2>. QED BY <1>4, <2>1, <2>2
       DEF SendToQueue, Typed, TypeOK, RunsHaveDocuments, row, stores, analyses
<1>5. CASE CopyText(d)
  <2>1. up' \in [Docs -> Uploads] /\ faults' \in Nat
    BY <1>5, UpGotoTyped, FaultTyped DEF CopyText
  <2>2. text' \in [Docs -> Contents \cup {None}]
    BY <1>5 DEF CopyText, TypeOK, Uploads
  <2>. QED BY <1>5, <2>1, <2>2
       DEF CopyText, Typed, TypeOK, RunsHaveDocuments, row, analyses
<1>6. CASE Degrade(d)
  <2>1. status' \in [Docs -> Statuses]
    BY <1>6, SaveStatusTyped, StatusNames DEF Degrade
  <2>2. up' \in [Docs -> Uploads]
    <3>1. "extraction_only" \in Paths
      BY DEF Paths
    <3>. QED BY <1>6, <3>1, PathTyped, Zenon DEF Degrade, TypeOK
  <2>. QED BY <1>6, <2>1, <2>2
       DEF Degrade, Typed, TypeOK, RunsHaveDocuments, stores, analyses, env
<1>7. CASE RemoveAfterCopy(d)
  <2>1. up' \in [Docs -> Uploads]
    BY <1>7, UpGotoTyped DEF RemoveAfterCopy
  <2>2. /\ temp' \in [Docs -> Contents \cup {None}]
        /\ faults' \in Nat /\ abandoned' \in SUBSET Docs /\ littered' \in SUBSET Docs
    BY <1>7, RemoveFileTyped DEF RemoveAfterCopy
  <2>. QED BY <1>7, <2>1, <2>2
       DEF RemoveAfterCopy, Typed, TypeOK, RunsHaveDocuments, row, analyses
<1>8. CASE StartAnalysis(d)
  <2>1. up' \in [Docs -> Uploads] /\ analysis' \in [Docs -> {"none", "queued", "failed"}]
    BY <1>8, UpGotoTyped, AnalysisTyped DEF StartAnalysis
  <2>. QED BY <1>8, <2>1
       DEF StartAnalysis, Typed, TypeOK, RunsHaveDocuments, row, stores, env
<1>9. CASE SendEvent(d)
  <2>1. up' \in [Docs -> Uploads] /\ faults' \in Nat
    BY <1>9, UpGotoTyped, FaultTyped DEF SendEvent, Costs
  <2>2. requested' \in [Docs -> BOOLEAN]
    BY <1>9 DEF SendEvent, TypeOK
  <2>. QED BY <1>9, <2>1, <2>2
       DEF SendEvent, Typed, TypeOK, RunsHaveDocuments, row, stores
<1>10. CASE UndoDispatch(d)
  <2>1. up' \in [Docs -> Uploads]
    BY <1>10, UpGotoTyped DEF UndoDispatch
  <2>2. analysis' \in [Docs -> {"none", "queued", "failed"}]
    BY <1>10, AnalysisTyped DEF UndoDispatch, TypeOK
  <2>3. faults' \in Nat /\ abandoned' \in SUBSET Docs /\ littered' \in SUBSET Docs
    BY <1>10, FaultTyped DEF UndoDispatch, Abandon, env, TypeOK
  <2>. QED BY <1>10, <2>1, <2>2, <2>3
       DEF UndoDispatch, Typed, TypeOK, RunsHaveDocuments, row, stores
<1>11. CASE TryMarkFailed(d)
  <2>1. up' \in [Docs -> Uploads]
    BY <1>11, UpGotoTyped DEF TryMarkFailed
  <2>2. status' \in [Docs -> Statuses]
    BY <1>11, SaveStatusTyped, StatusNames DEF TryMarkFailed, TypeOK
  <2>3. named' \in [Docs -> BOOLEAN]
    BY <1>11, ClearNameTyped DEF TryMarkFailed, TypeOK
  <2>4. faults' \in Nat /\ abandoned' \in SUBSET Docs /\ littered' \in SUBSET Docs
    BY <1>11, FaultTyped DEF TryMarkFailed, Abandon, env, TypeOK
  <2>. QED BY <1>11, <2>1, <2>2, <2>3, <2>4
       DEF TryMarkFailed, Typed, TypeOK, RunsHaveDocuments, stores, analyses
<1>12. CASE RemoveFromTemp(d)
  <2>1. up' \in [Docs -> Uploads]
    BY <1>12, UpGotoTyped DEF RemoveFromTemp
  <2>2. /\ temp' \in [Docs -> Contents \cup {None}]
        /\ faults' \in Nat /\ abandoned' \in SUBSET Docs /\ littered' \in SUBSET Docs
    BY <1>12, RemoveFileTyped DEF RemoveFromTemp
  <2>. QED BY <1>12, <2>1, <2>2
       DEF RemoveFromTemp, Typed, TypeOK, RunsHaveDocuments, row, analyses
<1>. QED BY <1>1, <1>2, <1>3, <1>4, <1>5, <1>6, <1>7, <1>8, <1>9, <1>10, <1>11, <1>12
     DEF UploadStep

LEMMA ReceiveTyped ==
  ASSUME Typed, NEW d \in Docs, NEW c \in Contents, ReceiveFile(d, c)
  PROVE  Typed'
<1>1. up' \in [Docs -> Uploads]
  BY UpGotoTyped, UpPcNames DEF ReceiveFile, Typed
<1>2. temp' \in [Docs -> Contents \cup {None}] /\ content' \in [Docs -> Contents \cup {None}]
  BY DEF ReceiveFile, Typed, TypeOK
<1>. QED BY <1>1, <1>2
     DEF ReceiveFile, Typed, TypeOK, RunsHaveDocuments, row, analyses, env

LEMMA RequestFaultTyped ==
  ASSUME Typed, NEW d \in Docs, RequestFault(d)
  PROVE  Typed'
<1>. TypeOK /\ RunsHaveDocuments
  BY DEF Typed
<1>. USE UpPcNames
<1>1. CASE CreateOrphan(d)
  <2>1. CreateRow(d) /\ up' \in [Docs -> Uploads] /\ faults' \in Nat
    BY <1>1, UpGotoTyped, FaultTyped DEF CreateOrphan
  <2>2. /\ status' \in [Docs -> Statuses] /\ named' \in [Docs -> BOOLEAN]
        /\ key' \in [Docs -> Docs \cup {None}]
    BY <2>1, RowTyped
  <2>3. abandoned' \in SUBSET Docs
    BY <1>1 DEF CreateOrphan, Abandon, TypeOK
  <2>. QED BY <1>1, <2>1, <2>2, <2>3
       DEF CreateOrphan, Typed, TypeOK, RunsHaveDocuments, stores, analyses
<1>2. CASE UploadFails(d)
  <2>1. ErrorPc(up[d].pc) \in UpPcs
    BY <1>2 DEF UploadFails, ErrorPc
  <2>2. up' \in [Docs -> Uploads] /\ faults' \in Nat
    BY <1>2, <2>1, UpGotoTyped, FaultTyped DEF UploadFails
  <2>. QED BY <1>2, <2>2
       DEF UploadFails, Typed, TypeOK, RunsHaveDocuments, row, stores, analyses
<1>3. CASE UploadLost(d)
  <2>1. up' \in [Docs -> Uploads] /\ faults' \in Nat
    BY <1>3, UpGotoTyped, FaultTyped DEF UploadLost
  <2>2. abandoned' \in SUBSET Docs
    BY <1>3 DEF UploadLost, Abandon, TypeOK
  <2>. QED BY <1>3, <2>1, <2>2
       DEF UploadLost, Typed, TypeOK, RunsHaveDocuments, row, stores, analyses
<1>4. CASE CancelLost(d)
  <2>1. faults' \in Nat
    BY <1>4, FaultTyped DEF CancelLost
  <2>2. cancel' \in [Docs -> Cancels] /\ littered' \in SUBSET Docs
    BY <1>4, NoInstanceTyped DEF CancelLost, NoCancel, Cancels, TypeOK
  <2>. QED BY <1>4, <2>1, <2>2
       DEF CancelLost, Typed, TypeOK, RunsHaveDocuments, row, stores, analyses
<1>. QED BY <1>1, <1>2, <1>3, <1>4 DEF RequestFault

LEMMA CancelTyped ==
  ASSUME Typed, NEW d \in Docs, CancelRead(d) \/ CancelStep(d)
  PROVE  Typed'
<1>. TypeOK /\ RunsHaveDocuments
  BY DEF Typed
<1>1. CASE CancelRead(d)
  <2>1. cancel' \in [Docs -> Cancels]
    BY <1>1, InstanceTyped DEF CancelRead, Cancels, TypeOK
  <2>2. cancels' \in Nat
    BY <1>1 DEF CancelRead, TypeOK
  <2>. QED BY <1>1, <2>1, <2>2
       DEF CancelRead, Typed, TypeOK, RunsHaveDocuments, row, stores, analyses, env
<1>2. CASE CancelWrite(d)
  <2>1. status' \in [Docs -> Statuses]
    BY <1>2, SaveStatusTyped, StatusNames DEF CancelWrite
  <2>2. named' \in [Docs -> BOOLEAN]
    BY <1>2, ClearNameTyped DEF CancelWrite
  <2>3. cancel' \in [Docs -> Cancels]
    BY <1>2, NoInstanceTyped DEF CancelWrite, NoCancel, Cancels, TypeOK
  <2>. QED BY <1>2, <2>1, <2>2, <2>3
       DEF CancelWrite, Typed, TypeOK, RunsHaveDocuments, stores, analyses, env
<1>3. CASE CancelUnlink(d)
  <2>1. /\ temp' \in [Docs -> Contents \cup {None}]
        /\ faults' \in Nat /\ abandoned' \in SUBSET Docs /\ littered' \in SUBSET Docs
    BY <1>3, RemoveFileTyped DEF CancelUnlink
  <2>2. cancel' \in [Docs -> Cancels]
    BY <1>3, NoInstanceTyped DEF CancelUnlink, NoCancel, Cancels, TypeOK
  <2>. QED BY <1>3, <2>1, <2>2
       DEF CancelUnlink, Typed, TypeOK, RunsHaveDocuments, row, analyses
<1>. QED BY <1>1, <1>2, <1>3 DEF CancelStep

LEMMA ReadTyped ==
  ASSUME Typed, NEW u \in Readers, ReadStep(u)
  PROVE  Typed'
<1>. TypeOK /\ RunsHaveDocuments
  BY DEF Typed
<1>. UNCHANGED <<row, stores, analyses, queue, run, up, cancel, content, cancels, abandoned, littered>>
  BY DEF ReadStep, Show, EnsureReady, GetDownloadUrl, ReadText, ReadTextFails, Answer, env
<1>1. faults' \in Nat
  BY FaultTyped DEF ReadStep, Show, EnsureReady, GetDownloadUrl, ReadText, ReadTextFails, Answer, env
<1>2. \A d \in Docs, excused \in BOOLEAN :
        [NoView EXCEPT !.pc = "text", !.doc = d, !.excused = excused] \in Views
  BY DEF NoView, Views
<1>3. \A d \in Docs : /\ [NoView EXCEPT !.pc = "text", !.kind = "check", !.doc = d] \in Views
                      /\ [NoView EXCEPT !.pc = "linked", !.doc = d, !.key = key[d]] \in Views
  BY DEF NoView, Views, TypeOK
<1>4. NoView \in Views
  BY DEF NoView, Views
<1>5. view' \in [Readers -> Views]
  <2>1. CASE \E d \in Docs : Show(u, d)
    BY <2>1, <1>2 DEF Show, TypeOK
  <2>2. CASE \E d \in Docs : EnsureReady(u, d) \/ GetDownloadUrl(u, d)
    BY <2>2, <1>3 DEF EnsureReady, GetDownloadUrl, TypeOK
  <2>3. CASE ReadText(u)
    <3>1. view[u] \in Views /\ text[view[u].doc] \in Contents \cup {None}
      BY <2>3 DEF ReadText, TypeOK, Views
    <3>2. ASSUME NEW t \in Contents \cup {None}, NEW pc \in {"analyses", "ready"}
          PROVE  [view[u] EXCEPT !.pc = pc, !.text = t] \in Views
      BY <2>3, <3>1 DEF ReadText, Views
    <3>3. \E v \in Views : view' = [view EXCEPT ![u] = v]
      BY <2>3, <3>1, <3>2, <1>4 DEF ReadText
    <3>. QED BY <3>3 DEF TypeOK
  <2>4. CASE ReadTextFails(u)
    <3>1. [view[u] EXCEPT !.pc = "analyses", !.excused = TRUE] \in Views
      <4>. DEFINE Untied == [pc : {"idle", "text", "analyses", "ready", "linked"},
                             kind : {"show", "check"}, doc : Docs \cup {None},
                             key : Docs \cup {None}, text : Contents \cup {None},
                             excused : BOOLEAN]
                  shown == [view[u] EXCEPT !.pc = "analyses", !.excused = TRUE]
      <4>1. view[u] \in Untied /\ view[u].doc \in Docs
        BY <2>4 DEF ReadTextFails, TypeOK, Views
      <4>2. shown \in Untied
        BY <4>1, Zenon
      <4>3. shown.doc = view[u].doc
        BY <4>1
      <4>. QED BY <4>1, <4>2, <4>3 DEF Views
    <3>2. \E v \in Views : view' = [view EXCEPT ![u] = v]
      BY <2>4, <3>1, <1>4 DEF ReadTextFails
    <3>. QED BY <3>2 DEF TypeOK
  <2>5. CASE Answer(u)
    BY <2>5, <1>4 DEF Answer, TypeOK
  <2>. QED BY <2>1, <2>2, <2>3, <2>4, <2>5 DEF ReadStep
<1>. QED BY <1>1, <1>5 DEF Typed, TypeOK, RunsHaveDocuments, row, stores, analyses

LEMMA InitTyped == Init => Typed
<1>1. NoUpload \in Uploads
  <2>1. PICK n \in Contents \cup {None} : n = None
    OBVIOUS
  <2>. QED BY <2>1, UpPcNames DEF NoUpload, Uploads, Paths
<1>2. NoCancel \in Cancels
  BY NoInstanceTyped DEF NoCancel, Cancels
<1>3. "none" \in Statuses
  BY StatusNames
<1>4. NoView \in Views
  BY DEF NoView, Views
<1>. QED BY <1>1, <1>2, <1>3, <1>4, IdleTyped DEF Init, Typed, TypeOK, RunsHaveDocuments

LEMMA NextTyped == Typed /\ [Next]_vars => Typed'
<1>. SUFFICES ASSUME Typed, [Next]_vars PROVE Typed'
  OBVIOUS
<1>1. CASE UNCHANGED vars
  BY <1>1 DEF vars, row, stores, analyses, requests, env, Typed, TypeOK, RunsHaveDocuments
<1>2. CASE Next
  BY <1>2, TakeTyped, RunTyped, ReceiveTyped, UploadTyped, RequestFaultTyped, CancelTyped, ReadTyped
  DEF Next
<1>. QED BY <1>1, <1>2

\* Every variable keeps its type, and every run that is under way has a document, for
\* any number of uploads, workers, contents, retries, faults and cancels.
THEOREM TypedAlways == Spec => []Typed
  BY InitTyped, NextTyped, PTL DEF Spec

\* Every reachable state is well typed.
THEOREM TypeCorrect == Spec => []TypeOK
<1>1. Typed => TypeOK
  BY DEF Typed
<1>. QED BY <1>1, TypedAlways, PTL
=============================================================================

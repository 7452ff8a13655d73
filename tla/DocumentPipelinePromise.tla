----------------------- MODULE DocumentPipelinePromise -----------------------
(***************************************************************************)
(* What the pipeline does with a document, for every value of the          *)
(* constants: it implements DocumentLife as long as no message is delivered*)
(* twice (KeepsPromise, ExtractedIsKept, EndedIsKept), and it leaves       *)
(* nothing behind (NoStuckDocument, NoQueuedOrphan, NoDanglingName,        *)
(* NoLeakedTempFile).                                                      *)
(*                                                                         *)
(* For the first the argument is that a document has one holder: its upload*)
(* request until it publishes, then one message or one run at a time.      *)
(* Nobody but the holder and the user's cancel writes the status, so what  *)
(* the holder knew of it when it moved is still true when it writes.       *)
(*                                                                         *)
(* For the second it is that each duty (to end the document's processing,  *)
(* to send its analysis, to remove its file) is with some request, message *)
(* or run, and passes to another before its holder goes.  Messages may be  *)
(* repeated there, since a copy of a duty is still that duty; only the file*)
(* needs one holder, for the run that ends without a look at it.           *)
(***************************************************************************)
EXTENDS DocumentPipelineData, DocumentPipelineLife

DeliveredOnce == PublishFaults \subseteq {"error"}

\* One holder.
OneMessage ==
  /\ \A m \in Messages : queue[m] <= 1
  /\ \A m, n \in Messages : queue[m] > 0 /\ queue[n] > 0 /\ m.doc = n.doc => m = n
OneRun ==
  /\ \A v, w \in Workers : run[v].pc # "idle" /\ run[w].pc # "idle" /\ run[v].doc = run[w].doc => v = w
  /\ \A w \in Workers, m \in Messages : queue[m] > 0 /\ run[w].pc # "idle" => run[w].doc # m.doc
Published ==
  /\ \A m \in Messages : queue[m] > 0 => up[m.doc].pc = "done"
  /\ \A w \in Workers : run[w].pc # "idle" => up[run[w].doc].pc = "done"

OneHolder == OneMessage /\ OneRun /\ Published

\* What the holder knows of the status.
Open == {"created", "scanning", "uploading", "uploaded", "extracting", "cancelled"}

RedispatchPcs == {"load", "unlink", "create_analysis", "publish_event", "raise", "on_failure",
                  "mark_dispatch_failed"}

\* An attempt may have ended the document without learning so: what is left of it, and
\* where an attempt that repeats it finds the end.
Ended == {"infected", "failed"}
FirstPcs == {"check_cancelled", "check_path", "write_missing", "mark_scanning", "mark_uploading",
             "load"}
AgainPcs == FirstPcs \cup {"raise", "on_failure", "recheck", "write_failure"}

\* Where a run can only be that of an extraction task.
ExtractPcs == LoadedPcs \cup (RedispatchPcs \ {"raise"})

MessageHolds(m) ==
  /\ \/ status[m.doc] \in Open
     \/ m.task = "extract" /\ status[m.doc] = "extracted"
     \/ /\ status[m.doc] \in Ended /\ m.retries > 0
        /\ m.task = "extract" => status[m.doc] = "failed"
  /\ m.task = "scan" => key[m.doc] = None
  /\ m.task # "extract" => text[m.doc] = None
RunHolds(r) ==
  /\ r.pc \notin {"idle", "cleanup"} =>
       \/ status[r.doc] \in Open
       \/ r.task = "extract" /\ r.pc \in RedispatchPcs /\ status[r.doc] = "extracted"
       \/ /\ status[r.doc] \in Ended /\ r.pc \in AgainPcs
          /\ r.task = "extract" => status[r.doc] = "failed"
          /\ r.pc \in FirstPcs => r.retries > 0
  /\ r.pc # "idle" /\ r.task = "scan" => key[r.doc] = None
  /\ r.pc # "idle" /\ r.task # "extract" => text[r.doc] = None
  /\ r.pc \in ExtractPcs => r.task = "extract"
  /\ r.pc = "write_infected" => r.task = "scan"
  /\ r.pc = "write_missing" => r.task # "extract"
RequestHolds(d) ==
  /\ up[d].pc \in {"absent", "lookup", "texts", "create"} => status[d] = "none" /\ text[d] = None
  /\ up[d].pc = "send" =>
       status[d] \in Open /\ (up[d].path = "full" => key[d] = None /\ text[d] = None)
  /\ up[d].pc \in {"upsert", "degrade"} => status[d] \in {"extracted", "cancelled"} /\ text[d] = None
  /\ up[d].pc = "mark_failed" =>
       status[d] \in Open \/ (status[d] = "extracted" /\ text[d] = None)
  /\ cancel[d].pc # "idle" => status[d] # "none"

HolderInv ==
  /\ OneHolder
  /\ \A m \in Messages : queue[m] > 0 => MessageHolds(m)
  /\ \A w \in Workers : RunHolds(run[w])
  /\ \A d \in Docs : RequestHolds(d)

-----------------------------------------------------------------------------
(* What a step shows to the user.                                           *)

Working == {"created", "scanning", "uploading", "uploaded", "extracting"}

Writes(d, st) == status' = [status EXCEPT ![d] = st] /\ UNCHANGED <<key, text, requested>>

\* All the holder of d may do: while the document is open it goes on or ends, an end that
\* was not acknowledged is taken back, a text is found for its object, and an analysis is
\* requested for its text.
Moves(d) ==
  \/ UNCHANGED <<status, key, text, requested>>
  \/ /\ status[d] \in Open
     /\ \/ \E st \in Working \cup {"failed", "cancelled"} : Writes(d, st)
        \/ Writes(d, "extracted") /\ key[d] # None /\ text[d] # None
        \/ Writes(d, "infected") /\ key[d] = None
        \/ /\ status' = [status EXCEPT ![d] = "uploaded"] /\ key' = [key EXCEPT ![d] = d]
           /\ UNCHANGED <<text, requested>>
  \/ /\ status[d] \in Ended /\ text[d] = None /\ Reopened(d)
     /\ \E st \in {"scanning", "uploading", "cancelled", "failed"} : Writes(d, st)
  \/ /\ status[d] # "none" /\ key[d] # None
     /\ \E c \in Contents : text' = [text EXCEPT ![d] = c]
     /\ UNCHANGED <<status, key, requested>>
  \/ /\ text[d] # None /\ requested' = [requested EXCEPT ![d] = TRUE]
     /\ UNCHANGED <<status, key, text>>

LEMMA SavedPlainly ==
  ASSUME NEW d \in Docs, NEW st, st # "none", SaveStatus(d, NoInstance, st)
  PROVE  status' = [status EXCEPT ![d] = st]
  BY DEF SaveStatus, Written, NoInstance

LEMMA SavedBy ==
  ASSUME Typed, NEW d \in Docs, NEW seen, NEW st, SaveStatus(d, seen, st)
  PROVE  status' = status \/ status' = [status EXCEPT ![d] = st]
  BY DEF Typed, TypeOK, SaveStatus, Written

LEMMA SentOnce ==
  ASSUME DeliveredOnce, NEW o \in Outcomes
  PROVE  (o = "ok" /\ ~ Raises(o) /\ Copies(o) = 1) \/ (o = "error" /\ Raises(o) /\ Copies(o) = 0)
  BY DEF DeliveredOnce, Outcomes, Raises, Copies

LEMMA Requested ==
  ASSUME Typed, NEW d \in Docs, NEW o, requested' = [requested EXCEPT ![d] = @ \/ Copies(o) > 0]
  PROVE  requested' = requested \/ requested' = [requested EXCEPT ![d] = TRUE]
<1>. requested \in [Docs -> BOOLEAN]
  BY DEF Typed, TypeOK
<1>1. CASE Copies(o) > 0
  <2>1. (requested[d] \/ Copies(o) > 0) = TRUE
    BY <1>1, Zenon
  <2>. QED BY <2>1, Zenon
<1>2. CASE ~ (Copies(o) > 0)
  <2>1. (requested[d] \/ Copies(o) > 0) = requested[d]
    <3>1. requested[d] \in BOOLEAN
      OBVIOUS
    <3>. QED BY <1>2, <3>1, Zenon
  <2>. QED BY <2>1
<1>. QED BY <1>1, <1>2

LEMMA MayGoOn ==
  ASSUME Typed, DataInv, HolderInv, NEW w \in Workers,
         run[w].pc \in {"write_missing", "mark_scanning", "mark_uploading"}
  PROVE  /\ Doc(w) \in Docs
         /\ \/ status[Doc(w)] \in Open
            \/ status[Doc(w)] \in Ended /\ text[Doc(w)] = None /\ Reopened(Doc(w))
<1>1. Doc(w) \in Docs /\ RunFacts(run[w]) /\ RunHolds(run[w])
  BY DEF Typed, RunsHaveDocuments, DataInv, RunsFacts, HolderInv, Doc
<1>2. run[w].task # "extract"
  BY <1>1 DEF RunFacts, RunHolds, ScanPcs, UploadPcs
<1>. QED BY <1>1, <1>2 DEF RunHolds, RedispatchPcs, FirstPcs, Reopened, Doc

LEMMA WorkerMoves ==
  ASSUME Typed, DataInv, TextInv, HolderInv, NEW w \in Workers, RunStep(w) \/ RunFault(w)
  PROVE  Moves(Doc(w))
<1>. DEFINE d == Doc(w)
<1>. /\ run \in [Workers -> Runs] /\ run[w] \in Runs
     /\ run[w].pc # "idle" => d \in Docs
     /\ RunFacts(run[w]) /\ RunTexts(run[w]) /\ RunHolds(run[w])
  BY DEF Typed, TypeOK, RunsHaveDocuments, DataInv, RunsFacts, TextInv, HolderInv, Doc
<1>. USE DEF At, Moves
<1>1. CASE Raise(w)
  BY <1>1 DEF Raise, row, stores, analyses
<1>2. CASE Cleanup(w)
  BY <1>2 DEF Cleanup, row, stores, analyses
<1>3. CASE CheckCancelled(w)
  BY <1>3 DEF CheckCancelled, row, stores, analyses
<1>4. CASE CheckPath(w)
  BY <1>4 DEF CheckPath, row, stores, analyses
<1>5. CASE WriteMissing(w)
  <2>1. \/ status[d] \in Open
        \/ status[d] \in Ended /\ text[d] = None /\ Reopened(d)
    BY <1>5, MayGoOn DEF WriteMissing
  <2>2. Writes(d, "cancelled")
    BY <1>5, SavedPlainly, MayGoOn DEF WriteMissing, Writes, stores, analyses
  <2>. QED BY <2>1, <2>2 DEF Working
<1>6. CASE MarkScanning(w)
  <2>1. \/ status[d] \in Open
        \/ status[d] \in Ended /\ text[d] = None /\ Reopened(d)
    BY <1>6, MayGoOn DEF MarkScanning
  <2>2. Writes(d, "scanning")
    BY <1>6, SavedPlainly, MayGoOn DEF MarkScanning, Writes, stores, analyses
  <2>. QED BY <2>1, <2>2 DEF Working
<1>7. CASE Scan(w)
  BY <1>7 DEF Scan, row, stores, analyses
<1>8. CASE WriteInfected(w)
  <2>1. d \in Docs /\ status[d] \in Open /\ status' = [status EXCEPT ![d] = "infected"]
    BY <1>8, SavedPlainly DEF WriteInfected, RunHolds, RedispatchPcs, AgainPcs, FirstPcs, Doc
  <2>2. key[d] = None
    BY <1>8 DEF WriteInfected, RunHolds, RedispatchPcs, Doc
  <2>. QED BY <1>8, <2>1, <2>2 DEF WriteInfected, Writes, stores, analyses
<1>9. CASE PublishUpload(w)
  BY <1>9 DEF PublishUpload, Publish, row, stores, analyses
<1>10. CASE MarkUploading(w)
  <2>1. \/ status[d] \in Open
        \/ status[d] \in Ended /\ text[d] = None /\ Reopened(d)
    BY <1>10, MayGoOn DEF MarkUploading
  <2>2. Writes(d, "uploading")
    BY <1>10, SavedPlainly, MayGoOn DEF MarkUploading, Writes, stores, analyses
  <2>. QED BY <2>1, <2>2 DEF Working
<1>11. CASE CheckObject(w)
  BY <1>11 DEF CheckObject, row, stores, analyses
<1>12. CASE PutObject(w)
  BY <1>12 DEF PutObject, row, stores, analyses
<1>13. CASE WriteUploaded(w)
  <2>1. d \in Docs /\ status[d] \in Open /\ status' = [status EXCEPT ![d] = "uploaded"]
    BY <1>13, SavedPlainly DEF WriteUploaded, RunHolds, RedispatchPcs, AgainPcs, FirstPcs, Doc
  <2>. QED BY <1>13, <2>1 DEF WriteUploaded, Writes, Working, Doc, stores, analyses
<1>14. CASE PublishExtract(w)
  BY <1>14 DEF PublishExtract, Publish, row, stores, analyses
<1>15. CASE WriteFailed(w)
  <2>1. d \in Docs /\ status[d] \in Open
    BY <1>15 DEF WriteFailed, RunHolds, RedispatchPcs, AgainPcs, FirstPcs, Doc
  <2>2. status' = status \/ status' = [status EXCEPT ![d] = "failed"]
    BY <1>15, <2>1, SavedBy DEF WriteFailed
  <2>. QED BY <1>15, <2>1, <2>2 DEF WriteFailed, Writes, Working, stores, analyses
<1>16. CASE LoadDocument(w)
  BY <1>16 DEF LoadDocument, row, stores, analyses
<1>17. CASE CheckLocal(w)
  BY <1>17 DEF CheckLocal, row, stores, analyses
<1>18. CASE RestoreMissing(w)
  BY <1>18 DEF RestoreMissing, Restore, row, analyses
<1>19. CASE MarkExtracting(w)
  <2>1. d \in Docs /\ status[d] \in Open
    BY <1>19 DEF MarkExtracting, RunHolds, RedispatchPcs, AgainPcs, FirstPcs, Doc
  <2>2. status' = status \/ status' = [status EXCEPT ![d] = "extracting"]
    BY <1>19, <2>1, SavedBy DEF MarkExtracting
  <2>. QED BY <1>19, <2>1, <2>2 DEF MarkExtracting, Writes, Working, stores, analyses
<1>20. CASE Extract(w)
  BY <1>20 DEF Extract, row, stores, analyses
<1>21. CASE RestoreAgain(w)
  BY <1>21 DEF RestoreAgain, Restore, row, analyses
<1>22. CASE ExtractAgain(w)
  BY <1>22 DEF ExtractAgain, row, stores, analyses
<1>23. CASE StoreText(w)
  <2>1. d \in Docs /\ status[d] \in Open
    BY <1>23 DEF StoreText, RunHolds, RedispatchPcs, AgainPcs, FirstPcs, Doc
  <2>2. key[d] # None /\ run[w].text = content[d] /\ content[d] \in Contents
    BY <1>23 DEF StoreText, RunFacts, LoadedPcs, Doc, DataInv, StoredHasObject, Typed, TypeOK
  <2>. QED BY <1>23, <2>1, <2>2 DEF StoreText, Open, row, analyses
<1>24. CASE WriteExtracted(w)
  <2>1. d \in Docs /\ status[d] \in Open
    BY <1>24 DEF WriteExtracted, RunHolds, RedispatchPcs, AgainPcs, FirstPcs, Doc
  <2>2. status' = status \/ status' = [status EXCEPT ![d] = "extracted"]
    BY <1>24, <2>1, SavedBy DEF WriteExtracted
  <2>3. key[d] # None /\ text[d] # None
    BY <1>24 DEF WriteExtracted, RunFacts, RunTexts, LoadedPcs, ExtractedPcs, Doc
  <2>. QED BY <1>24, <2>1, <2>2, <2>3 DEF WriteExtracted, Writes, Working, stores, analyses
<1>25. CASE UnlinkLocal(w)
  BY <1>25 DEF UnlinkLocal, row, stores, analyses
<1>26. CASE CreateAnalysis(w)
  BY <1>26 DEF CreateAnalysis, row, stores, analyses
<1>27. CASE PublishEvent(w)
  <2>1. d \in Docs /\ text[d] # None
    BY <1>27 DEF PublishEvent, RunTexts, ExtractedPcs, Doc
  <2>2. requested' = requested \/ requested' = [requested EXCEPT ![d] = TRUE]
    BY <1>27, <2>1, Requested DEF PublishEvent
  <2>. QED BY <1>27, <2>1, <2>2 DEF PublishEvent, row, stores
<1>28. CASE OnFailure(w)
  BY <1>28 DEF OnFailure, row, stores, analyses
<1>29. CASE Recheck(w)
  BY <1>29 DEF Recheck, row, stores, analyses
<1>30. CASE WriteFailure(w)
  <2>1. /\ d \in Docs
        /\ \/ status[d] \in Open \/ (run[w].task = "extract" /\ status[d] = "failed")
           \/ status[d] \in Ended /\ text[d] = None /\ Reopened(d)
    BY <1>30 DEF WriteFailure, RunHolds, RedispatchPcs, Reopened, Doc
  <2>2. \/ UNCHANGED <<status, key, text, requested>>
        \/ status' = [status EXCEPT ![d] = "failed"] /\ Writes(d, "failed")
    BY <1>30, <2>1, SavedBy DEF WriteFailure, Writes, stores, analyses
  <2>3. CASE status[d] = "failed" /\ status' = [status EXCEPT ![d] = "failed"]
    <3>1. UNCHANGED status
      BY <2>1, <2>3 DEF Typed, TypeOK
    <3>. QED BY <1>30, <3>1 DEF WriteFailure, stores, analyses
  <2>. QED BY <2>1, <2>2, <2>3 DEF Working, Ended
<1>31. CASE MarkAnalysisFailed(w)
  BY <1>31 DEF MarkAnalysisFailed, row, stores, analyses
<1>32. CASE AccessFails(w)
  BY <1>32 DEF AccessFails, row, stores, analyses
<1>33. CASE HandlerFails(w)
  BY <1>33 DEF HandlerFails, row, stores, analyses
<1>34. CASE RunLost(w)
  BY <1>34 DEF RunLost, row, stores, analyses
<1>. QED BY <1>1, <1>2, <1>3, <1>4, <1>5, <1>6, <1>7, <1>8, <1>9, <1>10, <1>11, <1>12, <1>13,
            <1>14, <1>15, <1>16, <1>17, <1>18, <1>19, <1>20, <1>21, <1>22, <1>23, <1>24, <1>25,
            <1>26, <1>27, <1>28, <1>29, <1>30, <1>31, <1>32, <1>33, <1>34
     DEF RunStep, RunFault

LEMMA WorkerHolds ==
  ASSUME Typed, DataInv, TextInv, HolderInv, NEW w \in Workers, RunStep(w) \/ RunFault(w)
  PROVE  RunHolds(run[w])'
<1>. DEFINE d == Doc(w)
<1>. /\ run \in [Workers -> Runs] /\ run[w] \in Runs
     /\ run[w].pc # "idle" => d \in Docs
     /\ RunFacts(run[w]) /\ RunHolds(run[w])
     /\ status \in [Docs -> Statuses]
     /\ text \in [Docs -> Contents \cup {None}]
  BY DEF Typed, TypeOK, RunsHaveDocuments, DataInv, RunsFacts, HolderInv, Doc
<1>. USE DEF At, RunHolds, Runs, RedispatchPcs, ExtractPcs, LoadedPcs, stores, Ended, FirstPcs,
            AgainPcs
<1>1. CASE Raise(w)
  BY <1>1 DEF Raise, Goto, End, Idle, FailurePc, row
<1>2. CASE Cleanup(w)
  BY <1>2 DEF Cleanup, End, Idle, row, Doc
<1>3. CASE CheckCancelled(w)
  BY <1>3 DEF CheckCancelled, Goto, row, RunFacts
<1>4. CASE CheckPath(w)
  BY <1>4 DEF CheckPath, Goto, AfterPathCheck, row, RunFacts
<1>5. CASE WriteMissing(w)
  <2>1. d \in Docs /\ status'[d] = "cancelled"
    BY <1>5, SavedPlainly DEF WriteMissing
  <2>. QED BY <1>5, <2>1 DEF WriteMissing, Acknowledged, Escapes, End, Idle, Doc, Open
<1>6. CASE MarkScanning(w)
  <2>1. d \in Docs /\ status'[d] = "scanning"
    BY <1>6, SavedPlainly DEF MarkScanning
  <2>. QED BY <1>6, <2>1 DEF MarkScanning, Goto, Doc, Open
<1>7. CASE Scan(w)
  BY <1>7 DEF Scan, Goto, Verdict, Unavailable, WithoutScan, row, Doc, RunFacts, ScanPcs
<1>8. CASE WriteInfected(w)
  <2>1. d \in Docs /\ status'[d] = "infected"
    BY <1>8, SavedPlainly DEF WriteInfected
  <2>. QED BY <1>8, <2>1 DEF WriteInfected, Acknowledged, Escapes, Goto, Doc, Open
<1>9. CASE PublishUpload(w)
  BY <1>9 DEF PublishUpload, Publish, Goto, End, Idle, row
<1>10. CASE MarkUploading(w)
  <2>1. d \in Docs /\ status'[d] = "uploading"
    BY <1>10, SavedPlainly DEF MarkUploading
  <2>. QED BY <1>10, <2>1 DEF MarkUploading, Goto, Doc, Open
<1>11. CASE CheckObject(w)
  BY <1>11 DEF CheckObject, Goto, AfterHead, row, Doc
<1>12. CASE PutObject(w)
  BY <1>12 DEF PutObject, Goto, RaiseFinally, FailurePc, row, Doc
<1>13. CASE WriteUploaded(w)
  <2>1. d \in Docs /\ status'[d] = "uploaded"
    BY <1>13, SavedPlainly DEF WriteUploaded
  <2>. QED BY <1>13, <2>1 DEF WriteUploaded, Goto, Doc, Open, RunFacts, UploadPcs
<1>14. CASE PublishExtract(w)
  BY <1>14 DEF PublishExtract, Publish, Goto, End, Idle, row
<1>15. CASE WriteFailed(w)
  <2>0. d \in Docs /\ status[d] \in Open
    BY <1>15 DEF WriteFailed, Doc
  <2>1. status'[d] \in {status[d], "failed"}
    BY <1>15, <2>0, SavedBy DEF WriteFailed
  <2>2. UNCHANGED <<key, text>> /\ (Goto(w, "cleanup") \/ Escapes(w))
    BY <1>15 DEF WriteFailed, Acknowledged
  <2>3. run'[w].doc = run[w].doc /\ run'[w].task = run[w].task /\ run'[w].pc \in {"cleanup", "raise"}
    BY <2>2 DEF Goto, Escapes
  <2>4. status'[d] \in Open \/ status'[d] = "failed"
    BY <2>0, <2>1
  <2>5. run[w].pc = "write_failed"
    BY <1>15 DEF WriteFailed
  <2>. QED BY <2>2, <2>3, <2>4, <2>5 DEF Doc
<1>16. CASE LoadDocument(w)
  BY <1>16 DEF LoadDocument, Goto, End, Idle, row, Doc, Open
<1>17. CASE CheckLocal(w)
  BY <1>17 DEF CheckLocal, Goto, row, Doc
<1>18. CASE RestoreMissing(w)
  BY <1>18 DEF RestoreMissing, Restore, RaiseFinally, Goto, FailurePc, row, Doc
<1>19. CASE MarkExtracting(w)
  <2>1. d \in Docs /\ status'[d] \in {status[d], "extracting"}
    BY <1>19, SavedBy DEF MarkExtracting
  <2>. QED BY <1>19, <2>1 DEF MarkExtracting, GotoRefreshed, Doc, Open
<1>20. CASE Extract(w)
  BY <1>20 DEF Extract, Extracted, Goto, row, Doc
<1>21. CASE RestoreAgain(w)
  BY <1>21 DEF RestoreAgain, Restore, RaiseFinally, Goto, FailurePc, row, Doc
<1>22. CASE ExtractAgain(w)
  BY <1>22 DEF ExtractAgain, Extracted, RaiseFinally, FailurePc, row, Doc
<1>23. CASE StoreText(w)
  BY <1>23 DEF StoreText, row, Doc
<1>24. CASE WriteExtracted(w)
  <2>1. d \in Docs /\ status'[d] \in {status[d], "extracted"}
    BY <1>24, SavedBy DEF WriteExtracted
  <2>. QED BY <1>24, <2>1 DEF WriteExtracted, Acknowledged, Escapes, Doc, Open
<1>25. CASE UnlinkLocal(w)
  BY <1>25 DEF UnlinkLocal, Goto, row, Doc
<1>26. CASE CreateAnalysis(w)
  BY <1>26 DEF CreateAnalysis, Goto, row, Doc
<1>27. CASE PublishEvent(w)
  BY <1>27 DEF PublishEvent, Goto, End, Idle, row, Doc
<1>28. CASE OnFailure(w)
  BY <1>28 DEF OnFailure, Goto, row, Doc
<1>29. CASE Recheck(w)
  BY <1>29 DEF Recheck, Goto, row, Doc
<1>30. CASE WriteFailure(w)
  BY <1>30 DEF WriteFailure, Doc
<1>31. CASE MarkAnalysisFailed(w)
  BY <1>31 DEF MarkAnalysisFailed, Goto, row, Doc
<1>32. CASE AccessFails(w)
  BY <1>32 DEF AccessFails, Escapes, RaisingPcs, row
<1>33. CASE HandlerFails(w)
  BY <1>33 DEF HandlerFails, row, Doc
<1>34. CASE RunLost(w)
  BY <1>34 DEF RunLost, End, Idle, row, Doc
<1>. QED BY <1>1, <1>2, <1>3, <1>4, <1>5, <1>6, <1>7, <1>8, <1>9, <1>10, <1>11, <1>12, <1>13,
            <1>14, <1>15, <1>16, <1>17, <1>18, <1>19, <1>20, <1>21, <1>22, <1>23, <1>24, <1>25,
            <1>26, <1>27, <1>28, <1>29, <1>30, <1>31, <1>32, <1>33, <1>34
     DEF RunStep, RunFault

-----------------------------------------------------------------------------
(* A document keeps one holder.                                             *)

\* A worker goes on with its document, ends, or hands it to one message.
HandsOn(w) ==
  /\ run[w].pc # "idle" /\ UNCHANGED <<up, cancel>>
  /\ \/ run'[w].pc # "idle" /\ run'[w].doc = Doc(w) /\ UNCHANGED queue
     \/ run'[w].pc = "idle" /\ UNCHANGED queue
     \/ /\ run'[w].pc = "idle"
        /\ \E m \in Messages : m.doc = Doc(w) /\ Enqueue(m, 1) /\ MessageHolds(m)'

LEMMA NoneSent ==
  ASSUME Typed, NEW m, Enqueue(m, 0)
  PROVE  UNCHANGED queue
  BY DEF Typed, TypeOK, Enqueue

LEMMA PublishHandsOn ==
  ASSUME DeliveredOnce, Typed, NEW w \in Workers, NEW task \in {"upload", "extract"},
         run[w].pc # "idle", Publish(w, task), status[Doc(w)] \in Open,
         task = "upload" => text[Doc(w)] = None
  PROVE  HandsOn(w)
<1>. /\ run \in [Workers -> Runs] /\ run[w] \in Runs /\ Doc(w) \in Docs
  BY DEF Typed, TypeOK, RunsHaveDocuments, Doc
<1>0. FirstAttempt(task, Doc(w)) \in Messages
  BY BoundsAssumption DEF FirstAttempt, Messages, Tasks
<1>. PICK m \in Messages : m = FirstAttempt(task, Doc(w))
  BY <1>0
<1>1. m.doc = Doc(w) /\ m.task = task
  BY DEF FirstAttempt
<1>2. MessageHolds(m)'
  BY <1>1 DEF Publish, MessageHolds, row, stores
<1>3. PICK o \in Outcomes : /\ Enqueue(m, Copies(o))
                            /\ IF Raises(o) THEN Goto(w, "raise") ELSE End(w)
                            /\ UNCHANGED <<up, cancel>>
  BY DEF Publish, requests
<1>4. CASE ~ Raises(o) /\ Copies(o) = 1
  <2>1. Enqueue(m, 1) /\ run'[w].pc = "idle"
    BY <1>3, <1>4 DEF End, Idle
  <2>. QED BY <1>1, <1>2, <1>3, <2>1 DEF HandsOn
<1>5. CASE Raises(o) /\ Copies(o) = 0
  <2>1. UNCHANGED queue
    BY <1>3, <1>5, NoneSent
  <2>2. run'[w].pc # "idle" /\ run'[w].doc = Doc(w)
    BY <1>3, <1>5 DEF Goto, Doc, Runs
  <2>. QED BY <1>3, <2>1, <2>2 DEF HandsOn
<1>. QED BY <1>4, <1>5, SentOnce

LEMMA WorkerHandsOn ==
  ASSUME DeliveredOnce, Typed, DataInv, HolderInv, NEW w \in Workers, RunStep(w) \/ RunFault(w)
  PROVE  HandsOn(w)
<1>. DEFINE d == Doc(w)
<1>. /\ run \in [Workers -> Runs] /\ run[w] \in Runs
     /\ run[w].pc # "idle" => d \in Docs
     /\ RunFacts(run[w]) /\ RunHolds(run[w])
  BY DEF Typed, TypeOK, RunsHaveDocuments, DataInv, RunsFacts, HolderInv, Doc
<1>. USE DEF At, Runs
<1>1. CASE Raise(w)
  <2>1. CASE run[w].retries < MaxRetries
    <3>0. [task |-> run[w].task, doc |-> d, retries |-> run[w].retries + 1] \in Messages
      BY <1>1, <2>1, BoundsAssumption DEF Raise, Messages
    <3>. PICK m \in Messages : m = [task |-> run[w].task, doc |-> d, retries |-> run[w].retries + 1]
      BY <3>0
    <3>1. m.doc = d /\ m.task = run[w].task /\ m.retries > 0
      OBVIOUS
    <3>2. MessageHolds(m)'
      BY <1>1, <3>1 DEF Raise, MessageHolds, RunHolds, Doc, row, stores
    <3>3. Enqueue(m, 1) /\ run'[w].pc = "idle" /\ UNCHANGED <<up, cancel>>
      BY <1>1, <2>1 DEF Raise, End, Idle, requests
    <3>. QED BY <1>1, <3>1, <3>2, <3>3 DEF HandsOn, Raise
  <2>2. CASE ~ (run[w].retries < MaxRetries)
    BY <1>1, <2>2 DEF Raise, Goto, FailurePc, HandsOn, Doc, requests
  <2>. QED BY <2>1, <2>2
<1>2. CASE Cleanup(w)
  BY <1>2 DEF Cleanup, End, Idle, HandsOn, Doc, requests
<1>3. CASE CheckCancelled(w)
  BY <1>3 DEF CheckCancelled, Goto, HandsOn, Doc, requests
<1>4. CASE CheckPath(w)
  BY <1>4 DEF CheckPath, Goto, AfterPathCheck, HandsOn, Doc, requests
<1>5. CASE WriteMissing(w)
  BY <1>5 DEF WriteMissing, Acknowledged, Escapes, End, Idle, HandsOn, Doc, requests
<1>6. CASE MarkScanning(w)
  BY <1>6 DEF MarkScanning, Goto, HandsOn, Doc, requests
<1>7. CASE Scan(w)
  BY <1>7 DEF Scan, Goto, Verdict, Unavailable, WithoutScan, HandsOn, Doc, requests
<1>8. CASE WriteInfected(w)
  BY <1>8 DEF WriteInfected, Acknowledged, Escapes, Goto, HandsOn, Doc, requests
<1>9. CASE PublishUpload(w)
  <2>1. status[Doc(w)] \in Open /\ text[Doc(w)] = None
    BY <1>9 DEF PublishUpload, RunHolds, RedispatchPcs, AgainPcs, FirstPcs, Doc, RunFacts, ScanPcs
  <2>. QED BY <1>9, <2>1, PublishHandsOn DEF PublishUpload
<1>10. CASE MarkUploading(w)
  BY <1>10 DEF MarkUploading, Goto, HandsOn, Doc, requests
<1>11. CASE CheckObject(w)
  BY <1>11 DEF CheckObject, Goto, AfterHead, HandsOn, Doc, requests
<1>12. CASE PutObject(w)
  BY <1>12 DEF PutObject, Goto, RaiseFinally, FailurePc, HandsOn, Doc, requests
<1>13. CASE WriteUploaded(w)
  BY <1>13 DEF WriteUploaded, Goto, HandsOn, Doc, requests
<1>14. CASE PublishExtract(w)
  <2>1. status[Doc(w)] \in Open
    BY <1>14 DEF PublishExtract, RunHolds, RedispatchPcs, AgainPcs, FirstPcs, Doc
  <2>. QED BY <1>14, <2>1, PublishHandsOn DEF PublishExtract
<1>15. CASE WriteFailed(w)
  BY <1>15 DEF WriteFailed, Acknowledged, Escapes, Goto, HandsOn, Doc, requests
<1>16. CASE LoadDocument(w)
  BY <1>16 DEF LoadDocument, Goto, End, Idle, HandsOn, Doc, requests
<1>17. CASE CheckLocal(w)
  BY <1>17 DEF CheckLocal, Goto, HandsOn, Doc, requests
<1>18. CASE RestoreMissing(w)
  BY <1>18 DEF RestoreMissing, Restore, RaiseFinally, Goto, FailurePc, HandsOn, Doc, requests
<1>19. CASE MarkExtracting(w)
  BY <1>19 DEF MarkExtracting, GotoRefreshed, HandsOn, Doc, requests
<1>20. CASE Extract(w)
  BY <1>20 DEF Extract, Extracted, Goto, HandsOn, Doc, requests
<1>21. CASE RestoreAgain(w)
  BY <1>21 DEF RestoreAgain, Restore, RaiseFinally, Goto, FailurePc, HandsOn, Doc, requests
<1>22. CASE ExtractAgain(w)
  BY <1>22 DEF ExtractAgain, Extracted, RaiseFinally, FailurePc, HandsOn, Doc, requests
<1>23. CASE StoreText(w)
  BY <1>23 DEF StoreText, HandsOn, Doc, requests
<1>24. CASE WriteExtracted(w)
  BY <1>24 DEF WriteExtracted, Acknowledged, Escapes, HandsOn, Doc, requests
<1>25. CASE UnlinkLocal(w)
  BY <1>25 DEF UnlinkLocal, Goto, HandsOn, Doc, requests
<1>26. CASE CreateAnalysis(w)
  BY <1>26 DEF CreateAnalysis, Goto, HandsOn, Doc, requests
<1>27. CASE PublishEvent(w)
  <2>1. Goto(w, "raise") \/ End(w)
    BY <1>27 DEF PublishEvent
  <2>. QED BY <1>27, <2>1 DEF PublishEvent, Goto, End, Idle, HandsOn, Doc, requests
<1>28. CASE OnFailure(w)
  BY <1>28 DEF OnFailure, Goto, HandsOn, Doc, requests
<1>29. CASE Recheck(w)
  BY <1>29 DEF Recheck, Goto, HandsOn, Doc, requests
<1>30. CASE WriteFailure(w)
  BY <1>30 DEF WriteFailure, HandsOn, Doc, requests
<1>31. CASE MarkAnalysisFailed(w)
  BY <1>31 DEF MarkAnalysisFailed, Goto, HandsOn, Doc, requests
<1>32. CASE AccessFails(w)
  BY <1>32 DEF AccessFails, Escapes, RaisingPcs, HandsOn, Doc, requests
<1>33. CASE HandlerFails(w)
  BY <1>33 DEF HandlerFails, HandsOn, Doc, requests
<1>34. CASE RunLost(w)
  BY <1>34 DEF RunLost, End, Idle, HandsOn, Doc, requests
<1>. QED BY <1>1, <1>2, <1>3, <1>4, <1>5, <1>6, <1>7, <1>8, <1>9, <1>10, <1>11, <1>12, <1>13,
            <1>14, <1>15, <1>16, <1>17, <1>18, <1>19, <1>20, <1>21, <1>22, <1>23, <1>24, <1>25,
            <1>26, <1>27, <1>28, <1>29, <1>30, <1>31, <1>32, <1>33, <1>34
     DEF RunStep, RunFault

LEMMA MovesAlone ==
  ASSUME Typed, NEW d \in Docs, Moves(d)
  PROVE  /\ \A e \in Docs : e # d => status'[e] = status[e] /\ key'[e] = key[e] /\ text'[e] = text[e]
         /\ status[d] # "none" => status'[d] # "none"
  BY DEF Typed, TypeOK, Moves, Writes, Open, Working, Ended

LEMMA WorkerKeepsHolder ==
  ASSUME Typed, Typed', HolderInv, NEW w \in Workers, OthersWait(w), HandsOn(w), Moves(Doc(w)),
         RunHolds(run[w])'
  PROVE  HolderInv'
<1>. DEFINE d == Doc(w)
<1>1. d \in Docs /\ run[w].doc = d /\ up[d].pc = "done"
  BY DEF HandsOn, Typed, RunsHaveDocuments, Doc, HolderInv, OneHolder, Published
<1>2. \A e \in Docs : e # d => status'[e] = status[e] /\ key'[e] = key[e] /\ text'[e] = text[e]
  BY <1>1, MovesAlone
<1>3. status[d] # "none" => status'[d] # "none"
  BY <1>1, MovesAlone
<1>4. \A m \in Messages : queue[m] > 0 => m.doc # d
  BY <1>1 DEF HandsOn, HolderInv, OneHolder, OneRun
<1>5. \A v \in Workers : v # w => run'[v] = run[v] /\ (run[v].pc # "idle" => run[v].doc # d)
  BY <1>1 DEF HandsOn, OthersWait, HolderInv, OneHolder, OneRun
<1>6. \A m \in Messages : m.doc \in Docs /\ queue[m] \in Nat
  BY DEF Messages, Typed, TypeOK
<1>7. \/ run'[w].pc # "idle" /\ run'[w].doc = d /\ UNCHANGED queue
      \/ run'[w].pc = "idle" /\ UNCHANGED queue
      \/ /\ run'[w].pc = "idle"
         /\ \E m \in Messages : /\ m.doc = d /\ queue'[m] = 1 /\ MessageHolds(m)'
                                /\ \A n \in Messages : n # m => queue'[n] = queue[n]
  <2>1. ASSUME NEW m \in Messages, m.doc = d, Enqueue(m, 1)
        PROVE  queue'[m] = 1 /\ \A n \in Messages : n # m => queue'[n] = queue[n]
    <3>1. queue[m] = 0
      BY <1>4, <1>6, <2>1
    <3>. QED BY <2>1, <3>1 DEF Enqueue, Typed, TypeOK
  <2>. QED BY <2>1 DEF HandsOn
<1>8. OneMessage'
  BY <1>4, <1>7 DEF OneMessage, HolderInv, OneHolder
<1>9. OneRun'
  <2>1. \A v \in Workers : run'[v].pc # "idle" => run[v].pc # "idle" /\ run'[v].doc = run[v].doc
    BY <1>1, <1>5, <1>7 DEF HandsOn
  <2>2. \A v \in Workers, m \in Messages :
          queue'[m] > 0 /\ run'[v].pc # "idle" => run'[v].doc # m.doc
    BY <1>4, <1>5, <1>7, <2>1 DEF HolderInv, OneHolder, OneRun
  <2>. QED BY <2>1, <2>2 DEF OneRun, HolderInv, OneHolder
<1>10. Published'
  <2>1. \A m \in Messages : queue'[m] > 0 => up[m.doc].pc = "done"
    BY <1>1, <1>7 DEF HolderInv, OneHolder, Published
  <2>2. \A v \in Workers : run'[v].pc # "idle" => up[run'[v].doc].pc = "done"
    BY <1>1, <1>5, <1>7 DEF HolderInv, OneHolder, Published
  <2>. QED BY <2>1, <2>2 DEF HandsOn, Published
<1>11. ASSUME NEW m \in Messages, queue'[m] > 0 PROVE MessageHolds(m)'
  <2>1. CASE m.doc = d
    BY <1>4, <1>7, <1>11, <2>1
  <2>2. CASE m.doc # d
    BY <1>2, <1>6, <1>7, <1>11, <2>2 DEF MessageHolds, HolderInv
  <2>. QED BY <2>1, <2>2
<1>12. ASSUME NEW v \in Workers PROVE RunHolds(run[v])'
  <2>1. CASE v = w
    BY <2>1
  <2>2. CASE v # w /\ run[v].pc = "idle"
    BY <1>5, <2>2 DEF RunHolds, ExtractPcs, LoadedPcs, RedispatchPcs
  <2>3. CASE v # w /\ run[v].pc # "idle"
    <3>1. run[v].doc \in Docs /\ run[v].doc # d /\ RunHolds(run[v])
      BY <1>5, <2>3 DEF Typed, RunsHaveDocuments, HolderInv
    <3>. QED BY <1>2, <1>5, <2>3, <3>1 DEF RunHolds
  <2>. QED BY <2>1, <2>2, <2>3
<1>13. ASSUME NEW e \in Docs PROVE RequestHolds(e)'
  <2>1. RequestHolds(e)
    BY DEF HolderInv
  <2>2. CASE e = d
    BY <1>1, <1>3, <2>1, <2>2 DEF RequestHolds, HandsOn
  <2>3. CASE e # d
    BY <1>2, <2>1, <2>3 DEF RequestHolds, HandsOn
  <2>. QED BY <2>2, <2>3
<1>. QED BY <1>8, <1>9, <1>10, <1>11, <1>12, <1>13 DEF HolderInv, OneHolder

LEMMA TakeKeepsHolder ==
  ASSUME Typed, HolderInv, NEW w \in Workers, NEW m \in Messages, Take(w, m)
  PROVE  HolderInv'
<1>1. /\ UNCHANGED <<status, key, text, up, cancel>> /\ run[w].pc = "idle"
      /\ \A v \in Workers : v # w => run'[v] = run[v]
      /\ run'[w].pc = FirstPc(m.task) /\ run'[w].doc = m.doc /\ run'[w].task = m.task
      /\ run'[w].retries = m.retries
  BY DEF Take, At, row, stores, requests, Typed, TypeOK
<1>2. /\ queue[m] = 1 /\ queue'[m] = 0
      /\ \A n \in Messages : n # m => queue'[n] = queue[n]
  <2>1. queue[m] = 1
    BY DEF Take, HolderInv, OneHolder, OneMessage, Typed, TypeOK
  <2>. QED BY <2>1 DEF Take, Typed, TypeOK
<1>3. \A n \in Messages : queue'[n] > 0 => queue[n] > 0 /\ n.doc # m.doc
  BY <1>2 DEF HolderInv, OneHolder, OneMessage
<1>4. \A v \in Workers : v # w /\ run[v].pc # "idle" => run[v].doc # m.doc
  BY <1>2 DEF HolderInv, OneHolder, OneRun
<1>5. run'[w].pc # "idle"
  BY <1>1 DEF FirstPc
<1>6. OneMessage'
  BY <1>2, <1>3 DEF OneMessage, HolderInv, OneHolder
<1>7. OneRun'
  BY <1>1, <1>3, <1>4 DEF OneRun, HolderInv, OneHolder
<1>8. Published'
  BY <1>1, <1>2, <1>3 DEF Published, HolderInv, OneHolder
<1>9. ASSUME NEW n \in Messages, queue'[n] > 0 PROVE MessageHolds(n)'
  BY <1>1, <1>3, <1>9 DEF MessageHolds, HolderInv
<1>10. RunHolds(run[w])'
  <2>1. MessageHolds(m)
    BY <1>2 DEF HolderInv
  <2>. QED BY <1>1, <2>1 DEF MessageHolds, RunHolds, FirstPc, FirstPcs, AgainPcs, ExtractPcs,
               LoadedPcs, RedispatchPcs
<1>11. ASSUME NEW v \in Workers PROVE RunHolds(run[v])'
  <2>1. CASE v # w
    BY <1>1, <2>1 DEF HolderInv, RunHolds
  <2>. QED BY <1>10, <2>1
<1>12. ASSUME NEW e \in Docs PROVE RequestHolds(e)'
  BY <1>1 DEF HolderInv, RequestHolds
<1>. QED BY <1>6, <1>7, <1>8, <1>9, <1>11, <1>12 DEF HolderInv, OneHolder

-----------------------------------------------------------------------------
(* The steps of the requests.                                               *)

\* All that the requests for d may do to its row: create it, undo what the path of a
\* known file promised, cancel it, or what the holder may do.
RequestMoves(d) ==
  \/ Moves(d)
  \/ /\ status[d] = "none"
     /\ \E st \in {"created", "uploaded", "extracted"} : status' = [status EXCEPT ![d] = st]
     /\ \E k \in Docs \cup {None} : key' = [key EXCEPT ![d] = k]
     /\ status'[d] = "extracted" => key'[d] # None
     /\ UNCHANGED <<text, requested>>
  \/ /\ status[d] = "extracted" /\ text[d] = None
     /\ \E st \in {"uploaded", "failed"} : Writes(d, st)
  \/ status[d] # "none" /\ cancel[d].pc = "write" /\ Writes(d, "cancelled")

\* A request touches its own document only.
OwnOnly(d) ==
  /\ UNCHANGED run
  /\ \A e \in Docs : e # d => up'[e] = up[e] /\ cancel'[e] = cancel[e]

\* While the upload request holds the document it may give it to one message; after
\* that only a cancel is left.
HoldsOrCancels(d) ==
  \/ /\ up[d].pc # "done"
     /\ \/ UNCHANGED queue
        \/ \E m \in Messages : m.doc = d /\ Enqueue(m, 1) /\ MessageHolds(m)' /\ up'[d].pc = "done"
  \/ /\ UNCHANGED <<queue, up>>
     /\ \/ UNCHANGED <<status, key, text>>
        \/ Writes(d, "cancelled") /\ cancel[d].pc = "write"

LEMMA RequestMovesAlone ==
  ASSUME Typed, NEW d \in Docs, RequestMoves(d)
  PROVE  \A e \in Docs : e # d => status'[e] = status[e] /\ key'[e] = key[e] /\ text'[e] = text[e]
<1>1. CASE Moves(d)
  BY <1>1, MovesAlone
<1>2. CASE ~ Moves(d)
  BY <1>2 DEF Typed, TypeOK, RequestMoves, Writes
<1>. QED BY <1>1, <1>2

LEMMA RequestKeepsHolder ==
  ASSUME Typed, HolderInv, NEW d \in Docs, OwnOnly(d), RequestMoves(d), HoldsOrCancels(d),
         RequestHolds(d)'
  PROVE  HolderInv'
<1>1. \A e \in Docs : e # d => status'[e] = status[e] /\ key'[e] = key[e] /\ text'[e] = text[e]
  BY RequestMovesAlone
<1>2. ASSUME NEW e \in Docs PROVE RequestHolds(e)'
  <2>1. CASE e # d
    BY <1>1, <2>1 DEF OwnOnly, RequestHolds, HolderInv
  <2>. QED BY <2>1
<1>3. \A m \in Messages : m.doc \in Docs /\ queue[m] \in Nat
  BY DEF Messages, Typed, TypeOK
<1>4. \A w \in Workers : run[w].pc # "idle" => run[w].doc \in Docs
  BY DEF Typed, RunsHaveDocuments
<1>5. CASE up[d].pc # "done"
  <2>1. \A m \in Messages : queue[m] > 0 => m.doc # d
    BY <1>5 DEF HolderInv, OneHolder, Published
  <2>2. \A w \in Workers : run[w].pc # "idle" => run[w].doc # d
    BY <1>5 DEF HolderInv, OneHolder, Published
  <2>3. \/ UNCHANGED queue
        \/ \E m \in Messages : /\ m.doc = d /\ queue'[m] = 1 /\ MessageHolds(m)' /\ up'[d].pc = "done"
                               /\ \A n \in Messages : n # m => queue'[n] = queue[n]
    <3>1. ASSUME NEW m \in Messages, m.doc = d, Enqueue(m, 1)
          PROVE  queue'[m] = 1 /\ \A n \in Messages : n # m => queue'[n] = queue[n]
      <4>1. queue[m] = 0
        BY <1>3, <2>1, <3>1
      <4>. QED BY <3>1, <4>1 DEF Enqueue, Typed, TypeOK
    <3>. QED BY <1>5, <3>1 DEF HoldsOrCancels
  <2>4. OneMessage'
    BY <2>1, <2>3 DEF OneMessage, HolderInv, OneHolder
  <2>5. OneRun'
    BY <2>2, <2>3 DEF OneRun, OwnOnly, HolderInv, OneHolder
  <2>6. Published'
    <3>1. ASSUME NEW m \in Messages, queue'[m] > 0 PROVE up'[m.doc].pc = "done"
      <4>1. CASE m.doc = d
        BY <2>1, <2>3, <3>1, <4>1
      <4>2. CASE m.doc # d
        BY <1>3, <2>3, <3>1, <4>2 DEF OwnOnly, HolderInv, OneHolder, Published
      <4>. QED BY <4>1, <4>2
    <3>2. ASSUME NEW w \in Workers, run'[w].pc # "idle" PROVE up'[run'[w].doc].pc = "done"
      BY <1>4, <2>2, <3>2 DEF OwnOnly, HolderInv, OneHolder, Published
    <3>. QED BY <3>1, <3>2 DEF Published
  <2>7. ASSUME NEW m \in Messages, queue'[m] > 0 PROVE MessageHolds(m)'
    <3>1. CASE m.doc = d
      BY <2>1, <2>3, <2>7, <3>1
    <3>2. CASE m.doc # d
      BY <1>1, <1>3, <2>3, <2>7, <3>2 DEF MessageHolds, HolderInv
    <3>. QED BY <3>1, <3>2
  <2>8. ASSUME NEW w \in Workers PROVE RunHolds(run[w])'
    <3>1. CASE run[w].pc = "idle"
      BY <3>1 DEF OwnOnly, RunHolds, ExtractPcs, LoadedPcs, RedispatchPcs
    <3>2. CASE run[w].pc # "idle"
      <4>1. run[w].doc \in Docs /\ run[w].doc # d /\ RunHolds(run[w])
        BY <1>4, <2>2, <3>2 DEF HolderInv
      <4>. QED BY <1>1, <4>1 DEF OwnOnly, RunHolds
    <3>. QED BY <3>1, <3>2
  <2>. QED BY <1>2, <2>4, <2>5, <2>6, <2>7, <2>8 DEF HolderInv, OneHolder
<1>6. CASE up[d].pc = "done"
  <2>1. /\ UNCHANGED <<queue, up, run, key, text>>
        /\ \A e \in Docs : status'[e] \in {status[e], "cancelled"}
    BY <1>6 DEF HoldsOrCancels, OwnOnly, Writes, Typed, TypeOK
  <2>2. OneHolder'
    BY <2>1 DEF HolderInv, OneHolder, OneMessage, OneRun, Published
  <2>3. ASSUME NEW m \in Messages, queue'[m] > 0 PROVE MessageHolds(m)'
    BY <1>3, <2>1, <2>3 DEF MessageHolds, HolderInv, Open
  <2>4. ASSUME NEW w \in Workers PROVE RunHolds(run[w])'
    <3>1. CASE run[w].pc = "idle"
      BY <2>1, <3>1 DEF RunHolds, ExtractPcs, LoadedPcs, RedispatchPcs
    <3>2. CASE run[w].pc # "idle"
      BY <1>4, <2>1, <3>2 DEF RunHolds, HolderInv, Open
    <3>. QED BY <3>1, <3>2
  <2>. QED BY <1>2, <2>2, <2>3, <2>4 DEF HolderInv
<1>. QED BY <1>5, <1>6

LEMMA RequestTakes ==
  ASSUME DeliveredOnce, Typed, DataInv, TextInv, HolderInv, NEW d \in Docs,
         UploadStep(d) \/ RequestFault(d) \/ CancelRead(d) \/ CancelStep(d)
  PROVE  OwnOnly(d) /\ HoldsOrCancels(d) /\ RequestHolds(d)'
<1>. /\ up \in [Docs -> Uploads] /\ up[d] \in Uploads
     /\ RequestTexts(d) /\ RequestFacts(d) /\ RequestHolds(d)
     /\ status \in [Docs -> Statuses] /\ text \in [Docs -> Contents \cup {None}]
     /\ key \in [Docs -> Docs \cup {None}] /\ cancel \in [Docs -> Cancels] /\ cancel[d] \in Cancels
  BY DEF Typed, TypeOK, TextInv, DataInv, RequestsFacts, HolderInv
<1>. USE DEF UpAt, Uploads, OwnOnly, HoldsOrCancels, RequestHolds
<1>1. CASE LookUpDuplicates(d)
  BY <1>1 DEF LookUpDuplicates, row, stores
<1>2. CASE LookUpTexts(d)
  <2>1. ASSUME NEW e, NEW path, NEW raw, ChoosePath(d, path, e, raw)
        PROVE  up'[d].pc = "create" /\ \A f \in Docs : f # d => up'[f] = up[f]
    BY <2>1 DEF ChoosePath
  <2>. QED BY <1>2, <2>1 DEF LookUpTexts, row, stores
<1>3. CASE CreateDocument(d)
  <2>1. status'[d] = InitialStatus[up[d].path] /\ key'[d] = up[d].key
    BY <1>3 DEF CreateDocument, CreateRow
  <2>2. /\ up' = [up EXCEPT ![d].pc = IF up[d].path = "analysis_only" THEN "upsert" ELSE "send"]
        /\ UNCHANGED <<queue, run, cancel, text>> /\ up[d].pc = "create"
    BY <1>3 DEF CreateDocument, UpGoto, stores
  <2>. QED BY <2>1, <2>2 DEF InitialStatus, Paths, RequestFacts, Open, Cancels
<1>4. CASE SendToQueue(d)
  <2>0. FirstAttempt(FirstTask(up[d].path), d) \in Messages
    BY BoundsAssumption DEF FirstAttempt, FirstTask, Messages, Tasks
  <2>. PICK m \in Messages : m = FirstAttempt(FirstTask(up[d].path), d)
    BY <2>0
  <2>1. m.doc = d /\ (m.task # "extract" => up[d].path = "full")
    BY DEF FirstAttempt, FirstTask
  <2>2. PICK o \in Outcomes : /\ Enqueue(m, Copies(o))
                              /\ UpGoto(d, IF Raises(o) THEN "mark_failed" ELSE "done")
    BY <1>4 DEF SendToQueue
  <2>3. UNCHANGED <<status, key, text, run, cancel>> /\ up[d].pc = "send"
    BY <1>4 DEF SendToQueue, row, stores
  <2>4. MessageHolds(m)'
    BY <2>1, <2>3 DEF MessageHolds
  <2>5. CASE ~ Raises(o) /\ Copies(o) = 1
    <3>1. up'[d].pc = "done" /\ Enqueue(m, 1) /\ \A e \in Docs : e # d => up'[e] = up[e]
      BY <2>2, <2>5 DEF UpGoto
    <3>. QED BY <2>1, <2>3, <2>4, <3>1
  <2>6. CASE Raises(o) /\ Copies(o) = 0
    <3>1. UNCHANGED queue
      BY <2>2, <2>6, NoneSent
    <3>2. up'[d].pc = "mark_failed" /\ \A e \in Docs : e # d => up'[e] = up[e]
      BY <2>2, <2>6 DEF UpGoto
    <3>. QED BY <2>3, <3>1, <3>2
  <2>. QED BY <2>5, <2>6, SentOnce
<1>5. CASE CopyText(d)
  BY <1>5 DEF CopyText, UpGoto, row
<1>6. CASE Degrade(d)
  <2>1. status' = [status EXCEPT ![d] = "uploaded"]
    BY <1>6, SavedPlainly DEF Degrade
  <2>. QED BY <1>6, <2>1 DEF Degrade, stores, Open
<1>7. CASE RemoveAfterCopy(d)
  BY <1>7 DEF RemoveAfterCopy, UpGoto, row
<1>8. CASE StartAnalysis(d)
  BY <1>8 DEF StartAnalysis, UpGoto, row, stores
<1>9. CASE SendEvent(d)
  <2>1. \E pc \in {"mark_dispatch_failed", "done"} : UpGoto(d, pc)
    BY <1>9 DEF SendEvent
  <2>. QED BY <1>9, <2>1 DEF SendEvent, UpGoto, row, stores
<1>10. CASE UndoDispatch(d)
  BY <1>10 DEF UndoDispatch, UpGoto, row, stores
<1>11. CASE TryMarkFailed(d)
  <2>1. status'[d] # "none" \/ UNCHANGED status
    BY <1>11, SavedPlainly DEF TryMarkFailed
  <2>. QED BY <1>11, <2>1 DEF TryMarkFailed, UpGoto, stores
<1>12. CASE RemoveFromTemp(d)
  BY <1>12 DEF RemoveFromTemp, UpGoto, row
<1>13. CASE CreateOrphan(d)
  BY <1>13 DEF CreateOrphan, UpGoto, Cancels
<1>14. CASE UploadFails(d)
  BY <1>14 DEF UploadFails, UpGoto, ErrorPc, row, stores, Open
<1>15. CASE UploadLost(d)
  BY <1>15 DEF UploadLost, UpGoto, row, stores
<1>16. CASE CancelLost(d)
  BY <1>16 DEF CancelLost, NoCancel, row, stores
<1>17. CASE CancelRead(d)
  BY <1>17 DEF CancelRead, row, stores
<1>18. CASE CancelWrite(d)
  <2>1. status' = status \/ status' = [status EXCEPT ![d] = "cancelled"]
    BY <1>18, SavedBy DEF CancelWrite
  <2>. QED BY <1>18, <2>1 DEF CancelWrite, Writes, stores, analyses, NoCancel, Open
<1>19. CASE CancelUnlink(d)
  BY <1>19 DEF CancelUnlink, NoCancel, row
<1>. QED BY <1>1, <1>2, <1>3, <1>4, <1>5, <1>6, <1>7, <1>8, <1>9, <1>10, <1>11, <1>12, <1>13,
            <1>14, <1>15, <1>16, <1>17, <1>18, <1>19
     DEF UploadStep, RequestFault, CancelStep

LEMMA RequestsMove ==
  ASSUME Typed, DataInv, TextInv, HolderInv, NEW d \in Docs,
         UploadStep(d) \/ RequestFault(d) \/ CancelRead(d) \/ CancelStep(d)
  PROVE  RequestMoves(d)
<1>. /\ up \in [Docs -> Uploads] /\ up[d] \in Uploads
     /\ RequestTexts(d) /\ RequestFacts(d) /\ RequestHolds(d)
     /\ status \in [Docs -> Statuses] /\ text \in [Docs -> Contents \cup {None}]
     /\ key \in [Docs -> Docs \cup {None}]
  BY DEF Typed, TypeOK, TextInv, DataInv, RequestsFacts, HolderInv
<1>. USE DEF UpAt, RequestMoves, Moves
<1>1. CASE LookUpDuplicates(d)
  BY <1>1 DEF LookUpDuplicates, row, stores, analyses
<1>2. CASE LookUpTexts(d)
  BY <1>2 DEF LookUpTexts, row, stores, analyses
<1>3. CASE CreateDocument(d) \/ CreateOrphan(d)
  <2>1. /\ status' = [status EXCEPT ![d] = InitialStatus[up[d].path]]
        /\ key' = [key EXCEPT ![d] = up[d].key]
        /\ UNCHANGED <<text, requested>> /\ up[d].pc = "create"
    BY <1>3 DEF CreateDocument, CreateOrphan, CreateRow, stores, analyses
  <2>2. up[d].key \in Docs \cup {None} /\ up[d].path \in Paths
    BY DEF Uploads
  <2>3. InitialStatus[up[d].path] \in {"created", "uploaded", "extracted"}
    BY <2>2 DEF InitialStatus, Paths
  <2>4. InitialStatus[up[d].path] = "extracted" => up[d].key # None
    BY <2>1, <2>2 DEF InitialStatus, Paths, RequestFacts
  <2>5. status[d] = "none"
    BY <2>1 DEF RequestHolds
  <2>6. status'[d] = InitialStatus[up[d].path] /\ key'[d] = up[d].key
    BY <2>1
  <2>. QED BY <2>1, <2>2, <2>3, <2>4, <2>5, <2>6
<1>4. CASE SendToQueue(d)
  BY <1>4 DEF SendToQueue, row, stores, analyses
<1>5. CASE CopyText(d)
  <2>1. /\ up[d].pc = "upsert" /\ UNCHANGED <<status, key, requested>>
        /\ UNCHANGED text \/ text' = [text EXCEPT ![d] = up[d].raw]
    BY <1>5 DEF CopyText, row, analyses
  <2>2. key[d] # None /\ status[d] # "none" /\ up[d].raw \in Contents
    BY <2>1 DEF RequestFacts, RequestTexts, RequestHolds, Uploads
  <2>. QED BY <2>1, <2>2
<1>6. CASE Degrade(d)
  <2>1. Writes(d, "uploaded")
    BY <1>6, SavedPlainly DEF Degrade, Writes, stores, analyses
  <2>2. (status[d] = "extracted" /\ text[d] = None) \/ status[d] \in Open
    BY <1>6 DEF Degrade, RequestHolds, Open
  <2>. QED BY <2>1, <2>2 DEF Working
<1>7. CASE RemoveAfterCopy(d)
  BY <1>7 DEF RemoveAfterCopy, row, analyses
<1>8. CASE StartAnalysis(d)
  BY <1>8 DEF StartAnalysis, row, stores
<1>9. CASE SendEvent(d)
  <2>1. text[d] # None
    BY <1>9 DEF SendEvent, RequestTexts
  <2>2. requested' = requested \/ requested' = [requested EXCEPT ![d] = TRUE]
    BY <1>9, Requested DEF SendEvent
  <2>. QED BY <1>9, <2>1, <2>2 DEF SendEvent, row, stores
<1>10. CASE UndoDispatch(d)
  BY <1>10 DEF UndoDispatch, row, stores
<1>11. CASE TryMarkFailed(d)
  <2>1. Writes(d, "failed") \/ UNCHANGED <<status, key, text, requested>>
    BY <1>11, SavedPlainly DEF TryMarkFailed, Writes, stores, analyses
  <2>2. (status[d] = "extracted" /\ text[d] = None) \/ status[d] \in Open
    BY <1>11 DEF TryMarkFailed, RequestHolds
  <2>. QED BY <2>1, <2>2
<1>12. CASE RemoveFromTemp(d)
  BY <1>12 DEF RemoveFromTemp, row, analyses
<1>13. CASE UploadFails(d)
  BY <1>13 DEF UploadFails, row, stores, analyses
<1>14. CASE UploadLost(d)
  BY <1>14 DEF UploadLost, row, stores, analyses
<1>15. CASE CancelLost(d)
  BY <1>15 DEF CancelLost, row, stores, analyses
<1>16. CASE CancelRead(d)
  BY <1>16 DEF CancelRead, row, stores, analyses
<1>17. CASE CancelWrite(d)
  <2>1. Writes(d, "cancelled") \/ UNCHANGED <<status, key, text, requested>>
    BY <1>17, SavedBy DEF CancelWrite, Writes, stores, analyses
  <2>2. status[d] # "none" /\ cancel[d].pc = "write"
    BY <1>17 DEF CancelWrite, RequestHolds
  <2>. QED BY <2>1, <2>2
<1>18. CASE CancelUnlink(d)
  BY <1>18 DEF CancelUnlink, row, analyses
<1>. QED BY <1>1, <1>2, <1>3, <1>4, <1>5, <1>6, <1>7, <1>8, <1>9, <1>10, <1>11, <1>12, <1>13,
            <1>14, <1>15, <1>16, <1>17, <1>18
     DEF UploadStep, RequestFault, CancelStep

-----------------------------------------------------------------------------
(* The document has one holder, always.                                     *)

\* What the steps of the pipeline come to, for a document: a worker moves it or takes it,
\* a request moves it, or nothing of it changes.
StepKind ==
  \/ \E w \in Workers : /\ OthersWait(w) /\ HandsOn(w) /\ Moves(Doc(w)) /\ Doc(w) \in Docs
                        /\ RunHolds(run[w])'
  \/ /\ UNCHANGED <<status, key, text, requested>>
     /\ \E w \in Workers, m \in Messages : Take(w, m)
  \/ \E d \in Docs : OwnOnly(d) /\ HoldsOrCancels(d) /\ RequestHolds(d)' /\ RequestMoves(d)
  \/ UNCHANGED <<status, key, text, requested, queue, run, up, cancel>>

LEMMA HolderSteps ==
  ASSUME DeliveredOnce, Typed, DataInv, TextInv, HolderInv, [Next]_vars
  PROVE  StepKind
<1>1. ASSUME NEW w \in Workers, RunStep(w) \/ RunFault(w) PROVE StepKind
  <2>1. OthersWait(w)
    BY <1>1, WorkerEffect DEF RunEffect
  <2>2. HandsOn(w) /\ Moves(Doc(w)) /\ RunHolds(run[w])'
    BY <1>1, WorkerHandsOn, WorkerMoves, WorkerHolds
  <2>3. Doc(w) \in Docs
    BY <2>2 DEF HandsOn, Typed, RunsHaveDocuments, Doc
  <2>. QED BY <2>1, <2>2, <2>3 DEF StepKind
<1>2. ASSUME NEW w \in Workers, NEW m \in Messages, Take(w, m) PROVE StepKind
  <2>1. UNCHANGED <<status, key, text, requested>>
    BY <1>2 DEF Take, row, stores, analyses
  <2>. QED BY <1>2, <2>1 DEF StepKind
<1>3. ASSUME NEW d \in Docs, UploadStep(d) \/ RequestFault(d) \/ CancelRead(d) \/ CancelStep(d)
      PROVE  StepKind
  <2>1. OwnOnly(d) /\ HoldsOrCancels(d) /\ RequestHolds(d)'
    BY <1>3, RequestTakes
  <2>2. RequestMoves(d)
    BY <1>3, RequestsMove
  <2>. QED BY <2>1, <2>2 DEF StepKind
<1>4. ASSUME NEW d \in Docs, NEW c \in Contents, ReceiveFile(d, c) PROVE StepKind
  <2>1. /\ up[d].pc = "absent" /\ up' = [up EXCEPT ![d].pc = "lookup"]
        /\ UNCHANGED <<status, key, text, requested, queue, run, cancel>>
    BY <1>4 DEF ReceiveFile, UpAt, UpGoto, row, analyses
  <2>2. up'[d].pc = "lookup" /\ \A e \in Docs : e # d => up'[e] = up[e]
    BY <2>1 DEF Typed, TypeOK, Uploads
  <2>3. OwnOnly(d) /\ HoldsOrCancels(d) /\ RequestMoves(d)
    BY <2>1, <2>2 DEF OwnOnly, HoldsOrCancels, RequestMoves, Moves
  <2>4. RequestHolds(d)'
    BY <2>1, <2>2 DEF HolderInv, RequestHolds
  <2>. QED BY <2>3, <2>4 DEF StepKind
<1>5. ASSUME NEW u \in Readers, ReadStep(u) PROVE StepKind
  BY <1>5 DEF ReadStep, Show, EnsureReady, GetDownloadUrl, ReadText, ReadTextFails, Answer, row,
     stores, analyses, StepKind
<1>6. CASE UNCHANGED vars
  BY <1>6 DEF vars, row, stores, analyses, requests, StepKind
<1>. QED BY <1>1, <1>2, <1>3, <1>4, <1>5, <1>6 DEF Next

LEMMA NextHolder ==
  ASSUME DeliveredOnce, Typed, DataInv, TextInv, HolderInv, [Next]_vars
  PROVE  HolderInv'
<1>. Typed' /\ StepKind
  BY NextTyped, HolderSteps
<1>1. CASE UNCHANGED <<status, key, text, requested, queue, run, up, cancel>>
  BY <1>1 DEF HolderInv, OneHolder, OneMessage, OneRun, Published, MessageHolds, RunHolds,
     RequestHolds
<1>. QED BY <1>1, WorkerKeepsHolder, TakeKeepsHolder, RequestKeepsHolder DEF StepKind

LEMMA InitHolder == Init => HolderInv
<1>. SUFFICES ASSUME Init PROVE HolderInv
  OBVIOUS
<1>1. OneHolder
  BY DEF Init, Idle, OneHolder, OneMessage, OneRun, Published
<1>2. \A w \in Workers : RunHolds(run[w])
  BY DEF Init, Idle, RunHolds, ExtractPcs, LoadedPcs, RedispatchPcs
<1>3. \A d \in Docs : RequestHolds(d)
  BY DEF Init, NoUpload, NoCancel, RequestHolds
<1>. QED BY <1>1, <1>2, <1>3 DEF Init, HolderInv

\* As long as no message is delivered twice, a document is held by its upload request or
\* by one message or run, and its status is one that holder expects.
THEOREM HolderAlways == ASSUME DeliveredOnce PROVE Spec => []HolderInv
<1>1. Typed /\ DataInv /\ TextInv /\ HolderInv /\ [Next]_vars => HolderInv'
  BY NextHolder
<1>. QED BY <1>1, InitHolder, TypedAlways, DataAlways, TextsAlways, PTL DEF Spec

-----------------------------------------------------------------------------
(* An extracted document.                                                   *)

LEMMA ExtractedSteps ==
  ASSUME Typed, HolderInv, StepKind, NEW d \in Docs, status[d] = "extracted", up[d].pc = "done"
  PROVE  \/ status'[d] = "extracted"
         \/ status'[d] = "cancelled" /\ cancel[d].pc = "write"
<1>1. ASSUME NEW w \in Workers, Moves(Doc(w)), Doc(w) \in Docs PROVE status'[d] = "extracted"
  <2>1. CASE Doc(w) = d
    BY <1>1, <2>1 DEF Moves, Open, Ended
  <2>2. CASE Doc(w) # d
    BY <1>1, <2>2, MovesAlone
  <2>. QED BY <2>1, <2>2
<1>2. ASSUME NEW e \in Docs, HoldsOrCancels(e), RequestMoves(e)
      PROVE  \/ status'[d] = "extracted"
             \/ status'[d] = "cancelled" /\ cancel[d].pc = "write"
  <2>1. CASE e = d
    BY <1>2, <2>1 DEF HoldsOrCancels, Writes, Typed, TypeOK
  <2>2. CASE e # d
    BY <1>2, <2>2, RequestMovesAlone
  <2>. QED BY <2>1, <2>2
<1>. QED BY <1>1, <1>2 DEF StepKind

\* Once its upload request is over only the user's cancel takes a document out of
\* extracted: no late run, failing dispatch or lost step undoes it, if no message is
\* delivered twice.
THEOREM ExtractedIsKeptAlways == ASSUME DeliveredOnce PROVE Spec => ExtractedIsKept
<1>1. Typed /\ DataInv /\ TextInv /\ HolderInv /\ [Next]_vars
        => [\A d \in Docs :
              status[d] = "extracted" /\ up[d].pc = "done"
                => \/ status'[d] = "extracted"
                   \/ status'[d] = "cancelled" /\ cancel[d].pc = "write"]_vars
  BY HolderSteps, ExtractedSteps
<1>. QED BY <1>1, HolderAlways, TypedAlways, DataAlways, TextsAlways, PTL DEF Spec, ExtractedIsKept

LEMMA EndedSteps ==
  ASSUME Typed, HolderInv, StepKind, NEW d \in Docs, status[d] \in {"infected", "failed"}
  PROVE  status'[d] = status[d] \/ cancel[d].pc = "write" \/ Reopened(d)
<1>1. ASSUME NEW e \in Docs, Moves(e) PROVE status'[d] = status[d] \/ Reopened(d)
  <2>1. CASE e = d
    BY <1>1, <2>1 DEF Moves, Open
  <2>2. CASE e # d
    BY <1>1, <2>2, MovesAlone
  <2>. QED BY <2>1, <2>2
<1>2. ASSUME NEW e \in Docs, RequestMoves(e)
      PROVE  status'[d] = status[d] \/ cancel[d].pc = "write" \/ Reopened(d)
  <2>1. CASE e = d
    BY <1>1, <1>2, <2>1 DEF RequestMoves
  <2>2. CASE e # d
    BY <1>2, <2>2, RequestMovesAlone
  <2>. QED BY <2>1, <2>2
<1>. QED BY <1>1, <1>2 DEF StepKind

\* An infected or failed document is not worked on again, nor is its verdict replaced, but
\* by a retry that repeats the task which ended it, or by the handler of its last failure;
\* the user may cancel it.  This, too, if no message is delivered twice.
THEOREM EndedIsKeptAlways == ASSUME DeliveredOnce PROVE Spec => EndedIsKept
<1>1. Typed /\ DataInv /\ TextInv /\ HolderInv /\ [Next]_vars
        => [\A d \in Docs :
              status[d] \in {"infected", "failed"}
                => status'[d] = status[d] \/ cancel[d].pc = "write" \/ Reopened(d)]_vars
  BY HolderSteps, EndedSteps
<1>. QED BY <1>1, HolderAlways, TypedAlways, DataAlways, TextsAlways, PTL DEF Spec, EndedIsKept

-----------------------------------------------------------------------------
(* The refinement: what the user sees of each move is a step of the promise. *)

ShownPhase == [d \in Docs |-> PhaseOf(status[d])]
ShownStored == [d \in Docs |-> key[d] # None]
ShownReadable == [d \in Docs |-> text[d] # None]

LEMMA ShownStatus ==
  ASSUME Typed, NEW d \in Docs, NEW st, status' = [status EXCEPT ![d] = st]
  PROVE  ShownPhase' = [ShownPhase EXCEPT ![d] = PhaseOf(st)]
<1>. status \in [Docs -> Statuses]
  BY DEF Typed, TypeOK
<1>. QED BY DEF ShownPhase

LEMMA ShownKey ==
  ASSUME Typed, NEW d \in Docs, NEW k, key' = [key EXCEPT ![d] = k]
  PROVE  ShownStored' = [ShownStored EXCEPT ![d] = (k # None)]
<1>. key \in [Docs -> Docs \cup {None}]
  BY DEF Typed, TypeOK
<1>1. \A e \in Docs : key'[e] = IF e = d THEN k ELSE key[e]
  OBVIOUS
<1>. QED BY <1>1, Zenon DEF ShownStored

LEMMA ShownText ==
  ASSUME Typed, NEW d \in Docs, NEW c, text' = [text EXCEPT ![d] = c], c # None
  PROVE  ShownReadable' = [ShownReadable EXCEPT ![d] = TRUE]
<1>. text \in [Docs -> Contents \cup {None}]
  BY DEF Typed, TypeOK
<1>1. \A e \in Docs : (text'[e] # None) = IF e = d THEN TRUE ELSE (text[e] # None)
  OBVIOUS
<1>. QED BY <1>1, Zenon DEF ShownReadable

\* The sights of one document, and the operators of the promise in their terms.
LEMMA Sights ==
  ASSUME Typed, NEW d \in Docs
  PROVE  /\ Life!Unfinished(d) <=> status[d] \in Open
         /\ ShownPhase[d] = PhaseOf(status[d])
         /\ ShownStored[d] <=> key[d] # None
         /\ ShownReadable[d] <=> text[d] # None
         /\ \A p : ShownPhase' = [ShownPhase EXCEPT ![d] = p] => Life!Becomes(d, p)
         /\ \A b : ShownStored' = [ShownStored EXCEPT ![d] = b] => Life!Kept(d, b)
         /\ UNCHANGED status => UNCHANGED ShownPhase
         /\ UNCHANGED key => UNCHANGED ShownStored
         /\ UNCHANGED text => UNCHANGED ShownReadable
<1>. status[d] \in Statuses
  BY DEF Typed, TypeOK
<1>1. Life!Unfinished(d) <=> status[d] \in Open
  BY DEF Life!Unfinished, PhaseOf, Open, Statuses
<1>2. /\ ShownPhase[d] = PhaseOf(status[d])
      /\ ShownStored[d] <=> key[d] # None
      /\ ShownReadable[d] <=> text[d] # None
  BY DEF ShownPhase, ShownStored, ShownReadable
<1>3. \A p : ShownPhase' = [ShownPhase EXCEPT ![d] = p] => Life!Becomes(d, p)
  BY DEF ShownPhase, Life!Becomes
<1>4. \A b : ShownStored' = [ShownStored EXCEPT ![d] = b] => Life!Kept(d, b)
  BY DEF ShownStored, Life!Kept
<1>5. /\ UNCHANGED status => UNCHANGED ShownPhase
      /\ UNCHANGED key => UNCHANGED ShownStored
      /\ UNCHANGED text => UNCHANGED ShownReadable
  BY DEF ShownPhase, ShownStored, ShownReadable
<1>. QED BY <1>1, <1>2, <1>3, <1>4, <1>5

LEMMA WorkShown ==
  ASSUME Typed, NEW d \in Docs, status[d] \in Open, NEW st, Writes(d, st),
         st \in Working \cup {"failed", "cancelled"}
         \/ (st = "extracted" /\ key[d] # None /\ text[d] # None) \/ (st = "infected" /\ key[d] = None)
  PROVE  Life!Next
<1>1. Life!Becomes(d, PhaseOf(st))
  BY ShownStatus, Sights DEF Writes
<1>2. UNCHANGED <<ShownStored, ShownReadable, requested>>
  BY Sights DEF Writes
<1>3. Life!Unfinished(d) /\ ShownPhase[d] # "none"
  BY Sights DEF PhaseOf, Open
<1>4. CASE st \in Working
  <2>1. Life!Becomes(d, "working")
    BY <1>1, <1>4 DEF PhaseOf, Working
  <2>2. Life!Work(d)
    BY <1>2, <1>3, <2>1 DEF Life!Work, ShownStored, ShownReadable
  <2>. QED BY <2>2 DEF Life!Next
<1>5. CASE st = "cancelled"
  <2>1. Life!Cancel(d)
    BY <1>1, <1>2, <1>3, <1>5 DEF Life!Cancel, PhaseOf, ShownPhase, ShownStored, ShownReadable
  <2>. QED BY <2>1 DEF Life!Next
<1>6. CASE st \in {"extracted", "infected", "failed"}
  <2>1. Life!Becomes(d, st)
    BY <1>1, <1>6 DEF PhaseOf
  <2>2. Life!Finish(d)
    BY <1>2, <1>3, <1>6, <2>1, Sights DEF Life!Finish, ShownStored, ShownReadable, Working
  <2>. QED BY <2>2 DEF Life!Next
<1>. QED BY <1>4, <1>5, <1>6

LEMMA ReopenShown ==
  ASSUME Typed, NEW d \in Docs, status[d] \in Ended, text[d] = None,
         NEW st \in {"scanning", "uploading", "cancelled", "failed"}, Writes(d, st)
  PROVE  Life!Next
<1>1. Life!Becomes(d, PhaseOf(st))
  BY ShownStatus, Sights DEF Writes
<1>2. UNCHANGED <<ShownStored, ShownReadable, requested>>
  BY Sights DEF Writes
<1>3. ShownPhase[d] \in {"infected", "failed"} /\ ~ ShownReadable[d]
  BY Sights DEF PhaseOf, Ended
<1>4. CASE st = "cancelled"
  <2>1. Life!Cancel(d)
    BY <1>1, <1>2, <1>3, <1>4 DEF Life!Cancel, PhaseOf, ShownPhase, ShownStored, ShownReadable
  <2>. QED BY <2>1 DEF Life!Next
<1>5. CASE st # "cancelled"
  <2>1. Life!Becomes(d, "working") \/ Life!Becomes(d, "failed")
    BY <1>1, <1>5 DEF PhaseOf
  <2>2. Life!Reopen(d)
    BY <1>2, <1>3, <2>1 DEF Life!Reopen, ShownPhase, ShownStored, ShownReadable
  <2>. QED BY <2>2 DEF Life!Next
<1>. QED BY <1>4, <1>5

LEMMA MovesShown ==
  ASSUME Typed, NEW d \in Docs, Moves(d)
  PROVE  Life!Next \/ UNCHANGED Life!vars
<1>1. CASE UNCHANGED <<status, key, text, requested>>
  BY <1>1 DEF Life!vars
<1>2. CASE /\ status[d] \in Open
           /\ \/ \E st \in Working \cup {"failed", "cancelled"} : Writes(d, st)
              \/ Writes(d, "extracted") /\ key[d] # None /\ text[d] # None
              \/ Writes(d, "infected") /\ key[d] = None
  BY <1>2, WorkShown
<1>3. CASE /\ status[d] \in Open
           /\ status' = [status EXCEPT ![d] = "uploaded"] /\ key' = [key EXCEPT ![d] = d]
           /\ UNCHANGED <<text, requested>>
  <2>1. Life!Becomes(d, "working")
    BY <1>3, ShownStatus, Sights DEF PhaseOf
  <2>2. Life!Kept(d, TRUE)
    <3>1. (d # None) = TRUE
      BY ContentsAssumption
    <3>2. ShownStored' = [ShownStored EXCEPT ![d] = (d # None)]
      BY <1>3, ShownKey
    <3>3. ShownStored' = [ShownStored EXCEPT ![d] = TRUE]
      BY <3>1, <3>2, Zenon
    <3>. QED BY <3>3, Sights
  <2>3. UNCHANGED <<ShownReadable, requested>>
    BY <1>3, Sights
  <2>4. Life!Work(d)
    BY <1>3, <2>1, <2>2, <2>3, Sights DEF Life!Work, ShownReadable
  <2>. QED BY <2>4 DEF Life!Next
<1>4. CASE /\ status[d] # "none" /\ key[d] # None
           /\ \E c \in Contents : text' = [text EXCEPT ![d] = c]
           /\ UNCHANGED <<status, key, requested>>
  <2>1. PICK c \in Contents : text' = [text EXCEPT ![d] = c]
    BY <1>4
  <2>2. c # None
    BY ContentsAssumption
  <2>3. ShownReadable' = [ShownReadable EXCEPT ![d] = TRUE]
    BY <2>1, <2>2, ShownText
  <2>4. ShownPhase[d] # "none" /\ ShownStored[d] /\ UNCHANGED <<ShownPhase, ShownStored, requested>>
    BY <1>4, Sights DEF PhaseOf
  <2>5. Life!Read(d)
    BY <2>3, <2>4, Zenon DEF Life!Read, ShownPhase, ShownStored, ShownReadable
  <2>. QED BY <2>5 DEF Life!Next
<1>5. CASE /\ text[d] # None /\ requested' = [requested EXCEPT ![d] = TRUE]
           /\ UNCHANGED <<status, key, text>>
  <2>1. Life!Ask(d)
    BY <1>5, Sights DEF Life!Ask, ShownPhase, ShownStored, ShownReadable
  <2>. QED BY <2>1 DEF Life!Next
<1>6. CASE /\ status[d] \in Ended /\ text[d] = None
           /\ \E st \in {"scanning", "uploading", "cancelled", "failed"} : Writes(d, st)
  BY <1>6, ReopenShown
<1>. QED BY <1>1, <1>2, <1>3, <1>4, <1>5, <1>6 DEF Moves

LEMMA RequestShown ==
  ASSUME Typed, NEW d \in Docs, RequestMoves(d)
  PROVE  Life!Next \/ UNCHANGED Life!vars
<1>1. CASE /\ status[d] = "none"
           /\ \E st \in {"created", "uploaded", "extracted"} : status' = [status EXCEPT ![d] = st]
           /\ \E k \in Docs \cup {None} : key' = [key EXCEPT ![d] = k]
           /\ status'[d] = "extracted" => key'[d] # None
           /\ UNCHANGED <<text, requested>>
  <2>1. PICK st \in {"created", "uploaded", "extracted"} : status' = [status EXCEPT ![d] = st]
    BY <1>1
  <2>2. PICK k \in Docs \cup {None} : key' = [key EXCEPT ![d] = k]
    BY <1>1
  <2>3. status'[d] = st /\ key'[d] = k
    BY <2>1, <2>2 DEF Typed, TypeOK
  <2>4. Life!Becomes(d, PhaseOf(st)) /\ ShownPhase[d] = "none"
    BY <1>1, <2>1, ShownStatus, Sights DEF PhaseOf
  <2>5. Life!Kept(d, k # None)
    BY <2>2, ShownKey, Sights
  <2>6. UNCHANGED <<ShownReadable, requested>>
    BY <1>1, Sights
  <2>7. CASE st = "extracted"
    <3>1. (k # None) = TRUE
      BY <1>1, <2>3, <2>7
    <3>2. Life!Kept(d, TRUE)
      BY <2>5, <3>1, Zenon
    <3>3. Life!Becomes(d, "extracted")
      BY <2>4, <2>7 DEF PhaseOf
    <3>4. Life!Accept(d)
      BY <2>4, <2>6, <3>2, <3>3 DEF Life!Accept, ShownPhase, ShownReadable
    <3>. QED BY <3>4 DEF Life!Next
  <2>8. CASE st # "extracted"
    <3>1. Life!Becomes(d, "working")
      BY <2>4, <2>8 DEF PhaseOf
    <3>2. (k # None) \in BOOLEAN
      OBVIOUS
    <3>3. Life!Accept(d)
      BY <2>4, <2>5, <2>6, <3>1, <3>2, Zenon DEF Life!Accept, ShownPhase, ShownReadable
    <3>. QED BY <3>3 DEF Life!Next
  <2>. QED BY <2>7, <2>8
<1>2. ASSUME status[d] = "extracted", text[d] = None, NEW st \in {"uploaded", "failed"}, Writes(d, st)
      PROVE  Life!Next
  <2>1. Life!Becomes(d, "working") \/ Life!Becomes(d, "failed")
    <3>1. Life!Becomes(d, PhaseOf(st))
      BY <1>2, ShownStatus, Sights DEF Writes
    <3>2. PhaseOf(st) = "working" \/ PhaseOf(st) = "failed"
      BY DEF PhaseOf
    <3>. QED BY <3>1, <3>2
  <2>2. /\ ShownPhase[d] = "extracted" /\ ~ ShownReadable[d]
        /\ UNCHANGED <<ShownStored, ShownReadable, requested>>
    BY <1>2, Sights DEF Writes, PhaseOf
  <2>3. Life!Undo(d)
    BY <2>1, <2>2 DEF Life!Undo, ShownPhase, ShownStored, ShownReadable
  <2>. QED BY <2>3 DEF Life!Next
<1>3. ASSUME status[d] # "none", Writes(d, "cancelled") PROVE Life!Next
  <2>1. Life!Becomes(d, "cancelled")
    BY <1>3, ShownStatus, Sights DEF Writes, PhaseOf
  <2>2. ShownPhase[d] # "none" /\ UNCHANGED <<ShownStored, ShownReadable, requested>>
    BY <1>3, Sights DEF Writes, PhaseOf
  <2>3. Life!Cancel(d)
    BY <2>1, <2>2 DEF Life!Cancel, ShownPhase, ShownStored, ShownReadable
  <2>. QED BY <2>3 DEF Life!Next
<1>. QED BY <1>1, <1>2, <1>3, MovesShown DEF RequestMoves

LEMMA StepShown ==
  ASSUME Typed, StepKind
  PROVE  [Life!Next]_(Life!vars)
<1>1. CASE UNCHANGED <<status, key, text, requested>>
  BY <1>1 DEF Life!vars
<1>2. ASSUME NEW d \in Docs, Moves(d) \/ RequestMoves(d) PROVE Life!Next \/ UNCHANGED Life!vars
  BY <1>2, MovesShown, RequestShown
<1>. QED BY <1>1, <1>2 DEF StepKind

LEMMA InitShown == Init => Life!Init
  BY DEF Init, Life!Init, PhaseOf

\* The pipeline keeps the promise made to the user: with tasks, retries, crashes, cancels
\* and shortcuts in any number, every step it shows is a step of DocumentLife, as long as
\* no message is delivered twice.
THEOREM KeepsPromiseAlways == ASSUME DeliveredOnce PROVE Spec => KeepsPromise
<1>1. Typed /\ DataInv /\ TextInv /\ HolderInv /\ [Next]_vars => [Life!Next]_(Life!vars)
  BY HolderSteps, StepShown
<1>. QED
  BY <1>1, InitShown, HolderAlways, TypedAlways, DataAlways, TextsAlways, PTL
  DEF Spec, KeepsPromise, Life!Spec

-----------------------------------------------------------------------------
(* Nobody is left behind, however often messages are delivered: what a step *)
(* of one actor leaves to the others.                                       *)

\* A step of worker w, or of a request, on document d.
OthersStay(d) ==
  /\ abandoned \subseteq abandoned' /\ littered \subseteq littered'
  /\ \A m \in Messages : queue[m] > 0 => queue'[m] > 0
  /\ \A e \in Docs \ {d} : /\ status'[e] = status[e] /\ named'[e] = named[e] /\ temp'[e] = temp[e]
                           /\ analysis'[e] = analysis[e] /\ requested'[e] = requested[e]

LEMMA Saved ==
  ASSUME Typed, NEW d \in Docs, NEW seen, NEW st, SaveStatus(d, seen, st)
  PROVE  /\ status'[d] = IF st = seen.status THEN status[d] ELSE st
         /\ \A e \in Docs \ {d} : status'[e] = status[e]
  BY DEF Typed, TypeOK, SaveStatus, Written

LEMMA Cleared ==
  ASSUME Typed, NEW d \in Docs, NEW seen, ClearName(d, seen), seen.named \in BOOLEAN
  PROVE  /\ (seen.named \/ ~ named[d]) => ~ named'[d]
         /\ \A e \in Docs \ {d} : named'[e] = named[e]
<1>. named \in [Docs -> BOOLEAN]
  BY DEF Typed, TypeOK
<1>. PICK new \in BOOLEAN : /\ named' = [named EXCEPT ![d] = new]
                            /\ (seen.named \/ ~ named[d]) => ~ new
  BY DEF ClearName, Written
<1>. QED OBVIOUS

LEMMA Removed ==
  ASSUME Typed, NEW d \in Docs, RemoveFile(d)
  PROVE  /\ temp'[d] = None \/ d \in littered'
         /\ abandoned' = abandoned /\ littered \subseteq littered'
         /\ \A e \in Docs \ {d} : temp'[e] = temp[e]
  BY DEF Typed, TypeOK, RemoveFile, env

LEMMA Queued ==
  ASSUME Typed, NEW m \in Messages, NEW n \in Nat, Enqueue(m, n)
  PROVE  /\ queue'[m] = queue[m] + n /\ queue[m] \in Nat
         /\ \A x \in Messages : queue[x] > 0 => queue'[x] > 0
  BY DEF Typed, TypeOK, Enqueue

LEMMA Retried ==
  ASSUME Typed, NEW w \in Workers, run[w].pc # "idle", run[w].retries < MaxRetries
  PROVE  [task |-> run[w].task, doc |-> Doc(w), retries |-> run[w].retries + 1] \in Messages
  BY BoundsAssumption DEF Typed, TypeOK, RunsHaveDocuments, Runs, Messages, Doc

LEMMA FirstSent ==
  ASSUME NEW task \in Tasks, NEW d \in Docs
  PROVE  FirstAttempt(task, d) \in Messages
  BY BoundsAssumption DEF FirstAttempt, Messages

LEMMA CopiesAreNatural == \A o \in Outcomes : Copies(o) \in Nat
  BY DEF Copies

\* A task is sent on with at least one message, or the publication raises.
LEMMA SentOrRaised ==
  ASSUME Typed, NEW o \in Outcomes, NEW task \in Tasks, NEW d \in Docs,
         Enqueue(FirstAttempt(task, d), Copies(o))
  PROVE  /\ \A m \in Messages : queue[m] > 0 => queue'[m] > 0
         /\ ~ Raises(o) => queue'[FirstAttempt(task, d)] > 0
<1>. FirstAttempt(task, d) \in Messages /\ Copies(o) \in Nat
  BY FirstSent, CopiesAreNatural
<1>1. ~ Raises(o) => Copies(o) > 0
  BY DEF Raises, Copies
<1>. QED BY <1>1, Queued

\* The types that these steps need to know of.
LEMMA RunTypes ==
  ASSUME Typed, NEW w \in Workers
  PROVE  /\ run \in [Workers -> Runs] /\ run[w] \in Runs /\ run[w].seen \in Instances
         /\ run[w].pc \in RunPcs /\ run[w].task \in Tasks
         /\ run[w].seen.named \in BOOLEAN
         /\ run[w].pc # "idle" => Doc(w) \in Docs
         /\ status \in [Docs -> Statuses] /\ named \in [Docs -> BOOLEAN] /\ queue \in [Messages -> Nat]
         /\ requested \in [Docs -> BOOLEAN] /\ analysis \in [Docs -> {"none", "queued", "failed"}]
  BY DEF Typed, TypeOK, RunsHaveDocuments, Runs, Instances, Doc

LEMMA WorkerStays ==
  ASSUME Typed, NEW w \in Workers, RunStep(w) \/ RunFault(w)
  PROVE  OthersStay(Doc(w)) /\ UNCHANGED cancel /\ run[w].pc # "idle" /\ Doc(w) \in Docs
<1>. PICK d : d = Doc(w)
  OBVIOUS
<1>. /\ run[w].pc # "idle" => d \in Docs
     /\ run[w].task \in Tasks /\ run[w].seen.named \in BOOLEAN /\ run[w].retries \in Nat
     /\ queue \in [Messages -> Nat]
     /\ temp \in [Docs -> Contents \cup {None}] /\ analysis \in [Docs -> {"none", "queued", "failed"}]
     /\ NoInstance.named \in BOOLEAN
  BY RunTypes, BoundsAssumption DEF Typed, TypeOK, Runs, NoInstance, Doc
<1>. USE DEF At, OthersStay
<1>1. CASE Raise(w)
  <2>1. \A m \in Messages : queue[m] > 0 => queue'[m] > 0
    <3>1. CASE run[w].retries < MaxRetries
      BY <1>1, <3>1, Retried, Queued DEF Raise
    <3>. QED BY <1>1, <3>1 DEF Raise
  <2>. QED BY <1>1, <2>1 DEF Raise, row, stores, analyses, requests, env
<1>2. CASE Cleanup(w) \/ UnlinkLocal(w)
  <2>1. RemoveFile(d) /\ d \in Docs
    BY <1>2 DEF Cleanup, UnlinkLocal
  <2>. QED BY <1>2, <2>1, Removed DEF Cleanup, UnlinkLocal, row, analyses, requests
<1>3. CASE CheckCancelled(w) \/ CheckPath(w)
  BY <1>3 DEF CheckCancelled, CheckPath, row, stores, analyses, requests, env
<1>18. CASE Scan(w)
  BY <1>18 DEF Scan, row, stores, analyses, requests
<1>19. CASE CheckObject(w)
  BY <1>19 DEF CheckObject, row, stores, analyses, requests
<1>4. CASE LoadDocument(w) \/ CheckLocal(w) \/ Extract(w) \/ ExtractAgain(w)
  BY <1>4 DEF LoadDocument, CheckLocal, Extract, ExtractAgain, row, stores, analyses, requests, env
<1>5. CASE OnFailure(w) \/ Recheck(w) \/ AccessFails(w)
  BY <1>5 DEF OnFailure, Recheck, AccessFails, RaisingPcs, row, stores, analyses, requests, env
<1>6. CASE HandlerFails(w) \/ RunLost(w)
  BY <1>6 DEF HandlerFails, RunLost, Abandon, row, stores, analyses, requests
<1>7. CASE WriteMissing(w) \/ WriteInfected(w)
  <2>1. \E st : SaveStatus(d, NoInstance, st) /\ ClearName(d, NoInstance)
    BY <1>7 DEF WriteMissing, WriteInfected
  <2>2. d \in Docs
    BY <1>7 DEF WriteMissing, WriteInfected
  <2>. QED BY <1>7, <2>1, <2>2, Saved, Cleared DEF WriteMissing, WriteInfected, stores, analyses, requests, env
<1>8. CASE MarkScanning(w) \/ MarkUploading(w)
  <2>1. \E st : SaveStatus(d, NoInstance, st)
    BY <1>8 DEF MarkScanning, MarkUploading
  <2>2. d \in Docs
    BY <1>8 DEF MarkScanning, MarkUploading
  <2>. QED BY <1>8, <2>1, <2>2, Saved DEF MarkScanning, MarkUploading, stores, analyses, requests, env
<1>9. CASE PublishUpload(w) \/ PublishExtract(w)
  <2>1. PICK task \in Tasks : Publish(w, task)
    BY <1>9, TaskNames DEF PublishUpload, PublishExtract
  <2>2. \A m \in Messages : queue[m] > 0 => queue'[m] > 0
    BY <1>9, <2>1, SentOrRaised DEF Publish, PublishUpload, PublishExtract
  <2>3. d \in Docs /\ run[w].pc # "idle"
    BY <1>9 DEF PublishUpload, PublishExtract
  <2>. QED BY <2>1, <2>2, <2>3 DEF Publish, row, stores, analyses, requests
<1>10. CASE PutObject(w)
  BY <1>10 DEF PutObject, row, analyses, requests
<1>11. CASE WriteUploaded(w)
  BY <1>11, Saved DEF WriteUploaded, stores, analyses, requests, env
<1>12. CASE WriteFailed(w) \/ WriteExtracted(w) \/ WriteFailure(w)
  <2>1. \E st : SaveStatus(d, run[w].seen, st) /\ ClearName(d, run[w].seen)
    BY <1>12 DEF WriteFailed, WriteExtracted, WriteFailure
  <2>2. d \in Docs
    BY <1>12 DEF WriteFailed, WriteExtracted, WriteFailure
  <2>. QED BY <1>12, <2>1, <2>2, Saved, Cleared
           DEF WriteFailed, WriteExtracted, WriteFailure, stores, analyses, requests, env
<1>13. CASE RestoreMissing(w) \/ RestoreAgain(w)
  BY <1>13 DEF RestoreMissing, RestoreAgain, Restore, row, analyses, requests
<1>14. CASE MarkExtracting(w)
  BY <1>14, Saved DEF MarkExtracting, stores, analyses, requests, env
<1>15. CASE StoreText(w)
  BY <1>15 DEF StoreText, row, analyses, requests, env
<1>16. CASE CreateAnalysis(w) \/ MarkAnalysisFailed(w)
  BY <1>16 DEF CreateAnalysis, MarkAnalysisFailed, GetOrCreateAnalysis, row, stores, analyses,
     requests, env
<1>17. CASE PublishEvent(w)
  <2>1. \A e \in Docs \ {d} : requested'[e] = requested[e]
    BY <1>17, RunTypes DEF PublishEvent
  <2>. QED BY <1>17, <2>1 DEF PublishEvent, row, stores, requests
<1>. QED BY <1>1, <1>2, <1>3, <1>4, <1>5, <1>6, <1>7, <1>8, <1>9, <1>10, <1>11, <1>12, <1>13,
            <1>14, <1>15, <1>16, <1>17, <1>18, <1>19
     DEF RunStep, RunFault

\* What a step of the requests of document d leaves.
LEMMA RequestStays ==
  ASSUME Typed, NEW d \in Docs, UploadStep(d) \/ RequestFault(d) \/ CancelRead(d) \/ CancelStep(d)
  PROVE  OthersStay(d) /\ UNCHANGED run
         /\ \A e \in Docs \ {d} : up'[e] = up[e] /\ cancel'[e] = cancel[e]
<1>. /\ queue \in [Messages -> Nat] /\ status \in [Docs -> Statuses] /\ named \in [Docs -> BOOLEAN]
     /\ temp \in [Docs -> Contents \cup {None}] /\ analysis \in [Docs -> {"none", "queued", "failed"}]
     /\ requested \in [Docs -> BOOLEAN] /\ up \in [Docs -> Uploads] /\ cancel \in [Docs -> Cancels]
     /\ cancel[d].seen.named \in BOOLEAN /\ NoInstance.named \in BOOLEAN
  BY DEF Typed, TypeOK, Cancels, Instances, NoInstance
<1>. USE DEF OthersStay, UpAt, UpGoto
<1>1. CASE LookUpDuplicates(d)
  BY <1>1 DEF LookUpDuplicates, row, stores, analyses, env
<1>2. CASE LookUpTexts(d)
  <2>1. \A e \in Docs \ {d} : up'[e] = up[e]
    BY <1>2 DEF LookUpTexts, ChoosePath
  <2>. QED BY <1>2, <2>1 DEF LookUpTexts, row, stores, analyses
<1>3. CASE CreateDocument(d)
  BY <1>3 DEF CreateDocument, CreateRow, stores, analyses, env
<1>4. CASE CreateOrphan(d)
  BY <1>4 DEF CreateOrphan, CreateRow, Abandon, stores, analyses
<1>5. CASE SendToQueue(d)
  <2>1. PICK o \in Outcomes : Enqueue(FirstAttempt(FirstTask(up[d].path), d), Copies(o))
    BY <1>5 DEF SendToQueue
  <2>2. FirstTask(up[d].path) \in Tasks
    BY DEF FirstTask, Tasks
  <2>3. \A m \in Messages : queue[m] > 0 => queue'[m] > 0
    BY <2>1, <2>2, SentOrRaised
  <2>. QED BY <1>5, <2>3 DEF SendToQueue, row, stores, analyses
<1>6. CASE CopyText(d)
  BY <1>6 DEF CopyText, row, analyses
<1>7. CASE Degrade(d)
  <2>1. \A e \in Docs \ {d} : status'[e] = status[e]
    BY <1>7, Saved DEF Degrade
  <2>. QED BY <1>7, <2>1 DEF Degrade, stores, analyses, env
<1>8. CASE RemoveAfterCopy(d) \/ RemoveFromTemp(d)
  <2>1. RemoveFile(d)
    BY <1>8 DEF RemoveAfterCopy, RemoveFromTemp
  <2>. QED BY <1>8, <2>1, Removed DEF RemoveAfterCopy, RemoveFromTemp, row, analyses
<1>9. CASE StartAnalysis(d)
  BY <1>9 DEF StartAnalysis, GetOrCreateAnalysis, row, stores, env
<1>10. CASE SendEvent(d)
  <2>1. \A e \in Docs \ {d} : requested'[e] = requested[e]
    BY <1>10 DEF SendEvent
  <2>. QED BY <1>10, <2>1 DEF SendEvent, row, stores
<1>11. CASE UndoDispatch(d)
  BY <1>11 DEF UndoDispatch, MarkDispatchFailed, Abandon, row, stores, env
<1>12. CASE TryMarkFailed(d)
  <2>1. \A e \in Docs \ {d} : status'[e] = status[e] /\ named'[e] = named[e]
    BY <1>12, Saved, Cleared DEF TryMarkFailed
  <2>. QED BY <1>12, <2>1 DEF TryMarkFailed, Abandon, stores, analyses, env
<1>13. CASE UploadFails(d)
  BY <1>13 DEF UploadFails, row, stores, analyses
<1>14. CASE UploadLost(d)
  BY <1>14 DEF UploadLost, Abandon, row, stores, analyses
<1>15. CASE CancelLost(d) \/ CancelRead(d)
  BY <1>15 DEF CancelLost, CancelRead, row, stores, analyses, env
<1>16. CASE CancelWrite(d)
  <2>1. \A e \in Docs \ {d} : status'[e] = status[e] /\ named'[e] = named[e]
    BY <1>16, Saved, Cleared DEF CancelWrite
  <2>. QED BY <1>16, <2>1 DEF CancelWrite, stores, analyses, env
<1>17. CASE CancelUnlink(d)
  BY <1>17, Removed DEF CancelUnlink, row, analyses
<1>. QED BY <1>1, <1>2, <1>3, <1>4, <1>5, <1>6, <1>7, <1>8, <1>9, <1>10, <1>11, <1>12, <1>13,
            <1>14, <1>15, <1>16, <1>17
     DEF UploadStep, RequestFault, CancelStep

\* What a run knows whatever others do: the scan and the upload reference no instance, and
\* only an extraction loads, dispatches or handles its failure.
FilePcs == ScanPcs \cup UploadPcs
           \cup {"check_cancelled", "check_path", "write_missing", "write_infected"}
RunKnows(r) ==
  /\ r.pc \in FilePcs => r.seen = NoInstance /\ r.task # "extract"
  /\ r.pc \in ExtractPcs => r.task = "extract"

LEMMA WorkerKnows ==
  ASSUME Typed, NEW w \in Workers, RunStep(w) \/ RunFault(w), RunKnows(run[w])
  PROVE  RunKnows(run'[w])
<1>. run \in [Workers -> Runs] /\ run[w] \in Runs
  BY RunTypes
<1>. USE DEF At, RunKnows, FilePcs, Runs, ScanPcs, UploadPcs, ExtractPcs, LoadedPcs, RedispatchPcs
<1>0. ASSUME End(w) PROVE RunKnows(run'[w])
  BY <1>0 DEF End, Idle
<1>1. CASE Raise(w)
  BY <1>0, <1>1 DEF Raise, Goto, FailurePc
<1>2. CASE Cleanup(w) \/ WriteMissing(w) \/ RunLost(w)
  BY <1>0, <1>2 DEF Cleanup, WriteMissing, Acknowledged, Escapes, RunLost
<1>3. CASE CheckCancelled(w) \/ CheckPath(w)
  BY <1>3 DEF CheckCancelled, CheckPath, AfterPathCheck, Goto
<1>4. CASE MarkScanning(w) \/ WriteInfected(w) \/ MarkUploading(w) \/ WriteUploaded(w)
  BY <1>4 DEF MarkScanning, WriteInfected, Acknowledged, Escapes, MarkUploading, WriteUploaded, Goto
<1>5. CASE Scan(w)
  BY <1>5 DEF Scan, Verdict, Unavailable, WithoutScan, Goto
<1>6. CASE PublishUpload(w) \/ PublishExtract(w)
  BY <1>0, <1>6 DEF PublishUpload, PublishExtract, Publish, Goto
<1>7. CASE CheckObject(w) \/ PutObject(w)
  BY <1>7 DEF CheckObject, AfterHead, PutObject, RaiseFinally, FailurePc, Goto
<1>8. CASE WriteFailed(w) \/ WriteExtracted(w) \/ WriteFailure(w)
  BY <1>8 DEF WriteFailed, WriteExtracted, Acknowledged, Escapes, WriteFailure, Goto
<1>9. CASE LoadDocument(w)
  BY <1>0, <1>9 DEF LoadDocument, Goto
<1>10. CASE CheckLocal(w) \/ RestoreMissing(w) \/ RestoreAgain(w)
  BY <1>10 DEF CheckLocal, RestoreMissing, RestoreAgain, Restore, RaiseFinally, FailurePc, Goto
<1>11. CASE MarkExtracting(w)
  BY <1>11 DEF MarkExtracting, GotoRefreshed
<1>12. CASE Extract(w) \/ ExtractAgain(w) \/ StoreText(w)
  BY <1>12 DEF Extract, Extracted, ExtractAgain, StoreText, RaiseFinally, FailurePc, Goto
<1>13. CASE UnlinkLocal(w) \/ CreateAnalysis(w) \/ MarkAnalysisFailed(w)
  BY <1>13 DEF UnlinkLocal, CreateAnalysis, MarkAnalysisFailed, Goto
<1>14. CASE PublishEvent(w)
  BY <1>0, <1>14 DEF PublishEvent, Goto
<1>15. CASE OnFailure(w) \/ Recheck(w)
  BY <1>15 DEF OnFailure, Recheck, Goto
<1>16. CASE AccessFails(w) \/ HandlerFails(w)
  BY <1>16 DEF AccessFails, Escapes, HandlerFails
<1>. QED BY <1>1, <1>2, <1>3, <1>4, <1>5, <1>6, <1>7, <1>8, <1>9, <1>10, <1>11, <1>12, <1>13,
            <1>14, <1>15, <1>16
     DEF RunStep, RunFault

-----------------------------------------------------------------------------
(* NoStuckDocument: a document that is being worked on has someone who will *)
(* go on with it.                                                           *)
(*                                                                          *)
(* Which one that is depends on the status: an extraction that finds an     *)
(* early one leaves the document to whoever wrote that.  A run whose        *)
(* instance already shows an end may write none, and counts as nobody.      *)

Early == {"created", "scanning", "uploading"}
Late == {"uploaded", "extracting"}

\* Where a run goes on whatever the status is, unless it is a run of the extraction ...
EarlyPcs == ScanPcs \cup (UploadPcs \ {"publish_extract"})
            \cup {"check_cancelled", "check_path", "write_missing", "write_infected", "write_failed",
                  "raise", "recheck", "write_failure"}

\* ... and where it goes on if the document is stored.
LatePcs == LoadedPcs \cup {"publish_extract", "load", "write_failed", "raise", "on_failure", "recheck",
                           "write_failure"}

RunTends(r, d) ==
  /\ r.doc = d /\ r.seen.status \notin Terminal
  /\ \/ r.pc \in EarlyPcs /\ r.task # "extract"
     \/ r.pc \in LatePcs /\ status[d] \in Late

MessageTends(m, d) == queue[m] > 0 /\ m.doc = d /\ (m.task # "extract" \/ status[d] \in Late)

RequestTends(d) ==
  \/ up[d].pc = "mark_failed"
  \/ up[d].pc = "send" /\ (up[d].path = "full" \/ status[d] \in Late)

Tended(d) ==
  d \notin abandoned /\ status[d] \in Working =>
    \/ RequestTends(d)
    \/ \E m \in Messages : MessageTends(m, d)
    \/ \E w \in Workers : RunTends(run[w], d)

TendedInv == \A d \in Docs : Tended(d)

\* What worker w does for the document it works on.
WorkerTends(w, d) ==
  d \notin abandoned' /\ status'[d] \in Working =>
    \/ RunTends(run[w], d)'
    \/ \E m \in Messages : MessageTends(m, d)'
    \/ status'[d] = status[d] /\ ~ RunTends(run[w], d)

LEMMA SentTends ==
  ASSUME Typed, NEW w \in Workers, NEW d \in Docs, d = Doc(w), NEW task \in Tasks, Publish(w, task),
         run[w].pc # "idle", status[d] = status'[d], task = "extract" => status[d] \in Late
  PROVE  \/ \E m \in Messages : MessageTends(m, d)'
         \/ run'[w] = [run[w] EXCEPT !.pc = "raise"]
<1>1. PICK o \in Outcomes :
        /\ Enqueue(FirstAttempt(task, d), Copies(o))
        /\ IF Raises(o) THEN Goto(w, "raise") ELSE End(w)
  BY DEF Publish
<1>2. CASE Raises(o)
  BY <1>1, <1>2, RunTypes DEF Goto
<1>3. CASE ~ Raises(o)
  <2>1. FirstAttempt(task, d) \in Messages /\ queue'[FirstAttempt(task, d)] > 0
    BY <1>1, <1>3, SentOrRaised, FirstSent
  <2>2. FirstAttempt(task, d).doc = d /\ FirstAttempt(task, d).task = task
    BY DEF FirstAttempt
  <2>. QED BY <2>1, <2>2 DEF MessageTends
<1>. QED BY <1>2, <1>3

LEMMA WorkerGoesOn ==
  ASSUME Typed, NEW w \in Workers, NEW d \in Docs, d = Doc(w), RunKnows(run[w]),
         RunStep(w) \/ RunFault(w)
  PROVE  WorkerTends(w, d)
<1>. /\ run \in [Workers -> Runs] /\ run[w] \in Runs /\ run[w].doc = d
     /\ status \in [Docs -> Statuses] /\ queue \in [Messages -> Nat] /\ run[w].task \in Tasks
     /\ NoInstance.status = "none"
  BY RunTypes DEF Doc, NoInstance
<1>. USE DEF At, WorkerTends, RunTends, EarlyPcs, LatePcs, ScanPcs, UploadPcs, LoadedPcs, Terminal,
             Working, Late
<1>1. CASE Raise(w)
  <2>1. CASE run[w].retries < MaxRetries
    <3>. DEFINE m == [task |-> run[w].task, doc |-> d, retries |-> run[w].retries + 1]
    <3>1. m \in Messages /\ queue'[m] > 0
      BY <1>1, <2>1, Retried, Queued DEF Raise
    <3>2. m.doc = d /\ m.task = run[w].task
      OBVIOUS
    <3>3. UNCHANGED status
      BY <1>1 DEF Raise, row
    <3>. HIDE DEF m
    <3>. QED BY <1>1, <3>1, <3>2, <3>3 DEF MessageTends
  <2>2. CASE ~ (run[w].retries < MaxRetries)
    BY <1>1, <2>2 DEF Raise, Goto, FailurePc, row, Runs
  <2>. QED BY <2>1, <2>2
<1>2. CASE Cleanup(w)
  BY <1>2 DEF Cleanup, row
<1>3. CASE CheckCancelled(w)
  BY <1>3 DEF CheckCancelled, Goto, row, Runs
<1>4. CASE CheckPath(w)
  BY <1>4 DEF CheckPath, AfterPathCheck, Goto, row, Runs
<1>5. CASE WriteMissing(w)
  BY <1>5, Saved DEF WriteMissing
<1>6. CASE MarkScanning(w)
  <2>1. SaveStatus(d, NoInstance, "scanning")
    BY <1>6 DEF MarkScanning
  <2>2. status'[d] = "scanning"
    BY <2>1, Saved
  <2>3. run'[w].pc = "scan" /\ run'[w].doc = d /\ run'[w].task = run[w].task /\ run'[w].seen = run[w].seen
    BY <1>6 DEF MarkScanning, Goto, Runs
  <2>4. run[w].seen = NoInstance /\ run[w].task # "extract"
    BY <1>6 DEF MarkScanning, RunKnows, FilePcs
  <2>. QED BY <1>6, <2>2, <2>3, <2>4
<1>7. CASE Scan(w)
  BY <1>7 DEF Scan, Verdict, Unavailable, WithoutScan, Goto, row, Runs
<1>8. CASE WriteInfected(w)
  BY <1>8, Saved DEF WriteInfected
<1>9. CASE PublishUpload(w)
  <2>1. \/ \E m \in Messages : MessageTends(m, d)'
        \/ run'[w] = [run[w] EXCEPT !.pc = "raise"]
    BY <1>9, SentTends, TaskNames DEF PublishUpload, Publish, row
  <2>. QED BY <1>9, <2>1 DEF PublishUpload, Publish, row, Runs
<1>10. CASE MarkUploading(w)
  <2>1. SaveStatus(d, NoInstance, "uploading")
    BY <1>10 DEF MarkUploading
  <2>2. status'[d] = "uploading"
    BY <2>1, Saved
  <2>3. run'[w].pc = "check_object" /\ run'[w].doc = d /\ run'[w].task = run[w].task /\ run'[w].seen = run[w].seen
    BY <1>10 DEF MarkUploading, Goto, Runs
  <2>4. run[w].seen = NoInstance /\ run[w].task # "extract"
    BY <1>10 DEF MarkUploading, RunKnows, FilePcs
  <2>. QED BY <1>10, <2>2, <2>3, <2>4
<1>11. CASE CheckObject(w)
  BY <1>11 DEF CheckObject, AfterHead, Goto, row, Runs
<1>12. CASE PutObject(w)
  BY <1>12 DEF PutObject, RaiseFinally, FailurePc, Goto, row, Runs
<1>13. CASE WriteUploaded(w)
  BY <1>13, Saved DEF WriteUploaded, RunKnows, FilePcs, Goto, Runs
<1>14. CASE PublishExtract(w)
  <2>1. CASE status[d] \in Late
    <3>1. \/ \E m \in Messages : MessageTends(m, d)'
          \/ run'[w] = [run[w] EXCEPT !.pc = "raise"]
      BY <1>14, <2>1, SentTends, TaskNames DEF PublishExtract, Publish, row
    <3>. QED BY <1>14, <3>1 DEF PublishExtract, Publish, row, Runs
  <2>2. CASE status[d] \notin Late
    BY <1>14, <2>2 DEF PublishExtract, Publish, row
  <2>. QED BY <2>1, <2>2
<1>15. CASE WriteFailed(w) \/ WriteExtracted(w) \/ WriteFailure(w)
  <2>1. PICK st \in Terminal : SaveStatus(d, run[w].seen, st)
    BY <1>15 DEF WriteFailed, WriteExtracted, WriteFailure
  <2>2. status'[d] \in Terminal \/ (run[w].seen.status \in Terminal /\ status'[d] = status[d])
    <3>1. status'[d] = IF st = run[w].seen.status THEN status[d] ELSE st
      BY <2>1, Saved
    <3>2. CASE st = run[w].seen.status
      BY <2>1, <3>1, <3>2
    <3>3. CASE st # run[w].seen.status
      BY <2>1, <3>1, <3>3
    <3>. QED BY <3>2, <3>3
  <2>. QED BY <2>2
<1>16. CASE LoadDocument(w)
  BY <1>16 DEF LoadDocument, Instance, Goto, row, Runs
<1>17. CASE CheckLocal(w)
  BY <1>17 DEF CheckLocal, Goto, row, Runs
<1>18. CASE RestoreMissing(w)
  BY <1>18 DEF RestoreMissing, Restore, RaiseFinally, FailurePc, Goto, row, Runs
<1>19. CASE MarkExtracting(w)
  <2>1. run'[w] = [run[w] EXCEPT !.pc = "extract", !.seen = Refreshed(run[w].seen, d)]
    BY <1>19 DEF MarkExtracting, GotoRefreshed
  <2>2. Refreshed(run[w].seen, d).status \in {"none", status'[d]}
    BY DEF Refreshed
  <2>3. run'[w].doc = d /\ run'[w].pc = "extract" /\ run'[w].seen = Refreshed(run[w].seen, d)
    BY <2>1 DEF Runs
  <2>4. \/ status'[d] = "extracting"
        \/ status'[d] = status[d] /\ run[w].pc = "mark_extracting"
    BY <1>19, Saved DEF MarkExtracting
  <2>. QED BY <2>2, <2>3, <2>4
<1>20. CASE Extract(w)
  BY <1>20 DEF Extract, Extracted, Goto, row, Runs
<1>21. CASE RestoreAgain(w)
  BY <1>21 DEF RestoreAgain, Restore, RaiseFinally, FailurePc, Goto, row, Runs
<1>22. CASE ExtractAgain(w)
  BY <1>22 DEF ExtractAgain, Extracted, RaiseFinally, FailurePc, row, Runs
<1>23. CASE StoreText(w)
  BY <1>23 DEF StoreText, row, Runs
<1>24. CASE UnlinkLocal(w) \/ CreateAnalysis(w) \/ PublishEvent(w) \/ MarkAnalysisFailed(w)
  BY <1>24 DEF UnlinkLocal, CreateAnalysis, PublishEvent, MarkAnalysisFailed, row
<1>25. CASE OnFailure(w)
  BY <1>25 DEF OnFailure, Goto, row, Runs
<1>26. CASE Recheck(w)
  BY <1>26 DEF Recheck, Instance, Goto, row, Runs
<1>27. CASE AccessFails(w)
  BY <1>27 DEF AccessFails, Escapes, RaisingPcs, row, Runs
<1>28. CASE HandlerFails(w) \/ RunLost(w)
  BY <1>28 DEF HandlerFails, RunLost, Abandon, Doc
<1>. QED BY <1>1, <1>2, <1>3, <1>4, <1>5, <1>6, <1>7, <1>8, <1>9, <1>10, <1>11, <1>12, <1>13,
            <1>14, <1>15, <1>16, <1>17, <1>18, <1>19, <1>20, <1>21, <1>22, <1>23, <1>24, <1>25,
            <1>26, <1>27, <1>28
     DEF RunStep, RunFault

\* A worker that takes a message goes on where the message stood.
LEMMA TakeTends ==
  ASSUME Typed, NEW w \in Workers, NEW m \in Messages, Take(w, m), TendedInv
  PROVE  TendedInv' /\ RunKnows(run'[w])
<1>. /\ run \in [Workers -> Runs] /\ queue \in [Messages -> Nat]
     /\ run' = [run EXCEPT ![w] = [pc |-> FirstPc(m.task), doc |-> m.doc, task |-> m.task,
                                   retries |-> m.retries, seen |-> NoInstance, text |-> None]]
     /\ UNCHANGED <<status, up, abandoned>>
  BY RunTypes DEF Take, row, requests, env
<1>1. run'[w] = [pc |-> FirstPc(m.task), doc |-> m.doc, task |-> m.task,
                 retries |-> m.retries, seen |-> NoInstance, text |-> None]
  OBVIOUS
<1>2. \A x \in Messages \ {m} : queue'[x] = queue[x]
  BY DEF Take
<1>3. RunKnows(run'[w])
  BY <1>1 DEF RunKnows, FirstPc, FilePcs, ExtractPcs, LoadedPcs, RedispatchPcs, ScanPcs, UploadPcs
<1>4. ASSUME NEW d \in Docs, MessageTends(m, d) PROVE RunTends(run[w], d)'
  BY <1>1, <1>4 DEF MessageTends, RunTends, FirstPc, EarlyPcs, LatePcs, Terminal, NoInstance
<1>5. ASSUME NEW d \in Docs, Tended(d) PROVE Tended(d)'
  <2>. SUFFICES ASSUME d \notin abandoned, status[d] \in Working
                PROVE  \/ RequestTends(d)'
                       \/ \E x \in Messages : MessageTends(x, d)'
                       \/ \E v \in Workers : RunTends(run[v], d)'
    BY DEF Tended
  <2>1. CASE RequestTends(d)
    BY <2>1 DEF RequestTends
  <2>2. CASE \E x \in Messages : MessageTends(x, d)
    <3>1. PICK x \in Messages : MessageTends(x, d)
      BY <2>2
    <3>2. CASE x = m
      BY <3>1, <3>2, <1>4 DEF RunTends
    <3>3. CASE x # m
      BY <3>1, <3>3, <1>2 DEF MessageTends
    <3>. QED BY <3>2, <3>3
  <2>3. CASE \E v \in Workers : RunTends(run[v], d)
    <3>1. PICK v \in Workers : RunTends(run[v], d)
      BY <2>3
    <3>2. v # w
      BY <3>1 DEF RunTends, Take, At, EarlyPcs, LatePcs, LoadedPcs, ScanPcs, UploadPcs
    <3>3. run'[v] = run[v]
      BY <3>2
    <3>. QED BY <3>1, <3>3 DEF RunTends
  <2>. QED BY <1>5, <2>1, <2>2, <2>3 DEF Tended
<1>. QED BY <1>3, <1>5 DEF TendedInv

LEMMA WorkerKeepsTended ==
  ASSUME Typed, NEW w \in Workers, NEW e \in Docs, e = Doc(w), OthersWait(w), OthersStay(e),
         WorkerTends(w, e), TendedInv
  PROVE  TendedInv'
<1>. /\ up' = up
     /\ \A m \in Messages : queue[m] > 0 => queue'[m] > 0
     /\ \A v \in Workers \ {w} : run'[v] = run[v]
  BY DEF OthersWait, OthersStay
<1>. SUFFICES ASSUME NEW d \in Docs, d \notin abandoned', status'[d] \in Working
              PROVE  \/ RequestTends(d)'
                     \/ \E m \in Messages : MessageTends(m, d)'
                     \/ \E v \in Workers : RunTends(run[v], d)'
  BY DEF TendedInv, Tended
<1>1. CASE \/ d = e /\ RunTends(run[w], d)'
           \/ d = e /\ \E m \in Messages : MessageTends(m, d)'
  BY <1>1
<1>2. CASE status'[d] = status[d] /\ ~ RunTends(run[w], d)
  <2>1. \/ RequestTends(d)
        \/ \E m \in Messages : MessageTends(m, d)
        \/ \E v \in Workers : RunTends(run[v], d)
    BY <1>2 DEF TendedInv, Tended, OthersStay
  <2>2. CASE RequestTends(d)
    BY <1>2, <2>2 DEF RequestTends
  <2>3. CASE \E m \in Messages : MessageTends(m, d)
    <3>1. PICK m \in Messages : MessageTends(m, d)
      BY <2>3
    <3>2. queue'[m] > 0
      BY <3>1 DEF MessageTends
    <3>. QED BY <1>2, <3>1, <3>2 DEF MessageTends
  <2>4. CASE \E v \in Workers : RunTends(run[v], d)
    <3>1. PICK v \in Workers : RunTends(run[v], d) /\ v # w
      BY <1>2, <2>4
    <3>2. run'[v] = run[v]
      BY <3>1
    <3>. QED BY <1>2, <3>1, <3>2 DEF RunTends
  <2>. QED BY <2>1, <2>2, <2>3, <2>4
<1>3. CASE d # e
  <2>1. status'[d] = status[d] /\ ~ RunTends(run[w], d)
    BY <1>3 DEF OthersStay, RunTends, Doc
  <2>. QED BY <2>1, <1>2
<1>. QED BY <1>1, <1>2, <1>3 DEF WorkerTends

\* What a request does for its document.
RequestGoesOn(d) ==
  d \notin abandoned' /\ status'[d] \in Working =>
    \/ RequestTends(d)'
    \/ \E m \in Messages : MessageTends(m, d)'
    \/ status'[d] = status[d] /\ ~ RequestTends(d)

LEMMA RequestsGoOn ==
  ASSUME Typed, NEW d \in Docs, UploadStep(d) \/ RequestFault(d) \/ CancelRead(d) \/ CancelStep(d)
  PROVE  RequestGoesOn(d)
<1>. /\ up \in [Docs -> Uploads] /\ up[d] \in Uploads /\ status \in [Docs -> Statuses]
     /\ queue \in [Messages -> Nat] /\ NoInstance.status = "none"
  BY DEF Typed, TypeOK, NoInstance
<1>. USE DEF UpAt, UpGoto, RequestGoesOn, RequestTends, Working, Late, Uploads
<1>1. CASE LookUpDuplicates(d) \/ LookUpTexts(d)
  BY <1>1 DEF LookUpDuplicates, LookUpTexts, row
<1>2. CASE CreateDocument(d)
  <2>1. up'[d].path = up[d].path /\ status'[d] = InitialStatus[up[d].path] /\ up[d].path \in Paths
    BY <1>2 DEF CreateDocument, CreateRow
  <2>2. up'[d].pc = IF up[d].path = "analysis_only" THEN "upsert" ELSE "send"
    BY <1>2 DEF CreateDocument
  <2>. QED BY <2>1, <2>2 DEF InitialStatus, Paths
<1>3. CASE CreateOrphan(d)
  BY <1>3 DEF CreateOrphan, Abandon
<1>4. CASE SendToQueue(d)
  <2>1. PICK o \in Outcomes :
          /\ Enqueue(FirstAttempt(FirstTask(up[d].path), d), Copies(o))
          /\ up' = [up EXCEPT ![d].pc = IF Raises(o) THEN "mark_failed" ELSE "done"]
    BY <1>4 DEF SendToQueue
  <2>2. UNCHANGED status
    BY <1>4 DEF SendToQueue, row
  <2>3. CASE Raises(o)
    BY <2>1, <2>3
  <2>4. CASE ~ Raises(o)
    <3>. DEFINE task == FirstTask(up[d].path)
                m == FirstAttempt(task, d)
    <3>1. task \in Tasks /\ (task = "extract" => up[d].path # "full")
      BY DEF FirstTask, Tasks
    <3>2. m \in Messages /\ m.doc = d /\ m.task = task
      BY <3>1, FirstSent DEF FirstAttempt
    <3>3. queue'[m] > 0
      BY <2>1, <2>4, <3>1, SentOrRaised
    <3>4. up[d].pc = "send"
      BY <1>4 DEF SendToQueue
    <3>. HIDE DEF m, task
    <3>. QED BY <2>2, <3>1, <3>2, <3>3, <3>4 DEF MessageTends
  <2>. QED BY <2>3, <2>4
<1>5. CASE CopyText(d)
  BY <1>5 DEF CopyText, row
<1>6. CASE Degrade(d)
  <2>1. SaveStatus(d, NoInstance, "uploaded")
    BY <1>6 DEF Degrade
  <2>2. status'[d] = "uploaded"
    BY <2>1, Saved
  <2>3. up'[d].pc = "send"
    BY <1>6 DEF Degrade
  <2>. QED BY <2>2, <2>3
<1>7. CASE RemoveAfterCopy(d) \/ RemoveFromTemp(d)
  BY <1>7 DEF RemoveAfterCopy, RemoveFromTemp, row
<1>8. CASE StartAnalysis(d) \/ SendEvent(d) \/ UndoDispatch(d)
  BY <1>8 DEF StartAnalysis, SendEvent, UndoDispatch, row
<1>9. CASE TryMarkFailed(d)
  <2>1. CASE SaveStatus(d, NoInstance, "failed")
    BY <2>1, Saved
  <2>2. CASE Abandon(d)
    BY <2>2 DEF Abandon
  <2>. QED BY <1>9, <2>1, <2>2 DEF TryMarkFailed
<1>10. CASE UploadFails(d)
  BY <1>10 DEF UploadFails, row
<1>11. CASE UploadLost(d)
  BY <1>11 DEF UploadLost, Abandon
<1>12. CASE CancelLost(d) \/ CancelRead(d) \/ CancelUnlink(d)
  BY <1>12 DEF CancelLost, CancelRead, CancelUnlink, row
<1>13. CASE CancelWrite(d)
  <2>1. status'[d] \in {"cancelled", status[d]} /\ up' = up
    BY <1>13, Saved DEF CancelWrite
  <2>. QED BY <2>1
<1>. QED BY <1>1, <1>2, <1>3, <1>4, <1>5, <1>6, <1>7, <1>8, <1>9, <1>10, <1>11, <1>12, <1>13
     DEF UploadStep, RequestFault, CancelStep

LEMMA RequestKeepsTended ==
  ASSUME NEW d \in Docs, OthersStay(d), UNCHANGED run, RequestGoesOn(d), TendedInv,
         \A e \in Docs \ {d} : up'[e] = up[e]
  PROVE  TendedInv'
<1>. SUFFICES ASSUME NEW e \in Docs, e \notin abandoned', status'[e] \in Working
              PROVE  \/ RequestTends(e)'
                     \/ \E m \in Messages : MessageTends(m, e)'
                     \/ \E v \in Workers : RunTends(run[v], e)'
  BY DEF TendedInv, Tended
<1>1. CASE status'[e] = status[e] /\ (RequestTends(e) => RequestTends(e)')
  <2>1. \/ RequestTends(e)
        \/ \E m \in Messages : MessageTends(m, e)
        \/ \E v \in Workers : RunTends(run[v], e)
    BY <1>1 DEF TendedInv, Tended, OthersStay
  <2>. QED BY <1>1, <2>1 DEF OthersStay, MessageTends, RunTends
<1>2. CASE e # d
  <2>1. status'[e] = status[e] /\ up'[e] = up[e]
    BY <1>2 DEF OthersStay
  <2>. QED BY <2>1, <1>1 DEF RequestTends
<1>. QED BY <1>1, <1>2 DEF RequestGoesOn

-----------------------------------------------------------------------------
(* NoQueuedOrphan: while the analysis of an extracted document is queued    *)
(* and no event was sent, somebody is about to send it.  A task never       *)
(* records that it could not, so its last attempt must not fail: every      *)
(* attempt that raises costs a fault, and there were fewer than attempts.   *)

\* A retry was paid for with a fault of each attempt before it.
RunTries(r) == r.pc # "idle" => r.retries <= faults /\ (r.pc = "raise" => r.retries < faults)

TriesInv ==
  /\ \A m \in Messages : queue[m] > 0 => m.retries <= faults
  /\ \A w \in Workers : RunTries(run[w])

LEMMA WorkerTries ==
  ASSUME Typed, NEW w \in Workers, RunStep(w) \/ RunFault(w), RunTries(run[w])
  PROVE  /\ faults <= faults' /\ RunTries(run[w])'
         /\ \A m \in Messages : queue'[m] > 0 => queue[m] > 0 \/ m.retries <= faults
<1>. /\ run \in [Workers -> Runs] /\ run[w] \in Runs /\ faults \in Nat
     /\ run[w].retries \in Nat /\ queue \in [Messages -> Nat]
  BY BoundsAssumption, RunTypes DEF Typed, TypeOK, Runs
<1>. USE DEF At, RunTries, Fault, Runs
<1>0. ASSUME End(w) PROVE run'[w].pc = "idle"
  BY <1>0 DEF End, Idle
<1>1. CASE Raise(w)
  <2>1. CASE run[w].retries < MaxRetries
    <3>. DEFINE m == [task |-> run[w].task, doc |-> Doc(w), retries |-> run[w].retries + 1]
    <3>1. \A x \in Messages : queue'[x] > 0 => queue[x] > 0 \/ x = m
      BY <1>1, <2>1 DEF Raise, Enqueue
    <3>2. m.retries <= faults
      BY <1>1 DEF Raise
    <3>. HIDE DEF m
    <3>. QED BY <1>0, <1>1, <2>1, <3>1, <3>2 DEF Raise, env
  <2>2. CASE ~ (run[w].retries < MaxRetries)
    BY <1>1, <2>2 DEF Raise, Goto, FailurePc, env
  <2>. QED BY <2>1, <2>2
<1>2. CASE Cleanup(w)
  BY <1>0, <1>2 DEF Cleanup, RemoveFile, env
<1>3. CASE CheckCancelled(w) \/ CheckPath(w) \/ CheckLocal(w)
  BY <1>3 DEF CheckCancelled, CheckPath, AfterPathCheck, CheckLocal, Goto, env
<1>4. CASE WriteMissing(w) \/ WriteInfected(w)
  BY <1>0, <1>4 DEF WriteMissing, WriteInfected, Acknowledged, Escapes, Goto
<1>5. CASE WriteFailed(w) \/ WriteExtracted(w)
  BY <1>5 DEF WriteFailed, WriteExtracted, Acknowledged, Escapes, Goto
<1>6. CASE MarkScanning(w) \/ MarkUploading(w) \/ WriteUploaded(w)
  BY <1>6 DEF MarkScanning, MarkUploading, WriteUploaded, Goto, env
<1>7. CASE Scan(w)
  BY <1>7 DEF Scan, Verdict, Unavailable, WithoutScan, Goto
<1>8. CASE PublishUpload(w) \/ PublishExtract(w)
  <2>1. PICK task \in {"upload", "extract"} : run[w].pc # "idle" /\ run[w].pc # "raise" /\ Publish(w, task)
    BY <1>8 DEF PublishUpload, PublishExtract
  <2>2. PICK o \in Outcomes : /\ Costs(o) /\ Enqueue(FirstAttempt(task, Doc(w)), Copies(o))
                              /\ IF Raises(o) THEN Goto(w, "raise") ELSE End(w)
    BY <2>1 DEF Publish
  <2>3. \A m \in Messages : queue'[m] > 0 => queue[m] > 0 \/ m.retries <= faults
    BY <2>2 DEF Enqueue, FirstAttempt
  <2>. QED BY <1>0, <2>1, <2>2, <2>3 DEF Costs, Raises, Goto
<1>9. CASE CheckObject(w) \/ PutObject(w)
  BY <1>9 DEF CheckObject, AfterHead, PutObject, RaiseFinally, FailurePc, Goto
<1>10. CASE LoadDocument(w)
  BY <1>0, <1>10 DEF LoadDocument, Goto, env
<1>11. CASE RestoreMissing(w) \/ RestoreAgain(w)
  BY <1>11 DEF RestoreMissing, RestoreAgain, Restore, RaiseFinally, FailurePc, Goto
<1>12. CASE MarkExtracting(w) \/ StoreText(w) \/ WriteFailure(w)
  BY <1>12 DEF MarkExtracting, GotoRefreshed, StoreText, WriteFailure, env
<1>13. CASE Extract(w) \/ ExtractAgain(w)
  BY <1>13 DEF Extract, Extracted, ExtractAgain, RaiseFinally, FailurePc, Goto, env
<1>14. CASE UnlinkLocal(w)
  BY <1>14 DEF UnlinkLocal, RemoveFile, Goto, env
<1>15. CASE CreateAnalysis(w) \/ MarkAnalysisFailed(w)
  BY <1>15 DEF CreateAnalysis, MarkAnalysisFailed, Goto, env
<1>16. CASE PublishEvent(w)
  BY <1>0, <1>16 DEF PublishEvent, Costs, Raises, Goto
<1>17. CASE OnFailure(w) \/ Recheck(w)
  BY <1>17 DEF OnFailure, Recheck, Goto, env
<1>18. CASE AccessFails(w) \/ HandlerFails(w)
  BY <1>18 DEF AccessFails, RaisingPcs, Escapes, HandlerFails
<1>19. CASE RunLost(w)
  BY <1>0, <1>19 DEF RunLost
<1>. QED BY <1>1, <1>2, <1>3, <1>4, <1>5, <1>6, <1>7, <1>8, <1>9, <1>10, <1>11, <1>12, <1>13,
            <1>14, <1>15, <1>16, <1>17, <1>18, <1>19
     DEF RunStep, RunFault

LEMMA RequestTries ==
  ASSUME Typed, NEW d \in Docs, UploadStep(d) \/ RequestFault(d) \/ CancelRead(d) \/ CancelStep(d)
  PROVE  /\ faults <= faults'
         /\ \A m \in Messages : queue'[m] > 0 => queue[m] > 0 \/ m.retries <= faults
<1>. faults \in Nat /\ queue \in [Messages -> Nat]
  BY DEF Typed, TypeOK
<1>. USE DEF UpAt, Fault
<1>1. CASE SendToQueue(d)
  <2>1. PICK o \in Outcomes : Costs(o) /\ Enqueue(FirstAttempt(FirstTask(up[d].path), d), Copies(o))
    BY <1>1 DEF SendToQueue
  <2>2. \A m \in Messages : queue'[m] > 0 => queue[m] > 0 \/ m.retries <= faults
    BY <2>1 DEF Enqueue, FirstAttempt
  <2>. QED BY <2>1, <2>2 DEF Costs
<1>2. CASE LookUpDuplicates(d) \/ LookUpTexts(d) \/ CreateDocument(d) \/ CopyText(d) \/ Degrade(d)
  BY <1>2 DEF LookUpDuplicates, LookUpTexts, CreateDocument, CopyText, Degrade, env
<1>3. CASE RemoveAfterCopy(d) \/ RemoveFromTemp(d) \/ CancelUnlink(d)
  BY <1>3 DEF RemoveAfterCopy, RemoveFromTemp, CancelUnlink, RemoveFile, env
<1>4. CASE StartAnalysis(d) \/ SendEvent(d) \/ UndoDispatch(d) \/ TryMarkFailed(d)
  BY <1>4 DEF StartAnalysis, SendEvent, Costs, UndoDispatch, TryMarkFailed, env
<1>5. CASE RequestFault(d)
  BY <1>5 DEF RequestFault, CreateOrphan, UploadFails, UploadLost, CancelLost
<1>6. CASE CancelRead(d) \/ CancelWrite(d)
  BY <1>6 DEF CancelRead, CancelWrite, env
<1>. QED BY <1>1, <1>2, <1>3, <1>4, <1>5, <1>6 DEF UploadStep, CancelStep

\* What a step does to the retries under way.
LEMMA KeepsTries ==
  ASSUME Typed, TriesInv, NEW w \in Workers, \A v \in Workers \ {w} : run'[v] = run[v],
         faults' \in Nat, faults <= faults', RunTries(run[w])',
         \A m \in Messages : queue'[m] > 0 => queue[m] > 0 \/ m.retries <= faults
  PROVE  TriesInv'
<1>. /\ \A m \in Messages : m.retries \in Nat
     /\ \A v \in Workers : run[v].retries \in Nat
     /\ faults \in Nat
  BY BoundsAssumption DEF Typed, TypeOK, Messages, Runs
<1>1. ASSUME NEW v \in Workers PROVE RunTries(run[v])'
  <2>1. CASE v # w
    <3>1. run'[v] = run[v]
      BY <2>1
    <3>. QED BY <3>1 DEF TriesInv, RunTries
  <2>. QED BY <2>1
<1>2. ASSUME NEW m \in Messages, queue'[m] > 0 PROVE m.retries <= faults'
  BY <1>2 DEF TriesInv
<1>. QED BY <1>1, <1>2 DEF TriesInv

\* Some attempt must have succeeded, or a request that records its failure.
Spared(d) == up[d].path = "analysis_only" \/ faults <= MaxRetries

Orphan(d) == status[d] = "extracted" /\ analysis[d] = "queued" /\ ~ requested[d] /\ Spared(d)

DispatchPcs == {"load", "unlink", "create_analysis", "publish_event", "raise"}
RunDispatches(r, d) == r.doc = d /\ r.task = "extract" /\ r.pc \in DispatchPcs
MessageDispatches(m, d) == queue[m] > 0 /\ m.doc = d /\ m.task = "extract"
RequestDispatches(d) == up[d].pc \in {"publish_event", "mark_dispatch_failed"}

Dispatched(d) ==
  d \notin abandoned /\ Orphan(d) =>
    \/ RequestDispatches(d)
    \/ \E m \in Messages : MessageDispatches(m, d)
    \/ \E w \in Workers : RunDispatches(run[w], d)

DispatchedInv == \A d \in Docs : Dispatched(d)

\* Nothing happens to a document before its row exists.
Fresh(d) ==
  ~ Started(d) => /\ status[d] = "none" /\ analysis[d] = "none" /\ ~ named[d]
                  /\ cancel[d].pc = "idle"

FreshInv == \A d \in Docs : Fresh(d)

LEMMA TakeDispatches ==
  ASSUME Typed, NEW w \in Workers, NEW m \in Messages, Take(w, m), DispatchedInv
  PROVE  DispatchedInv'
<1>. /\ run \in [Workers -> Runs] /\ queue \in [Messages -> Nat]
     /\ run' = [run EXCEPT ![w] = [pc |-> FirstPc(m.task), doc |-> m.doc, task |-> m.task,
                                   retries |-> m.retries, seen |-> NoInstance, text |-> None]]
     /\ UNCHANGED <<status, up, abandoned, analysis, requested, faults>>
  BY RunTypes DEF Take, row, requests, env, analyses
<1>1. run'[w] = [pc |-> FirstPc(m.task), doc |-> m.doc, task |-> m.task,
                 retries |-> m.retries, seen |-> NoInstance, text |-> None]
  OBVIOUS
<1>2. \A x \in Messages \ {m} : queue'[x] = queue[x]
  BY DEF Take
<1>3. ASSUME NEW d \in Docs, MessageDispatches(m, d) PROVE RunDispatches(run[w], d)'
  BY <1>1, <1>3 DEF MessageDispatches, RunDispatches, FirstPc, DispatchPcs
<1>4. ASSUME NEW d \in Docs, d \notin abandoned, Orphan(d)
      PROVE  \/ RequestDispatches(d)'
             \/ \E x \in Messages : MessageDispatches(x, d)'
             \/ \E v \in Workers : RunDispatches(run[v], d)'
  <2>1. CASE RequestDispatches(d)
    BY <2>1 DEF RequestDispatches
  <2>2. CASE \E x \in Messages : MessageDispatches(x, d)
    <3>1. PICK x \in Messages : MessageDispatches(x, d)
      BY <2>2
    <3>2. CASE x = m
      BY <3>1, <3>2, <1>3 DEF RunDispatches
    <3>3. CASE x # m
      BY <3>1, <3>3, <1>2 DEF MessageDispatches
    <3>. QED BY <3>2, <3>3
  <2>3. CASE \E v \in Workers : RunDispatches(run[v], d)
    <3>1. PICK v \in Workers : RunDispatches(run[v], d)
      BY <2>3
    <3>2. v # w
      BY <3>1 DEF RunDispatches, Take, At, DispatchPcs
    <3>3. run'[v] = run[v]
      BY <3>2
    <3>. QED BY <3>1, <3>3 DEF RunDispatches
  <2>. QED BY <1>4, <2>1, <2>2, <2>3 DEF DispatchedInv, Dispatched
<1>. QED BY <1>4 DEF DispatchedInv, Dispatched, Orphan, Spared

\* What worker w does for the document it works on.
WorkerDispatches(w, d) ==
  d \notin abandoned' /\ Orphan(d)' =>
    \/ RunDispatches(run[w], d)'
    \/ \E m \in Messages : MessageDispatches(m, d)'
    \/ Orphan(d) /\ ~ RunDispatches(run[w], d)

LEMMA WorkerRedispatches ==
  ASSUME Typed, NEW w \in Workers, NEW d \in Docs, d = Doc(w), RunKnows(run[w]),
         RunStep(w) \/ RunFault(w), TextInv, RunTries(run[w]), Spared(d)' => Spared(d)
  PROVE  WorkerDispatches(w, d)
<1>. /\ run \in [Workers -> Runs] /\ run[w] \in Runs /\ run[w].doc = d /\ run[w].task \in Tasks
     /\ status \in [Docs -> Statuses] /\ queue \in [Messages -> Nat]
     /\ requested \in [Docs -> BOOLEAN] /\ analysis \in [Docs -> {"none", "queued", "failed"}]
  BY RunTypes DEF Doc
<1>. USE DEF At, WorkerDispatches, RunDispatches, Orphan, DispatchPcs
<1>1. CASE Raise(w)
  <2>1. CASE run[w].retries < MaxRetries
    <3>. DEFINE m == [task |-> run[w].task, doc |-> d, retries |-> run[w].retries + 1]
    <3>1. m \in Messages /\ queue'[m] > 0
      BY <1>1, <2>1, Retried, Queued DEF Raise
    <3>2. m.doc = d /\ m.task = run[w].task
      OBVIOUS
    <3>. HIDE DEF m
    <3>. QED BY <1>1, <3>1, <3>2 DEF MessageDispatches, Raise, row, analyses
  <2>2. CASE ~ (run[w].retries < MaxRetries)
    <3>1. up[d].path # "analysis_only"
      BY <1>1 DEF Raise, TextInv, RunTexts
    <3>2. ~ (faults <= MaxRetries)
      BY <1>1, <2>2, BoundsAssumption DEF Raise, RunTries, Runs, Typed, TypeOK
    <3>. QED BY <3>1, <3>2 DEF Spared
  <2>. QED BY <2>1, <2>2
<1>2. CASE Cleanup(w) \/ CheckCancelled(w) \/ CheckPath(w) \/ Scan(w) \/ CheckObject(w) \/ PutObject(w)
  BY <1>2 DEF Cleanup, CheckCancelled, CheckPath, Scan, CheckObject, PutObject, row, analyses
<1>3. CASE WriteMissing(w) \/ WriteInfected(w) \/ MarkScanning(w) \/ MarkUploading(w) \/ WriteUploaded(w)
  <2>1. \E st \in Statuses \ {"extracted", "none"} : SaveStatus(d, NoInstance, st)
    BY <1>3 DEF WriteMissing, WriteInfected, MarkScanning, MarkUploading, WriteUploaded, Statuses
  <2>2. NoInstance.status = "none"
    BY DEF NoInstance
  <2>. QED BY <2>1, <2>2, Saved
<1>4. CASE PublishUpload(w) \/ PublishExtract(w)
  BY <1>4 DEF PublishUpload, PublishExtract, Publish, row, analyses
<1>5. CASE WriteFailed(w) \/ WriteFailure(w) \/ MarkExtracting(w)
  <2>1. PICK st \in {"failed", "extracting"} : SaveStatus(d, run[w].seen, st)
    BY <1>5 DEF WriteFailed, WriteFailure, MarkExtracting
  <2>2. status'[d] \in {"failed", "extracting", status[d]} /\ UNCHANGED analyses
    BY <1>5, <2>1, Saved DEF WriteFailed, WriteFailure, MarkExtracting
  <2>. QED BY <1>5, <2>2 DEF analyses, WriteFailed, WriteFailure, MarkExtracting
<1>6. CASE WriteExtracted(w)
  BY <1>6 DEF WriteExtracted, Acknowledged, Escapes, RunKnows, ExtractPcs, LoadedPcs, Runs
<1>7. CASE LoadDocument(w)
  BY <1>7 DEF LoadDocument, Goto, row, analyses, Runs
<1>8. CASE CheckLocal(w) \/ RestoreMissing(w) \/ RestoreAgain(w)
  BY <1>8 DEF CheckLocal, RestoreMissing, RestoreAgain, Restore, row, analyses
<1>9. CASE Extract(w) \/ ExtractAgain(w) \/ StoreText(w) \/ Recheck(w)
  BY <1>9 DEF Extract, ExtractAgain, StoreText, Recheck, row, analyses
<1>10. CASE UnlinkLocal(w)
  BY <1>10 DEF UnlinkLocal, Goto, row, analyses, Runs
<1>11. CASE CreateAnalysis(w)
  BY <1>11 DEF CreateAnalysis, Goto, RunKnows, ExtractPcs, RedispatchPcs, Runs
<1>12. CASE PublishEvent(w)
  <2>1. PICK o \in Outcomes :
          /\ requested' = [requested EXCEPT ![d] = @ \/ Copies(o) > 0]
          /\ IF Raises(o) THEN Goto(w, "raise") ELSE End(w)
    BY <1>12 DEF PublishEvent
  <2>2. CASE Raises(o)
    BY <1>12, <2>1, <2>2 DEF Goto, PublishEvent, RunKnows, ExtractPcs, RedispatchPcs, Runs
  <2>3. CASE ~ Raises(o)
    <3>1. Copies(o) > 0
      BY <2>3 DEF Raises, Copies
    <3>2. requested'[d]
      BY <2>1, <3>1
    <3>. QED BY <3>2
  <2>. QED BY <2>2, <2>3
<1>13. CASE OnFailure(w)
  BY <1>13 DEF OnFailure, row, analyses
<1>14. CASE MarkAnalysisFailed(w)
  BY <1>14 DEF MarkAnalysisFailed, row, analyses
<1>15. CASE AccessFails(w)
  BY <1>15 DEF AccessFails, Escapes, row, analyses, Runs
<1>16. CASE HandlerFails(w) \/ RunLost(w)
  BY <1>16 DEF HandlerFails, RunLost, Abandon, Doc
<1>. QED BY <1>1, <1>2, <1>3, <1>4, <1>5, <1>6, <1>7, <1>8, <1>9, <1>10, <1>11, <1>12, <1>13,
            <1>14, <1>15, <1>16
     DEF RunStep, RunFault

LEMMA WorkerKeepsDispatched ==
  ASSUME NEW w \in Workers, NEW e \in Docs, e = Doc(w), OthersWait(w), OthersStay(e),
         WorkerDispatches(w, e), DispatchedInv, \A d \in Docs : Spared(d)' => Spared(d)
  PROVE  DispatchedInv'
<1>. /\ up' = up
     /\ \A m \in Messages : queue[m] > 0 => queue'[m] > 0
     /\ \A v \in Workers \ {w} : run'[v] = run[v]
  BY DEF OthersWait, OthersStay
<1>. SUFFICES ASSUME NEW d \in Docs, d \notin abandoned', Orphan(d)'
              PROVE  \/ RequestDispatches(d)'
                     \/ \E m \in Messages : MessageDispatches(m, d)'
                     \/ \E v \in Workers : RunDispatches(run[v], d)'
  BY DEF DispatchedInv, Dispatched
<1>1. CASE Orphan(d) /\ ~ RunDispatches(run[w], d)
  <2>1. \/ RequestDispatches(d)
        \/ \E m \in Messages : MessageDispatches(m, d)
        \/ \E v \in Workers : RunDispatches(run[v], d)
    BY <1>1 DEF DispatchedInv, Dispatched, OthersStay
  <2>2. CASE RequestDispatches(d)
    BY <2>2 DEF RequestDispatches
  <2>3. CASE \E m \in Messages : MessageDispatches(m, d)
    BY <2>3 DEF MessageDispatches
  <2>4. CASE \E v \in Workers : RunDispatches(run[v], d)
    <3>1. PICK v \in Workers : RunDispatches(run[v], d) /\ v # w
      BY <1>1, <2>4
    <3>2. run'[v] = run[v]
      BY <3>1
    <3>. QED BY <3>1, <3>2 DEF RunDispatches
  <2>. QED BY <2>1, <2>2, <2>3, <2>4
<1>2. CASE d # e
  <2>1. Orphan(d) /\ ~ RunDispatches(run[w], d)
    BY <1>2 DEF OthersStay, Orphan, RunDispatches, Doc
  <2>. QED BY <2>1, <1>1
<1>. QED BY <1>1, <1>2 DEF WorkerDispatches

\* What a request does for its document.
RequestDispatchesOn(d) ==
  d \notin abandoned' /\ Orphan(d)' =>
    RequestDispatches(d)' \/ (Orphan(d) /\ ~ RequestDispatches(d))

LEMMA RequestsDispatch ==
  ASSUME Typed, NEW d \in Docs, Fresh(d),
         UploadStep(d) \/ RequestFault(d) \/ CancelRead(d) \/ CancelStep(d)
  PROVE  RequestDispatchesOn(d) /\ Fresh(d)'
<1>. faults \in Nat /\ faults' \in Nat /\ faults <= faults' /\ MaxRetries \in Nat
  BY NextTyped, RequestTries, BoundsAssumption DEF Next, Typed, TypeOK
<1>. /\ up \in [Docs -> Uploads] /\ up[d] \in Uploads /\ status \in [Docs -> Statuses]
     /\ requested \in [Docs -> BOOLEAN] /\ analysis \in [Docs -> {"none", "queued", "failed"}]
     /\ NoInstance.status = "none" /\ cancel \in [Docs -> Cancels]
  BY DEF Typed, TypeOK, NoInstance
<1>. USE DEF UpAt, UpGoto, RequestDispatchesOn, RequestDispatches, Orphan, Spared, Fresh, Started, Uploads
<1>1. CASE LookUpDuplicates(d) \/ LookUpTexts(d)
  <2>1. ~ Started(d) /\ UNCHANGED <<status, analysis, requested, named, cancel>> /\ ~ RequestDispatches(d)
    BY <1>1 DEF LookUpDuplicates, LookUpTexts, row, analyses
  <2>. QED BY <2>1
<1>2. CASE CreateDocument(d) \/ CreateOrphan(d)
  <2>1. analysis'[d] = "none"
    BY <1>2 DEF CreateDocument, CreateOrphan, analyses
  <2>2. Started(d)'
    BY <1>2 DEF CreateDocument, CreateOrphan
  <2>. QED BY <2>1, <2>2
<1>3. CASE SendToQueue(d) \/ CopyText(d)
  BY <1>3 DEF SendToQueue, CopyText, row, analyses
<1>4. CASE Degrade(d)
  <2>1. status'[d] = "uploaded" /\ up'[d].pc = "send"
    BY <1>4, Saved DEF Degrade
  <2>. QED BY <2>1
<1>5. CASE RemoveAfterCopy(d) \/ RemoveFromTemp(d)
  BY <1>5 DEF RemoveAfterCopy, RemoveFromTemp, row, analyses
<1>6. CASE StartAnalysis(d)
  BY <1>6 DEF StartAnalysis
<1>7. CASE SendEvent(d)
  <2>1. PICK o \in Outcomes :
          /\ requested' = [requested EXCEPT ![d] = @ \/ Copies(o) > 0]
          /\ up' = [up EXCEPT ![d].pc = IF Raises(o) THEN "mark_dispatch_failed" ELSE "done"]
    BY <1>7 DEF SendEvent
  <2>2. CASE Raises(o)
    BY <2>1, <2>2
  <2>3. CASE ~ Raises(o)
    <3>1. Copies(o) > 0
      BY <2>3 DEF Raises, Copies
    <3>2. requested'[d] /\ up'[d].pc = "done"
      BY <2>1, <2>3, <3>1
    <3>. QED BY <3>2
  <2>. QED BY <2>2, <2>3
<1>8. CASE UndoDispatch(d)
  <2>1. CASE MarkDispatchFailed(d)
    BY <1>8, <2>1 DEF UndoDispatch, MarkDispatchFailed
  <2>2. CASE Abandon(d)
    BY <1>8, <2>2 DEF UndoDispatch, Abandon
  <2>. QED BY <1>8, <2>1, <2>2 DEF UndoDispatch
<1>9. CASE TryMarkFailed(d)
  <2>1. status'[d] \in {"failed", status[d]} /\ up'[d].pc = "remove" /\ up[d].pc = "mark_failed"
    BY <1>9, Saved DEF TryMarkFailed
  <2>. QED BY <1>9, <2>1 DEF TryMarkFailed, analyses
<1>10. CASE UploadFails(d)
  BY <1>10 DEF UploadFails, ErrorPc, row, analyses
<1>11. CASE UploadLost(d)
  BY <1>11 DEF UploadLost, Abandon, row, analyses
<1>12. CASE CancelLost(d) \/ CancelRead(d) \/ CancelUnlink(d)
  BY <1>12 DEF CancelLost, CancelRead, CancelUnlink, row, analyses
<1>13. CASE CancelWrite(d)
  <2>1. status'[d] \in {"cancelled", status[d]} /\ up' = up /\ Started(d)
    BY <1>13, Saved DEF CancelWrite
  <2>. QED BY <1>13, <2>1 DEF CancelWrite, analyses
<1>. QED BY <1>1, <1>2, <1>3, <1>4, <1>5, <1>6, <1>7, <1>8, <1>9, <1>10, <1>11, <1>12, <1>13
     DEF UploadStep, RequestFault, CancelStep

LEMMA RequestKeepsDispatched ==
  ASSUME NEW d \in Docs, OthersStay(d), UNCHANGED run, RequestDispatchesOn(d), Fresh(d)',
         \A e \in Docs \ {d} : up'[e] = up[e] /\ cancel'[e] = cancel[e],
         DispatchedInv, FreshInv, \A e \in Docs \ {d} : Spared(e)' => Spared(e)
  PROVE  DispatchedInv' /\ FreshInv'
<1>1. ASSUME NEW e \in Docs PROVE Dispatched(e)'
  <2>. SUFFICES ASSUME e \notin abandoned', Orphan(e)'
                PROVE  \/ RequestDispatches(e)'
                       \/ \E m \in Messages : MessageDispatches(m, e)'
                       \/ \E v \in Workers : RunDispatches(run[v], e)'
    BY DEF Dispatched
  <2>1. CASE Orphan(e) /\ (RequestDispatches(e) => RequestDispatches(e)')
    <3>1. \/ RequestDispatches(e)
          \/ \E m \in Messages : MessageDispatches(m, e)
          \/ \E v \in Workers : RunDispatches(run[v], e)
      BY <2>1 DEF DispatchedInv, Dispatched, OthersStay
    <3>. QED BY <2>1, <3>1 DEF OthersStay, MessageDispatches, RunDispatches
  <2>2. CASE e # d
    <3>1. Orphan(e) /\ up'[e] = up[e]
      BY <2>2 DEF OthersStay, Orphan
    <3>. QED BY <3>1, <2>1 DEF RequestDispatches
  <2>. QED BY <2>1, <2>2 DEF RequestDispatchesOn
<1>2. ASSUME NEW e \in Docs PROVE Fresh(e)'
  <2>1. CASE e # d
    BY <2>1 DEF FreshInv, Fresh, Started, OthersStay
  <2>. QED BY <2>1
<1>. QED BY <1>1, <1>2 DEF DispatchedInv, FreshInv

LEMMA WorkerKeepsFresh ==
  ASSUME NEW d \in Docs, Started(d), OthersStay(d), UNCHANGED <<up, cancel>>, FreshInv
  PROVE  FreshInv'
<1>. SUFFICES ASSUME NEW e \in Docs PROVE Fresh(e)'
  BY DEF FreshInv
<1>. QED BY DEF FreshInv, Fresh, Started, OthersStay

-----------------------------------------------------------------------------
(* NoDanglingName: the name goes with the status, since every end is        *)
(* written with it and an instance that shows no name cannot be outdated.   *)

Unnamed(seen, d) == ~ seen.named => ~ named[d]

RowNamed(d) ==
  ~ Degraded(d) => /\ status[d] \in Terminal \cup {"none"} => ~ named[d]
                   /\ cancel[d].pc = "write" => Unnamed(cancel[d].seen, d)

RunNamed(r) == r.pc # "idle" /\ ~ Degraded(r.doc) => Unnamed(r.seen, r.doc)

NamedInv == (\A d \in Docs : RowNamed(d)) /\ (\A w \in Workers : RunNamed(run[w]))

LEMMA TakeNames ==
  ASSUME Typed, NEW w \in Workers, NEW m \in Messages, Take(w, m), NamedInv
  PROVE  NamedInv'
<1>. /\ run \in [Workers -> Runs]
     /\ run' = [run EXCEPT ![w] = [pc |-> FirstPc(m.task), doc |-> m.doc, task |-> m.task,
                                   retries |-> m.retries, seen |-> NoInstance, text |-> None]]
     /\ UNCHANGED <<status, named, up, cancel>>
  BY RunTypes DEF Take, row, requests
<1>1. RunNamed(run[w])'
  BY DEF RunNamed, Unnamed, NoInstance
<1>2. \A v \in Workers \ {w} : run'[v] = run[v]
  OBVIOUS
<1>3. \A v \in Workers \ {w} : RunNamed(run[v])'
  BY <1>2 DEF NamedInv, RunNamed, Unnamed, Degraded
<1>. QED BY <1>1, <1>3 DEF NamedInv, RowNamed, Unnamed, Degraded

\* What a worker does to the name of its document.
WorkerLeavesName(w, d) ==
  /\ run'[w].pc # "idle" => run'[w].doc = d
  /\ Unnamed(run[w].seen, d) =>
       /\ named'[d] => named[d]
       /\ status'[d] \in Terminal \cup {"none"} => status'[d] = status[d] \/ ~ named'[d]
       /\ run'[w].pc # "idle" /\ ~ run'[w].seen.named => ~ named'[d]

LEMMA WorkerNames ==
  ASSUME Typed, NEW w \in Workers, NEW d \in Docs, d = Doc(w), RunStep(w) \/ RunFault(w)
  PROVE  WorkerLeavesName(w, d)
<1>. /\ run \in [Workers -> Runs] /\ run[w] \in Runs /\ run[w].doc = d /\ run[w].seen \in Instances
     /\ status \in [Docs -> Statuses] /\ named \in [Docs -> BOOLEAN]
     /\ NoInstance.named = TRUE /\ NoInstance.status = "none" /\ run[w].seen.named \in BOOLEAN
  BY RunTypes DEF Doc, NoInstance
<1>. USE DEF At, WorkerLeavesName, Unnamed, Terminal
<1>0. ASSUME End(w) PROVE run'[w].pc = "idle"
  BY <1>0 DEF End, Idle
<1>1. CASE Raise(w)
  <2>1. run'[w].pc # "idle" => run'[w].doc = d /\ run'[w].seen = run[w].seen
    BY <1>0, <1>1 DEF Raise, Goto, Runs
  <2>. QED BY <1>1, <2>1 DEF Raise, row
<1>2. CASE Cleanup(w) \/ RunLost(w)
  BY <1>0, <1>2 DEF Cleanup, RunLost, row
<1>3. CASE CheckCancelled(w) \/ CheckPath(w) \/ CheckLocal(w) \/ UnlinkLocal(w) \/ OnFailure(w)
  BY <1>3 DEF CheckCancelled, CheckPath, CheckLocal, UnlinkLocal, OnFailure, Goto, row, Runs
<1>4. CASE WriteMissing(w) \/ WriteInfected(w)
  <2>1. ClearName(d, NoInstance)
    BY <1>4 DEF WriteMissing, WriteInfected
  <2>2. ~ named'[d]
    BY <2>1, Cleared
  <2>3. run'[w].pc # "idle" => run'[w].doc = d
    BY <1>0, <1>4 DEF WriteMissing, WriteInfected, Acknowledged, Escapes, Goto, Runs
  <2>. QED BY <2>2, <2>3
<1>5. CASE MarkScanning(w) \/ MarkUploading(w) \/ WriteUploaded(w)
  <2>1. \E st \in {"scanning", "uploading", "uploaded"} : SaveStatus(d, NoInstance, st)
    BY <1>5 DEF MarkScanning, MarkUploading, WriteUploaded
  <2>2. status'[d] \in {"scanning", "uploading", "uploaded"}
    BY <2>1, Saved
  <2>3. run'[w].doc = d /\ run'[w].seen = run[w].seen /\ UNCHANGED named
    BY <1>5 DEF MarkScanning, MarkUploading, WriteUploaded, Goto, Runs
  <2>. QED BY <2>2, <2>3
<1>6. CASE Scan(w)
  BY <1>6 DEF Scan, Verdict, Unavailable, Goto, row, Runs
<1>7. CASE PublishUpload(w) \/ PublishExtract(w)
  <2>1. run'[w].pc # "idle" => run'[w].doc = d /\ run'[w].seen = run[w].seen
    BY <1>0, <1>7 DEF PublishUpload, PublishExtract, Publish, Goto, Runs
  <2>. QED BY <1>7, <2>1 DEF PublishUpload, PublishExtract, Publish, row
<1>8. CASE CheckObject(w)
  BY <1>8 DEF CheckObject, Goto, row, Runs
<1>9. CASE PutObject(w)
  BY <1>9 DEF PutObject, RaiseFinally, Goto, row, Runs
<1>10. CASE WriteFailed(w) \/ WriteExtracted(w) \/ WriteFailure(w)
  <2>1. ClearName(d, run[w].seen)
    BY <1>10 DEF WriteFailed, WriteExtracted, WriteFailure
  <2>2. Unnamed(run[w].seen, d) => ~ named'[d]
    BY <2>1, Cleared
  <2>3. run'[w].doc = d
    BY <1>10 DEF WriteFailed, WriteExtracted, Acknowledged, Escapes, WriteFailure, Goto, Runs
  <2>. QED BY <2>2, <2>3
<1>11. CASE LoadDocument(w)
  <2>1. run'[w].pc # "idle" => /\ run'[w].doc = d
                               /\ run'[w].seen \in {run[w].seen, Instance(d)}
    BY <1>0, <1>11 DEF LoadDocument, Goto, Runs
  <2>. QED BY <1>11, <2>1 DEF LoadDocument, Instance, row
<1>12. CASE RestoreMissing(w) \/ RestoreAgain(w)
  BY <1>12 DEF RestoreMissing, RestoreAgain, Restore, RaiseFinally, Goto, row, Runs
<1>13. CASE MarkExtracting(w)
  <2>1. run'[w].doc = d /\ run'[w].seen = Refreshed(run[w].seen, d)
    BY <1>13 DEF MarkExtracting, GotoRefreshed, Runs
  <2>2. Refreshed(run[w].seen, d).named \in {TRUE, named'[d]}
    BY DEF Refreshed
  <2>3. status'[d] \in {"extracting", status[d]} /\ UNCHANGED named
    BY <1>13, Saved DEF MarkExtracting
  <2>. QED BY <2>1, <2>2, <2>3
<1>14. CASE Extract(w)
  BY <1>14 DEF Extract, Extracted, Goto, row, Runs
<1>15. CASE ExtractAgain(w) \/ StoreText(w)
  BY <1>15 DEF ExtractAgain, Extracted, StoreText, RaiseFinally, row, Runs
<1>16. CASE CreateAnalysis(w) \/ MarkAnalysisFailed(w)
  BY <1>16 DEF CreateAnalysis, MarkAnalysisFailed, Goto, row, Runs
<1>17. CASE PublishEvent(w)
  <2>1. run'[w].pc # "idle" => run'[w].doc = d /\ run'[w].seen = run[w].seen
    BY <1>0, <1>17 DEF PublishEvent, Goto, Runs
  <2>. QED BY <1>17, <2>1 DEF PublishEvent, row
<1>18. CASE Recheck(w)
  <2>1. run'[w].doc = d /\ run'[w].seen \in {run[w].seen, Instance(d)}
    BY <1>18 DEF Recheck, Goto, Runs
  <2>. QED BY <1>18, <2>1 DEF Recheck, Instance, row
<1>19. CASE AccessFails(w) \/ HandlerFails(w)
  BY <1>19 DEF AccessFails, Escapes, HandlerFails, row, Runs
<1>. QED BY <1>1, <1>2, <1>3, <1>4, <1>5, <1>6, <1>7, <1>8, <1>9, <1>10, <1>11, <1>12, <1>13,
            <1>14, <1>15, <1>16, <1>17, <1>18, <1>19
     DEF RunStep, RunFault

LEMMA WorkerKeepsNamed ==
  ASSUME Typed, NEW w \in Workers, NEW d \in Docs, d = Doc(w), run[w].pc # "idle", OthersWait(w),
         OthersStay(d), UNCHANGED cancel, WorkerLeavesName(w, d), NamedInv
  PROVE  NamedInv'
<1>. up' = up /\ \A e \in Docs : Degraded(e)' <=> Degraded(e)
  BY DEF OthersWait, Degraded
<1>0. named \in [Docs -> BOOLEAN] /\ \A v \in Workers : run[v].pc # "idle" => run[v].doc \in Docs
  BY DEF Typed, TypeOK, RunsHaveDocuments
<1>1. ~ Degraded(d) => Unnamed(run[w].seen, d)
  BY DEF NamedInv, RunNamed, Doc
<1>2. ~ Degraded(d) => (named'[d] => named[d])
  BY <1>1 DEF WorkerLeavesName
<1>3. ASSUME NEW e \in Docs PROVE RowNamed(e)'
  <2>1. CASE e = d
    BY <1>1, <2>1 DEF WorkerLeavesName, NamedInv, RowNamed, Unnamed
  <2>2. CASE e # d
    BY <2>2 DEF OthersStay, NamedInv, RowNamed, Unnamed
  <2>. QED BY <2>1, <2>2
<1>4. ASSUME NEW v \in Workers PROVE RunNamed(run[v])'
  <2>1. CASE v = w
    BY <1>1, <2>1 DEF WorkerLeavesName, RunNamed, Unnamed
  <2>2. CASE v # w
    <3>1. run'[v] = run[v] /\ RunNamed(run[v])
      BY <2>2 DEF OthersWait, NamedInv
    <3>2. run[v].pc # "idle" /\ ~ Degraded(run[v].doc) => (named'[run[v].doc] => named[run[v].doc])
      BY <1>0, <1>2 DEF OthersStay
    <3>. QED BY <1>0, <3>1, <3>2 DEF RunNamed, Unnamed
  <2>. QED BY <2>1, <2>2
<1>. QED BY <1>3, <1>4 DEF NamedInv

LEMMA RequestNames ==
  ASSUME Typed, DataInv, TextInv, FreshInv, NEW d \in Docs, RowNamed(d),
         UploadStep(d) \/ RequestFault(d) \/ CancelRead(d) \/ CancelStep(d)
  PROVE  /\ RowNamed(d)'
         /\ Started(d) /\ ~ Degraded(d)' => ~ Degraded(d) /\ (named'[d] => named[d])
<1>. /\ up \in [Docs -> Uploads] /\ up[d] \in Uploads /\ status \in [Docs -> Statuses]
     /\ named \in [Docs -> BOOLEAN] /\ cancel \in [Docs -> Cancels] /\ cancel[d].seen.named \in BOOLEAN
     /\ NoInstance.status = "none" /\ NoInstance.named = TRUE
     /\ Fresh(d) /\ RequestTexts(d) /\ RequestFacts(d)
  BY DEF Typed, TypeOK, NoInstance, Cancels, Instances, TextInv, FreshInv, DataInv, RequestsFacts
<1>. USE DEF UpAt, UpGoto, RowNamed, Unnamed, Fresh, Started, Degraded, Terminal
<1>0. ASSUME UNCHANGED <<status, named, cancel>>, NEW pc, up' = [up EXCEPT ![d].pc = pc]
      PROVE  /\ RowNamed(d)'
             /\ Started(d) /\ ~ Degraded(d)' => ~ Degraded(d) /\ (named'[d] => named[d])
  <2>1. up'[d].path = up[d].path /\ up'[d].raw = up[d].raw
    BY <1>0
  <2>. QED BY <1>0, <2>1
<1>1. CASE LookUpDuplicates(d) \/ LookUpTexts(d)
  <2>1. ~ Started(d) /\ UNCHANGED <<status, named, cancel>>
    BY <1>1 DEF LookUpDuplicates, LookUpTexts, row
  <2>. QED BY <2>1
<1>2. CASE CreateDocument(d) \/ CreateOrphan(d)
  <2>1. CreateRow(d) /\ UNCHANGED cancel /\ ~ Started(d)
    BY <1>2 DEF CreateDocument, CreateOrphan
  <2>5. status' = [status EXCEPT ![d] = InitialStatus[up[d].path]]
    BY <2>1, Zenon DEF CreateRow
  <2>6. up[d].path \in Paths
    BY Zenon DEF Typed, TypeOK, Uploads
  <2>2. status'[d] = InitialStatus[up[d].path]
    BY <2>5
  <2>4. up[d].path = "analysis_only" => ~ named'[d]
    BY <2>1, Zenon DEF CreateRow
  <2>3. status'[d] \in Terminal \cup {"none"} => up[d].path = "analysis_only"
    BY <2>2, <2>6 DEF InitialStatus, Paths
  <2>. QED BY <2>1, <2>2, <2>3, <2>4
<1>3. CASE SendToQueue(d) \/ SendEvent(d)
  BY <1>0, <1>3 DEF SendToQueue, SendEvent, row
<1>10. CASE CopyText(d) \/ StartAnalysis(d) \/ UndoDispatch(d)
  BY <1>0, <1>10 DEF CopyText, StartAnalysis, UndoDispatch, row
<1>4. CASE Degrade(d)
  <2>1. up'[d].path = "extraction_only" /\ up'[d].raw # None
    BY <1>4 DEF Degrade, RequestTexts, RequestFacts
  <2>. QED BY <2>1
<1>5. CASE RemoveAfterCopy(d) \/ RemoveFromTemp(d)
  BY <1>0, <1>5 DEF RemoveAfterCopy, RemoveFromTemp, row
<1>6. CASE TryMarkFailed(d)
  <2>1. /\ UNCHANGED cancel /\ up'[d].path = up[d].path /\ up'[d].raw = up[d].raw
        /\ \/ ClearName(d, NoInstance)
           \/ UNCHANGED <<status, named>>
    BY <1>6 DEF TryMarkFailed
  <2>2. ~ named'[d] \/ UNCHANGED <<status, named>>
    BY <2>1, Cleared
  <2>. QED BY <2>1, <2>2
<1>7. CASE UploadFails(d) \/ UploadLost(d)
  BY <1>0, <1>7 DEF UploadFails, UploadLost, row
<1>8. CASE CancelLost(d) \/ CancelRead(d) \/ CancelUnlink(d)
  BY <1>8 DEF CancelLost, CancelRead, CancelUnlink, Instance, NoCancel, row
<1>9. CASE CancelWrite(d)
  <2>1. ClearName(d, cancel[d].seen) /\ cancel[d].pc = "write" /\ up' = up
    BY <1>9 DEF CancelWrite
  <2>2. ~ Degraded(d) => ~ named'[d]
    BY <2>1, Cleared
  <2>. QED BY <2>1, <2>2
<1>. QED BY <1>1, <1>2, <1>3, <1>4, <1>5, <1>6, <1>7, <1>8, <1>9, <1>10
     DEF UploadStep, RequestFault, CancelStep

LEMMA RequestKeepsNamed ==
  ASSUME Typed, DataInv, NEW d \in Docs, OthersStay(d), UNCHANGED run, RowNamed(d)',
         Started(d) /\ ~ Degraded(d)' => ~ Degraded(d) /\ (named'[d] => named[d]),
         \A e \in Docs \ {d} : up'[e] = up[e] /\ cancel'[e] = cancel[e], NamedInv
  PROVE  NamedInv'
<1>1. ASSUME NEW e \in Docs \ {d} PROVE RowNamed(e)' /\ (Degraded(e)' <=> Degraded(e))
  BY <1>1 DEF OthersStay, NamedInv, RowNamed, Unnamed, Degraded
<1>2. ASSUME NEW v \in Workers PROVE RunNamed(run[v])'
  <2>. SUFFICES ASSUME run[v].pc # "idle" PROVE RunNamed(run[v])'
    BY DEF RunNamed
  <2>. PICK e \in Docs : e = run[v].doc /\ Started(e) /\ run'[v] = run[v]
    BY DEF Typed, RunsHaveDocuments, DataInv, RunsFacts, RunFacts, TaskFacts
  <2>1. ~ Degraded(e) => Unnamed(run[v].seen, e)
    BY DEF NamedInv, RunNamed
  <2>2. CASE e = d
    <3>1. ~ Degraded(d)' => ~ Degraded(d) /\ (named'[d] => named[d])
      BY <2>2
    <3>2. ~ Degraded(d)' /\ ~ run[v].seen.named => ~ named'[d]
      BY <2>1, <2>2, <3>1 DEF Unnamed
    <3>3. run'[v].doc = d
      BY <2>2
    <3>. QED BY <3>2, <3>3 DEF RunNamed, Unnamed, Degraded
  <2>3. CASE e # d
    <3>1. named'[e] = named[e] /\ up'[e] = up[e]
      BY <2>3 DEF OthersStay
    <3>. QED BY <2>1, <3>1 DEF RunNamed, Unnamed, Degraded
  <2>. QED BY <2>2, <2>3
<1>. QED BY <1>1, <1>2 DEF NamedInv

-----------------------------------------------------------------------------
(* NoLeakedTempFile: whoever ends the work on a document removes its file.  *)
(* The one run that ends without a look at the file is an extraction that   *)
(* finds an early status, which needs a message delivered twice.            *)

RunCleans(r, d) ==
  r.doc = d /\ r.pc \notin {"idle", "write_missing", "create_analysis", "publish_event"}
MessageCleans(m, d) == queue[m] > 0 /\ m.doc = d
RequestCleans(d) == up[d].pc \notin {"absent", "create_analysis", "publish_event", "done"}

Litter(d) == temp[d] # None /\ d \notin abandoned /\ d \notin littered

Cleaned(d) ==
  Litter(d) => \/ RequestCleans(d)
               \/ \E m \in Messages : MessageCleans(m, d)
               \/ \E w \in Workers : RunCleans(run[w], d)

CleanedInv == \A d \in Docs : Cleaned(d)

\* With one holder, an extraction that starts finds the document stored or ended.
LEMMA NoEarlyLoad ==
  ASSUME Typed, HolderInv, TendedInv, NEW w \in Workers, NEW d \in Docs, d = Doc(w), At(w, "load"),
         status[d] \in Early
  PROVE  d \in abandoned
<1>. SUFFICES ASSUME d \notin abandoned PROVE FALSE
  OBVIOUS
<1>1. run[w].pc = "load" /\ run[w].doc = d
  BY DEF At, Doc
<1>2. \/ RequestTends(d)
      \/ \E m \in Messages : MessageTends(m, d)
      \/ \E v \in Workers : RunTends(run[v], d)
  BY DEF TendedInv, Tended, Early, Working
<1>3. ~ RequestTends(d)
  BY <1>1 DEF HolderInv, OneHolder, Published, RequestTends
<1>4. ~ \E m \in Messages : MessageTends(m, d)
  BY <1>1 DEF HolderInv, OneHolder, OneRun, MessageTends
<1>5. ASSUME NEW v \in Workers, RunTends(run[v], d) PROVE FALSE
  <2>1. run[v].pc # "idle" /\ run[v].doc = d
    BY <1>5 DEF RunTends, EarlyPcs, LatePcs, LoadedPcs, ScanPcs, UploadPcs
  <2>2. v = w
    BY <1>1, <2>1 DEF HolderInv, OneHolder, OneRun
  <2>. QED BY <1>1, <1>5, <2>2 DEF RunTends, EarlyPcs, ScanPcs, UploadPcs, Early, Late
<1>. QED BY <1>2, <1>3, <1>4, <1>5

LEMMA TakeCleans ==
  ASSUME Typed, NEW w \in Workers, NEW m \in Messages, Take(w, m), CleanedInv
  PROVE  CleanedInv'
<1>. /\ run \in [Workers -> Runs] /\ queue \in [Messages -> Nat]
     /\ run' = [run EXCEPT ![w] = [pc |-> FirstPc(m.task), doc |-> m.doc, task |-> m.task,
                                   retries |-> m.retries, seen |-> NoInstance, text |-> None]]
     /\ UNCHANGED <<temp, up, abandoned, littered>>
  BY RunTypes DEF Take, stores, requests, env
<1>1. run'[w] = [pc |-> FirstPc(m.task), doc |-> m.doc, task |-> m.task,
                 retries |-> m.retries, seen |-> NoInstance, text |-> None]
  OBVIOUS
<1>2. \A x \in Messages \ {m} : queue'[x] = queue[x]
  BY DEF Take
<1>3. ASSUME NEW d \in Docs, MessageCleans(m, d) PROVE RunCleans(run[w], d)'
  BY <1>1, <1>3 DEF MessageCleans, RunCleans, FirstPc
<1>4. ASSUME NEW d \in Docs, Litter(d)
      PROVE  \/ RequestCleans(d)'
             \/ \E x \in Messages : MessageCleans(x, d)'
             \/ \E v \in Workers : RunCleans(run[v], d)'
  <2>1. CASE RequestCleans(d)
    BY <2>1 DEF RequestCleans
  <2>2. CASE \E x \in Messages : MessageCleans(x, d)
    <3>1. PICK x \in Messages : MessageCleans(x, d)
      BY <2>2
    <3>2. CASE x = m
      BY <3>1, <3>2, <1>3 DEF RunCleans
    <3>3. CASE x # m
      BY <3>1, <3>3, <1>2 DEF MessageCleans
    <3>. QED BY <3>2, <3>3
  <2>3. CASE \E v \in Workers : RunCleans(run[v], d)
    <3>1. PICK v \in Workers : RunCleans(run[v], d)
      BY <2>3
    <3>2. v # w
      BY <3>1 DEF RunCleans, Take, At
    <3>3. run'[v] = run[v]
      BY <3>2
    <3>. QED BY <3>1, <3>3 DEF RunCleans
  <2>. QED BY <1>4, <2>1, <2>2, <2>3 DEF CleanedInv, Cleaned
<1>. QED BY <1>4 DEF CleanedInv, Cleaned, Litter

\* What worker w does about the file of the document it works on.
WorkerCleans(w, d) ==
  Litter(d)' => \/ RunCleans(run[w], d)'
                \/ \E m \in Messages : MessageCleans(m, d)'
                \/ Litter(d) /\ ~ RunCleans(run[w], d)

\* A publication leaves a message, or the run to raise.
LEMMA SentCleans ==
  ASSUME Typed, NEW w \in Workers, NEW d \in Docs, d = Doc(w), NEW task \in Tasks, Publish(w, task),
         run[w].pc # "idle"
  PROVE  RunCleans(run[w], d)' \/ \E m \in Messages : MessageCleans(m, d)'
<1>1. PICK o \in Outcomes :
        /\ Enqueue(FirstAttempt(task, d), Copies(o))
        /\ IF Raises(o) THEN Goto(w, "raise") ELSE End(w)
  BY DEF Publish
<1>2. CASE Raises(o)
  BY <1>1, <1>2, RunTypes DEF Goto, RunCleans, Runs, Doc
<1>3. CASE ~ Raises(o)
  <2>1. FirstAttempt(task, d) \in Messages /\ queue'[FirstAttempt(task, d)] > 0
    BY <1>1, <1>3, SentOrRaised, FirstSent
  <2>2. FirstAttempt(task, d).doc = d
    BY DEF FirstAttempt
  <2>. QED BY <2>1, <2>2 DEF MessageCleans
<1>. QED BY <1>2, <1>3

LEMMA WorkerCleansUp ==
  ASSUME Typed, NEW w \in Workers, NEW d \in Docs, d = Doc(w), RunStep(w) \/ RunFault(w),
         At(w, "load") /\ status[d] \in Early => d \in abandoned
  PROVE  WorkerCleans(w, d)
<1>. /\ run \in [Workers -> Runs] /\ run[w] \in Runs /\ run[w].doc = d /\ run[w].task \in Tasks
     /\ temp \in [Docs -> Contents \cup {None}] /\ queue \in [Messages -> Nat]
     /\ abandoned \subseteq abandoned'
  BY RunTypes, WorkerStays DEF Doc, OthersStay, Typed, TypeOK
<1>. USE DEF At, WorkerCleans, RunCleans, Litter
<1>1. CASE Raise(w)
  <2>1. CASE run[w].retries < MaxRetries
    <3>. DEFINE m == [task |-> run[w].task, doc |-> d, retries |-> run[w].retries + 1]
    <3>1. m \in Messages /\ queue'[m] > 0
      BY <1>1, <2>1, Retried, Queued DEF Raise
    <3>2. m.doc = d
      OBVIOUS
    <3>. HIDE DEF m
    <3>. QED BY <3>1, <3>2 DEF MessageCleans
  <2>2. CASE ~ (run[w].retries < MaxRetries)
    BY <1>1, <2>2 DEF Raise, Goto, FailurePc, Runs
  <2>. QED BY <2>1, <2>2
<1>2. CASE Cleanup(w)
  BY <1>2, Removed DEF Cleanup
<1>3. CASE CheckCancelled(w)
  BY <1>3 DEF CheckCancelled, Goto, Runs
<1>4. CASE CheckPath(w)
  BY <1>4 DEF CheckPath, AfterPathCheck, Goto, stores, Runs
<1>5. CASE WriteMissing(w)
  BY <1>5 DEF WriteMissing, Acknowledged, Escapes, stores, Runs
<1>6. CASE MarkScanning(w) \/ MarkUploading(w) \/ WriteInfected(w) \/ WriteUploaded(w) \/ WriteFailed(w)
  BY <1>6 DEF MarkScanning, MarkUploading, WriteInfected, WriteUploaded, WriteFailed, Acknowledged,
     Escapes, Goto, Runs
<1>7. CASE Scan(w)
  BY <1>7 DEF Scan, Verdict, Unavailable, WithoutScan, Goto, Runs
<1>8. CASE PublishUpload(w) \/ PublishExtract(w)
  <2>1. run[w].pc # "idle" /\ \E task \in Tasks : Publish(w, task)
    BY <1>8, TaskNames DEF PublishUpload, PublishExtract
  <2>2. RunCleans(run[w], d)' \/ \E m \in Messages : MessageCleans(m, d)'
    BY <2>1, SentCleans
  <2>. QED BY <2>2
<1>9. CASE CheckObject(w)
  BY <1>9 DEF CheckObject, AfterHead, Goto, Runs
<1>10. CASE PutObject(w)
  BY <1>10 DEF PutObject, RaiseFinally, FailurePc, Goto, Runs
<1>11. CASE LoadDocument(w)
  <2>1. CASE status[d] \in Early
    BY <1>11, <2>1 DEF LoadDocument
  <2>2. CASE status[d] \notin Early
    BY <1>11, <2>2 DEF LoadDocument, Goto, Runs, Early
  <2>. QED BY <2>1, <2>2
<1>12. CASE CheckLocal(w)
  BY <1>12 DEF CheckLocal, Goto, Runs
<1>13. CASE RestoreMissing(w)
  BY <1>13 DEF RestoreMissing, Restore, RaiseFinally, FailurePc, Goto, Runs
<1>14. CASE RestoreAgain(w)
  BY <1>14 DEF RestoreAgain, Restore, RaiseFinally, FailurePc, Goto, Runs
<1>15. CASE MarkExtracting(w)
  BY <1>15 DEF MarkExtracting, GotoRefreshed, Runs
<1>16. CASE Extract(w)
  BY <1>16 DEF Extract, Extracted, Goto, Runs
<1>17. CASE ExtractAgain(w)
  BY <1>17 DEF ExtractAgain, Extracted, RaiseFinally, FailurePc, Runs
<1>18. CASE StoreText(w) \/ WriteExtracted(w) \/ WriteFailure(w)
  BY <1>18 DEF StoreText, WriteExtracted, Acknowledged, Escapes, WriteFailure, Runs
<1>19. CASE UnlinkLocal(w)
  BY <1>19, Removed DEF UnlinkLocal
<1>20. CASE CreateAnalysis(w) \/ PublishEvent(w)
  BY <1>20 DEF CreateAnalysis, PublishEvent, stores, env
<1>21. CASE OnFailure(w) \/ MarkAnalysisFailed(w)
  BY <1>21 DEF OnFailure, MarkAnalysisFailed, Goto, Runs
<1>22. CASE Recheck(w)
  BY <1>22 DEF Recheck, Goto, Runs
<1>23. CASE AccessFails(w)
  BY <1>23 DEF AccessFails, Escapes, Runs
<1>24. CASE HandlerFails(w) \/ RunLost(w)
  BY <1>24 DEF HandlerFails, RunLost, Abandon, Doc
<1>. QED BY <1>1, <1>2, <1>3, <1>4, <1>5, <1>6, <1>7, <1>8, <1>9, <1>10, <1>11, <1>12, <1>13,
            <1>14, <1>15, <1>16, <1>17, <1>18, <1>19, <1>20, <1>21, <1>22, <1>23, <1>24
     DEF RunStep, RunFault

LEMMA WorkerKeepsCleaned ==
  ASSUME NEW w \in Workers, NEW e \in Docs, e = Doc(w), OthersWait(w), OthersStay(e),
         WorkerCleans(w, e), CleanedInv
  PROVE  CleanedInv'
<1>. /\ up' = up
     /\ \A m \in Messages : queue[m] > 0 => queue'[m] > 0
     /\ \A v \in Workers \ {w} : run'[v] = run[v]
  BY DEF OthersWait, OthersStay
<1>. SUFFICES ASSUME NEW d \in Docs, Litter(d)'
              PROVE  \/ RequestCleans(d)'
                     \/ \E m \in Messages : MessageCleans(m, d)'
                     \/ \E v \in Workers : RunCleans(run[v], d)'
  BY DEF CleanedInv, Cleaned
<1>1. CASE Litter(d) /\ ~ RunCleans(run[w], d)
  <2>1. \/ RequestCleans(d)
        \/ \E m \in Messages : MessageCleans(m, d)
        \/ \E v \in Workers : RunCleans(run[v], d)
    BY <1>1 DEF CleanedInv, Cleaned
  <2>2. CASE RequestCleans(d)
    BY <2>2 DEF RequestCleans
  <2>3. CASE \E m \in Messages : MessageCleans(m, d)
    BY <2>3 DEF MessageCleans
  <2>4. CASE \E v \in Workers : RunCleans(run[v], d)
    <3>1. PICK v \in Workers : RunCleans(run[v], d) /\ v # w
      BY <1>1, <2>4
    <3>2. run'[v] = run[v]
      BY <3>1
    <3>. QED BY <3>1, <3>2 DEF RunCleans
  <2>. QED BY <2>1, <2>2, <2>3, <2>4
<1>2. CASE d # e
  <2>1. Litter(d) /\ ~ RunCleans(run[w], d)
    BY <1>2 DEF OthersStay, Litter, RunCleans, Doc
  <2>. QED BY <2>1, <1>1
<1>. QED BY <1>1, <1>2 DEF WorkerCleans

\* What a request does about the file of its document.
RequestCleansUp(d) ==
  Litter(d)' => \/ RequestCleans(d)'
                \/ \E m \in Messages : MessageCleans(m, d)'
                \/ Litter(d) /\ ~ RequestCleans(d)

LEMMA RequestsClean ==
  ASSUME Typed, NEW d \in Docs, UploadStep(d) \/ RequestFault(d) \/ CancelRead(d) \/ CancelStep(d)
  PROVE  RequestCleansUp(d)
<1>. /\ up \in [Docs -> Uploads] /\ up[d] \in Uploads /\ queue \in [Messages -> Nat]
     /\ temp \in [Docs -> Contents \cup {None}]
     /\ abandoned \subseteq abandoned' /\ littered \subseteq littered'
  BY RequestStays DEF OthersStay, Typed, TypeOK
<1>. USE DEF UpAt, UpGoto, RequestCleansUp, RequestCleans, Litter, Uploads
<1>1. CASE LookUpDuplicates(d)
  BY <1>1 DEF LookUpDuplicates
<1>12. CASE LookUpTexts(d)
  <2>1. PICK e, path, raw : ChoosePath(d, path, e, raw)
    BY <1>12, Zenon DEF LookUpTexts
  <2>2. up'[d].pc = "create"
    BY <2>1 DEF ChoosePath
  <2>. QED BY <2>2
<1>2. CASE CreateDocument(d) \/ CreateOrphan(d)
  <2>1. up'[d].pc \in {"upsert", "send", "remove"}
    BY <1>2 DEF CreateDocument, CreateOrphan
  <2>. QED BY <2>1
<1>3. CASE SendToQueue(d)
  <2>1. PICK o \in Outcomes :
          /\ Enqueue(FirstAttempt(FirstTask(up[d].path), d), Copies(o))
          /\ up' = [up EXCEPT ![d].pc = IF Raises(o) THEN "mark_failed" ELSE "done"]
    BY <1>3 DEF SendToQueue
  <2>2. CASE Raises(o)
    BY <2>1, <2>2
  <2>3. CASE ~ Raises(o)
    <3>. DEFINE m == FirstAttempt(FirstTask(up[d].path), d)
    <3>1. FirstTask(up[d].path) \in Tasks
      BY DEF FirstTask, Tasks
    <3>2. m \in Messages /\ m.doc = d /\ queue'[m] > 0
      BY <2>1, <2>3, <3>1, FirstSent, SentOrRaised DEF FirstAttempt
    <3>. HIDE DEF m
    <3>. QED BY <3>2 DEF MessageCleans
  <2>. QED BY <2>2, <2>3
<1>4. CASE CopyText(d) \/ Degrade(d)
  BY <1>4 DEF CopyText, Degrade
<1>5. CASE RemoveAfterCopy(d) \/ RemoveFromTemp(d)
  BY <1>5, Removed DEF RemoveAfterCopy, RemoveFromTemp
<1>6. CASE StartAnalysis(d) \/ SendEvent(d)
  BY <1>6 DEF StartAnalysis, SendEvent, stores, env
<1>7. CASE UndoDispatch(d) \/ TryMarkFailed(d)
  BY <1>7 DEF UndoDispatch, TryMarkFailed
<1>8. CASE UploadFails(d)
  BY <1>8 DEF UploadFails, ErrorPc
<1>9. CASE UploadLost(d)
  BY <1>9 DEF UploadLost, Abandon
<1>10. CASE CancelLost(d) \/ CancelRead(d) \/ CancelWrite(d)
  BY <1>10 DEF CancelLost, CancelRead, CancelWrite, stores, env
<1>11. CASE CancelUnlink(d)
  BY <1>11, Removed DEF CancelUnlink
<1>. QED BY <1>1, <1>2, <1>3, <1>4, <1>5, <1>6, <1>7, <1>8, <1>9, <1>10, <1>11, <1>12
     DEF UploadStep, RequestFault, CancelStep

LEMMA RequestKeepsCleaned ==
  ASSUME NEW d \in Docs, OthersStay(d), UNCHANGED run, RequestCleansUp(d),
         \A e \in Docs \ {d} : up'[e] = up[e], CleanedInv
  PROVE  CleanedInv'
<1>. SUFFICES ASSUME NEW e \in Docs, Litter(e)'
              PROVE  \/ RequestCleans(e)'
                     \/ \E m \in Messages : MessageCleans(m, e)'
                     \/ \E v \in Workers : RunCleans(run[v], e)'
  BY DEF CleanedInv, Cleaned
<1>1. CASE Litter(e) /\ (RequestCleans(e) => RequestCleans(e)')
  <2>1. \/ RequestCleans(e)
        \/ \E m \in Messages : MessageCleans(m, e)
        \/ \E v \in Workers : RunCleans(run[v], e)
    BY <1>1 DEF CleanedInv, Cleaned
  <2>. QED BY <1>1, <2>1 DEF OthersStay, MessageCleans, RunCleans
<1>2. CASE e # d
  <2>1. Litter(e) /\ up'[e] = up[e]
    BY <1>2 DEF OthersStay, Litter
  <2>. QED BY <2>1, <1>1 DEF RequestCleans
<1>. QED BY <1>1, <1>2 DEF RequestCleansUp

-----------------------------------------------------------------------------
(* All of it together.                                                      *)

CareInv ==
  /\ \A w \in Workers : RunKnows(run[w])
  /\ FreshInv /\ TendedInv /\ TriesInv /\ DispatchedInv /\ NamedInv

\* What a step that receives a file, reads, or does nothing leaves as it is.
AllStay ==
  /\ UNCHANGED <<status, named, analysis, requested, queue, run, cancel, abandoned>>
  /\ faults' \in Nat /\ faults <= faults'
  /\ \A d \in Docs : \/ up'[d] = up[d]
                     \/ /\ ~ Started(d) /\ ~ Started(d)' /\ up'[d].path = up[d].path
                        /\ up'[d].raw = up[d].raw

LEMMA AllStayed ==
  ASSUME Typed, AllStay, CareInv
  PROVE  CareInv'
<1>1. ASSUME NEW d \in Docs
      PROVE  /\ RequestTends(d) => RequestTends(d)'
             /\ RequestDispatches(d) => RequestDispatches(d)'
             /\ Started(d)' <=> Started(d)
             /\ Degraded(d)' <=> Degraded(d)
             /\ Orphan(d)' => Orphan(d)
  BY BoundsAssumption DEF AllStay, RequestTends, RequestDispatches, Started, Degraded, Orphan,
     Spared, Typed, TypeOK
<1>2. TendedInv'
  BY <1>1 DEF CareInv, AllStay, TendedInv, Tended, MessageTends, RunTends, RequestTends
<1>3. DispatchedInv'
  BY <1>1 DEF CareInv, AllStay, DispatchedInv, Dispatched, MessageDispatches, RunDispatches
<1>4. FreshInv'
  BY <1>1 DEF CareInv, AllStay, FreshInv, Fresh
<1>5. \A d \in Docs : RowNamed(d)'
  BY <1>1 DEF CareInv, AllStay, NamedInv, RowNamed, Unnamed
<1>6. ASSUME NEW w \in Workers PROVE RunNamed(run[w])'
  <2>1. run[w].pc # "idle" => run[w].doc \in Docs
    BY DEF Typed, RunsHaveDocuments
  <2>2. RunNamed(run[w]) /\ run'[w] = run[w] /\ named' = named
    BY DEF CareInv, NamedInv, AllStay
  <2>. QED BY <1>1, <2>1, <2>2 DEF RunNamed, Unnamed
<1>7. TriesInv'
  <2>1. \A m \in Messages : m.retries \in Nat /\ (queue'[m] > 0 => m.retries <= faults)
    BY BoundsAssumption DEF CareInv, AllStay, TriesInv, Messages
  <2>2. \A w \in Workers : run[w].retries \in Nat /\ run'[w] = run[w] /\ RunTries(run[w])
    BY BoundsAssumption DEF CareInv, AllStay, TriesInv, Typed, TypeOK, Runs
  <2>. QED BY <2>1, <2>2 DEF TriesInv, RunTries, AllStay, Typed, TypeOK
<1>. QED BY <1>2, <1>3, <1>4, <1>5, <1>6, <1>7 DEF CareInv, AllStay, NamedInv

LEMMA NextCare ==
  ASSUME Typed, DataInv, TextInv, CareInv, [Next]_vars
  PROVE  CareInv'
<1>. faults' \in Nat
  BY NextTyped DEF Typed, TypeOK
<1>1. ASSUME NEW w \in Workers, RunStep(w) \/ RunFault(w) PROVE CareInv'
  <2>. PICK d \in Docs : d = Doc(w) /\ run[w].pc # "idle" /\ OthersStay(d) /\ UNCHANGED cancel
    BY <1>1, WorkerStays
  <2>. /\ RunKnows(run[w]) /\ FreshInv /\ TendedInv /\ DispatchedInv /\ NamedInv
       /\ TriesInv /\ RunTries(run[w])
    BY DEF CareInv, TriesInv
  <2>1. OthersWait(w)
    BY <1>1, WorkerEffect DEF RunEffect
  <2>2. RunKnows(run[w])'
    BY <1>1, WorkerKnows
  <2>3. \A v \in Workers : RunKnows(run[v])'
    BY <2>1, <2>2 DEF CareInv, OthersWait
  <2>4. TendedInv'
    BY <1>1, <2>1, WorkerGoesOn, WorkerKeepsTended
  <2>5. DispatchedInv'
    <3>1. faults <= faults' /\ up' = up
      BY <1>1, <2>1, WorkerTries DEF OthersWait
    <3>2. \A e \in Docs : Spared(e)' => Spared(e)
      BY <3>1, BoundsAssumption DEF Spared, Typed, TypeOK
    <3>3. WorkerDispatches(w, d)
      BY <1>1, <3>2, WorkerRedispatches
    <3>. QED BY <2>1, <3>2, <3>3, WorkerKeepsDispatched
  <2>6. NamedInv'
    BY <1>1, <2>1, WorkerNames, WorkerKeepsNamed
  <2>7. Started(d) /\ up' = up
    BY <2>1 DEF DataInv, RunsFacts, RunFacts, TaskFacts, Doc, OthersWait
  <2>8. FreshInv'
    BY <2>7, WorkerKeepsFresh
  <2>9. TriesInv'
    <3>1. \A v \in Workers \ {w} : run'[v] = run[v]
      BY <2>1 DEF OthersWait
    <3>2. /\ faults <= faults' /\ RunTries(run[w])'
          /\ \A m \in Messages : queue'[m] > 0 => queue[m] > 0 \/ m.retries <= faults
      BY <1>1, WorkerTries
    <3>. QED BY <3>1, <3>2, KeepsTries
  <2>. QED BY <2>3, <2>4, <2>5, <2>6, <2>8, <2>9 DEF CareInv
<1>2. ASSUME NEW w \in Workers, NEW m \in Messages, Take(w, m) PROVE CareInv'
  <2>. FreshInv /\ TendedInv /\ DispatchedInv /\ NamedInv
    BY DEF CareInv
  <2>1. TendedInv' /\ RunKnows(run[w])' /\ DispatchedInv' /\ NamedInv'
    BY <1>2, TakeTends, TakeDispatches, TakeNames
  <2>2. \A v \in Workers : v # w => run'[v] = run[v]
    BY <1>2 DEF Take, Typed, TypeOK
  <2>3. \A v \in Workers : RunKnows(run[v])'
    BY <2>1, <2>2 DEF CareInv
  <2>4. UNCHANGED <<status, named, analysis, cancel, up>>
    BY <1>2 DEF Take, row, analyses, requests
  <2>5. FreshInv'
    BY <2>4 DEF FreshInv, Fresh, Started
  <2>6. TriesInv'
    <3>1. run'[w] = [pc |-> FirstPc(m.task), doc |-> m.doc, task |-> m.task,
                     retries |-> m.retries, seen |-> NoInstance, text |-> None]
      BY <1>2 DEF Take, Typed, TypeOK
    <3>2. queue[m] > 0 /\ faults' = faults /\ \A n \in Messages : queue'[n] > 0 => queue[n] > 0
      BY <1>2 DEF Take, env, Typed, TypeOK
    <3>3. RunTries(run[w])'
      BY <3>1, <3>2 DEF CareInv, TriesInv, RunTries, FirstPc
    <3>4. TriesInv /\ faults <= faults'
      BY <3>2 DEF CareInv, Typed, TypeOK
    <3>. QED BY <2>2, <3>2, <3>3, <3>4, KeepsTries
  <2>. QED BY <2>1, <2>3, <2>5, <2>6 DEF CareInv
<1>3. ASSUME NEW d \in Docs, UploadStep(d) \/ RequestFault(d) \/ CancelRead(d) \/ CancelStep(d)
      PROVE  CareInv'
  <2>. FreshInv /\ TendedInv /\ DispatchedInv /\ NamedInv /\ Fresh(d) /\ RowNamed(d)
    BY DEF CareInv, FreshInv, NamedInv
  <2>1. /\ OthersStay(d) /\ UNCHANGED run
        /\ \A e \in Docs \ {d} : up'[e] = up[e] /\ cancel'[e] = cancel[e]
    BY <1>3, RequestStays
  <2>2. TendedInv'
    BY <1>3, <2>1, RequestsGoOn, RequestKeepsTended
  <2>3. DispatchedInv' /\ FreshInv'
    <3>1. faults <= faults'
      BY <1>3, RequestTries
    <3>2. \A e \in Docs \ {d} : Spared(e)' => Spared(e)
      BY <2>1, <3>1, BoundsAssumption DEF Spared, Typed, TypeOK
    <3>3. RequestDispatchesOn(d) /\ Fresh(d)'
      BY <1>3, RequestsDispatch
    <3>. QED BY <2>1, <3>2, <3>3, RequestKeepsDispatched
  <2>4. NamedInv'
    BY <1>3, <2>1, RequestNames, RequestKeepsNamed
  <2>5. TriesInv'
    <3>1. /\ faults <= faults'
          /\ \A m \in Messages : queue'[m] > 0 => queue[m] > 0 \/ m.retries <= faults
      BY <1>3, RequestTries
    <3>2. \A m \in Messages : m.retries \in Nat
      BY BoundsAssumption DEF Messages
    <3>3. \A w \in Workers : run[w].retries \in Nat /\ RunTries(run[w])
      BY BoundsAssumption DEF CareInv, TriesInv, Typed, TypeOK, Runs
    <3>4. \A m \in Messages : queue'[m] > 0 => m.retries <= faults'
      BY <3>1, <3>2 DEF CareInv, TriesInv, Typed, TypeOK
    <3>. QED BY <2>1, <3>1, <3>3, <3>4 DEF TriesInv, RunTries, Typed, TypeOK
  <2>. QED BY <2>1, <2>2, <2>3, <2>4, <2>5 DEF CareInv
<1>4. ASSUME NEW d \in Docs, NEW c \in Contents, ReceiveFile(d, c) PROVE CareInv'
  <2>1. up' = [up EXCEPT ![d].pc = "lookup"] /\ up[d].pc = "absent" /\ up \in [Docs -> Uploads]
    BY <1>4 DEF ReceiveFile, UpAt, UpGoto, Typed, TypeOK
  <2>2. /\ \A e \in Docs \ {d} : up'[e] = up[e]
        /\ up'[d].pc = "lookup" /\ up'[d].path = up[d].path /\ up'[d].raw = up[d].raw
    BY <2>1 DEF Uploads
  <2>3. AllStay
    BY <1>4, <2>1, <2>2 DEF ReceiveFile, AllStay, Started, row, analyses, env, Typed, TypeOK
  <2>. QED BY <2>3, AllStayed
<1>5. ASSUME NEW u \in Readers, ReadStep(u) PROVE CareInv'
  <2>1. AllStay
    <3>1. faults <= faults'
      <4>1. UNCHANGED faults \/ Fault
        BY <1>5 DEF ReadStep, Show, EnsureReady, GetDownloadUrl, ReadText, ReadTextFails, Answer, env
      <4>. QED BY <4>1 DEF Fault, Typed, TypeOK
    <3>. QED BY <1>5, <3>1 DEF ReadStep, Show, EnsureReady, GetDownloadUrl, ReadText, ReadTextFails,
             Answer, AllStay, row, analyses, env
  <2>. QED BY <2>1, AllStayed
<1>6. CASE UNCHANGED vars
  <2>1. AllStay
    BY <1>6 DEF vars, row, analyses, requests, env, AllStay, Typed, TypeOK
  <2>. QED BY <2>1, AllStayed
<1>. QED BY <1>1, <1>2, <1>3, <1>4, <1>5, <1>6 DEF Next

LEMMA InitCare == Init => CareInv
<1>. SUFFICES ASSUME Init PROVE CareInv
  OBVIOUS
<1>1. \A w \in Workers : RunKnows(run[w]) /\ RunNamed(run[w])
  BY DEF Init, Idle, RunKnows, FilePcs, ExtractPcs, LoadedPcs, RedispatchPcs, ScanPcs, UploadPcs,
     RunNamed
<1>2. FreshInv /\ \A d \in Docs : RowNamed(d)
  BY DEF Init, NoUpload, NoCancel, FreshInv, Fresh, RowNamed
<1>3. TendedInv /\ DispatchedInv
  BY DEF Init, TendedInv, Tended, Working, DispatchedInv, Dispatched, Orphan
<1>4. TriesInv
  BY DEF Init, Idle, TriesInv, RunTries
<1>. QED BY <1>1, <1>2, <1>3, <1>4 DEF CareInv, NamedInv

\* The inductive invariant: whatever is delivered how often, and whoever cancels, each
\* document under way has a request, a message or a run that goes on with it, and so has an
\* analysis that was not sent, unless its task has failed on every attempt.
THEOREM CareAlways == Spec => []CareInv
<1>1. Typed /\ DataInv /\ TextInv /\ CareInv /\ [Next]_vars => CareInv'
  BY NextCare
<1>. QED BY <1>1, InitCare, TypedAlways, DataAlways, TextsAlways, PTL DEF Spec

LEMMA QuietIsIdle ==
  ASSUME NEW d \in Docs, Quiet(d)
  PROVE  /\ ~ RequestTends(d) /\ ~ RequestDispatches(d) /\ ~ RequestCleans(d)
         /\ \A m \in Messages : ~ MessageTends(m, d) /\ ~ MessageDispatches(m, d) /\ ~ MessageCleans(m, d)
         /\ \A w \in Workers : ~ RunTends(run[w], d) /\ ~ RunDispatches(run[w], d) /\ ~ RunCleans(run[w], d)
<1>1. ~ RequestTends(d) /\ ~ RequestDispatches(d) /\ ~ RequestCleans(d)
  BY DEF Quiet, RequestTends, RequestDispatches, RequestCleans
<1>2. \A m \in Messages : m.doc = d => ~ (queue[m] > 0)
  BY DEF Quiet
<1>3. \A w \in Workers : run[w].doc # d
  BY DEF Quiet
<1>. QED BY <1>1, <1>2, <1>3 DEF MessageTends, MessageDispatches, MessageCleans, RunTends,
     RunDispatches, RunCleans

\* No document is left in a working status with nobody to move it, with any number of
\* retries, repeated messages and cancels, unless a step was lost with its process.
THEOREM NoStuckDocumentAlways == Spec => []NoStuckDocument
<1>1. Typed /\ CareInv => NoStuckDocument
  <2>. SUFFICES ASSUME Typed, CareInv, NEW d \in Docs, Quiet(d), d \notin abandoned
                PROVE  status[d] \in Terminal \cup {"none"}
    BY DEF NoStuckDocument
  <2>1. status[d] \notin Working
    BY QuietIsIdle DEF CareInv, TendedInv, Tended
  <2>2. status[d] \in Statuses
    BY DEF Typed, TypeOK
  <2>. QED BY <2>1, <2>2 DEF Statuses, Working, Terminal
<1>. QED BY <1>1, CareAlways, TypedAlways, PTL

\* The analysis of an extracted document does not stay queued without an event, with any
\* number of repeated messages: a dispatch that fails is tried again as long as faults were
\* fewer than attempts, and a request that dispatches itself records its failure.
THEOREM NoQueuedOrphanAlways == Spec => []NoQueuedOrphan
<1>1. CareInv => NoQueuedOrphan
  <2>. SUFFICES ASSUME CareInv, NEW d \in Docs, Quiet(d), d \notin abandoned, status[d] = "extracted",
                       analysis[d] = "queued", up[d].path = "analysis_only" \/ faults <= MaxRetries
                PROVE  requested[d]
    BY DEF NoQueuedOrphan
  <2>. QED BY QuietIsIdle DEF CareInv, DispatchedInv, Dispatched, Orphan, Spared
<1>. QED BY <1>1, CareAlways, PTL

\* temp_filename names no file that is gone once nothing acts on the document, unless its
\* upload fell back to extraction, however instances and cancels overlap.
THEOREM NoDanglingNameAlways == Spec => []NoDanglingName
<1>1. NoStuckDocument /\ CareInv => NoDanglingName
  <2>. SUFFICES ASSUME NoStuckDocument, CareInv, NEW d \in Docs, Quiet(d), d \notin abandoned,
                       ~ Degraded(d)
                PROVE  ~ named[d]
    BY DEF NoDanglingName
  <2>1. status[d] \in Terminal \cup {"none"}
    BY DEF NoStuckDocument
  <2>. QED BY <2>1 DEF CareInv, NamedInv, RowNamed
<1>. QED BY <1>1, CareAlways, NoStuckDocumentAlways, PTL

LEMMA NextCleaned ==
  ASSUME Typed, DataInv, HolderInv, CareInv, CleanedInv, [Next]_vars
  PROVE  CleanedInv'
<1>1. ASSUME NEW w \in Workers, RunStep(w) \/ RunFault(w) PROVE CleanedInv'
  <2>. PICK d \in Docs : d = Doc(w) /\ OthersStay(d)
    BY <1>1, WorkerStays
  <2>1. OthersWait(w)
    BY <1>1, WorkerEffect DEF RunEffect
  <2>2. At(w, "load") /\ status[d] \in Early => d \in abandoned
    BY NoEarlyLoad DEF CareInv
  <2>3. WorkerCleans(w, d)
    BY <1>1, <2>2, WorkerCleansUp
  <2>. QED BY <2>1, <2>3, WorkerKeepsCleaned
<1>2. ASSUME NEW w \in Workers, NEW m \in Messages, Take(w, m) PROVE CleanedInv'
  BY <1>2, TakeCleans
<1>3. ASSUME NEW d \in Docs, UploadStep(d) \/ RequestFault(d) \/ CancelRead(d) \/ CancelStep(d)
      PROVE  CleanedInv'
  BY <1>3, RequestStays, RequestsClean, RequestKeepsCleaned
<1>4. ASSUME NEW d \in Docs, NEW c \in Contents, ReceiveFile(d, c) PROVE CleanedInv'
  <2>1. up'[d].pc = "lookup" /\ \A e \in Docs \ {d} : up'[e] = up[e] /\ temp'[e] = temp[e]
    BY <1>4 DEF ReceiveFile, UpGoto, Typed, TypeOK, Uploads
  <2>2. UNCHANGED <<queue, run, abandoned, littered>>
    BY <1>4 DEF ReceiveFile, env
  <2>3. RequestCleans(d)'
    BY <2>1 DEF RequestCleans
  <2>4. ASSUME NEW e \in Docs \ {d} PROVE Cleaned(e)'
    BY <2>1, <2>2 DEF CleanedInv, Cleaned, Litter, RequestCleans, MessageCleans, RunCleans
  <2>. QED BY <2>3, <2>4 DEF CleanedInv, Cleaned
<1>5. ASSUME NEW u \in Readers, ReadStep(u) PROVE CleanedInv'
  <2>1. UNCHANGED <<temp, up, queue, run, abandoned, littered>>
    BY <1>5 DEF ReadStep, Show, EnsureReady, GetDownloadUrl, ReadText, ReadTextFails, Answer, stores, env
  <2>. QED BY <2>1 DEF CleanedInv, Cleaned, Litter, RequestCleans, MessageCleans, RunCleans
<1>6. CASE UNCHANGED vars
  BY <1>6 DEF vars, stores, requests, env, CleanedInv, Cleaned, Litter, RequestCleans, MessageCleans,
     RunCleans
<1>. QED BY <1>1, <1>2, <1>3, <1>4, <1>5, <1>6 DEF Next

\* Once nothing acts on a document its temporary file is gone, however its processing
\* ended, unless a process died or an unlink failed, if no message is delivered twice.
THEOREM NoLeakedTempFileAlways == ASSUME DeliveredOnce PROVE Spec => []NoLeakedTempFile
<1>1. Typed /\ DataInv /\ HolderInv /\ CareInv /\ CleanedInv /\ [Next]_vars => CleanedInv'
  BY NextCleaned
<1>2. Init => CleanedInv
  BY DEF Init, CleanedInv, Cleaned, Litter
<1>3. CleanedInv => NoLeakedTempFile
  BY QuietIsIdle DEF CleanedInv, Cleaned, Litter, NoLeakedTempFile
<1>. QED BY <1>1, <1>2, <1>3, TypedAlways, DataAlways, HolderAlways, CareAlways, PTL DEF Spec

=============================================================================

---------------------- MODULE AnalysisLifecyclePromise -----------------------
(***************************************************************************)
(* What is promised of an analysis, where its messages are handled once:   *)
(* a finished analysis is final, a removed one stays removed, what was     *)
(* retried has failed, and AnalysisLifecycle implements AnalysisResult.    *)
(*                                                                         *)
(* Records are saved back whole by whoever found them before, so each of   *)
(* these needs to know who else may have written meanwhile.  HolderInv     *)
(* says nobody: until its request is done a record is that request's, then *)
(* it is in one message or with one consumer, and the copy that is about   *)
(* to be saved is the record with the update applied.  A retry and a       *)
(* removal look for finished records, which have no holder any more.       *)
(***************************************************************************)
EXTENDS AnalysisLifecycleProofs

-----------------------------------------------------------------------------
(* Who may write a record, where a message is published and delivered once. *)

\* No failed publication delivers its message, and none is requeued while it is handled.
DeliveredOnce == PublishFaults \subseteq {"error"} /\ Redelivers = FALSE

Unfinished == {"queued", "analyzing"}

\* What is retried was dispatched for good, and has failed or is removed.
ParentHolds(p) ==
  p # NoParent =>
    /\ p.req \in Requests /\ 1 <= p.id /\ p.id = created[p.req]
    /\ req[p.req].pc = "done"
    /\ row[p.req].status # "none" => row[p.req].status = "failed" /\ row[p.req].kind = "transient"

\* A request inserts one record, and only a failed one shows a failure kind.
RecordFits(r) ==
  /\ row[r].status = "none" => row[r] = NoRow
  /\ row[r].status # "none" => row[r].id = created[r]
  /\ row[r].status = "failed" => row[r].kind \in {"transient", "permanent"}
  /\ row[r].status # "failed" => row[r].kind = "none"

\* Until its request is done, and once its dispatch is given up, nobody else works on a record.
RequestFits(r) ==
  /\ req[r].pc \in {"absent", "check_child", "insert"} => row[r].status = "none"
  /\ req[r].pc \in {"get_or_create", "raise", "given_up", "mark"} => row[r].status \in {"none", "queued"}
  /\ req[r].pc \in {"publish", "mark_find", "mark_save"} => row[r].status = "queued"
  /\ req[r].pc = "mark_save" => req[r].draft = Apply("transient", row[r])
  /\ req[r].pc \in {"check_child", "insert"} => req[r].parent # NoParent

\* A removal that was allowed stays so.
RemovalFits(r) ==
  removal[r].pc # "idle" => req[r].pc = "done" /\ row[r].status \notin Unfinished

\* Then the record has at most one message, in the broker ...
MessageFits(m) ==
  queue[m] > 0 =>
    /\ queue[m] = 1 /\ req[m.req].pc = "done"
    /\ \A n \in Messages : queue[n] > 0 /\ n.req = m.req => n = m

\* ... or with one consumer ...
Alone(c) ==
  con[c].pc # "idle" =>
    /\ req[con[c].msg.req].pc = "done"
    /\ \A m \in Messages : m.req = con[c].msg.req => queue[m] = 0
    /\ \A e \in Consumers : e # c /\ con[e].pc # "idle" => con[e].msg.req # con[c].msg.req

\* ... that finds the record unfinished and saves a copy which nobody has overtaken.
ConsumerFits(c) ==
  LET x == row[con[c].msg.req] IN
  /\ con[c].pc \in {"load", "find", "save", "llm"} => x.status \in Unfinished
  /\ con[c].pc = "llm" => x.status = "analyzing"
  /\ con[c].pc \in {"find", "save"} /\ con[c].update = "success" => x.status = "analyzing"
  /\ con[c].pc = "save" => con[c].draft = Apply(con[c].update, x)

HolderInv ==
  /\ \A r \in Requests : /\ RecordFits(r) /\ RequestFits(r) /\ RemovalFits(r)
                         /\ ParentHolds(row[r].parent) /\ ParentHolds(req[r].parent)
  /\ \A m \in Messages : MessageFits(m)
  /\ \A c \in Consumers : Alone(c) /\ ConsumerFits(c)

-----------------------------------------------------------------------------
(* All that steps do to the records: insert, save or remove that of one request. *)

Inserts(r, p) ==
  /\ row[r].status = "none" /\ Insert(r, p)
  /\ p # NoParent => p = req[r].parent /\ Children(p) = {}

Saves(r, u) ==
  /\ row[r].status \in Unfinished /\ (u = "success" => row[r].status = "analyzing")
  /\ row' = [row EXCEPT ![r] = Apply(u, row[r])] /\ UNCHANGED created

Removes(r) ==
  /\ row[r].status \notin Unfinished
  /\ row' = [row EXCEPT ![r] = NoRow] /\ UNCHANGED created

RecordStep(r) ==
  \/ UNCHANGED <<row, created>>
  \/ \E p \in Parents : Inserts(r, p)
  \/ \E u \in Updates : Saves(r, u)
  \/ Removes(r)

\* A step that lets requests be done and inserts only before that.
Orderly(r) ==
  /\ \A q \in Requests : req[q].pc = "done" => req'[q].pc = "done"
  /\ created' # created => req[r].pc # "done"

\* Then what is finished stays or is removed.
FinalStays ==
  \A q \in Requests : req[q].pc = "done" /\ row[q].status \notin Unfinished =>
    created'[q] = created[q] /\ req'[q].pc = "done" /\ row'[q] \in {row[q], NoRow}

LEMMA ParentStays ==
  ASSUME FinalStays, NEW p, ParentHolds(p)
  PROVE  ParentHolds(p)'
  BY DEF FinalStays, ParentHolds, Unfinished, NoRow

LEMMA RecordStepFacts ==
  ASSUME Typed, HolderInv, NEW r \in Requests, RecordStep(r)
  PROVE  /\ \A q \in Requests : q # r => row'[q] = row[q] /\ created'[q] = created[q]
         /\ created' = created \/ created'[r] = created[r] + 1
         /\ row'[r].parent \in {row[r].parent, req[r].parent, NoParent}
         /\ RecordFits(r)'
         /\ created' = created => row'[r] \in {row[r], NoRow} \/ row[r].status \in Unfinished
<1>. /\ row \in [Requests -> Rows] /\ row[r] \in Rows /\ created \in [Requests -> Ids]
     /\ created[r] \in Nat /\ RecordFits(r)
  BY IdsAreNaturals DEF Typed, TypeOK, HolderInv
<1>1. CASE UNCHANGED <<row, created>>
  BY <1>1 DEF RecordFits
<1>2. CASE \E p \in Parents : Inserts(r, p)
  <2>. PICK p \in Parents : Inserts(r, p)
    BY <1>2
  <2>1. /\ row' = [row EXCEPT ![r] = [NoRow EXCEPT !.id = created[r] + 1, !.status = "queued", !.parent = p]]
        /\ created' = [created EXCEPT ![r] = @ + 1] /\ (p = NoParent \/ p = req[r].parent)
    BY DEF Inserts, Insert
  <2>2. /\ row'[r].id = created[r] + 1 /\ row'[r].status = "queued" /\ row'[r].kind = "none"
        /\ row'[r].parent = p /\ created'[r] = created[r] + 1
    BY <2>1 DEF NoRow
  <2>3. created' # created
    BY <2>2
  <2>. QED BY <2>1, <2>2, <2>3 DEF RecordFits
<1>3. CASE \E u \in Updates : Saves(r, u)
  <2>. PICK u \in Updates : Saves(r, u)
    BY <1>3
  <2>1. row' = [row EXCEPT ![r] = Apply(u, row[r])] /\ created' = created /\ row[r].status \in Unfinished
    BY DEF Saves
  <2>2. /\ row'[r] = Apply(u, row[r]) /\ Apply(u, row[r]).id = row[r].id
        /\ Apply(u, row[r]).parent = row[r].parent /\ Apply(u, row[r]).status # "none"
        /\ IF u \in {"transient", "permanent"}
           THEN Apply(u, row[r]).status = "failed" /\ Apply(u, row[r]).kind = u
           ELSE Apply(u, row[r]).status # "failed" /\ Apply(u, row[r]).kind = "none"
    BY <2>1 DEF Apply, Rows, Updates, RecordFits, Unfinished
  <2>. QED BY <2>1, <2>2 DEF RecordFits, Unfinished
<1>4. CASE Removes(r)
  BY <1>4 DEF Removes, RecordFits, NoRow
<1>. QED BY <1>1, <1>2, <1>3, <1>4 DEF RecordStep

LEMMA RecordStepHolds ==
  ASSUME Typed, HolderInv, NEW r \in Requests, RecordStep(r), Orderly(r)
  PROVE  /\ FinalStays
         /\ \A q \in Requests : RecordFits(q)' /\ ParentHolds(row[q].parent)'
<1>. created \in [Requests -> Ids] /\ created[r] \in Nat
  BY IdsAreNaturals DEF Typed, TypeOK
<1>1. FinalStays
  BY RecordStepFacts DEF FinalStays, Orderly
<1>2. ASSUME NEW q \in Requests PROVE RecordFits(q)'
  BY RecordStepFacts DEF HolderInv, RecordFits
<1>3. ASSUME NEW q \in Requests PROVE ParentHolds(row[q].parent)'
  <2>1. PICK p : p = row'[q].parent
    OBVIOUS
  <2>2. p \in {row[q].parent, req[q].parent, NoParent}
    BY <2>1, RecordStepFacts
  <2>3. ParentHolds(p)
    BY <2>2 DEF HolderInv, ParentHolds
  <2>4. ParentHolds(p)'
    BY <1>1, <2>3, ParentStays
  <2>. QED BY <2>1, <2>4 DEF ParentHolds
<1>. QED BY <1>1, <1>2, <1>3

LEMMA RequestHolder ==
  ASSUME Typed, HolderInv, NEW r \in Requests, RecordStep(r), req[r].pc # "done",
         UNCHANGED <<con, removal>>, \A q \in Requests : q # r => req'[q] = req[q],
         RequestFits(r)', NEW p, req'[r].parent = p, ParentHolds(p),
         \/ UNCHANGED queue
         \/ \E m \in Messages : /\ m.req = r /\ req'[r].pc = "done"
                                /\ queue' = [queue EXCEPT ![m] = @ + 1]
  PROVE  HolderInv' /\ RecordStep(r) /\ Orderly(r)
<1>. /\ queue \in [Messages -> Nat] /\ \A m \in Messages : m.req \in Requests
     /\ \A c \in Consumers : con[c].pc # "idle" => con[c].msg.req \in Requests
  BY DEF Typed, TypeOK, Messages, Holding
<1>1. Orderly(r)
  BY DEF Orderly
<1>2. /\ FinalStays
      /\ \A q \in Requests : RecordFits(q)' /\ ParentHolds(row[q].parent)'
      /\ \A q \in Requests : q # r => row'[q] = row[q] /\ created'[q] = created[q]
  BY <1>1, RecordStepHolds, RecordStepFacts
<1>3. ASSUME NEW q \in Requests PROVE RequestFits(q)' /\ ParentHolds(req[q].parent)' /\ RemovalFits(q)'
  <2>1. CASE q = r
    <3>1. ParentHolds(p)'
      BY <1>2, ParentStays
    <3>2. RemovalFits(r)'
      BY DEF HolderInv, RemovalFits
    <3>. QED BY <2>1, <3>1, <3>2 DEF ParentHolds
  <2>2. CASE q # r
    <3>1. RequestFits(q)' /\ RemovalFits(q)'
      BY <1>2, <2>2 DEF HolderInv, RequestFits, RemovalFits
    <3>2. PICK s : s = req[q].parent
      OBVIOUS
    <3>3. ParentHolds(s)'
      BY <1>2, <3>2, ParentStays DEF HolderInv
    <3>. QED BY <2>2, <3>1, <3>2, <3>3 DEF ParentHolds
  <2>. QED BY <2>1, <2>2
<1>4. \A m \in Messages : m.req = r => queue[m] = 0
  BY DEF HolderInv, MessageFits
<1>5. \A m \in Messages : MessageFits(m)'
  <2>1. CASE UNCHANGED queue
    BY <2>1, <1>4 DEF HolderInv, MessageFits
  <2>2. ASSUME NEW m \in Messages, m.req = r, req'[r].pc = "done", queue' = [queue EXCEPT ![m] = @ + 1]
        PROVE  \A n \in Messages : MessageFits(n)'
    <3>1. \A n \in Messages : queue'[n] = IF n = m THEN 1 ELSE queue[n]
      BY <2>2, <1>4
    <3>. QED BY <2>2, <3>1, <1>4 DEF HolderInv, MessageFits
  <2>. QED BY <2>1, <2>2
<1>6. ASSUME NEW c \in Consumers PROVE Alone(c)' /\ ConsumerFits(c)'
  <2>1. con[c].pc # "idle" => con[c].msg.req # r /\ con[c].msg.req \in Requests
    BY DEF HolderInv, Alone
  <2>2. \A m \in Messages : m.req # r => queue'[m] = queue[m]
    OBVIOUS
  <2>. QED BY <1>2, <2>1, <2>2 DEF HolderInv, Alone, ConsumerFits
<1>. QED BY <1>1, <1>2, <1>3, <1>5, <1>6 DEF HolderInv

\* The steps of a request.
LEMMA RequestKeepsHolder ==
  ASSUME DeliveredOnce, Typed, RecordInv, HolderInv, NEW r \in Requests,
         Arrives(r) \/ RequestStep(r) \/ RequestFails(r)
  PROVE  HolderInv' /\ RecordStep(r) /\ Orderly(r)
<1>. /\ req \in [Requests -> Reqs] /\ req[r] \in Reqs /\ row[r] \in Rows
     /\ row \in [Requests -> Rows] /\ created \in [Requests -> Ids] /\ created[r] \in Nat
     /\ queue \in [Messages -> Nat] /\ Inserted(r) /\ req[r].parent \in Parents
     /\ RecordFits(r) /\ RequestFits(r) /\ ParentHolds(row[r].parent) /\ ParentHolds(req[r].parent)
     /\ NoParent \in Parents /\ ParentHolds(NoParent)
  BY IdsAreNaturals DEF Typed, TypeOK, Reqs, HolderInv, ParentHolds
<1>. PICK p \in Parents : p = req[r].parent
  OBVIOUS
<1>. ParentHolds(p)
  OBVIOUS
<1>. USE DEF ReqAt, ReqGoto
<1>1. CASE TaskDispatches(r)
  <2>1. /\ UNCHANGED <<row, created, queue, con, removal>> /\ req[r].pc = "absent"
        /\ req'[r].pc = "get_or_create" /\ req'[r].parent = p
        /\ \A q \in Requests : q # r => req'[q] = req[q]
    BY <1>1 DEF TaskDispatches, Reqs
  <2>2. RequestFits(r)' /\ RecordStep(r)
    BY <2>1 DEF RequestFits, RecordStep
  <2>. QED BY <2>1, <2>2, RequestHolder
<1>2. CASE Create(r)
  <2>1. /\ UNCHANGED <<queue, con, removal>> /\ req[r].pc = "absent" /\ Insert(r, NoParent)
        /\ req'[r].pc = "publish" /\ req'[r].parent = p
        /\ \A q \in Requests : q # r => req'[q] = req[q]
    BY <1>2 DEF Create, Reqs
  <2>2. RecordStep(r)
    BY <2>1 DEF RequestFits, RecordStep, Inserts
  <2>3. RequestFits(r)'
    BY <2>1 DEF RequestFits, Insert, NoRow
  <2>. QED BY <2>1, <2>2, <2>3, RequestHolder
<1>3. CASE \E s \in Requests : RetryRead(r, s)
  <2>. PICK s \in Requests : RetryRead(r, s)
    BY <1>3
  <2>1. PICK n \in Parents : n = Name(s, row[s].id)
    BY NameTyped DEF Typed
  <2>2. /\ UNCHANGED <<row, created, queue, con, removal>> /\ req[r].pc = "absent"
        /\ req'[r].pc = "check_child" /\ req'[r].parent = n
        /\ \A q \in Requests : q # r => req'[q] = req[q]
    BY <2>1 DEF RetryRead, Reqs
  <2>3. ParentHolds(n) /\ n # NoParent
    <3>1. n.req = s /\ n.id = row[s].id /\ s # None
      BY <2>1, RequestsAssumption DEF Name
    <3>2. row[s].status = "failed" /\ row[s].kind = "transient"
      BY DEF RetryRead
    <3>3. req[s] \in Reqs /\ row[s] \in Rows /\ RecordFits(s) /\ RequestFits(s)
      BY DEF HolderInv
    <3>4. row[s].id = created[s] /\ req[s].pc = "done"
      BY <3>2, <3>3 DEF RecordFits, RequestFits, Reqs, ReqPcs
    <3>5. 1 <= created[s]
      BY <3>2, <3>4 DEF RecordInv, RecordFacts
    <3>. QED BY <3>1, <3>2, <3>4, <3>5 DEF ParentHolds, NoParent
  <2>4. RequestFits(r)' /\ RecordStep(r)
    BY <2>2, <2>3 DEF RequestFits, RecordStep
  <2>. QED BY <2>2, <2>3, <2>4, RequestHolder
<1>4. CASE GetOrCreate(r)
  <2>1. /\ UNCHANGED <<queue, con, removal>> /\ req[r].pc = "get_or_create"
        /\ req'[r].pc = "publish" /\ req'[r].parent = p
        /\ \A q \in Requests : q # r => req'[q] = req[q]
    BY <1>4 DEF GetOrCreate, Reqs
  <2>2. RecordStep(r) /\ RequestFits(r)'
    <3>1. CASE Present(r)
      BY <1>4, <2>1, <3>1 DEF GetOrCreate, RequestFits, RecordStep, Present
    <3>2. CASE ~ Present(r)
      <4>1. Insert(r, NoParent) /\ row[r].status = "none"
        BY <1>4, <3>2 DEF GetOrCreate, Present
      <4>2. row'[r].status = "queued"
        BY <4>1 DEF Insert, NoRow
      <4>. QED BY <2>1, <4>1, <4>2 DEF RequestFits, RecordStep, Inserts
    <3>. QED BY <3>1, <3>2
  <2>. QED BY <2>1, <2>2, RequestHolder
<1>5. CASE RetryCheckChild(r)
  <2>1. /\ UNCHANGED <<row, created, queue, con, removal>> /\ req[r].pc = "check_child"
        /\ req'[r].pc \in {"done", "insert"} /\ req'[r].parent = p
        /\ \A q \in Requests : q # r => req'[q] = req[q]
    BY <1>5 DEF RetryCheckChild, Reqs
  <2>2. RequestFits(r)' /\ RecordStep(r)
    BY <2>1 DEF RequestFits, RecordStep
  <2>. QED BY <2>1, <2>2, RequestHolder
<1>6. CASE RetryInsert(r)
  <2>1. CASE Children(req[r].parent) = {}
    <3>1. /\ UNCHANGED <<queue, con, removal>> /\ req[r].pc = "insert"
          /\ Insert(r, p) /\ req' = [req EXCEPT ![r].pc = "publish"]
      BY <1>6, <2>1 DEF RetryInsert
    <3>2. /\ req'[r].pc = "publish" /\ req'[r].parent = p
          /\ \A q \in Requests : q # r => req'[q] = req[q]
      BY <3>1 DEF Reqs
    <3>3. RecordStep(r)
      BY <2>1, <3>1 DEF RequestFits, RecordStep, Inserts
    <3>4. RequestFits(r)'
      BY <3>1, <3>2 DEF RequestFits, Insert, NoRow
    <3>. QED BY <3>1, <3>2, <3>3, <3>4, RequestHolder
  <2>2. CASE Children(req[r].parent) # {}
    <3>1. /\ UNCHANGED <<row, created, queue, con, removal>> /\ req[r].pc = "insert"
          /\ req' = [req EXCEPT ![r].pc = "done"]
      BY <1>6, <2>2 DEF RetryInsert
    <3>2. /\ req'[r].pc = "done" /\ req'[r].parent = p
          /\ \A q \in Requests : q # r => req'[q] = req[q]
      BY <3>1 DEF Reqs
    <3>3. RequestFits(r)' /\ RecordStep(r)
      BY <3>1, <3>2 DEF RequestFits, RecordStep
    <3>. QED BY <3>1, <3>2, <3>3, RequestHolder
  <2>. QED BY <2>1, <2>2
<1>7. CASE PublishRequested(r)
  <2>1. /\ UNCHANGED <<row, created, con, removal>> /\ req[r].pc = "publish" /\ row[r].status = "queued"
    BY <1>7 DEF PublishRequested, RequestFits
  <2>2. PICK m : m = [req |-> r, id |-> created[r], count |-> 0]
    OBVIOUS
  <2>3. m \in Messages /\ m.req = r
    BY <2>2, CountsAssumption DEF Messages
  <2>4. PICK o \in Outcomes :
          /\ queue' = [queue EXCEPT ![m] = @ + Copies(o)]
          /\ req' = [req EXCEPT ![r].pc = IF ~ Raises(o) THEN "done"
                                          ELSE IF req[r].kind = "task" THEN "raise" ELSE "mark"]
    BY <1>7, <2>2 DEF PublishRequested
  <2>5. o \in {"ok", "error"}
    BY DEF DeliveredOnce, Outcomes
  <2>6. req'[r].parent = p /\ \A q \in Requests : q # r => req'[q] = req[q]
    BY <2>4 DEF Reqs
  <2>7. CASE o = "ok"
    <3>1. queue' = [queue EXCEPT ![m] = @ + 1] /\ req'[r].pc = "done"
      BY <2>4, <2>7 DEF Copies, Raises, Reqs
    <3>2. RequestFits(r)' /\ RecordStep(r)
      BY <2>1, <3>1 DEF RequestFits, RecordStep
    <3>. QED BY <2>1, <2>3, <2>6, <3>1, <3>2, RequestHolder
  <2>8. CASE o = "error"
    <3>1. queue' = queue
      <4>1. queue' = [queue EXCEPT ![m] = queue[m] + 0] /\ queue[m] + 0 = queue[m]
        BY <2>3, <2>4, <2>8 DEF Copies
      <4>. QED BY <4>1
    <3>2. req'[r].pc \in {"raise", "mark"}
      BY <2>4, <2>8 DEF Raises, Reqs
    <3>3. RequestFits(r)' /\ RecordStep(r)
      BY <2>1, <3>2 DEF RequestFits, RecordStep
    <3>. QED BY <2>1, <2>6, <3>1, <3>3, RequestHolder
  <2>. QED BY <2>5, <2>7, <2>8
<1>8. CASE TaskRetries(r) \/ TaskGivesUp(r)
  <2>1. /\ UNCHANGED <<row, created, queue, con, removal>> /\ req[r].pc = "raise"
        /\ req'[r].pc \in {"get_or_create", "given_up"} /\ req'[r].parent = p
        /\ \A q \in Requests : q # r => req'[q] = req[q]
    BY <1>8 DEF TaskRetries, TaskGivesUp, ReqGoto, Reqs
  <2>2. RequestFits(r)' /\ RecordStep(r)
    BY <2>1 DEF RequestFits, RecordStep
  <2>. QED BY <2>1, <2>2, RequestHolder
<1>9. CASE Mark(r)
  <2>1. /\ UNCHANGED <<row, created, queue, con, removal>> /\ req[r].pc = "mark"
        /\ req'[r].pc = IF row[r].status = "queued" THEN "mark_find" ELSE "done"
        /\ req'[r].parent = p /\ \A q \in Requests : q # r => req'[q] = req[q]
    BY <1>9 DEF Mark, Reqs
  <2>2. RequestFits(r)' /\ RecordStep(r)
    BY <2>1 DEF RequestFits, RecordStep
  <2>. QED BY <2>1, <2>2, RequestHolder
<1>10. CASE MarkFind(r)
  <2>1. /\ UNCHANGED <<row, created, queue, con, removal>> /\ req[r].pc = "mark_find"
        /\ row[r].status = "queued"
        /\ req' = [req EXCEPT ![r].pc = "mark_save", ![r].draft = Apply("transient", row[r])]
    BY <1>10 DEF MarkFind, Present, RequestFits
  <2>2. /\ req'[r].pc = "mark_save" /\ req'[r].draft = Apply("transient", row[r])
        /\ req'[r].parent = p /\ \A q \in Requests : q # r => req'[q] = req[q]
    BY <2>1 DEF Reqs
  <2>3. RequestFits(r)'
    <3>1. Apply("transient", row[r])' = Apply("transient", row[r])
      BY <2>1 DEF Apply
    <3>. QED BY <2>1, <2>2, <3>1 DEF RequestFits
  <2>4. RecordStep(r)
    BY <2>1 DEF RecordStep
  <2>. QED BY <2>1, <2>2, <2>3, <2>4, RequestHolder
<1>11. CASE MarkSave(r)
  <2>1. /\ UNCHANGED <<created, queue, con, removal>> /\ req[r].pc = "mark_save"
        /\ row[r].status = "queued" /\ req[r].draft = Apply("transient", row[r])
        /\ req'[r].pc = "done" /\ req'[r].parent = p
        /\ \A q \in Requests : q # r => req'[q] = req[q]
    BY <1>11 DEF MarkSave, RequestFits, Reqs
  <2>2. UNCHANGED row \/ row' = [row EXCEPT ![r] = Apply("transient", row[r])]
    BY <1>11, <2>1 DEF MarkSave
  <2>3. RequestFits(r)' /\ RecordStep(r)
    BY <2>1, <2>2 DEF RequestFits, RecordStep, Saves, Unfinished, Updates
  <2>. QED BY <2>1, <2>3, RequestHolder
<1>12. CASE RequestFails(r)
  <2>1. UNCHANGED <<row, created, queue, con, removal>> /\ req[r].pc # "done"
    BY <1>12 DEF RequestFails
  <2>2. /\ (req[r].pc = "get_or_create" /\ req'[r].pc = "raise") \/ req'[r].pc = "done"
        /\ req'[r].parent = p /\ \A q \in Requests : q # r => req'[q] = req[q]
    BY <1>12 DEF RequestFails, Reqs
  <2>3. RequestFits(r)' /\ RecordStep(r)
    BY <2>1, <2>2 DEF RequestFits, RecordStep
  <2>. QED BY <2>1, <2>2, <2>3, RequestHolder
<1>. QED BY <1>1, <1>2, <1>3, <1>4, <1>5, <1>6, <1>7, <1>8, <1>9, <1>10, <1>11, <1>12
     DEF Arrives, RequestStep

\* The steps of a removal.
LEMMA RemovalKeepsHolder ==
  ASSUME Typed, HolderInv, NEW r \in Requests, RemovalStep(r)
  PROVE  HolderInv' /\ RecordStep(r) /\ Orderly(r)
<1>. /\ row \in [Requests -> Rows] /\ row[r] \in Rows /\ removal \in [Requests -> Removals]
     /\ req[r].pc \in ReqPcs /\ RequestFits(r) /\ RemovalFits(r) /\ RecordFits(r)
  BY DEF Typed, TypeOK, HolderInv, Reqs
<1>1. UNCHANGED <<created, queue, req, con>>
  BY DEF RemovalStep, RemoveRead, RemoveCheckChild, RemoveDelete
<1>2. /\ RecordStep(r)
      /\ UNCHANGED row \/ row' = [row EXCEPT ![r] = NoRow]
      /\ UNCHANGED row \/ row[r].status \notin Unfinished
      /\ \A q \in Requests : q # r => removal'[q] = removal[q]
      /\ removal'[r].pc # "idle" => req[r].pc = "done" /\ row[r].status \notin Unfinished
  <2>1. CASE RemoveRead(r)
    <3>1. /\ UNCHANGED row /\ row[r].status \in Terminal
          /\ \A q \in Requests : q # r => removal'[q] = removal[q]
      BY <2>1 DEF RemoveRead
    <3>. QED BY <1>1, <3>1 DEF RecordStep, RequestFits, ReqPcs, Terminal, Unfinished
  <2>2. CASE RemoveCheckChild(r)
    <3>1. /\ UNCHANGED row /\ removal[r].pc = "check_child"
          /\ \A q \in Requests : q # r => removal'[q] = removal[q]
      BY <2>2 DEF RemoveCheckChild
    <3>. QED BY <1>1, <3>1 DEF RecordStep, RemovalFits
  <2>3. CASE RemoveDelete(r)
    <3>1. /\ row' = [row EXCEPT ![r] = IF @.id = removal[r].id THEN NoRow ELSE @]
          /\ removal[r].pc = "delete" /\ removal' = [removal EXCEPT ![r] = NoRemoval]
      BY <2>3 DEF RemoveDelete
    <3>2. row[r].status \notin Unfinished /\ removal'[r].pc = "idle"
      BY <3>1 DEF RemovalFits, NoRemoval
    <3>3. UNCHANGED row \/ row' = [row EXCEPT ![r] = NoRow]
      BY <3>1
    <3>. QED BY <1>1, <3>1, <3>2, <3>3 DEF RecordStep, Removes
  <2>. QED BY <2>1, <2>2, <2>3 DEF RemovalStep
<1>3. Orderly(r)
  BY <1>1 DEF Orderly
<1>4. /\ FinalStays
      /\ \A q \in Requests : RecordFits(q)' /\ ParentHolds(row[q].parent)'
      /\ \A q \in Requests : q # r => row'[q] = row[q]
  BY <1>2, <1>3, RecordStepHolds, RecordStepFacts
<1>5. row'[r] = row[r] \/ (row'[r].status = "none" /\ row[r].status \notin Unfinished)
  BY <1>2 DEF NoRow
<1>6. ASSUME NEW q \in Requests PROVE RequestFits(q)' /\ RemovalFits(q)' /\ ParentHolds(req[q].parent)'
  <2>1. RemovalFits(q)'
    BY <1>1, <1>2, <1>4, <1>5 DEF RemovalFits, HolderInv, Unfinished
  <2>2. RequestFits(q)'
    <3>1. CASE row'[q] = row[q]
      BY <1>1, <3>1 DEF RequestFits, HolderInv
    <3>2. CASE row'[q] # row[q]
      <4>1. q = r /\ req[r].pc = "done"
        BY <1>2, <1>4, <1>5, <3>2 DEF RequestFits, ReqPcs, Unfinished, RecordFits
      <4>. QED BY <1>1, <4>1 DEF RequestFits
    <3>. QED BY <3>1, <3>2
  <2>3. PICK s : s = req[q].parent
    OBVIOUS
  <2>4. ParentHolds(s)'
    BY <1>4, <2>3, ParentStays DEF HolderInv
  <2>. QED BY <1>1, <2>1, <2>2, <2>3, <2>4 DEF ParentHolds
<1>7. \A m \in Messages : MessageFits(m)'
  BY <1>1 DEF HolderInv, MessageFits
<1>8. ASSUME NEW c \in Consumers PROVE Alone(c)' /\ ConsumerFits(c)'
  <2>1. Alone(c)'
    BY <1>1 DEF HolderInv, Alone
  <2>2. con[c].pc # "idle" => con[c].msg.req \in Requests
    BY DEF Typed, Holding, Messages
  <2>3. ConsumerFits(c)'
    BY <1>1, <1>4, <1>5, <2>2 DEF HolderInv, ConsumerFits, Unfinished
  <2>. QED BY <2>1, <2>3
<1>. QED BY <1>2, <1>3, <1>4, <1>6, <1>7, <1>8 DEF HolderInv

\* A consumer that has a message is the only one to change its record.
LEMMA ConsumerHolder ==
  ASSUME Typed, HolderInv, NEW c \in Consumers, con[c].pc # "idle",
         NEW r \in Requests, r = con[c].msg.req,
         RecordStep(r), row'[r] = row[r] \/ row[r].status \in Unfinished,
         UNCHANGED <<created, req, removal>>,
         \A e \in Consumers : e # c => con'[e] = con[e],
         \/ con'[c].pc = "idle"
         \/ con'[c].msg = con[c].msg /\ ConsumerFits(c)',
         \/ UNCHANGED queue
         \/ \E m \in Messages : /\ m.req = r /\ con'[c].pc = "idle"
                                /\ queue' = [queue EXCEPT ![m] = @ + 1]
  PROVE  HolderInv' /\ RecordStep(r) /\ Orderly(r)
<1>. /\ queue \in [Messages -> Nat] /\ \A m \in Messages : m.req \in Requests
     /\ \A e \in Consumers : con[e].pc # "idle" => con[e].msg.req \in Requests
     /\ Alone(c)
  BY DEF Typed, TypeOK, Messages, Holding, HolderInv
<1>1. Orderly(r)
  BY DEF Orderly
<1>2. /\ FinalStays
      /\ \A q \in Requests : RecordFits(q)' /\ ParentHolds(row[q].parent)'
      /\ \A q \in Requests : q # r => row'[q] = row[q]
  BY <1>1, RecordStepHolds, RecordStepFacts
<1>3. req[r].pc = "done" /\ \A m \in Messages : m.req = r => queue[m] = 0
  BY DEF Alone
<1>4. ASSUME NEW q \in Requests PROVE RequestFits(q)' /\ RemovalFits(q)' /\ ParentHolds(req[q].parent)'
  <2>1. RequestFits(q)'
    BY <1>2, <1>3 DEF RequestFits, HolderInv
  <2>2. RemovalFits(q)'
    BY <1>2 DEF RemovalFits, HolderInv
  <2>3. PICK s : s = req[q].parent
    OBVIOUS
  <2>4. ParentHolds(s)'
    BY <1>2, <2>3, ParentStays DEF HolderInv
  <2>. QED BY <2>1, <2>2, <2>3, <2>4 DEF ParentHolds
<1>5. \A m \in Messages : MessageFits(m)'
  <2>1. CASE UNCHANGED queue
    BY <2>1 DEF HolderInv, MessageFits
  <2>2. ASSUME NEW m \in Messages, m.req = r, queue' = [queue EXCEPT ![m] = @ + 1]
        PROVE  \A n \in Messages : MessageFits(n)'
    <3>1. \A n \in Messages : queue'[n] = IF n = m THEN 1 ELSE queue[n]
      BY <1>3, <2>2
    <3>. QED BY <1>3, <2>2, <3>1 DEF HolderInv, MessageFits
  <2>. QED BY <2>1, <2>2
<1>6. \A m \in Messages : m.req # r \/ con'[c].pc # "idle" => queue'[m] = queue[m]
  OBVIOUS
<1>7. ASSUME NEW e \in Consumers PROVE Alone(e)' /\ ConsumerFits(e)'
  <2>1. CASE e = c
    <3>1. CASE con'[c].pc = "idle"
      BY <2>1, <3>1 DEF Alone, ConsumerFits
    <3>2. CASE con'[c].pc # "idle"
      BY <1>6, <2>1, <3>2 DEF Alone
    <3>. QED BY <3>1, <3>2
  <2>2. CASE e # c
    <3>1. con'[e] = con[e] /\ (con[e].pc # "idle" => con[e].msg.req # r)
      BY <2>2 DEF Alone
    <3>2. Alone(e)'
      BY <1>6, <2>2, <3>1 DEF HolderInv, Alone
    <3>3. ConsumerFits(e)'
      BY <1>2, <3>1 DEF HolderInv, ConsumerFits
    <3>. QED BY <3>2, <3>3
  <2>. QED BY <2>1, <2>2
<1>. QED BY <1>1, <1>2, <1>4, <1>5, <1>7 DEF HolderInv

\* The steps of a consumer.
LEMMA ConsumerKeepsHolder ==
  ASSUME DeliveredOnce, Typed, HolderInv, NEW c \in Consumers,
         ConsumerStep(c) \/ ConsumerFault(c) \/ \E m \in Messages : Receive(c, m)
  PROVE  HolderInv' /\ \E r \in Requests : RecordStep(r) /\ Orderly(r)
<1>. /\ con \in [Consumers -> Cons] /\ con[c] \in Cons
     /\ con[c].pc # "idle" => con[c].msg \in Messages
     /\ row \in [Requests -> Rows] /\ queue \in [Messages -> Nat]
     /\ con[c].update \in Updates /\ ConsumerFits(c) /\ Alone(c)
     /\ \A m \in Messages : m.req \in Requests /\ MessageFits(m)
  BY DEF Typed, TypeOK, Holding, Cons, HolderInv, Messages
<1>. USE DEF At, Msg
<1>1. ASSUME NEW m \in Messages, Receive(c, m)
      PROVE  HolderInv' /\ \E r \in Requests : RecordStep(r) /\ Orderly(r)
  <2>. USE <1>1
  <2>1. /\ UNCHANGED <<row, created, req, removal>> /\ con[c].pc = "idle" /\ queue[m] > 0
        /\ con'[c].pc = "read" /\ con'[c].msg = m
        /\ \A e \in Consumers : e # c => con'[e] = con[e]
    BY DEF Receive, Cons
  <2>2. queue[m] = 1 /\ \A n \in Messages : n.req = m.req /\ n # m => queue[n] = 0
    BY <2>1 DEF MessageFits
  <2>3. \A n \in Messages : queue'[n] = IF n = m THEN 0 ELSE queue[n]
    <3>1. queue' = [queue EXCEPT ![m] = queue[m] - 1]
      BY DEF Receive
    <3>. QED BY <2>2, <3>1
  <2>4. req[m.req].pc = "done" /\ \A e \in Consumers : con[e].pc # "idle" => con[e].msg.req # m.req
    BY <2>1 DEF MessageFits, HolderInv, Alone
  <2>5. \A n \in Messages : MessageFits(n)'
    BY <2>1, <2>3 DEF MessageFits
  <2>6. \A q \in Requests : /\ RecordFits(q)' /\ RequestFits(q)' /\ RemovalFits(q)'
                            /\ ParentHolds(row[q].parent)' /\ ParentHolds(req[q].parent)'
    BY <2>1 DEF HolderInv, RecordFits, RequestFits, RemovalFits, ParentHolds
  <2>7. ASSUME NEW e \in Consumers PROVE Alone(e)' /\ ConsumerFits(e)'
    <3>1. CASE e = c
      <4>1. Alone(c)'
        BY <2>1, <2>2, <2>3, <2>4 DEF Alone
      <4>2. ConsumerFits(c)'
        BY <2>1 DEF ConsumerFits
      <4>. QED BY <3>1, <4>1, <4>2
    <3>2. CASE e # c
      <4>1. ConsumerFits(e)'
        BY <2>1, <3>2 DEF HolderInv, ConsumerFits
      <4>2. Alone(e)'
        BY <2>1, <2>2, <2>3, <2>4, <3>2 DEF HolderInv, Alone
      <4>. QED BY <4>1, <4>2
    <3>. QED BY <3>1, <3>2
  <2>8. RecordStep(m.req) /\ Orderly(m.req)
    BY <2>1 DEF RecordStep, Orderly
  <2>. QED BY <2>5, <2>6, <2>7, <2>8 DEF HolderInv
<1>2. CASE con[c].pc # "idle" /\ ~ \E m \in Messages : Receive(c, m)
  <2>. PICK r \in Requests : r = con[c].msg.req
    BY <1>2
  <2>. /\ row[r] \in Rows /\ req[r].pc = "done" /\ con[c].pc # "idle"
       /\ RecordFits(r)
    BY <1>2 DEF Alone, HolderInv
  <2>1. ASSUME UNCHANGED <<row, created, queue, req, removal>>, con'[c].msg = con[c].msg,
               \A e \in Consumers : e # c => con'[e] = con[e], ConsumerFits(c)'
        PROVE  HolderInv' /\ RecordStep(r) /\ Orderly(r)
    BY <2>1, ConsumerHolder DEF RecordStep
  <2>2. CASE ReadAnalysis(c)
    <3>1. /\ con'[c].pc = AfterRead(ById(r, con[c].msg.id)) /\ con'[c].msg = con[c].msg
          /\ \A e \in Consumers : e # c => con'[e] = con[e]
          /\ UNCHANGED <<row, created, queue, req, removal>>
      BY <2>2 DEF ReadAnalysis, ConGoto, Cons
    <3>2. ConsumerFits(c)'
      BY <3>1 DEF ConsumerFits, AfterRead, ById, Terminal, Rows, RowStatuses, Unfinished, NoRow
    <3>. QED BY <2>1, <3>1, <3>2
  <2>3. CASE LoadText(c)
    <3>1. /\ con[c].pc = "load" /\ con'[c].pc = "find" /\ con'[c].update # "success"
          /\ con'[c].msg = con[c].msg /\ \A e \in Consumers : e # c => con'[e] = con[e]
          /\ UNCHANGED <<row, created, queue, req, removal>>
      BY <2>3 DEF LoadText, StartUpdate, Cons
    <3>2. ConsumerFits(c)'
      BY <3>1 DEF ConsumerFits
    <3>. QED BY <2>1, <3>1, <3>2
  <2>4. CASE FindRow(c)
    <3>1. /\ con[c].pc = "find" /\ UNCHANGED <<row, created, queue, req, removal>>
          /\ row[r].status \in Unfinished /\ Present(r)
      BY <2>4 DEF FindRow, ConsumerFits, Unfinished, Present
    <3>2. con' = [con EXCEPT ![c].pc = "save", ![c].draft = Apply(con[c].update, row[r])]
      BY <2>4, <3>1 DEF FindRow
    <3>3. /\ con'[c].pc = "save" /\ con'[c].draft = Apply(con[c].update, row[r])
          /\ con'[c].update = con[c].update /\ con'[c].msg = con[c].msg
          /\ \A e \in Consumers : e # c => con'[e] = con[e]
      BY <3>2 DEF Cons
    <3>4. ConsumerFits(c)'
      <4>1. Apply(con'[c].update, row'[r]) = Apply(con[c].update, row[r])
        BY <3>1, <3>3
      <4>. QED BY <3>1, <3>3, <4>1 DEF ConsumerFits
    <3>. QED BY <2>1, <3>1, <3>3, <3>4
  <2>5. CASE Fails(c) /\ con[c].pc # "idle" /\ UNCHANGED <<row, created, queue, req, removal>>
    <3>1. /\ con'[c].pc \in {"ack", "raise"} /\ con'[c].msg = con[c].msg
          /\ \A e \in Consumers : e # c => con'[e] = con[e]
      BY <2>5 DEF Fails, Cons
    <3>2. ConsumerFits(c)'
      BY <3>1 DEF ConsumerFits
    <3>. QED BY <2>1, <2>5, <3>1, <3>2
  <2>6. CASE SaveRow(c)
    <3>1. CASE Unique(r, con[c].draft)
      <4>1. /\ con[c].pc = "save" /\ UNCHANGED <<created, queue, req, removal>>
            /\ row' = [row EXCEPT ![r] = con[c].draft]
            /\ con'[c].pc = AfterUpdate(con[c].update) /\ con'[c].msg = con[c].msg
            /\ \A e \in Consumers : e # c => con'[e] = con[e]
        BY <2>6, <3>1 DEF SaveRow, Cons
      <4>2. /\ row[r].status \in Unfinished /\ con[c].draft = Apply(con[c].update, row[r])
            /\ con[c].update = "success" => row[r].status = "analyzing"
        BY <4>1 DEF ConsumerFits
      <4>3. RecordStep(r)
        BY <4>1, <4>2 DEF RecordStep, Saves
      <4>4. ConsumerFits(c)'
        <5>1. CASE con[c].update = "analyzing"
          <6>1. row'[r].status = "analyzing" /\ con'[c].pc = "llm"
            BY <4>1, <4>2, <5>1 DEF Apply, Rows, AfterUpdate
          <6>. QED BY <4>1, <6>1 DEF ConsumerFits, Unfinished
        <5>2. CASE con[c].update # "analyzing"
          BY <4>1, <5>2 DEF ConsumerFits, AfterUpdate
        <5>. QED BY <5>1, <5>2
      <4>. QED BY <4>1, <4>2, <4>3, <4>4, ConsumerHolder
    <3>2. CASE ~ Unique(r, con[c].draft)
      BY <2>5, <2>6, <3>2 DEF SaveRow
    <3>. QED BY <3>1, <3>2
  <2>7. CASE CallLLM(c)
    <3>1. /\ con[c].pc = "llm" /\ con'[c].pc = "find" /\ con'[c].msg = con[c].msg
          /\ \A e \in Consumers : e # c => con'[e] = con[e]
          /\ UNCHANGED <<row, created, queue, req, removal>>
      BY <2>7 DEF CallLLM, StartUpdate, Cons
    <3>2. ConsumerFits(c)'
      BY <3>1 DEF ConsumerFits
    <3>. QED BY <2>1, <3>1, <3>2
  <2>8. CASE Raise(c)
    <3>1. CASE con[c].msg.count < MaxRetries
      <4>1. PICK m \in Messages : m = [con[c].msg EXCEPT !.count = @ + 1]
        BY <3>1, CountedTyped
      <4>2. m.req = r
        BY <4>1 DEF Messages
      <4>3. queue' = [queue EXCEPT ![m] = @ + 1] /\ con' = [con EXCEPT ![c] = NoCon]
            /\ UNCHANGED <<row, created, req, removal>>
        BY <2>8, <3>1, <4>1 DEF Raise
      <4>4. con'[c].pc = "idle" /\ \A e \in Consumers : e # c => con'[e] = con[e]
        BY <4>3, Zenon DEF NoCon
      <4>5. RecordStep(r)
        BY <4>3 DEF RecordStep
      <4>6. \E n \in Messages : n.req = r /\ con'[c].pc = "idle" /\ queue' = [queue EXCEPT ![n] = @ + 1]
        BY <4>2, <4>3, <4>4, Zenon
      <4>7. UNCHANGED <<created, req, removal>> /\ row'[r] = row[r]
        BY <4>3, Zenon
      <4>. QED BY <4>4, <4>5, <4>6, <4>7, ConsumerHolder, Zenon
    <3>2. CASE ~ (con[c].msg.count < MaxRetries)
      <4>1. /\ con'[c].pc = "final_read" /\ con'[c].msg = con[c].msg
            /\ \A e \in Consumers : e # c => con'[e] = con[e]
            /\ UNCHANGED <<row, created, queue, req, removal>>
        BY <2>8, <3>2 DEF Raise, Cons
      <4>2. ConsumerFits(c)'
        BY <4>1 DEF ConsumerFits
      <4>. QED BY <2>1, <4>1, <4>2
    <3>. QED BY <3>1, <3>2
  <2>9. CASE FinalRead(c)
    <3>1. /\ con'[c].msg = con[c].msg /\ \A e \in Consumers : e # c => con'[e] = con[e]
          /\ UNCHANGED <<row, created, queue, req, removal>>
      BY <2>9 DEF FinalRead, ConGoto, StartUpdate, Cons
    <3>2. \/ con'[c].pc = "ack"
          \/ /\ con'[c].pc = "find" /\ con'[c].update = "transient"
             /\ ById(r, con[c].msg.id).status \notin {"none"} \cup Terminal
      BY <2>9 DEF FinalRead, ConGoto, StartUpdate, Cons
    <3>3. ConsumerFits(c)'
      BY <3>1, <3>2 DEF ConsumerFits, ById, Terminal, Rows, RowStatuses, Unfinished, NoRow
    <3>. QED BY <2>1, <3>1, <3>3
  <2>10. CASE Ack(c)
    <3>1. /\ con'[c].pc = "idle" /\ \A e \in Consumers : e # c => con'[e] = con[e]
          /\ UNCHANGED <<row, created, queue, req, removal>>
      BY <2>10 DEF Ack, NoCon
    <3>. QED BY <3>1, ConsumerHolder DEF RecordStep
  <2>11. CASE HandlerFails(c)
    BY <2>5, <2>11 DEF HandlerFails
  <2>12. CASE ConsumerDies(c)
    <3>1. /\ con'[c].pc = "idle" /\ \A e \in Consumers : e # c => con'[e] = con[e]
          /\ queue' = [queue EXCEPT ![con[c].msg] = @ + 1] /\ con[c].msg \in Messages
          /\ UNCHANGED <<row, created, req, removal>>
      BY <2>12 DEF ConsumerDies, NoCon
    <3>. QED BY <3>1, ConsumerHolder DEF RecordStep
  <2>13. ~ Redeliver(c)
    BY DEF DeliveredOnce, Redeliver
  <2>. QED BY <1>2, <2>2, <2>3, <2>4, <2>6, <2>7, <2>8, <2>9, <2>10, <2>11, <2>12, <2>13
           DEF ConsumerStep, ConsumerFault
<1>3. CASE con[c].pc = "idle" /\ ~ \E m \in Messages : Receive(c, m)
  BY <1>3 DEF ConsumerStep, ConsumerFault, ReadAnalysis, LoadText, FindRow, SaveRow, CallLLM,
     Raise, FinalRead, Ack, HandlerFails, ConsumerDies, Redeliver
<1>. QED BY <1>1, <1>2, <1>3

LEMMA InitHolder == Init => HolderInv
<1>. SUFFICES ASSUME Init PROVE HolderInv
  OBVIOUS
<1>1. ASSUME NEW r \in Requests
      PROVE  /\ RecordFits(r) /\ RequestFits(r) /\ RemovalFits(r)
             /\ ParentHolds(row[r].parent) /\ ParentHolds(req[r].parent)
  BY DEF Init, RecordFits, RequestFits, RemovalFits, ParentHolds, NoRow, NoReq, NoRemoval
<1>2. ASSUME NEW c \in Consumers PROVE Alone(c) /\ ConsumerFits(c)
  BY DEF Init, Alone, ConsumerFits, NoCon
<1>. QED BY <1>1, <1>2 DEF Init, HolderInv, MessageFits

LEMMA NextHolder ==
  DeliveredOnce /\ Typed /\ RecordInv /\ HolderInv /\ [Next]_vars =>
    HolderInv' /\ (UNCHANGED <<row, created, req>> \/ \E r \in Requests : RecordStep(r) /\ Orderly(r))
<1>. SUFFICES ASSUME DeliveredOnce, Typed, RecordInv, HolderInv, [Next]_vars
              PROVE  /\ HolderInv'
                     /\ UNCHANGED <<row, created, req>> \/ \E r \in Requests : RecordStep(r) /\ Orderly(r)
  OBVIOUS
<1>1. CASE UNCHANGED vars
  BY <1>1 DEF vars, HolderInv, RecordFits, RequestFits, RemovalFits, MessageFits, Alone, ConsumerFits,
              ParentHolds
<1>2. CASE Next
  BY <1>2, RequestKeepsHolder, RemovalKeepsHolder, ConsumerKeepsHolder DEF Next
<1>. QED BY <1>1, <1>2

\* Where no publication or delivery repeats a message, a record is worked on by its
\* request alone and then by one message or one consumer, and what was retried is failed.
THEOREM HolderAlways ==
  ASSUME DeliveredOnce
  PROVE  Spec => []HolderInv
<1>1. Init => Typed /\ RecordInv /\ HolderInv
  BY InitTyped, InitRecords, InitHolder
<1>2. Typed /\ RecordInv /\ HolderInv /\ [Next]_vars => (Typed /\ RecordInv /\ HolderInv)'
  BY NextTyped, NextRecords, NextHolder
<1>. QED BY <1>1, <1>2, PTL DEF Spec

\* What was retried stays a transient failure, for any number of requests, retries and
\* consumers: the retry and the original never both succeed.
THEOREM RetriedHasFailedAlways ==
  ASSUME DeliveredOnce
  PROVE  Spec => []RetriedHasFailed
<1>1. HolderInv => RetriedHasFailed
  BY RequestsAssumption DEF HolderInv, ParentHolds, RetriedHasFailed, Present, Name, NoParent
<1>. QED BY <1>1, HolderAlways, PTL

\* A finished analysis changes only by being removed, for any number of messages,
\* failures and retries of the handler.
THEOREM FinishedIsFinalAlways ==
  ASSUME DeliveredOnce
  PROVE  Spec => FinishedIsFinal
<1>1. Typed /\ RecordInv /\ HolderInv /\ [Next]_vars
        => [\A r \in Requests : row[r].status \in Terminal => row'[r] \in {row[r], NoRow}]_vars
  <2>. SUFFICES ASSUME Typed, RecordInv, HolderInv, [Next]_vars, NEW r \in Requests,
                       row[r].status \in Terminal
                PROVE  row'[r] \in {row[r], NoRow}
    OBVIOUS
  <2>1. CASE UNCHANGED row
    BY <2>1
  <2>2. ASSUME NEW q \in Requests, RecordStep(q), Orderly(q) PROVE row'[r] \in {row[r], NoRow}
    <3>1. req[r].pc = "done" /\ row[r].status \notin Unfinished
      <4>1. RequestFits(r) /\ req[r].pc \in ReqPcs
        BY DEF HolderInv, Typed, TypeOK, Reqs
      <4>. QED BY <4>1 DEF RequestFits, ReqPcs, Terminal, Unfinished
    <3>. QED BY <2>2, <3>1, RecordStepHolds DEF FinalStays
  <2>. QED BY <2>1, <2>2, NextHolder
<1>. QED BY <1>1, TypedAlways, RecordsAlways, HolderAlways, PTL DEF Spec, FinishedIsFinal

\* A removed analysis is not saved back by anyone who found it before.
THEOREM RemovedStaysRemovedAlways ==
  ASSUME DeliveredOnce
  PROVE  Spec => RemovedStaysRemoved
<1>1. Typed /\ RecordInv /\ HolderInv /\ [Next]_vars
        => [\A r \in Requests : ~ Present(r) /\ Present(r)' => created'[r] = created[r] + 1]_vars
  <2>. SUFFICES ASSUME Typed, RecordInv, HolderInv, [Next]_vars, NEW r \in Requests,
                       ~ Present(r), Present(r)'
                PROVE  created'[r] = created[r] + 1
    OBVIOUS
  <2>1. row'[r] # row[r]
    BY DEF Present
  <2>2. PICK q \in Requests : RecordStep(q)
    BY <2>1, NextHolder
  <2>3. q = r
    BY <2>1, <2>2, RecordStepFacts
  <2>4. row[r].status = "none" /\ RecordFits(r)
    BY DEF Present, HolderInv
  <2>5. row'[r] # NoRow
    BY DEF Present, NoRow
  <2>. QED BY <2>1, <2>2, <2>3, <2>4, <2>5, RecordStepFacts DEF Unfinished
<1>. QED BY <1>1, TypedAlways, RecordsAlways, HolderAlways, PTL DEF Spec, RemovedStaysRemoved

-----------------------------------------------------------------------------
(* The refinement of AnalysisResult.                                        *)

LEMMA ResultBecomes ==
  ASSUME NEW n \in Analyses, NEW s, StateOf(n)' = s,
         \A m \in Analyses : m # n => StateOf(m)' = StateOf(m)
  PROVE  Result!Becomes(n, s)
  BY DEF Result!Becomes

LEMMA SameParents ==
  ASSUME \A m \in Analyses : ParentOf(m)' = ParentOf(m)
  PROVE  UNCHANGED [m \in Analyses |-> ParentOf(m)]
  OBVIOUS

LEMMA OneParent ==
  ASSUME NEW n \in Analyses, NEW p, ParentOf(n)' = p,
         \A m \in Analyses : m # n => ParentOf(m)' = ParentOf(m)
  PROVE  [m \in Analyses |-> ParentOf(m)]' = [[m \in Analyses |-> ParentOf(m)] EXCEPT ![n] = p]
  OBVIOUS

\* The analysis of a record.
LEMMA RecordIsAnalysis ==
  ASSUME Typed, RecordInv, HolderInv, NEW r \in Requests, row[r].status # "none"
  PROVE  /\ [req |-> r, id |-> row[r].id] \in Analyses
         /\ row[r].id = created[r] /\ row[r].id \in Nat
         /\ \A m \in Analyses : m.req = r /\ m # [req |-> r, id |-> row[r].id] => m.id # row[r].id
<1>. row[r] \in Rows /\ RecordFacts(r, row[r]) /\ RecordFits(r)
  BY DEF Typed, TypeOK, RecordInv, HolderInv
<1>1. row[r].id \in Ids /\ row[r].id \in Nat /\ 1 <= row[r].id /\ row[r].id = created[r]
  BY IdsAreNaturals DEF Rows, RecordFacts, RecordFits
<1>. QED BY <1>1 DEF Analyses

LEMMA InsertIsRequested ==
  ASSUME Typed, Typed', RecordInv, HolderInv, NEW r \in Requests, NEW p \in Parents, Inserts(r, p),
         req[r].pc # "done"
  PROVE  Result!Next
<1>. /\ row \in [Requests -> Rows] /\ created \in [Requests -> Ids] /\ created' \in [Requests -> Ids]
     /\ created[r] \in Nat /\ \A m \in Analyses : m.req \in Requests /\ m.id \in Nat /\ m.id # 0
     /\ RecordFits(r)
  BY IdsAreNaturals DEF Typed, TypeOK, Analyses, HolderInv
<1>1. /\ row[r] = NoRow
      /\ row' = [row EXCEPT ![r] = [NoRow EXCEPT !.id = created[r] + 1, !.status = "queued", !.parent = p]]
      /\ created' = [created EXCEPT ![r] = created[r] + 1]
  BY DEF Inserts, Insert, RecordFits
<1>2. /\ row'[r].id = created[r] + 1 /\ row'[r].status = "queued" /\ row'[r].parent = p
      /\ created'[r] = created[r] + 1
      /\ \A q \in Requests : q # r => row'[q] = row[q] /\ created'[q] = created[q]
  BY <1>1 DEF NoRow
<1>. PICK n : n = [req |-> r, id |-> created[r] + 1]
  OBVIOUS
<1>3. n \in Analyses /\ n.req = r /\ n.id = created[r] + 1
  BY <1>2 DEF Analyses
<1>4. StateOf(n) = "unborn" /\ StateOf(n)' = "queued"
  BY <1>2, <1>3 DEF StateOf
<1>5. ASSUME NEW m \in Analyses, m # n PROVE StateOf(m)' = StateOf(m) /\ ParentOf(m)' = ParentOf(m)
  <2>1. CASE m.req = r
    <3>1. m.id # created[r] + 1
      BY <1>5, <2>1 DEF Analyses
    <3>2. row[r].id = 0 /\ row[r].status = "none"
      BY <1>1 DEF NoRow
    <3>. QED BY <1>2, <2>1, <3>1, <3>2 DEF StateOf, ParentOf, Present
  <2>2. CASE m.req # r
    BY <1>2, <2>2 DEF StateOf, ParentOf, Present
  <2>. QED BY <2>1, <2>2
<1>6. ParentOf(n) = NoParent /\ ParentOf(n)' = p
  <2>1. row[r].status = "none"
    BY <1>1 DEF NoRow
  <2>. QED BY <1>2, <1>3, <2>1 DEF ParentOf, Present
<1>7. Result!Becomes(n, "queued")
  BY <1>3, <1>4, <1>5, ResultBecomes
<1>8. CASE p = NoParent
  <2>1. UNCHANGED [m \in Analyses |-> ParentOf(m)]
    BY <1>5, <1>6, <1>8, SameParents
  <2>2. Result!Request(n)
    BY <1>3, <1>4, <1>7, <2>1 DEF Result!Request
  <2>. QED BY <1>3, <2>2 DEF Result!Next
<1>9. CASE p # NoParent
  <2>1. ParentHolds(p) /\ Children(p) = {}
    BY <1>9 DEF Inserts, HolderInv
  <2>2. p \in Analyses /\ p.req \in Requests /\ p.id = created[p.req] /\ p # n
    <3>1. p.req \in Requests /\ 1 <= p.id /\ p.id = created[p.req] /\ p.id \in Ids
      BY <1>9, <2>1, IdsAreNaturals DEF ParentHolds, Parents
    <3>2. p \in Analyses
      BY <3>1 DEF Parents, Analyses
    <3>. QED BY <1>3, <3>1, <3>2
  <2>3. StateOf(p) \in {"transient", "removed"}
    <3>1. created[p.req] \in Nat /\ RecordFits(p.req)
      BY <2>2, IdsAreNaturals DEF HolderInv
    <3>2. CASE row[p.req].status = "none"
      <4>1. row[p.req].id = 0 /\ p.id # 0
        BY <2>2, <3>1, <3>2 DEF RecordFits, NoRow, Analyses
      <4>. QED BY <2>2, <3>1, <4>1 DEF StateOf
    <3>3. CASE row[p.req].status # "none"
      BY <1>9, <2>1, <2>2, <3>1, <3>3 DEF ParentHolds, StateOf, RecordFits
    <3>. QED BY <3>2, <3>3
  <2>4. \A m \in Analyses : ParentOf(m) # p
    BY <1>9, <2>1 DEF ParentOf, Children
  <2>5. [m \in Analyses |-> ParentOf(m)]' = [[m \in Analyses |-> ParentOf(m)] EXCEPT ![n] = p]
    BY <1>3, <1>5, <1>6, OneParent
  <2>6. Result!Retry(n, p)
    BY <1>3, <1>4, <1>7, <2>2, <2>3, <2>4, <2>5 DEF Result!Retry
  <2>. QED BY <1>3, <2>2, <2>6 DEF Result!Next
<1>. QED BY <1>8, <1>9

LEMMA SaveIsProgress ==
  ASSUME Typed, RecordInv, HolderInv, NEW r \in Requests, NEW u \in Updates, Saves(r, u)
  PROVE  Result!Next \/ UNCHANGED <<row, created>>
<1>. /\ row \in [Requests -> Rows] /\ row[r] \in Rows /\ row[r].status \in Unfinished
     /\ \A m \in Analyses : m.req \in Requests /\ m.id \in Nat
     /\ created[r] \in Nat
  BY IdsAreNaturals DEF Typed, TypeOK, Analyses, Saves
<1>1. /\ row' = [row EXCEPT ![r] = Apply(u, row[r])] /\ UNCHANGED created
      /\ u = "success" => row[r].status = "analyzing"
  BY DEF Saves
<1>2. /\ row'[r].id = row[r].id /\ row'[r].parent = row[r].parent
      /\ u = "analyzing" => row'[r].status = "analyzing"
      /\ u = "success" => row'[r].status = "success"
      /\ u \in {"transient", "permanent"} => row'[r].status = "failed" /\ row'[r].kind = u
      /\ \A q \in Requests : q # r => row'[q] = row[q]
  BY <1>1 DEF Apply, Rows
<1>. PICK n : n = [req |-> r, id |-> row[r].id]
  OBVIOUS
<1>3. /\ n \in Analyses /\ n.req = r /\ n.id = row[r].id /\ row[r].id = created[r]
      /\ \A m \in Analyses : m.req = r /\ m # n => m.id # row[r].id
  BY RecordIsAnalysis DEF Unfinished
<1>4. StateOf(n) = row[r].status
  BY <1>3 DEF StateOf, Unfinished
<1>5. StateOf(n)' = IF u = "analyzing" THEN "analyzing" ELSE u
  <2>1. StateOf(n)' = IF row'[r].status = "failed" THEN row'[r].kind ELSE row'[r].status
    BY <1>1, <1>2, <1>3 DEF StateOf
  <2>. QED BY <1>2, <2>1 DEF Updates
<1>6. ASSUME NEW m \in Analyses PROVE /\ m # n => StateOf(m)' = StateOf(m)
                                      /\ ParentOf(m)' = ParentOf(m)
  <2>1. CASE m.req = r
    <3>1. row'[r].status # "none" /\ row[r].status # "none"
      BY <1>2 DEF Unfinished, Updates
    <3>. QED BY <1>1, <1>2, <1>3, <2>1, <3>1 DEF StateOf, ParentOf, Present
  <2>2. CASE m.req # r
    BY <1>1, <1>2, <1>3, <2>2 DEF StateOf, ParentOf, Present
  <2>. QED BY <2>1, <2>2
<1>7. UNCHANGED [m \in Analyses |-> ParentOf(m)]
  BY <1>6, SameParents
<1>8. Result!Becomes(n, u)
  <2>1. StateOf(n)' = u
    BY <1>5
  <2>. QED BY <1>3, <1>6, <2>1, ResultBecomes
<1>9. CASE u = "analyzing"
  <2>1. CASE row[r].status = "queued"
    BY <1>3, <1>4, <1>7, <1>8, <1>9, <2>1 DEF Result!Next, Result!Start
  <2>2. CASE row[r].status = "analyzing"
    <3>1. Apply("analyzing", row[r]) = row[r]
      <4>1. Apply("analyzing", row[r]) = [row[r] EXCEPT !.status = "analyzing"]
        BY DEF Apply
      <4>. QED BY <2>2, <4>1 DEF Rows
    <3>. QED BY <1>1, <1>9, <3>1
  <2>. QED BY <2>1, <2>2 DEF Unfinished
<1>10. CASE u = "success"
  BY <1>1, <1>3, <1>4, <1>7, <1>8, <1>10 DEF Result!Next, Result!Succeed
<1>11. CASE u \in {"transient", "permanent"}
  BY <1>3, <1>4, <1>7, <1>8, <1>11 DEF Result!Next, Result!Fail, Unfinished
<1>. QED BY <1>9, <1>10, <1>11 DEF Updates

LEMMA RemovalIsRemoval ==
  ASSUME Typed, RecordInv, HolderInv, NEW r \in Requests, Removes(r)
  PROVE  Result!Next \/ UNCHANGED <<row, created>>
<1>. /\ row \in [Requests -> Rows] /\ row[r] \in Rows /\ row[r].status \notin Unfinished
     /\ \A m \in Analyses : m.req \in Requests /\ m.id \in Nat /\ m.id # 0
     /\ RecordFits(r) /\ created[r] \in Nat
  BY IdsAreNaturals DEF Typed, TypeOK, Analyses, HolderInv, Removes
<1>1. row' = [row EXCEPT ![r] = NoRow] /\ UNCHANGED created
  BY DEF Removes
<1>2. CASE row[r].status = "none"
  BY <1>1, <1>2 DEF RecordFits
<1>3. CASE row[r].status # "none"
  <2>. PICK n : n = [req |-> r, id |-> row[r].id]
    OBVIOUS
  <2>1. /\ n \in Analyses /\ n.req = r /\ n.id = row[r].id /\ row[r].id = created[r]
        /\ \A m \in Analyses : m.req = r /\ m # n => m.id # row[r].id
    BY <1>3, RecordIsAnalysis
  <2>2. StateOf(n) \in {"success", "transient", "permanent"}
    <3>1. row[r].status \in Terminal
      BY <1>3 DEF Rows, RowStatuses, Unfinished
    <3>. QED BY <2>1, <3>1 DEF StateOf, Terminal, RecordFits
  <2>3. /\ row'[r].id = 0 /\ row'[r].status = "none"
        /\ \A q \in Requests : q # r => row'[q] = row[q]
    BY <1>1 DEF NoRow
  <2>4. StateOf(n)' = "removed" /\ ParentOf(n)' = NoParent
    BY <1>1, <2>1, <2>3 DEF StateOf, ParentOf, Present
  <2>5. ASSUME NEW m \in Analyses, m # n PROVE StateOf(m)' = StateOf(m) /\ ParentOf(m)' = ParentOf(m)
    <3>1. CASE m.req = r
      BY <1>1, <2>1, <2>3, <2>5, <3>1 DEF StateOf, ParentOf, Present
    <3>2. CASE m.req # r
      BY <1>1, <2>3, <3>2 DEF StateOf, ParentOf, Present
    <3>. QED BY <3>1, <3>2
  <2>6. Result!Becomes(n, "removed")
    BY <2>1, <2>4, <2>5, ResultBecomes
  <2>7. [m \in Analyses |-> ParentOf(m)]' = [[m \in Analyses |-> ParentOf(m)] EXCEPT ![n] = NoParent]
    BY <2>1, <2>4, <2>5, OneParent
  <2>8. Result!Remove(n)
    BY <2>1, <2>2, <2>6, <2>7 DEF Result!Remove, Result!Finished
  <2>. QED BY <2>1, <2>8 DEF Result!Next
<1>. QED BY <1>2, <1>3

LEMMA InitResult == Init => Result!Init
<1>. SUFFICES ASSUME Init PROVE Result!Init
  OBVIOUS
<1>1. ASSUME NEW n \in Analyses PROVE StateOf(n) = "unborn" /\ ParentOf(n) = NoParent
  <2>1. n.req \in Requests /\ n.id \in Nat /\ n.id # 0
    BY IdsAreNaturals DEF Analyses
  <2>2. created[n.req] = 0 /\ row[n.req].status = "none"
    BY <2>1 DEF Init, NoRow
  <2>. QED BY <2>1, <2>2 DEF StateOf, ParentOf, Present
<1>. QED BY <1>1 DEF Result!Init

LEMMA NextResult ==
  ASSUME DeliveredOnce, Typed, RecordInv, HolderInv, [Next]_vars
  PROVE  [Result!Next]_(Result!vars)
<1>1. CASE UNCHANGED <<row, created>>
  <2>1. \A m \in Analyses : StateOf(m)' = StateOf(m) /\ ParentOf(m)' = ParentOf(m)
    BY <1>1 DEF StateOf, ParentOf, Present
  <2>. QED BY <2>1 DEF Result!vars
<1>2. ASSUME NEW r \in Requests, RecordStep(r), Orderly(r)
      PROVE  Result!Next \/ UNCHANGED <<row, created>>
  <2>1. ASSUME NEW p \in Parents, Inserts(r, p) PROVE Result!Next
    <3>1. created' # created
      <4>1. created \in [Requests -> Ids] /\ created[r] \in Nat
        BY IdsAreNaturals DEF Typed, TypeOK
      <4>. QED BY <2>1, <4>1 DEF Inserts, Insert
    <3>2. Typed' /\ req[r].pc # "done"
      BY <1>2, <3>1, NextTyped DEF Orderly
    <3>. QED BY <2>1, <3>2, InsertIsRequested
  <2>. QED BY <1>2, <2>1, SaveIsProgress, RemovalIsRemoval DEF RecordStep
<1>. QED BY <1>1, <1>2, NextHolder

\* An analysis is assigned once and never revived, for every number of requests,
\* consumers, attempts and retries: AnalysisLifecycle implements AnalysisResult.
THEOREM AssignedOnceAlways ==
  ASSUME DeliveredOnce
  PROVE  Spec => AssignedOnce
<1>1. Typed /\ RecordInv /\ HolderInv /\ [Next]_vars => [Result!Next]_(Result!vars)
  BY NextResult
<1>. QED BY <1>1, InitResult, TypedAlways, RecordsAlways, HolderAlways, PTL
     DEF Spec, AssignedOnce, Result!Spec
=============================================================================

----------------------- MODULE AnalysisLifecycleProofs -----------------------
(***************************************************************************)
(* What holds of AnalysisLifecycle for every value of its constants and    *)
(* under every fault of delivery: at most one retry of an analysis, no     *)
(* success with a failure kind, and no analysis that is left unfinished.   *)
(*                                                                         *)
(* RecordInv is about the records and the copies of them that wait to be   *)
(* saved back; TendedInv names who will still finish an unfinished record. *)
(***************************************************************************)
EXTENDS AnalysisLifecycleResult, TLAPS

\* A request inserts at most one record per attempt to dispatch.
Inserted(r) ==
  /\ req[r].pc \in {"absent", "check_child", "insert"} => created[r] = 0
  /\ req[r].pc = "get_or_create" => created[r] <= req[r].attempt
  /\ created[r] <= req[r].attempt + 1

\* An execution that is not idle has a message.
Holding == \A c \in Consumers : con[c].pc # "idle" => con[c].msg \in Messages

\* TypeOK alone is not inductive: the ids are bounded by the attempts of the task, and a
\* retry increments the count of a message the consumer must have.
Typed == TypeOK /\ Holding /\ \A r \in Requests : Inserted(r)

-----------------------------------------------------------------------------
(* Records.                                                                 *)

LEMMA IdsAreNaturals == Ids \subseteq Nat /\ 0 \in Ids /\ NoParent \in Parents
  BY CountsAssumption DEF Ids, Parents, NoParent

LEMMA NoRowTyped == NoRow \in Rows
  BY IdsAreNaturals DEF NoRow, Rows, RowStatuses, Terminal, Kinds

LEMMA NewRowTyped ==
  ASSUME NEW i \in Ids, NEW p \in Parents
  PROVE  [NoRow EXCEPT !.id = i, !.status = "queued", !.parent = p] \in Rows
  BY DEF NoRow, Rows, RowStatuses, Terminal, Kinds

LEMMA ApplyTyped ==
  ASSUME NEW x \in Rows, NEW update \in Updates
  PROVE  Apply(update, x) \in Rows
  BY DEF Apply, Rows, Updates, RowStatuses, Terminal, Kinds

LEMMA NameTyped ==
  ASSUME TypeOK, NEW r \in Requests
  PROVE  Name(r, row[r].id) \in Parents
  BY DEF TypeOK, Name, Parents, Rows

LEMMA CountedTyped ==
  ASSUME NEW m \in Messages, m.count < MaxRetries
  PROVE  [m EXCEPT !.count = @ + 1] \in Messages
  BY CountsAssumption DEF Messages

LEMMA NoConTyped == NoCon \in Cons
  BY NoRowTyped DEF NoCon, Cons, ConPcs, Updates

-----------------------------------------------------------------------------
(* The steps of the requests keep the types.                                *)

LEMMA InsertTyped ==
  ASSUME Typed, NEW r \in Requests, NEW p \in Parents, Insert(r, p), created[r] <= MaxAttempts
  PROVE  /\ row' \in [Requests -> Rows] /\ created' \in [Requests -> Ids]
         /\ created'[r] = created[r] + 1
         /\ \A q \in Requests : q # r => created'[q] = created[q] /\ row'[q] = row[q]
<1>1. created \in [Requests -> Ids] /\ created[r] + 1 \in Ids
  BY CountsAssumption DEF Typed, TypeOK, Ids
<1>2. [NoRow EXCEPT !.id = created[r] + 1, !.status = "queued", !.parent = p] \in Rows
  BY <1>1, NewRowTyped
<1>. QED BY <1>1, <1>2 DEF Insert, Typed, TypeOK

LEMMA ReqTyped ==
  ASSUME Typed, NEW r \in Requests, NEW x \in Reqs, req' = [req EXCEPT ![r] = x],
         row' \in [Requests -> Rows], created' \in [Requests -> Ids], queue' \in [Messages -> Nat],
         UNCHANGED <<removal, con, removals>>, faults' \in Nat, abandoned' \in SUBSET Requests,
         \A q \in Requests : q # r => created'[q] = created[q], Inserted(r)'
  PROVE  Typed'
<1>1. TypeOK'
  BY DEF Typed, TypeOK
<1>2. Holding'
  BY DEF Typed, Holding
<1>3. ASSUME NEW q \in Requests PROVE Inserted(q)'
  <2>1. CASE q # r
    BY <2>1 DEF Typed, TypeOK, Inserted
  <2>. QED BY <2>1
<1>. QED BY <1>1, <1>2, <1>3 DEF Typed

LEMMA ReqWith ==
  ASSUME NEW x \in Reqs, NEW pc \in ReqPcs
  PROVE  /\ [x EXCEPT !.pc = pc] \in Reqs
         /\ [x EXCEPT !.pc = pc, !.kind = "task"] \in Reqs
         /\ \A a \in 0..MaxAttempts : [x EXCEPT !.pc = pc, !.attempt = a] \in Reqs
         /\ \A p \in Parents : [x EXCEPT !.pc = pc, !.parent = p] \in Reqs
         /\ \A d \in Rows : [x EXCEPT !.pc = pc, !.draft = d] \in Reqs
  BY Zenon DEF Reqs

LEMMA RequestTyped ==
  ASSUME Typed, NEW r \in Requests, Arrives(r) \/ RequestStep(r) \/ RequestFails(r)
  PROVE  Typed'
<1>. /\ req \in [Requests -> Reqs] /\ req[r] \in Reqs
     /\ row \in [Requests -> Rows] /\ row[r] \in Rows /\ created \in [Requests -> Ids]
     /\ created[r] \in Nat /\ queue \in [Messages -> Nat] /\ faults \in Nat
     /\ abandoned \in SUBSET Requests
     /\ Inserted(r)
  BY IdsAreNaturals DEF Typed, TypeOK
<1>0. req[r].attempt \in 0..MaxAttempts /\ req[r].parent \in Parents /\ req[r].draft \in Rows
  BY DEF Reqs
<1>. USE <1>0, CountsAssumption DEF ReqAt
<1>1. CASE TaskDispatches(r)
  <2>1. req' = [req EXCEPT ![r] = [req[r] EXCEPT !.pc = "get_or_create", !.kind = "task"]]
    BY <1>1 DEF TaskDispatches
  <2>2. [req[r] EXCEPT !.pc = "get_or_create", !.kind = "task"] \in Reqs
    BY ReqWith DEF ReqPcs
  <2>3. Inserted(r)'
    BY <1>1, <2>1 DEF TaskDispatches, Inserted, Reqs
  <2>. QED BY <1>1, <2>1, <2>2, <2>3, ReqTyped DEF TaskDispatches
<1>2. CASE Create(r)
  <2>1. req' = [req EXCEPT ![r] = [req[r] EXCEPT !.pc = "publish"]]
    BY <1>2 DEF Create, ReqGoto
  <2>2. [req[r] EXCEPT !.pc = "publish"] \in Reqs
    BY ReqWith DEF ReqPcs
  <2>3. /\ row' \in [Requests -> Rows] /\ created' \in [Requests -> Ids]
        /\ created'[r] = created[r] + 1
        /\ \A q \in Requests : q # r => created'[q] = created[q]
    BY <1>2, InsertTyped, IdsAreNaturals DEF Create, Inserted
  <2>4. Inserted(r)'
    <3>1. req'[r].pc \in {"publish", "done"} /\ req'[r].attempt = req[r].attempt
      BY <2>1 DEF Reqs
    <3>2. created[r] <= req[r].attempt
      BY <1>2 DEF Create, Inserted
    <3>. QED BY <2>3, <3>1, <3>2 DEF Inserted
  <2>. QED BY <1>2, <2>1, <2>2, <2>3, <2>4, ReqTyped DEF Create
<1>3. CASE \E p \in Requests : RetryRead(r, p)
  <2>. PICK p \in Requests : RetryRead(r, p)
    BY <1>3
  <2>1. req' = [req EXCEPT ![r] = [req[r] EXCEPT !.pc = "check_child", !.parent = Name(p, row[p].id)]]
    BY DEF RetryRead
  <2>2. [req[r] EXCEPT !.pc = "check_child", !.parent = Name(p, row[p].id)] \in Reqs
    BY ReqWith, NameTyped DEF ReqPcs, Typed
  <2>3. Inserted(r)'
    BY <2>1 DEF RetryRead, Inserted, Reqs
  <2>. QED BY <2>1, <2>2, <2>3, ReqTyped DEF RetryRead
<1>4. CASE GetOrCreate(r)
  <2>1. req' = [req EXCEPT ![r] = [req[r] EXCEPT !.pc = "publish"]]
    BY <1>4 DEF GetOrCreate, ReqGoto
  <2>2. [req[r] EXCEPT !.pc = "publish"] \in Reqs
    BY ReqWith DEF ReqPcs
  <2>3. /\ row' \in [Requests -> Rows] /\ created' \in [Requests -> Ids]
        /\ created'[r] \in {created[r], created[r] + 1}
        /\ \A q \in Requests : q # r => created'[q] = created[q]
    BY <1>4, InsertTyped, IdsAreNaturals DEF GetOrCreate, Inserted
  <2>4. Inserted(r)'
    <3>1. req'[r].pc \in {"publish", "done"} /\ req'[r].attempt = req[r].attempt
      BY <2>1 DEF Reqs
    <3>2. created[r] <= req[r].attempt
      BY <1>4 DEF GetOrCreate, Inserted
    <3>. QED BY <2>3, <3>1, <3>2 DEF Inserted
  <2>. QED BY <1>4, <2>1, <2>2, <2>3, <2>4, ReqTyped DEF GetOrCreate
<1>5. CASE RetryCheckChild(r)
  <2>1. PICK pc \in {"done", "insert"} : req' = [req EXCEPT ![r] = [req[r] EXCEPT !.pc = pc]]
    BY <1>5 DEF RetryCheckChild, ReqGoto
  <2>2. [req[r] EXCEPT !.pc = pc] \in Reqs
    BY ReqWith DEF ReqPcs
  <2>3. Inserted(r)'
    BY <1>5, <2>1 DEF RetryCheckChild, Inserted, Reqs
  <2>. QED BY <1>5, <2>1, <2>2, <2>3, ReqTyped DEF RetryCheckChild
<1>6. CASE RetryInsert(r)
  <2>1. PICK pc \in {"done", "publish"} : req' = [req EXCEPT ![r] = [req[r] EXCEPT !.pc = pc]]
    BY <1>6 DEF RetryInsert, ReqGoto
  <2>2. [req[r] EXCEPT !.pc = pc] \in Reqs
    BY ReqWith DEF ReqPcs
  <2>3. /\ row' \in [Requests -> Rows] /\ created' \in [Requests -> Ids]
        /\ created'[r] \in {created[r], created[r] + 1}
        /\ \A q \in Requests : q # r => created'[q] = created[q]
    BY <1>6, InsertTyped, IdsAreNaturals DEF RetryInsert, Inserted
  <2>4. Inserted(r)'
    <3>1. req'[r].pc \in {"publish", "done"} /\ req'[r].attempt = req[r].attempt
      BY <2>1 DEF Reqs
    <3>2. created[r] <= req[r].attempt
      BY <1>6 DEF RetryInsert, Inserted
    <3>. QED BY <2>3, <3>1, <3>2 DEF Inserted
  <2>. QED BY <1>6, <2>1, <2>2, <2>3, <2>4, ReqTyped DEF RetryInsert
<1>7. CASE PublishRequested(r)
  <2>1. PICK o \in Outcomes :
          /\ IF o = "ok" THEN UNCHANGED faults ELSE Fault
          /\ queue' = [queue EXCEPT ![[req |-> r, id |-> created[r], count |-> 0]] = @ + Copies(o)]
          /\ ReqGoto(r, IF ~ Raises(o) THEN "done"
                        ELSE IF req[r].kind = "task" THEN "raise" ELSE "mark")
    BY <1>7 DEF PublishRequested
  <2>2. PICK pc \in {"done", "raise", "mark"} : req' = [req EXCEPT ![r] = [req[r] EXCEPT !.pc = pc]]
    BY <2>1 DEF ReqGoto
  <2>3. [req[r] EXCEPT !.pc = pc] \in Reqs
    BY ReqWith DEF ReqPcs
  <2>4. queue' \in [Messages -> Nat]
    <3>. DEFINE m == [req |-> r, id |-> created[r], count |-> 0]
    <3>1. m \in Messages /\ Copies(o) \in Nat
      BY DEF Messages, Copies
    <3>. QED BY <2>1, <3>1
  <2>5. faults' \in Nat
    BY <2>1 DEF Fault
  <2>6. Inserted(r)'
    BY <1>7, <2>2 DEF PublishRequested, Inserted, Reqs
  <2>. QED BY <1>7, <2>2, <2>3, <2>4, <2>5, <2>6, ReqTyped DEF PublishRequested
<1>8. CASE TaskRetries(r)
  <2>1. req' = [req EXCEPT ![r] = [req[r] EXCEPT !.pc = "get_or_create", !.attempt = req[r].attempt + 1]]
    BY <1>8 DEF TaskRetries
  <2>2. [req[r] EXCEPT !.pc = "get_or_create", !.attempt = req[r].attempt + 1] \in Reqs
    <3>1. req[r].attempt + 1 \in 0..MaxAttempts /\ "get_or_create" \in ReqPcs
      BY <1>8 DEF TaskRetries, ReqPcs
    <3>. QED BY <3>1, ReqWith
  <2>3. Inserted(r)'
    BY <1>8, <2>1 DEF TaskRetries, Inserted, Reqs
  <2>. QED BY <1>8, <2>1, <2>2, <2>3, ReqTyped DEF TaskRetries
<1>8a. CASE TaskGivesUp(r)
  <2>1. req' = [req EXCEPT ![r] = [req[r] EXCEPT !.pc = "given_up"]]
    BY <1>8a DEF TaskGivesUp, ReqGoto
  <2>2. [req[r] EXCEPT !.pc = "given_up"] \in Reqs
    BY ReqWith DEF ReqPcs
  <2>3. Inserted(r)'
    BY <1>8a, <2>1 DEF TaskGivesUp, Inserted, Reqs
  <2>. QED BY <1>8a, <2>1, <2>2, <2>3, ReqTyped DEF TaskGivesUp
<1>9. CASE Mark(r)
  <2>1. PICK pc \in {"mark_find", "done"} : req' = [req EXCEPT ![r] = [req[r] EXCEPT !.pc = pc]]
    BY <1>9 DEF Mark, ReqGoto
  <2>2. [req[r] EXCEPT !.pc = pc] \in Reqs
    BY ReqWith DEF ReqPcs
  <2>3. Inserted(r)'
    BY <1>9, <2>1 DEF Mark, Inserted, Reqs
  <2>. QED BY <1>9, <2>1, <2>2, <2>3, ReqTyped DEF Mark
<1>10. CASE MarkFind(r)
  <2>1. PICK d \in Rows, pc \in {"mark_save", "done"} :
          req' = [req EXCEPT ![r] = [req[r] EXCEPT !.pc = pc, !.draft = d]]
    <3>1. CASE Present(r)
      <4>1. Apply("transient", row[r]) \in Rows
        BY ApplyTyped DEF Updates
      <4>. QED BY <1>10, <3>1, <4>1 DEF MarkFind
    <3>2. CASE ~ Present(r)
      <4>1. [req[r] EXCEPT !.pc = "done"] = [req[r] EXCEPT !.pc = "done", !.draft = req[r].draft]
        BY DEF Reqs
      <4>. QED BY <1>10, <3>2, <4>1 DEF MarkFind, ReqGoto
    <3>. QED BY <3>1, <3>2
  <2>2. [req[r] EXCEPT !.pc = pc, !.draft = d] \in Reqs
    BY ReqWith DEF ReqPcs
  <2>3. Inserted(r)'
    BY <1>10, <2>1 DEF MarkFind, Inserted, Reqs
  <2>. QED BY <1>10, <2>1, <2>2, <2>3, ReqTyped DEF MarkFind
<1>11. CASE MarkSave(r)
  <2>1. req' = [req EXCEPT ![r] = [req[r] EXCEPT !.pc = "done", !.draft = NoRow]]
    BY <1>11 DEF MarkSave
  <2>2. [req[r] EXCEPT !.pc = "done", !.draft = NoRow] \in Reqs
    BY ReqWith, NoRowTyped DEF ReqPcs
  <2>3. row' \in [Requests -> Rows] /\ abandoned' \in SUBSET Requests
    BY <1>11 DEF MarkSave, Abandon
  <2>4. Inserted(r)'
    BY <1>11, <2>1 DEF MarkSave, Inserted, Reqs
  <2>. QED BY <1>11, <2>1, <2>2, <2>3, <2>4, ReqTyped DEF MarkSave
<1>12. CASE RequestFails(r)
  <2>1. PICK d \in Rows, pc \in {"raise", "done"} :
          req' = [req EXCEPT ![r] = [req[r] EXCEPT !.pc = pc, !.draft = d]]
    <3>1. CASE req[r].pc = "get_or_create"
      <4>1. [req[r] EXCEPT !.pc = "raise"] = [req[r] EXCEPT !.pc = "raise", !.draft = req[r].draft]
        BY DEF Reqs
      <4>. QED BY <1>12, <3>1, <4>1 DEF RequestFails, ReqGoto
    <3>2. CASE req[r].pc # "get_or_create"
      BY <1>12, <3>2, NoRowTyped DEF RequestFails
    <3>. QED BY <3>1, <3>2
  <2>2. [req[r] EXCEPT !.pc = pc, !.draft = d] \in Reqs
    BY ReqWith DEF ReqPcs
  <2>3. Inserted(r)'
    BY <1>12, <2>1 DEF RequestFails, Inserted, Reqs
  <2>4. faults' \in Nat /\ abandoned' \in SUBSET Requests
    BY <1>12 DEF RequestFails, Fault, Abandon
  <2>. QED BY <1>12, <2>1, <2>2, <2>3, <2>4, ReqTyped DEF RequestFails
<1>. QED BY <1>1, <1>2, <1>3, <1>4, <1>5, <1>6, <1>7, <1>8, <1>8a, <1>9, <1>10, <1>11, <1>12
     DEF Arrives, RequestStep

-----------------------------------------------------------------------------
(* The steps of removals and consumers keep the types.                      *)

LEMMA RemovalTyped ==
  ASSUME Typed, NEW r \in Requests, RemovalStep(r)
  PROVE  Typed'
<1>. /\ removal \in [Requests -> Removals] /\ removal[r] \in Removals
     /\ row \in [Requests -> Rows] /\ row[r] \in Rows
  BY DEF Typed, TypeOK
<1>1. NoRemoval \in Removals
  BY IdsAreNaturals DEF NoRemoval, Removals
<1>2. /\ removal' \in [Requests -> Removals] /\ row' \in [Requests -> Rows] /\ removals' \in Nat
      /\ UNCHANGED <<created, queue, req, con, faults, abandoned>>
  <2>1. CASE RemoveRead(r)
    <3>1. [pc |-> "check_child", id |-> row[r].id] \in Removals
      BY DEF Removals, Rows
    <3>. QED BY <2>1, <3>1 DEF RemoveRead, Typed, TypeOK
  <2>2. CASE RemoveCheckChild(r)
    <3>1. [removal[r] EXCEPT !.pc = "delete"] \in Removals
      BY DEF Removals
    <3>. QED BY <1>1, <2>2, <3>1 DEF RemoveCheckChild, Typed, TypeOK
  <2>3. CASE RemoveDelete(r)
    BY <1>1, <2>3, NoRowTyped DEF RemoveDelete, Typed, TypeOK
  <2>. QED BY <2>1, <2>2, <2>3 DEF RemovalStep
<1>. QED BY <1>2 DEF Typed, TypeOK, Holding, Inserted

LEMMA ConTyped ==
  ASSUME Typed, NEW c \in Consumers, NEW x \in Cons, x.pc # "idle" => x.msg \in Messages,
         con' = [con EXCEPT ![c] = x], row' \in [Requests -> Rows], queue' \in [Messages -> Nat],
         UNCHANGED <<created, req, removal, removals>>, faults' \in Nat,
         abandoned' \in SUBSET Requests
  PROVE  Typed'
<1>1. TypeOK'
  BY DEF Typed, TypeOK
<1>2. Holding'
  BY DEF Typed, TypeOK, Holding
<1>3. \A q \in Requests : Inserted(q)'
  BY DEF Typed, Inserted
<1>. QED BY <1>1, <1>2, <1>3 DEF Typed

LEMMA ConWith ==
  ASSUME NEW x \in Cons, NEW pc \in ConPcs
  PROVE  /\ [x EXCEPT !.pc = pc] \in Cons
         /\ \A u \in Updates : [x EXCEPT !.pc = pc, !.update = u] \in Cons
         /\ \A d \in Rows : [x EXCEPT !.pc = pc, !.draft = d] \in Cons
         /\ \A m \in Messages : [x EXCEPT !.pc = pc, !.msg = m] \in Cons
         /\ [x EXCEPT !.pc = pc, !.final = TRUE] \in Cons
  BY Zenon DEF Cons

LEMMA FailsTyped ==
  ASSUME Typed, NEW c \in Consumers, con[c].pc # "idle", Fails(c), row' \in [Requests -> Rows],
         UNCHANGED <<created, queue, req, removal, removals>>, faults' \in Nat
  PROVE  Typed'
<1>. /\ con \in [Consumers -> Cons] /\ con[c] \in Cons /\ con[c].msg \in Messages
     /\ queue \in [Messages -> Nat]
  BY DEF Typed, TypeOK, Holding
<1>1. PICK pc \in {"ack", "raise"} : con' = [con EXCEPT ![c] = [con[c] EXCEPT !.pc = pc, !.draft = NoRow]]
  BY DEF Fails
<1>2. [con[c] EXCEPT !.pc = pc, !.draft = NoRow] \in Cons
  BY ConWith, NoRowTyped DEF ConPcs
<1>3. abandoned' \in SUBSET Requests
  BY DEF Fails, Abandon, Msg, Messages, Typed, TypeOK
<1>4. [con[c] EXCEPT !.pc = pc, !.draft = NoRow].msg \in Messages
  BY DEF Cons
<1>. QED BY <1>1, <1>2, <1>3, <1>4, ConTyped

LEMMA ConsumerTyped ==
  ASSUME Typed, NEW c \in Consumers,
         ConsumerStep(c) \/ ConsumerFault(c) \/ \E m \in Messages : Receive(c, m)
  PROVE  Typed'
<1>. /\ con \in [Consumers -> Cons] /\ con[c] \in Cons
     /\ con[c].pc # "idle" => con[c].msg \in Messages
     /\ row \in [Requests -> Rows] /\ queue \in [Messages -> Nat] /\ faults \in Nat
     /\ abandoned \in SUBSET Requests
     /\ con[c].update \in Updates /\ con[c].draft \in Rows
  BY DEF Typed, TypeOK, Holding, Cons
<1>. /\ NoCon \in Cons /\ NoCon.pc = "idle"
  BY NoConTyped DEF NoCon
<1>0. ASSUME NEW pc \in ConPcs, pc # "idle", con[c].pc # "idle", NEW u \in Updates, NEW d \in Rows,
             UNCHANGED <<row, created, queue, req, removal, faults, removals, abandoned>>,
             \/ con' = [con EXCEPT ![c] = [con[c] EXCEPT !.pc = pc]]
             \/ con' = [con EXCEPT ![c] = [con[c] EXCEPT !.pc = pc, !.update = u]]
             \/ con' = [con EXCEPT ![c] = [con[c] EXCEPT !.pc = pc, !.draft = d]]
             \/ con' = [con EXCEPT ![c] = [con[c] EXCEPT !.pc = pc, !.final = TRUE]]
      PROVE  Typed'
  <2>1. PICK x : /\ con' = [con EXCEPT ![c] = x]
                 /\ \/ x = [con[c] EXCEPT !.pc = pc]
                    \/ x = [con[c] EXCEPT !.pc = pc, !.update = u]
                    \/ x = [con[c] EXCEPT !.pc = pc, !.draft = d]
                    \/ x = [con[c] EXCEPT !.pc = pc, !.final = TRUE]
    BY <1>0
  <2>2. x \in Cons
    <3>1. /\ [con[c] EXCEPT !.pc = pc] \in Cons
          /\ [con[c] EXCEPT !.pc = pc, !.update = u] \in Cons
          /\ [con[c] EXCEPT !.pc = pc, !.draft = d] \in Cons
          /\ [con[c] EXCEPT !.pc = pc, !.final = TRUE] \in Cons
      BY <1>0, ConWith
    <3>. QED BY <2>1, <3>1
  <2>3. x.msg = con[c].msg
    BY <2>1 DEF Cons
  <2>. QED BY <1>0, <2>1, <2>2, <2>3, ConTyped
<1>. USE DEF At, Msg
<1>1. CASE \E m \in Messages : Receive(c, m)
  <2>. PICK m \in Messages : Receive(c, m)
    BY <1>1
  <2>1. con' = [con EXCEPT ![c] = [con[c] EXCEPT !.pc = "read", !.msg = m]]
    BY DEF Receive
  <2>2. [con[c] EXCEPT !.pc = "read", !.msg = m] \in Cons
    BY ConWith DEF ConPcs
  <2>3. [con[c] EXCEPT !.pc = "read", !.msg = m].msg = m
    BY DEF Cons
  <2>4. queue' \in [Messages -> Nat]
    <3>1. queue[m] \in Nat /\ queue[m] > 0 /\ queue' = [queue EXCEPT ![m] = queue[m] - 1]
      BY DEF Receive
    <3>. QED BY <3>1
  <2>5. /\ UNCHANGED <<created, req, removal, removals, faults, abandoned>>
        /\ row' \in [Requests -> Rows]
    BY DEF Receive
  <2>. QED BY <2>1, <2>2, <2>3, <2>4, <2>5, ConTyped
<1>2. CASE ReadAnalysis(c)
  <2>1. PICK pc \in {"ack", "load"} : con' = [con EXCEPT ![c] = [con[c] EXCEPT !.pc = pc]]
    BY <1>2 DEF ReadAnalysis, ConGoto, AfterRead
  <2>2. pc \in ConPcs /\ pc # "idle"
    BY DEF ConPcs
  <2>. QED BY <1>0, <1>2, <2>1, <2>2 DEF ReadAnalysis
<1>3. CASE LoadText(c)
  <2>1. PICK u \in Updates : con' = [con EXCEPT ![c] = [con[c] EXCEPT !.pc = "find", !.update = u]]
    BY <1>3 DEF LoadText, StartUpdate, Updates
  <2>2. "find" \in ConPcs
    BY DEF ConPcs
  <2>. QED BY <1>0, <1>3, <2>1, <2>2 DEF LoadText
<1>4. CASE FindRow(c)
  <2>1. CASE Present(con[c].msg.req)
    <3>1. con' = [con EXCEPT ![c] = [con[c] EXCEPT !.pc = "save",
                                                 !.draft = Apply(con[c].update, row[con[c].msg.req])]]
      BY <1>4, <2>1 DEF FindRow
    <3>2. con[c].msg.req \in Requests
      BY <1>4 DEF FindRow, Messages
    <3>3. Apply(con[c].update, row[con[c].msg.req]) \in Rows /\ "save" \in ConPcs
      BY <3>2, ApplyTyped DEF ConPcs
    <3>. QED BY <1>0, <1>4, <3>1, <3>3 DEF FindRow
  <2>2. CASE ~ Present(con[c].msg.req)
    <3>1. PICK pc \in {"ack", "llm"} : con' = [con EXCEPT ![c] = [con[c] EXCEPT !.pc = pc]]
      BY <1>4, <2>2 DEF FindRow, ConGoto, AfterUpdate
    <3>2. pc \in ConPcs /\ pc # "idle"
      BY DEF ConPcs
    <3>. QED BY <1>0, <1>4, <3>1, <3>2 DEF FindRow
  <2>. QED BY <2>1, <2>2
<1>5. CASE SaveRow(c)
  <2>1. row' \in [Requests -> Rows]
    BY <1>5 DEF SaveRow
  <2>2. CASE Fails(c)
    BY <1>5, <2>1, <2>2, FailsTyped DEF SaveRow
  <2>3. CASE ~ Fails(c)
    <3>1. PICK pc \in {"ack", "llm"} :
            con' = [con EXCEPT ![c] = [con[c] EXCEPT !.pc = pc, !.draft = NoRow]]
      BY <1>5, <2>3 DEF SaveRow, AfterUpdate
    <3>2. [con[c] EXCEPT !.pc = pc, !.draft = NoRow] \in Cons
      BY ConWith, NoRowTyped DEF ConPcs
    <3>3. [con[c] EXCEPT !.pc = pc, !.draft = NoRow].msg = con[c].msg
      BY DEF Cons
    <3>. QED BY <1>5, <2>1, <2>3, <3>1, <3>2, <3>3, ConTyped DEF SaveRow
  <2>. QED BY <2>2, <2>3
<1>6. CASE CallLLM(c)
  <2>1. PICK u \in Updates : con' = [con EXCEPT ![c] = [con[c] EXCEPT !.pc = "find", !.update = u]]
    BY <1>6 DEF CallLLM, StartUpdate, Updates
  <2>2. "find" \in ConPcs
    BY DEF ConPcs
  <2>. QED BY <1>0, <1>6, <2>1, <2>2 DEF CallLLM
<1>7. CASE Raise(c)
  <2>1. CASE con[c].msg.count < MaxRetries
    <3>1. [con[c].msg EXCEPT !.count = @ + 1] \in Messages
      BY <1>7, <2>1, CountedTyped DEF Raise
    <3>2. queue' \in [Messages -> Nat]
      BY <1>7, <2>1, <3>1 DEF Raise
    <3>3. con' = [con EXCEPT ![c] = NoCon]
      BY <1>7, <2>1 DEF Raise
    <3>. QED BY <1>7, <3>2, <3>3, ConTyped DEF Raise
  <2>2. CASE ~ (con[c].msg.count < MaxRetries)
    <3>1. con' = [con EXCEPT ![c] = [con[c] EXCEPT !.pc = "final_read", !.final = TRUE]]
      BY <1>7, <2>2 DEF Raise
    <3>2. "final_read" \in ConPcs
      BY DEF ConPcs
    <3>. QED BY <1>0, <1>7, <2>2, <3>1, <3>2 DEF Raise
  <2>. QED BY <2>1, <2>2
<1>8. CASE FinalRead(c)
  <2>1. \/ con' = [con EXCEPT ![c] = [con[c] EXCEPT !.pc = "ack"]]
        \/ con' = [con EXCEPT ![c] = [con[c] EXCEPT !.pc = "find", !.update = "transient"]]
    BY <1>8 DEF FinalRead, ConGoto, StartUpdate
  <2>2. "find" \in ConPcs /\ "ack" \in ConPcs /\ "transient" \in Updates
    BY DEF ConPcs, Updates
  <2>. QED BY <1>0, <1>8, <2>1, <2>2 DEF FinalRead
<1>9. CASE Ack(c)
  BY <1>9, ConTyped DEF Ack
<1>10. CASE HandlerFails(c)
  BY <1>10, FailsTyped DEF HandlerFails, Fault
<1>11. CASE ConsumerDies(c)
  <2>1. queue' \in [Messages -> Nat] /\ faults' \in Nat
    BY <1>11 DEF ConsumerDies, Fault
  <2>. QED BY <1>11, <2>1, ConTyped DEF ConsumerDies
<1>12. CASE Redeliver(c)
  <2>1. queue' \in [Messages -> Nat] /\ faults' \in Nat
    BY <1>12 DEF Redeliver, Fault
  <2>. QED BY <1>12, <2>1 DEF Redeliver, Typed, TypeOK, Holding, Inserted
<1>. QED BY <1>1, <1>2, <1>3, <1>4, <1>5, <1>6, <1>7, <1>8, <1>9, <1>10, <1>11, <1>12
     DEF ConsumerStep, ConsumerFault

LEMMA InitTyped == Init => Typed
<1>. SUFFICES ASSUME Init PROVE Typed
  OBVIOUS
<1>1. NoReq \in Reqs /\ NoRemoval \in Removals
  BY CountsAssumption, IdsAreNaturals, NoRowTyped DEF NoReq, Reqs, ReqPcs, NoRemoval, Removals
<1>2. TypeOK
  BY <1>1, NoRowTyped, NoConTyped, IdsAreNaturals DEF Init, TypeOK
<1>3. Holding
  BY DEF Init, Holding, NoCon
<1>4. \A r \in Requests : Inserted(r)
  BY DEF Init, Inserted, NoReq
<1>. QED BY <1>2, <1>3, <1>4 DEF Typed

LEMMA NextTyped == Typed /\ [Next]_vars => Typed'
<1>. SUFFICES ASSUME Typed, [Next]_vars PROVE Typed'
  OBVIOUS
<1>1. CASE UNCHANGED vars
  BY <1>1 DEF vars, Typed, TypeOK, Holding, Inserted
<1>. QED BY <1>1, RequestTyped, RemovalTyped, ConsumerTyped DEF Next

\* Every variable keeps its type: ids stay within the attempts of the task, and the count
\* of a message within the retries of the consumer.
THEOREM TypedAlways == Spec => []Typed
  BY InitTyped, NextTyped, PTL DEF Spec

\* Every variable has its type, for any number of requests, consumers and attempts.
THEOREM TypeCorrect == Spec => []TypeOK
<1>1. Typed => TypeOK
  BY DEF Typed
<1>. QED BY <1>1, TypedAlways, PTL

-----------------------------------------------------------------------------
(* What is in a record, and in the copies that wait to be saved.            *)

RecordFacts(r, x) ==
  /\ x.status # "none" => 1 <= x.id /\ x.id <= created[r]
  /\ x.status = "success" => x.result /\ x.kind = "none"

RequestFacts(r) ==
  /\ req[r].pc = "publish" => 1 <= created[r]
  /\ req[r].pc = "mark_save" => RecordFacts(r, req[r].draft) /\ req[r].draft.status = "failed"

ConsumerFacts(c) ==
  /\ con[c].pc # "idle" => 1 <= Msg(c).id /\ Msg(c).id <= created[Msg(c).req]
  /\ con[c].pc = "save" =>
       /\ RecordFacts(Msg(c).req, con[c].draft)
       /\ con[c].draft.status \in IF con[c].update = "analyzing" THEN {"analyzing"} ELSE Terminal

QueueFacts == \A m \in Messages : queue[m] > 0 => 1 <= m.id /\ m.id <= created[m.req]

RecordInv ==
  /\ \A r \in Requests : RecordFacts(r, row[r]) /\ RequestFacts(r)
  /\ \A c \in Consumers : ConsumerFacts(c)
  /\ QueueFacts
  /\ OneRetryEach

\* All a step does to the records: it inserts into, saves or removes that of one request.
RowEffect(r) ==
  /\ \A q \in Requests : created[q] <= created'[q]
  /\ \A q \in Requests : q # r => row'[q] = row[q]
  /\ RecordFacts(r, row[r])'
  /\ \/ row'[r] = row[r] \/ row'[r].status = "none" \/ row'[r].parent = NoParent
     \/ Children(row'[r].parent) \subseteq {r}

LEMMA RowKeepsRecords ==
  ASSUME Typed, Typed', RecordInv, NEW r \in Requests, RowEffect(r)
  PROVE  (\A q \in Requests : RecordFacts(q, row[q])') /\ OneRetryEach'
<1>. /\ row \in [Requests -> Rows] /\ created \in [Requests -> Ids] /\ created' \in [Requests -> Ids]
     /\ Ids \subseteq Nat
  BY IdsAreNaturals DEF Typed, TypeOK
<1>1. ASSUME NEW q \in Requests PROVE RecordFacts(q, row[q])'
  <2>1. CASE q # r
    <3>1. row[q].id \in Nat /\ created[q] \in Nat /\ created'[q] \in Nat
      BY DEF Rows
    <3>. QED BY <2>1, <3>1 DEF RowEffect, RecordInv, RecordFacts
  <2>. QED BY <2>1 DEF RowEffect
<1>2. OneRetryEach'
  <2>1. ASSUME NEW q \in Requests, q # r, Present(q)', Present(r)', row'[r].parent # NoParent,
               row'[r].parent = row'[q].parent
        PROVE  FALSE
    <3>1. row'[q] = row[q] /\ Present(q)
      BY <2>1 DEF RowEffect, Present
    <3>2. CASE row'[r] = row[r]
      BY <2>1, <3>1, <3>2 DEF RecordInv, OneRetryEach, Present
    <3>3. CASE Children(row'[r].parent) \subseteq {r}
      BY <2>1, <3>1, <3>3 DEF Children
    <3>. QED BY <2>1, <3>2, <3>3 DEF RowEffect, Present
  <2>2. ASSUME NEW q \in Requests, NEW s \in Requests, q # r, s # r,
               Present(q)', Present(s)', row'[q].parent # NoParent, row'[q].parent = row'[s].parent
        PROVE  q = s
    BY <2>2 DEF RowEffect, RecordInv, OneRetryEach, Present
  <2>. QED BY <2>1, <2>2 DEF OneRetryEach
<1>. QED BY <1>1, <1>2

LEMMA ApplyFacts ==
  ASSUME Typed, NEW r \in Requests, RecordFacts(r, row[r]), Present(r), NEW u \in Updates
  PROVE  /\ RecordFacts(r, Apply(u, row[r]))
         /\ Apply(u, row[r]).status \in IF u = "analyzing" THEN {"analyzing"} ELSE Terminal
         /\ u = "transient" => Apply(u, row[r]).status = "failed"
         /\ Apply(u, row[r]).parent = row[r].parent /\ Apply(u, row[r]).id = row[r].id
<1>. row[r] \in Rows
  BY DEF Typed, TypeOK
<1>. QED BY DEF RecordFacts, Apply, Updates, Rows, Terminal, Present

LEMMA InsertEffect ==
  ASSUME Typed, NEW r \in Requests, NEW p \in Parents, Insert(r, p), created[r] <= MaxAttempts,
         p = NoParent \/ Children(p) = {}
  PROVE  RowEffect(r)
<1>. row \in [Requests -> Rows] /\ created \in [Requests -> Ids] /\ created[r] \in Nat
  BY IdsAreNaturals DEF Typed, TypeOK
<1>1. /\ created'[r] = created[r] + 1
      /\ \A q \in Requests : q # r => created'[q] = created[q] /\ row'[q] = row[q]
  BY InsertTyped
<1>2. /\ row'[r].id = created[r] + 1 /\ row'[r].status = "queued" /\ row'[r].parent = p
  BY DEF Insert, NoRow
<1>3. \A q \in Requests : created[q] <= created'[q]
  <2>1. \A q \in Requests : created[q] \in Nat
    BY IdsAreNaturals
  <2>. QED BY <1>1, <2>1
<1>4. RecordFacts(r, row[r])'
  BY <1>1, <1>2 DEF RecordFacts
<1>. QED BY <1>1, <1>2, <1>3, <1>4 DEF RowEffect

LEMMA SameRecords ==
  ASSUME Typed, RecordInv, NEW r \in Requests, UNCHANGED <<row, created>>
  PROVE  RowEffect(r)
<1>. \A q \in Requests : created[q] \in Nat
  BY IdsAreNaturals DEF Typed, TypeOK
<1>. QED BY DEF RowEffect, RecordInv, RecordFacts

\* A step of a request keeps the facts of all that do not move.
LEMMA RequestRecords ==
  ASSUME Typed, Typed', RecordInv, NEW r \in Requests, RowEffect(r), UNCHANGED con,
         \A q \in Requests : q # r => req'[q] = req[q], RequestFacts(r)',
         \A m \in Messages : queue'[m] > 0 =>
           queue[m] > 0 \/ (m.req = r /\ 1 <= m.id /\ m.id <= created'[r])
  PROVE  RecordInv'
<1>. /\ \A q \in Requests : created[q] \in Nat /\ created'[q] \in Nat /\ created[q] <= created'[q]
  BY IdsAreNaturals DEF Typed, TypeOK, RowEffect
<1>. \A m \in Messages : m.req \in Requests /\ m.id \in Nat
  BY IdsAreNaturals DEF Messages
<1>. \A x \in Rows : x.id \in Nat
  BY IdsAreNaturals DEF Rows
<1>1. \A q \in Requests : RequestFacts(q)'
  <2>1. ASSUME NEW q \in Requests, q # r PROVE RequestFacts(q)'
    <3>1. req[q].draft \in Rows
      BY DEF Typed, TypeOK, Reqs
    <3>. QED BY <2>1, <3>1 DEF RecordInv, RequestFacts, RecordFacts
  <2>. QED BY <2>1
<1>2. ASSUME NEW c \in Consumers PROVE ConsumerFacts(c)'
  <2>1. con[c].draft \in Rows /\ (con[c].pc # "idle" => con[c].msg \in Messages)
    BY DEF Typed, TypeOK, Cons, Holding
  <2>. QED BY <2>1 DEF RecordInv, ConsumerFacts, RecordFacts, Msg
<1>3. QueueFacts'
  BY DEF RecordInv, QueueFacts
<1>. QED BY <1>1, <1>2, <1>3, RowKeepsRecords DEF RecordInv

LEMMA RequestKeepsRecords ==
  ASSUME Typed, Typed', RecordInv, NEW r \in Requests, Arrives(r) \/ RequestStep(r) \/ RequestFails(r)
  PROVE  RecordInv'
<1>. /\ req \in [Requests -> Reqs] /\ req[r] \in Reqs
     /\ row \in [Requests -> Rows] /\ created \in [Requests -> Ids]
     /\ \A q \in Requests : created[q] \in Nat
     /\ queue \in [Messages -> Nat] /\ Inserted(r)
     /\ req[r].attempt \in 0..MaxAttempts /\ req[r].parent \in Parents
     /\ RecordFacts(r, row[r]) /\ RequestFacts(r)
  BY IdsAreNaturals DEF Typed, TypeOK, Reqs, RecordInv
<1>. USE CountsAssumption DEF ReqAt, ReqGoto, RequestFacts
<1>1. CASE TaskDispatches(r)
  <2>1. UNCHANGED <<row, created, queue, con>> /\ req'[r].pc = "get_or_create"
        /\ \A q \in Requests : q # r => req'[q] = req[q]
    BY <1>1 DEF TaskDispatches
  <2>. QED BY <2>1, SameRecords, RequestRecords
<1>2. CASE Create(r)
  <2>1. RowEffect(r) /\ 1 <= created'[r]
    BY <1>2, InsertEffect, InsertTyped, IdsAreNaturals DEF Create, Inserted
  <2>2. UNCHANGED <<queue, con>> /\ req'[r].pc = "publish"
        /\ \A q \in Requests : q # r => req'[q] = req[q]
    BY <1>2 DEF Create
  <2>. QED BY <2>1, <2>2, RequestRecords
<1>3. CASE \E p \in Requests : RetryRead(r, p)
  <2>1. UNCHANGED <<row, created, queue, con>> /\ req'[r].pc = "check_child"
        /\ \A q \in Requests : q # r => req'[q] = req[q]
    BY <1>3 DEF RetryRead
  <2>. QED BY <2>1, SameRecords, RequestRecords
<1>4. CASE GetOrCreate(r)
  <2>1. RowEffect(r) /\ 1 <= created'[r]
    <3>1. CASE Present(r)
      <4>1. 1 <= created[r]
        <5>1. row[r].id \in Nat /\ 1 <= row[r].id /\ row[r].id <= created[r]
          BY <3>1, IdsAreNaturals DEF Present, RecordFacts, Rows
        <5>. QED BY <5>1
      <4>. QED BY <1>4, <3>1, <4>1, SameRecords DEF GetOrCreate
    <3>2. CASE ~ Present(r)
      BY <1>4, <3>2, InsertEffect, InsertTyped, IdsAreNaturals DEF GetOrCreate, Inserted
    <3>. QED BY <3>1, <3>2
  <2>2. UNCHANGED <<queue, con>> /\ req'[r].pc = "publish"
        /\ \A q \in Requests : q # r => req'[q] = req[q]
    BY <1>4 DEF GetOrCreate
  <2>. QED BY <2>1, <2>2, RequestRecords
<1>5. CASE RetryCheckChild(r)
  <2>1. UNCHANGED <<row, created, queue, con>> /\ req'[r].pc \in {"done", "insert"}
        /\ \A q \in Requests : q # r => req'[q] = req[q]
    BY <1>5 DEF RetryCheckChild
  <2>. QED BY <2>1, SameRecords, RequestRecords
<1>6. CASE RetryInsert(r)
  <2>1. CASE Children(req[r].parent) = {}
    <3>1. RowEffect(r) /\ 1 <= created'[r]
      BY <1>6, <2>1, InsertEffect, InsertTyped DEF RetryInsert, Inserted
    <3>2. UNCHANGED <<queue, con>> /\ req' = [req EXCEPT ![r].pc = "publish"]
      BY <1>6, <2>1 DEF RetryInsert
    <3>3. req'[r].pc = "publish" /\ \A q \in Requests : q # r => req'[q] = req[q]
      BY <3>2 DEF Reqs
    <3>. QED BY <3>1, <3>2, <3>3, RequestRecords
  <2>2. CASE Children(req[r].parent) # {}
    <3>1. UNCHANGED <<row, created, queue, con>> /\ req' = [req EXCEPT ![r].pc = "done"]
      BY <1>6, <2>2 DEF RetryInsert
    <3>2. req'[r].pc = "done" /\ \A q \in Requests : q # r => req'[q] = req[q]
      BY <3>1 DEF Reqs
    <3>. QED BY <3>1, <3>2, SameRecords, RequestRecords
  <2>. QED BY <2>1, <2>2
<1>7. CASE PublishRequested(r)
  <2>1. UNCHANGED <<row, created, con>> /\ req'[r].pc \in {"done", "raise", "mark"}
        /\ \A q \in Requests : q # r => req'[q] = req[q]
    BY <1>7 DEF PublishRequested
  <2>2. 1 <= created[r]
    BY <1>7 DEF PublishRequested
  <2>3. \A m \in Messages : queue'[m] > 0 =>
          queue[m] > 0 \/ (m.req = r /\ 1 <= m.id /\ m.id <= created'[r])
    BY <1>7, <2>1, <2>2 DEF PublishRequested
  <2>. QED BY <2>1, <2>3, SameRecords, RequestRecords
<1>8. CASE TaskRetries(r) \/ TaskGivesUp(r)
  <2>1. UNCHANGED <<row, created, queue, con>> /\ req'[r].pc \in {"get_or_create", "given_up"}
        /\ \A q \in Requests : q # r => req'[q] = req[q]
    BY <1>8 DEF TaskRetries, TaskGivesUp, ReqGoto, Reqs
  <2>. QED BY <2>1, SameRecords, RequestRecords
<1>9. CASE Mark(r)
  <2>1. UNCHANGED <<row, created, queue, con>> /\ req'[r].pc \in {"mark_find", "done"}
        /\ \A q \in Requests : q # r => req'[q] = req[q]
    BY <1>9 DEF Mark
  <2>. QED BY <2>1, SameRecords, RequestRecords
<1>10. CASE MarkFind(r)
  <2>1. UNCHANGED <<row, created, queue, con>> /\ \A q \in Requests : q # r => req'[q] = req[q]
    BY <1>10 DEF MarkFind
  <2>2. CASE Present(r)
    <3>1. req'[r].pc = "mark_save" /\ req'[r].draft = Apply("transient", row[r])
      BY <1>10, <2>2 DEF MarkFind, Reqs
    <3>2. RecordFacts(r, Apply("transient", row[r])) /\ Apply("transient", row[r]).status = "failed"
      BY <2>2, ApplyFacts DEF Updates
    <3>3. RequestFacts(r)'
      BY <2>1, <3>1, <3>2 DEF RecordFacts
    <3>. QED BY <2>1, <3>3, SameRecords, RequestRecords
  <2>3. CASE ~ Present(r)
    <3>1. req'[r].pc = "done"
      BY <1>10, <2>3 DEF MarkFind, Reqs
    <3>. QED BY <2>1, <3>1, SameRecords, RequestRecords
  <2>. QED BY <2>2, <2>3
<1>11. CASE MarkSave(r)
  <2>1. UNCHANGED <<created, queue, con>> /\ req'[r].pc = "done"
        /\ \A q \in Requests : q # r => req'[q] = req[q]
    BY <1>11 DEF MarkSave
  <2>2. RowEffect(r)
    <3>1. CASE Unique(r, req[r].draft)
      <4>1. row' = [row EXCEPT ![r] = req[r].draft] /\ RecordFacts(r, req[r].draft)
        BY <1>11, <3>1 DEF MarkSave
      <4>2. \A q \in Requests : created[q] <= created'[q]
        BY <2>1
      <4>. QED BY <2>1, <3>1, <4>1, <4>2 DEF RowEffect, Unique, RecordFacts
    <3>2. CASE ~ Unique(r, req[r].draft)
      BY <1>11, <2>1, <3>2, SameRecords DEF MarkSave
    <3>. QED BY <3>1, <3>2
  <2>. QED BY <2>1, <2>2, RequestRecords
<1>12. CASE RequestFails(r)
  <2>1. UNCHANGED <<row, created, queue, con>> /\ req'[r].pc \in {"raise", "done"}
        /\ \A q \in Requests : q # r => req'[q] = req[q]
    BY <1>12 DEF RequestFails, Reqs
  <2>. QED BY <2>1, SameRecords, RequestRecords
<1>. QED BY <1>1, <1>2, <1>3, <1>4, <1>5, <1>6, <1>7, <1>8, <1>9, <1>10, <1>11, <1>12
     DEF Arrives, RequestStep

LEMMA RemovalKeepsRecords ==
  ASSUME Typed, Typed', RecordInv, NEW r \in Requests, RemovalStep(r)
  PROVE  RecordInv'
<1>. row \in [Requests -> Rows] /\ \A q \in Requests : created[q] \in Nat
  BY IdsAreNaturals DEF Typed, TypeOK
<1>1. /\ UNCHANGED <<created, queue, req, con>>
      /\ \A q \in Requests : q # r => row'[q] = row[q]
      /\ row'[r] = row[r] \/ row'[r] = NoRow
  BY DEF RemovalStep, RemoveRead, RemoveCheckChild, RemoveDelete
<1>2. RowEffect(r)
  <2>1. NoRow.status = "none"
    BY DEF NoRow
  <2>. QED BY <1>1, <2>1 DEF RowEffect, RecordInv, RecordFacts
<1>3. RequestFacts(r)'
  BY <1>1 DEF RecordInv, RequestFacts, RecordFacts
<1>. QED BY <1>1, <1>2, <1>3, RequestRecords

\* A step of a consumer keeps the facts of all that do not move.
LEMMA ConsumerRecords ==
  ASSUME Typed, Typed', RecordInv, NEW c \in Consumers, NEW r \in Requests, RowEffect(r),
         UNCHANGED <<created, req>>, \A e \in Consumers : e # c => con'[e] = con[e],
         ConsumerFacts(c)',
         \A m \in Messages : queue'[m] > 0 =>
           queue[m] > 0 \/ (1 <= m.id /\ m.id <= created[m.req])
  PROVE  RecordInv'
<1>1. \A q \in Requests : RequestFacts(q)'
  BY DEF RecordInv, RequestFacts, RecordFacts
<1>2. \A e \in Consumers : ConsumerFacts(e)'
  <2>1. ASSUME NEW e \in Consumers, e # c PROVE ConsumerFacts(e)'
    BY <2>1 DEF RecordInv, ConsumerFacts, RecordFacts, Msg
  <2>. QED BY <2>1
<1>3. QueueFacts'
  BY DEF RecordInv, QueueFacts
<1>. QED BY <1>1, <1>2, <1>3, RowKeepsRecords DEF RecordInv

LEMMA ConsumerKeepsRecords ==
  ASSUME Typed, Typed', RecordInv, NEW c \in Consumers,
         ConsumerStep(c) \/ ConsumerFault(c) \/ \E m \in Messages : Receive(c, m)
  PROVE  RecordInv'
<1>. /\ con \in [Consumers -> Cons] /\ con[c] \in Cons
     /\ con[c].pc # "idle" => con[c].msg \in Messages
     /\ row \in [Requests -> Rows] /\ queue \in [Messages -> Nat]
     /\ con[c].update \in Updates /\ con[c].draft \in Rows
     /\ \A q \in Requests : created[q] \in Nat /\ RecordFacts(q, row[q])
     /\ \A m \in Messages : m.req \in Requests
     /\ ConsumerFacts(c)
  BY IdsAreNaturals DEF Typed, TypeOK, Holding, Cons, RecordInv, Messages
<1>. USE DEF At, Msg, ConsumerFacts
<1>1. CASE \E m \in Messages : Receive(c, m)
  <2>. PICK m \in Messages : Receive(c, m)
    BY <1>1
  <2>1. /\ UNCHANGED <<row, created, req>> /\ con'[c].pc = "read" /\ con'[c].msg = m
        /\ \A e \in Consumers : e # c => con'[e] = con[e]
    BY DEF Receive, Cons
  <2>2. queue[m] \in Nat /\ queue[m] > 0 /\ queue' = [queue EXCEPT ![m] = queue[m] - 1]
    BY DEF Receive
  <2>3. \A n \in Messages : queue'[n] > 0 => queue[n] > 0
    BY <2>2
  <2>4. ConsumerFacts(c)'
    BY <2>1, <2>2 DEF RecordInv, QueueFacts
  <2>. QED BY <2>1, <2>3, <2>4, SameRecords, ConsumerRecords
<1>2. CASE con[c].pc # "idle" /\ UNCHANGED <<row, created, req, queue>>
           /\ \E pc \in ConPcs \ {"save"} : \/ con' = [con EXCEPT ![c].pc = pc]
                                          \/ \E u \in Updates : con' = [con EXCEPT ![c].pc = pc, ![c].update = u]
                                          \/ con' = [con EXCEPT ![c].pc = pc, ![c].draft = NoRow]
                                          \/ con' = [con EXCEPT ![c].pc = pc, ![c].final = TRUE]
  <2>1. /\ con'[c].pc # "save" /\ con'[c].msg = con[c].msg
        /\ \A e \in Consumers : e # c => con'[e] = con[e]
    BY <1>2 DEF Cons
  <2>2. ConsumerFacts(c)'
    BY <1>2, <2>1
  <2>. QED BY <1>2, <2>1, <2>2, SameRecords, ConsumerRecords
<1>3. CASE ReadAnalysis(c)
  BY <1>2, <1>3 DEF ReadAnalysis, ConGoto, AfterRead, ConPcs
<1>4. CASE LoadText(c)
  BY <1>2, <1>4 DEF LoadText, StartUpdate, ConPcs, Updates
<1>5. CASE FindRow(c)
  <2>0. con[c].msg.req \in Requests
    BY <1>5 DEF FindRow
  <2>. PICK r \in Requests : r = con[c].msg.req
    BY <2>0
  <2>1. CASE Present(r)
    <3>1. con'[c].pc = "save" /\ con'[c].msg = con[c].msg /\ con'[c].update = con[c].update
          /\ con'[c].draft = Apply(con[c].update, row[r])
          /\ (\A e \in Consumers : e # c => con'[e] = con[e])
          /\ UNCHANGED <<row, created, req, queue>>
      BY <1>5, <2>1 DEF FindRow, Cons
    <3>2. /\ RecordFacts(r, Apply(con[c].update, row[r]))
          /\ Apply(con[c].update, row[r]).status
               \in IF con[c].update = "analyzing" THEN {"analyzing"} ELSE Terminal
      BY <2>0, <2>1, ApplyFacts
    <3>3. ConsumerFacts(c)'
      BY <1>5, <3>1, <3>2 DEF RecordFacts, FindRow
    <3>. QED BY <2>0, <3>1, <3>3, SameRecords, ConsumerRecords
  <2>2. CASE ~ Present(r)
    BY <1>2, <1>5, <2>2 DEF FindRow, ConGoto, AfterUpdate, ConPcs
  <2>. QED BY <2>1, <2>2
<1>6. CASE SaveRow(c)
  <2>0. con[c].msg.req \in Requests
    BY <1>6 DEF SaveRow
  <2>. PICK r \in Requests : r = con[c].msg.req
    BY <2>0
  <2>1. CASE Unique(r, con[c].draft)
    <3>1. row' = [row EXCEPT ![r] = con[c].draft] /\ RecordFacts(r, con[c].draft)
          /\ UNCHANGED <<created, req, queue>>
      BY <1>6, <2>1 DEF SaveRow
    <3>2. /\ con'[c].pc \in {"llm", "ack"} /\ con'[c].msg = con[c].msg
          /\ \A e \in Consumers : e # c => con'[e] = con[e]
      BY <1>6, <2>1 DEF SaveRow, AfterUpdate, Cons
    <3>3. RowEffect(r)
      <4>1. row'[r] = con[c].draft /\ \A q \in Requests : q # r => row'[q] = row[q]
        BY <2>0, <3>1
      <4>2. RecordFacts(r, row[r])'
        BY <3>1, <4>1 DEF RecordFacts
      <4>3. \A q \in Requests : created[q] <= created'[q]
        BY <3>1
      <4>. QED BY <2>1, <4>1, <4>2, <4>3 DEF RowEffect, Unique
    <3>4. ConsumerFacts(c)'
      BY <1>6, <3>1, <3>2 DEF SaveRow
    <3>. QED BY <2>0, <3>1, <3>2, <3>3, <3>4, ConsumerRecords
  <2>2. CASE ~ Unique(r, con[c].draft)
    BY <1>2, <1>6, <2>2 DEF SaveRow, Fails, ConPcs
  <2>. QED BY <2>1, <2>2
<1>7. CASE CallLLM(c)
  BY <1>2, <1>7 DEF CallLLM, StartUpdate, ConPcs, Updates
<1>8. CASE Raise(c)
  <2>1. CASE con[c].msg.count < MaxRetries
    <3>. DEFINE m == [con[c].msg EXCEPT !.count = @ + 1]
    <3>1. m.id = con[c].msg.id /\ m.req = con[c].msg.req
      BY <1>8 DEF Raise, Messages
    <3>2. \A n \in Messages : queue'[n] > 0 => queue[n] > 0 \/ n = m
      BY <1>8, <2>1 DEF Raise
    <3>3. UNCHANGED <<row, created, req>> /\ con' = [con EXCEPT ![c] = NoCon]
      BY <1>8, <2>1 DEF Raise
    <3>4. ConsumerFacts(c)'
      BY <3>3 DEF NoCon
    <3>. QED BY <1>8, <3>1, <3>2, <3>3, <3>4, SameRecords, ConsumerRecords DEF Raise
  <2>2. CASE ~ (con[c].msg.count < MaxRetries)
    BY <1>2, <1>8, <2>2 DEF Raise, ConPcs
  <2>. QED BY <2>1, <2>2
<1>9. CASE FinalRead(c)
  BY <1>2, <1>9 DEF FinalRead, ConGoto, StartUpdate, ConPcs, Updates
<1>10. CASE Ack(c)
  <2>1. ConsumerFacts(c)'
    BY <1>10 DEF Ack, NoCon
  <2>2. con[c].msg.req \in Requests
    BY <1>10 DEF Ack
  <2>. QED BY <1>10, <2>1, <2>2, SameRecords, ConsumerRecords DEF Ack
<1>11. CASE HandlerFails(c)
  BY <1>2, <1>11 DEF HandlerFails, Fails, ConPcs
<1>12. CASE ConsumerDies(c)
  <2>1. ConsumerFacts(c)'
    BY <1>12 DEF ConsumerDies, NoCon
  <2>2. \A n \in Messages : queue'[n] > 0 => queue[n] > 0 \/ n = con[c].msg
    BY <1>12 DEF ConsumerDies
  <2>. QED BY <1>12, <2>1, <2>2, SameRecords, ConsumerRecords DEF ConsumerDies
<1>13. CASE Redeliver(c)
  <2>1. ConsumerFacts(c)'
    BY <1>13 DEF Redeliver, RecordFacts
  <2>2. \A n \in Messages : queue'[n] > 0 => queue[n] > 0 \/ n = con[c].msg
    BY <1>13 DEF Redeliver
  <2>. QED BY <1>13, <2>1, <2>2, SameRecords, ConsumerRecords DEF Redeliver
<1>. QED BY <1>1, <1>3, <1>4, <1>5, <1>6, <1>7, <1>8, <1>9, <1>10, <1>11, <1>12, <1>13
     DEF ConsumerStep, ConsumerFault

LEMMA InitRecords == Init => RecordInv
<1>. SUFFICES ASSUME Init PROVE RecordInv
  OBVIOUS
<1>1. /\ \A r \in Requests : row[r].status = "none" /\ req[r].pc = "absent"
      /\ \A c \in Consumers : con[c].pc = "idle"
      /\ \A m \in Messages : queue[m] = 0
  BY DEF Init, NoRow, NoReq, NoCon
<1>. QED BY <1>1 DEF RecordInv, RecordFacts, RequestFacts, ConsumerFacts, QueueFacts, OneRetryEach, Present

LEMMA NextRecords == Typed /\ RecordInv /\ [Next]_vars => RecordInv'
<1>. SUFFICES ASSUME Typed, RecordInv, [Next]_vars PROVE RecordInv'
  OBVIOUS
<1>0. Typed'
  BY NextTyped
<1>1. CASE UNCHANGED vars
  BY <1>1 DEF vars, RecordInv, RecordFacts, RequestFacts, ConsumerFacts, QueueFacts, OneRetryEach,
     Present, Msg
<1>. QED BY <1>0, <1>1, RequestKeepsRecords, RemovalKeepsRecords, ConsumerKeepsRecords DEF Next

\* The inductive invariant of the records, and of the copies that wait to be saved.
THEOREM RecordsAlways == Spec => []RecordInv
  BY InitRecords, NextRecords, TypedAlways, PTL DEF Spec

\* At most one direct retry of an analysis exists, whatever requests overlap, records are
\* saved back and messages are repeated.
THEOREM OneRetryEachAlways == Spec => []OneRetryEach
<1>1. RecordInv => OneRetryEach
  BY DEF RecordInv
<1>. QED BY <1>1, RecordsAlways, PTL

\* A successful analysis has its result and shows no failure kind, also when it was saved
\* over an earlier failure.
THEOREM SuccessIsCleanAlways == Spec => []SuccessIsClean
<1>1. RecordInv => SuccessIsClean
  BY DEF RecordInv, RecordFacts, SuccessIsClean
<1>. QED BY <1>1, RecordsAlways, PTL

-----------------------------------------------------------------------------
(* Somebody works on an analysis that is not finished.                      *)

\* A handler that has not come to its end, or a message for the next one.
Attended(r) ==
  \/ \E c \in Consumers : con[c].pc \notin {"idle", "ack"} /\ Msg(c).req = r
  \/ \E m \in Messages : m.req = r /\ queue[m] > 0

\* A queued analysis may still be with its request, or its task gave the dispatch up; one
\* that is analysed is with a handler.
Tended(r) ==
  created[r] = 1 /\ r \notin abandoned =>
    /\ row[r].status = "analyzing" => Attended(r)
    /\ row[r].status = "queued" => Attended(r) \/ req[r].pc \notin {"absent", "done"}

TendedInv == \A r \in Requests : Tended(r)

\* What others do takes neither a message nor a handler from r.
LEMMA StillAttended ==
  ASSUME NEW r \in Requests, UNCHANGED con, \A m \in Messages : queue[m] > 0 => queue'[m] > 0,
         Attended(r)
  PROVE  Attended(r)'
  BY DEF Attended, Msg

LEMMA RequestKeepsTended ==
  ASSUME Typed, RecordInv, TendedInv, NEW r \in Requests,
         Arrives(r) \/ RequestStep(r) \/ RequestFails(r)
  PROVE  TendedInv'
<1>. /\ req \in [Requests -> Reqs] /\ req[r] \in Reqs /\ row \in [Requests -> Rows]
     /\ created \in [Requests -> Ids] /\ \A q \in Requests : created[q] \in Nat
     /\ queue \in [Messages -> Nat] /\ Inserted(r) /\ Tended(r) /\ RequestFacts(r)
     /\ req[r].attempt \in 0..MaxAttempts /\ req[r].parent \in Parents
  BY IdsAreNaturals DEF Typed, TypeOK, Reqs, RecordInv, TendedInv
<1>1. UNCHANGED con /\ \A m \in Messages : queue[m] > 0 => queue'[m] > 0
  <2>1. CASE PublishRequested(r)
    <3>1. \A o \in Outcomes : Copies(o) \in Nat
      BY DEF Copies
    <3>2. \A m \in Messages : queue[m] \in Nat
      OBVIOUS
    <3>. QED BY <2>1, <3>1, <3>2 DEF PublishRequested
  <2>2. CASE ~ PublishRequested(r)
    BY <2>2 DEF Arrives, RequestStep, RequestFails, TaskDispatches, Create, RetryRead, GetOrCreate,
       RetryCheckChild, RetryInsert, TaskRetries, TaskGivesUp, Mark, MarkFind, MarkSave
  <2>. QED BY <2>1, <2>2
<1>2. \A q \in Requests : Attended(q) => Attended(q)'
  BY <1>1, StillAttended
<1>3. /\ \A q \in Requests : q # r => /\ created'[q] = created[q] /\ row'[q] = row[q]
                                     /\ req'[q] = req[q]
      /\ \A q \in Requests : q \notin abandoned' => q \notin abandoned
  BY DEF Arrives, RequestStep, RequestFails, TaskDispatches, Create, RetryRead, GetOrCreate,
     RetryCheckChild, RetryInsert, PublishRequested, TaskRetries, TaskGivesUp, Mark, MarkFind,
     MarkSave, Insert, ReqGoto, Abandon
<1>4. \A q \in Requests : q # r => Tended(q)'
  BY <1>2, <1>3 DEF TendedInv, Tended
<1>5. Tended(r)'
  <2>. USE DEF ReqAt, ReqGoto
  <2>1. ASSUME UNCHANGED <<row, created>>, req'[r].pc \notin {"absent", "done"} PROVE Tended(r)'
    BY <1>2, <1>3, <2>1 DEF Tended
  <2>2. ASSUME UNCHANGED <<row, created>>, row[r].status \notin {"queued", "analyzing"}
        PROVE  Tended(r)'
    BY <2>2 DEF Tended
  <2>3. ASSUME Insert(r, req[r].parent) \/ Insert(r, NoParent), req'[r].pc = "publish" PROVE Tended(r)'
    BY <2>3 DEF Tended, Insert, NoRow
  <2>4. CASE TaskDispatches(r)
    BY <2>1, <2>4 DEF TaskDispatches
  <2>5. CASE Create(r)
    BY <2>3, <2>5 DEF Create
  <2>6. CASE \E p \in Requests : RetryRead(r, p)
    BY <2>1, <2>6 DEF RetryRead
  <2>7. CASE GetOrCreate(r)
    BY <2>1, <2>3, <2>7 DEF GetOrCreate
  <2>8. CASE RetryCheckChild(r)
    BY <2>8 DEF RetryCheckChild, Tended, Inserted
  <2>9. CASE RetryInsert(r)
    <3>1. CASE Children(req[r].parent) = {}
      <4>1. Insert(r, req[r].parent) /\ req' = [req EXCEPT ![r].pc = "publish"]
        BY <2>9, <3>1 DEF RetryInsert
      <4>. QED BY <2>3, <4>1 DEF Reqs
    <3>2. CASE Children(req[r].parent) # {}
      BY <2>9, <3>2 DEF RetryInsert, Tended, Inserted
    <3>. QED BY <3>1, <3>2
  <2>10. CASE PublishRequested(r)
    <3>1. PICK o \in Outcomes :
            /\ queue' = [queue EXCEPT ![[req |-> r, id |-> created[r], count |-> 0]] = @ + Copies(o)]
            /\ req' = [req EXCEPT ![r].pc = IF ~ Raises(o) THEN "done"
                                            ELSE IF req[r].kind = "task" THEN "raise" ELSE "mark"]
      BY <2>10 DEF PublishRequested
    <3>2. CASE Raises(o)
      <4>1. req'[r].pc \notin {"absent", "done"} /\ UNCHANGED <<row, created>>
        BY <2>10, <3>1, <3>2 DEF PublishRequested, Reqs
      <4>. QED BY <2>1, <4>1
    <3>3. CASE ~ Raises(o)
      <4>. DEFINE m == [req |-> r, id |-> created[r], count |-> 0]
      <4>1. m \in Messages /\ m.req = r
        BY CountsAssumption DEF Messages
      <4>2. queue'[m] > 0
        <5>1. Copies(o) \in Nat /\ Copies(o) > 0
          BY <3>3 DEF Copies, Raises
        <5>2. queue[m] \in Nat /\ queue'[m] = queue[m] + Copies(o)
          BY <3>1, <4>1
        <5>. QED BY <5>1, <5>2
      <4>3. Attended(r)'
        <5>. HIDE DEF m
        <5>. QED BY <4>1, <4>2 DEF Attended
      <4>. QED BY <4>3 DEF Tended
    <3>. QED BY <3>2, <3>3
  <2>11. CASE TaskRetries(r) \/ TaskGivesUp(r)
    <3>1. req'[r].pc \in {"get_or_create", "given_up"} /\ UNCHANGED <<row, created>>
      BY <2>11 DEF TaskRetries, TaskGivesUp, Reqs
    <3>. QED BY <2>1, <3>1
  <2>12. CASE Mark(r)
    <3>1. CASE row[r].status = "queued"
      BY <2>1, <2>12, <3>1 DEF Mark
    <3>2. CASE row[r].status # "queued"
      BY <1>2, <1>3, <2>12, <3>2 DEF Mark, Tended
    <3>. QED BY <3>1, <3>2
  <2>13. CASE MarkFind(r)
    <3>1. CASE Present(r)
      BY <2>1, <2>13, <3>1 DEF MarkFind, Reqs
    <3>2. CASE ~ Present(r)
      BY <2>2, <2>13, <3>2 DEF MarkFind, Present
    <3>. QED BY <3>1, <3>2
  <2>14. CASE MarkSave(r)
    <3>1. CASE Unique(r, req[r].draft)
      <4>1. row'[r].status = "failed"
        BY <2>14, <3>1 DEF MarkSave, RequestFacts
      <4>. QED BY <4>1 DEF Tended
    <3>2. CASE ~ Unique(r, req[r].draft)
      BY <2>14, <3>2 DEF MarkSave, Abandon, Tended
    <3>. QED BY <3>1, <3>2
  <2>15. CASE RequestFails(r)
    <3>1. CASE req[r].pc = "get_or_create"
      <4>1. req'[r].pc = "raise"
        BY <2>15, <3>1 DEF RequestFails, Reqs
      <4>. QED BY <2>1, <2>15, <4>1 DEF RequestFails
    <3>2. CASE req[r].pc # "get_or_create" /\ Present(r)
      BY <2>15, <3>2 DEF RequestFails, Abandon, Tended
    <3>3. CASE ~ Present(r) /\ req[r].pc # "get_or_create"
      BY <2>2, <2>15, <3>3 DEF RequestFails, Present
    <3>. QED BY <3>1, <3>2, <3>3
  <2>. QED BY <2>4, <2>5, <2>6, <2>7, <2>8, <2>9, <2>10, <2>11, <2>12, <2>13, <2>14, <2>15
           DEF Arrives, RequestStep
<1>. QED BY <1>4, <1>5 DEF TendedInv

LEMMA RemovalKeepsTended ==
  ASSUME Typed, TendedInv, NEW r \in Requests, RemovalStep(r)
  PROVE  TendedInv'
<1>1. /\ UNCHANGED <<created, queue, req, con, abandoned>>
      /\ \A q \in Requests : row'[q] = row[q] \/ row'[q] = NoRow
  BY DEF RemovalStep, RemoveRead, RemoveCheckChild, RemoveDelete, Typed, TypeOK
<1>2. NoRow.status = "none"
  BY DEF NoRow
<1>3. \A q \in Requests : Attended(q) => Attended(q)'
  BY <1>1, StillAttended
<1>. QED BY <1>1, <1>2, <1>3 DEF TendedInv, Tended

\* A consumer that ends leaves a message, a finished record, none, or an abandoned request.
LEMMA ConsumerTends ==
  ASSUME Typed, TendedInv, NEW c \in Consumers, con[c].pc # "idle", NEW r \in Requests,
         r = con[c].msg.req, UNCHANGED <<created, req>>,
         \A e \in Consumers : e # c => con'[e] = con[e],
         \A m \in Messages : queue[m] > 0 => queue'[m] > 0,
         \A q \in Requests : q # r => row'[q] = row[q], abandoned \subseteq abandoned',
         row'[r].status \in {row[r].status, "analyzing"} \cup Terminal,
         \/ row'[r].status \notin {"queued", "analyzing"}
         \/ r \in abandoned' \/ created[r] # 1
         \/ con'[c].pc \notin {"idle", "ack"} /\ con'[c].msg = con[c].msg
         \/ \E m \in Messages : m.req = r /\ queue'[m] > 0
         \/ con[c].pc = "ack" /\ UNCHANGED row
  PROVE  TendedInv'
<1>1. ASSUME NEW q \in Requests, q # r, Attended(q) PROVE Attended(q)'
  BY <1>1 DEF Attended, Msg
<1>2. ASSUME NEW q \in Requests, q # r PROVE Tended(q)'
  BY <1>1, <1>2 DEF TendedInv, Tended
<1>3. Tended(r)'
  <2>1. CASE \/ con'[c].pc \notin {"idle", "ack"} /\ con'[c].msg = con[c].msg
             \/ \E m \in Messages : m.req = r /\ queue'[m] > 0
    <3>1. Attended(r)'
      BY <2>1 DEF Attended, Msg
    <3>. QED BY <3>1 DEF Tended
  <2>2. CASE con[c].pc = "ack" /\ UNCHANGED row
    <3>1. Attended(r) => Attended(r)'
      BY <2>2 DEF Attended, Msg
    <3>. QED BY <2>2, <3>1 DEF TendedInv, Tended
  <2>3. CASE row'[r].status \notin {"queued", "analyzing"} \/ r \in abandoned' \/ created[r] # 1
    BY <2>3 DEF Tended
  <2>. QED BY <2>1, <2>2, <2>3
<1>. QED BY <1>2, <1>3 DEF TendedInv

LEMMA MoreQueued ==
  ASSUME queue \in [Messages -> Nat], NEW m \in Messages, queue' = [queue EXCEPT ![m] = @ + 1]
  PROVE  queue'[m] > 0 /\ \A n \in Messages : queue[n] > 0 => queue'[n] > 0
  OBVIOUS

LEMMA ConsumerKeepsTended ==
  ASSUME Typed, RecordInv, TendedInv, NEW c \in Consumers,
         ConsumerStep(c) \/ ConsumerFault(c) \/ \E m \in Messages : Receive(c, m)
  PROVE  TendedInv'
<1>. /\ con \in [Consumers -> Cons] /\ con[c] \in Cons
     /\ con[c].pc # "idle" => con[c].msg \in Messages
     /\ row \in [Requests -> Rows] /\ queue \in [Messages -> Nat]
     /\ con[c].update \in Updates /\ con[c].draft \in Rows
     /\ \A q \in Requests : created[q] \in Nat /\ RecordFacts(q, row[q])
     /\ \A m \in Messages : m.req \in Requests /\ m.id \in Nat
     /\ ConsumerFacts(c)
  BY IdsAreNaturals DEF Typed, TypeOK, Holding, Cons, RecordInv, Messages
<1>1. CASE \E m \in Messages : Receive(c, m)
  <2>. PICK m \in Messages : Receive(c, m)
    BY <1>1
  <2>1. /\ UNCHANGED <<row, created, req, abandoned>> /\ con[c].pc = "idle"
        /\ con'[c].pc = "read" /\ con'[c].msg = m
        /\ \A e \in Consumers : e # c => con'[e] = con[e]
    BY DEF Receive, Cons, At
  <2>2. \A n \in Messages : n # m => queue'[n] = queue[n]
    BY DEF Receive
  <2>3. ASSUME NEW q \in Requests, Attended(q) PROVE Attended(q)'
    BY <2>1, <2>2, <2>3 DEF Attended, Msg
  <2>. QED BY <2>1, <2>3 DEF TendedInv, Tended
<1>2. CASE con[c].pc # "idle"
  <2>0. con[c].msg.req \in Requests
    BY <1>2
  <2>. PICK r \in Requests : r = con[c].msg.req
    BY <2>0
  <2>. USE DEF At, Msg
  <2>1. ASSUME UNCHANGED <<row, created, req, queue>>, abandoned \subseteq abandoned',
               con'[c].pc \notin {"idle", "ack"} \/ row[r].status \notin {"queued", "analyzing"}
                 \/ r \in abandoned' \/ created[r] # 1,
               con'[c].msg = con[c].msg, \A e \in Consumers : e # c => con'[e] = con[e]
        PROVE  TendedInv'
    BY <1>2, <2>1, ConsumerTends
  <2>2. created[r] = 1 => con[c].msg.id = 1 /\ (Present(r) => row[r].id = 1)
    <3>1. row[r].id \in Nat /\ con[c].msg.id \in Nat
      BY <1>2, IdsAreNaturals DEF Rows
    <3>. QED BY <1>2, <3>1 DEF ConsumerFacts, RecordFacts, Present
  <2>3. CASE ReadAnalysis(c)
    <3>1. UNCHANGED <<row, created, req, queue, abandoned>> /\ con'[c].msg = con[c].msg
          /\ \A e \in Consumers : e # c => con'[e] = con[e]
      BY <2>3 DEF ReadAnalysis, ConGoto, Cons
    <3>2. con'[c].pc = "load" \/ row[r].status \notin {"queued", "analyzing"} \/ created[r] # 1
      <4>1. con'[c].pc = AfterRead(ById(r, con[c].msg.id))
        BY <2>3 DEF ReadAnalysis, ConGoto, Cons
      <4>. QED BY <2>2, <4>1 DEF AfterRead, ById, Present, Terminal
    <3>. QED BY <2>1, <3>1, <3>2
  <2>4. CASE LoadText(c)
    BY <2>1, <2>4 DEF LoadText, StartUpdate, Cons
  <2>5. CASE FindRow(c)
    <3>1. CASE Present(r)
      BY <2>1, <2>5, <3>1 DEF FindRow, Cons
    <3>2. CASE ~ Present(r)
      BY <2>1, <2>5, <3>2 DEF FindRow, ConGoto, Cons, Present
    <3>. QED BY <3>1, <3>2
  <2>6. CASE SaveRow(c)
    <3>1. CASE Unique(r, con[c].draft)
      <4>1. /\ row'[r] = con[c].draft /\ \A q \in Requests : q # r => row'[q] = row[q]
            /\ con'[c].pc = AfterUpdate(con[c].update) /\ con'[c].msg = con[c].msg
            /\ \A e \in Consumers : e # c => con'[e] = con[e]
            /\ UNCHANGED <<created, req, queue, abandoned>>
        BY <2>6, <3>1 DEF SaveRow, Cons
      <4>2. con[c].draft.status \in IF con[c].update = "analyzing" THEN {"analyzing"} ELSE Terminal
        BY <2>6 DEF SaveRow, ConsumerFacts
      <4>3. \/ row'[r].status \notin {"queued", "analyzing"}
            \/ con'[c].pc \notin {"idle", "ack"}
        BY <4>1, <4>2 DEF AfterUpdate, Terminal
      <4>4. row'[r].status \in {"analyzing"} \cup Terminal
        BY <4>1, <4>2
      <4>. QED BY <1>2, <4>1, <4>3, <4>4, ConsumerTends
    <3>2. CASE ~ Unique(r, con[c].draft)
      BY <2>1, <2>6, <3>2 DEF SaveRow, Fails, Cons, Abandon
    <3>. QED BY <3>1, <3>2
  <2>7. CASE CallLLM(c)
    BY <2>1, <2>7 DEF CallLLM, StartUpdate, Cons
  <2>8. CASE Raise(c)
    <3>1. CASE con[c].msg.count < MaxRetries
      <4>. PICK m \in Messages : m = [con[c].msg EXCEPT !.count = @ + 1]
        BY <1>2, <3>1, CountedTyped
      <4>1. m.req = r
        BY <1>2 DEF Messages
      <4>2. queue' = [queue EXCEPT ![m] = @ + 1] /\ con' = [con EXCEPT ![c] = NoCon]
            /\ UNCHANGED <<row, created, req, abandoned>>
        BY <2>8, <3>1 DEF Raise
      <4>3. queue'[m] > 0 /\ \A n \in Messages : queue[n] > 0 => queue'[n] > 0
        BY <4>2, MoreQueued, Zenon
      <4>4. (\A e \in Consumers : e # c => con'[e] = con[e]) /\ row'[r].status = row[r].status
        BY <4>2, Zenon
      <4>5. row'[r].status \in {row[r].status, "analyzing"} \cup Terminal
        BY <4>4, Zenon
      <4>6. \E n \in Messages : n.req = r /\ queue'[n] > 0
        BY <4>1, <4>3, Zenon
      <4>7. con[c].pc # "idle" /\ UNCHANGED <<row, created, req, abandoned>>
        BY <1>2, <4>2, Zenon
      <4>. QED BY <4>3, <4>4, <4>5, <4>6, <4>7, ConsumerTends, Zenon
    <3>2. CASE ~ (con[c].msg.count < MaxRetries)
      BY <2>1, <2>8, <3>2 DEF Raise, Cons
    <3>. QED BY <3>1, <3>2
  <2>9. CASE FinalRead(c)
    <3>1. UNCHANGED <<row, created, req, queue, abandoned>> /\ con'[c].msg = con[c].msg
          /\ \A e \in Consumers : e # c => con'[e] = con[e]
      BY <2>9 DEF FinalRead, ConGoto, StartUpdate, Cons
    <3>2. con'[c].pc = "find" \/ row[r].status \notin {"queued", "analyzing"} \/ created[r] # 1
      BY <2>2, <2>9 DEF FinalRead, ConGoto, StartUpdate, Cons, ById, Present, Terminal
    <3>. QED BY <2>1, <3>1, <3>2
  <2>10. CASE Ack(c)
    <3>1. con[c].pc = "ack" /\ con' = [con EXCEPT ![c] = NoCon]
          /\ UNCHANGED <<row, created, req, queue, abandoned>>
      BY <2>10 DEF Ack
    <3>. QED BY <1>2, <3>1, ConsumerTends
  <2>11. CASE HandlerFails(c)
    BY <2>1, <2>11 DEF HandlerFails, Fails, Cons, Abandon
  <2>12. CASE ConsumerDies(c)
    <3>1. queue' = [queue EXCEPT ![con[c].msg] = @ + 1] /\ con' = [con EXCEPT ![c] = NoCon]
          /\ UNCHANGED <<row, created, req, abandoned>>
      BY <2>12 DEF ConsumerDies
    <3>2. queue'[con[c].msg] > 0 /\ \A n \in Messages : queue[n] > 0 => queue'[n] > 0
      BY <1>2, <3>1
    <3>. QED BY <1>2, <3>1, <3>2, ConsumerTends
  <2>13. CASE Redeliver(c)
    <3>1. \A n \in Messages : queue[n] > 0 => queue'[n] > 0
      BY <1>2, <2>13 DEF Redeliver
    <3>2. \A q \in Requests : Attended(q) => Attended(q)'
      BY <2>13, <3>1, StillAttended DEF Redeliver
    <3>. QED BY <2>13, <3>2 DEF Redeliver, TendedInv, Tended
  <2>. QED BY <1>2, <2>3, <2>4, <2>5, <2>6, <2>7, <2>8, <2>9, <2>10, <2>11, <2>12, <2>13, <1>1
           DEF ConsumerStep, ConsumerFault
<1>3. CASE con[c].pc = "idle" /\ ~ \E m \in Messages : Receive(c, m)
  BY <1>3 DEF At, ConsumerStep, ConsumerFault, ReadAnalysis, LoadText, FindRow, SaveRow, CallLLM,
     Raise, FinalRead, Ack, HandlerFails, ConsumerDies, Redeliver
<1>. QED BY <1>1, <1>2, <1>3

LEMMA NextTended == Typed /\ RecordInv /\ TendedInv /\ [Next]_vars => TendedInv'
<1>. SUFFICES ASSUME Typed, RecordInv, TendedInv, [Next]_vars PROVE TendedInv'
  OBVIOUS
<1>1. CASE UNCHANGED vars
  BY <1>1 DEF vars, TendedInv, Tended, Attended, Msg
<1>. QED BY <1>1, RequestKeepsTended, RemovalKeepsTended, ConsumerKeepsTended DEF Next

LEMMA InitTended == Init => TendedInv
  BY DEF Init, TendedInv, Tended

\* An analysis that nobody works on any more is finished, or queued because its task gave
\* the dispatch up, for any number of consumers, retries, redeliveries and repeats.
THEOREM NoStuckAnalysisAlways == Spec => []NoStuckAnalysis
<1>1. Typed /\ TendedInv => NoStuckAnalysis
  <2>. SUFFICES ASSUME Typed, TendedInv, NEW r \in Requests, Quiet(r), r \notin abandoned,
                       created[r] = 1
                PROVE  /\ row[r].status # "analyzing"
                       /\ row[r].status = "queued" => ReqAt(r, "given_up")
    BY DEF NoStuckAnalysis
  <2>1. ~ Attended(r)
    BY DEF Attended, Quiet, At, Typed, TypeOK
  <2>. QED BY <2>1 DEF TendedInv, Tended, Quiet, ReqAt
<1>2. Typed /\ RecordInv /\ TendedInv /\ [Next]_vars => TendedInv'
  BY NextTended
<1>. QED BY <1>1, <1>2, InitTended, TypedAlways, RecordsAlways, PTL DEF Spec
=============================================================================

---------------------- MODULE AnalysisLifecycleResult ----------------------
(***************************************************************************)
(* AnalysisLifecycle implements AnalysisResult, where messages are handled *)
(* by one consumer at a time.                                              *)
(***************************************************************************)
EXTENDS AnalysisLifecycle

\* An analysis is one record, so a request that inserts again names another analysis.
Analyses == [req : Requests, id : Ids \ {0}]

StateOf(n) ==
  LET x == row[n.req] IN
  IF n.id > created[n.req] THEN "unborn"
  ELSE IF x.id # n.id THEN "removed"
  ELSE IF x.status = "failed" THEN x.kind ELSE x.status

ParentOf(n) ==
  IF Present(n.req) /\ row[n.req].id = n.id THEN row[n.req].parent ELSE NoParent

Result == INSTANCE AnalysisResult WITH
  Names <- Analyses, NoName <- NoParent,
  state <- [n \in Analyses |-> StateOf(n)],
  parent <- [n \in Analyses |-> ParentOf(n)]

\* Although every writer saves a record it found earlier, and failed handlers run again,
\* an analysis is assigned once: no saved copy undoes a result, revives what was removed
\* or gives a retry another parent.
AssignedOnce == Result!Spec
=============================================================================

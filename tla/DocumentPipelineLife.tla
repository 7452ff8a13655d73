------------------------ MODULE DocumentPipelineLife ------------------------
(***************************************************************************)
(* DocumentPipeline implements DocumentLife.                               *)
(***************************************************************************)
EXTENDS DocumentPipeline

\* The phase each document_status shows to the user.
PhaseOf(st) ==
  IF st \in {"created", "scanning", "uploading", "uploaded", "extracting"} THEN "working" ELSE st

Life == INSTANCE DocumentLife WITH
  phase <- [d \in Docs |-> PhaseOf(status[d])],
  stored <- [d \in Docs |-> key[d] # None],
  readable <- [d \in Docs |-> text[d] # None],
  asked <- requested

\* Tasks, retries, crashes, cancels and the shortcuts for known files never show a user
\* anything but a step of the promised life: no document is worked on again once it has its
\* text, none is extracted without its object and text, none is found infected that is kept.
KeepsPromise == Life!Spec
=============================================================================

---------------------------- MODULE DocumentLife ----------------------------
(***************************************************************************)
(* What a user is promised of an uploaded document: it is worked on until  *)
(* it is extracted, infected or failed, it may be cancelled at any time,   *)
(* an infected one is not kept, an extracted one is kept and readable and  *)
(* never worked on again, and an analysis is asked for only when there is  *)
(* a text.  Nothing is said of tasks, queues or files.                     *)
(***************************************************************************)
EXTENDS Naturals

CONSTANT Docs

VARIABLES
  phase,     \* the document's status, as far as it matters to its user
  stored,    \* whether it can be downloaded
  readable,  \* whether its text is stored
  asked      \* whether its analysis has been requested

vars == <<phase, stored, readable, asked>>

Init ==
  /\ phase = [d \in Docs |-> "none"]
  /\ stored = [d \in Docs |-> FALSE]
  /\ readable = [d \in Docs |-> FALSE]
  /\ asked = [d \in Docs |-> FALSE]

Becomes(d, p) == phase' = [phase EXCEPT ![d] = p]
Kept(d, b) == stored' = [stored EXCEPT ![d] = b]

\* An upload is accepted: as a new file, or as one that is known already.
Accept(d) ==
  /\ phase[d] = "none"
  /\ \/ Becomes(d, "working") /\ \E known \in BOOLEAN : Kept(d, known)
     \/ Becomes(d, "extracted") /\ Kept(d, TRUE)
  /\ UNCHANGED <<readable, asked>>

\* The work goes on.  Here, and when it ends, a cancel may be overrun: the promise is
\* not kept that a cancelled document stays cancelled.
Unfinished(d) == phase[d] \in {"working", "cancelled"}

Work(d) ==
  /\ Unfinished(d)
  /\ Becomes(d, "working")
  /\ stored' = stored \/ Kept(d, TRUE)
  /\ UNCHANGED <<readable, asked>>

\* A text is found, in the file or with an earlier upload of it; it is never lost.
Read(d) ==
  /\ phase[d] # "none" /\ stored[d]
  /\ readable' = [readable EXCEPT ![d] = TRUE]
  /\ UNCHANGED <<phase, stored, asked>>

Finish(d) ==
  /\ Unfinished(d)
  /\ \/ Becomes(d, "extracted") /\ stored[d] /\ readable[d]
     \/ Becomes(d, "infected") /\ ~ stored[d]
     \/ Becomes(d, "failed")
  /\ UNCHANGED <<stored, readable, asked>>

\* An end that was not acknowledged is lost: the work starts over, or is given up.
Reopen(d) ==
  /\ phase[d] \in {"infected", "failed"} /\ ~ readable[d]
  /\ Becomes(d, "working") \/ Becomes(d, "failed")
  /\ UNCHANGED <<stored, readable, asked>>

\* The text of an earlier upload could not be taken over.
Undo(d) ==
  /\ phase[d] = "extracted" /\ ~ readable[d]
  /\ Becomes(d, "working") \/ Becomes(d, "failed")
  /\ UNCHANGED <<stored, readable, asked>>

Cancel(d) ==
  /\ phase[d] # "none"
  /\ Becomes(d, "cancelled")
  /\ UNCHANGED <<stored, readable, asked>>

Ask(d) ==
  /\ readable[d]
  /\ asked' = [asked EXCEPT ![d] = TRUE]
  /\ UNCHANGED <<phase, stored, readable>>

Next ==
  \E d \in Docs :
    \/ Accept(d) \/ Work(d) \/ Read(d) \/ Finish(d) \/ Reopen(d) \/ Undo(d) \/ Cancel(d) \/ Ask(d)

Spec == Init /\ [][Next]_vars
=============================================================================

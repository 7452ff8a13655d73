--------------------------- MODULE AnalysisResult ---------------------------
(***************************************************************************)
(* What a user is promised of an analysis: a result that is assigned once. *)
(* It is queued, worked on and finished; then it never changes except by   *)
(* being removed, and what was removed never comes back.  A transient      *)
(* failure may be retried by another analysis, by one at a time.  Nothing  *)
(* is said of messages, attempts, redelivery or of how a record is saved.  *)
(***************************************************************************)
CONSTANTS
  Names,   \* every analysis there may ever be
  NoName   \* no analysis

VARIABLES
  state,   \* of each analysis
  parent   \* the analysis that one retries, or NoName

vars == <<state, parent>>

Finished == {"success", "transient", "permanent"}

Init ==
  /\ state = [n \in Names |-> "unborn"]
  /\ parent = [n \in Names |-> NoName]

Becomes(n, s) == state' = [state EXCEPT ![n] = s]

Request(n) ==
  /\ state[n] = "unborn"
  /\ Becomes(n, "queued")
  /\ UNCHANGED parent

\* The retry of an analysis p that has failed and may have been removed since.
Retry(n, p) ==
  /\ state[n] = "unborn"
  /\ state[p] \in {"transient", "removed"}
  /\ \A m \in Names : parent[m] # p
  /\ Becomes(n, "queued")
  /\ parent' = [parent EXCEPT ![n] = p]

Start(n) ==
  /\ state[n] = "queued"
  /\ Becomes(n, "analyzing")
  /\ UNCHANGED parent

Succeed(n) ==
  /\ state[n] = "analyzing"
  /\ Becomes(n, "success")
  /\ UNCHANGED parent

\* Dispatch, text or model fail: for good, or worth a retry.
Fail(n, kind) ==
  /\ state[n] \in {"queued", "analyzing"}
  /\ Becomes(n, kind)
  /\ UNCHANGED parent

Remove(n) ==
  /\ state[n] \in Finished
  /\ Becomes(n, "removed")
  /\ parent' = [parent EXCEPT ![n] = NoName]

Next ==
  \E n \in Names :
    \/ Request(n) \/ (\E p \in Names : Retry(n, p))
    \/ Start(n) \/ Succeed(n) \/ Remove(n)
    \/ \E kind \in {"transient", "permanent"} : Fail(n, kind)

Spec == Init /\ [][Next]_vars
=============================================================================

------------------------ MODULE MCAnalysisLifecycle -------------------------
(***************************************************************************)
(* Instances of AnalysisLifecycle for TLC.                                 *)
(***************************************************************************)
EXTENDS AnalysisLifecycleResult, TLC

CONSTANTS r1, r2, r3, c1, c2

\* Consumers run the same code, and requests that are not in Blank are interchangeable.
Symmetry == Permutations(Consumers) \cup Permutations(Requests \ Blank)
=============================================================================

------------------------- MODULE MCDocumentPipeline -------------------------
(***************************************************************************)
(* Instances of DocumentPipeline for TLC.                                  *)
(***************************************************************************)
EXTENDS DocumentPipelineLife, TLC

CONSTANTS d1, d2, u1, w1, w2, good, virus, broken, blank

\* Workers run the same code and documents are interchangeable.
Symmetry == Permutations(Workers) \cup Permutations(Docs)
=============================================================================

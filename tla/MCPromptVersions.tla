-------------------------- MODULE MCPromptVersions --------------------------
(***************************************************************************)
(* Instances of PromptVersions for TLC.                                    *)
(***************************************************************************)
EXTENDS PromptVersions

CONSTANTS v1, v2, v3, a1, a2, c1
=============================================================================

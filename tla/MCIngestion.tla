----------------------------- MODULE MCIngestion -----------------------------
(***************************************************************************)
(* Instances of Ingestion for TLC.                                         *)
(***************************************************************************)
EXTENDS Ingestion, TLC

\* Documents, texts and processes are interchangeable in every safety property.
SafetySymmetry ==
    Permutations(Docs) \cup Permutations(Contents \ Unwritable) \cup Permutations(Workers)
=============================================================================

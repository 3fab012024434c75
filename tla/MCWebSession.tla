---------------------------- MODULE MCWebSession ----------------------------
(***************************************************************************)
(* Instances of WebSession for TLC.  No symmetry: the run checks liveness, *)
(* and the counterexamples of the others are short.                        *)
(***************************************************************************)
EXTENDS WebSession
=============================================================================

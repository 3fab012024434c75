------------------------------- MODULE MCAuth -------------------------------
(***************************************************************************)
(* Instances of Auth for TLC.                                              *)
(***************************************************************************)
EXTENDS Auth, TLC

\* Tokens and requests are interchangeable.
AuthSymmetry == Permutations(Jtis) \cup Permutations(Requests)
=============================================================================

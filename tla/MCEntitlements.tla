--------------------------- MODULE MCEntitlements ---------------------------
(***************************************************************************)
(* Instances of Entitlements for TLC: the documents share one of the scopes.*)
(***************************************************************************)
EXTENDS Entitlements, TLC

CONSTANT p1

FirstScope == [d \in Docs |-> p1]

RequestSymmetry ==
    Permutations(Patches) \cup Permutations(Clients) \cup Permutations(Subs)
=============================================================================

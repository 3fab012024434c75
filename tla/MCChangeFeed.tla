---------------------------- MODULE MCChangeFeed ----------------------------
(***************************************************************************)
(* An instance of ChangeFeed for TLC: two documents, each in a scope of    *)
(* its own.                                                                *)
(***************************************************************************)
EXTENDS ChangeFeed, TLC

CONSTANTS d1, d2, s1, s2

TwoScopes == [d \in Docs |-> IF d = d1 THEN s1 ELSE s2]

\* Everything; one document; a window of one microsecond.
SomeQueries ==
    {[docs |-> Docs, since |-> 0, until |-> MaxClock + 1],
     [docs |-> {d1}, since |-> 0, until |-> MaxClock + 1],
     [docs |-> Docs, since |-> 2, until |-> 3]}

WriterSymmetry == Permutations(Writers)
=============================================================================

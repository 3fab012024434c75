---------------------------- MODULE MCAlignment ----------------------------
(***************************************************************************)
(* Instances of Alignment for TLC: parts and sections under them, a title  *)
(* that may repeat, a long text and one too short to have a shingle. Loose *)
(* text joins them into bodies more or less alike.  The label "I/t" of a   *)
(* part and the title "t" under the part "I" give paths that join to one   *)
(* string.                                                                 *)
(***************************************************************************)
EXTENDS Alignment

TwoParts == {[depth |-> 1, label |-> "I"], [depth |-> 1, label |-> "I/t"]}
OneSlash == [label \in {"I/t"} |-> <<"I", "t">>]
SomeTexts == {<<"a", "b">>, <<"x">>}
=============================================================================

---------------------------- MODULE ClauseParser ----------------------------
(***************************************************************************)
(* The builder of core/alignment/parser.py: the blocks of a markdown       *)
(* document are consumed one at a time and leave a tree of clauses.        *)
(*                                                                         *)
(* nodes lists the clauses in the order they are opened.  A clause is only *)
(* ever added under the clause on top of the stack, so that order is the   *)
(* pre-order in which Clause.walk later visits them; nodes[1] is the root. *)
(* A text is a sequence of tokens and a body the concatenation of its      *)
(* parts.  A segment of a path is <<name, n>>: n = 1 is the plain name and *)
(* n > 1 the "-n" suffix of a repeated one; <<"#", n>> is the n-th child   *)
(* that has no name.  A paragraph with several structural markers is a     *)
(* run of Match steps, one per marker; regular expressions, bold spans and *)
(* ignored paragraphs decide which step a block is and stay outside.       *)
(***************************************************************************)
EXTENDS Naturals, Sequences, FiniteSets

CONSTANTS
    Markers,    \* structural markers: [depth, label]
    Titles,     \* texts of headings and of bold-only paragraphs
    Unnamed,    \* titles whose slug is empty
    Levels,     \* levels of markdown headings, after the configured offset
    Texts,      \* texts of paragraphs and of loose blocks
    NoText,     \* a heading or a label that is absent
    MaxBlocks   \* bound: blocks read, over all versions of the document

VARIABLES nodes, stack, pending, blocks

treeVars == <<nodes, stack, pending, blocks>>

ASSUME ParserAssumption ==
    /\ MaxBlocks \in Nat
    /\ \A m \in Markers : m.depth \in Nat \ {0} /\ m.label # NoText /\ m.label # "#"
    /\ Levels \subseteq Nat
    /\ NoText \notin Titles /\ "#" \notin Titles
    /\ Texts \subseteq Seq(STRING)

Labels == {m.label : m \in Markers}

Root == [parent |-> 0, ord |-> 0, kids |-> 0, depth |-> 0, path |-> <<>>,
         heading |-> NoText, body |-> <<>>, label |-> NoText]

Top == stack[Len(stack)]

\* Segments the children of a clause already use.
Taken(p) == {nodes[k].path[Len(nodes[k].path)] : k \in {j \in DOMAIN nodes : nodes[j].parent = p}}

\* Fault: the first suffix is used again for a third clause of the same name.
SegmentSuffixedOnce(name, p) ==
    IF <<name, 1>> \in Taken(p) THEN <<name, 2>> ELSE <<name, 1>>

\* The plain name, or the name with the least suffix no sibling carries.
DisambiguateSegment(name, p) ==
    <<name, CHOOSE n \in 1..(Len(nodes) + 1) :
                /\ <<name, n>> \notin Taken(p)
                /\ \A k \in 1..(n - 1) : <<name, k>> \in Taken(p)>>

\* The stack once every clause at this depth or deeper is popped; the root stays.
Popped(depth) ==
    LET open == {k \in DOMAIN stack : k = 1 \/ nodes[stack[k]].depth < depth}
    IN SubSeq(stack, 1, CHOOSE k \in open : \A j \in open : j <= k)

\* A new last child of p.
Child(p, depth, seg, heading, body, label) ==
    [parent |-> p, ord |-> nodes[p].kids + 1, kids |-> 0, depth |-> depth,
     path |-> Append(nodes[p].path, seg), heading |-> heading, body |-> body, label |-> label]

WithChild(p, c) == Append([nodes EXCEPT ![p].kids = @ + 1], c)

-----------------------------------------------------------------------------
StartTree ==
    /\ nodes' = <<Root>>
    /\ stack' = <<1>>
    /\ pending' = NoText
    /\ UNCHANGED blocks

CountBlock == blocks < MaxBlocks /\ blocks' = blocks + 1

\* _open_clause: title is the explicit heading of a markdown heading, or NoText
\* for a marker, which takes the pending heading if there is one.
OpenClause(depth, label, body, title) ==
    LET st == Popped(depth)
        p == st[Len(st)]
        heading == IF title # NoText THEN title ELSE pending
        seg == IF label # NoText THEN DisambiguateSegment(label, p)
               ELSE IF heading \in Unnamed THEN <<"#", nodes[p].kids + 1>>
               ELSE DisambiguateSegment(heading, p)
    IN /\ nodes' = WithChild(p, Child(p, depth, seg, heading, body, label))
       /\ stack' = Append(st, Len(nodes) + 1)
       /\ pending' = IF title # NoText THEN pending ELSE NoText

\* A paragraph, or the part of one, that starts at a structural marker.
ConsumeMatch(m, body) == CountBlock /\ OpenClause(m.depth, m.label, body, NoText)

ConsumeHeading(level, title) ==
    CountBlock /\ OpenClause(IF level = 0 THEN 1 ELSE level, NoText, <<>>, title)

\* _add_leaf: prose without a marker, or the text before the first marker.
ConsumeProse(body) ==
    /\ CountBlock
    /\ nodes' = WithChild(Top, Child(Top, nodes[Top].depth + 1, <<"#", nodes[Top].kids + 1>>,
                                     NoText, body, NoText))
    /\ UNCHANGED <<stack, pending>>

\* _absorb_bold_heading: the title of the clause just opened, if it is still
\* bare, otherwise of the next one.
ConsumeBold(title) ==
    /\ CountBlock
    /\ IF Top = 1 \/ nodes[Top].heading # NoText \/ nodes[Top].body # <<>> \/ nodes[Top].kids > 0
       THEN pending' = title /\ nodes' = nodes
       ELSE nodes' = [nodes EXCEPT ![Top].heading = title] /\ pending' = pending
    /\ UNCHANGED stack

ConsumeLoose(text) ==
    /\ CountBlock
    /\ nodes' = [nodes EXCEPT ![Top].body = @ \o text]
    /\ UNCHANGED <<stack, pending>>

Consume ==
    \/ \E m \in Markers, body \in Texts \cup {<<>>} : ConsumeMatch(m, body)
    \/ \E level \in Levels, title \in Titles : ConsumeHeading(level, title)
    \/ \E body \in Texts : ConsumeProse(body)
    \/ \E title \in Titles : ConsumeBold(title)
    \/ \E text \in Texts : ConsumeLoose(text)

-----------------------------------------------------------------------------
NodeSet ==
    [parent : Nat, ord : Nat, kids : Nat, depth : Nat,
     path : Seq((Labels \cup Titles \cup {"#"}) \X (Nat \ {0})),
     heading : Titles \cup {NoText}, body : Seq(STRING), label : Labels \cup {NoText}]

TreeOK ==
    /\ nodes \in Seq(NodeSet) /\ stack \in Seq(Nat \ {0})
    /\ pending \in Titles \cup {NoText} /\ blocks \in 0..MaxBlocks

\* No two clauses of a tree have the same path: the key of the uid map of poll.py,
\* and of the partner an event names there.
PathsUnique == \A i, j \in DOMAIN nodes : nodes[i].path = nodes[j].path => i = j
=============================================================================

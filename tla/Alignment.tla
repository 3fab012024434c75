----------------------------- MODULE Alignment -----------------------------
(***************************************************************************)
(* The changed path of poll_document, seen from the content: the new text  *)
(* is parsed (ClauseParser), its clauses are aligned with the rows of the  *)
(* version before (core/alignment/align.py), and the pairing becomes the   *)
(* change events and the clause uids of a new version (poll.py).  One      *)
(* document; the transaction around it is the subject of Ingestion.        *)
(*                                                                         *)
(* versions[n] is the sequence of clause rows of version n and events[n]   *)
(* the change events that came with it.  A pair <<i, j, c>> says that row  *)
(* i of the version before and clause j of the new tree are the same       *)
(* clause, with confidence c in percent.  A signature is the set of        *)
(* shingles it samples and similarity the exact Jaccard index of two sets, *)
(* which is what the MinHash estimate estimates.                           *)
(*                                                                         *)
(* A row keeps its path as one string, the segments joined by '/', and is  *)
(* read back with split('/').  The model keeps what the split gives, which *)
(* tells two such strings apart; it is another path than the tree had when *)
(* a label holds a '/'.                                                    *)
(***************************************************************************)
EXTENDS ClauseParser, SequencesExt

CONSTANTS
    Parts,        \* what split('/') makes of the labels that hold a '/'
    ShingleK,     \* words per shingle
    Threshold,    \* least similarity of a pair, in percent
    MaxVersions   \* bound: versions of the document

VARIABLES
    phase,      \* "idle", "parse", "anchor", "content"
    anchored,   \* pairs of the heading pass
    links,      \* pairs of left-over clauses that the LSH index brings together
    matched,    \* pairs of the content pass
    at,         \* where the traceback of the content pass stands: <<a, b>>
    versions, events

alignVars == <<phase, anchored, links, matched, at, versions, events>>
pollVars == <<treeVars, alignVars>>

ASSUME AlignAssumption ==
    /\ ShingleK \in Nat \ {0} /\ Threshold \in 1..100 /\ MaxVersions \in Nat

Pieces == UNION {ToSet(Parts[label]) : label \in DOMAIN Parts}

\* Slugs and "#n" hold no '/'.  Of the patterns only CAST (config.py:58) admits
\* one, at depth 1: such a label is the first segment of a path.
ASSUME SlashAssumption ==
    /\ \A label \in DOMAIN Parts : Parts[label] \in Seq(Pieces) /\ Len(Parts[label]) > 1
    /\ DOMAIN Parts \cap (Titles \cup {"#"} \cup Pieces) = {}
    /\ \A m \in Markers : m.label \in DOMAIN Parts => m.depth = 1

-----------------------------------------------------------------------------
(* Paths in the table *)

\* "/".join(path) read back with split('/'); the suffix of a repeated name is
\* at the end of its last piece.
Stored(path) ==
    IF path # <<>> /\ path[1][1] \in DOMAIN Parts
    THEN LET pieces == Parts[path[1][1]]
         IN [k \in DOMAIN pieces |-> <<pieces[k], IF k = Len(pieces) THEN path[1][2] ELSE 1>>]
            \o Tail(path)
    ELSE path

\* A path that does not come back as it went.
Slashed(path) == Stored(path) # path

-----------------------------------------------------------------------------
(* Similarity (similarity.py) *)

Shingle(text) == {SubSeq(text, i, i + ShingleK - 1) : i \in 1..(Len(text) + 1 - ShingleK)}

Jaccard(s, t) ==
    IF s \cup t = {} THEN 100 ELSE (100 * Cardinality(s \cap t)) \div Cardinality(s \cup t)

Sim(c, d) == Jaccard(Shingle(c.body), Shingle(d.body))

Long(c) == Shingle(c.body) # {}

-----------------------------------------------------------------------------
(* The candidates of both sides (align.py) *)

Prev == IF versions = <<>> THEN <<>> ELSE versions[Len(versions)]

\* _persistable: what becomes a row; the root only when loose text opens the document.
Persistable(c) == c.body # <<>> \/ c.heading # NoText

\* _collect_candidates: the clauses with a body.
Cands(tree) == {i \in DOMAIN tree : tree[i].body # <<>>}

SameAnchor(c, d) ==
    \/ c.heading # NoText /\ c.heading = d.heading
    \/ c.heading = NoText /\ d.heading = NoText /\ c.path = d.path

\* _pass2_confidence is not None.
Corroborates(c, d) ==
    \/ Long(c) /\ Long(d) /\ Sim(c, d) >= Threshold
    \/ ~Long(c) /\ ~Long(d) /\ c.body = d.body

Confidence(c, d) == IF Long(c) /\ Long(d) /\ Sim(c, d) > 90 THEN Sim(c, d) ELSE 90

Used(pairs, k) == {p[k] : p \in pairs}

\* Fault: a pairing marks its row, not its new clause, as taken.
TriplesOneSided ==
    {<<p[1], p[2], Confidence(Prev[p[1]], nodes[p[2]])>> :
        p \in {q \in Cands(Prev) \X Cands(nodes) :
            /\ SameAnchor(Prev[q[1]], nodes[q[2]])
            /\ Corroborates(Prev[q[1]], nodes[q[2]])
            /\ q[1] \notin Used(anchored, 1)}}

\* Triples of _pass_heading_match that are still free on both sides.
Triples ==
    {<<p[1], p[2], Confidence(Prev[p[1]], nodes[p[2]])>> :
        p \in {q \in Cands(Prev) \X Cands(nodes) :
            /\ SameAnchor(Prev[q[1]], nodes[q[2]])
            /\ Corroborates(Prev[q[1]], nodes[q[2]])
            /\ q[1] \notin Used(anchored, 1) /\ q[2] \notin Used(anchored, 2)}}

\* Fault: among equals the earliest partner is taken first.
BeforeByFirstPartner(t, u) ==
    \/ t[3] > u[3]
    \/ t[3] = u[3] /\ t[1] > u[1]
    \/ t[3] = u[3] /\ t[1] = u[1] /\ t[2] <= u[2]

\* The order triples.sort(reverse=True) takes them in.
Before(t, u) ==
    \/ t[3] > u[3]
    \/ t[3] = u[3] /\ t[1] > u[1]
    \/ t[3] = u[3] /\ t[1] = u[1] /\ t[2] >= u[2]

\* The numbers of a set in ascending order.
InOrder(S) == [k \in 1..Cardinality(S) |-> CHOOSE x \in S : Cardinality({y \in S : y <= x}) = k]

\* seq_v1 and seq_v2 of the content pass: what the heading pass left, in document order.
Left == InOrder({i \in Cands(Prev) \ Used(anchored, 1) : Long(Prev[i])})
Right == InOrder({j \in Cands(nodes) \ Used(anchored, 2) : Long(nodes[j])})

\* What lsh_candidates may yield: equal signatures share every band, others may share none.
CandidateSets ==
    LET alike(t) == {p \in ToSet(Left) \X ToSet(Right) : Sim(Prev[p[1]], nodes[p[2]]) >= t}
    IN {L \in SUBSET alike(Threshold) : alike(100) \subseteq L}

Greater(x, y) == IF x >= y THEN x ELSE y

\* The best total similarity of the first a and the first b clauses left over.
Dp[ab \in (0..Len(Left)) \X (0..Len(Right))] ==
    LET a == ab[1]  b == ab[2]
        skip == Greater(Dp[<<a - 1, b>>], Dp[<<a, b - 1>>])
    IN IF a = 0 \/ b = 0 THEN 0
       ELSE IF <<Left[a], Right[b]>> \in links
            THEN Greater(skip, Dp[<<a - 1, b - 1>>] + Sim(Prev[Left[a]], nodes[Right[b]]))
            ELSE skip

\* Fault: every link is taken, whatever it costs the others.
MoveGreedy(a, b) ==
    IF <<Left[a], Right[b]>> \in links THEN "pair"
    ELSE IF Dp[<<a, b - 1>>] > Dp[<<a - 1, b>>] THEN "skip_v2" ELSE "skip_v1"

\* trace[a][b]: a pair on a tie, then skip_v1.
Move(a, b) ==
    LET skip == Greater(Dp[<<a - 1, b>>], Dp[<<a, b - 1>>])
    IN IF <<Left[a], Right[b]>> \in links
          /\ Dp[<<a - 1, b - 1>>] + Sim(Prev[Left[a]], nodes[Right[b]]) >= skip THEN "pair"
       ELSE IF Dp[<<a, b - 1>>] > Dp[<<a - 1, b>>] THEN "skip_v2" ELSE "skip_v1"

-----------------------------------------------------------------------------
(* Events and uids of the new version *)

Pairs == anchored \cup matched

Event(type, before, after, old, new, conf) ==
    [type |-> type, before_path |-> before, after_path |-> after,
     before_text |-> old, after_text |-> new, confidence |-> conf]

\* A pair speaks unless path and text are both unchanged.
PairEvents ==
    {Event(IF Prev[p[1]].body = nodes[p[2]].body THEN "MOVED" ELSE "MODIFIED",
           Prev[p[1]].path, nodes[p[2]].path, Prev[p[1]].body, nodes[p[2]].body, p[3]) :
        p \in {q \in Pairs : \/ Prev[q[1]].path # nodes[q[2]].path
                             \/ Prev[q[1]].body # nodes[q[2]].body}}

NoPath == <<<<"none", 0>>>>

\* Fault: the clauses of the version before that found no partner are dropped silently.
EmitWithoutRemoved ==
    PairEvents \cup
    {Event("ADDED", NoPath, nodes[j].path, <<>>, nodes[j].body, 100) :
        j \in Cands(nodes) \ Used(Pairs, 2)}

\* _emit_events, and _initial_events when there is no version before.
EmitEvents ==
    PairEvents \cup
    {Event("REMOVED", Prev[i].path, NoPath, Prev[i].body, <<>>, 100) :
        i \in Cands(Prev) \ Used(Pairs, 1)} \cup
    {Event("ADDED", NoPath, nodes[j].path, <<>>, nodes[j].body, 100) :
        j \in Cands(nodes) \ Used(Pairs, 2)}

Rows(path) == {i \in DOMAIN Prev : Prev[i].path = path}

UidAt(path) == Prev[CHOOSE i \in Rows(path) : TRUE].uid

\* Fault: the events are not asked.
OwnPathOnly(c) == c.path

\* Where a clause takes its uid from: the path its event names, else its own.
SourcePath(c) ==
    LET named == {e \in EmitEvents : e.type \in {"MOVED", "MODIFIED"} /\ e.after_path = c.path}
    IN IF named # {} /\ Rows((CHOOSE e \in named : TRUE).before_path) # {}
       THEN (CHOOSE e \in named : TRUE).before_path
       ELSE c.path

\* _build_clause_uid_map: inherited, or fresh (named by the version and clause that mint it).
UidOf(j) ==
    LET source == SourcePath(nodes[j])
    IN IF Rows(source) # {} THEN UidAt(source) ELSE <<Len(versions) + 1, j>>

Row(j) == [uid |-> UidOf(j), path |-> Stored(nodes[j].path), heading |-> nodes[j].heading,
           body |-> nodes[j].body, label |-> nodes[j].label]

\* The clauses that become rows, in document order.
Kept == InOrder({j \in DOMAIN nodes : Persistable(nodes[j])})

NewRows == [k \in DOMAIN Kept |-> Row(Kept[k])]

\* UNIQUE (document_version_id, clause_path)
PathsApart ==
    \A i, j \in {k \in DOMAIN nodes : Persistable(nodes[k])} :
        Stored(nodes[i].path) = Stored(nodes[j].path) => i = j

-----------------------------------------------------------------------------
AlignInit ==
    /\ nodes = <<Root>> /\ stack = <<1>> /\ pending = NoText /\ blocks = 0
    /\ phase = "idle" /\ anchored = {} /\ links = {} /\ matched = {} /\ at = <<0, 0>>
    /\ versions = <<>> /\ events = <<>>

\* A poll whose content differs from the live version starts to parse it.
Fetch ==
    /\ phase = "idle" /\ Len(versions) < MaxVersions
    /\ phase' = "parse"
    /\ StartTree
    /\ UNCHANGED <<anchored, links, matched, at, versions, events>>

\* The same, when the new content parses to the clauses of the one polled last.
FetchReformatted ==
    /\ phase = "idle" /\ Len(versions) \in 1..(MaxVersions - 1)
    /\ phase' = "anchor"
    /\ UNCHANGED <<treeVars, anchored, links, matched, at, versions, events>>

Parse ==
    /\ phase = "parse"
    /\ Consume
    /\ UNCHANGED alignVars

\* finalize: the builder's stack and pending heading go with it.
EndOfText ==
    /\ phase = "parse"
    /\ phase' = "anchor"
    /\ stack' = <<1>> /\ pending' = NoText
    /\ UNCHANGED <<nodes, blocks, anchored, links, matched, at, versions, events>>

\* The greedy loop of _pass_heading_match takes the first triple that is free on both sides.
PairByAnchor ==
    /\ phase = "anchor"
    /\ LET free == Triples
       IN \E t \in free :
             /\ \A u \in free : Before(t, u)
             /\ anchored' = anchored \cup {t}
    /\ UNCHANGED <<treeVars, phase, links, matched, at, versions, events>>

EndAnchors ==
    /\ phase = "anchor" /\ Triples = {}
    /\ phase' = "content"
    /\ links' \in CandidateSets
    /\ at' = <<Len(Left), Len(Right)>>
    /\ UNCHANGED <<treeVars, anchored, matched, versions, events>>

\* One step of the traceback of _pass_content_monotonic.
TraceBack ==
    LET a == at[1]  b == at[2]  move == Move(a, b)
    IN /\ phase = "content" /\ a > 0 /\ b > 0
       /\ matched' = IF move = "pair"
                     THEN matched \cup {<<Left[a], Right[b], Sim(Prev[Left[a]], nodes[Right[b]])>>}
                     ELSE matched
       /\ at' = CASE move = "pair" -> <<a - 1, b - 1>>
                  [] move = "skip_v1" -> <<a - 1, b>>
                  [] OTHER -> <<a, b - 1>>
       /\ UNCHANGED <<treeVars, phase, anchored, links, versions, events>>

\* The poll ends, and its working sets with it.
EndPoll ==
    /\ phase = "content" /\ (at[1] = 0 \/ at[2] = 0)
    /\ phase' = "idle"
    /\ anchored' = {} /\ links' = {} /\ matched' = {} /\ at' = <<0, 0>>
    /\ UNCHANGED treeVars

\* The inserts of the version, its clauses and its events, in one transaction.
Persist ==
    /\ EndPoll /\ PathsApart
    /\ versions' = Append(versions, NewRows)
    /\ events' = Append(events, EmitEvents)

\* Two paths that join to one string: the insert raises and the tick is rolled back.
PersistRefused ==
    /\ EndPoll /\ ~PathsApart
    /\ UNCHANGED <<versions, events>>

AlignNext ==
    \/ Fetch \/ FetchReformatted \/ Parse \/ EndOfText
    \/ PairByAnchor \/ EndAnchors \/ TraceBack
    \/ Persist \/ PersistRefused

AlignSpec == AlignInit /\ [][AlignNext]_pollVars

-----------------------------------------------------------------------------
(* What the poll promises of versions and events *)

Uids == (Nat \ {0}) \X (Nat \ {0})
Paths == Seq((Labels \cup Titles \cup {"#"} \cup Pieces) \X (Nat \ {0}))

RowSet == [uid : Uids, path : Paths, heading : Titles \cup {NoText}, body : Seq(STRING),
           label : Labels \cup {NoText}]

EventSet == [type : {"ADDED", "REMOVED", "MOVED", "MODIFIED"}, before_path : Paths \cup {NoPath},
             after_path : Paths \cup {NoPath}, before_text : Seq(STRING), after_text : Seq(STRING),
             confidence : 0..100]

\* The field rules of ChangeEvent: an event that breaks one raises and fails the poll.
ValidEvent(e) ==
    CASE e.type = "ADDED" -> e.before_path = NoPath /\ e.after_path # NoPath
      [] e.type = "REMOVED" -> e.after_path = NoPath /\ e.before_path # NoPath
      [] e.type = "MOVED" -> e.before_text = e.after_text /\ e.before_path # e.after_path
      [] e.type = "MODIFIED" -> e.before_text # e.after_text

\* Types; every stored event is one that ChangeEvent accepts.
AlignTypeOK ==
    /\ TreeOK
    /\ phase \in {"idle", "parse", "anchor", "content"}
    /\ anchored \subseteq (Nat \X Nat \X (0..100)) /\ matched \subseteq (Nat \X Nat \X (0..100))
    /\ links \subseteq (Nat \X Nat) /\ at \in Nat \X Nat
    /\ versions \in Seq(Seq(RowSet)) /\ Len(versions) <= MaxVersions
    /\ events \in Seq(SUBSET EventSet) /\ Len(events) = Len(versions)
    /\ \A n \in DOMAIN events : \A e \in events[n] : ValidEvent(e)

Texted(rows) == {<<rows[i].path, rows[i].body>> : i \in {k \in DOMAIN rows : rows[k].body # <<>>}}

RowsOf(n) == IF n = 0 THEN <<>> ELSE versions[n]

\* Striking out what a version's events call before and writing in what they
\* call after turns the texts of the version before into its own, by the paths
\* as they are stored: nothing that changed goes unreported, and nothing is
\* reported twice or wrongly, also where a path does not come back as it went.
DiffReplays ==
    \A n \in DOMAIN versions :
        LET out == {<<e.before_path, e.before_text>> : e \in {x \in events[n] : x.type # "ADDED"}}
            in == {<<Stored(e.after_path), e.after_text>> : e \in {x \in events[n] : x.type # "REMOVED"}}
        IN /\ out \subseteq Texted(RowsOf(n - 1)) /\ in \subseteq Texted(versions[n])
           /\ Texted(versions[n]) = (Texted(RowsOf(n - 1)) \ out) \cup in

SameRows(r, s) ==
    /\ Len(r) = Len(s)
    /\ \A i \in DOMAIN r : <<r[i].path, r[i].heading, r[i].body>> = <<s[i].path, s[i].heading, s[i].body>>

\* A version whose rows are those of the one before brings no event and no new
\* uid, whatever titles and texts repeat inside it, except for the very clauses
\* whose path holds a '/': those alone are reported as moved, or as removed and
\* added, though nothing about them changed (align's docstring calls re-ingestion
\* of an unchanged version a zero-row operation).
UnchangedIsSilent ==
    [][LET new == versions'[Len(versions')]
       IN Len(versions') > Len(versions) /\ SameRows(new, Prev) =>
            /\ \A e \in events'[Len(events')] : \E j \in DOMAIN nodes :
                  /\ Slashed(nodes[j].path)
                  /\ e.after_path = nodes[j].path \/ e.before_path = Stored(nodes[j].path)
            /\ \A k \in DOMAIN new :
                  ~Slashed(nodes[Kept[k]].path) => new[k].uid = Prev[k].uid]_pollVars

\* What that docstring says of every document: an unchanged version brings no event.
UnchangedIsZeroRow ==
    \A n \in DOMAIN versions :
        n > 1 /\ SameRows(versions[n], versions[n - 1]) => events[n] = {}

NonCrossing(M) == \A p, q \in M : p[1] < q[1] <=> p[2] < q[2]

\* The total similarity of a pairing: each pair stands for its percent points,
\* and the points are counted.
Weight(M) == Cardinality(UNION {{p} \X (1..p[3]) : p \in M})

Links == {<<l[1], l[2], Sim(Prev[l[1]], nodes[l[2]])>> : l \in links}

\* The content pass ends with a pairing in document order that no other such
\* pairing outweighs.
ContentOptimal ==
    phase = "content" /\ (at[1] = 0 \/ at[2] = 0) =>
        /\ matched \subseteq Links /\ NonCrossing(matched)
        /\ \A M \in SUBSET Links : NonCrossing(M) => Weight(M) <= Weight(matched)

\* No clause of either side has two partners.
PairsOneToOne ==
    phase \in {"anchor", "content"} =>
        \A p, q \in Pairs : p[1] = q[1] \/ p[2] = q[2] => p = q

\* A clause the alignment paired keeps the uid of its partner (poll.md, Clause-UID
\* identity rule), through renaming, moving and rewording.
PairKeepsUid ==
    [][LET new == versions'[Len(versions')]
       IN Len(versions') > Len(versions) =>
            \A p \in Pairs : \A k \in DOMAIN new :
                new[k].path = Stored(nodes[p[2]].path) => new[k].uid = Prev[p[1]].uid]_pollVars

\* A clause reported as added has a uid no earlier version knows (poll.md:154,
\* "An unpaired after-side clause gets a fresh uuid4()").
AddedIsFresh ==
    \A n \in DOMAIN versions : \A e \in events[n] : \A k \in DOMAIN versions[n] :
        e.type = "ADDED" /\ versions[n][k].path = Stored(e.after_path) => versions[n][k].uid[1] = n
=============================================================================

-------------------------- MODULE ChangeFeedProofs --------------------------
(***************************************************************************)
(* Theorems about a client's walk through the change feed, for every set   *)
(* of documents, scopes and writers, any number of events and any limits.  *)
(***************************************************************************)
EXTENDS ChangeFeed, TLAPS

LEMMA InitType == Init => TypeOK
  BY FeedAssumption DEF Init, TypeOK

LEMMA RemainingType == ASSUME TypeOK PROVE Remaining \subseteq Event
  BY DEF TypeOK, Remaining

LEMMA NextType == TypeOK /\ [Next]_vars => TypeOK'
<1> SUFFICES ASSUME TypeOK, [Next]_vars PROVE TypeOK'
  OBVIOUS
<1> USE FeedAssumption
<1>1. ASSUME NEW w \in Writers, Begin(w) PROVE TypeOK'
  BY <1>1 DEF Begin, TypeOK, walkVars
<1>2. ASSUME NEW w \in Writers, Insert(w) PROVE TypeOK'
  <2>1. PICK d \in Docs :
           draft' = [draft EXCEPT ![w] = @ \cup {[id |-> seq', at |-> began[w], doc |-> d]}]
    BY <1>2 DEF Insert
  <2>2. [id |-> seq', at |-> began[w], doc |-> d] \in Event
    BY <1>2 DEF Insert, TypeOK, Event
  <2>3. draft' \in [Writers -> SUBSET Event]
    BY <2>1, <2>2 DEF TypeOK
  <2> QED
    BY <1>2, <2>3 DEF Insert, TypeOK, walkVars
<1>3. ASSUME NEW w \in Writers, Commit(w) \/ Rollback(w) PROVE TypeOK'
  BY <1>3 DEF Commit, Rollback, EndTransaction, TypeOK, walkVars
<1>4. ASSUME NEW s \in Scopes, Grant(s) \/ Revoke(s) PROVE TypeOK'
  BY <1>4 DEF Grant, Revoke, TypeOK, walkVars, writeVars
<1>5. CASE StartWalk
  BY <1>5 DEF StartWalk, TypeOK, writeVars
<1>6. ASSUME NEW limit \in 1 .. MaxLimit, LastPage(limit) PROVE TypeOK'
  BY <1>6, RemainingType DEF LastPage, TypeOK, writeVars
<1>7. ASSUME NEW limit \in 1 .. MaxLimit, NextPage(limit) PROVE TypeOK'
  <2>1. page' \subseteq Event
    BY <1>7, RemainingType DEF NextPage
  <2>2. cursor' \in Position
    BY <1>7, <2>1 DEF NextPage, Event, Position
  <2> QED
    BY <1>7, <2>1, <2>2 DEF NextPage, TypeOK, writeVars
<1>8. CASE UNCHANGED vars
  BY <1>8 DEF vars, TypeOK
<1> QED
  BY <1>1, <1>2, <1>3, <1>4, <1>5, <1>6, <1>7, <1>8 DEF Next

\* Every variable of the feed keeps its type, for all bounds.
THEOREM FeedTypeCorrect == Spec => []TypeOK
  BY InitType, NextType, PTL DEF Spec

-----------------------------------------------------------------------------
\* The cursor splits the feed: what has been returned lies at or before it,
\* and what is owed and has not been returned lies behind it.
Returned(e) == e \in shown \cup page

Behind == \A e \in Event :
             Returned(e) => /\ cursor # NoCursor
                            /\ Older(cursor, e) \/ (e.at = cursor.at /\ e.id = cursor.id)
Ahead  == \A e \in owed : Returned(e) \/ PastCursor(e)

WalkInv ==
    /\ TypeOK
    /\ ~done => Behind /\ Ahead
    /\ \A e \in owed : e \in events /\ Visible(e) /\ Matches(e, query)
    /\ InOrder
    /\ Complete

LEMMA InitWalk == Init => WalkInv
  BY InitType DEF Init, WalkInv, InOrder, Complete

LEMMA OlderIsOrder ==
    ASSUME NEW e, NEW f, NEW g, e.at \in Int, f.at \in Int, g.at \in Int,
           e.id \in Int, f.id \in Int, g.id \in Int, Older(e, f),
           Older(f, g) \/ (f.at = g.at /\ f.id = g.id)
    PROVE  Older(e, g)
  BY DEF Older

\* What a page returns lies behind everything returned before.
LEMMA PageGoesOn ==
    ASSUME WalkInv, ~done, NEW e \in Remaining, NEW s \in Event, Returned(s)
    PROVE  Older(e, s)
<1>1. cursor # NoCursor /\ (Older(cursor, s) \/ (s.at = cursor.at /\ s.id = cursor.id))
  BY DEF WalkInv, Behind
<1>2. Older(e, cursor)
  BY <1>1 DEF Remaining, PastCursor
<1>3. e \in Event /\ cursor \in Position
  BY <1>1, RemainingType DEF WalkInv, TypeOK
<1> QED
  BY <1>1, <1>2, <1>3, OlderIsOrder DEF Event, Position

\* What is owed and not yet returned is among the remaining rows.
LEMMA OwedRemains ==
    ASSUME WalkInv, ~done, NEW e \in owed, ~Returned(e)
    PROVE  e \in Remaining
  BY DEF WalkInv, Ahead, Remaining

LEMMA StepKeepsWalk == WalkInv /\ [Next]_vars => WalkInv'
<1> SUFFICES ASSUME WalkInv, [Next]_vars PROVE WalkInv'
  OBVIOUS
<1>0. TypeOK /\ TypeOK'
  BY NextType DEF WalkInv
<1>1. ASSUME NEW w \in Writers, Begin(w) \/ Insert(w) \/ Commit(w) \/ Rollback(w)
      PROVE  WalkInv'
  <2>1. events \subseteq events' /\ UNCHANGED <<granted, walkVars, owed>>
    BY <1>1 DEF Begin, Insert, Commit, Rollback, EndTransaction
  <2> QED
    BY <1>0, <2>1 DEF walkVars, WalkInv, Behind, Ahead, Returned, PastCursor, Visible, InOrder, Complete
<1>2. ASSUME NEW s \in Scopes, Grant(s) \/ Revoke(s) PROVE WalkInv'
  <2>1. UNCHANGED <<events, walkVars>> /\ owed' \subseteq owed
    BY <1>2 DEF Grant, Revoke, writeVars
  <2>2. \A e \in owed' : Visible(e)'
    BY <1>2 DEF Grant, Revoke, Visible, WalkInv
  <2> QED
    BY <1>0, <2>1, <2>2 DEF walkVars, WalkInv, Behind, Ahead, Returned, PastCursor, InOrder, Complete
<1>3. CASE StartWalk
  BY <1>0, <1>3 DEF StartWalk, writeVars, WalkInv, Behind, Ahead, Returned, PastCursor, Visible,
                    InOrder, Complete
<1>4. ASSUME NEW limit \in 1 .. MaxLimit, LastPage(limit) PROVE WalkInv'
  <2>1. InOrder'
    BY <1>0, <1>4, PageGoesOn DEF LastPage, InOrder, Returned, TypeOK
  <2>2. Complete'
    BY <1>4, OwedRemains DEF LastPage, Complete, Returned
  <2> QED
    BY <1>0, <1>4, <2>1, <2>2 DEF LastPage, writeVars, WalkInv, Visible
<1>5. ASSUME NEW limit \in 1 .. MaxLimit, NextPage(limit) PROVE WalkInv'
  <2>1. PICK last \in page' :
           /\ \A e \in page' : e = last \/ Older(last, e)
           /\ cursor' = [at |-> last.at, id |-> last.id]
    BY <1>5 DEF NextPage
  <2>2. ~done /\ last \in Remaining /\ last \in Event
    BY <1>5, <2>1, RemainingType, <1>0 DEF NextPage
  <2>3. cursor' # NoCursor
    BY <2>1, <2>2, NoCursorAssumption DEF Event, Position
  <2>4. InOrder'
    BY <1>0, <1>5, PageGoesOn DEF NextPage, InOrder, Returned, TypeOK
  <2>5. Behind'
    BY <1>0, <1>5, <2>1, <2>2, <2>3, PageGoesOn DEF NextPage, Behind, Returned, Older
  <2>6. Ahead'
    <3> SUFFICES ASSUME NEW e \in owed, ~Returned(e)' PROVE PastCursor(e)'
      BY <1>5 DEF NextPage, Ahead
    <3>1. e \in Remaining \ page'
      BY <1>5, <2>2, OwedRemains DEF NextPage, Returned
    <3>2. Older(e, last)
      BY <1>5, <2>1, <3>1 DEF NextPage
    <3> QED
      BY <2>1, <3>2 DEF PastCursor, Older
  <2> QED
    BY <1>0, <1>5, <2>2, <2>4, <2>5, <2>6 DEF NextPage, writeVars, WalkInv, Visible, Complete
<1>6. CASE UNCHANGED vars
  BY <1>0, <1>6 DEF vars, WalkInv, Behind, Ahead, Returned, PastCursor, Visible, InOrder, Complete
<1> QED
  BY <1>1, <1>2, <1>3, <1>4, <1>5, <1>6 DEF Next

LEMMA WalkHolds == Spec => []WalkInv
  BY InitWalk, StepKeepsWalk, PTL DEF Spec

\* The pages of a walk return nothing twice and nothing out of order
\* (change_events.py _apply_cursor), whatever is committed between them.
THEOREM WalkInOrder == Spec => []InOrder
<1>1. WalkInv => InOrder
  BY DEF WalkInv
<1> QED
  BY <1>1, WalkHolds, PTL

\* A walk that has ended has returned every event that was there when it began
\* and stayed in the client's scope (change_events.py _paginate).
THEOREM WalkComplete == Spec => []Complete
<1>1. WalkInv => Complete
  BY DEF WalkInv
<1> QED
  BY <1>1, WalkHolds, PTL
=============================================================================

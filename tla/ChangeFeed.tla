----------------------------- MODULE ChangeFeed -----------------------------
(***************************************************************************)
(* One client walking through change_events page by page (discovery,       *)
(* temporal, differential; repos/change_events.py) while the worker's      *)
(* transactions commit and an administrator changes what the client may    *)
(* see.  detected_at is the START of the transaction that wrote the row    *)
(* (DEFAULT now()) and id comes from a sequence that no rollback gives     *)
(* back, so rows become visible in an order that is neither.               *)
(***************************************************************************)
EXTENDS Integers, FiniteSets

CONSTANTS
    Docs,       \* documents
    Scopes,     \* (jurisdiction, sector) pairs
    ScopeOf,    \* the pair of each document
    Writers,    \* ingestion processes
    Queries,    \* what the client asks for: documents, and a window of detected_at
    NoCursor,   \* a request without a cursor
    MaxLimit,   \* MAX_LIMIT
    MaxEvents,  \* bound: ids taken from change_events_id_seq
    MaxClock    \* bound: distinct values of now()

ASSUME FeedAssumption ==
    /\ ScopeOf \in [Docs -> Scopes]
    /\ Queries \subseteq [docs : SUBSET Docs, since : Nat, until : Nat]
    /\ MaxLimit \in Nat \ {0}
    /\ MaxEvents \in Nat /\ MaxClock \in Nat

Event == [id : 1 .. MaxEvents, at : 1 .. MaxClock, doc : Docs]
Position == [at : 1 .. MaxClock, id : 1 .. MaxEvents]

ASSUME NoCursorAssumption == NoCursor \notin Position

VARIABLES
    clock,      \* now()
    began,      \* the start of each writer's open transaction, 0 if it has none
    draft,      \* the events it has written
    seq,        \* change_events_id_seq
    events,     \* change_events, committed
    granted,    \* app_private.current_scope() of the client
    query,      \* what the client asks for in this walk
    cursor,     \* next_cursor of the last page
    done,       \* the last page had none
    page,       \* the items of the last page
    shown,      \* those of the pages before it in this walk
    owed        \* those that were there for the client when the walk began, less
                \* those of a pair it has lost since

writeVars == <<clock, began, draft, seq, events>>
walkVars  == <<query, cursor, done, page, shown>>
vars == <<clock, began, draft, seq, events, granted,
          query, cursor, done, page, shown, owed>>

TypeOK ==
    /\ clock \in 0 .. MaxClock
    /\ began \in [Writers -> 0 .. MaxClock]
    /\ draft \in [Writers -> SUBSET Event]
    /\ seq \in 0 .. MaxEvents
    /\ events \subseteq Event
    /\ granted \subseteq Scopes
    /\ query \in Queries
    /\ cursor \in Position \cup {NoCursor}
    /\ done \in BOOLEAN
    /\ page \subseteq Event
    /\ shown \subseteq Event
    /\ owed \subseteq Event

Init ==
    /\ clock = 0 /\ seq = 0 /\ events = {}
    /\ began = [w \in Writers |-> 0]
    /\ draft = [w \in Writers |-> {}]
    /\ granted \in SUBSET Scopes
    /\ query \in Queries
    /\ cursor = NoCursor /\ done = TRUE
    /\ page = {} /\ shown = {} /\ owed = {}

-----------------------------------------------------------------------------
\* The worker.

\* A tick's transaction starts; two may start at the same microsecond.
Begin(w) ==
    /\ began[w] = 0
    /\ clock' \in {clock, clock + 1} \cap 1 .. MaxClock
    /\ began' = [began EXCEPT ![w] = clock']
    /\ UNCHANGED <<draft, seq, events, granted, walkVars, owed>>

\* Fault: an event is written outside the transaction of the poll.
InsertAnywhere(w) ==
    /\ seq < MaxEvents
    /\ seq' = seq + 1
    /\ \E d \in Docs :
          draft' = [draft EXCEPT ![w] = @ \cup {[id |-> seq', at |-> began[w], doc |-> d]}]
    /\ UNCHANGED <<clock, began, events, granted, walkVars, owed>>

\* INSERT_CHANGE_EVENT_SQL, one row.  A batch polls many documents.
Insert(w) ==
    /\ began[w] # 0
    /\ seq < MaxEvents
    /\ seq' = seq + 1
    /\ \E d \in Docs :
          draft' = [draft EXCEPT ![w] = @ \cup {[id |-> seq', at |-> began[w], doc |-> d]}]
    /\ UNCHANGED <<clock, began, events, granted, walkVars, owed>>

EndTransaction(w) ==
    /\ began' = [began EXCEPT ![w] = 0]
    /\ draft' = [draft EXCEPT ![w] = {}]
    /\ UNCHANGED <<clock, seq, granted, walkVars, owed>>

Commit(w) ==
    /\ began[w] # 0
    /\ events' = events \cup draft[w]
    /\ EndTransaction(w)

\* The ids are lost.
Rollback(w) ==
    /\ began[w] # 0
    /\ EndTransaction(w)
    /\ UNCHANGED events

-----------------------------------------------------------------------------
\* An administrator, or the clock passing a valid_from or valid_to.

Grant(s) ==
    /\ s \notin granted
    /\ granted' = granted \cup {s}
    /\ UNCHANGED <<writeVars, walkVars, owed>>

Revoke(s) ==
    /\ s \in granted
    /\ granted' = granted \ {s}
    /\ owed' = {e \in owed : ScopeOf[e.doc] # s}
    /\ UNCHANGED <<writeVars, walkVars>>

-----------------------------------------------------------------------------
\* The client.

\* Policy change_events_in_scope, and _apply_scope.
Visible(e) == ScopeOf[e.doc] \in granted
Matches(e, q) == e.doc \in q.docs /\ q.since <= e.at /\ e.at < q.until

\* The order of the feed: e comes after p on (detected_at DESC, id DESC).
Older(e, p) == e.at < p.at \/ (e.at = p.at /\ e.id < p.id)

\* Fault: the row the cursor was made from is not left out.
PastCursorInclusive(e) == cursor # NoCursor => Older(e, cursor) \/ e.id = cursor.id

\* Fault: the cursor is a time.
PastCursorByTime(e) == cursor # NoCursor => e.at < cursor.at

\* _apply_cursor.
PastCursor(e) == cursor # NoCursor => Older(e, cursor)

\* The rows the SELECT would return without its LIMIT.
Remaining == {e \in events : Visible(e) /\ Matches(e, query) /\ PastCursor(e)}

\* A new walk: another query key, or the first page again.
StartWalk ==
    /\ query' \in Queries
    /\ cursor' = NoCursor /\ done' = FALSE
    /\ page' = {} /\ shown' = {}
    /\ owed' = {e \in events : Visible(e) /\ Matches(e, query')}
    /\ UNCHANGED <<writeVars, granted>>

\* The rest is no longer than the limit: next_cursor is None.
LastPage(limit) ==
    /\ ~done
    /\ Cardinality(Remaining) <= limit
    /\ page' = Remaining
    /\ shown' = shown \cup page
    /\ done' = TRUE
    /\ UNCHANGED <<writeVars, granted, query, cursor, owed>>

\* LIMIT limit + 1 found a row too many: the page is the newest `limit` rows,
\* and the cursor is made of its last one.
NextPage(limit) ==
    /\ ~done
    /\ page' \in SUBSET Remaining
    /\ Cardinality(page') = limit /\ page' # Remaining
    /\ \A e \in page', f \in Remaining \ page' : Older(f, e)
    /\ \E last \in page' :
          /\ \A e \in page' : e = last \/ Older(last, e)
          /\ cursor' = [at |-> last.at, id |-> last.id]
    /\ shown' = shown \cup page
    /\ UNCHANGED <<writeVars, granted, query, done, owed>>

-----------------------------------------------------------------------------
Next ==
    \/ \E w \in Writers : Begin(w) \/ Insert(w) \/ Commit(w) \/ Rollback(w)
    \/ \E s \in Scopes : Grant(s) \/ Revoke(s)
    \/ StartWalk
    \/ \E limit \in 1 .. MaxLimit : LastPage(limit) \/ NextPage(limit)

Spec == Init /\ [][Next]_vars
-----------------------------------------------------------------------------
\* A page goes on where the walk stands: everything in it comes after everything
\* shown so far, so nothing is returned twice or out of order (_apply_cursor),
\* although rows with an older detected_at or a lower id keep being committed.
InOrder == \A e \in page, s \in shown : Older(e, s)

\* A walk that ends has returned every event that was there for the client when
\* it began, those of a scope it lost on the way excepted, whatever limit each
\* page had and whatever was committed meanwhile (_paginate).
Complete == done => owed \subseteq shown \cup page
=============================================================================

---------------------------- MODULE Entitlements ----------------------------
(***************************************************************************)
(* The entitlements of one client: administrators create subscriptions and *)
(* PATCH their scopes (admin_subscriptions.py, repos/subscriptions.py),    *)
(* the client adds and removes watchlists (watchlists.py, the trigger of   *)
(* migration 0009).  Every request is a READ COMMITTED transaction whose   *)
(* now() is the time it BEGAN: what a statement reads is what is committed *)
(* when it runs, judged by the clock of the beginning.                     *)
(***************************************************************************)
EXTENDS Integers

CONSTANTS
    Subs,       \* subscriptions of the client
    Scopes,     \* (jurisdiction, sector) pairs
    Docs,       \* documents
    ScopeOf,    \* the pair of each document
    Patches,    \* concurrent PATCH requests
    Clients,    \* concurrent requests of the client
    MaxClock    \* bound: distinct values of now()

ASSUME EntitlementAssumption ==
    /\ ScopeOf \in [Docs -> Scopes]
    /\ Patches \cap Clients = {}
    /\ MaxClock \in Nat \ {0}

Requests == Patches \cup Clients

\* subscription_scopes: the primary key, and valid_to with 0 for "no row".
Keys  == Subs \X Scopes
NoRow == 0
Null  == MaxClock + 1

VARIABLES
    clock,      \* the latest value of now()
    rows,       \* subscription_scopes, committed: valid_to of each key
    watch,      \* watchlists, committed: none, active or hidden
    pc,         \* where each request stands
    now,        \* now() of its transaction, 0 between transactions
    toAdd, toEnd,   \* the keys a PATCH was asked to add and to end
    adds, ends, \* the keys its transaction has inserted and ended
    seen,       \* what active_scope_documents has returned to it
    hides,      \* the watchlists its transaction has hidden,
    puts,       \*    inserted,
    drops,      \*    deleted
    crossed,    \* the open PATCHes that another request has overlapped
    tainted     \* some PATCH was overlapped since one ran alone

txVars == <<toAdd, toEnd, adds, ends, seen, hides, puts, drops>>
vars == <<clock, rows, watch, pc, now, toAdd, toEnd, adds, ends, seen, hides, puts, drops,
          crossed, tainted>>

\* Types; an end of a scope is never in the future.
TypeOK ==
    /\ clock \in 1 .. MaxClock
    /\ rows \in [Keys -> 0 .. clock \cup {Null}]
    /\ watch \in [Docs -> {"none", "active", "hidden"}]
    /\ pc \in [Requests -> {"idle", "begun", "checked", "added", "removed", "seen",
                            "ready"}]
    /\ now \in [Requests -> 0 .. clock]
    /\ toAdd \in [Requests -> SUBSET Keys] /\ toEnd \in [Requests -> SUBSET Keys]
    /\ adds \in [Requests -> SUBSET Keys] /\ ends \in [Requests -> SUBSET Keys]
    /\ seen \in [Requests -> SUBSET Docs]
    /\ hides \in [Requests -> SUBSET Docs]
    /\ puts \in [Requests -> SUBSET Docs] /\ drops \in [Requests -> SUBSET Docs]
    /\ crossed \subseteq Patches
    /\ tainted \in BOOLEAN

Nothing == [r \in Requests |-> {}]

Init ==
    /\ clock = 1
    /\ rows = [k \in Keys |-> NoRow]
    /\ watch = [d \in Docs |-> "none"]
    /\ pc = [r \in Requests |-> "idle"]
    /\ now = [r \in Requests |-> 0]
    /\ toAdd = Nothing /\ toEnd = Nothing /\ adds = Nothing /\ ends = Nothing
    /\ seen = Nothing /\ hides = Nothing /\ puts = Nothing /\ drops = Nothing
    /\ crossed = {} /\ tainted = FALSE

-----------------------------------------------------------------------------
Open == {r \in Requests : pc[r] # "idle"}

\* The requests that r overlaps, one of the two being a PATCH.
Met(r) == IF r \in Patches THEN Open \ {r} ELSE Open \cap Patches

Begin(r) ==
    /\ pc[r] = "idle"
    /\ clock' \in {clock, clock + 1} \cap 1 .. MaxClock
    /\ now' = [now EXCEPT ![r] = clock']
    /\ pc' = [pc EXCEPT ![r] = "begun"]
    /\ crossed' = IF Met(r) = {} THEN crossed
                  ELSE crossed \cup ((Met(r) \cup {r}) \cap Patches)
    /\ tainted' = (tainted \/ Met(r) # {})
    /\ UNCHANGED <<rows, watch, txVars>>

\* create_subscription: rows of a new subscription, which no other transaction
\* can touch before it commits.
CreateSubscription(s) ==
    /\ \A p \in Scopes : rows[<<s, p>>] = NoRow
    /\ \E S \in SUBSET Scopes :
          /\ S # {}
          /\ rows' = [k \in Keys |-> IF k[1] = s /\ k[2] \in S THEN Null ELSE rows[k]]
    /\ crossed' = crossed \cup (Open \cap Patches)
    /\ tainted' = (tainted \/ Open \cap Patches # {})
    /\ UNCHANGED <<clock, watch, pc, now, txVars>>

\* get_by_id, and the three 422s: nothing asked, a pair in both lists, a pair
\* to add that is active or one to end that is not.
PatchCheck(a) ==
    /\ pc[a] = "begun"
    /\ \E s \in Subs, A, R \in SUBSET Keys :
          /\ \E p \in Scopes : rows[<<s, p>>] # NoRow
          /\ A \cup R \subseteq {s} \X Scopes
          /\ A \cup R # {} /\ A \cap R = {}
          /\ \A k \in A : rows[k] # Null
          /\ \A k \in R : rows[k] = Null
          /\ toAdd' = [toAdd EXCEPT ![a] = A]
          /\ toEnd' = [toEnd EXCEPT ![a] = R]
    /\ pc' = [pc EXCEPT ![a] = "checked"]
    /\ UNCHANGED <<clock, rows, watch, now, adds, ends, seen, hides, puts, drops, crossed, tainted>>

\* add_scopes: a key that another transaction is inserting makes this one wait;
\* one that is there, ended or not, is a primary key violation, which leaves
\* only Rollback.
PatchAdd(a) ==
    /\ pc[a] = "checked"
    /\ \A b \in Patches \ {a} : adds[b] \cap toAdd[a] = {}
    /\ \A k \in toAdd[a] : rows[k] = NoRow
    /\ pc' = [pc EXCEPT ![a] = "added"]
    /\ adds' = [adds EXCEPT ![a] = toAdd[a]]
    /\ UNCHANGED <<clock, rows, watch, now, toAdd, toEnd, ends, seen, hides, puts, drops,
                   crossed, tainted>>

\* Fault: the UPDATE does not ask for valid_to IS NULL, nor the trigger behind it.
PatchRemoveAgain(a) ==
    /\ pc[a] = "added"
    /\ \A b \in Patches \ {a} : ends[b] \cap toEnd[a] = {}
    /\ ends' = [ends EXCEPT ![a] = toEnd[a]]
    /\ pc' = [pc EXCEPT ![a] = "removed"]
    /\ UNCHANGED <<clock, rows, watch, now, toAdd, toEnd, adds, seen, hides, puts, drops,
                   crossed, tainted>>

\* soft_delete_scopes: waits for the locks of other transactions, then touches
\* the rows that are still active.
PatchRemove(a) ==
    /\ pc[a] = "added"
    /\ \A b \in Patches \ {a} : ends[b] \cap toEnd[a] = {}
    /\ ends' = [ends EXCEPT ![a] = {k \in toEnd[a] : rows[k] = Null}]
    /\ pc' = [pc EXCEPT ![a] = "removed"]
    /\ UNCHANGED <<clock, rows, watch, now, toAdd, toEnd, adds, seen, hides, puts, drops,
                   crossed, tainted>>

-----------------------------------------------------------------------------
\* subscription_scopes as the transaction of r sees it: valid_to = now().
View(r) ==
    [k \in Keys |-> IF k \in adds[r] THEN Null
                    ELSE IF k \in ends[r] THEN now[r] ELSE rows[k]]

\* current_scope: valid_to IS NULL OR valid_to > t, in any subscription.
CurrentScope(table, t) == {p \in Scopes : \E s \in Subs : table[<<s, p>>] > t}

\* Fault: the user's other subscriptions are forgotten.
ScopeDocumentsOfOne(table, t) ==
    {d \in Docs : \A s \in Subs :
        (\E p \in Scopes : table[<<s, p>>] # NoRow) => table[<<s, ScopeOf[d]>>] > t}

\* active_scope_documents: the documents of the same predicate, written again.
ScopeDocuments(table, t) == {d \in Docs : \E s \in Subs : table[<<s, ScopeOf[d]>>] > t}

\* Fault: the scope is read before the rows are ended.
PatchReadScopeFirst(a) ==
    /\ pc[a] = "removed"
    /\ seen' = [seen EXCEPT ![a] = ScopeDocuments(rows, now[a])]
    /\ pc' = [pc EXCEPT ![a] = "seen"]
    /\ UNCHANGED <<clock, rows, watch, now, toAdd, toEnd, adds, ends, hides, puts, drops,
                   crossed, tainted>>

\* The PATCH asks it within its own transaction.
PatchReadScope(a) ==
    /\ pc[a] = "removed"
    /\ seen' = [seen EXCEPT ![a] = ScopeDocuments(View(a), now[a])]
    /\ pc' = [pc EXCEPT ![a] = "seen"]
    /\ UNCHANGED <<clock, rows, watch, now, toAdd, toEnd, adds, ends, hides, puts, drops,
                   crossed, tainted>>

\* Rows of watchlists that another transaction has locked.
LockedFor(r) == UNION {hides[q] \cup drops[q] : q \in Requests \ {r}}

\* soft_hide_out_of_scope.
PatchHide(a) ==
    /\ pc[a] = "seen"
    /\ LET out == {d \in Docs \ seen[a] : watch[d] = "active"}
       IN  /\ out \cap LockedFor(a) = {}
           /\ hides' = [hides EXCEPT ![a] = out]
    /\ seen' = [seen EXCEPT ![a] = {}]
    /\ pc' = [pc EXCEPT ![a] = "ready"]
    /\ UNCHANGED <<clock, rows, watch, now, toAdd, toEnd, adds, ends, puts, drops,
                   crossed, tainted>>

\* create_watchlist: the route's check and the trigger's use one now(); the
\* trigger, at the INSERT, is the later.  UNIQUE (user_id, document_id) holds
\* for hidden rows as well.
WatchAdd(c) ==
    /\ pc[c] = "begun"
    /\ \E d \in Docs :
          /\ ScopeOf[d] \in CurrentScope(rows, now[c])
          /\ watch[d] = "none"
          /\ \A q \in Requests : d \notin puts[q]
          /\ puts' = [puts EXCEPT ![c] = {d}]
    /\ pc' = [pc EXCEPT ![c] = "ready"]
    /\ UNCHANGED <<clock, rows, watch, now, toAdd, toEnd, adds, ends, seen, hides, drops,
                   crossed, tainted>>

\* delete_watchlist.
WatchDrop(c) ==
    /\ pc[c] = "begun"
    /\ \E d \in Docs \ LockedFor(c) :
          /\ watch[d] # "none"
          /\ drops' = [drops EXCEPT ![c] = {d}]
    /\ pc' = [pc EXCEPT ![c] = "ready"]
    /\ UNCHANGED <<clock, rows, watch, now, toAdd, toEnd, adds, ends, seen, hides, puts,
                   crossed, tainted>>

-----------------------------------------------------------------------------
\* The transaction of r is over.
End(r) ==
    /\ pc' = [pc EXCEPT ![r] = "idle"]
    /\ toAdd' = [toAdd EXCEPT ![r] = {}] /\ toEnd' = [toEnd EXCEPT ![r] = {}]
    /\ adds' = [adds EXCEPT ![r] = {}] /\ ends' = [ends EXCEPT ![r] = {}]
    /\ seen' = [seen EXCEPT ![r] = {}] /\ hides' = [hides EXCEPT ![r] = {}]
    /\ puts' = [puts EXCEPT ![r] = {}] /\ drops' = [drops EXCEPT ![r] = {}]
    /\ now' = [now EXCEPT ![r] = 0]
    /\ crossed' = crossed \ {r}
    /\ UNCHANGED clock

Commit(r) ==
    /\ pc[r] = "ready"
    /\ rows' = View(r)
    /\ watch' = [d \in Docs |-> IF d \in hides[r] THEN "hidden"
                                ELSE IF d \in puts[r] THEN "active"
                                ELSE IF d \in drops[r] THEN "none"
                                ELSE watch[d]]
    /\ tainted' = (tainted /\ (r \in Clients \/ r \in crossed))
    /\ End(r)

\* A 404, a 422, a conflict, a deadlock, a lost connection.
Rollback(r) ==
    /\ pc[r] # "idle"
    /\ End(r)
    /\ UNCHANGED <<rows, watch, tainted>>

-----------------------------------------------------------------------------
Next ==
    \/ \E r \in Requests : Begin(r) \/ Commit(r) \/ Rollback(r)
    \/ \E s \in Subs : CreateSubscription(s)
    \/ \E a \in Patches : PatchCheck(a) \/ PatchAdd(a) \/ PatchRemove(a)
                          \/ PatchReadScope(a) \/ PatchHide(a)
    \/ \E c \in Clients : WatchAdd(c) \/ WatchDrop(c)

Spec == Init /\ [][Next]_vars
-----------------------------------------------------------------------------
\* What the client may read now.
Entitled == {d \in Docs : ScopeOf[d] \in CurrentScope(rows, clock)}

\* "any watchlist whose document is no longer in the user's active scope gets
\* active=false" (admin_subscriptions.py:17-20): whoever PATCHes what at the
\* same time, an active watchlist is in scope.
ActiveInScope == \A d \in Docs : watch[d] = "active" => d \in Entitled

\* What the code does ensure: a PATCH that no other request overlaps leaves every
\* active watchlist in scope, those an earlier overlap left behind included, and
\* it stays so until a PATCH is overlapped again.
InScopeUnlessCrossed == tainted \/ ActiveInScope

\* The soft-hide pass takes nothing from the client that it may still read
\* (repos/subscriptions.py active_scope_documents, "data loss"), unless another
\* request widened the scope meanwhile.
NoNeedlessHide ==
    [][\A d \in Docs : watch[d] = "active" /\ watch'[d] = "hidden" =>
          tainted \/ d \notin Entitled']_vars

\* "Rows reappear if scope is restored" (02-multi-tenant-isolation.md:209): a
\* document that comes back into scope brings its hidden watchlist back.
HiddenReappears ==
    [][\A d \in Docs : watch[d] = "hidden" /\ d \notin Entitled /\ d \in Entitled' =>
          watch'[d] = "active"]_vars

\* The ledger is append-only (migration 0011): whoever removes a scope first sets
\* its end, which no later or concurrent PATCH moves or takes back.
EndIsFinal ==
    [][\A k \in Keys : rows[k] \in 1 .. MaxClock => rows'[k] = rows[k]]_vars
=============================================================================

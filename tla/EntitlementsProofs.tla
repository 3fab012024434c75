------------------------- MODULE EntitlementsProofs -------------------------
(***************************************************************************)
(* Theorems about Entitlements, for any number of subscriptions, scopes,   *)
(* documents and concurrent requests.                                      *)
(***************************************************************************)
EXTENDS Entitlements, TLAPS

\* The subscription of a key has been created.
Exists(k) == \E p \in Scopes : rows[<<k[1], p>>] # NoRow

\* A PATCH adds to a subscription that exists.
OnExisting == \A r \in Requests : adds[r] \subseteq toAdd[r] /\ \A k \in toAdd[r] : Exists(k)

\* What a transaction has inserted is not there for the others, and what it has
\* ended is still active for them: their locks and the primary key keep both.
Pending ==
    \A r \in Requests :
        /\ \A k \in adds[r] : rows[k] = NoRow
        /\ \A k \in ends[r] : rows[k] = Null

\* No row is written by two open transactions, and only PATCHes write any.
Apart ==
    /\ \A q, r \in Requests : q # r =>
          adds[q] \cap adds[r] = {} /\ ends[q] \cap ends[r] = {}
    /\ \A c \in Clients : adds[c] = {} /\ ends[c] = {}

\* An open transaction has a now(), and begins with nothing added.
Dated ==
    \A r \in Requests :
        /\ pc[r] # "idle" => now[r] >= 1
        /\ pc[r] \in {"idle", "begun"} => adds[r] = {}

EndInv == TypeOK /\ OnExisting /\ Pending /\ Apart /\ Dated

-----------------------------------------------------------------------------
LEMMA InitEnd == Init => EndInv
<1> SUFFICES ASSUME Init PROVE EndInv
  OBVIOUS
<1>1. \A r \in Requests : /\ toAdd[r] = {} /\ adds[r] = {} /\ ends[r] = {}
                         /\ pc[r] = "idle"
  BY DEF Init, Nothing
<1>2. TypeOK
  <2>1. clock \in 1 .. MaxClock /\ 0 \in 0 .. clock
    BY EntitlementAssumption DEF Init
  <2> QED
    BY <2>1 DEF Init, TypeOK, Nothing, NoRow
<1>3. OnExisting /\ Pending /\ Apart /\ Dated
  BY <1>1 DEF OnExisting, Pending, Apart, Dated, Requests
<1> QED
  BY <1>2, <1>3 DEF EndInv

\* What the transaction of r sees is a table, with no end in the future.
LEMMA ViewType ==
    ASSUME EndInv, NEW r \in Requests
    PROVE  View(r) \in [Keys -> 0 .. clock \cup {Null}]
  BY EntitlementAssumption DEF EndInv, TypeOK, View, Null, NoRow

LEMMA EndType ==
    ASSUME TypeOK, NEW r \in Requests, End(r)
    PROVE  /\ pc' \in [Requests -> {"idle", "begun", "checked", "added", "removed", "seen", "ready"}]
           /\ now' \in [Requests -> 0 .. clock]
           /\ toAdd' \in [Requests -> SUBSET Keys] /\ toEnd' \in [Requests -> SUBSET Keys]
           /\ adds' \in [Requests -> SUBSET Keys] /\ ends' \in [Requests -> SUBSET Keys]
           /\ seen' \in [Requests -> SUBSET Docs] /\ hides' \in [Requests -> SUBSET Docs]
           /\ puts' \in [Requests -> SUBSET Docs] /\ drops' \in [Requests -> SUBSET Docs]
           /\ crossed' \subseteq Patches /\ clock' = clock
<1>1. 0 \in 0 .. clock
  BY EntitlementAssumption DEF TypeOK
<1> QED
  BY <1>1 DEF End, TypeOK

LEMMA NextType == EndInv /\ [Next]_vars => TypeOK'
<1> SUFFICES ASSUME EndInv, [Next]_vars PROVE TypeOK'
  OBVIOUS
<1>0. TypeOK /\ Patches \subseteq Requests /\ Clients \subseteq Requests
  BY DEF EndInv, Requests
<1>1. ASSUME NEW r \in Requests, Begin(r) PROVE TypeOK'
  <2>1. clock' \in 1 .. MaxClock /\ clock <= clock' /\ now'[r] = clock'
    BY <1>0, <1>1, EntitlementAssumption DEF Begin, TypeOK
  <2>2. crossed' \subseteq Patches
    BY <1>0, <1>1 DEF Begin, TypeOK
  <2>3. tainted' \in BOOLEAN
    BY <1>0, <1>1 DEF Begin, TypeOK
  <2>4. rows' \in [Keys -> 0 .. clock' \cup {Null'}]
    BY <1>0, <1>1, <2>1, EntitlementAssumption DEF Begin, TypeOK, Null
  <2>5. now' \in [Requests -> 0 .. clock']
    BY <1>0, <1>1, <2>1, EntitlementAssumption DEF Begin, TypeOK
  <2> QED
    BY <1>0, <1>1, <2>1, <2>2, <2>3, <2>4, <2>5 DEF Begin, TypeOK, txVars
<1>2. ASSUME NEW r \in Requests, Commit(r) PROVE TypeOK'
  <2>1. rows' \in [Keys -> 0 .. clock \cup {Null}]
    BY <1>2, ViewType DEF Commit
  <2>2. watch' \in [Docs -> {"none", "active", "hidden"}]
    BY <1>0, <1>2 DEF Commit, TypeOK
  <2>3. tainted' \in BOOLEAN
    BY <1>0, <1>2 DEF Commit, TypeOK
  <2> QED
    BY <1>0, <1>2, <2>1, <2>2, <2>3, EndType DEF Commit, TypeOK, Null
<1>3. ASSUME NEW r \in Requests, Rollback(r) PROVE TypeOK'
  BY <1>0, <1>3, EndType DEF Rollback, TypeOK, Null
<1>4. ASSUME NEW s \in Subs, CreateSubscription(s) PROVE TypeOK'
  <2>1. rows' \in [Keys -> 0 .. clock \cup {Null}]
    BY <1>0, <1>4 DEF CreateSubscription, TypeOK
  <2>2. crossed' \subseteq Patches /\ tainted' \in BOOLEAN
    BY <1>0, <1>4 DEF CreateSubscription, TypeOK
  <2> QED
    BY <1>0, <1>4, <2>1, <2>2 DEF CreateSubscription, TypeOK, txVars, Null
<1>5. ASSUME NEW a \in Patches, PatchCheck(a) PROVE TypeOK'
  BY <1>0, <1>5 DEF PatchCheck, TypeOK, Null
<1>6. ASSUME NEW a \in Patches, PatchAdd(a) PROVE TypeOK'
  BY <1>0, <1>6 DEF PatchAdd, TypeOK, Null
<1>7. ASSUME NEW a \in Patches, PatchRemove(a) PROVE TypeOK'
  <2>1. {k \in toEnd[a] : rows[k] = Null} \in SUBSET Keys
    BY <1>0 DEF TypeOK
  <2> QED
    BY <1>0, <1>7, <2>1 DEF PatchRemove, TypeOK, Null
<1>8. ASSUME NEW a \in Patches, PatchReadScope(a) PROVE TypeOK'
  <2>1. ScopeDocuments(View(a), now[a]) \in SUBSET Docs
    BY DEF ScopeDocuments
  <2> QED
    BY <1>0, <1>8, <2>1 DEF PatchReadScope, TypeOK, Null
<1>9. ASSUME NEW a \in Patches, PatchHide(a) PROVE TypeOK'
  <2>1. {d \in Docs \ seen[a] : watch[d] = "active"} \in SUBSET Docs
    OBVIOUS
  <2> QED
    BY <1>0, <1>9, <2>1 DEF PatchHide, TypeOK, Null
<1>10. ASSUME NEW c \in Clients, WatchAdd(c) PROVE TypeOK'
  BY <1>0, <1>10 DEF WatchAdd, TypeOK, Null
<1>11. ASSUME NEW c \in Clients, WatchDrop(c) PROVE TypeOK'
  BY <1>0, <1>11 DEF WatchDrop, TypeOK, Null
<1>12. CASE UNCHANGED vars
  BY <1>0, <1>12 DEF vars, TypeOK, Null
<1> QED
  BY <1>1, <1>2, <1>3, <1>4, <1>5, <1>6, <1>7, <1>8, <1>9, <1>10, <1>11, <1>12 DEF Next

-----------------------------------------------------------------------------
\* Steps that write nothing and open or end no transaction.
LEMMA QuietStep ==
    ASSUME EndInv, TypeOK', UNCHANGED <<rows, toAdd, adds, ends>>, Dated'
    PROVE  EndInv'
  BY DEF EndInv, OnExisting, Exists, Pending, Apart, Null

\* The end of a transaction forgets what it was writing.
Forgets(r) ==
    /\ toAdd'[r] = {} /\ adds'[r] = {} /\ ends'[r] = {}
    /\ \A q \in Requests \ {r} :
          toAdd'[q] = toAdd[q] /\ adds'[q] = adds[q] /\ ends'[q] = ends[q]

LEMMA EndKeeps ==
    ASSUME EndInv, NEW r \in Requests, End(r)
    PROVE  Forgets(r) /\ Apart' /\ Dated' /\ clock' = clock
<1>0. TypeOK
  BY DEF EndInv
<1>1. Forgets(r)
  <2>1. toAdd'[r] = {} /\ \A q \in Requests \ {r} : toAdd'[q] = toAdd[q]
    BY <1>0 DEF End, TypeOK
  <2>2. adds'[r] = {} /\ \A q \in Requests \ {r} : adds'[q] = adds[q]
    BY <1>0 DEF End, TypeOK
  <2>3. ends'[r] = {} /\ \A q \in Requests \ {r} : ends'[q] = ends[q]
    BY <1>0 DEF End, TypeOK
  <2> QED
    BY <2>1, <2>2, <2>3 DEF Forgets
<1>2. Apart'
  <2>1. \A p \in Requests : adds'[p] \subseteq adds[p] /\ ends'[p] \subseteq ends[p]
    BY <1>1 DEF Forgets
  <2>2. \A p, q \in Requests : p # q => adds[p] \cap adds[q] = {} /\ ends[p] \cap ends[q] = {}
    BY DEF EndInv, Apart
  <2>3. \A p, q \in Requests : p # q => adds'[p] \cap adds'[q] = {} /\ ends'[p] \cap ends'[q] = {}
    BY <2>1, <2>2
  <2>4. \A c \in Clients : adds'[c] = {} /\ ends'[c] = {}
    BY <2>1 DEF EndInv, Apart, Requests
  <2> QED
    BY <2>3, <2>4 DEF Apart
<1>3. Dated'
  <2>1. /\ pc'[r] = "idle"
        /\ \A q \in Requests \ {r} : pc'[q] = pc[q] /\ now'[q] = now[q]
    BY <1>0 DEF End, TypeOK
  <2> QED
    BY <1>1, <2>1 DEF Forgets, Dated, EndInv
<1> QED
  BY <1>1, <1>2, <1>3 DEF End

LEMMA StepKeepsEnd == EndInv /\ [Next]_vars => EndInv'
<1> SUFFICES ASSUME EndInv, [Next]_vars PROVE EndInv'
  OBVIOUS
<1>0. TypeOK /\ TypeOK' /\ Patches \subseteq Requests /\ Clients \subseteq Requests
  BY NextType DEF EndInv, Requests
<1>1. ASSUME NEW r \in Requests, Begin(r) PROVE EndInv'
  <2>1. Dated'
    <3>1. clock' >= 1 /\ now' = [now EXCEPT ![r] = clock']
      BY <1>0, <1>1, EntitlementAssumption DEF Begin, TypeOK
    <3>2. pc[r] = "idle" /\ pc' = [pc EXCEPT ![r] = "begun"] /\ adds' = adds
      BY <1>1 DEF Begin, txVars
    <3> QED
      BY <1>0, <3>1, <3>2 DEF EndInv, TypeOK, Dated
  <2> QED
    BY <1>0, <1>1, <2>1, QuietStep DEF Begin, txVars
<1>2. ASSUME NEW r \in Requests, Commit(r) PROVE EndInv'
  <2>1. Forgets(r) /\ Apart' /\ Dated' /\ clock' = clock
    BY <1>2, EndKeeps DEF Commit
  <2>2. now[r] >= 1 /\ now[r] \in Nat
    BY <1>0, <1>2 DEF Commit, EndInv, Dated, TypeOK
  <2>3. \A k \in Keys : rows'[k] = IF k \in adds[r] THEN Null
                                 ELSE IF k \in ends[r] THEN now[r] ELSE rows[k]
    BY <1>2 DEF Commit, View
  <2>4. \A k \in Keys : rows[k] # NoRow => rows'[k] # NoRow
    BY <2>2, <2>3, EntitlementAssumption DEF Null, NoRow
  <2>5. OnExisting'
    <3>1. \A q \in Requests : toAdd[q] \subseteq Keys
      BY <1>0 DEF TypeOK
    <3>2. \A k \in Keys : Exists(k) => Exists(k)'
      BY <2>4 DEF Exists, Keys
    <3> QED
      BY <2>1, <3>1, <3>2 DEF Forgets, OnExisting, EndInv
  <2>6. Pending'
    <3> SUFFICES ASSUME NEW q \in Requests, q # r
                 PROVE  /\ \A k \in adds[q] : rows'[k] = NoRow
                        /\ \A k \in ends[q] : rows'[k] = Null
      BY <2>1 DEF Forgets, Pending, Null
    <3>1. /\ adds[q] \subseteq Keys /\ ends[q] \subseteq Keys
          /\ adds[q] \cap adds[r] = {} /\ ends[q] \cap ends[r] = {}
      BY <1>0 DEF TypeOK, EndInv, Apart
    <3>2. /\ \A k \in adds[q] : rows[k] = NoRow
          /\ \A k \in ends[q] : rows[k] = Null
          /\ \A k \in adds[r] : rows[k] = NoRow
          /\ \A k \in ends[r] : rows[k] = Null
      BY DEF EndInv, Pending
    <3>3. Null # NoRow
      BY EntitlementAssumption DEF Null, NoRow
    <3> QED
      BY <2>3, <3>1, <3>2, <3>3
  <2> QED
    BY <1>0, <2>1, <2>5, <2>6 DEF EndInv
<1>3. ASSUME NEW r \in Requests, Rollback(r) PROVE EndInv'
  <2>1. Forgets(r) /\ Apart' /\ Dated' /\ clock' = clock
    BY <1>3, EndKeeps DEF Rollback
  <2>2. rows' = rows
    BY <1>3 DEF Rollback
  <2>3. OnExisting' /\ Pending'
    BY <2>1, <2>2 DEF Forgets, OnExisting, Pending, Exists, EndInv, Null
  <2> QED
    BY <1>0, <2>1, <2>3 DEF EndInv
<1>4. ASSUME NEW s \in Subs, CreateSubscription(s) PROVE EndInv'
  <2>1. UNCHANGED <<toAdd, adds, ends, pc, now, clock>>
    BY <1>4 DEF CreateSubscription, txVars
  <2>2. \A k \in Keys : k[1] # s => rows'[k] = rows[k]
    BY <1>4 DEF CreateSubscription
  <2>3. \A p \in Scopes : rows[<<s, p>>] = NoRow
    BY <1>4 DEF CreateSubscription
  <2>4. \A r \in Requests : toAdd[r] \subseteq Keys /\ ends[r] \subseteq Keys
    BY <1>0 DEF TypeOK
  <2>5. \A k \in Keys : Exists(k) \/ rows[k] = Null => k[1] # s
    <3>1. Null # NoRow
      BY EntitlementAssumption DEF Null, NoRow
    <3>2. \A k \in Keys : k[2] \in Scopes /\ k = <<k[1], k[2]>>
      BY DEF Keys
    <3> QED
      BY <2>3, <3>1, <3>2 DEF Exists
  <2>6. \A k \in Keys : Exists(k) => Exists(k)'
    <3> SUFFICES ASSUME NEW k \in Keys, Exists(k) PROVE Exists(k)'
      OBVIOUS
    <3>1. PICK p \in Scopes : rows[<<k[1], p>>] # NoRow
      BY DEF Exists
    <3>2. k[1] # s /\ <<k[1], p>> \in Keys
      BY <2>5 DEF Keys
    <3> QED
      BY <2>2, <3>1, <3>2 DEF Exists
  <2>7. OnExisting'
    BY <2>1, <2>4, <2>6 DEF OnExisting, EndInv
  <2>8. Pending'
    <3>1. \A r \in Requests : \A k \in adds[r] : k \in Keys /\ Exists(k) /\ rows[k] = NoRow
      BY <2>4 DEF EndInv, OnExisting, Pending
    <3>2. \A r \in Requests : \A k \in ends[r] : k \in Keys /\ rows[k] = Null
      BY <2>4 DEF EndInv, Pending
    <3> QED
      BY <2>1, <2>2, <2>5, <3>1, <3>2 DEF Pending, Null
  <2>9. Apart' /\ Dated'
    BY <2>1 DEF EndInv, Apart, Dated
  <2> QED
    BY <1>0, <2>7, <2>8, <2>9 DEF EndInv
<1>5. ASSUME NEW a \in Patches, PatchCheck(a) PROVE EndInv'
  <2>1. PICK s \in Subs, A, R \in SUBSET Keys :
           /\ \E p \in Scopes : rows[<<s, p>>] # NoRow
           /\ A \cup R \subseteq {s} \X Scopes
           /\ toAdd' = [toAdd EXCEPT ![a] = A]
    BY <1>5 DEF PatchCheck
  <2>2. UNCHANGED <<rows, adds, ends, now, clock>> /\ pc[a] = "begun"
        /\ pc' = [pc EXCEPT ![a] = "checked"]
    BY <1>5 DEF PatchCheck
  <2>3. \A k \in A : Exists(k)
    <3>1. \A k \in A : k[1] = s
      BY <2>1
    <3> QED
      BY <2>1, <3>1 DEF Exists
  <2>4. adds[a] = {}
    BY <1>0, <2>2 DEF EndInv, Dated
  <2>5. OnExisting'
    <3>1. toAdd'[a] = A /\ \A q \in Requests : q # a => toAdd'[q] = toAdd[q]
      BY <1>0, <2>1 DEF TypeOK
    <3> QED
      BY <2>2, <2>3, <2>4, <3>1 DEF EndInv, OnExisting, Exists
  <2>6. Pending' /\ Apart'
    BY <2>2 DEF EndInv, Pending, Apart, Null
  <2>7. Dated'
    BY <1>0, <2>2 DEF EndInv, Dated, TypeOK
  <2> QED
    BY <1>0, <2>5, <2>6, <2>7 DEF EndInv
<1>6. ASSUME NEW a \in Patches, PatchAdd(a) PROVE EndInv'
  <2>1. \A q \in Requests : adds'[q] = IF q = a THEN toAdd[a] ELSE adds[q]
    BY <1>0, <1>6 DEF PatchAdd, TypeOK
  <2>2. \A q \in Requests : q # a => adds[q] \cap toAdd[a] = {}
    BY <1>6 DEF PatchAdd, EndInv, Apart, Requests
  <2>3. UNCHANGED <<rows, toAdd, ends, now, clock>>
    BY <1>6 DEF PatchAdd
  <2>4. OnExisting' /\ Pending'
    BY <1>0, <1>6, <2>1, <2>3 DEF PatchAdd, EndInv, OnExisting, Exists, Pending, Null
  <2>5. Apart'
    BY <1>0, <2>1, <2>2, <2>3, EntitlementAssumption DEF EndInv, Apart
  <2>6. Dated'
    BY <1>0, <1>6 DEF PatchAdd, EndInv, Dated, TypeOK
  <2> QED
    BY <1>0, <2>4, <2>5, <2>6 DEF EndInv
<1>7. ASSUME NEW a \in Patches, PatchRemove(a) PROVE EndInv'
  <2>1. \A q \in Requests : ends'[q] = IF q = a THEN {k \in toEnd[a] : rows[k] = Null} ELSE ends[q]
    BY <1>0, <1>7 DEF PatchRemove, TypeOK
  <2>2. \A q \in Requests : q # a => ends[q] \cap toEnd[a] = {}
    BY <1>7 DEF PatchRemove, EndInv, Apart, Requests
  <2>3. UNCHANGED <<rows, toAdd, adds, now, clock>>
    BY <1>7 DEF PatchRemove
  <2>4. OnExisting'
    BY <2>3 DEF EndInv, OnExisting, Exists
  <2>5. Pending'
    BY <2>1, <2>3 DEF EndInv, Pending, Null
  <2>6. Apart'
    BY <1>0, <2>1, <2>2, <2>3, EntitlementAssumption DEF EndInv, Apart
  <2>7. Dated'
    BY <1>0, <1>7 DEF PatchRemove, EndInv, Dated, TypeOK
  <2> QED
    BY <1>0, <2>4, <2>5, <2>6, <2>7 DEF EndInv
<1>8. ASSUME NEW a \in Patches, PatchReadScope(a) PROVE EndInv'
  <2>1. Dated'
    BY <1>0, <1>8 DEF PatchReadScope, EndInv, Dated, TypeOK
  <2> QED
    BY <1>0, <1>8, <2>1, QuietStep DEF PatchReadScope
<1>9. ASSUME NEW a \in Patches, PatchHide(a) PROVE EndInv'
  <2>1. Dated'
    BY <1>0, <1>9 DEF PatchHide, EndInv, Dated, TypeOK
  <2> QED
    BY <1>0, <1>9, <2>1, QuietStep DEF PatchHide
<1>10. ASSUME NEW c \in Clients, WatchAdd(c) PROVE EndInv'
  <2>1. Dated'
    BY <1>0, <1>10 DEF WatchAdd, EndInv, Dated, TypeOK
  <2> QED
    BY <1>0, <1>10, <2>1, QuietStep DEF WatchAdd
<1>11. ASSUME NEW c \in Clients, WatchDrop(c) PROVE EndInv'
  <2>1. Dated'
    BY <1>0, <1>11 DEF WatchDrop, EndInv, Dated, TypeOK
  <2> QED
    BY <1>0, <1>11, <2>1, QuietStep DEF WatchDrop
<1>12. CASE UNCHANGED vars
  BY <1>0, <1>12, QuietStep DEF vars, EndInv, Dated
<1> QED
  BY <1>1, <1>2, <1>3, <1>4, <1>5, <1>6, <1>7, <1>8, <1>9, <1>10, <1>11, <1>12 DEF Next

LEMMA EndHolds == Spec => []EndInv
<1>1. Init => EndInv
  BY InitEnd
<1>2. EndInv /\ [Next]_vars => EndInv'
  BY StepKeepsEnd
<1> QED
  BY <1>1, <1>2, PTL DEF Spec

\* Every variable keeps its type, and no scope ends in the future: an end is
\* the now() of a transaction that has begun (soft_delete_scopes).
THEOREM EntitlementsTyped == Spec => []TypeOK
<1>1. EndInv => TypeOK
  BY DEF EndInv
<1> QED
  BY <1>1, EndHolds, PTL

LEMMA StepKeepsEnds ==
    ASSUME EndInv, [Next]_vars, NEW k \in Keys, rows[k] \in 1 .. MaxClock
    PROVE  rows'[k] = rows[k]
<1>0. rows[k] # NoRow /\ rows[k] # Null
  BY EntitlementAssumption DEF NoRow, Null
<1>1. ASSUME NEW r \in Requests, Commit(r) PROVE rows'[k] = rows[k]
  <2>1. k \notin adds[r] /\ k \notin ends[r]
    BY <1>0 DEF EndInv, Pending
  <2> QED
    BY <1>1, <2>1 DEF Commit, View
<1>2. ASSUME NEW s \in Subs, CreateSubscription(s) PROVE rows'[k] = rows[k]
  <2>1. k[1] # s
    BY <1>0, <1>2 DEF CreateSubscription, Keys
  <2> QED
    BY <1>2, <2>1 DEF CreateSubscription
<1>3. ASSUME NEW r \in Requests, Begin(r) \/ Rollback(r) PROVE rows'[k] = rows[k]
  BY <1>3 DEF Begin, Rollback
<1>4. ASSUME NEW a \in Patches,
             PatchCheck(a) \/ PatchAdd(a) \/ PatchRemove(a) \/ PatchReadScope(a) \/ PatchHide(a)
      PROVE  rows'[k] = rows[k]
  BY <1>4 DEF PatchCheck, PatchAdd, PatchRemove, PatchReadScope, PatchHide
<1>5. ASSUME NEW c \in Clients, WatchAdd(c) \/ WatchDrop(c) PROVE rows'[k] = rows[k]
  BY <1>5 DEF WatchAdd, WatchDrop
<1>6. CASE UNCHANGED vars
  BY <1>6 DEF vars
<1> QED
  BY <1>1, <1>2, <1>3, <1>4, <1>5, <1>6 DEF Next

\* The end of a scope, once committed, is not moved or taken back by any PATCH,
\* however many of them overlap (MIG 0011, soft_delete_scopes, add_scopes).
THEOREM EndsAreFinal == Spec => EndIsFinal
<1>1. EndInv /\ [Next]_vars =>
          [\A k \in Keys : rows[k] \in 1 .. MaxClock => rows'[k] = rows[k]]_vars
  BY StepKeepsEnds
<1> QED
  BY <1>1, EndHolds, PTL DEF Spec, EndIsFinal

-----------------------------------------------------------------------------
\* The documents of the rows without an end.
Unended(table) == {d \in Docs : \E s \in Subs : table[<<s, ScopeOf[d]>>] = Null}

\* A PATCH that nobody has overlapped.
Uncrossed(a) == a \in Patches /\ pc[a] # "idle" /\ a \notin crossed

\* Such a PATCH is alone, since it began, and nobody has a later now().
Alone == \A a \in Patches : Uncrossed(a) => Open = {a} /\ now[a] = clock

\* Such a PATCH hides what its own table no longer covers, and only that.
HidesRight ==
    \A a \in Patches : Uncrossed(a) =>
        /\ pc[a] = "seen" => seen[a] = Unended(View(a))
        /\ pc[a] = "ready" => /\ hides[a] \cap Unended(View(a)) = {}
                             /\ \A d \in Docs \ hides[a] :
                                   watch[d] = "active" => d \in Unended(View(a))

\* Only open PATCHes are crossed, and only the client inserts watchlists,
\* only PATCHes hide them.
Tidy ==
    /\ crossed \subseteq Open
    /\ \A a \in Patches : puts[a] = {}
    /\ \A c \in Clients : /\ pc[c] \in {"idle", "begun"} => puts[c] = {}
                          /\ hides[c] = {}

\* Without a taint no overlap is under way, the watchlists are in scope, and no
\* end has been set since an open request of the client began.
Untainted ==
    /\ crossed = {}
    /\ \A d \in Docs : watch[d] = "active" => d \in Unended(rows)
    /\ \A c \in Clients : pc[c] # "idle" =>
          /\ \A k \in Keys : rows[k] <= now[c] \/ rows[k] = Null
          /\ puts[c] \subseteq Unended(rows)

ScopeInv == EndInv /\ Alone /\ HidesRight /\ Tidy /\ (~tainted => Untainted)

LEMMA OpenEnded ==
    ASSUME TypeOK, NEW table \in [Keys -> 0 .. clock \cup {Null}]
    PROVE  /\ ScopeDocuments(table, clock) = Unended(table)
           /\ {d \in Docs : ScopeOf[d] \in CurrentScope(table, clock)} = Unended(table)
<1>1. \A v \in 0 .. clock \cup {Null} : v > clock <=> v = Null
  BY EntitlementAssumption DEF TypeOK, Null
<1>2. \A s \in Subs, d \in Docs : ScopeOf[d] \in Scopes /\ <<s, ScopeOf[d]>> \in Keys
  BY EntitlementAssumption DEF Keys
<1> QED
  BY <1>1, <1>2 DEF ScopeDocuments, CurrentScope, Unended

LEMMA EntitledIsUnended == TypeOK => Entitled = Unended(rows)
  BY OpenEnded DEF TypeOK, Entitled

LEMMA InitScope == Init => ScopeInv
<1> SUFFICES ASSUME Init PROVE ScopeInv
  OBVIOUS
<1>1. /\ crossed = {} /\ \A r \in Requests : pc[r] = "idle" /\ puts[r] = {} /\ hides[r] = {}
      /\ \A d \in Docs : watch[d] = "none"
  BY DEF Init, Nothing
<1> QED
  BY <1>1, InitEnd DEF ScopeInv, Alone, HidesRight, Tidy, Untainted, Uncrossed, Requests

\* A step of one request that writes no committed state and opens nothing.
LEMMA OwnStep ==
    ASSUME ScopeInv, EndInv', NEW r \in Requests, pc[r] # "idle", pc'[r] # "idle",
           \A q \in Requests \ {r} :
               /\ pc'[q] = pc[q] /\ puts'[q] = puts[q] /\ seen'[q] = seen[q]
               /\ hides'[q] = hides[q],
           UNCHANGED <<clock, rows, watch, now, crossed, tainted>>,
           r \in Patches => puts'[r] = {},
           r \in Clients => /\ pc'[r] \in {"idle", "begun"} => puts'[r] = {}
                            /\ hides'[r] = {}
                            /\ ~tainted => puts'[r] \subseteq Unended(rows),
           Uncrossed(r) =>
               /\ pc'[r] = "seen" => seen'[r] = Unended(View(r)')
               /\ pc'[r] = "ready" => /\ hides'[r] \cap Unended(View(r)') = {}
                                     /\ \A d \in Docs \ hides'[r] :
                                           watch[d] = "active" => d \in Unended(View(r)')
    PROVE  ScopeInv'
<1>1. Open' = Open
  BY DEF Open
<1>2. \A a \in Patches : Uncrossed(a)' <=> Uncrossed(a)
  BY <1>1 DEF Uncrossed, Open, Requests
<1>3. Alone'
  BY <1>1, <1>2 DEF ScopeInv, Alone
<1>4. HidesRight'
  <2> SUFFICES ASSUME NEW a \in Patches, Uncrossed(a)
               PROVE  /\ pc'[a] = "seen" => seen'[a] = Unended(View(a)')
                      /\ pc'[a] = "ready" => /\ hides'[a] \cap Unended(View(a)') = {}
                                            /\ \A d \in Docs \ hides'[a] :
                                                  watch'[d] = "active" => d \in Unended(View(a)')
    BY <1>2 DEF HidesRight, Unended, Null
  <2>1. a = r
    BY DEF ScopeInv, Alone, Open
  <2> QED
    BY <2>1
<1>5. Tidy'
  BY <1>1 DEF ScopeInv, Tidy, Requests
<1>6. ~tainted' => Untainted'
  BY DEF ScopeInv, Untainted, Unended, Requests, Null
<1> QED
  BY <1>3, <1>4, <1>5, <1>6 DEF ScopeInv

\* When a transaction ends, no other PATCH is uncrossed: it would be alone.
LEMMA EndScope ==
    ASSUME ScopeInv, EndInv', NEW r \in Requests, pc[r] # "idle", End(r)
    PROVE  /\ Alone' /\ HidesRight' /\ Tidy'
           /\ Open' = Open \ {r} /\ crossed' = crossed \ {r} /\ clock' = clock
           /\ \A q \in Requests \ {r} : now'[q] = now[q] /\ puts'[q] = puts[q]
<1>0. TypeOK
  BY DEF ScopeInv, EndInv
<1>1. /\ pc'[r] = "idle" /\ puts'[r] = {} /\ hides'[r] = {}
      /\ crossed' = crossed \ {r} /\ clock' = clock
      /\ \A q \in Requests \ {r} : /\ pc'[q] = pc[q] /\ now'[q] = now[q]
                                   /\ puts'[q] = puts[q] /\ hides'[q] = hides[q]
  BY <1>0 DEF End, TypeOK
<1>2. Open' = Open \ {r}
  BY <1>1 DEF Open
<1>3. \A a \in Patches : ~Uncrossed(a)'
  <2> SUFFICES ASSUME NEW a \in Patches, Uncrossed(a)' PROVE FALSE
    OBVIOUS
  <2>1. a # r /\ Uncrossed(a)
    BY <1>1 DEF Uncrossed, Requests
  <2> QED
    BY <2>1 DEF ScopeInv, Alone, Open
<1>4. Alone' /\ HidesRight'
  BY <1>3 DEF Alone, HidesRight
<1>5. Tidy'
  BY <1>1, <1>2 DEF ScopeInv, Tidy, Requests
<1> QED
  BY <1>1, <1>2, <1>4, <1>5

LEMMA BeginScope ==
    ASSUME ScopeInv, EndInv', NEW r \in Requests, Begin(r)
    PROVE  ScopeInv'
<1>0. TypeOK /\ Patches \cap Clients = {} /\ Patches \subseteq Requests /\ Clients \subseteq Requests
  BY EntitlementAssumption DEF ScopeInv, EndInv, Requests
<1>1. /\ pc[r] = "idle" /\ pc' = [pc EXCEPT ![r] = "begun"]
      /\ now' = [now EXCEPT ![r] = clock']
      /\ UNCHANGED <<rows, watch, puts, hides>>
  BY DEF Begin, txVars
<1>2. clock' \in Nat /\ clock \in Nat /\ clock <= clock'
  BY <1>0, EntitlementAssumption DEF Begin, TypeOK
<1>3. Open' = Open \cup {r} /\ r \notin Open
  BY <1>0, <1>1 DEF Open, TypeOK
<1>4. Tidy'
  <2>1. crossed' \subseteq Open'
    BY <1>3 DEF Begin, Met, ScopeInv, Tidy
  <2> QED
    BY <1>0, <1>1, <2>1 DEF ScopeInv, Tidy, TypeOK
<1>5. CASE Met(r) = {}
  <2>1. crossed' = crossed /\ tainted' = tainted
    BY <1>0, <1>5 DEF Begin, TypeOK
  <2>2. \A a \in Patches : Uncrossed(a)' => a = r
    BY <1>0, <1>1, <1>5 DEF Met, Open, Uncrossed, TypeOK, Requests
  <2>3. r \in Patches => Open = {}
    BY <1>3, <1>5 DEF Met
  <2>4. Alone' /\ HidesRight'
    BY <1>0, <1>1, <1>3, <2>2, <2>3 DEF Alone, HidesRight, TypeOK
  <2>5. ASSUME ~tainted PROVE Untainted'
    <3>1. Untainted
      BY <2>5 DEF ScopeInv
    <3>2. \A k \in Keys : rows[k] <= clock' \/ rows[k] = Null
      BY <1>0, <1>2 DEF TypeOK
    <3>3. ASSUME NEW c \in Clients, pc'[c] # "idle"
          PROVE  /\ \A k \in Keys : rows[k] <= now'[c] \/ rows[k] = Null
                 /\ puts[c] \subseteq Unended(rows)
      <4>1. CASE c = r
        BY <1>0, <1>1, <3>2, <4>1 DEF TypeOK, ScopeInv, Tidy
      <4>2. CASE c # r
        BY <1>0, <1>1, <3>1, <3>3, <4>2 DEF TypeOK, Untainted
      <4> QED
        BY <4>1, <4>2
    <3> QED
      BY <1>1, <2>1, <3>1, <3>3 DEF Untainted, Unended, Null
  <2> QED
    BY <1>4, <2>1, <2>4, <2>5 DEF ScopeInv
<1>6. CASE Met(r) # {}
  <2>1. tainted' /\ crossed' = crossed \cup ((Met(r) \cup {r}) \cap Patches)
    BY <1>6 DEF Begin
  <2>2. \A a \in Patches : ~Uncrossed(a)'
    BY <1>0, <1>1, <1>3, <2>1 DEF Met, Open, Uncrossed, TypeOK, Requests
  <2>3. Alone' /\ HidesRight'
    BY <2>2 DEF Alone, HidesRight
  <2> QED
    BY <1>4, <2>1, <2>3 DEF ScopeInv
<1> QED
  BY <1>5, <1>6

LEMMA CommitScope ==
    ASSUME ScopeInv, EndInv', NEW r \in Requests, Commit(r)
    PROVE  ScopeInv'
<1>0. TypeOK /\ Apart /\ Tidy /\ Patches \subseteq Requests /\ Clients \subseteq Requests
  BY DEF ScopeInv, EndInv, Requests
<1>1. pc[r] = "ready" /\ End(r) /\ rows' = View(r)
  BY DEF Commit
<1>2. /\ Alone' /\ HidesRight' /\ Tidy'
      /\ Open' = Open \ {r} /\ crossed' = crossed \ {r} /\ clock' = clock
      /\ \A q \in Requests \ {r} : now'[q] = now[q] /\ puts'[q] = puts[q]
  BY <1>1, EndScope
<1>3. \A d \in Docs : watch'[d] = "active" =>
          d \notin hides[r] /\ (d \in puts[r] \/ watch[d] = "active")
  BY DEF Commit
<1>4. CASE r \in Clients
  <2>1. tainted' = tainted
    BY <1>0, <1>4 DEF Commit, TypeOK
  <2>2. rows' = rows
    BY <1>0, <1>1, <1>4 DEF Apart, View, TypeOK
  <2>3. ASSUME ~tainted PROVE Untainted'
    <3>1. Untainted
      BY <2>3 DEF ScopeInv
    <3>2. \A d \in Docs : watch'[d] = "active" => d \in Unended(rows)
      BY <1>1, <1>3, <1>4, <3>1 DEF Untainted
    <3>3. \A c \in Clients : pc'[c] # "idle" => c # r /\ pc[c] # "idle"
      BY <1>0, <1>2 DEF Open
    <3> QED
      BY <1>0, <1>2, <2>2, <3>1, <3>2, <3>3 DEF Untainted, Unended, Null
  <2> QED
    BY <1>2, <2>1, <2>3 DEF ScopeInv
<1>5. CASE r \in Patches
  <2> SUFFICES ASSUME ~tainted' PROVE Untainted'
    BY <1>2 DEF ScopeInv
  <2>1. Uncrossed(r)
    <3>1. ~tainted \/ r \notin crossed
      BY <1>5, EntitlementAssumption DEF Commit
    <3>2. ~tainted => crossed = {}
      BY DEF ScopeInv, Untainted
    <3> QED
      BY <1>1, <1>5, <3>1, <3>2 DEF Uncrossed
  <2>2. Open' = {} /\ crossed' = {}
    BY <1>0, <1>2, <1>5, <2>1 DEF ScopeInv, Alone, Tidy
  <2>3. \A d \in Docs : watch'[d] = "active" => d \in Unended(View(r))
    BY <1>0, <1>1, <1>3, <1>5, <2>1 DEF ScopeInv, HidesRight, Tidy
  <2>4. \A c \in Clients : pc'[c] = "idle"
    BY <1>0, <2>2 DEF Open
  <2> QED
    BY <1>1, <2>2, <2>3, <2>4 DEF Untainted, Unended, Null
<1> QED
  BY <1>4, <1>5 DEF Requests

LEMMA RollbackScope ==
    ASSUME ScopeInv, EndInv', NEW r \in Requests, Rollback(r)
    PROVE  ScopeInv'
<1>1. pc[r] # "idle" /\ End(r) /\ UNCHANGED <<rows, watch, tainted>>
  BY DEF Rollback
<1>2. /\ Alone' /\ HidesRight' /\ Tidy'
      /\ Open' = Open \ {r} /\ crossed' = crossed \ {r} /\ clock' = clock
      /\ \A q \in Requests \ {r} : now'[q] = now[q] /\ puts'[q] = puts[q]
  BY <1>1, EndScope
<1>3. ASSUME ~tainted PROVE Untainted'
  <2>1. Untainted
    BY <1>3 DEF ScopeInv
  <2>2. \A c \in Clients : pc'[c] # "idle" => c # r /\ pc[c] # "idle" /\ c \in Requests
    BY <1>2 DEF Open, Requests
  <2> QED
    BY <1>1, <1>2, <2>1, <2>2 DEF Untainted, Unended, Null
<1> QED
  BY <1>1, <1>2, <1>3 DEF ScopeInv

LEMMA CreateScope ==
    ASSUME ScopeInv, EndInv', NEW s \in Subs, CreateSubscription(s)
    PROVE  ScopeInv'
<1>0. TypeOK /\ Null # NoRow
  BY EntitlementAssumption DEF ScopeInv, EndInv, Null, NoRow
<1>1. /\ UNCHANGED <<pc, now, puts, hides, watch, clock>>
      /\ crossed' = crossed \cup (Open \cap Patches)
      /\ tainted' = (tainted \/ Open \cap Patches # {})
  BY DEF CreateSubscription, txVars
<1>2. Open' = Open
  BY <1>1 DEF Open
<1>3. \A a \in Patches : ~Uncrossed(a)'
  BY <1>1 DEF Uncrossed, Open, Requests
<1>4. Alone' /\ HidesRight'
  BY <1>3 DEF Alone, HidesRight
<1>5. Tidy'
  BY <1>1, <1>2 DEF ScopeInv, Tidy
<1>6. ASSUME ~tainted' PROVE Untainted'
  <2>1. Untainted /\ crossed' = {}
    BY <1>1, <1>6 DEF ScopeInv, Untainted
  <2>2. \A k \in Keys : rows'[k] = Null \/ rows'[k] = rows[k]
    BY DEF CreateSubscription
  <2>3. \A k \in Keys : rows[k] = Null => rows'[k] = Null
    BY <1>0 DEF CreateSubscription, Keys
  <2>4. Unended(rows) \subseteq Unended(rows')
    <3>1. \A t \in Subs, d \in Docs : <<t, ScopeOf[d]>> \in Keys
      BY EntitlementAssumption DEF Keys
    <3> QED
      BY <2>3, <3>1 DEF Unended
  <2>5. Unended(rows)' = Unended(rows')
    BY DEF Unended, Null
  <2> QED
    BY <1>1, <2>1, <2>2, <2>4, <2>5 DEF Untainted, Null
<1> QED
  BY <1>4, <1>5, <1>6 DEF ScopeInv

LEMMA StepKeepsScope == ScopeInv /\ [Next]_vars => ScopeInv'
<1> SUFFICES ASSUME ScopeInv, [Next]_vars PROVE ScopeInv'
  OBVIOUS
<1>0. /\ TypeOK /\ EndInv /\ EndInv' /\ Patches \cap Clients = {}
      /\ Patches \subseteq Requests /\ Clients \subseteq Requests
  BY StepKeepsEnd, EntitlementAssumption DEF ScopeInv, EndInv, Requests
<1>1. ASSUME NEW r \in Requests, Begin(r) \/ Commit(r) \/ Rollback(r) PROVE ScopeInv'
  BY <1>0, <1>1, BeginScope, CommitScope, RollbackScope
<1>2. ASSUME NEW s \in Subs, CreateSubscription(s) PROVE ScopeInv'
  BY <1>0, <1>2, CreateScope
<1>3. ASSUME NEW a \in Patches, PatchCheck(a) \/ PatchAdd(a) \/ PatchRemove(a)
      PROVE  ScopeInv'
  <2>1. /\ pc[a] # "idle" /\ pc'[a] \in {"checked", "added", "removed"}
        /\ \A q \in Requests \ {a} : pc'[q] = pc[q]
    BY <1>0, <1>3 DEF PatchCheck, PatchAdd, PatchRemove, TypeOK
  <2>2. UNCHANGED <<clock, rows, watch, now, puts, seen, hides, crossed, tainted>>
    BY <1>3 DEF PatchCheck, PatchAdd, PatchRemove
  <2> QED
    BY <1>0, <2>1, <2>2, OwnStep DEF ScopeInv, Tidy
<1>4. ASSUME NEW a \in Patches, PatchReadScope(a) PROVE ScopeInv'
  <2>1. /\ pc[a] = "removed" /\ pc'[a] = "seen"
        /\ seen'[a] = ScopeDocuments(View(a), now[a])
        /\ \A q \in Requests \ {a} : pc'[q] = pc[q] /\ seen'[q] = seen[q]
    BY <1>0, <1>4 DEF PatchReadScope, TypeOK
  <2>2. UNCHANGED <<clock, rows, watch, now, adds, ends, puts, hides, crossed, tainted>>
    BY <1>4 DEF PatchReadScope
  <2>3. Uncrossed(a) => seen'[a] = Unended(View(a)')
    <3>1. Uncrossed(a) => now[a] = clock
      BY DEF ScopeInv, Alone
    <3>2. ScopeDocuments(View(a), clock) = Unended(View(a))
      BY <1>0, OpenEnded, ViewType
    <3>3. View(a)' = View(a)
      BY <2>2 DEF View, Null
    <3> QED
      BY <2>1, <3>1, <3>2, <3>3
  <2> QED
    BY <1>0, <2>1, <2>2, <2>3, OwnStep DEF ScopeInv, Tidy
<1>5. ASSUME NEW a \in Patches, PatchHide(a) PROVE ScopeInv'
  <2>1. /\ pc[a] = "seen" /\ pc'[a] = "ready"
        /\ hides'[a] = {d \in Docs \ seen[a] : watch[d] = "active"}
        /\ \A q \in Requests \ {a} : /\ pc'[q] = pc[q] /\ seen'[q] = seen[q]
                                     /\ hides'[q] = hides[q]
    BY <1>0, <1>5 DEF PatchHide, TypeOK
  <2>2. UNCHANGED <<clock, rows, watch, now, adds, ends, puts, crossed, tainted>>
    BY <1>5 DEF PatchHide
  <2>3. Uncrossed(a) => seen[a] = Unended(View(a)')
    <3>1. View(a)' = View(a)
      BY <2>2 DEF View, Null
    <3> QED
      BY <2>1, <3>1 DEF ScopeInv, HidesRight
  <2> QED
    BY <1>0, <2>1, <2>2, <2>3, OwnStep DEF ScopeInv, Tidy
<1>6. ASSUME NEW c \in Clients, WatchAdd(c) PROVE ScopeInv'
  <2>1. PICK d \in Docs : /\ ScopeOf[d] \in CurrentScope(rows, now[c])
                          /\ puts' = [puts EXCEPT ![c] = {d}]
    BY <1>6 DEF WatchAdd
  <2>2. /\ pc[c] = "begun" /\ pc' = [pc EXCEPT ![c] = "ready"]
        /\ UNCHANGED <<clock, rows, watch, now, seen, hides, crossed, tainted>>
    BY <1>6 DEF WatchAdd
  <2>3. ~tainted => d \in Unended(rows)
    <3>1. PICK s \in Subs : rows[<<s, ScopeOf[d]>>] > now[c]
      BY <2>1 DEF CurrentScope
    <3>2. <<s, ScopeOf[d]>> \in Keys
      BY EntitlementAssumption DEF Keys
    <3>3. rows[<<s, ScopeOf[d]>>] \in Int /\ now[c] \in Int
      BY <1>0, <3>2, EntitlementAssumption DEF TypeOK, Null
    <3>4. ~tainted => rows[<<s, ScopeOf[d]>>] = Null
      BY <2>2, <3>1, <3>2, <3>3 DEF ScopeInv, Untainted
    <3> QED
      BY <3>4 DEF Unended
  <2>4. puts'[c] = {d} /\ \A q \in Requests \ {c} : puts'[q] = puts[q]
    BY <1>0, <2>1 DEF TypeOK
  <2>5. pc'[c] = "ready" /\ \A q \in Requests \ {c} : pc'[q] = pc[q]
    BY <1>0, <2>2 DEF TypeOK
  <2>6. c \in Requests /\ c \notin Patches /\ ~Uncrossed(c) /\ hides[c] = {}
    BY <1>0 DEF Uncrossed, ScopeInv, Tidy
  <2> QED
    BY <1>0, <2>2, <2>3, <2>4, <2>5, <2>6, OwnStep
<1>7. ASSUME NEW c \in Clients, WatchDrop(c) PROVE ScopeInv'
  <2>1. /\ pc[c] = "begun" /\ pc'[c] = "ready" /\ \A q \in Requests \ {c} : pc'[q] = pc[q]
        /\ UNCHANGED <<clock, rows, watch, now, seen, hides, puts, crossed, tainted>>
    BY <1>0, <1>7 DEF WatchDrop, TypeOK
  <2>2. c \in Requests /\ c \notin Patches /\ ~Uncrossed(c) /\ puts[c] = {} /\ hides[c] = {}
    BY <1>0, <2>1 DEF Uncrossed, ScopeInv, Tidy
  <2> QED
    BY <1>0, <2>1, <2>2, OwnStep
<1>8. CASE UNCHANGED vars
  <2>1. Unended(rows)' = Unended(rows) /\ Open' = Open /\ \A a : Uncrossed(a)' <=> Uncrossed(a)
    BY <1>8 DEF vars, Unended, Null, Open, Uncrossed
  <2>2. \A a : Unended(View(a))' = Unended(View(a))
    BY <1>8 DEF vars, Unended, View, Null
  <2> QED
    BY <1>0, <1>8, <2>1, <2>2 DEF vars, ScopeInv, Alone, HidesRight, Tidy, Untainted, Null
<1> QED
  BY <1>1, <1>2, <1>3, <1>4, <1>5, <1>6, <1>7, <1>8 DEF Next

LEMMA ScopeHolds == Spec => []ScopeInv
<1>1. Init => ScopeInv
  BY InitScope
<1>2. ScopeInv /\ [Next]_vars => ScopeInv'
  BY StepKeepsScope
<1> QED
  BY <1>1, <1>2, PTL DEF Spec

\* Without an overlap every active watchlist is in the client's scope, and a PATCH
\* that runs alone repairs what earlier overlaps have left (patch_subscription,
\* soft_hide_out_of_scope).
THEOREM ScopeIsKept == Spec => []InScopeUnlessCrossed
<1>1. ScopeInv => InScopeUnlessCrossed
  <2> SUFFICES ASSUME ScopeInv, ~tainted PROVE ActiveInScope
    BY DEF InScopeUnlessCrossed
  <2>1. Entitled = Unended(rows)
    BY EntitledIsUnended DEF ScopeInv, EndInv
  <2> QED
    BY <2>1 DEF ScopeInv, Untainted, ActiveInScope
<1> QED
  BY <1>1, ScopeHolds, PTL

LEMMA StepHidesRight ==
    ASSUME ScopeInv, ScopeInv', [Next]_vars, NEW d \in Docs,
           watch[d] = "active", watch'[d] = "hidden", ~tainted
    PROVE  d \notin Entitled'
<1>1. PICK r \in Requests : Commit(r)
  <2>1. watch' # watch
    OBVIOUS
  <2> QED
    BY <2>1 DEF Next, vars, Begin, Rollback, CreateSubscription, PatchCheck, PatchAdd, PatchRemove,
                PatchReadScope, PatchHide, WatchAdd, WatchDrop
<1>2. d \in hides[r] /\ pc[r] = "ready" /\ rows' = View(r)
  BY <1>1 DEF Commit
<1>3. CASE r \in Patches
  <2>1. Uncrossed(r)
    BY <1>2, <1>3 DEF Uncrossed, ScopeInv, Untainted
  <2>2. d \notin Unended(View(r))
    BY <1>2, <1>3, <2>1 DEF ScopeInv, HidesRight
  <2>3. Entitled' = Unended(rows)'
    <3>1. TypeOK'
      BY DEF ScopeInv, EndInv
    <3>2. (TypeOK => Entitled = Unended(rows))'
      BY EntitledIsUnended, PTL
    <3> QED
      BY <3>1, <3>2
  <2> QED
    BY <1>2, <2>2, <2>3 DEF Unended, Null
<1>4. CASE r \in Clients
  BY <1>2, <1>4 DEF ScopeInv, Tidy
<1> QED
  BY <1>3, <1>4 DEF Requests

\* The soft-hide pass takes no watchlist whose document the client may still read,
\* unless another request was under way (active_scope_documents, "data loss").
THEOREM HidesOnlyOutOfScope == Spec => NoNeedlessHide
<1>1. ScopeInv /\ ScopeInv' /\ [Next]_vars =>
          [\A d \in Docs : watch[d] = "active" /\ watch'[d] = "hidden" =>
              tainted \/ d \notin Entitled']_vars
  BY StepHidesRight
<1> QED
  BY <1>1, ScopeHolds, PTL DEF Spec, NoNeedlessHide
=============================================================================

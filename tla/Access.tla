------------------------------- MODULE Access -------------------------------
(***************************************************************************)
(* What a request of the API may read: the bearer it presents (deps/auth),  *)
(* the session it is given (deps/session, deps/admin, deps/admin_or_app,    *)
(* db/session, core/auth/admin), the statements its handler runs under row  *)
(* level security, and the audit rows and support-view tokens it leaves,    *)
(* while the worker publishes versions, administrators change scopes, the   *)
(* demo accounts are reset and the connection pool runs dry.                *)
(***************************************************************************)
EXTENDS Integers, FiniteSets, Sequences

CONSTANTS
    Clients, Admins, \* users
    Docs,        \* documents, numbered in the order of created_at
    Pairs,       \* (jurisdiction, sector) pairs
    PairOf,      \* the pair of each document
    Requests,    \* requests in flight
    Asks,        \* what each of them may ask for
    NewVersions, \* what the worker may publish
    PoolSize,    \* pool_size + max_overflow
    MaxLimit,    \* MAX_LIMIT of the primitives
    MaxContent,  \* CORPUS_INCLUDE_CONTENT_MAX_LIMIT
    MaxClock,    \* bound: distinct values of now()
    MaxChanges   \* bound: what happens around the requests

Users == Clients \cup Admins
AdminRoutes == {"impersonate", "audit", "clients", "ingestion", "db"}
FeedRoutes  == {"discovery", "temporal", "differential"}
ClientRoutes == {"documents", "document", "clauses", "overview", "event"} \cup FeedRoutes

Ask == [route : {"me"} \cup ClientRoutes \cup AdminRoutes,
        docs : SUBSET Docs, no : Nat, limit : Int,
        scope : {"corpus", "document", "clause"}, content : BOOLEAN, target : Users]

ASSUME AccessAssumption ==
    /\ Clients \cap Admins = {} /\ Users # {}
    /\ Docs \subseteq Nat \ {0} /\ IsFiniteSet(Docs)
    /\ PairOf \in [Docs -> Pairs]
    /\ Asks \in [Requests -> SUBSET Ask]
    /\ \A r \in Requests : \A a \in Asks[r] :
          a.route \in {"document", "clauses"} => \E d \in Docs : a.docs = {d}
    /\ NewVersions \subseteq [effective : Nat, clauses : Nat]
    /\ PoolSize \in Nat \ {0} /\ MaxClock \in Nat \ {0} /\ MaxChanges \in Nat
    /\ IsFiniteSet(Requests)

NoRow == 0
Null  == MaxClock + 1

Tokens == [kind : {"access", "refresh", "impersonation", "malformed"},
           role : {"client", "admin"}, sub : Users]
Row == [pair : Pairs, doc : Docs \cup {0}, no : Nat, clause : Nat]

VARIABLES
    clock,      \* now() of a transaction that starts
    changes,    \* counts what happens around the requests
    users,      \* users: the rows that exist
    validTo,    \* subscription_scopes, committed: the end of each user's pairs
    versions,   \* document_versions and their clauses, committed
    audit,      \* admin_access_log, committed
    minted,     \* impersonation tokens and the request that issued them
    pc,         \* where each request stands
    token,      \* its bearer
    ask,        \* its route and parameters
    session,    \* app.user_id and the role of its transaction
    now,        \* now() of that transaction
    got,        \* what its statements have returned, in order; nothing of it is
                \* in the answer of a request that fails
    status,     \* the status of its answer, 0 before
    since       \* the pairs its subject has had at any time since it arrived

world == <<clock, changes, users, validTo, versions>>
reqVars == <<token, ask, session, now, got, status, since>>
vars == <<world, audit, minted, pc, reqVars>>

Waiting == {"arrived", "audited", "elevating", "recorded"}
Holding == {"open", "elevating", "recorded", "answered"}

TypeOK ==
    /\ clock \in 1 .. MaxClock /\ changes \in 0 .. MaxChanges
    /\ users \subseteq Users
    /\ validTo \in [Users -> [Pairs -> 0 .. Null]]
    /\ versions \in [Docs -> Seq([effective : Nat, clauses : Nat, created : Nat])]
    /\ audit \subseteq [mode : {"operator", "impersonation"}, admin : Users,
                        target : SUBSET Users, by : Requests]
    /\ minted \subseteq [token : Tokens, by : Requests, admin : Users]
    /\ pc \in [Requests -> {"idle", "done"} \cup Waiting \cup Holding]
    /\ token \in [Requests -> Tokens]
    /\ ask \in [Requests -> Ask]
    /\ session \in [Requests -> [uid : Users, role : {"none", "api_app", "admin_bypass"}]]
    /\ now \in [Requests -> 0 .. MaxClock]
    /\ got \in [Requests -> Seq(SUBSET Row)]
    /\ status \in [Requests -> Nat]
    /\ since \in [Requests -> SUBSET Pairs]

Nobody == CHOOSE u \in Users : TRUE
Malformed == [kind |-> "malformed", role |-> "client", sub |-> Nobody]
NoAsk == [route |-> "me", docs |-> {}, no |-> 0, limit |-> 0, scope |-> "corpus",
          content |-> FALSE, target |-> Nobody]
Unbound == [uid |-> Nobody, role |-> "none"]

Init ==
    /\ clock = 1 /\ changes = 0
    /\ users = Users
    /\ validTo \in [Users -> [Pairs -> {NoRow, Null}]]
    /\ \A u \in Admins, p \in Pairs : validTo[u][p] = NoRow
    /\ versions = [d \in Docs |-> <<>>]
    /\ audit = {} /\ minted = {}
    /\ pc = [r \in Requests |-> "idle"]
    /\ token = [r \in Requests |-> Malformed]
    /\ ask = [r \in Requests |-> NoAsk]
    /\ session = [r \in Requests |-> Unbound]
    /\ now = [r \in Requests |-> 0]
    /\ got = [r \in Requests |-> <<>>]
    /\ status = [r \in Requests |-> 0]
    /\ since = [r \in Requests |-> {}]

-----------------------------------------------------------------------------
\* Row level security.

\* app_private.current_scope(), judged by the time the transaction began.
CurrentScope(u, t) == {p \in Pairs : validTo[u][p] > t}

DocumentsInScope(r) == {d \in Docs : PairOf[d] \in CurrentScope(session[r].uid, now[r])}

\* BYPASSRLS is an attribute of the role.
Visible(r) == IF session[r].role = "admin_bypass" THEN Docs ELSE DocumentsInScope(r)

\* The policies of the child tables walk up to the document.
VersionsInScope(r) == UNION {{<<d, n>> : n \in DOMAIN versions[d]} : d \in Visible(r)}
ClausesInScope(r) ==
    UNION {{<<e[1], e[2], c>> : c \in 1 .. versions[e[1]][e[2]].clauses} : e \in VersionsInScope(r)}

RowOf(d, n, c) == [pair |-> PairOf[d], doc |-> d, no |-> n, clause |-> c]

-----------------------------------------------------------------------------
\* The statements; each sees what is committed when it runs.

\* list_filtered: the filters, newest first, limit.
Page(r) ==
    LET found == Visible(r) \cap ask[r].docs
    IN {d \in found : Cardinality({e \in found : e > d}) < ask[r].limit}

DocumentRows(S) == {RowOf(d, 0, 0) : d \in S}
DocumentRow(r) == DocumentRows(Visible(r) \cap ask[r].docs)

\* _fetch_stats: COALESCE(effective_date, created_at) DESC, id DESC.
SortKey(d, n) == IF versions[d][n].effective = 0 THEN versions[d][n].created
                 ELSE versions[d][n].effective
Newer(d, n, m) == SortKey(d, n) > SortKey(d, m) \/ (SortKey(d, n) = SortKey(d, m) /\ n > m)
Place(d, n) == Cardinality({m \in DOMAIN versions[d] : Newer(d, m, n)})

\* The current and the previous version of each document.
StatsRows(r, S) ==
    {RowOf(e[1], e[2], 0) : e \in {x \in VersionsInScope(r) : x[1] \in S /\ Place(x[1], x[2]) < 2}}

\* Those of the page, and those of one document.
PageStats(r) == StatsRows(r, {v.doc : v \in got[r][2]})
DocumentStats(r) == StatsRows(r, ask[r].docs)

VersionRows(r) == {RowOf(e[1], e[2], 0) : e \in {x \in VersionsInScope(r) : x[1] \in ask[r].docs}}
LabelRow(r) == {v \in VersionRows(r) : v.no = ask[r].no}
ClauseRows(r) ==
    {RowOf(e[1], e[2], e[3]) :
        e \in {x \in ClausesInScope(r) : x[1] \in ask[r].docs /\ x[2] = ask[r].no}}

\* change_events: those of a version are written with it.
EventRows(r) == VersionRows(r)
EventRow(r)  == LabelRow(r)

ScopeRows(r) ==
    {[pair |-> p, doc |-> 0, no |-> 0, clause |-> 0] : p \in CurrentScope(session[r].uid, now[r])}


-----------------------------------------------------------------------------
\* The statements of each handler.

ListDocuments == <<"count", "page", "stats">>

\* Fault: the versions are listed before the aggregates are read.
GetDocumentLate == <<"row", "versions", "stats">>

GetDocument   == <<"row", "stats", "versions">>

GetClauses    == <<"version", "clauses">>
Summary       == <<"scope", "subscriptions">>
GetMe         == <<"user">> \o Summary
\* The roll-ups count the whole corpus for everybody (SECURITY DEFINER); the
\* client's pairs only mark them.
GetOverview(t) == IF t.role = "admin" THEN <<"matrix", "changes">>
                  ELSE <<"matrix", "changes", "scope">>
Discovery     == <<"events">>
Temporal      == <<"events">>
Differential  == <<"events">>
DifferentialById == <<"event">>
Impersonate   == <<"admin", "target">>
AuditSearch   == <<"log">>
ClientsList   == <<"clients", "total">>
IngestionHealth == <<"backlog", "sample", "incidents">>
SlowQueries   == <<"extension", "slow">>
DbHealth      == <<"connections">> \o SlowQueries

Handler(a, t) ==
    CASE a.route = "documents" -> ListDocuments
      [] a.route = "document" -> GetDocument
      [] a.route = "clauses" -> GetClauses
      [] a.route = "me" -> GetMe
      [] a.route = "overview" -> GetOverview(t)
      [] a.route = "discovery" -> Discovery
      [] a.route = "temporal" -> Temporal
      [] a.route = "differential" -> Differential
      [] a.route = "event" -> DifferentialById
      [] a.route = "impersonate" -> Impersonate
      [] a.route = "audit" -> AuditSearch
      [] a.route = "clients" -> ClientsList
      [] a.route = "ingestion" -> IngestionHealth
      [] OTHER -> DbHealth

\* What a statement returns of the tables that have an owner or a scope; the
\* roll-ups of the whole corpus and the operator's tables return none of them.
Result(r, what) ==
    CASE what = "page" -> DocumentRows(Page(r))
      [] what = "row" -> DocumentRow(r)
      [] what = "stats" /\ ask[r].route = "documents" -> PageStats(r)
      [] what = "stats" /\ ask[r].route # "documents" -> DocumentStats(r)
      [] what = "versions" -> VersionRows(r)
      [] what = "version" -> LabelRow(r)
      [] what = "clauses" -> ClauseRows(r)
      [] what = "events" -> EventRows(r)
      [] what = "event" -> EventRow(r)
      [] what = "scope" -> ScopeRows(r)
      [] OTHER -> {}

\* What the handler refuses before its first statement.
BadScope(a) == a.scope # "corpus" /\ a.docs = {}
BadLimit(a) == a.limit < 1 \/ a.limit > MaxLimit
BadContent(a) == a.route = "differential" /\ a.scope = "corpus" /\ a.content
                 /\ a.limit > MaxContent
Unprocessable(a) == a.route \in FeedRoutes /\ (BadScope(a) \/ BadLimit(a) \/ BadContent(a))

\* What begin_impersonation refuses of the target it has looked up.
BadTarget(r) == ask[r].target = token[r].sub \/ ask[r].target \notin Clients

\* The answer that a statement's result is the end of, 0 if the handler goes on.
Outcome(r, what, rows) ==
    CASE what \in {"user", "admin"} /\ token[r].sub \notin users -> 401
      [] what = "target" /\ ask[r].target \notin users -> 404
      [] what = "target" /\ ask[r].target \in users /\ BadTarget(r) -> 422
      [] what \in {"row", "version", "event"} /\ rows = {} -> 404
      [] what = "page" /\ rows = {} -> 200
      [] what = "extension" -> 200
      [] OTHER -> 0

-----------------------------------------------------------------------------
\* A request.

Step(r, from, to) == pc[r] = from /\ pc' = [pc EXCEPT ![r] = to]

Free == PoolSize - Cardinality({r \in Requests : pc[r] \in Holding})

\* The handler returns or raises: an error answers nothing of what was read.
Answer(r, code, rows) ==
    /\ status' = [status EXCEPT ![r] = code]
    /\ got' = [got EXCEPT ![r] = IF code = 200 THEN rows ELSE <<>>]

\* Nothing is left of the request.
Forget(r) ==
    /\ session' = [session EXCEPT ![r] = Unbound]
    /\ token' = [token EXCEPT ![r] = Malformed]
    /\ ask' = [ask EXCEPT ![r] = NoAsk]
    /\ now' = [now EXCEPT ![r] = 0]
    /\ got' = [got EXCEPT ![r] = <<>>]
    /\ status' = [status EXCEPT ![r] = 0]
    /\ since' = [since EXCEPT ![r] = {}]

\* The bearers a browser may hold: those of a login, whoever is left of it, and
\* those of support view.
LoginToken(u, kind) ==
    [kind |-> kind, role |-> IF u \in Admins THEN "admin" ELSE "client", sub |-> u]
Bearers == {LoginToken(u, k) : u \in Users, k \in {"access", "refresh"}}
           \cup {m.token : m \in minted} \cup {Malformed}

\* _verify_bearer; authenticated_user = require_kinds(...); require_admin_principal.
Verified(t) == t.kind # "malformed"
Authenticated(t) == Verified(t) /\ t.kind \in {"access", "impersonation"}
Allowed(a, t) == a.route \in AdminRoutes => t.role = "admin"

\* The role each session dependency assumes.
ForRequest(t)        == "api_app"
ForRequestOrAdmin(t) == IF t.role = "admin" THEN "admin_bypass" ELSE "api_app"
AdminOrApp(t)        == IF t.role = "admin" THEN "admin_bypass" ELSE "api_app"
AdminOperator(t)     == "admin_bypass"

RoleFor(a, t) ==
    CASE a.route = "me" -> ForRequest(t)
      [] a.route \in {"documents", "document", "clauses"} -> ForRequestOrAdmin(t)
      [] a.route \in {"overview", "event"} \cup FeedRoutes -> AdminOrApp(t)
      [] OTHER -> AdminOperator(t)

Bypasses(r) == RoleFor(ask[r], token[r]) = "admin_bypass"

\* A request arrives; one that is refused is over before it reads a row.
Arrive(r) ==
    /\ pc[r] = "idle"
    /\ \E t \in Bearers, a \in Asks[r] :
          IF Authenticated(t) /\ Allowed(a, t)
          THEN /\ pc' = [pc EXCEPT ![r] = "arrived"]
               /\ token' = [token EXCEPT ![r] = t]
               /\ ask' = [ask EXCEPT ![r] = a]
               /\ since' = [since EXCEPT ![r] = CurrentScope(t.sub, clock)]
          ELSE /\ pc' = [pc EXCEPT ![r] = "done"]
               /\ UNCHANGED <<token, ask, since>>
    /\ UNCHANGED <<world, audit, minted, session, now, got, status>>

AuditRow(r, mode, target) ==
    [mode |-> mode, admin |-> token[r].sub, target |-> target, by |-> r]

\* Fault: the row is written in the working session, and lost with it.
RecordInSession(r) ==
    /\ Bypasses(r)
    /\ Free > 0
    /\ Step(r, "arrived", "audited")
    /\ UNCHANGED <<world, audit, minted, reqVars>>

\* _record_audit_row, a transaction of its own; admin_id must exist.
Record(r) ==
    /\ pc[r] = "arrived"
    /\ Bypasses(r)
    /\ Free > 0
    /\ IF token[r].sub \in users
       THEN /\ audit' = audit \cup {AuditRow(r, "operator", {})}
            /\ pc' = [pc EXCEPT ![r] = "audited"]
            /\ UNCHANGED reqVars
       ELSE /\ pc' = [pc EXCEPT ![r] = "done"]
            /\ Forget(r)
            /\ UNCHANGED audit
    /\ UNCHANGED <<world, minted>>

\* set_local_role.
Bound(r) == [uid |-> token[r].sub, role |-> RoleFor(ask[r], token[r])]

\* session_for_user.
OpenSession(r) ==
    /\ Free > 0
    /\ Step(r, IF Bypasses(r) THEN "audited" ELSE "arrived", "open")
    /\ now' = [now EXCEPT ![r] = clock]
    /\ session' = [session EXCEPT ![r] = Bound(r)]
    /\ UNCHANGED <<world, audit, minted, token, ask, got, status, since>>

\* The handler refuses its parameters; the session was opened for nothing.
Refuse(r) ==
    /\ got[r] = <<>> /\ Unprocessable(ask[r])
    /\ Step(r, "open", "answered")
    /\ Answer(r, 422, <<>>)
    /\ UNCHANGED <<world, audit, minted, token, ask, session, now, since>>

Statement(r) ==
    /\ pc[r] = "open"
    /\ ~ Unprocessable(ask[r])
    /\ LET todo == Handler(ask[r], token[r])
           i == Len(got[r]) + 1
           rows == Append(got[r], Result(r, todo[i]))
           code == Outcome(r, todo[i], Result(r, todo[i]))
       IN \/ /\ code # 0
             /\ pc' = [pc EXCEPT ![r] = "answered"]
             /\ Answer(r, code, rows)
          \/ /\ code = 0 \/ todo[i] = "extension"
             /\ i < Len(todo)
             /\ got' = [got EXCEPT ![r] = rows]
             /\ UNCHANGED <<pc, status>>
          \/ /\ code = 0 /\ i = Len(todo) /\ ask[r].route # "impersonate"
             /\ pc' = [pc EXCEPT ![r] = "answered"]
             /\ Answer(r, 200, rows)
          \/ /\ code = 0 /\ i = Len(todo) /\ ask[r].route = "impersonate"
             /\ pc' = [pc EXCEPT ![r] = "elevating"]
             /\ got' = [got EXCEPT ![r] = <<>>]
             /\ UNCHANGED status
    /\ UNCHANGED <<world, audit, minted, token, ask, session, now, since>>

\* A statement raises; the failure of the slow-query view is part of the answer.
StatementFails(r) ==
    /\ ~ Unprocessable(ask[r])
    /\ Step(r, "open", "answered")
    /\ Answer(r, IF ask[r].route = "db" /\ Len(got[r]) = 2 THEN 200 ELSE 500, got[r])
    /\ UNCHANGED <<world, audit, minted, token, ask, session, now, since>>

\* admin_impersonation_session: the row, on a second connection.
RecordImpersonation(r) ==
    /\ pc[r] = "elevating"
    /\ Free > 0
    /\ IF {token[r].sub, ask[r].target} \subseteq users
       THEN /\ audit' = audit \cup {AuditRow(r, "impersonation", {ask[r].target})}
            /\ pc' = [pc EXCEPT ![r] = "recorded"]
            /\ UNCHANGED <<got, status>>
       ELSE /\ pc' = [pc EXCEPT ![r] = "answered"]
            /\ Answer(r, 500, <<>>)
            /\ UNCHANGED audit
    /\ UNCHANGED <<world, minted, token, ask, session, now, since>>

\* Fault: the token carries the role of the administrator.
MintAdmin(r) ==
    [kind |-> "impersonation", role |-> token[r].role, sub |-> ask[r].target]

\* The target is a client and the token says so.
MintedToken(r) ==
    [kind |-> "impersonation", role |-> "client", sub |-> ask[r].target]

\* Its session opens and closes again, and the token is issued.
Mint(r) ==
    /\ Free > 0
    /\ Step(r, "recorded", "answered")
    /\ minted' = minted \cup {[token |-> MintedToken(r), by |-> r, admin |-> token[r].sub]}
    /\ Answer(r, 201, <<>>)
    /\ UNCHANGED <<world, audit, token, ask, session, now, since>>

\* Fault: the pool is made without a timeout.
WaitForever(r) == FALSE /\ UNCHANGED vars

\* pool_timeout: no connection in time.
PoolTimeout(r) ==
    /\ pc[r] \in Waiting
    /\ Free = 0
    /\ IF pc[r] \in Holding
       THEN /\ pc' = [pc EXCEPT ![r] = "answered"]
            /\ Answer(r, 500, <<>>)
            /\ UNCHANGED <<token, ask, session, now, since>>
       ELSE pc' = [pc EXCEPT ![r] = "done"] /\ Forget(r)
    /\ UNCHANGED <<world, audit, minted>>

\* The answer has left: commit or rollback, and the connection goes back to the
\* pool, where DISCARD ALL forgets what was bound to it.
Close(r) ==
    /\ Step(r, "answered", "done")
    /\ Forget(r)
    /\ UNCHANGED <<world, audit, minted>>

Proceed(r) ==
    \/ Record(r) \/ OpenSession(r) \/ Refuse(r) \/ Statement(r) \/ StatementFails(r)
    \/ RecordImpersonation(r) \/ Mint(r) \/ PoolTimeout(r) \/ Close(r)

-----------------------------------------------------------------------------
\* Around the requests.

Around == changes < MaxChanges /\ changes' = changes + 1

Tick ==
    /\ clock < MaxClock /\ clock' = clock + 1
    /\ UNCHANGED <<changes, users, validTo, versions, audit, minted, pc, reqVars>>

\* The requests in flight whose subject is u have had pair p.
Had(u, p) ==
    since' = [r \in Requests |->
        IF token[r].sub = u /\ pc[r] \notin {"idle", "done"} THEN since[r] \cup {p} ELSE since[r]]

\* A PATCH or a new subscription commits a pair.
GrantScope(u, p) ==
    /\ Around
    /\ u \in users \cap Clients /\ validTo[u][p] # Null
    /\ validTo' = [validTo EXCEPT ![u][p] = Null]
    /\ Had(u, p)
    /\ UNCHANGED <<clock, users, versions, audit, minted, pc, token, ask, session, now, got, status>>

\* A PATCH commits the end of one: now(), the time its transaction began.
EndScope(u, p) ==
    /\ Around
    /\ validTo[u][p] = Null
    /\ \E t \in 1 .. clock : validTo' = [validTo EXCEPT ![u][p] = t]
    /\ UNCHANGED <<clock, users, versions, audit, minted, pc, reqVars>>

\* The worker commits a version with its clauses and its events.
Publish(d) ==
    /\ Around
    /\ \E v \in NewVersions :
          versions' = [versions EXCEPT ![d] =
              Append(@, [effective |-> v.effective, clauses |-> v.clauses, created |-> clock])]
    /\ UNCHANGED <<clock, users, validTo, audit, minted, pc, reqVars>>

\* The reset of the demo accounts: the user goes with everything that names it,
\* and the account comes back under another id.
ResetAccount(u) ==
    /\ Around
    /\ u \in users
    /\ users' = users \ {u}
    /\ validTo' = [validTo EXCEPT ![u] = [p \in Pairs |-> NoRow]]
    /\ audit' = {w \in audit : w.admin # u /\ u \notin w.target}
    /\ UNCHANGED <<clock, versions, minted, pc, reqVars>>

Next ==
    \/ \E r \in Requests : Arrive(r) \/ Proceed(r)
    \/ Tick
    \/ \E u \in Users : ResetAccount(u) \/ \E p \in Pairs : GrantScope(u, p) \/ EndScope(u, p)
    \/ \E d \in Docs : Publish(d)

Spec == Init /\ [][Next]_vars

\* A request in flight goes on: its statements return, and the pool gives it a
\* connection or the timeout.
Fairness == \A r \in Requests : WF_vars(Proceed(r))
FairSpec == Spec /\ Fairness

-----------------------------------------------------------------------------
\* Whoever reads past row level security has left an audit row in a transaction
\* that is committed, and so has whoever issued a support-view token: it names
\* the administrator and the client.  A reset takes the rows of its users along.
BypassAudited ==
    /\ \A r \in Requests :
          session[r].role = "admin_bypass" /\ token[r].sub \in users =>
              AuditRow(r, "operator", {}) \in audit
    /\ \A m \in minted :
          {m.admin, m.token.sub} \subseteq users =>
              [mode |-> "impersonation", admin |-> m.admin, target |-> {m.token.sub}, by |-> m.by]
                  \in audit

\* A client, and an administrator in support view, is given rows only of pairs
\* that the client has had since the request arrived: a scope that ended before
\* is never read again, whatever else is under way.
AnswersInScope ==
    \A r \in Requests :
        token[r].role = "client" \/ token[r].kind = "impersonation" =>
            \A i \in DOMAIN got[r] : \A v \in got[r][i] : v.pair \in since[r]

\* What the statement of that name has returned.
Returned(r, what) ==
    got[r][CHOOSE i \in DOMAIN got[r] : Handler(ask[r], token[r])[i] = what]

\* The statements of a handler see different moments, but a document is never
\* answered with a current version that its list of versions lacks, nor a
\* version with some of its clauses: what is missing is missing as a whole.
AnswersWhole ==
    \A r \in Requests : status[r] = 200 =>
        /\ ask[r].route = "document" =>
              Returned(r, "versions") = {} \/ Returned(r, "stats") \subseteq Returned(r, "versions")
        /\ ask[r].route = "clauses" =>
              \A v \in Returned(r, "version") :
                  Returned(r, "clauses") \in
                      {{}, {RowOf(v.doc, v.no, c) : c \in 1 .. versions[v.doc][v.no].clauses}}

\* Every request is answered and gives its connection back, also when two
\* administrators enter support view with the last connections of the pool.
Answered == \A r \in Requests : pc[r] = "arrived" ~> pc[r] = "done"
=============================================================================

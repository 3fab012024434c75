---------------------------- MODULE AccessProofs ----------------------------
(***************************************************************************)
(* Theorems about Access, for any users, documents, pairs, requests, pool   *)
(* and bounds: types, the audit rows, the scope of the answers and their    *)
(* wholeness.                                                               *)
(***************************************************************************)
EXTENDS Access, TLAPS

-----------------------------------------------------------------------------
\* Types.

LEMMA NobodyIsUser == Nobody \in Users
  BY AccessAssumption DEF Nobody

LEMMA NothingTyped == Malformed \in Tokens /\ NoAsk \in Ask
  BY NobodyIsUser DEF Malformed, Tokens, NoAsk, Ask

\* The versions that a session sees are versions of documents that it sees.
LEMMA VersionsSeen ==
    ASSUME TypeOK, NEW r \in Requests, NEW e \in VersionsInScope(r)
    PROVE  /\ e[1] \in Visible(r) /\ e[1] \in Docs
           /\ e[2] \in DOMAIN versions[e[1]] /\ e[2] \in Nat
           /\ e = <<e[1], e[2]>>
<1>1. PICK d \in Visible(r) : e \in {<<d, n>> : n \in DOMAIN versions[d]}
  BY DEF VersionsInScope
<1>2. d \in Docs
  BY DEF Visible, DocumentsInScope
<1>3. versions[d] \in Seq([effective : Nat, clauses : Nat, created : Nat])
  BY <1>2 DEF TypeOK
<1>4. DOMAIN versions[d] \subseteq Nat
  BY <1>3
<1> QED
  BY <1>1, <1>2, <1>4

LEMMA ClausesSeen ==
    ASSUME TypeOK, NEW r \in Requests, NEW x \in ClausesInScope(r)
    PROVE  /\ x[1] \in Visible(r) /\ x[1] \in Docs
           /\ x[2] \in DOMAIN versions[x[1]] /\ x[2] \in Nat
           /\ x[3] \in 1 .. versions[x[1]][x[2]].clauses /\ x[3] \in Nat
<1>1. PICK e \in VersionsInScope(r) :
         x \in {<<e[1], e[2], c>> : c \in 1 .. versions[e[1]][e[2]].clauses}
  BY DEF ClausesInScope
<1> QED
  BY <1>1, VersionsSeen

\* A row of the answer: of a document that the session sees, or of a pair in
\* its scope.
Seen(r) ==
    {v \in Row : \/ v.doc \in Visible(r) /\ v.pair = PairOf[v.doc]
                 \/ v.doc = 0 /\ v.pair \in CurrentScope(session[r].uid, now[r])}

LEMMA RowSeen ==
    ASSUME NEW r \in Requests, NEW d \in Visible(r), NEW n \in Nat, NEW c \in Nat
    PROVE  RowOf(d, n, c) \in Seen(r)
  BY AccessAssumption DEF Seen, RowOf, Row, Visible, DocumentsInScope

LEMMA VersionRowsSeen ==
    ASSUME TypeOK, NEW r \in Requests
    PROVE  VersionRows(r) \subseteq Seen(r)
  BY VersionsSeen, RowSeen DEF VersionRows

LEMMA ResultSeen ==
    ASSUME TypeOK, NEW r \in Requests, NEW what
    PROVE  Result(r, what) \subseteq Seen(r)
<1>1. \A S : DocumentRows(Visible(r) \cap S) \subseteq Seen(r)
  BY RowSeen DEF DocumentRows
<1>2. DocumentRow(r) \subseteq Seen(r)
  BY <1>1 DEF DocumentRow
<1>3. DocumentRows(Page(r)) \subseteq Seen(r)
  BY <1>1, Page(r) = Visible(r) \cap Page(r) DEF Page
<1>4. \A S : StatsRows(r, S) \subseteq Seen(r)
  BY VersionsSeen, RowSeen DEF StatsRows
<1>5. PageStats(r) \subseteq Seen(r) /\ DocumentStats(r) \subseteq Seen(r)
  BY <1>4 DEF PageStats, DocumentStats
<1>6. VersionRows(r) \subseteq Seen(r) /\ LabelRow(r) \subseteq Seen(r)
  BY VersionRowsSeen DEF LabelRow
<1>7. ClauseRows(r) \subseteq Seen(r)
  BY ClausesSeen, RowSeen DEF ClauseRows
<1>8. EventRows(r) \subseteq Seen(r) /\ EventRow(r) \subseteq Seen(r)
  BY <1>6 DEF EventRows, EventRow
<1>9. ScopeRows(r) \subseteq Seen(r)
  BY DEF ScopeRows, Seen, Row, CurrentScope
<1> QED
  BY <1>2, <1>3, <1>5, <1>6, <1>7, <1>8, <1>9 DEF Result

LEMMA InitTypes == Init => TypeOK
<1> SUFFICES ASSUME Init PROVE TypeOK
  OBVIOUS
<1> QED
  BY AccessAssumption, NobodyIsUser, NothingTyped
  DEF Init, TypeOK, NoRow, Null, Unbound

\* A closed request has the types of one that never was.
LEMMA ForgetTypes ==
    ASSUME TypeOK, NEW r \in Requests, Forget(r)
    PROVE  /\ token' \in [Requests -> Tokens] /\ ask' \in [Requests -> Ask]
           /\ session' \in [Requests -> [uid : Users, role : {"none", "api_app", "admin_bypass"}]]
           /\ now' \in [Requests -> 0 .. MaxClock]
           /\ got' \in [Requests -> Seq(SUBSET Row)]
           /\ status' \in [Requests -> Nat] /\ since' \in [Requests -> SUBSET Pairs]
<1>1. Unbound \in [uid : Users, role : {"none", "api_app", "admin_bypass"}]
  BY NobodyIsUser DEF Unbound
<1>2. 0 \in 0 .. MaxClock /\ <<>> \in Seq(SUBSET Row)
  BY AccessAssumption
<1> QED
  BY <1>1, <1>2, NothingTyped DEF TypeOK, Forget

LEMMA AnswerTypes ==
    ASSUME TypeOK, NEW r \in Requests, NEW code \in Nat, NEW rows \in Seq(SUBSET Row),
           Answer(r, code, rows)
    PROVE  got' \in [Requests -> Seq(SUBSET Row)] /\ status' \in [Requests -> Nat]
  BY DEF TypeOK, Answer

LEMMA RefusalTypes ==
    ASSUME TypeOK, NEW r \in Requests, NEW code \in Nat, Answer(r, code, <<>>)
    PROVE  got' \in [Requests -> Seq(SUBSET Row)] /\ status' \in [Requests -> Nat]
<1>1. got' = [got EXCEPT ![r] = <<>>]
  BY DEF Answer
<1>2. <<>> \in Seq(SUBSET Row)
  OBVIOUS
<1>3. got' \in [Requests -> Seq(SUBSET Row)]
  BY <1>1, <1>2 DEF TypeOK
<1> QED
  BY <1>3 DEF TypeOK, Answer

LEMMA OutcomeTypes == ASSUME NEW r, NEW what, NEW rows PROVE Outcome(r, what, rows) \in Nat
  BY DEF Outcome

LEMMA MintedTyped ==
    ASSUME TypeOK, NEW r \in Requests
    PROVE  MintedToken(r) \in Tokens
  BY DEF TypeOK, MintedToken, Tokens, Ask

\* The bearers in flight are of one of their kinds.
LEMMA BearersTyped == TypeOK => Bearers \subseteq Tokens
<1> SUFFICES ASSUME TypeOK, NEW t \in Bearers PROVE t \in Tokens
  OBVIOUS
<1>1. CASE \E u \in Users, k \in {"access", "refresh"} : t = LoginToken(u, k)
  BY <1>1 DEF LoginToken, Tokens
<1>2. CASE \E m \in minted : t = m.token
  BY <1>2 DEF TypeOK
<1>3. CASE t = Malformed
  BY <1>3, NothingTyped
<1> QED
  BY <1>1, <1>2, <1>3 DEF Bearers

LEMMA StatementTypes ==
    ASSUME TypeOK, NEW r \in Requests, Statement(r)
    PROVE  TypeOK'
<1> DEFINE todo == Handler(ask[r], token[r])
           i == Len(got[r]) + 1
           result == Result(r, todo[i])
           rows == Append(got[r], result)
           code == Outcome(r, todo[i], result)
<1>1. result \in SUBSET Row
  BY ResultSeen DEF Seen
<1>2. got[r] \in Seq(SUBSET Row)
  BY DEF TypeOK
<1> HIDE DEF result
<1>3. rows \in Seq(SUBSET Row)
  BY <1>1, <1>2
<1>4. code \in Nat
  BY OutcomeTypes DEF result
<1> HIDE DEF rows, code, todo, i
<1>5. /\ got' \in [Requests -> Seq(SUBSET Row)] /\ status' \in [Requests -> Nat]
      /\ pc' \in [Requests -> {"idle", "done"} \cup Waiting \cup Holding]
  <2>1. CASE pc' = [pc EXCEPT ![r] = "answered"] /\ Answer(r, code, rows)
    <3>1. got' \in [Requests -> Seq(SUBSET Row)] /\ status' \in [Requests -> Nat]
      BY <2>1, <1>3, <1>4, AnswerTypes
    <3>2. pc \in [Requests -> {"idle", "done"} \cup Waiting \cup Holding]
      BY DEF TypeOK
    <3> QED
      BY <2>1, <3>1, <3>2 DEF Holding
  <2>2. CASE got' = [got EXCEPT ![r] = rows] /\ UNCHANGED <<pc, status>>
    BY <2>2, <1>3 DEF TypeOK
  <2>3. CASE pc' = [pc EXCEPT ![r] = "answered"] /\ Answer(r, 200, rows)
    <3>1. got' \in [Requests -> Seq(SUBSET Row)] /\ status' \in [Requests -> Nat]
      BY <2>3, <1>3, AnswerTypes
    <3>2. pc \in [Requests -> {"idle", "done"} \cup Waiting \cup Holding]
      BY DEF TypeOK
    <3> QED
      BY <2>3, <3>1, <3>2 DEF Holding
  <2>4. CASE /\ pc' = [pc EXCEPT ![r] = "elevating"]
             /\ got' = [got EXCEPT ![r] = <<>>] /\ UNCHANGED status
    BY <2>4 DEF TypeOK, Holding
  <2> QED
    BY <2>1, <2>2, <2>3, <2>4 DEF Statement, todo, i, result, rows, code
<1> QED
  BY <1>5 DEF TypeOK, Statement, world

LEMMA RequestTypes ==
    ASSUME TypeOK, NEW r \in Requests, Arrive(r) \/ Proceed(r)
    PROVE  TypeOK'
<1> USE AccessAssumption
<1>1. CASE Arrive(r)
  <2>1. PICK t \in Bearers, a \in Asks[r] :
           IF Authenticated(t) /\ Allowed(a, t)
           THEN /\ pc' = [pc EXCEPT ![r] = "arrived"]
                /\ token' = [token EXCEPT ![r] = t]
                /\ ask' = [ask EXCEPT ![r] = a]
                /\ since' = [since EXCEPT ![r] = CurrentScope(t.sub, clock)]
           ELSE pc' = [pc EXCEPT ![r] = "done"] /\ UNCHANGED <<token, ask, since>>
    BY <1>1 DEF Arrive
  <2>2. t \in Tokens /\ a \in Ask
    BY BearersTyped
  <2>3. CurrentScope(t.sub, clock) \in SUBSET Pairs
    BY DEF CurrentScope
  <2>4. /\ pc' \in [Requests -> {"idle", "done"} \cup Waiting \cup Holding]
        /\ token' \in [Requests -> Tokens] /\ ask' \in [Requests -> Ask]
        /\ since' \in [Requests -> SUBSET Pairs]
    <3>1. CASE Authenticated(t) /\ Allowed(a, t)
      <4>1. /\ pc' = [pc EXCEPT ![r] = "arrived"] /\ token' = [token EXCEPT ![r] = t]
            /\ ask' = [ask EXCEPT ![r] = a]
            /\ since' = [since EXCEPT ![r] = CurrentScope(t.sub, clock)]
        BY <2>1, <3>1
      <4> QED
        BY <4>1, <2>2, <2>3 DEF TypeOK, Waiting
    <3>2. CASE ~ (Authenticated(t) /\ Allowed(a, t))
      BY <2>1, <3>2 DEF TypeOK, Waiting
    <3> QED
      BY <3>1, <3>2
  <2> QED
    BY <1>1, <2>4 DEF Arrive, TypeOK, world
<1>2. CASE Record(r)
  <2>1. CASE token[r].sub \in users
    <3>1. AuditRow(r, "operator", {}) \in [mode : {"operator", "impersonation"}, admin : Users,
                                         target : SUBSET Users, by : Requests]
      BY DEF AuditRow, TypeOK, Tokens
    <3> QED
      BY <1>2, <2>1, <3>1, audit' = audit \cup {AuditRow(r, "operator", {})}
      DEF Record, TypeOK, Waiting, world, reqVars
  <2>2. CASE token[r].sub \notin users
    <3>1. Forget(r)
      BY <1>2, <2>2 DEF Record
    <3> QED
      BY <1>2, <2>2, <3>1, ForgetTypes DEF Record, TypeOK, world
  <2> QED
    BY <2>1, <2>2
<1>3. CASE OpenSession(r)
  BY <1>3 DEF OpenSession, TypeOK, Holding, Step, Bound, RoleFor, ForRequest,
              ForRequestOrAdmin, AdminOrApp, AdminOperator, Tokens, world
<1>4. CASE Refuse(r)
  <2>1. got' \in [Requests -> Seq(SUBSET Row)] /\ status' \in [Requests -> Nat]
    BY <1>4, RefusalTypes DEF Refuse
  <2> QED
    BY <1>4, <2>1 DEF Refuse, TypeOK, Holding, Step, world
<1>5. CASE Statement(r)
  BY <1>5, StatementTypes
<1>6. CASE StatementFails(r)
  <2>1. got[r] \in Seq(SUBSET Row)
    BY DEF TypeOK
  <2>2. got' \in [Requests -> Seq(SUBSET Row)] /\ status' \in [Requests -> Nat]
    BY <1>6, <2>1, AnswerTypes DEF StatementFails
  <2> QED
    BY <1>6, <2>2 DEF StatementFails, TypeOK, Holding, Step, world
<1>7. CASE RecordImpersonation(r)
  <2>1. CASE {token[r].sub, ask[r].target} \subseteq users
    <3>1. AuditRow(r, "impersonation", {ask[r].target})
              \in [mode : {"operator", "impersonation"}, admin : Users,
                   target : SUBSET Users, by : Requests]
      BY DEF AuditRow, TypeOK, Tokens, Ask
    <3> QED
      BY <1>7, <2>1, <3>1, audit' = audit \cup {AuditRow(r, "impersonation", {ask[r].target})}
      DEF RecordImpersonation, TypeOK, Holding, world
  <2>2. CASE ~ {token[r].sub, ask[r].target} \subseteq users
    <3>1. got' \in [Requests -> Seq(SUBSET Row)] /\ status' \in [Requests -> Nat]
      BY <1>7, <2>2, RefusalTypes DEF RecordImpersonation
    <3> QED
      BY <1>7, <2>2, <3>1 DEF RecordImpersonation, TypeOK, Holding, world
  <2> QED
    BY <2>1, <2>2
<1>8. CASE Mint(r)
  <2>1. minted' \subseteq [token : Tokens, by : Requests, admin : Users]
    BY <1>8, MintedTyped DEF Mint, TypeOK, Tokens
  <2>2. got' \in [Requests -> Seq(SUBSET Row)] /\ status' \in [Requests -> Nat]
    <3>1. Answer(r, 201, <<>>) /\ 201 \in Nat
      BY <1>8 DEF Mint
    <3> QED
      BY <3>1, RefusalTypes
  <2>3. pc' \in [Requests -> {"idle", "done"} \cup Waiting \cup Holding]
    BY <1>8 DEF Mint, Step, TypeOK, Holding
  <2>4. UNCHANGED <<world, audit, token, ask, session, now, since>>
    BY <1>8 DEF Mint
  <2> QED
    BY <2>1, <2>2, <2>3, <2>4 DEF TypeOK, world
<1>9. CASE PoolTimeout(r)
  <2>1. CASE pc[r] \in Holding
    <3>1. got' \in [Requests -> Seq(SUBSET Row)] /\ status' \in [Requests -> Nat]
      BY <1>9, <2>1, RefusalTypes DEF PoolTimeout
    <3> QED
      BY <1>9, <2>1, <3>1 DEF PoolTimeout, TypeOK, Holding, world
  <2>2. CASE pc[r] \notin Holding
    <3>1. Forget(r)
      BY <1>9, <2>2 DEF PoolTimeout
    <3> QED
      BY <1>9, <2>2, <3>1, ForgetTypes DEF PoolTimeout, TypeOK, world
  <2> QED
    BY <2>1, <2>2
<1>10. CASE Close(r)
  BY <1>10, ForgetTypes DEF Close, TypeOK, Step, world
<1> QED
  BY <1>1, <1>2, <1>3, <1>4, <1>5, <1>6, <1>7, <1>8, <1>9, <1>10 DEF Proceed

LEMMA TypesKept == TypeOK /\ [Next]_vars => TypeOK'
<1> SUFFICES ASSUME TypeOK, [Next]_vars PROVE TypeOK'
  OBVIOUS
<1> USE AccessAssumption DEF TypeOK, world, reqVars
<1>1. CASE \E r \in Requests : Arrive(r) \/ Proceed(r)
  BY <1>1, RequestTypes
<1>2. CASE Tick
  BY <1>2 DEF Tick
<1>3. ASSUME NEW u \in Users, NEW p \in Pairs, GrantScope(u, p) PROVE TypeOK'
  BY <1>3 DEF GrantScope, Around, Had, Null
<1>4. ASSUME NEW u \in Users, NEW p \in Pairs, EndScope(u, p) PROVE TypeOK'
  <2>1. PICK t \in 1 .. clock : validTo' = [validTo EXCEPT ![u][p] = t]
    BY <1>4 DEF EndScope
  <2>2. t \in 0 .. Null
    BY DEF Null
  <2>3. validTo' \in [Users -> [Pairs -> 0 .. Null]]
    BY <2>1, <2>2
  <2> QED
    BY <1>4, <2>3 DEF EndScope, Around
<1>5. ASSUME NEW d \in Docs, Publish(d) PROVE TypeOK'
  <2>1. PICK v \in NewVersions : versions' = [versions EXCEPT ![d] =
            Append(@, [effective |-> v.effective, clauses |-> v.clauses, created |-> clock])]
    BY <1>5 DEF Publish
  <2>2. [effective |-> v.effective, clauses |-> v.clauses, created |-> clock]
            \in [effective : Nat, clauses : Nat, created : Nat]
    OBVIOUS
  <2>3. versions[d] \in Seq([effective : Nat, clauses : Nat, created : Nat])
    OBVIOUS
  <2>4. Append(versions[d], [effective |-> v.effective, clauses |-> v.clauses, created |-> clock])
            \in Seq([effective : Nat, clauses : Nat, created : Nat])
    BY <2>2, <2>3
  <2>5. versions' \in [Docs -> Seq([effective : Nat, clauses : Nat, created : Nat])]
    BY <2>1, <2>4
  <2>6. changes < MaxChanges /\ changes' = changes + 1
    BY <1>5 DEF Publish, Around
  <2>7. UNCHANGED <<clock, users, validTo, audit, minted, pc, reqVars>>
    BY <1>5 DEF Publish
  <2>8. changes' \in 0 .. MaxChanges
    BY <2>6
  <2> QED
    BY <2>5, <2>7, <2>8
<1>6. ASSUME NEW u \in Users, ResetAccount(u) PROVE TypeOK'
  BY <1>6 DEF ResetAccount, Around, NoRow, Null
<1>7. CASE UNCHANGED vars
  BY <1>7 DEF vars
<1> QED
  BY <1>1, <1>2, <1>3, <1>4, <1>5, <1>6, <1>7 DEF Next

\* Every variable keeps its type: in particular what a request has been given
\* is a sequence of sets of rows, whatever the worker and the administrators do.
THEOREM AccessTypeCorrect == Spec => []TypeOK
<1> QED
  BY InitTypes, TypesKept, PTL DEF Spec

-----------------------------------------------------------------------------
\* The audit rows.

\* What is committed for a request at each point of its course.
Audited(r) ==
    /\ /\ pc[r] \in {"audited"} \cup Holding /\ Bypasses(r)
       /\ token[r].sub \in users
       => AuditRow(r, "operator", {}) \in audit
    /\ session[r].role = "admin_bypass" => pc[r] \in Holding /\ Bypasses(r)
    /\ pc[r] = "recorded" /\ {token[r].sub, ask[r].target} \subseteq users =>
          AuditRow(r, "impersonation", {ask[r].target}) \in audit

MintsAudited ==
    \A m \in minted :
        {m.admin, m.token.sub} \subseteq users =>
            [mode |-> "impersonation", admin |-> m.admin, target |-> {m.token.sub}, by |-> m.by]
                \in audit

AuditInv == TypeOK /\ (\A r \in Requests : Audited(r)) /\ MintsAudited

LEMMA InitAudited == Init => AuditInv
<1> SUFFICES ASSUME Init PROVE AuditInv
  OBVIOUS
<1>1. TypeOK
  BY InitTypes
<1>2. ASSUME NEW r \in Requests PROVE Audited(r)
  BY DEF Init, Audited, Unbound, Holding
<1>3. MintsAudited
  BY DEF Init, MintsAudited
<1> QED
  BY <1>1, <1>2, <1>3 DEF AuditInv

\* A request that is closed leaves nothing to audit.
LEMMA ForgottenAudited ==
    ASSUME TypeOK, NEW r \in Requests, Forget(r), pc' = [pc EXCEPT ![r] = "done"]
    PROVE  Audited(r)'
  BY DEF TypeOK, Forget, Audited, Unbound, Holding

\* A step of one request leaves the others as they are; it may only add rows.
LEMMA OthersAudited ==
    ASSUME NEW r \in Requests, Audited(r), audit \subseteq audit', users' = users,
           pc'[r] = pc[r], token'[r] = token[r], ask'[r] = ask[r], session'[r] = session[r]
    PROVE  Audited(r)'
  BY DEF Audited, Bypasses, AuditRow

LEMMA MintsStayAudited ==
    ASSUME MintsAudited, minted' = minted, audit \subseteq audit', users' = users
    PROVE  MintsAudited'
  BY DEF MintsAudited

LEMMA RequestAudited ==
    ASSUME AuditInv, NEW r \in Requests, Arrive(r) \/ Proceed(r)
    PROVE  AuditInv'
<1> USE DEF AuditInv
<1>t. TypeOK'
  BY RequestTypes
<1>1. /\ audit \subseteq audit' /\ users' = users
      /\ \A q \in Requests \ {r} :
            /\ pc'[q] = pc[q] /\ token'[q] = token[q] /\ ask'[q] = ask[q]
            /\ session'[q] = session[q]
  BY DEF Proceed, Arrive, Record, OpenSession, Refuse, Statement, StatementFails,
         RecordImpersonation, Mint, PoolTimeout, Close, Forget, Step, Answer, TypeOK, world,
         reqVars
<1>2. \A q \in Requests \ {r} : Audited(q)'
  BY <1>1, OthersAudited
<1>3. Audited(r)' /\ MintsAudited'
  <2>1. CASE Arrive(r)
    BY <2>1, MintsStayAudited DEF Arrive, Audited, Holding, TypeOK, world
  <2>2. CASE Record(r)
    <3>1. CASE token[r].sub \in users
      BY <2>2, <3>1, MintsStayAudited
      DEF Record, Audited, Holding, TypeOK, AuditRow, Bypasses, world, reqVars
    <3>2. CASE token[r].sub \notin users
      BY <2>2, <3>2, ForgottenAudited, MintsStayAudited DEF Record, world
    <3> QED
      BY <3>1, <3>2
  <2>3. CASE OpenSession(r)
    BY <2>3, MintsStayAudited
    DEF OpenSession, Audited, Holding, TypeOK, AuditRow, Bypasses, Bound, Step, world
  <2>4. CASE Refuse(r) \/ StatementFails(r)
    <3>1. /\ UNCHANGED <<users, audit, minted, token, ask, session>> /\ pc[r] = "open"
          /\ pc'[r] = "answered"
      BY <2>4 DEF Refuse, StatementFails, Step, TypeOK, world
    <3> QED
      BY <3>1, MintsStayAudited DEF Audited, Holding, AuditRow, Bypasses
  <2>5. CASE Statement(r)
    <3>1. /\ UNCHANGED <<users, audit, minted, token, ask, session>> /\ pc[r] = "open"
          /\ pc'[r] \in {"open", "answered", "elevating"}
      BY <2>5 DEF Statement, TypeOK, world
    <3> QED
      BY <3>1, MintsStayAudited DEF Audited, Holding, AuditRow, Bypasses
  <2>6. CASE RecordImpersonation(r)
    <3>1. CASE {token[r].sub, ask[r].target} \subseteq users
      BY <2>6, <3>1, MintsStayAudited
      DEF RecordImpersonation, Audited, Holding, TypeOK, AuditRow, Bypasses, world
    <3>2. CASE ~ {token[r].sub, ask[r].target} \subseteq users
      BY <2>6, <3>2, MintsStayAudited
      DEF RecordImpersonation, Audited, Holding, TypeOK, AuditRow, Bypasses, world
    <3> QED
      BY <3>1, <3>2
  <2>7. CASE Mint(r)
    <3>1. Audited(r)'
      BY <2>7 DEF Mint, Audited, Holding, TypeOK, AuditRow, Bypasses, Step, world
    <3>2. MintsAudited'
      <4>1. ASSUME NEW m \in minted', {m.admin, m.token.sub} \subseteq users'
            PROVE  [mode |-> "impersonation", admin |-> m.admin, target |-> {m.token.sub},
                    by |-> m.by] \in audit'
        <5>1. UNCHANGED <<users, audit>>
          BY <2>7 DEF Mint, world
        <5>2. CASE m \in minted
          BY <4>1, <5>1, <5>2 DEF MintsAudited
        <5>3. CASE m = [token |-> MintedToken(r), by |-> r, admin |-> token[r].sub]
          <6>1. m.admin = token[r].sub /\ m.token.sub = ask[r].target /\ m.by = r
            BY <5>3 DEF MintedToken
          <6>2. pc[r] = "recorded"
            BY <2>7 DEF Mint, Step
          <6> QED
            BY <4>1, <5>1, <6>1, <6>2 DEF Audited, AuditRow
        <5> QED
          BY <2>7, <5>2, <5>3 DEF Mint
      <4> QED
        BY <4>1 DEF MintsAudited
    <3> QED
      BY <3>1, <3>2
  <2>8. CASE PoolTimeout(r)
    <3>1. CASE pc[r] \in Holding
      <4>1. /\ UNCHANGED <<users, audit, minted, token, ask, session>> /\ pc[r] \in Waiting
            /\ pc'[r] = "answered"
        BY <2>8, <3>1 DEF PoolTimeout, TypeOK, world
      <4> QED
        BY <3>1, <4>1, MintsStayAudited DEF Audited, Holding, AuditRow, Bypasses
    <3>2. CASE pc[r] \notin Holding
      BY <2>8, <3>2, ForgottenAudited, MintsStayAudited DEF PoolTimeout, world
    <3> QED
      BY <3>1, <3>2
  <2>9. CASE Close(r)
    BY <2>9, ForgottenAudited, MintsStayAudited DEF Close, Step, world
  <2> QED
    BY <2>1, <2>2, <2>3, <2>4, <2>5, <2>6, <2>7, <2>8, <2>9 DEF Proceed
<1> QED
  BY <1>t, <1>2, <1>3

LEMMA AuditKept == AuditInv /\ [Next]_vars => AuditInv'
<1> SUFFICES ASSUME AuditInv, [Next]_vars PROVE AuditInv'
  OBVIOUS
<1> USE DEF AuditInv
<1>t. TypeOK'
  BY TypesKept
<1>1. CASE \E r \in Requests : Arrive(r) \/ Proceed(r)
  BY <1>1, RequestAudited
<1>2. CASE UNCHANGED <<users, audit, minted, pc, token, ask, session>>
  <2>1. \A r \in Requests : Audited(r)'
    BY <1>2 DEF Audited, Bypasses, AuditRow
  <2> QED
    BY <1>t, <1>2, <2>1, MintsStayAudited
\* A row is deleted with a user that it names, and no other.
<1>3. ASSUME NEW u \in Users, ResetAccount(u) PROVE AuditInv'
  <2>1. /\ users' = users \ {u}
        /\ \A w \in audit : w.admin # u /\ u \notin w.target => w \in audit'
        /\ UNCHANGED <<minted, pc, token, ask, session>>
    BY <1>3 DEF ResetAccount, reqVars
  <2>2. ASSUME NEW r \in Requests PROVE Audited(r)'
    BY <2>1 DEF Audited, Bypasses, AuditRow
  <2>3. MintsAudited'
    BY <2>1 DEF MintsAudited
  <2> QED
    BY <1>t, <2>2, <2>3
<1> QED
  BY <1>1, <1>2, <1>3
  DEF Next, Tick, GrantScope, EndScope, Publish, world, reqVars, vars

\* Whoever reads past row level security has an audit row committed before, and
\* so has whoever holds a support-view token, for any number of administrators
\* in each other's way, failures of the pool, and resets of accounts.
THEOREM AccessAudited == Spec => []BypassAudited
<1>1. AuditInv => BypassAudited
  BY DEF AuditInv, Audited, MintsAudited, BypassAudited
<1> QED
  BY <1>1, InitAudited, AuditKept, PTL DEF Spec

-----------------------------------------------------------------------------
\* The scope of the answers.

\* What a request is bound to, and the pairs that it may still come to read.
Scoped(r) ==
    /\ token[r].kind = "impersonation" => token[r].role = "client"
    /\ pc[r] \in {"arrived", "audited"} =>
          Allowed(ask[r], token[r]) /\ CurrentScope(token[r].sub, clock) \subseteq since[r]
    /\ pc[r] \in Holding =>
          /\ Allowed(ask[r], token[r])
          /\ session[r] = Bound(r)
          /\ CurrentScope(token[r].sub, now[r]) \subseteq since[r]
    /\ pc[r] \notin Holding => got[r] = <<>>
    /\ token[r].role = "client" =>
          \A i \in DOMAIN got[r] : \A v \in got[r][i] : v.pair \in since[r]

MintsAreClients == \A m \in minted : m.token.role = "client"

ScopeInv == TypeOK /\ (\A r \in Requests : Scoped(r)) /\ MintsAreClients

\* No route that bypasses row level security serves a client.
LEMMA ClientRole ==
    ASSUME NEW a \in Ask, NEW t, t.role = "client", Allowed(a, t)
    PROVE  RoleFor(a, t) = "api_app"
<1>1. a.route \in {"me"} \cup ClientRoutes
  BY DEF Ask, Allowed
<1>2. /\ ForRequest(t) = "api_app" /\ ForRequestOrAdmin(t) = "api_app"
      /\ AdminOrApp(t) = "api_app"
  BY DEF ForRequest, ForRequestOrAdmin, AdminOrApp
<1>3. \/ a.route = "me" \/ a.route \in {"documents", "document", "clauses"}
      \/ a.route \in {"overview", "event"} \cup FeedRoutes
  BY <1>1 DEF ClientRoutes
<1> QED
  BY <1>2, <1>3 DEF RoleFor

LEMMA InitScoped == Init => ScopeInv
<1> SUFFICES ASSUME Init PROVE ScopeInv
  OBVIOUS
<1>1. TypeOK
  BY InitTypes
<1>2. ASSUME NEW r \in Requests PROVE Scoped(r)
  BY DEF Init, Scoped, Malformed, Holding
<1>3. MintsAreClients
  BY DEF Init, MintsAreClients
<1> QED
  BY <1>1, <1>2, <1>3 DEF ScopeInv

LEMMA ForgottenScoped ==
    ASSUME TypeOK, NEW r \in Requests, Forget(r), pc' = [pc EXCEPT ![r] = "done"]
    PROVE  Scoped(r)'
<1>1. token'[r] = Malformed /\ pc'[r] = "done" /\ got'[r] = <<>>
  BY DEF TypeOK, Forget
<1> QED
  BY <1>1 DEF Scoped, Malformed, Holding

LEMMA OthersScoped ==
    ASSUME NEW r \in Requests, Scoped(r), UNCHANGED <<clock, validTo>>,
           pc'[r] = pc[r], token'[r] = token[r], ask'[r] = ask[r], session'[r] = session[r],
           now'[r] = now[r], got'[r] = got[r], since'[r] = since[r]
    PROVE  Scoped(r)'
  BY DEF Scoped, Bound, CurrentScope

\* A step that changes nothing of a request but what it has been given, and
\* gives it nothing that it may not see.
LEMMA HeldScoped ==
    ASSUME NEW r \in Requests, Scoped(r), pc[r] \in Holding, pc'[r] \in Holding,
           UNCHANGED <<validTo, token, ask, session, now, since>>,
           token[r].role = "client" =>
               \A i \in DOMAIN got'[r] : \A v \in got'[r][i] : v.pair \in since[r]
    PROVE  Scoped(r)'
  BY DEF Scoped, Bound, CurrentScope, Holding

LEMMA AnswerGives ==
    ASSUME TypeOK, NEW r \in Requests, NEW code, NEW rows, Answer(r, code, rows)
    PROVE  got'[r] = rows \/ got'[r] = <<>>
  BY DEF TypeOK, Answer

LEMMA StatementScoped ==
    ASSUME ScopeInv, NEW r \in Requests, Statement(r)
    PROVE  Scoped(r)'
<1> USE DEF ScopeInv
<1> DEFINE todo == Handler(ask[r], token[r])
           i == Len(got[r]) + 1
           result == Result(r, todo[i])
           rows == Append(got[r], result)
           code == Outcome(r, todo[i], result)
<1>1. token[r].role = "client" => \A v \in result : v.pair \in since[r]
  <2> SUFFICES ASSUME token[r].role = "client", NEW v \in Seen(r) PROVE v.pair \in since[r]
    BY ResultSeen
  <2>1. pc[r] = "open" /\ ask[r] \in Ask
    BY DEF Statement, TypeOK
  <2>2. /\ Allowed(ask[r], token[r]) /\ session[r] = Bound(r)
        /\ CurrentScope(token[r].sub, now[r]) \subseteq since[r]
    BY <2>1 DEF Scoped, Holding
  <2>3. session[r].role = "api_app" /\ session[r].uid = token[r].sub
    BY <2>1, <2>2, ClientRole DEF Bound
  <2>4. v.pair \in CurrentScope(session[r].uid, now[r])
    BY <2>3 DEF Seen, Visible, DocumentsInScope
  <2> QED
    BY <2>2, <2>3, <2>4
<1>2. got[r] \in Seq(SUBSET Row) /\ result \in SUBSET Row
  BY ResultSeen DEF TypeOK, Seen
<1> HIDE DEF result
<1>3. token[r].role = "client" =>
         \A k \in DOMAIN rows : \A v \in rows[k] : v.pair \in since[r]
  <2>1. DOMAIN rows = 1 .. Len(got[r]) + 1
    BY <1>2
  <2>2. rows[Len(got[r]) + 1] = result
    BY <1>2
  <2>3. \A k \in 1 .. Len(got[r]) : rows[k] = got[r][k] /\ k \in DOMAIN got[r]
    BY <1>2
  <2> QED
    BY <1>1, <2>1, <2>2, <2>3 DEF Scoped
<1> HIDE DEF rows, code, todo, i
<1>4. got'[r] = rows \/ got'[r] = <<>> \/ got'[r] = got[r]
  BY AnswerGives DEF Statement, TypeOK, todo, i, result, rows, code
<1>5. pc[r] \in Holding /\ pc'[r] \in Holding
  BY DEF Statement, TypeOK, Holding
<1>6. token[r].role = "client" =>
         \A k \in DOMAIN got'[r] : \A v \in got'[r][k] : v.pair \in since[r]
  BY <1>3, <1>4 DEF Scoped
<1> QED
  BY <1>5, <1>6, HeldScoped DEF Statement, world

LEMMA ArriveScoped ==
    ASSUME ScopeInv, NEW r \in Requests, Arrive(r)
    PROVE  Scoped(r)'
<1> USE DEF ScopeInv
<1>1. PICK t \in Bearers, a \in Asks[r] :
         IF Authenticated(t) /\ Allowed(a, t)
         THEN /\ pc' = [pc EXCEPT ![r] = "arrived"]
              /\ token' = [token EXCEPT ![r] = t]
              /\ ask' = [ask EXCEPT ![r] = a]
              /\ since' = [since EXCEPT ![r] = CurrentScope(t.sub, clock)]
         ELSE pc' = [pc EXCEPT ![r] = "done"] /\ UNCHANGED <<token, ask, since>>
  BY DEF Arrive
<1>2. t.kind = "impersonation" => t.role = "client"
  BY DEF Bearers, LoginToken, Malformed, MintsAreClients
<1>3. /\ got'[r] = <<>> /\ got[r] = <<>>
      /\ UNCHANGED <<validTo, clock, session, now>> /\ pc[r] = "idle"
  BY DEF Arrive, Scoped, Holding, world
<1>4. CASE Authenticated(t) /\ Allowed(a, t)
  <2>1. /\ pc'[r] = "arrived" /\ token'[r] = t /\ ask'[r] = a
        /\ since'[r] = CurrentScope(t.sub, clock)
    BY <1>1, <1>4 DEF TypeOK
  <2>2. CurrentScope(t.sub, clock) = CurrentScope(t.sub, clock)'
    BY <1>3 DEF CurrentScope
  <2> QED
    BY <1>2, <1>3, <1>4, <2>1, <2>2 DEF Scoped, Holding, Allowed
<1>5. CASE ~ (Authenticated(t) /\ Allowed(a, t))
  <2>1. pc'[r] = "done" /\ token'[r] = token[r]
    BY <1>1, <1>5 DEF TypeOK
  <2> QED
    BY <1>3, <2>1 DEF Scoped, Holding
<1> QED
  BY <1>4, <1>5

LEMMA RequestScoped ==
    ASSUME ScopeInv, NEW r \in Requests, Arrive(r) \/ Proceed(r)
    PROVE  ScopeInv'
<1> USE DEF ScopeInv
<1>t. TypeOK'
  BY RequestTypes
<1>1. /\ UNCHANGED <<clock, validTo>>
      /\ \A q \in Requests \ {r} :
            /\ pc'[q] = pc[q] /\ token'[q] = token[q] /\ ask'[q] = ask[q]
            /\ session'[q] = session[q] /\ now'[q] = now[q] /\ got'[q] = got[q]
            /\ since'[q] = since[q]
  BY DEF Proceed, Arrive, Record, OpenSession, Refuse, Statement, StatementFails,
         RecordImpersonation, Mint, PoolTimeout, Close, Forget, Step, Answer, TypeOK, world,
         reqVars
<1>2. \A q \in Requests \ {r} : Scoped(q)'
  BY <1>1, OthersScoped
<1>3. MintsAreClients'
  BY DEF Proceed, Arrive, Record, OpenSession, Refuse, Statement, StatementFails,
         RecordImpersonation, Mint, MintedToken, PoolTimeout, Close, MintsAreClients, reqVars
<1>4. Scoped(r)'
  <2>1. CASE Arrive(r)
    BY <2>1, ArriveScoped
  <2>2. CASE Record(r)
    <3>1. CASE token[r].sub \in users
      BY <2>2, <3>1 DEF Record, Scoped, Holding, TypeOK, CurrentScope, Allowed, world, reqVars
    <3>2. CASE token[r].sub \notin users
      BY <2>2, <3>2, ForgottenScoped DEF Record
    <3> QED
      BY <3>1, <3>2
  <2>3. CASE OpenSession(r)
    <3>1. pc[r] \in {"arrived", "audited"} /\ pc'[r] = "open" /\ now'[r] = clock
          /\ session'[r] = Bound(r) /\ UNCHANGED <<clock, validTo, token, ask, got, since>>
      BY <2>3 DEF OpenSession, Step, TypeOK, world
    <3>2. got[r] = <<>>
      BY <3>1 DEF Scoped, Holding
    <3> QED
      BY <3>1, <3>2 DEF Scoped, Holding, CurrentScope, Allowed, Bound
  <2>4. CASE Refuse(r) \/ StatementFails(r) \/ RecordImpersonation(r) \/ Mint(r)
              \/ (PoolTimeout(r) /\ pc[r] \in Holding)
    <3>1. /\ UNCHANGED <<validTo, token, ask, session, now, since>>
          /\ pc[r] \in Holding /\ pc'[r] \in Holding
      BY <2>4 DEF Refuse, StatementFails, RecordImpersonation, Mint, PoolTimeout, Step,
                  Holding, TypeOK, world
    <3>2. got'[r] = got[r] \/ got'[r] = <<>>
      BY <2>4, AnswerGives
      DEF Refuse, StatementFails, RecordImpersonation, Mint, PoolTimeout, TypeOK
    <3> QED
      BY <3>1, <3>2, HeldScoped DEF Scoped
  <2>5. CASE Statement(r)
    BY <2>5, StatementScoped
  <2>6. CASE PoolTimeout(r) /\ pc[r] \notin Holding
    BY <2>6, ForgottenScoped DEF PoolTimeout
  <2>7. CASE Close(r)
    BY <2>7, ForgottenScoped DEF Close, Step
  <2> QED
    BY <2>1, <2>2, <2>3, <2>4, <2>5, <2>6, <2>7 DEF Proceed
<1> QED
  BY <1>t, <1>2, <1>3, <1>4

LEMMA ScopeKept == ScopeInv /\ [Next]_vars => ScopeInv'
<1> SUFFICES ASSUME ScopeInv, [Next]_vars PROVE ScopeInv'
  OBVIOUS
<1> USE DEF ScopeInv
<1>t. TypeOK'
  BY TypesKept
<1>1. CASE \E r \in Requests : Arrive(r) \/ Proceed(r)
  BY <1>1, RequestScoped
\* Whatever happens around a request takes pairs from its subject, or gives it
\* one that is in since.
<1>2. ASSUME UNCHANGED <<minted, pc, token, ask, session, now, got>>,
             \A r \in Requests : since[r] \subseteq since'[r],
             \A r \in Requests :
                /\ pc[r] \in {"arrived", "audited"} =>
                      CurrentScope(token[r].sub, clock)'
                          \subseteq CurrentScope(token[r].sub, clock) \cup since'[r]
                /\ pc[r] \in Holding =>
                      CurrentScope(token[r].sub, now[r])'
                          \subseteq CurrentScope(token[r].sub, now[r]) \cup since'[r]
      PROVE  ScopeInv'
  <2>1. ASSUME NEW r \in Requests PROVE Scoped(r)'
    BY <1>2 DEF Scoped, Bound, Allowed
  <2>2. MintsAreClients'
    BY <1>2 DEF MintsAreClients
  <2> QED
    BY <1>t, <2>1, <2>2
<1>3. CASE Tick
  <2>1. /\ clock' = clock + 1
        /\ UNCHANGED <<validTo, minted, pc, token, ask, session, now, got, since>>
    BY <1>3 DEF Tick, reqVars
  <2>2. \A r \in Requests : token[r].sub \in Users
    BY DEF TypeOK, Tokens
  <2>3. \A u \in Users, p \in Pairs : validTo[u][p] \in Int
    BY AccessAssumption DEF TypeOK, Null
  <2>4. \A u \in Users : CurrentScope(u, clock)' \subseteq CurrentScope(u, clock)
    BY <2>1, <2>3 DEF CurrentScope, TypeOK
  <2>5. \A r \in Requests : CurrentScope(token[r].sub, now[r])' = CurrentScope(token[r].sub, now[r])
    BY <2>1 DEF CurrentScope
  <2>6. \A r \in Requests : CurrentScope(token[r].sub, clock)' = {p \in Pairs : validTo[token[r].sub][p] > clock'}
    BY <2>1 DEF CurrentScope
  <2> QED
    BY <1>2, <2>1, <2>2, <2>4, <2>5
<1>4. ASSUME NEW u \in Users, NEW p \in Pairs, GrantScope(u, p) PROVE ScopeInv'
  <2>1. /\ validTo' = [validTo EXCEPT ![u][p] = Null] /\ Had(u, p)
        /\ UNCHANGED <<clock, minted, pc, token, ask, session, now, got>>
    BY <1>4 DEF GrantScope
  <2>2. \A r \in Requests :
           /\ since[r] \subseteq since'[r]
           /\ token[r].sub = u /\ pc[r] \notin {"idle", "done"} => p \in since'[r]
    BY <2>1 DEF Had, TypeOK
  <2>3. \A r \in Requests, t \in 0 .. MaxClock :
           pc[r] \notin {"idle", "done"} =>
               CurrentScope(token[r].sub, t)' \subseteq CurrentScope(token[r].sub, t) \cup since'[r]
    BY <2>1, <2>2 DEF CurrentScope, TypeOK, Tokens
  <2>4. clock \in 0 .. MaxClock /\ \A r \in Requests : now[r] \in 0 .. MaxClock
    BY AccessAssumption DEF TypeOK
  <2> QED
    BY <1>2, <2>1, <2>2, <2>3, <2>4 DEF Holding
<1>5. ASSUME NEW u \in Users, NEW p \in Pairs, EndScope(u, p) PROVE ScopeInv'
  <2>1. PICK t \in 1 .. clock : validTo' = [validTo EXCEPT ![u][p] = t]
    BY <1>5 DEF EndScope
  <2>2. UNCHANGED <<clock, minted, pc, token, ask, session, now, got, since>>
        /\ validTo[u][p] = Null
    BY <1>5 DEF EndScope, reqVars
  <2>3. \A w \in Users, s \in 0 .. MaxClock : {q \in Pairs : validTo'[w][q] > s} \subseteq CurrentScope(w, s)
    BY <2>1, <2>2, AccessAssumption DEF CurrentScope, TypeOK, Null
  <2>4. clock \in 0 .. MaxClock /\ \A r \in Requests : now[r] \in 0 .. MaxClock /\ token[r].sub \in Users
    BY AccessAssumption DEF TypeOK, Tokens
  <2> QED
    BY <1>2, <2>2, <2>3, <2>4 DEF CurrentScope
<1>6. ASSUME NEW u \in Users, ResetAccount(u) PROVE ScopeInv'
  <2>1. /\ validTo' = [validTo EXCEPT ![u] = [p \in Pairs |-> NoRow]]
        /\ UNCHANGED <<clock, minted, pc, token, ask, session, now, got, since>>
    BY <1>6 DEF ResetAccount, reqVars
  <2>3. \A w \in Users, s \in 0 .. MaxClock : {q \in Pairs : validTo'[w][q] > s} \subseteq CurrentScope(w, s)
    BY <2>1, AccessAssumption DEF CurrentScope, TypeOK, NoRow
  <2>4. clock \in 0 .. MaxClock /\ \A r \in Requests : now[r] \in 0 .. MaxClock /\ token[r].sub \in Users
    BY AccessAssumption DEF TypeOK, Tokens
  <2> QED
    BY <1>2, <2>1, <2>3, <2>4 DEF CurrentScope
<1>7. CASE UNCHANGED <<clock, validTo, minted, pc, token, ask, session, now, got, since>>
  BY <1>2, <1>7 DEF CurrentScope
<1> QED
  BY <1>1, <1>3, <1>4, <1>5, <1>6, <1>7 DEF Next, Publish, world, reqVars, vars

\* A client, and an administrator in support view, is given rows only of pairs
\* that the client has had since the request arrived, for any number of pairs
\* that end, begin and are deleted under any number of requests.
THEOREM AccessInScope == Spec => []AnswersInScope
<1>1. ScopeInv => AnswersInScope
  BY DEF ScopeInv, Scoped, AnswersInScope
<1> QED
  BY <1>1, InitScoped, ScopeKept, PTL DEF Spec

-----------------------------------------------------------------------------
\* The wholeness of the answers.

\* The rows of every version that the documents of S have.
Existing(S) == UNION {{RowOf(d, n, 0) : n \in DOMAIN versions[d]} : d \in S}

AllClauses(v) == {RowOf(v.doc, v.no, c) : c \in 1 .. versions[v.doc][v.no].clauses}

WholeDocument(r) ==
    /\ pc[r] = "open" => Len(got[r]) < 3
    /\ status[r] = 200 => Len(got[r]) = 3
    /\ 2 \in DOMAIN got[r] => got[r][2] \subseteq Existing(ask[r].docs)
    /\ 3 \in DOMAIN got[r] => got[r][3] = {} \/ got[r][2] \subseteq got[r][3]

WholeClauses(r) ==
    /\ pc[r] = "open" => Len(got[r]) < 2
    /\ status[r] = 200 => Len(got[r]) = 2
    /\ 1 \in DOMAIN got[r] =>
          \A v \in got[r][1] : /\ v.doc \in ask[r].docs /\ v.no = ask[r].no
                               /\ v.no \in DOMAIN versions[v.doc]
    /\ 2 \in DOMAIN got[r] => \A v \in got[r][1] : got[r][2] \in {{}, AllClauses(v)}

Whole(r) ==
    /\ ask[r].route \in {"document", "clauses"} => \E d \in Docs : ask[r].docs = {d}
    /\ pc[r] # "answered" => status[r] = 0
    /\ pc[r] \notin Holding => got[r] = <<>>
    /\ ask[r].route = "document" => WholeDocument(r)
    /\ ask[r].route = "clauses" => WholeClauses(r)

WholeInv == TypeOK /\ \A r \in Requests : Whole(r)

LEMMA InitWhole == Init => WholeInv
<1> SUFFICES ASSUME Init PROVE WholeInv
  OBVIOUS
<1>1. TypeOK
  BY InitTypes
<1>2. ASSUME NEW r \in Requests PROVE Whole(r)
  BY DEF Init, Whole, NoAsk, Holding
<1> QED
  BY <1>1, <1>2 DEF WholeInv

LEMMA ForgottenWhole ==
    ASSUME TypeOK, NEW r \in Requests, Forget(r), pc' = [pc EXCEPT ![r] = "done"]
    PROVE  Whole(r)'
<1>1. ask'[r] = NoAsk /\ pc'[r] = "done" /\ got'[r] = <<>> /\ status'[r] = 0
  BY DEF TypeOK, Forget
<1> QED
  BY <1>1 DEF Whole, NoAsk

LEMMA OthersWhole ==
    ASSUME NEW r \in Requests, Whole(r), UNCHANGED versions,
           pc'[r] = pc[r], ask'[r] = ask[r], got'[r] = got[r], status'[r] = status[r]
    PROVE  Whole(r)'
  BY DEF Whole, WholeDocument, WholeClauses, Existing, AllClauses

\* An answer without rows is whole.
LEMMA EmptyWhole ==
    ASSUME NEW r \in Requests, Whole(r), ask'[r] = ask[r], got'[r] = <<>>,
           pc'[r] # "answered" => status'[r] = 0,
           ask[r].route \in {"document", "clauses"} => status'[r] # 200
    PROVE  Whole(r)'
  BY DEF Whole, WholeDocument, WholeClauses

\* The statements of GET /documents/{id}: what the aggregates name exists when
\* they are read, and whoever still sees the document sees all its versions.
LEMMA StatementDocument ==
    ASSUME WholeInv, NEW r \in Requests, Statement(r), ask[r].route = "document"
    PROVE  Whole(r)'
<1> USE DEF WholeInv
<1>1. /\ pc[r] = "open" /\ UNCHANGED <<versions, ask>> /\ WholeDocument(r)
      /\ Len(got[r]) \in 0 .. 2 /\ got[r] \in Seq(SUBSET Row) /\ status[r] = 0
  <2>1. pc[r] = "open" /\ UNCHANGED <<versions, ask>> /\ got[r] \in Seq(SUBSET Row)
    BY DEF Statement, TypeOK, world
  <2>2. WholeDocument(r) /\ status[r] = 0
    BY <2>1 DEF Whole
  <2>3. Len(got[r]) \in Nat
    BY <2>1
  <2> QED
    <3>1. Len(got[r]) < 3
      BY <2>1, <2>2 DEF WholeDocument
    <3>2. Len(got[r]) \in 0 .. 2
      <4>1. \A n \in Nat : n < 3 => n \in 0 .. 2
        OBVIOUS
      <4> QED
        BY <2>3, <3>1, <4>1
    <3> QED
      BY <2>1, <2>2, <3>2
<1>2. PICK d \in Docs : ask[r].docs = {d}
  BY DEF Whole
<1>3. Handler(ask[r], token[r]) = <<"row", "stats", "versions">>
  BY DEF Handler, GetDocument
<1> DEFINE i == Len(got[r]) + 1
           todo == <<"row", "stats", "versions">>
           result == Result(r, todo[i])
           rows == Append(got[r], result)
           code == Outcome(r, todo[i], result)
<1>4. \/ pc'[r] = "answered" /\ code # 0 /\ Answer(r, code, rows)
      \/ pc'[r] = "open" /\ status'[r] = 0 /\ got'[r] = rows /\ i < 3
      \/ pc'[r] = "answered" /\ Answer(r, 200, rows) /\ i = 3
  BY <1>1, <1>3 DEF Statement, TypeOK
<1>5. todo[i] \in {"row", "stats", "versions"} /\ code \in {0, 404}
  <2>1. todo[i] \in {"row", "stats", "versions"}
    <3>1. i \in 1 .. 3
      <4>1. \A n \in 0 .. 2 : n + 1 \in 1 .. 3
        OBVIOUS
      <4> QED
        BY <1>1, <4>1
    <3> QED
      BY <3>1
  <2> HIDE DEF todo, result
  <2> QED
    BY <2>1 DEF Outcome
<1>6. result \in SUBSET Row
  BY ResultSeen DEF Seen
<1>7. todo[i] = "stats" => result \subseteq Existing(ask[r].docs)
  <2>1. todo[i] = "stats" => result = DocumentStats(r)
    BY DEF Result
  <2>2. DocumentStats(r) \subseteq Existing(ask[r].docs)
    BY VersionsSeen DEF DocumentStats, StatsRows, Existing
  <2> QED
    BY <2>1, <2>2
<1>8. todo[i] = "versions" => result = {} \/ result = Existing(ask[r].docs)
  <2>1. todo[i] = "versions" => result = VersionRows(r)
    BY DEF Result
  <2>2. CASE d \notin Visible(r)
    BY <2>1, <2>2, <1>2, VersionsSeen DEF VersionRows
  <2>3. CASE d \in Visible(r)
    <3>1. VersionRows(r) \subseteq Existing(ask[r].docs)
      BY VersionsSeen DEF VersionRows, Existing
    <3>2. ASSUME NEW v \in Existing(ask[r].docs) PROVE v \in VersionRows(r)
      <4>1. PICK n \in DOMAIN versions[d] : v = RowOf(d, n, 0)
        BY <1>2 DEF Existing
      <4>2. <<d, n>> \in VersionsInScope(r)
        BY <2>3 DEF VersionsInScope
      <4> QED
        BY <1>2, <4>1, <4>2 DEF VersionRows
    <3> QED
      BY <2>1, <3>1, <3>2
  <2> QED
    BY <2>2, <2>3
<1> HIDE DEF result, code
<1>9. /\ rows \in Seq(SUBSET Row) /\ Len(rows) = i /\ rows[i] = result
      /\ \A k \in 1 .. Len(got[r]) : rows[k] = got[r][k]
  BY <1>1, <1>6
<1> HIDE DEF rows
<1>10. Existing(ask[r].docs)' = Existing(ask[r].docs)
  BY <1>1 DEF Existing
<1>11. i \in 1 .. 3 /\ DOMAIN got[r] = 1 .. i - 1 /\ DOMAIN rows = 1 .. i
  BY <1>1, <1>9
<1>12. /\ i = 2 => rows[2] \subseteq Existing(ask[r].docs)
       /\ i = 3 => rows[2] = got[r][2] /\ got[r][2] \subseteq Existing(ask[r].docs)
       /\ i = 3 => rows[3] = {} \/ rows[2] \subseteq rows[3]
  BY <1>1, <1>7, <1>8, <1>9, <1>11 DEF WholeDocument
<1>13. CASE got'[r] = <<>> /\ pc'[r] = "answered" /\ status'[r] # 200
  BY <1>1, <1>13, EmptyWhole
<1>14. CASE got'[r] = rows /\ (pc'[r] = "open" => i < 3) /\ (status'[r] = 200 => i = 3)
            /\ (pc'[r] # "answered" => status'[r] = 0) /\ pc'[r] \in Holding
  <2>1. WholeDocument(r)'
    BY <1>1, <1>9, <1>10, <1>11, <1>12, <1>14 DEF WholeDocument
  <2> QED
    BY <1>1, <1>2, <1>14, <2>1 DEF Whole
<1>15. Answer(r, code, rows) => got'[r] = (IF code = 200 THEN rows ELSE <<>>) /\ status'[r] = code
  BY DEF Answer, TypeOK
<1>16. Answer(r, 200, rows) => got'[r] = rows /\ status'[r] = 200
  BY DEF Answer, TypeOK
<1> QED
  BY <1>4, <1>5, <1>11, <1>13, <1>14, <1>15, <1>16 DEF Holding

\* The statements of .../clauses: a version does not change once it is seen.
LEMMA StatementClauses ==
    ASSUME WholeInv, NEW r \in Requests, Statement(r), ask[r].route = "clauses"
    PROVE  Whole(r)'
<1> USE DEF WholeInv
<1>1. /\ pc[r] = "open" /\ UNCHANGED <<versions, ask>> /\ WholeClauses(r)
      /\ Len(got[r]) \in 0 .. 1 /\ got[r] \in Seq(SUBSET Row) /\ status[r] = 0
  <2>1. pc[r] = "open" /\ UNCHANGED <<versions, ask>> /\ got[r] \in Seq(SUBSET Row)
    BY DEF Statement, TypeOK, world
  <2>2. WholeClauses(r) /\ status[r] = 0
    BY <2>1 DEF Whole
  <2>3. Len(got[r]) \in Nat
    BY <2>1
  <2> QED
    <3>1. Len(got[r]) < 2
      BY <2>1, <2>2 DEF WholeClauses
    <3>2. Len(got[r]) \in 0 .. 1
      <4>1. \A n \in Nat : n < 2 => n \in 0 .. 1
        OBVIOUS
      <4> QED
        BY <2>3, <3>1, <4>1
    <3> QED
      BY <2>1, <2>2, <3>2
<1>2. PICK d \in Docs : ask[r].docs = {d}
  BY DEF Whole
<1>3. Handler(ask[r], token[r]) = <<"version", "clauses">>
  BY DEF Handler, GetClauses
<1> DEFINE i == Len(got[r]) + 1
           todo == <<"version", "clauses">>
           result == Result(r, todo[i])
           rows == Append(got[r], result)
           code == Outcome(r, todo[i], result)
<1>4. \/ pc'[r] = "answered" /\ code # 0 /\ Answer(r, code, rows)
      \/ pc'[r] = "open" /\ status'[r] = 0 /\ got'[r] = rows /\ i < 2
      \/ pc'[r] = "answered" /\ Answer(r, 200, rows) /\ i = 2
  BY <1>1, <1>3 DEF Statement, TypeOK
<1>5. todo[i] \in {"version", "clauses"} /\ code \in {0, 404}
  <2>1. todo[i] \in {"version", "clauses"}
    <3>1. i \in {1, 2}
      <4>1. \A n \in 0 .. 1 : n + 1 \in {1, 2}
        OBVIOUS
      <4> QED
        BY ONLY <1>1, <4>1
    <3>2. todo[1] = "version" /\ todo[2] = "clauses"
      OBVIOUS
    <3> QED
      BY <3>1, <3>2
  <2>2. PICK what \in {"version", "clauses"} : what = todo[i]
    BY <2>1
  <2>3. Outcome(r, what, result) \in {0, 404}
    BY <2>2 DEF Outcome
  <2> QED
    BY <2>1, <2>2, <2>3
<1>6. result \in SUBSET Row
  BY ResultSeen DEF Seen
<1>7. todo[i] = "version" =>
         \A v \in result : v.doc \in ask[r].docs /\ v.no = ask[r].no /\ v.no \in DOMAIN versions[v.doc]
  <2>1. todo[i] = "version" => result = LabelRow(r)
    BY DEF Result
  <2>2. \A v \in LabelRow(r) :
           v.doc \in ask[r].docs /\ v.no = ask[r].no /\ v.no \in DOMAIN versions[v.doc]
    BY VersionsSeen DEF LabelRow, VersionRows, RowOf
  <2> QED
    BY <2>1, <2>2
<1>8. todo[i] = "clauses" =>
         \A v : v.doc = d /\ v.no = ask[r].no /\ v.no \in DOMAIN versions[d] =>
             result \in {{}, AllClauses(v)}
  <2>1. todo[i] = "clauses" => result = ClauseRows(r)
    BY DEF Result
  <2> SUFFICES ASSUME NEW v, v.doc = d, v.no = ask[r].no, v.no \in DOMAIN versions[d]
               PROVE  ClauseRows(r) \in {{}, AllClauses(v)}
    BY <2>1
  <2>2. CASE d \notin Visible(r)
    BY <2>2, <1>2, ClausesSeen DEF ClauseRows
  <2>3. CASE d \in Visible(r)
    <3>1. ClauseRows(r) \subseteq AllClauses(v)
      BY <1>2, ClausesSeen DEF ClauseRows, AllClauses
    <3>2. ASSUME NEW c \in 1 .. versions[d][v.no].clauses
          PROVE  RowOf(d, v.no, c) \in ClauseRows(r)
      <4>1. <<d, v.no>> \in VersionsInScope(r)
        BY <2>3 DEF VersionsInScope
      <4>2. <<d, v.no, c>> \in ClausesInScope(r)
        BY <4>1 DEF ClausesInScope
      <4> QED
        BY <1>2, <4>2 DEF ClauseRows
    <3> QED
      BY <3>1, <3>2 DEF AllClauses
  <2> QED
    BY <2>2, <2>3
<1> HIDE DEF result, code
<1>9. /\ rows \in Seq(SUBSET Row) /\ Len(rows) = i /\ rows[i] = result
      /\ \A k \in 1 .. Len(got[r]) : rows[k] = got[r][k]
  BY <1>1, <1>6
<1> HIDE DEF rows
<1>10. \A v : AllClauses(v)' = AllClauses(v)
  BY <1>1 DEF AllClauses
<1>11. i \in 1 .. 2 /\ DOMAIN got[r] = 1 .. i - 1 /\ DOMAIN rows = 1 .. i
  BY <1>1, <1>9
<1>12. \A v \in rows[1] : v.doc \in ask[r].docs /\ v.no = ask[r].no /\ v.no \in DOMAIN versions[v.doc]
  BY <1>1, <1>7, <1>9, <1>11 DEF WholeClauses
<1>13. i = 2 => \A v \in rows[1] : rows[2] \in {{}, AllClauses(v)}
  BY <1>2, <1>8, <1>9, <1>11, <1>12
<1>14. CASE got'[r] = <<>> /\ pc'[r] = "answered" /\ status'[r] # 200
  BY <1>1, <1>14, EmptyWhole
<1>15. CASE got'[r] = rows /\ (pc'[r] = "open" => i < 2) /\ (status'[r] = 200 => i = 2)
            /\ (pc'[r] # "answered" => status'[r] = 0) /\ pc'[r] \in Holding
  <2>1. WholeClauses(r)'
    BY <1>1, <1>9, <1>10, <1>11, <1>12, <1>13, <1>15 DEF WholeClauses
  <2> QED
    BY <1>1, <1>2, <1>15, <2>1 DEF Whole
<1>16. Answer(r, code, rows) => got'[r] = (IF code = 200 THEN rows ELSE <<>>) /\ status'[r] = code
  BY DEF Answer, TypeOK
<1>17. Answer(r, 200, rows) => got'[r] = rows /\ status'[r] = 200
  BY DEF Answer, TypeOK
<1> QED
  BY <1>4, <1>5, <1>11, <1>14, <1>15, <1>16, <1>17 DEF Holding

LEMMA RequestWhole ==
    ASSUME WholeInv, NEW r \in Requests, Arrive(r) \/ Proceed(r)
    PROVE  WholeInv'
<1> USE DEF WholeInv
<1>t. TypeOK'
  BY RequestTypes
<1>1. /\ UNCHANGED versions
      /\ \A q \in Requests \ {r} :
            pc'[q] = pc[q] /\ ask'[q] = ask[q] /\ got'[q] = got[q] /\ status'[q] = status[q]
  BY DEF Proceed, Arrive, Record, OpenSession, Refuse, Statement, StatementFails,
         RecordImpersonation, Mint, PoolTimeout, Close, Forget, Step, Answer, TypeOK, world,
         reqVars
<1>2. \A q \in Requests \ {r} : Whole(q)'
  BY <1>1, OthersWhole
<1>3. Whole(r)'
  <2>1. CASE Arrive(r)
    <3>1. got'[r] = <<>> /\ status'[r] = 0 /\ got[r] = <<>>
      BY <2>1 DEF Arrive, Whole, Holding
    <3>2. \/ ask'[r] = ask[r] /\ pc'[r] = "done"
          \/ ask'[r] \in Asks[r] /\ pc'[r] = "arrived"
      BY <2>1 DEF Arrive, TypeOK
    <3>3. ask'[r].route \in {"document", "clauses"} => \E d \in Docs : ask'[r].docs = {d}
      BY <3>2, AccessAssumption DEF Whole
    <3> QED
      BY <3>1, <3>2, <3>3 DEF Whole, WholeDocument, WholeClauses
  <2>2. CASE (Record(r) /\ token[r].sub \in users) \/ OpenSession(r)
    <3>1. /\ UNCHANGED <<ask, got, status>> /\ pc[r] \in {"arrived", "audited"}
          /\ pc'[r] \in {"audited", "open"}
      BY <2>2 DEF Record, OpenSession, Step, TypeOK, reqVars
    <3> QED
      BY <3>1, EmptyWhole DEF Whole, Holding
  <2>3. CASE \/ Record(r) /\ token[r].sub \notin users
             \/ PoolTimeout(r) /\ pc[r] \notin Holding
             \/ Close(r)
    BY <2>3, ForgottenWhole DEF Record, Close, PoolTimeout, Step
  <2>4. CASE \/ Refuse(r) \/ RecordImpersonation(r) \/ Mint(r)
             \/ PoolTimeout(r) /\ pc[r] \in Holding
    <3>1. UNCHANGED ask
      BY <2>4 DEF Refuse, RecordImpersonation, Mint, PoolTimeout
    <3>2. \/ pc'[r] = "answered" /\ got'[r] = <<>> /\ status'[r] # 200
          \/ /\ pc[r] = "elevating" /\ pc'[r] = "recorded"
             /\ got'[r] = got[r] /\ status'[r] = status[r]
      BY <2>4 DEF Refuse, RecordImpersonation, Mint, PoolTimeout, Step, Answer, TypeOK
    <3>3. CASE pc'[r] = "answered" /\ got'[r] = <<>> /\ status'[r] # 200
      BY <3>1, <3>3, EmptyWhole
    <3>4. CASE /\ pc[r] = "elevating" /\ pc'[r] = "recorded"
               /\ got'[r] = got[r] /\ status'[r] = status[r]
      <4>1. ask[r].route = "document" => WholeDocument(r)'
        BY <1>1, <3>1, <3>4 DEF Whole, WholeDocument, Existing
      <4>2. ask[r].route = "clauses" => WholeClauses(r)'
        BY <1>1, <3>1, <3>4 DEF Whole, WholeClauses, AllClauses
      <4> QED
        BY <3>1, <3>4, <4>1, <4>2 DEF Whole, Holding
    <3> QED
      BY <3>2, <3>3, <3>4
  <2>5. CASE StatementFails(r)
    <3>1. CASE ask[r].route \in {"document", "clauses"}
      BY <2>5, <3>1, EmptyWhole DEF StatementFails, Answer, Step, TypeOK
    <3>2. CASE ask[r].route \notin {"document", "clauses"}
      BY <2>5, <3>2 DEF StatementFails, Step, TypeOK, Whole, Holding
    <3> QED
      BY <3>1, <3>2
  <2>6. CASE Statement(r)
    <3>1. CASE ask[r].route \notin {"document", "clauses"}
      BY <2>6, <3>1 DEF Statement, TypeOK, Whole, Holding
    <3> QED
      BY <2>6, <3>1, StatementDocument, StatementClauses
  <2> QED
    BY <2>1, <2>2, <2>3, <2>4, <2>5, <2>6 DEF Proceed
<1> QED
  BY <1>t, <1>2, <1>3

\* A version that is published is added to those there are.
LEMMA PublishWhole ==
    ASSUME WholeInv, NEW d \in Docs, Publish(d)
    PROVE  \A r \in Requests : Whole(r)'
<1> USE DEF WholeInv
<1>1. PICK v \in NewVersions : versions' = [versions EXCEPT ![d] =
          Append(@, [effective |-> v.effective, clauses |-> v.clauses, created |-> clock])]
  BY DEF Publish
<1>2. \A e \in Docs : /\ DOMAIN versions[e] \subseteq DOMAIN versions'[e]
                      /\ \A n \in DOMAIN versions[e] : versions'[e][n] = versions[e][n]
  <2> DEFINE new == [effective |-> v.effective, clauses |-> v.clauses, created |-> clock]
  <2>1. versions[d] \in Seq([effective : Nat, clauses : Nat, created : Nat])
    BY DEF TypeOK
  <2>2. new \in [effective : Nat, clauses : Nat, created : Nat]
    BY AccessAssumption DEF TypeOK
  <2> HIDE DEF new
  <2>3. versions'[d] = Append(versions[d], new)
    BY <1>1 DEF TypeOK, new
  <2>4. \A e \in Docs \ {d} : versions'[e] = versions[e]
    BY <1>1 DEF TypeOK
  <2>5. /\ DOMAIN versions[d] \subseteq DOMAIN versions'[d]
        /\ \A n \in DOMAIN versions[d] : versions'[d][n] = versions[d][n]
    <3>1. Len(versions'[d]) = Len(versions[d]) + 1 /\ Len(versions[d]) \in Nat
      BY <2>1, <2>2, <2>3
    <3>2. DOMAIN versions'[d] = 1 .. Len(versions[d]) + 1 /\ DOMAIN versions[d] = 1 .. Len(versions[d])
      BY <2>1, <2>2, <2>3
    <3> QED
      BY <2>1, <2>2, <2>3, <3>1, <3>2
  <2> QED
    BY <2>4, <2>5
<1>3. UNCHANGED <<pc, ask, got, status>>
  BY DEF Publish, reqVars
<1> SUFFICES ASSUME NEW r \in Requests PROVE Whole(r)'
  OBVIOUS
<1>4. ask[r].route = "document" => WholeDocument(r)'
  <2>1. ask[r].docs \subseteq Docs
    BY DEF TypeOK, Ask
  <2>2. Existing(ask[r].docs) \subseteq Existing(ask[r].docs)'
    BY <1>2, <1>3, <2>1 DEF Existing
  <2> QED
    BY <1>3, <2>2 DEF Whole, WholeDocument
<1>5. ask[r].route = "clauses" => WholeClauses(r)'
  <2>1. ask[r].docs \subseteq Docs
    BY DEF TypeOK, Ask
  <2>2. \A w : w.doc \in Docs /\ w.no \in DOMAIN versions[w.doc] =>
           w.no \in DOMAIN versions'[w.doc] /\ AllClauses(w)' = AllClauses(w)
    BY <1>2 DEF AllClauses
  <2>3. 2 \in DOMAIN got[r] => 1 \in DOMAIN got[r]
    BY DEF TypeOK
  <2> QED
    BY <1>3, <2>1, <2>2, <2>3 DEF Whole, WholeClauses
<1> QED
  BY <1>3, <1>4, <1>5 DEF Whole

LEMMA WholeKept == WholeInv /\ [Next]_vars => WholeInv'
<1> SUFFICES ASSUME WholeInv, [Next]_vars PROVE WholeInv'
  OBVIOUS
<1> USE DEF WholeInv
<1>t. TypeOK'
  BY TypesKept
<1>1. CASE \E r \in Requests : Arrive(r) \/ Proceed(r)
  BY <1>1, RequestWhole
<1>2. ASSUME NEW d \in Docs, Publish(d) PROVE WholeInv'
  BY <1>t, <1>2, PublishWhole
<1>3. CASE UNCHANGED <<versions, pc, ask, got, status>>
  BY <1>t, <1>3, OthersWhole
<1> QED
  BY <1>1, <1>2, <1>3
  DEF Next, Tick, GrantScope, EndScope, ResetAccount, world, reqVars, vars

\* A document is never answered with a current version that its list of versions
\* lacks, nor a version with some of its clauses, whatever commits between the
\* statements of the handler.
THEOREM AccessWhole == Spec => []AnswersWhole
<1>1. WholeInv => AnswersWhole
  <2> SUFFICES ASSUME WholeInv, NEW r \in Requests, status[r] = 200
               PROVE  /\ ask[r].route = "document" =>
                            \/ Returned(r, "versions") = {}
                            \/ Returned(r, "stats") \subseteq Returned(r, "versions")
                      /\ ask[r].route = "clauses" =>
                            \A v \in Returned(r, "version") :
                                Returned(r, "clauses") \in {{}, AllClauses(v)}
    BY DEF AnswersWhole, AllClauses
  <2>1. got[r] \in Seq(SUBSET Row) /\ Whole(r)
    BY DEF WholeInv, TypeOK
  <2>2. CASE ask[r].route = "document"
    <3>1. Handler(ask[r], token[r]) = <<"row", "stats", "versions">>
      BY <2>2 DEF Handler, GetDocument
    <3>2. DOMAIN got[r] = 1 .. 3 /\ WholeDocument(r)
      BY <2>1, <2>2 DEF Whole, WholeDocument
    <3>3. \A i \in DOMAIN got[r] : Handler(ask[r], token[r])[i] = "versions" <=> i = 3
      BY <3>1, <3>2
    <3>4. \A i \in DOMAIN got[r] : Handler(ask[r], token[r])[i] = "stats" <=> i = 2
      BY <3>1, <3>2
    <3>5. Returned(r, "versions") = got[r][3] /\ Returned(r, "stats") = got[r][2]
      BY <3>2, <3>3, <3>4 DEF Returned
    <3> QED
      BY <2>2, <3>2, <3>5 DEF WholeDocument
  <2>3. CASE ask[r].route = "clauses"
    <3>1. Handler(ask[r], token[r]) = <<"version", "clauses">>
      BY <2>3 DEF Handler, GetClauses
    <3>2. DOMAIN got[r] = 1 .. 2 /\ WholeClauses(r)
      BY <2>1, <2>3 DEF Whole, WholeClauses
    <3>3. \A i \in DOMAIN got[r] : Handler(ask[r], token[r])[i] = "version" <=> i = 1
      BY <3>1, <3>2
    <3>4. \A i \in DOMAIN got[r] : Handler(ask[r], token[r])[i] = "clauses" <=> i = 2
      BY <3>1, <3>2
    <3>5. Returned(r, "version") = got[r][1] /\ Returned(r, "clauses") = got[r][2]
      BY <3>2, <3>3, <3>4 DEF Returned
    <3> QED
      BY <2>3, <3>2, <3>5 DEF WholeClauses
  <2> QED
    BY <2>2, <2>3
<1> QED
  BY <1>1, InitWhole, WholeKept, PTL DEF Spec

=============================================================================

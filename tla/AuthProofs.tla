----------------------------- MODULE AuthProofs -----------------------------
(***************************************************************************)
(* Theorems about Auth, for any set of tokens and of concurrent requests:  *)
(* types, the refinement of Rotation, and what the refinement gives the    *)
(* committed rows.                                                         *)
(***************************************************************************)
EXTENDS Auth, TLAPS

-----------------------------------------------------------------------------
\* What a request's transaction holds at each point of its endpoint.
Shape(r) ==
    /\ pc[r] = "idle" => old[r] = NoJti /\ new[r] = NoJti
    /\ pc[r] = "revoked" => op[r] = "refresh" /\ old[r] \in Jtis /\ new[r] = NoJti
    /\ pc[r] \in {"ready", "answered"} =>
          /\ op[r] = "login" => old[r] = NoJti /\ new[r] \in Jtis
          /\ op[r] = "refresh" => old[r] \in Jtis /\ new[r] \in Jtis
          /\ op[r] = "logout" => old[r] \in Jtis /\ new[r] = NoJti

\* A locked row is still live and an inserted one still invisible: nobody else
\* commits to them.
Holds(r) ==
    /\ old[r] \in Jtis => token[old[r]] = "live"
    /\ new[r] \in Jtis => token[new[r]] = "none"

OneIssuer == \A q, r \in Requests : new[q] = new[r] /\ new[q] # NoJti => q = r

RequestInv ==
    /\ TypeOK
    /\ \A r \in Requests : Shape(r) /\ Holds(r)
    /\ OneRevoker
    /\ OneIssuer

LEMMA InitRequestInv == Init => RequestInv
  BY AuthAssumption DEF Init, RequestInv, TypeOK, Shape, Holds, OneRevoker, OneIssuer

\* Locking a live row that nobody has locked.
LEMMA RevokeKeeps ==
    ASSUME RequestInv, NEW r \in Requests, RefreshRevoke(r) \/ LogoutRevoke(r)
    PROVE  RequestInv'
<1> USE AuthAssumption DEF RequestInv
<1>1. PICK j \in Jtis, e \in {"refresh", "logout"} :
         /\ Revoke(r, j, e)
         /\ pc' = [pc EXCEPT ![r] = IF e = "refresh" THEN "revoked" ELSE "ready"]
  BY DEF RefreshRevoke, LogoutRevoke
<1>2. TypeOK'
  BY <1>1 DEF TypeOK, Revoke
<1>3. \A q \in Requests : Shape(q)'
  BY <1>1 DEF TypeOK, Revoke, Shape
<1>4. \A q \in Requests : Holds(q)'
  BY <1>1 DEF TypeOK, Revoke, Holds
<1>5. OneRevoker'
  BY <1>1 DEF TypeOK, Revoke, OneRevoker, RowLocked
<1>6. OneIssuer'
  BY <1>1 DEF Revoke, OneIssuer
<1> QED
  BY <1>2, <1>3, <1>4, <1>5, <1>6

\* Inserting a row with a fresh jti.
LEMMA IssueKeeps ==
    ASSUME RequestInv, NEW r \in Requests, LoginIssue(r) \/ RefreshIssue(r)
    PROVE  RequestInv'
<1> USE AuthAssumption DEF RequestInv
<1>1. PICK k \in Jtis : Fresh(k) /\ new' = [new EXCEPT ![r] = k]
  BY DEF LoginIssue, RefreshIssue
<1>2. UNCHANGED <<token, line, known, old, failures>> /\ pc' = [pc EXCEPT ![r] = "ready"]
  BY DEF LoginIssue, RefreshIssue
<1>3. \/ pc[r] = "idle" /\ op' = [op EXCEPT ![r] = "login"]
      \/ pc[r] = "revoked" /\ op' = op
  BY DEF LoginIssue, RefreshIssue
<1>4. TypeOK'
  BY <1>1, <1>2, <1>3 DEF TypeOK
<1>5. \A q \in Requests : Shape(q)'
  BY <1>1, <1>2, <1>3 DEF TypeOK, Shape
<1>6. \A q \in Requests : Holds(q)'
  BY <1>1, <1>2 DEF TypeOK, Holds, Fresh
<1>7. OneRevoker'
  BY <1>2 DEF OneRevoker
<1>8. OneIssuer'
  BY <1>1 DEF TypeOK, OneIssuer, Fresh
<1> QED
  BY <1>4, <1>5, <1>6, <1>7, <1>8

LEMMA AnswerKeeps ==
    ASSUME RequestInv, NEW r \in Requests, Answer(r)
    PROVE  RequestInv'
<1> USE AuthAssumption DEF RequestInv, Answer
<1>1. TypeOK'
  BY DEF TypeOK
<1>2. \A q \in Requests : Shape(q)' /\ Holds(q)'
  BY DEF TypeOK, Shape, Holds
<1>3. OneRevoker' /\ OneIssuer'
  BY DEF OneRevoker, OneIssuer
<1> QED
  BY <1>1, <1>2, <1>3

\* A transaction that ends gives its rows back; what it has done to the rows it
\* held concerns no other transaction.
LEMMA ReleaseKeeps ==
    ASSUME RequestInv, NEW r \in Requests, Release(r), TypeOK',
           \A j \in Jtis : j # old[r] /\ j # new[r] => token'[j] = token[j]
    PROVE  RequestInv'
<1> USE AuthAssumption DEF RequestInv, Release
<1>1. \A q \in Requests : Shape(q)'
  BY DEF TypeOK, Shape
<1>2. \A q \in Requests : Holds(q)'
  <2> SUFFICES ASSUME NEW q \in Requests, q # r PROVE Holds(q)'
    BY DEF TypeOK, Holds
  <2>1. old'[q] = old[q] /\ new'[q] = new[q]
    BY DEF TypeOK
  <2>2. ASSUME old[q] \in Jtis PROVE token'[old[q]] = "live"
    <3>1. old[q] # old[r]
      BY <2>2 DEF OneRevoker
    <3>2. old[q] # new[r]
      BY <2>2 DEF Holds
    <3> QED
      BY <2>2, <3>1, <3>2 DEF Holds
  <2>3. ASSUME new[q] \in Jtis PROVE token'[new[q]] = "none"
    <3>1. new[q] # new[r]
      BY <2>3 DEF OneIssuer
    <3>2. new[q] # old[r]
      BY <2>3 DEF Holds
    <3> QED
      BY <2>3, <3>1, <3>2 DEF Holds
  <2> QED
    BY <2>1, <2>2, <2>3 DEF Holds
<1>3. OneRevoker' /\ OneIssuer'
  BY DEF TypeOK, OneRevoker, OneIssuer
<1> QED
  BY <1>1, <1>2, <1>3

\* The three endpoints commit as the three steps of Rotation.
LEMMA CommitSteps ==
    ASSUME RequestInv, NEW r \in Requests, Commit(r)
    PROVE  \/ \E k \in Jtis : Registry!Login(k)
           \/ \E j \in Jtis : Registry!Logout(j)
           \/ \E j, k \in Jtis : Registry!Exchange(j, k)
<1> USE AuthAssumption DEF RequestInv
<1>1. Shape(r) /\ Holds(r) /\ pc[r] = "answered" /\ op[r] \in {"login", "refresh", "logout"}
  BY DEF Commit, TypeOK
<1>2. CASE op[r] = "login"
  <2>1. new[r] \in Jtis /\ old[r] = NoJti /\ token[new[r]] = "none"
    BY <1>1, <1>2 DEF Shape, Holds
  <2>2. token' = [token EXCEPT ![new[r]] = "live"]
    BY <2>1 DEF Commit, TypeOK
  <2>3. line' = [line EXCEPT ![new[r]] = new[r]]
    BY <1>2, <2>1 DEF Commit, TypeOK
  <2> QED
    BY <2>1, <2>2, <2>3 DEF Registry!Login
<1>3. CASE op[r] = "logout"
  <2>1. old[r] \in Jtis /\ new[r] = NoJti /\ token[old[r]] = "live"
    BY <1>1, <1>3 DEF Shape, Holds
  <2>2. token' = [token EXCEPT ![old[r]] = "revoked"]
    BY <2>1 DEF Commit, TypeOK
  <2>3. line' = line
    BY <2>1 DEF Commit, TypeOK
  <2> QED
    BY <2>1, <2>2, <2>3 DEF Registry!Logout
<1>4. CASE op[r] = "refresh"
  <2>1. /\ old[r] \in Jtis /\ token[old[r]] = "live"
        /\ new[r] \in Jtis /\ token[new[r]] = "none"
    BY <1>1, <1>4 DEF Shape, Holds
  <2>2. token' = [token EXCEPT ![old[r]] = "revoked", ![new[r]] = "live"]
    BY <2>1 DEF Commit, TypeOK
  <2>3. line' = [line EXCEPT ![new[r]] = line[old[r]]]
    BY <1>4, <2>1 DEF Commit, TypeOK
  <2> QED
    BY <2>1, <2>2, <2>3 DEF Registry!Exchange
<1> QED
  BY <1>1, <1>2, <1>3, <1>4

LEMMA CommitKeeps ==
    ASSUME RequestInv, NEW r \in Requests, Commit(r)
    PROVE  RequestInv'
<1>1. token' \in [Jtis -> {"none", "live", "revoked"}] /\ line' \in [Jtis -> Jtis \cup {NoJti}]
  <2>1. CASE \E k \in Jtis : Registry!Login(k)
    BY <2>1 DEF Registry!Login, RequestInv, TypeOK
  <2>2. CASE \E j \in Jtis : Registry!Logout(j)
    BY <2>2 DEF Registry!Logout, RequestInv, TypeOK
  <2>3. CASE \E j, k \in Jtis : Registry!Exchange(j, k)
    BY <2>3 DEF Registry!Exchange, RequestInv, TypeOK
  <2> QED
    BY <2>1, <2>2, <2>3, CommitSteps
<1>2. TypeOK'
  BY <1>1, AuthAssumption DEF RequestInv, TypeOK, Commit, Release
<1>3. \A j \in Jtis : j # old[r] /\ j # new[r] => token'[j] = token[j]
  BY DEF Commit
<1> QED
  BY <1>2, <1>3, ReleaseKeeps DEF Commit

LEMMA RollbackKeeps ==
    ASSUME RequestInv, NEW r \in Requests, Rollback(r)
    PROVE  RequestInv'
<1>1. TypeOK'
  BY AuthAssumption DEF RequestInv, TypeOK, Rollback, Release
<1> QED
  BY <1>1, ReleaseKeeps DEF Rollback

LEMMA NextRequestInv == RequestInv /\ [Next]_vars => RequestInv'
<1> SUFFICES ASSUME RequestInv, [Next]_vars PROVE RequestInv'
  OBVIOUS
<1>1. CASE UNCHANGED vars
  BY <1>1 DEF vars, RequestInv, TypeOK, Shape, Holds, OneRevoker, OneIssuer
<1>2. CASE \E r \in Requests : RefreshRevoke(r) \/ LogoutRevoke(r)
  BY <1>2, RevokeKeeps
<1>3. CASE \E r \in Requests : LoginIssue(r) \/ RefreshIssue(r)
  BY <1>3, IssueKeeps
<1>4. CASE \E r \in Requests : Answer(r)
  BY <1>4, AnswerKeeps
<1>5. CASE \E r \in Requests : Commit(r)
  BY <1>5, CommitKeeps
<1>6. CASE \E r \in Requests : Rollback(r)
  BY <1>6, RollbackKeeps
<1> QED
  BY <1>1, <1>2, <1>3, <1>4, <1>5, <1>6 DEF Next

LEMMA RequestInvHolds == Spec => []RequestInv
<1> QED
  BY InitRequestInv, NextRequestInv, PTL DEF Spec

\* Every variable keeps its type (routes/auth.py, repos/refresh_tokens.py).
THEOREM AuthTypeCorrect == Spec => []TypeOK
<1>1. RequestInv => TypeOK
  BY DEF RequestInv
<1> QED
  BY <1>1, RequestInvHolds, PTL

-----------------------------------------------------------------------------
\* Refinement.

LEMMA StepRotates == RequestInv /\ [Next]_vars => [Registry!RNext]_(Registry!rvars)
<1> SUFFICES ASSUME RequestInv, [Next]_vars
             PROVE  [Registry!RNext]_(Registry!rvars)
  OBVIOUS
<1>1. CASE \E r \in Requests : Commit(r)
  BY <1>1, CommitSteps DEF Registry!RNext
<1>2. CASE ~\E r \in Requests : Commit(r)
  BY <1>2 DEF Next, vars, LoginIssue, RefreshRevoke, RefreshIssue, LogoutRevoke, Revoke,
              Answer, Rollback, Registry!rvars
<1> QED
  BY <1>1, <1>2

\* The transactions of login, refresh and logout implement the atomic steps of
\* Rotation, whatever interleaves, waits, fails or is answered too early.
THEOREM AuthKeepsRotation == Spec => RotationKept
<1>1. Init => Registry!RInit
  BY DEF Init, Registry!RInit
<1> QED
  BY <1>1, StepRotates, RequestInvHolds, PTL DEF Spec, RotationKept, Registry!RSpec

-----------------------------------------------------------------------------
\* What Rotation guarantees.

\* The rows are the lines of their logins.
LineInv ==
    /\ Registry!RTypeOK
    /\ \A j \in Jtis : (token[j] = "none") <=> (line[j] = NoJti)
    /\ \A j \in Jtis : line[j] # NoJti => line[line[j]] = line[j]
    /\ Registry!OneLivePerLogin

LEMMA InitLineInv == Init => LineInv
  BY DEF Init, LineInv, Registry!RTypeOK, Registry!OneLivePerLogin

LEMMA NextLineInv == LineInv /\ [Registry!RNext]_(Registry!rvars) => LineInv'
<1> SUFFICES ASSUME LineInv, [Registry!RNext]_(Registry!rvars) PROVE LineInv'
  OBVIOUS
<1> USE AuthAssumption DEF LineInv, Registry!RTypeOK, Registry!OneLivePerLogin
<1>1. CASE UNCHANGED Registry!rvars
  BY <1>1 DEF Registry!rvars
<1>2. ASSUME NEW j \in Jtis, Registry!Login(j) PROVE LineInv'
  BY <1>2 DEF Registry!Login
<1>3. ASSUME NEW j \in Jtis, Registry!Logout(j) PROVE LineInv'
  BY <1>3 DEF Registry!Logout
<1>4. ASSUME NEW j \in Jtis, NEW k \in Jtis, Registry!Exchange(j, k) PROVE LineInv'
  BY <1>4 DEF Registry!Exchange
<1> QED
  BY <1>1, <1>2, <1>3, <1>4 DEF Registry!RNext

LEMMA LineInvHolds == Spec => []LineInv
<1> QED
  BY InitLineInv, NextLineInv, StepRotates, RequestInvHolds, PTL DEF Spec

\* At most one committed token of a login is live (routes/auth.py refresh): a
\* replayed older token never opens a second line beside the first.
THEOREM OneTokenPerLogin == Spec => []OneLivePerLogin
<1>1. LineInv => OneLivePerLogin
  BY DEF LineInv, OneLivePerLogin
<1> QED
  BY <1>1, LineInvHolds, PTL

LEMMA EndedStaysEnded ==
    ASSUME LineInv, [Registry!RNext]_(Registry!rvars),
           NEW i \in Jtis, Registry!Ended(i)
    PROVE  Registry!Ended(i)'
<1> USE AuthAssumption DEF LineInv, Registry!RTypeOK, Registry!Ended
<1>1. CASE UNCHANGED Registry!rvars
  BY <1>1 DEF Registry!rvars
<1>2. ASSUME NEW j \in Jtis, Registry!Login(j) PROVE Registry!Ended(i)'
  BY <1>2 DEF Registry!Login
<1>3. ASSUME NEW j \in Jtis, Registry!Logout(j) PROVE Registry!Ended(i)'
  BY <1>3 DEF Registry!Logout
<1>4. ASSUME NEW j \in Jtis, NEW k \in Jtis, Registry!Exchange(j, k) PROVE Registry!Ended(i)'
  BY <1>4 DEF Registry!Exchange
<1> QED
  BY <1>1, <1>2, <1>3, <1>4 DEF Registry!RNext

\* Once no token of a login is live (logout, routes/auth.py), none ever is again:
\* no refresh that was under way brings the login back.
THEOREM LogoutIsFinal == Spec => EndIsFinal
<1>1. LineInv /\ [Registry!RNext]_(Registry!rvars) =>
         [\A i \in Jtis : Registry!Ended(i) => Registry!Ended(i)']_(Registry!rvars)
  BY EndedStaysEnded
<1> QED
  BY <1>1, LineInvHolds, StepRotates, RequestInvHolds, PTL DEF Spec, EndIsFinal, Registry!EndIsFinal
=============================================================================

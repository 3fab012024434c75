-------------------------------- MODULE Auth --------------------------------
(***************************************************************************)
(* The refresh-token endpoints of the API: login, refresh and logout       *)
(* (routes/auth.py) over the rows of refresh_tokens (repos/refresh_tokens, *)
(* local_jwt.py), each request one database transaction (db/session.py).   *)
(*                                                                         *)
(* The session is a dependency with yield, and FastAPI runs its exit code  *)
(* after the response has been sent: the client holds the answer before    *)
(* the transaction commits, and the commit may still fail.                 *)
(***************************************************************************)
EXTENDS Naturals

CONSTANTS
    Jtis,       \* the uuid4 values a token can carry
    NoJti,      \* no token
    Requests,   \* the requests the API can serve at the same time
    MaxFailures \* bound: transactions that fail

ASSUME AuthAssumption ==
    /\ NoJti \notin Jtis
    /\ MaxFailures \in Nat

VARIABLES
    token,      \* the committed rows: token[j] is none, live or revoked
    line,       \* the login each committed row descends from
    known,      \* the refresh tokens some client has been given
    pc,         \* where each request stands
    op,         \* its endpoint
    old,        \* the token whose row its transaction has locked and revoked
    new,        \* the token whose row its transaction has inserted
    failures    \* failed transactions so far

reqVars == <<pc, op, old, new>>
vars == <<token, line, known, pc, op, old, new, failures>>

TypeOK ==
    /\ token \in [Jtis -> {"none", "live", "revoked"}]
    /\ line \in [Jtis -> Jtis \cup {NoJti}]
    /\ known \subseteq Jtis
    /\ pc \in [Requests -> {"idle", "revoked", "ready", "answered"}]
    /\ op \in [Requests -> {"login", "refresh", "logout"}]
    /\ old \in [Requests -> Jtis \cup {NoJti}]
    /\ new \in [Requests -> Jtis \cup {NoJti}]
    /\ failures \in 0 .. MaxFailures

Init ==
    /\ token = [j \in Jtis |-> "none"]
    /\ line = [j \in Jtis |-> NoJti]
    /\ known = {}
    /\ pc = [r \in Requests |-> "idle"]
    /\ op = [r \in Requests |-> "login"]
    /\ old = [r \in Requests |-> NoJti]
    /\ new = [r \in Requests |-> NoJti]
    /\ failures = 0

-----------------------------------------------------------------------------
\* uuid4: never the jti of another row, committed or not.
Fresh(j) ==
    /\ token[j] = "none" /\ j \notin known
    /\ \A r \in Requests : new[r] # j

\* The row lock an UPDATE takes and keeps until its transaction ends.
RowLocked(j) == \E r \in Requests : old[r] = j

\* Credentials verified, app.user_id bound, the refresh token recorded.
LoginIssue(r) ==
    /\ pc[r] = "idle"
    /\ \E k \in Jtis : Fresh(k) /\ new' = [new EXCEPT ![r] = k]
    /\ op' = [op EXCEPT ![r] = "login"]
    /\ pc' = [pc EXCEPT ![r] = "ready"]
    /\ UNCHANGED <<token, line, known, old, failures>>

\* Fault: the UPDATE has no revoked_at IS NULL.
RevokeAgain(r, j, endpoint) ==
    /\ pc[r] = "idle"
    /\ j \in known
    /\ ~RowLocked(j) /\ token[j] # "none"
    /\ old' = [old EXCEPT ![r] = j]
    /\ op' = [op EXCEPT ![r] = endpoint]
    /\ UNCHANGED <<token, line, known, new, failures>>

\* Fault: liveness is read first and the row updated later, with no lock between.
RevokeUnlocked(r, j, endpoint) ==
    /\ pc[r] = "idle"
    /\ j \in known
    /\ token[j] = "live"
    /\ old' = [old EXCEPT ![r] = j]
    /\ op' = [op EXCEPT ![r] = endpoint]
    /\ UNCHANGED <<token, line, known, new, failures>>

\* RefreshTokensRepository.revoke: UPDATE ... WHERE jti AND revoked_at IS NULL
\* RETURNING.  It waits for the row lock and then looks at the row again; no
\* row is a 401 that changes nothing.
Revoke(r, j, endpoint) ==
    /\ pc[r] = "idle"
    /\ j \in known
    /\ ~RowLocked(j) /\ token[j] = "live"
    /\ old' = [old EXCEPT ![r] = j]
    /\ op' = [op EXCEPT ![r] = endpoint]
    /\ UNCHANGED <<token, line, known, new, failures>>

RefreshRevoke(r) ==
    /\ \E j \in Jtis : Revoke(r, j, "refresh")
    /\ pc' = [pc EXCEPT ![r] = "revoked"]

\* The user is re-read and the new pair issued in the same transaction.
RefreshIssue(r) ==
    /\ pc[r] = "revoked"
    /\ \E k \in Jtis : Fresh(k) /\ new' = [new EXCEPT ![r] = k]
    /\ pc' = [pc EXCEPT ![r] = "ready"]
    /\ UNCHANGED <<token, line, known, op, old, failures>>

LogoutRevoke(r) ==
    /\ \E j \in Jtis : Revoke(r, j, "logout")
    /\ pc' = [pc EXCEPT ![r] = "ready"]

\* Fault: the answer to a logout is shaped like a token pair.
AnswerAlways(r) ==
    /\ pc[r] = "ready"
    /\ known' \in {known, known \cup {new[r]}}
    /\ pc' = [pc EXCEPT ![r] = "answered"]
    /\ UNCHANGED <<token, line, op, old, new, failures>>

\* The response is on its way, or lost: the client gets the new token.
Answer(r) ==
    /\ pc[r] = "ready"
    /\ known' \in {known, known \cup ({new[r]} \ {NoJti})}
    /\ pc' = [pc EXCEPT ![r] = "answered"]
    /\ UNCHANGED <<token, line, op, old, new, failures>>

Release(r) ==
    /\ pc' = [pc EXCEPT ![r] = "idle"]
    /\ old' = [old EXCEPT ![r] = NoJti]
    /\ new' = [new EXCEPT ![r] = NoJti]
    /\ UNCHANGED op

\* Fault: the route commits the new row and forgets the revocation.
CommitUnrevoked(r) ==
    /\ pc[r] = "answered"
    /\ token' = [j \in Jtis |-> IF j = new[r] THEN "live"
                                ELSE IF j = old[r] /\ op[r] = "logout" THEN "revoked"
                                ELSE token[j]]
    /\ line' = [j \in Jtis |-> IF j = new[r]
                               THEN (IF op[r] = "login" THEN j ELSE line[old[r]])
                               ELSE line[j]]
    /\ Release(r)
    /\ UNCHANGED <<known, failures>>

\* The session bracket commits.
Commit(r) ==
    /\ pc[r] = "answered"
    /\ token' = [j \in Jtis |-> IF j = new[r] THEN "live"
                                ELSE IF j = old[r] THEN "revoked"
                                ELSE token[j]]
    /\ line' = [j \in Jtis |-> IF j = new[r]
                               THEN (IF op[r] = "login" THEN j ELSE line[old[r]])
                               ELSE line[j]]
    /\ Release(r)
    /\ UNCHANGED <<known, failures>>

\* The transaction is rolled back: the user is gone (401), the connection is
\* lost, the process dies, the commit fails after the answer.
Rollback(r) ==
    /\ pc[r] # "idle"
    /\ failures < MaxFailures
    /\ failures' = failures + 1
    /\ Release(r)
    /\ UNCHANGED <<token, line, known>>

Next ==
    \E r \in Requests :
       \/ LoginIssue(r)
       \/ RefreshRevoke(r) \/ RefreshIssue(r)
       \/ LogoutRevoke(r)
       \/ Answer(r) \/ Commit(r) \/ Rollback(r)

Spec == Init /\ [][Next]_vars
-----------------------------------------------------------------------------
\* No two transactions hold the row of the same token: the second waits for the
\* first to end and finds nothing to revoke (repos/refresh_tokens.py revoke).
OneRevoker == \A q, r \in Requests : old[q] = old[r] /\ old[q] # NoJti => q = r

\* The transactions of the three endpoints keep the promise of Rotation.
Registry == INSTANCE Rotation
RotationKept == Registry!RSpec

\* Its consequences for the committed rows: at most one token of a login is live
\* (routes/auth.py refresh), and a login that has ended stays ended (logout).
OneLivePerLogin == Registry!OneLivePerLogin
EndIsFinal == Registry!EndIsFinal
=============================================================================

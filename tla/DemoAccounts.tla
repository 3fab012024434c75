---------------------------- MODULE DemoAccounts ----------------------------
\* create_demo_accounts.py: the passwords it resolves, the sweep of the
\* accounts under the old domain, the reset, the refusal to downgrade, and
\* create-or-rotate. Beside it an administrator leaves rows in the audit log.
EXTENDS Naturals, FiniteSets

CONSTANTS
  Clients,     \* the demo accounts with a subscription
  Admin,       \* the demo account of the administrator
  Passwords,   \* what the environment variables may hold
  MaxResets    \* bound on the resets of a behaviour

ASSUME AccountsAssumption ==
  /\ Admin \notin Clients
  /\ {"default", "none", "unset"} \cap Passwords = {}
  /\ MaxResets \in Nat

Accounts == Clients \cup {Admin}

VARIABLES
  cred,        \* the password a users row verifies, "none" when there is no row
  uid,         \* rows ever created for the account: the identity of its row
  subscribed,  \* the row has its subscription and scope
  legacy       \* a row under the old domain: none, one, or one the log names

accountVars == <<cred, uid, subscribed, legacy>>

Exists(a) == cred[a] # "none"

AccountsInit ==
  /\ cred = [a \in Accounts |-> "none"]
  /\ uid = [a \in Accounts |-> 0]
  /\ subscribed = {}
  /\ legacy \in {"absent", "plain", "audited"}

----------------------------------------------------------------------------
\* A run's arguments: the environment and the two flags.
Runs == [env : [Accounts -> Passwords \cup {"unset"}],
         devDefaults : BOOLEAN, reset : BOOLEAN]

FromDefault(r) == {a \in Accounts : r.env[a] = "unset"}
Missing(r) == IF r.devDefaults THEN {} ELSE FromDefault(r)
Resolved(r, a) == IF r.env[a] = "unset" THEN "default" ELSE r.env[a]

\* What the rest of the transaction finds after the reset, if there is one.
Found(r, a) == IF r.reset THEN "none" ELSE cred[a]

\* Fault: no account is protected.
NoGuard(r) == {}

\* Fault: the check reads over a connection of its own, which still sees the
\* rows that the reset has removed.
DowngradedStale(r) == {a \in FromDefault(r) : cred[a] \notin {"none", "default"}}

\* _downgrade_candidates: a real password that the dev default would replace.
Downgraded(r) ==
  {a \in FromDefault(r) : Found(r, a) \notin {"none", "default"}}

\* The legacy sweep deletes users without the log's rows that name them, and
\* outside replica mode: ON DELETE RESTRICT ends the transaction.
SweepFails == legacy = "audited"

\* "failed": nothing is written. "refused": the block returns, so what ran
\* before it - the sweep, the reset - is committed. "ok": all accounts.
RunOutcome(r) ==
  IF Missing(r) # {} \/ SweepFails THEN "failed"
  ELSE IF Downgraded(r) # {} THEN "refused" ELSE "ok"

\* _create_or_rotate: the row verifies the resolved password afterwards.
CreateOrRotate(r, a) == Resolved(r, a)

RunAccounts(r) ==
  LET made == {a \in Accounts : Found(r, a) = "none"}
      outcome == RunOutcome(r)
  IN  /\ legacy' = IF outcome = "failed" THEN legacy ELSE "absent"
      /\ cred' = [a \in Accounts |->
           CASE outcome = "failed" -> cred[a]
             [] outcome = "refused" -> Found(r, a)
             [] outcome = "ok" -> CreateOrRotate(r, a)]
      /\ uid' = [a \in Accounts |->
           IF outcome = "ok" /\ a \in made THEN uid[a] + 1 ELSE uid[a]]
      /\ subscribed' =
           CASE outcome = "failed" -> subscribed
             [] outcome = "refused" -> subscribed \ made
             [] outcome = "ok" -> (subscribed \ made) \cup (made \cap Clients)

\* An admin's request about the client under the old domain is logged. (The
\* rows of the log that name demo accounts fall with the reset.)
AuditLegacy ==
  /\ legacy = "plain"
  /\ legacy' = "audited"
  /\ UNCHANGED <<cred, uid, subscribed>>
=============================================================================

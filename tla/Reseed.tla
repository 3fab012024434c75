------------------------------- MODULE Reseed -------------------------------
\* scripts/reseed_corpus.py: the wipe, the two scripts it runs one after the
\* other, and its last look at the counts; the operator may also run the two
\* scripts by hand. One operator at a time (the jobs run with parallelism 1);
\* the worker and the API never stop.
EXTENDS Seeding, DemoAccounts

CONSTANTS
  MaxUsers,    \* --max-existing-users
  OtherUsers   \* users that are not demo accounts

VARIABLE
  wipes        \* wipes begun, for the bound

vars == <<corpusVars, accountVars, wipes>>

Users == Cardinality({a \in Accounts : Exists(a)}) + OtherUsers
         + (IF legacy = "absent" THEN 0 ELSE 1)

Init ==
  /\ CorpusInit
  /\ AccountsInit
  /\ wipes = 0

\* --max-existing-users: a database with more users is not a staging database.
LooksLikeStaging == Users <= MaxUsers

\* Pre-flight: the environment holds the three passwords, the database is
\* small enough, and --yes is given (the dry run writes nothing).
StartReseed ==
  /\ script.pc = "idle"
  /\ wipes < MaxWipes
  /\ IF LooksLikeStaging
     THEN /\ \E r \in {x \in Runs : x.reset /\ ~x.devDefaults /\ Missing(x) = {}} :
               script' = Started("reseed", "wipe", r)
          /\ wipes' = wipes + 1
     ELSE script' = Failed("refused") /\ UNCHANGED wipes
  /\ UNCHANGED <<gen, row, schedule, versions, worker, accountVars>>

\* --reset of the demo accounts, with the environment of the reseed.
ReseedAccounts ==
  /\ script.pc = "accounts"
  /\ RunAccounts(script.args)
  /\ script' = IF RunOutcome(script.args) = "ok" THEN [script EXCEPT !.pc = "check"]
               ELSE Failed("failed")
  /\ UNCHANGED <<gen, row, schedule, versions, worker, wipes>>

\* The rows of change_events: a staged pair's, and those of a worker's poll,
\* whose first version adds every clause.
HasEvents == \E v \in versions : v.by = "worker" \/ (v.by = "staged" /\ v.no = 2)
HasClauses == \E v \in versions : v.by # "empty"

Check ==
  /\ script.pc = "check"
  /\ script' = IF /\ \E d \in Docs : row[d] # 0
                  /\ HasClauses /\ HasEvents /\ Users >= 3
               THEN Succeeded ELSE Failed("thin")
  /\ UNCHANGED <<gen, row, schedule, versions, worker, accountVars, wipes>>

\* The operator runs create_demo_accounts.py by hand.
RunByHand ==
  /\ script.pc = "idle"
  /\ \E r \in Runs :
       /\ r.reset => \A a \in Accounts : uid[a] <= MaxResets
       /\ RunAccounts(r)
       /\ script' = IF RunOutcome(r) = "ok"
                    THEN [Started("accounts", "idle", r) EXCEPT !.result = "ok"]
                    ELSE Failed(RunOutcome(r))
  /\ UNCHANGED <<gen, row, schedule, versions, worker, wipes>>

CorpusStep == CorpusNext /\ UNCHANGED <<accountVars, wipes>>
ApiStep == AuditLegacy /\ UNCHANGED <<corpusVars, wipes>>

Next == CorpusStep \/ ApiStep \/ StartReseed \/ ReseedAccounts \/ Check \/ RunByHand

ScriptStep ==
  \/ (\E c \in Curations : SeedDocuments(c)) /\ UNCHANGED <<accountVars, wipes>>
  \/ /\ PairFind \/ PairInsert \/ PairPark \/ WipeVersions \/ WipeDocuments
     /\ UNCHANGED <<accountVars, wipes>>
  \/ ReseedAccounts \/ Check

WorkerStep ==
  /\ WorkerInsert \/ WorkerNothingNew \/ WorkerCommit \/ Deadlock
  /\ UNCHANGED <<accountVars, wipes>>

\* A running script goes on, and gets a row lock it waits for (PostgreSQL
\* serves the waiters of a row in turn); a poll ends.
Spec == Init /\ [][Next]_vars /\ SF_vars(ScriptStep) /\ WF_vars(WorkerStep)

----------------------------------------------------------------------------
\* A script that reports success leaves the database it promises. A reseed or
\* a seed with the pairs: every pair holds its staged versions, or what the
\* worker polled first. A reseed or a run for the accounts: each has the
\* password of the environment, and each client its subscription. (The counts
\* that the reseed looks at itself are far weaker.)
OkMeansReady ==
  script.result = "ok" =>
    /\ script.job \in {"reseed", "seed+pairs"} =>
         \A d \in Paired : row[d] # 0 =>
           \/ Cardinality(VersionsOf(d, row[d])) >= 2
           \/ \E v \in VersionsOf(d, row[d]) : v.by = "worker"
    /\ script.job \in {"reseed", "accounts"} =>
         /\ \A a \in Accounts : cred[a] = Resolved(script.args, a)
         /\ subscribed = Clients

\* Without --reset no run replaces a real password by the dev default that
\* anyone can read in the source (_downgrade_candidates).
NoDowngrade ==
  [][\A a \in Accounts :
       cred[a] \in Passwords /\ cred'[a] = "default" => script'.args.reset]_vars

\* A run that does not succeed changes no account: the check of all accounts
\* comes before the first rotation, and missing variables before any write.
RefusalIsWhole ==
  [][script'.result \in {"failed", "refused"} => UNCHANGED <<cred, uid, subscribed>>]_vars

\* Every script ends, whatever the worker holds.
ScriptEnds == script.pc # "idle" ~> script.pc = "idle"
=============================================================================

------------------------------ MODULE Seeding ------------------------------
\* The corpus scripts beside the worker that keeps polling: the curated set
\* (select, stagger), run_seed in one transaction, one transaction for each
\* staged v1/v2 pair, the wipe, and the poll of the worker as far as it meets
\* them in the database (row lock of the claim, unique version numbers).
EXTENDS Integers, Sequences, FiniteSets

CONSTANTS
  Fixtures,   \* fixtures.json: a sequence of [id, iso, text]
  V2Files,    \* the ids of the synthetic v2 files, in the order of their names
  Curations,  \* the curated_set.yaml files an operator may run with
  E2EDoc,     \* the document of the browser tests' fixtures
  MaxWipes,   \* bound on the wipes of a behaviour
  MaxVersions \* bound on the versions the worker adds to a document

\* A fixture's text is what its v1 file gives the parser.
Texts == {"none", "bad", "empty", "clauses"}

ASSUME FixturesAssumption ==
  /\ Fixtures \in Seq([id : STRING, iso : STRING, text : Texts])
  /\ \A i, j \in DOMAIN Fixtures : Fixtures[i].id = Fixtures[j].id => i = j
  /\ V2Files \in Seq(STRING)
  /\ E2EDoc \in STRING /\ \A i \in DOMAIN Fixtures : Fixtures[i].id # E2EDoc
  /\ MaxWipes \in Nat /\ MaxVersions \in Nat

Fixed == {Fixtures[i].id : i \in DOMAIN Fixtures}
Docs == Fixed \cup {E2EDoc}

VARIABLES
  gen,        \* documents ever inserted under an id: makes row ids distinct
  row,        \* the generation of the documents row, 0 when there is none
  schedule,   \* next_poll_at of the row, as the worker sees it
  versions,   \* committed rows of document_versions
  worker,     \* the poll of the worker: what it holds and has inserted
  script      \* the script that runs: its place, the pairs to do, its outcome

corpusVars == <<gen, row, schedule, versions, worker, script>>

----------------------------------------------------------------------------
\* The curated set.

Distinct(s) == {s[i] : i \in DOMAIN s}

\* parse_curated_set: a schema error refuses the whole file.
Valid(c) ==
  /\ ~c.unknownKey
  /\ c.jurisdictions # {}
  /\ c.sectors # <<>>
  /\ c.cadence > 0
  /\ \A o \in Distinct(c.documents) :
       /\ o.sector \in Distinct(c.sectors) \cup {"default"}
       /\ o.cadence >= 0          \* 0: the entry has no cadence of its own

\* The entry that counts for an id is the last one.
Override(c, d) ==
  LET is == {i \in DOMAIN c.documents : c.documents[i].id = d}
  IN  {c.documents[i] : i \in {j \in is : \A k \in is : k <= j}}

Cadence(c, d) ==
  IF \E o \in Override(c, d) : o.cadence > 0
  THEN (CHOOSE o \in Override(c, d) : TRUE).cadence
  ELSE c.cadence

\* The fixtures of the countries, in their order.
Select(c) ==
  [i \in {k \in DOMAIN Fixtures : Fixtures[k].iso \in c.jurisdictions} |->
      [id |-> Fixtures[i].id, text |-> Fixtures[i].text, cadence |-> Cadence(c, Fixtures[i].id)]]

\* Rows that share a cadence are spread evenly over it.
Bucket(rows, i) == {j \in DOMAIN rows : rows[j].cadence = rows[i].cadence}
Place(rows, i) == Cardinality({j \in Bucket(rows, i) : j < i})
Offset(rows, i) ==
  (rows[i].cadence * Place(rows, i)) \div Cardinality(Bucket(rows, i))
FirstPoll(rows, i) == IF Offset(rows, i) = 0 THEN "due" ELSE "later"

----------------------------------------------------------------------------
\* The database.

VersionsOf(d, g) == {v \in versions : v.doc = d /\ v.gen = g}
Has(d) == VersionsOf(d, row[d]) # {}

Version(d, g, n, by) == [doc |-> d, gen |-> g, no |-> n, by |-> by]

NoPoll == [pc |-> "idle", doc |-> E2EDoc]
Locked(d) == worker.pc # "idle" /\ worker.doc = d

Outcomes == {"none", "ok", "failed", "refused", "thin"}
NoScript == [pc |-> "idle", job |-> "none", args |-> <<>>, todo |-> <<>>,
             doomed |-> {}, result |-> "none"]
Started(job, pc, args) ==
  [NoScript EXCEPT !.job = job, !.pc = pc, !.args = args]
Failed(result) == [NoScript EXCEPT !.result = result]
Succeeded == [script EXCEPT !.pc = "idle", !.todo = <<>>, !.result = "ok"]

CorpusInit ==
  /\ gen = [d \in Docs |-> 0]
  /\ row = [d \in Docs |-> 0]
  /\ schedule = [d \in Docs |-> "none"]
  /\ versions = {}
  /\ worker = NoPoll
  /\ script = NoScript

----------------------------------------------------------------------------
\* run_seed: one transaction. A document that is there already keeps its row,
\* its schedule and its lack of versions.

\* Fault: the schedule of a document that exists is written again.
NewScheduleOverwrite(rows, i) == TRUE

\* INSERT ... ON CONFLICT DO NOTHING on document_poll_schedule.
NewSchedule(rows, i) == schedule[rows[i].id] = "none"

\* Fault: the documents of the pairs are staged with their v1 alone.
ReserveNone(d) == FALSE

\* skip_v1_for: stage_synthetic_v2 would skip a document that has versions.
Reserved(d) == d \in Distinct(V2Files)

RunSeed(c) ==
  LET rows == Select(c)
      fresh == {i \in DOMAIN rows : row[rows[i].id] = 0}
      staged == {i \in fresh : /\ ~Reserved(rows[i].id)
                               /\ rows[i].text \in {"empty", "clauses"}}
      parked == {i \in staged : rows[i].text = "clauses"}
      At(d) == CHOOSE i \in DOMAIN rows : rows[i].id = d
      Ids(is) == {rows[i].id : i \in is}
  IN  /\ gen' = [d \in Docs |-> IF d \in Ids(fresh) THEN gen[d] + 1 ELSE gen[d]]
      /\ row' = [d \in Docs |-> IF d \in Ids(fresh) THEN gen'[d] ELSE row[d]]
      /\ schedule' = [d \in Docs |->
           IF d \in Ids(parked) THEN "parked"
           ELSE IF d \in Ids(DOMAIN rows) /\ NewSchedule(rows, At(d))
           THEN FirstPoll(rows, At(d)) ELSE schedule[d]]
      /\ versions' = versions \cup
           {Version(rows[i].id, gen'[rows[i].id], 1,
                    IF i \in parked THEN "staged" ELSE "empty") : i \in staged}

\* Only the v2 files with a v1 beside them make a pair.
TextOf(d) == IF d \in Fixed
             THEN Fixtures[CHOOSE i \in DOMAIN Fixtures : Fixtures[i].id = d].text
             ELSE "none"
Paired == {d \in Distinct(V2Files) : TextOf(d) # "none"}

\* The operator starts seed_curated_set.py by hand, with or without the pairs.
StartSeed(stage) ==
  /\ script.pc = "idle"
  /\ script' = Started(IF stage THEN "seed+pairs" ELSE "seed", "seed", <<>>)
  /\ UNCHANGED <<gen, row, schedule, versions, worker>>

\* Where a script goes when its last pair is done.
AfterSeed == IF script.job = "reseed"
             THEN [script EXCEPT !.pc = "accounts", !.todo = <<>>]
             ELSE Succeeded

SeedDocuments(c) ==
  /\ script.pc = "seed"
  /\ UNCHANGED worker
  /\ \/ /\ ~Valid(c)
        /\ script' = Failed("failed")
        /\ UNCHANGED <<gen, row, schedule, versions>>
     \/ /\ Valid(c)
        /\ RunSeed(c)
        /\ script' = IF script.job = "seed" \/ V2Files = <<>>
                     THEN AfterSeed
                     ELSE [script EXCEPT !.pc = "pairs", !.todo = V2Files]

----------------------------------------------------------------------------
\* stage_synthetic_v2: one transaction for each pair.

\* Fault: a pair that was skipped is tried until it is staged.
NextPairRetried == IF script.pc = "pairs" THEN script
                   ELSE IF Len(script.todo) = 1 THEN AfterSeed
                   ELSE [script EXCEPT !.pc = "pairs", !.todo = Tail(script.todo)]

NextPair == IF Len(script.todo) = 1
            THEN AfterSeed
            ELSE [script EXCEPT !.pc = "pairs", !.todo = Tail(script.todo)]

PairFind ==
  LET d == Head(script.todo)
  IN  /\ script.pc = "pairs"
      /\ script' = IF d \notin Paired \/ row[d] = 0 \/ Has(d) THEN NextPair
                   ELSE IF TextOf(d) = "bad" THEN Failed("failed")
                   ELSE [script EXCEPT !.pc = "found"]
      /\ UNCHANGED <<gen, row, schedule, versions, worker>>

\* The insert of v1 waits for an uncommitted version of the same number, and
\* fails on UNIQUE (document_id, version_no) once that one is committed.
PairInsert ==
  LET d == Head(script.todo)
  IN  /\ script.pc = "found"
      /\ ~(worker.pc = "inserted" /\ worker.doc = d)
      /\ script' = IF Has(d) THEN Failed("failed")
                   ELSE [script EXCEPT !.pc = "staging"]
      /\ UNCHANGED <<gen, row, schedule, versions, worker>>

\* UPDATE ... SET next_poll_at: no row, no effect.
ParkRow(d) == [schedule EXCEPT ![d] = IF @ = "none" THEN @ ELSE "parked"]

\* The park waits for the worker's lock on the schedule row; then COMMIT.
PairPark ==
  LET d == Head(script.todo)
  IN  /\ script.pc = "staging"
      /\ ~Locked(d)
      /\ versions' = versions \cup {Version(d, row[d], 1, "staged"),
                                    Version(d, row[d], 2, "staged")}
      /\ schedule' = ParkRow(d)
      /\ script' = NextPair
      /\ UNCHANGED <<gen, row, worker>>

----------------------------------------------------------------------------
\* The wipe of reseed_corpus.py: one transaction under replica mode, in which
\* no foreign key is checked. The deletes of the version rows see what is
\* committed when they run; the delete of the schedule rows waits for a lock.

WipeVersions ==
  /\ script.pc = "wipe"
  /\ script' = [script EXCEPT !.pc = "wiping", !.doomed = versions]
  /\ UNCHANGED <<gen, row, schedule, versions, worker>>

WipeDocuments ==
  /\ script.pc = "wiping"
  /\ worker.pc = "idle"
  /\ versions' = versions \ script.doomed
  /\ row' = [d \in Docs |-> 0]
  /\ schedule' = [d \in Docs |-> "none"]
  /\ script' = [script EXCEPT !.pc = "seed", !.doomed = {}]
  /\ UNCHANGED <<gen, worker>>

\* The script's process dies: what it has not committed is gone.
ScriptDies ==
  /\ script.pc # "idle"
  /\ script' = Failed("failed")
  /\ UNCHANGED <<gen, row, schedule, versions, worker>>

----------------------------------------------------------------------------
\* The worker, one poll at a time.

\* FOR UPDATE SKIP LOCKED of a row that is due.
Claim(d) ==
  /\ worker.pc = "idle"
  /\ schedule[d] = "due"
  /\ worker' = [pc |-> "claimed", doc |-> d]
  /\ UNCHANGED <<gen, row, schedule, versions, script>>

\* The insert of the next version waits for the script's uncommitted v1, and
\* the update of the previous version for the script's uncommitted delete.
WorkerWaits ==
  /\ worker.pc = "claimed"
  /\ \/ script.pc = "staging" /\ Head(script.todo) = worker.doc
     \/ script.pc = "wiping" /\ VersionsOf(worker.doc, row[worker.doc])
                                  \cap script.doomed # {}

WorkerInsert ==
  /\ worker.pc = "claimed"
  /\ ~WorkerWaits
  /\ Cardinality(VersionsOf(worker.doc, row[worker.doc])) < MaxVersions
  /\ worker' = [worker EXCEPT !.pc = "inserted"]
  /\ UNCHANGED <<gen, row, schedule, versions, script>>

\* The text is the one stored, or the fetch failed: only the schedule moves.
WorkerNothingNew ==
  /\ worker.pc = "claimed"
  /\ schedule' = [schedule EXCEPT ![worker.doc] = "later"]
  /\ worker' = NoPoll
  /\ UNCHANGED <<gen, row, versions, script>>

WorkerCommit ==
  LET d == worker.doc
  IN  /\ worker.pc = "inserted"
      /\ versions' = versions \cup {Version(d, row[d], Cardinality(VersionsOf(d, row[d])) + 1, "worker")}
      /\ schedule' = [schedule EXCEPT ![d] = "later"]
      /\ worker' = NoPoll
      /\ UNCHANGED <<gen, row, script>>

WorkerRollsBack ==
  /\ worker.pc # "idle"
  /\ worker' = NoPoll
  /\ UNCHANGED <<gen, row, schedule, versions, script>>

\* PostgreSQL ends a deadlock by aborting one of the two.
Deadlock ==
  /\ WorkerWaits
  /\ \/ /\ worker' = NoPoll /\ UNCHANGED script
     \/ /\ script' = Failed("failed") /\ UNCHANGED worker
  /\ UNCHANGED <<gen, row, schedule, versions>>

\* The cadence passes. The day the parked rows wait for does not come.
CadencePasses(d) ==
  /\ schedule[d] = "later"
  /\ schedule' = [schedule EXCEPT ![d] = "due"]
  /\ ~Locked(d)
  /\ UNCHANGED <<gen, row, versions, worker, script>>

----------------------------------------------------------------------------
\* seed_e2e.py: the fixtures of the browser tests come and go with rows of
\* their own; version_no is NULL (one element stands for both versions) and
\* nothing schedules them.

E2EVersions(g) == {Version(E2EDoc, g, 0, "e2e")}

E2ETeardown ==
  /\ script.pc = "idle"
  /\ versions' = versions \ VersionsOf(E2EDoc, row[E2EDoc])
  /\ row' = [row EXCEPT ![E2EDoc] = 0]
  /\ UNCHANGED <<gen, schedule, worker, script>>

E2ESeed ==
  /\ script.pc = "idle"
  /\ row[E2EDoc] = 0
  /\ gen[E2EDoc] < MaxWipes
  /\ gen' = [gen EXCEPT ![E2EDoc] = @ + 1]
  /\ row' = [row EXCEPT ![E2EDoc] = gen'[E2EDoc]]
  /\ versions' = versions \cup E2EVersions(gen'[E2EDoc])
  /\ UNCHANGED <<schedule, worker, script>>

----------------------------------------------------------------------------
CorpusNext ==
  \/ \E stage \in BOOLEAN : StartSeed(stage)
  \/ \E c \in Curations : SeedDocuments(c)
  \/ PairFind \/ PairInsert \/ PairPark
  \/ WipeVersions \/ WipeDocuments \/ ScriptDies
  \/ \E d \in Docs : Claim(d) \/ CadencePasses(d)
  \/ WorkerInsert \/ WorkerNothingNew \/ WorkerCommit \/ WorkerRollsBack
  \/ Deadlock \/ E2ETeardown \/ E2ESeed

----------------------------------------------------------------------------
\* What a script has staged stays as it was staged: no poll of the worker
\* follows a staged version, and every staged document waits, parked, for a
\* day the worker does not reach - through re-runs, wipes, deaths and
\* deadlocks (_PARK_SCHEDULE_SQL, ON CONFLICT DO NOTHING).
StagedStays ==
  \A v \in versions : v.by = "staged" =>
    /\ \A w \in VersionsOf(v.doc, v.gen) : w.by = "staged"
    /\ v.gen = row[v.doc] => schedule[v.doc] = "parked"
=============================================================================

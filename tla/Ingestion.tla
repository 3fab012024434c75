------------------------------ MODULE Ingestion ------------------------------
(***************************************************************************)
(* The ingestion worker: ClaimLoop (loop.py), poll_document (poll.py), the *)
(* blob store (blob/*.py), SweepLoop (sweep.py) and the process that runs  *)
(* both loops (__main__.py), over the rows of document_poll_schedule,      *)
(* document_versions and ingestion_incident (migrations 0003 and 0007).    *)
(*                                                                         *)
(* A tick is ONE database transaction for the whole batch, held open       *)
(* across every upstream fetch and blob upload of the batch.  What the     *)
(* transaction has written is private (pending, polled, failed, parking,   *)
(* draft) until Commit publishes it.  The blob store is not transactional: *)
(* an upload is visible at once and survives a rollback.                   *)
(***************************************************************************)
EXTENDS Integers, FiniteSets

CONSTANTS
    Docs,               \* documents with a document_poll_schedule row
    Contents,           \* markdown bodies; a body IS its sha256 and its blob key
    Unwritable,         \* bodies of which PostgreSQL refuses a clause or an event
    Siblings,           \* blobs in the container whose key is not <sha256>.md
    Absent,             \* get_markdown returned None
    NoDoc,              \* no document is being polled
    Workers,            \* ingestion processes, each one ClaimLoop and one SweepLoop
    Sweepers,           \* those whose sweep interval runs out while we watch
    BatchSize,          \* ClaimLoopConfig.batch_size
    FailureThreshold,   \* ClaimLoopConfig.failure_threshold
    MaxChanges,         \* bound: upstream publications
    MaxDisruptions      \* bound: crashes, signals, lost connections, failed sweeps

ASSUME ConstantsAssumption ==
    /\ BatchSize \in Nat \ {0}
    /\ FailureThreshold \in Nat
    /\ MaxChanges \in Nat
    /\ MaxDisruptions \in Nat
    /\ Unwritable \subseteq Contents
    /\ Absent \notin Contents
    /\ NoDoc \notin Docs
    /\ Siblings \cap Contents = {}
    /\ Sweepers \subseteq Workers
    /\ IsFiniteSet(Docs)

VARIABLES
    due,        \* rows with next_poll_at <= now()
    ahead,      \* <<d, e>>: d's next_poll_at comes before e's, both due
    failures,   \* document_poll_schedule.failure_count
    incidents,  \* number of 'parked' rows in ingestion_incident
    versions,   \* document_versions: the rows of each document
    blobs,      \* the blob container
    upstream,   \* what Lawstronaut serves for each document
    pc,         \* where each claim loop stands
    pending,    \* claimed rows the tick has still to poll
    polled,     \* rows this transaction marked OK
    failed,     \* rows this transaction marked failed
    parking,    \* rows this transaction wrote an incident for
    draft,      \* versions of the claimed documents as this transaction sees them
    cur,        \* the document being polled between two awaits
    body,       \* its fetched content
    sweepPc,    \* where each sweep loop stands
    keys,       \* the referenced keys the pass read at its start
    listed,     \* blob keys the pass has listed and not yet handled
    raced,      \* history: blobs a pass deleted while a poll or a version relied on them
    shutdown,   \* the shutdown event of the process
    changes,    \* upstream publications so far
    disruptions \* crashes, signals, lost connections and failed sweeps so far

schedVars == <<due, ahead, failures, incidents>>
txVars    == <<pending, polled, failed, parking, draft, cur, body>>
sweepVars == <<sweepPc, keys, listed, raced>>
envVars   == <<upstream, changes, disruptions>>
vars == <<due, ahead, failures, incidents, versions, blobs, upstream, pc,
          pending, polled, failed, parking, draft, cur, body,
          sweepPc, keys, listed, raced, shutdown, changes, disruptions>>

Version == [no : Nat \ {0}, content : Contents, open : BOOLEAN]

TypeOK ==
    /\ due \subseteq Docs
    /\ ahead \subseteq Docs \X Docs
    /\ failures \in [Docs -> Nat]
    /\ incidents \in [Docs -> Nat]
    /\ versions \in [Docs -> SUBSET Version]
    /\ blobs \subseteq Contents \cup Siblings
    /\ upstream \in [Docs -> Contents \cup {Absent}]
    /\ pc \in [Workers -> {"idle", "polling", "storing", "writing", "aborted", "stopped"}]
    /\ pending \in [Workers -> SUBSET Docs]
    /\ polled \in [Workers -> SUBSET Docs]
    /\ failed \in [Workers -> SUBSET Docs]
    /\ parking \in [Workers -> SUBSET Docs]
    /\ draft \in [Workers -> [Docs -> SUBSET Version]]
    /\ cur \in [Workers -> Docs \cup {NoDoc}]
    /\ body \in [Workers -> Contents \cup {Absent}]
    /\ sweepPc \in [Workers -> {"idle", "keyed", "deleting", "stopped"}]
    /\ keys \in [Workers -> SUBSET Contents]
    /\ listed \in [Workers -> SUBSET (Contents \cup Siblings)]
    /\ raced \subseteq Contents
    /\ shutdown \in [Workers -> BOOLEAN]
    /\ changes \in 0 .. MaxChanges
    /\ disruptions \in 0 .. MaxDisruptions

NoVersions == [d \in Docs |-> {}]

Init ==
    /\ due = {} /\ ahead = {}
    /\ failures = [d \in Docs |-> 0]
    /\ incidents = [d \in Docs |-> 0]
    /\ versions = NoVersions
    /\ blobs = Siblings
    /\ upstream \in [Docs -> Contents]
    /\ pc = [w \in Workers |-> "idle"]
    /\ pending = [w \in Workers |-> {}]
    /\ polled = [w \in Workers |-> {}]
    /\ failed = [w \in Workers |-> {}]
    /\ parking = [w \in Workers |-> {}]
    /\ draft = [w \in Workers |-> NoVersions]
    /\ cur = [w \in Workers |-> NoDoc]
    /\ body = [w \in Workers |-> Absent]
    /\ sweepPc = [w \in Workers |-> "idle"]
    /\ keys = [w \in Workers |-> {}]
    /\ listed = [w \in Workers |-> {}]
    /\ raced = {}
    /\ shutdown = [w \in Workers |-> FALSE]
    /\ changes = 0 /\ disruptions = 0

-----------------------------------------------------------------------------
\* The world outside the worker.

\* now() passes the row's next_poll_at: it is due, behind every row already due.
BecomeDue(d) ==
    /\ d \notin due
    /\ due' = due \cup {d}
    /\ ahead' = ahead \cup (due \X {d})
    /\ UNCHANGED <<failures, incidents, versions, blobs, pc, shutdown>>
    /\ UNCHANGED <<txVars, sweepVars, envVars>>

\* Lawstronaut publishes another text for the document, or withdraws it.
Publish(d) ==
    /\ changes < MaxChanges
    /\ changes' = changes + 1
    /\ \E c \in (Contents \cup {Absent}) \ {upstream[d]} :
          upstream' = [upstream EXCEPT ![d] = c]
    /\ UNCHANGED <<schedVars, versions, blobs, pc, shutdown, disruptions>>
    /\ UNCHANGED <<txVars, sweepVars>>

-----------------------------------------------------------------------------
\* ClaimLoop.tick.

\* The schedule rows whose lock the transaction of w holds.
Claimed(w) == pending[w] \cup polled[w] \cup failed[w]
              \cup (IF cur[w] = NoDoc THEN {} ELSE {cur[w]})
Locked == UNION {Claimed(w) : w \in Workers}

Parked(d) == failures[d] > FailureThreshold

\* Fault: the rows are read without FOR UPDATE SKIP LOCKED.
ClaimableUnlocked == {d \in due : ~Parked(d)}

\* Fault: the claim forgets failure_count <= $1.
ClaimableParked == due \ Locked

\* CLAIM_SQL: due, not parked, not locked (SKIP LOCKED).
Claimable == {d \in due \ Locked : ~Parked(d)}

\* Fault: the claim has no ORDER BY.
IsBatchUnordered(S) ==
    /\ S # {}
    /\ Cardinality(S) <= BatchSize
    /\ S # Claimable => Cardinality(S) = BatchSize

\* ORDER BY next_poll_at LIMIT batch_size.
IsBatch(S) ==
    /\ S # {}
    /\ Cardinality(S) <= BatchSize
    /\ S # Claimable => Cardinality(S) = BatchSize
    /\ \A d \in S, e \in Claimable \ S : <<d, e>> \in ahead

Claim(w) ==
    /\ pc[w] = "idle" /\ ~shutdown[w]
    /\ \E S \in SUBSET Claimable :
          /\ IsBatch(S)
          /\ pending' = [pending EXCEPT ![w] = S]
          /\ draft' = [draft EXCEPT ![w] = [d \in Docs |-> IF d \in S THEN versions[d] ELSE {}]]
    /\ pc' = [pc EXCEPT ![w] = "polling"]
    /\ UNCHANGED <<schedVars, versions, blobs, polled, failed, parking, cur, body, shutdown>>
    /\ UNCHANGED <<sweepVars, envVars>>

\* Rows are polled in the order of the claim.
IsNext(w, d) ==
    /\ d \in pending[w]
    /\ \A e \in pending[w] \ {d} : <<d, e>> \in ahead

\* MARK_OK_SQL, inside the transaction.
MarkOk(w, d) ==
    /\ polled' = [polled EXCEPT ![w] = @ \cup {d}]
    /\ UNCHANGED <<failed, parking>>

\* Fault: >= for > in the threshold test.
MarkFailedEarly(w, d) ==
    /\ failed' = [failed EXCEPT ![w] = @ \cup {d}]
    /\ parking' = IF failures[d] + 1 >= FailureThreshold
                  THEN [parking EXCEPT ![w] = @ \cup {d}] ELSE parking
    /\ UNCHANGED polled

\* _record_failure: MARK_FAIL_SQL and, past the threshold, INSERT_INCIDENT_SQL.
MarkFailed(w, d) ==
    /\ failed' = [failed EXCEPT ![w] = @ \cup {d}]
    /\ parking' = IF failures[d] + 1 > FailureThreshold
                  THEN [parking EXCEPT ![w] = @ \cup {d}] ELSE parking
    /\ UNCHANGED polled

-----------------------------------------------------------------------------
\* poll_document.

\* LIVE_VERSION_SQL: the highest-numbered row whose valid_to IS NULL.
IsLive(rows, r) ==
    /\ r \in rows /\ r.open
    /\ \A q \in rows : q.open => q.no <= r.no
HasLive(rows) == \E r \in rows : r.open

Closed(r) == [r EXCEPT !.open = FALSE]

\* get_markdown returned None: poll_document returns, the tick marks the row OK.
FetchNothing(w) ==
    /\ pc[w] = "polling"
    /\ \E d \in Docs :
          /\ IsNext(w, d)
          /\ upstream[d] = Absent
          /\ pending' = [pending EXCEPT ![w] = @ \ {d}]
          /\ MarkOk(w, d)
    /\ UNCHANGED <<schedVars, versions, blobs, pc, draft, cur, body, shutdown>>
    /\ UNCHANGED <<sweepVars, envVars>>

\* Same hash as the live version: EXTEND_VALID_TO_SQL stamps its valid_to.
FetchUnchanged(w) ==
    /\ pc[w] = "polling"
    /\ \E d \in Docs :
          /\ IsNext(w, d)
          /\ \E r \in draft[w][d] :
                /\ IsLive(draft[w][d], r)
                /\ r.content = upstream[d]
                /\ draft' = [draft EXCEPT ![w][d] = (@ \ {r}) \cup {Closed(r)}]
          /\ pending' = [pending EXCEPT ![w] = @ \ {d}]
          /\ MarkOk(w, d)
    /\ UNCHANGED <<schedVars, versions, blobs, pc, cur, body, shutdown>>
    /\ UNCHANGED <<sweepVars, envVars>>

\* Fault: the hash is not compared.
FetchChangedAlways(w) ==
    /\ pc[w] = "polling"
    /\ \E d \in Docs :
          /\ IsNext(w, d)
          /\ upstream[d] # Absent
          /\ pending' = [pending EXCEPT ![w] = @ \ {d}]
          /\ cur' = [cur EXCEPT ![w] = d]
          /\ body' = [body EXCEPT ![w] = upstream[d]]
    /\ pc' = [pc EXCEPT ![w] = "storing"]
    /\ UNCHANGED <<schedVars, versions, blobs, polled, failed, parking, draft, shutdown>>
    /\ UNCHANGED <<sweepVars, envVars>>

\* A body that is not the live version's: go on to the upload.
FetchChanged(w) ==
    /\ pc[w] = "polling"
    /\ \E d \in Docs :
          /\ IsNext(w, d)
          /\ upstream[d] # Absent
          /\ \A r \in draft[w][d] : IsLive(draft[w][d], r) => r.content # upstream[d]
          /\ pending' = [pending EXCEPT ![w] = @ \ {d}]
          /\ cur' = [cur EXCEPT ![w] = d]
          /\ body' = [body EXCEPT ![w] = upstream[d]]
    /\ pc' = [pc EXCEPT ![w] = "storing"]
    /\ UNCHANGED <<schedVars, versions, blobs, polled, failed, parking, draft, shutdown>>
    /\ UNCHANGED <<sweepVars, envVars>>

\* The client raised: the tick records the failure and goes on with the batch.
FetchFails(w) ==
    /\ pc[w] = "polling"
    /\ \E d \in Docs :
          /\ IsNext(w, d)
          /\ pending' = [pending EXCEPT ![w] = @ \ {d}]
          /\ MarkFailed(w, d)
    /\ UNCHANGED <<schedVars, versions, blobs, pc, draft, cur, body, shutdown>>
    /\ UNCHANGED <<sweepVars, envVars>>

\* blob_store.put: idempotent, outside the transaction.
PutBlob(w) ==
    /\ pc[w] = "storing"
    /\ blobs' = blobs \cup {body[w]}
    /\ raced' = raced \ {body[w]}
    /\ pc' = [pc EXCEPT ![w] = "writing"]
    /\ UNCHANGED <<schedVars, versions, shutdown, sweepPc, keys, listed>>
    /\ UNCHANGED <<txVars, envVars>>

\* Fault: an error of the upload is suppressed.
PutFailsIgnored(w) ==
    /\ pc[w] = "storing"
    /\ pc' = [pc EXCEPT ![w] = "writing"]
    /\ UNCHANGED <<schedVars, versions, blobs, shutdown>>
    /\ UNCHANGED <<txVars, sweepVars, envVars>>

\* put raised; the upload may have taken place before the answer was lost.
PutFails(w) ==
    /\ pc[w] = "storing"
    /\ \/ UNCHANGED <<blobs, raced>>
       \/ blobs' = blobs \cup {body[w]} /\ raced' = raced \ {body[w]}
    /\ MarkFailed(w, cur[w])
    /\ cur' = [cur EXCEPT ![w] = NoDoc]
    /\ body' = [body EXCEPT ![w] = Absent]
    /\ pc' = [pc EXCEPT ![w] = "polling"]
    /\ UNCHANGED <<schedVars, versions, pending, draft, shutdown, sweepPc, keys, listed>>
    /\ UNCHANGED envVars

\* parse or align raised before any row was written.
AlignFails(w) ==
    /\ pc[w] = "writing"
    /\ MarkFailed(w, cur[w])
    /\ cur' = [cur EXCEPT ![w] = NoDoc]
    /\ body' = [body EXCEPT ![w] = Absent]
    /\ pc' = [pc EXCEPT ![w] = "polling"]
    /\ UNCHANGED <<schedVars, versions, blobs, pending, draft, shutdown>>
    /\ UNCHANGED <<sweepVars, envVars>>

\* version_no of the row about to be inserted: the live row's plus one, or 1.
NewNo(rows) ==
    IF HasLive(rows) THEN {r.no + 1 : r \in {q \in rows : IsLive(rows, q)}} ELSE {1}

\* UNIQUE (document_id, version_no) and UNIQUE (document_id, version_label).
Taken(rows, n) == \E r \in rows : r.no = n

\* Fault: CLOSE_PREV_VERSION_SQL is not sent.
SupersededUnclosed(rows, n, c) == rows \cup {[no |-> n, content |-> c, open |-> TRUE]}

\* The rows after INSERT_VERSION_SQL and CLOSE_PREV_VERSION_SQL.
Superseded(rows, n, c) ==
    {IF IsLive(rows, r) THEN Closed(r) ELSE r : r \in rows}
       \cup {[no |-> n, content |-> c, open |-> TRUE]}

WriteVersion(w) ==
    /\ pc[w] = "writing" /\ body[w] \notin Unwritable
    /\ \E n \in NewNo(draft[w][cur[w]]) :
          /\ ~Taken(draft[w][cur[w]], n)
          /\ draft' = [draft EXCEPT ![w][cur[w]] = Superseded(@, n, body[w])]
    /\ MarkOk(w, cur[w])
    /\ cur' = [cur EXCEPT ![w] = NoDoc]
    /\ body' = [body EXCEPT ![w] = Absent]
    /\ pc' = [pc EXCEPT ![w] = "polling"]
    /\ UNCHANGED <<schedVars, versions, blobs, pending, shutdown>>
    /\ UNCHANGED <<sweepVars, envVars>>

\* A statement is refused.  The transaction is now in error, and so is the
\* MARK_FAIL_SQL that _record_failure sends next.
Aborts(w) ==
    /\ pc' = [pc EXCEPT ![w] = "aborted"]
    /\ UNCHANGED <<schedVars, versions, blobs, shutdown>>
    /\ UNCHANGED <<txVars, sweepVars, envVars>>

\* INSERT_VERSION_SQL violates a UNIQUE constraint.
WriteConflicts(w) ==
    /\ pc[w] = "writing"
    /\ \E n \in NewNo(draft[w][cur[w]]) : Taken(draft[w][cur[w]], n)
    /\ Aborts(w)

\* INSERT_CLAUSE_SQL or INSERT_CHANGE_EVENT_SQL is refused, after the version row:
\* two clause paths are one when joined, or the text holds what the column cannot.
WriteRefused(w) ==
    /\ pc[w] = "writing" /\ body[w] \in Unwritable
    /\ \E n \in NewNo(draft[w][cur[w]]) : ~Taken(draft[w][cur[w]], n)
    /\ Aborts(w)

-----------------------------------------------------------------------------
\* The end of a tick, and of a process.

\* The transaction of w is over: its locks and its private rows are gone.
Release(w) ==
    /\ pending' = [pending EXCEPT ![w] = {}]
    /\ polled' = [polled EXCEPT ![w] = {}]
    /\ failed' = [failed EXCEPT ![w] = {}]
    /\ parking' = [parking EXCEPT ![w] = {}]
    /\ draft' = [draft EXCEPT ![w] = NoVersions]
    /\ cur' = [cur EXCEPT ![w] = NoDoc]
    /\ body' = [body EXCEPT ![w] = Absent]

\* COMMIT.  A polled row's next_poll_at moves past now(); a failed row stays due
\* at the place it had.
Commit(w) ==
    /\ pc[w] = "polling" /\ pending[w] = {}
    /\ due' = due \ polled[w]
    /\ ahead' = {p \in ahead : p[1] \notin polled[w] /\ p[2] \notin polled[w]}
    /\ failures' = [d \in Docs |-> IF d \in polled[w] THEN 0
                                   ELSE IF d \in failed[w] THEN failures[d] + 1
                                   ELSE failures[d]]
    /\ incidents' = [d \in Docs |-> IF d \in parking[w] THEN incidents[d] + 1
                                    ELSE incidents[d]]
    /\ versions' = [d \in Docs |-> IF d \in polled[w] \cup failed[w] THEN draft[w][d]
                                   ELSE versions[d]]
    /\ Release(w)
    /\ pc' = [pc EXCEPT ![w] = "idle"]
    /\ UNCHANGED <<blobs, shutdown, sweepVars, envVars>>

\* tx.rollback() and re-raise: run logs the error and ticks again.
Rollback(w) ==
    /\ pc[w] = "aborted"
    /\ Release(w)
    /\ pc' = [pc EXCEPT ![w] = "idle"]
    /\ UNCHANGED <<schedVars, versions, blobs, shutdown, sweepVars, envVars>>

Disrupt ==
    /\ disruptions < MaxDisruptions
    /\ disruptions' = disruptions + 1

\* The database connection of an open tick is lost: rolled back, loop goes on.
ConnectionLost(w) ==
    /\ Disrupt
    /\ pc[w] \in {"polling", "storing", "writing", "aborted"}
    /\ Release(w)
    /\ pc' = [pc EXCEPT ![w] = "idle"]
    /\ UNCHANGED <<schedVars, versions, blobs, shutdown, sweepVars, upstream, changes>>

\* SIGTERM or SIGINT: the handler sets the event, nothing else.
Signal(w) ==
    /\ Disrupt
    /\ ~shutdown[w]
    /\ shutdown' = [shutdown EXCEPT ![w] = TRUE]
    /\ UNCHANGED <<schedVars, versions, blobs, pc, txVars, sweepVars, upstream, changes>>

\* ClaimLoop.run leaves its loop between two ticks.
StopClaiming(w) ==
    /\ shutdown[w] /\ pc[w] = "idle"
    /\ pc' = [pc EXCEPT ![w] = "stopped"]
    /\ UNCHANGED <<schedVars, versions, blobs, shutdown, txVars, sweepVars, envVars>>

\* SweepLoop.run leaves its loop between two passes.
StopSweeping(w) ==
    /\ shutdown[w] /\ sweepPc[w] = "idle"
    /\ sweepPc' = [sweepPc EXCEPT ![w] = "stopped"]
    /\ UNCHANGED <<schedVars, versions, blobs, pc, shutdown, txVars, keys, listed, raced, envVars>>

\* The process is killed between any two steps.
Crash(w) ==
    /\ Disrupt
    /\ Release(w)
    /\ pc' = [pc EXCEPT ![w] = "stopped"]
    /\ sweepPc' = [sweepPc EXCEPT ![w] = "stopped"]
    /\ keys' = [keys EXCEPT ![w] = {}]
    /\ listed' = [listed EXCEPT ![w] = {}]
    /\ UNCHANGED <<schedVars, versions, blobs, shutdown, raced, upstream, changes>>

\* Both loops have returned (or died): the container is started again.
Start(w) ==
    /\ pc[w] = "stopped" /\ sweepPc[w] = "stopped"
    /\ pc' = [pc EXCEPT ![w] = "idle"]
    /\ sweepPc' = [sweepPc EXCEPT ![w] = "idle"]
    /\ shutdown' = [shutdown EXCEPT ![w] = FALSE]
    /\ UNCHANGED <<schedVars, versions, blobs, txVars, keys, listed, raced, envVars>>

-----------------------------------------------------------------------------
\* SweepLoop.sweep_once.

ReferencedBy(rows) == {r.content : r \in rows}
Referenced == UNION {ReferencedBy(versions[d]) : d \in Docs}

\* Fault: only live versions count as references.
SweepReadKeysLive(w) ==
    /\ w \in Sweepers
    /\ sweepPc[w] = "idle" /\ ~shutdown[w]
    /\ keys' = [keys EXCEPT ![w] =
                  UNION {ReferencedBy({r \in versions[d] : r.open}) : d \in Docs}]
    /\ sweepPc' = [sweepPc EXCEPT ![w] = "keyed"]
    /\ UNCHANGED <<schedVars, versions, blobs, pc, shutdown, txVars, listed, raced, envVars>>

\* Fault: SweepLoop.run does not look at the event between two passes.
SweepReadKeysForever(w) ==
    /\ w \in Sweepers
    /\ sweepPc[w] = "idle"
    /\ keys' = [keys EXCEPT ![w] = Referenced]
    /\ sweepPc' = [sweepPc EXCEPT ![w] = "keyed"]
    /\ UNCHANGED <<schedVars, versions, blobs, pc, shutdown, txVars, listed, raced, envVars>>

\* SWEEP_VERSION_KEYS_SQL, committed rows only, on a connection of its own.
SweepReadKeys(w) ==
    /\ w \in Sweepers
    /\ sweepPc[w] = "idle" /\ ~shutdown[w]
    /\ keys' = [keys EXCEPT ![w] = Referenced]
    /\ sweepPc' = [sweepPc EXCEPT ![w] = "keyed"]
    /\ UNCHANGED <<schedVars, versions, blobs, pc, shutdown, txVars, listed, raced, envVars>>

\* iter_keys: one page of the container.
SweepList(w) ==
    /\ sweepPc[w] = "keyed"
    /\ listed' = [listed EXCEPT ![w] = blobs]
    /\ sweepPc' = [sweepPc EXCEPT ![w] = "deleting"]
    /\ UNCHANGED <<schedVars, versions, blobs, pc, shutdown, txVars, keys, raced, envVars>>

\* The blobs something relies on: a version, committed or drafted, or a poll that
\* has uploaded and is about to write one.
Relied == {c \in Contents :
             \/ \E d \in Docs : c \in ReferencedBy(versions[d])
             \/ \E w \in Workers, d \in Docs : c \in ReferencedBy(draft[w][d])
             \/ \E w \in Workers : pc[w] = "writing" /\ c = body[w]}

\* One delete; deleting a missing blob is no error.  Keys that are referenced
\* or not <sha256>.md are skipped (_is_content_addressed_key).
SweepDelete(w) ==
    /\ sweepPc[w] = "deleting"
    /\ \E c \in listed[w] \ (keys[w] \cup Siblings) :
          /\ blobs' = blobs \ {c}
          /\ listed' = [listed EXCEPT ![w] = @ \ {c}]
          /\ raced' = raced \cup ({c} \cap Relied)
    /\ UNCHANGED <<schedVars, versions, pc, shutdown, txVars, sweepPc, keys, envVars>>

\* Fault: the pass returns before it has handled every listed key.
SweepDoneEarly(w) ==
    /\ sweepPc[w] = "deleting"
    /\ sweepPc' = [sweepPc EXCEPT ![w] = "idle"]
    /\ keys' = [keys EXCEPT ![w] = {}]
    /\ listed' = [listed EXCEPT ![w] = {}]
    /\ UNCHANGED <<schedVars, versions, blobs, pc, shutdown, txVars, raced, envVars>>

\* Every listed key has been handled.
SweepDone(w) ==
    /\ sweepPc[w] = "deleting"
    /\ listed[w] \subseteq keys[w] \cup Siblings
    /\ sweepPc' = [sweepPc EXCEPT ![w] = "idle"]
    /\ keys' = [keys EXCEPT ![w] = {}]
    /\ listed' = [listed EXCEPT ![w] = {}]
    /\ UNCHANGED <<schedVars, versions, blobs, pc, shutdown, txVars, raced, envVars>>

\* The pass raised (database or blob store): logged, tried again later.
SweepFails(w) ==
    /\ Disrupt
    /\ sweepPc[w] \in {"keyed", "deleting"}
    /\ sweepPc' = [sweepPc EXCEPT ![w] = "idle"]
    /\ keys' = [keys EXCEPT ![w] = {}]
    /\ listed' = [listed EXCEPT ![w] = {}]
    /\ UNCHANGED <<schedVars, versions, blobs, pc, shutdown, txVars, raced, upstream, changes>>

-----------------------------------------------------------------------------
\* The steps of an open tick.
TickStep(w) ==
    \/ FetchNothing(w) \/ FetchUnchanged(w) \/ FetchChanged(w) \/ FetchFails(w)
    \/ PutBlob(w) \/ PutFails(w)
    \/ AlignFails(w) \/ WriteVersion(w) \/ WriteConflicts(w) \/ WriteRefused(w)
    \/ Commit(w) \/ Rollback(w)

\* The steps of a sweep pass.
SweepStep(w) ==
    SweepReadKeys(w) \/ SweepList(w) \/ SweepDelete(w) \/ SweepDone(w)

Next ==
    \/ \E d \in Docs : BecomeDue(d) \/ Publish(d)
    \/ \E w \in Workers :
          \/ Claim(w) \/ TickStep(w) \/ ConnectionLost(w)
          \/ SweepStep(w) \/ SweepFails(w)
          \/ Signal(w) \/ StopClaiming(w) \/ StopSweeping(w)
          \/ Crash(w) \/ Start(w)

Spec == Init /\ [][Next]_vars

\* Both loops run until shutdown, every await returns or raises, and the
\* container platform restarts a process that has ended.
Fairness ==
    \A w \in Workers :
       /\ WF_vars(Claim(w)) /\ WF_vars(TickStep(w)) /\ WF_vars(SweepStep(w))
       /\ WF_vars(StopClaiming(w)) /\ WF_vars(StopSweeping(w)) /\ WF_vars(Start(w))

FairSpec == Spec /\ Fairness
-----------------------------------------------------------------------------
\* Properties.

\* FOR UPDATE SKIP LOCKED: no two transactions ever hold the same schedule row
\* (loop.py CLAIM_SQL, RFC-4 "keeps multiple worker replicas safe").
LockExclusion == \A v, w \in Workers : v # w => Claimed(v) \cap Claimed(w) = {}

\* The rows of one document form a history: numbered without gap or repetition,
\* at most the last one live, and no version repeating its predecessor's text.
IsHistory(rows) ==
    /\ \A q, r \in rows : q.no = r.no => q = r
    /\ \A r \in rows : r.no = 1 \/ \E q \in rows : r.no = q.no + 1
    /\ \A q, r \in rows : r.open => q.no <= r.no
    /\ \A q, r \in rows : r.no = q.no + 1 => q.content # r.content

\* Whatever is polled, lost, retried or rolled back, what poll.py has committed
\* for a document is a history.
HistoryKept == \A d \in Docs : IsHistory(versions[d])

\* The kill switch (loop.py _record_failure): an incident is written exactly
\* once for a row, by the failure that takes it past the threshold.
IncidentIffParked ==
    \A d \in Docs :
       /\ failures[d] <= FailureThreshold + 1
       /\ incidents[d] = IF Parked(d) THEN 1 ELSE 0

\* A parked row is out of every later tick: no claim, retry or late commit of
\* another replica touches the row, its incidents or its versions again.
ParkedIsFrozen ==
    [][\A d \in Docs : Parked(d) =>
          /\ failures'[d] = failures[d]
          /\ incidents'[d] = incidents[d]
          /\ versions'[d] = versions[d]]_vars

Sweeping(w) == sweepPc[w] \in {"keyed", "deleting"}

\* A version is committed, its blob is there, and no sweep pass is under way.
Settled(c) == c \in Referenced \cap blobs /\ \A w \in Workers : ~Sweeping(w)

\* From then on no pass ever deletes the blob (sweep.py sweep_once), whatever
\* polls, passes, crashes and restarts follow.
SettledBlobKept == \A c \in Contents : [](Settled(c) => [](c \in blobs))

\* poll.py uploads before it inserts: a committed version lacks its blob only
\* where a sweep pass deleted it in the race of sweep_once, whose keys were read
\* before the version was committed, with the upload before the listing.
BlobsPresent == Referenced \subseteq blobs \cup raced

\* No pass deletes a blob that is relied on. The race of sweep_once refutes it.
NothingRaced == raced = {}

\* A document whose poll aborts every tick it is part of: an unchanged poll has
\* closed its only live row, and its next poll inserts version 1 again and
\* conflicts; or a statement of its text is refused.
Stuck(d) ==
    \/ versions[d] # {} /\ ~HasLive(versions[d])
    \/ upstream[d] \in Unwritable

\* A due row is polled or parked in the end, failing neighbours, crashes and
\* LIMIT notwithstanding, unless some document is stuck (loop.py).
ServedUnlessStuck ==
    \A d \in Docs : d \in due ~> (d \notin due \/ Parked(d) \/ \E e \in Docs : Stuck(e))

\* The sweep reclaims every orphan of a failed run (sweep.py), unless a retry
\* of the poll comes first and refers to it.
OrphanReclaimed ==
    \A c \in Contents : (c \in blobs \ Referenced) ~> (c \notin blobs \/ c \in Referenced)

\* SIGTERM drains both loops (__main__.py, ADR-0001): the process ends.
Drains ==
    \A w \in Workers : shutdown[w] ~> (pc[w] = "stopped" /\ sweepPc[w] = "stopped")

\* poll.md, Version label: the UNIQUE constraint "can never fire spuriously".
ConstraintNeverFires == \A w \in Workers : pc[w] # "aborted"

\* The rows of a document as the sequence of its texts.
HistoryOf(rows) == [n \in {r.no : r \in rows} |-> (CHOOSE r \in rows : r.no = n).content]

\* The worker implements the promise of VersionHistory: what its batches publish
\* is what that specification allows, one committed batch a step.
Promise == INSTANCE VersionHistory
              WITH history <- [d \in Docs |-> HistoryOf(versions[d])],
                   parked  <- {d \in Docs : Parked(d)}

PromiseKept == Promise!HSpec
=============================================================================

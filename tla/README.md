# Horizons, in TLA+

Horizons watches legal documents that an upstream service (Lawstronaut)
publishes, keeps every version of them clause by clause, aligns each version
with its predecessor, and serves the resulting change events to subscribed
clients through an HTTP API and a browser application. This directory holds
TLA+ models of that program, the TLC configurations that check them on small
instances and the theorems TLAPS checks for all instances. `PROJECT.json` says,
definition by definition, which source lines each one stands for.

Paths below: ING = `packages/horizons-ingestion/src/horizons_ingestion`,
CORE = `packages/horizons-core/src/horizons_core`,
MIG = `packages/horizons-core/migrations/versions`,
API = `packages/horizons-api/src/horizons_api`,
WEB = `packages/horizons-webapp/src`.

## 1. Inventory

| Part | State it keeps | Operations | Hard behaviour | What makes it correct |
| --- | --- | --- | --- | --- |
| **Ingestion worker** ING `loop.py`, `poll.py`, `sweep.py`, `__main__.py` | `document_poll_schedule`, `document_versions`, `ingestion_incident`, the blob container, the open transaction, the shutdown event | claim, poll, upload, insert version, mark ok / failed, park, commit, sweep, signal, restart | replicas racing for rows; one transaction held over many awaits; a store that is not transactional; crash between any two steps; a sweep reading stale keys | rows locked exclusively; append-only histories; parked once and for good; a version's blob lost only to the sweep's race; due rows served; orphans reclaimed |
| **Clause parser** CORE `core/alignment/parser.py` | stack of open clauses, pending heading, segment counters | consume heading / paragraph / leaf | a pending heading that outlives its clause; duplicate sibling segments | paths of a tree distinct |
| **Alignment and clause identity** CORE `core/alignment/align.py`, `similarity.py`, ING `poll.py` 228-447 | stored clauses of the previous version, uid by path | heading match, monotonic match, events, uid inheritance, row building | greedy then DP matching; equal titles and texts; identity carried along a chain of versions | pairs one to one; the content pass optimal; the events replay the change, an unchanged clause has none unless its path does not survive the table; a paired clause keeps its uid |
| **Change feed** CORE `repos/change_events.py`, API `routes/primitives.py` | `change_events` (append-only), the client's cursor | page with keyset cursor, filters | commits between two pages; `detected_at` is the transaction's start, not its commit | a walk returns every event that was there when it began exactly once, newest first |
| **Auth** API `routes/auth.py`, `deps/*.py`, CORE `core/auth`, `repos/refresh_tokens.py` | `refresh_tokens`, the cookie, signed tokens in clients' hands | login, refresh (rotate), logout | two refreshes with one token; lost answers; commit after the answer is sent | a refresh token is honoured once; logout is final |
| **Browser session** WEB `stores/auth.ts`, `api/client.ts`, `router/index.ts`, `bootstrap.ts` | access token, kind, principal, support-view snapshot, the refresh in flight | request, 401 interceptor, single-flight refresh, enter / exit support view, logout | every `await` a window for another callback; late answers; several tabs on one cookie | kind, token and banner agree; one refresh at a time; no return from logout |
| **Admin audit and impersonation** CORE `core/auth/admin.py`, API `admin/*.py`, `deps/admin*.py` | `admin_access_log` | operator and impersonation brackets, mint | the audit row and the work are two transactions, on two connections of one pool | no administrator's read without its row; every request answered |
| **Entitlements** API `routes/admin_subscriptions.py`, `routes/watchlists.py`, CORE `repos/subscriptions.py`, `repos/watchlists.py`, MIG `0004`, `0009`, `0011` | `subscriptions`, `subscription_scopes`, `watchlists` | create, add scope, end scope, hide and add watchlists | concurrent PATCHes; a PATCH racing a watchlist INSERT; re-adding an ended scope | an active watchlist is in an active scope |
| **Sessions and RLS** CORE `db/session.py`, MIG `0005`, `0013`, `0014` | pooled connections, `app.user_id`, role | bracket, bind, SET LOCAL ROLE, DISCARD ALL | each statement sees another moment; the pool runs dry | a client reads its own scope only |
| **Corpus read routes** API `routes/documents.py`, `routes/me.py`, `routes/primitives.py`, CORE `repos/*.py` | none | list, get, clauses, overview, the three feeds | a handler's statements with commits in between | an answer is whole and in scope |
| **Lawstronaut client** CORE `core/lawstronaut/client.py` | bearer, its expiry, refresh lock | login, request with retries | retries inside retries; a bearer that ages or is revoked on the way | a request's bearer lasts until its answer begins; the waiting for answers is bounded |
| **Seeding** ING `seed.py`, `scripts/*.py` | the corpus tables, the schedule | seed, stagger, stage a synthetic version, wipe, reseed | failing half-way and running again; the worker polling a staged document; deadlock with it | staged rows stay, out of the loop; success means what it says; every script ends |
| **Demo accounts** `packages/horizons-api/scripts/create_demo_accounts.py` | three accounts, their passwords and scopes | reset, create, rotate, legacy sweep | refusing after part of the work | a refusal changes nothing; no real password replaced by a default |
| **Health** ING `health.py`, CORE `observability/health.py` | last tick time | touch, probe, SIGTERM, SIGKILL | a long tick looks like a hang, and a kill undoes it | a silent loop is replaced; due rows are served all the same, if a tick fits and the database takes its statements |

How they interact: the worker calls the Lawstronaut client, the parser and the
alignment inside its transaction and writes the tables the API reads under
row-level security; the API issues tokens to the browser session and to
programmatic clients; the webapp calls the API with a bearer in memory and a
refresh cookie; admins change entitlements, which decide what the feed shows.

Left out, with the reason in `PROJECT.json`: logging, tracing and
configuration, views and components, infrastructure and pipelines.

## 2. Plan

Done, and described in sections 3 to 5:

1. `VersionHistory`, `Ingestion`, `MCIngestion`, `IngestionProofs` - the worker.
2. `Rotation`, `Auth`, `MCAuth`, `AuthProofs` - the refresh-token endpoints.
3. `WebSession`, `MCWebSession`, `WebSessionProofs` - a tab of the browser beside
   another, composed with `Rotation`, the abstraction `Auth` implements.
4. `ChangeFeed`, `MCChangeFeed`, `ChangeFeedProofs` - a client paging through change
   events while the worker commits.
5. `Entitlements`, `MCEntitlements`, `EntitlementsProofs` - PATCH of subscriptions and
   watchlists as interleaved transactions.
6. `ClauseParser`, `Alignment`, `MCAlignment`, `WorkerProofs` - from the blocks of a document
   to the clause rows and change events of its versions.
7. `Seeding`, `DemoAccounts`, `Reseed`, `MCReseed`, `ReseedProofs` - the scripts that
   fill the database, beside the worker.
8. `Access`, `MCAccess`, `AccessProofs` - sessions, row level security, audit and the
   routes that read.
9. `Lawstronaut`, `WorkerLiveness`, `MCWorkerLiveness`, `WorkerProofs` - the upstream client,
   the claim loop and the probe that watches it, in time.

Every safety property of the runs that is expected to hold is a theorem (section 5).
Modules with theorems hold no RECURSIVE operator; parameters are CONSTANTS with
named assumptions.

## 3. The modules

### 3.1 The ingestion worker: `Ingestion`, `VersionHistory`

One process is a `ClaimLoop` and a `SweepLoop` under one `asyncio.gather`;
replicas share the database and the blob container. A worker is an element of
`Workers`; the code from one `await` to the next is one action.

| Code | Model |
| --- | --- |
| `document_poll_schedule` | `due` (rows whose `next_poll_at` has passed), `ahead` (their order), `failures` |
| `ingestion_incident` | `incidents`, a count for each document |
| `document_versions` | `versions[d]`, a set of rows `[no, content, open]`; `open` is `valid_to IS NULL`. A text stands for its hash and its blob key |
| blob container | `blobs`; `Siblings` are blobs not named `<sha256>.md` |
| the open transaction of a tick | `pending`, `polled`, `failed`, `parking`, `draft`: private until `Commit` |
| row locks | `Claimed(w)`, `Locked` |
| position in `tick`, `poll_document` | `pc`, `cur`, `body` |
| position in `sweep_once` | `sweepPc`, `keys`, `listed` |
| (history) blobs a pass deleted while something relied on them | `raced` |
| the shutdown event | `shutdown` |

`Claim` is `CLAIM_SQL`: due, not parked, not locked (`SKIP LOCKED`), ordered by
`next_poll_at`, limited. The batch is then polled in claim order: `FetchNothing`,
`FetchUnchanged` and `FetchChanged` are the three returns of the fetch,
`FetchFails` the `except Exception` around the poll. A changed text goes through
`PutBlob` (visible at once, survives a rollback; `PutFails` may have uploaded and
lost the answer), then `AlignFails`, `WriteVersion`, `WriteConflicts` or `WriteRefused`.
The last two abort the tick: `WriteConflicts` is an INSERT that violates
`UNIQUE (document_id, version_no)`, `WriteRefused` a clause or an event the database does
not take (`poll.py` 198-215, `Unwritable` texts). The transaction is in error, the
`MARK_FAIL_SQL` of the handler fails as well, and the only step left is `Rollback`; the
next tick that claims the document meets the same. `Commit` publishes everything the tick wrote.
`ConnectionLost`, `Crash`, `Signal` and `SweepFails` spend `disruptions`; `Start`
is the platform starting a container that has ended. The sweep pass is
`SweepReadKeys`, `SweepList`, one `SweepDelete` for each orphan, `SweepDone`.
One page of the container listing stands for all: the pages follow each other with
no re-reading of the keys, which are the stale part. The pass races with the polls, and
a version can lose its blob to it: `raced` records what a pass deleted although a version,
committed or drafted, or a poll past its upload relied on it. `BlobsPresent` says that
nothing else takes a blob from a version.

Two things are the environment's: `BecomeDue` is the clock passing `next_poll_at`
(a polled row leaves `due` at commit and comes back behind the rows that are due;
that the cadence may be shorter than the tick is a `BecomeDue` right after
`Commit`), and `Publish` is Lawstronaut changing or withdrawing a text.

`VersionHistory` is the promise to readers: per document an append-only sequence
in which no text repeats the one before it, final once the document is parked.
`Ingestion` implements it under `history[d] = HistoryOf(versions[d])`,
`parked = {d : Parked(d)}` (`PromiseKept`).

### 3.2 Refresh tokens: `Auth`, `Rotation`

`Rotation` has one atomic step for each endpoint: `Login` starts a line of tokens,
`Exchange` passes it on, `Logout` ends it. `Auth` is the code of
`routes/auth.py`: each request of `Requests` is one transaction, whose statements
interleave with those of the others.

| Code | Model |
| --- | --- |
| `refresh_tokens` rows, committed | `token[j]`: none, live, revoked; `line[j]` is a history variable, the login it descends from |
| tokens some client holds | `known`: a request presents one of them |
| `RefreshTokensRepository.revoke` (UPDATE with `revoked_at IS NULL`) | `Revoke`, and `old[r]`, the row locked until the transaction ends |
| `issue_token`, `record` | `LoginIssue`, `RefreshIssue`, `new[r]` |
| the response | `Answer`: the client may or may not receive it |
| `session.begin()` exit | `Commit`, `Rollback` |

The order of the last two is the code's: the session is a dependency with `yield`,
and the locked FastAPI runs the exit code after the response is sent. So a client
can hold a token whose row is not committed, or never will be when the commit
fails; its next refresh is a 401. (`docs/api/auth.md:222-223` says tokens are
persisted at issuance. The model has the behaviour; no run is spent on it.)
A failed `revoke` is a 401 that changes nothing and is no step.

### 3.3 The browser session: `WebSession`

A tab of an administrator. JavaScript runs one callback at a time, so an action is
the code between two awaits, and every `await` is a point where any other callback
may run. Calls to the auth endpoints have four actions: `Ask`, in the callback
that starts them; `Serve`, the server's statements, after which the answer is on its way; the callback of the
answer; and `Commit` or `CommitFails`, at any time after `Serve`, since the code answers
before it commits (3.2). `open` are the transactions in between: they hold the row they
revoke (`Locked`), and what they insert is not there for a request that
presents it (`Coming`). `Commit` is a step of `Rotation`. Of a request under a
bearer only the arrival of its answer is a step: whether it is a 401 is decided
then (`Refused`), which includes every earlier decision, because an expired
bearer stays expired, except an account removed in between.

| Code | Model |
| --- | --- |
| `accessToken`, its kind, `principal`, `impersonationState` | `bearer`, `kind`, `principal`, `support` |
| `originalAccessToken` of `enterSupportView` | `captured` |
| the cookie | `jar` |
| `inFlightRefresh` | `call["flight"]` |
| the router's cold refresh, a login, a logout | `call["cold"]`, `call["login"]`, `call["logout"]` |
| an open request: its bearer, `_retried` | `slot[s]`: `/v1/me` of the three openers, the mint of a support view, the views' requests `Data` |

`Answer401` is the response interceptor with its three branches, `JoinFlight` is
`singleFlightRefresh`, `Settle` the continuation of whoever waited for the answer
(after the `/v1/me` of the interceptor's refresh, all requests that waited are
sent again with the bearer of that moment), `FlightRejected` is
`onAuthFailure` with the rejection of every waiter. `Load` is F5.

Another tab shares the cookie and nothing else. What this tab can notice of it is its
refresh: `OtherRefreshes` is the server's step, after which the cookie here is worth
nothing, `OtherAnswered` the arrival of the new one, `OtherLost` its loss. The
single-flight of `client.ts` is a variable of one page, so nothing keeps two tabs apart:
calls that cross are refused. What `SessionKept` says is that only crossing does it: a
tab that waits while the other refreshes, or refreshes afterwards, keeps its session.

`ended` and `out` are history variables: `ended` says that a logout was asked for,
that the answer to a granted refresh was lost, that a commit failed after its answer had
left, that a refresh overtook the commit of the token it presents, or that a call of this tab was under way at the
same time as a refresh of the other; it is never reset, so after it
`SessionKept` promises nothing. `out` says that `logout()` has returned and neither
a login nor a page load followed.

Kept small on purpose: one mint at a time (`supportPending` disables
the button); access and impersonation bearers expire in the order they were
minted (both live 15 minutes); jtis are handed out in order, which is sound because
nothing compares them; bearers are minted when the answer arrives.

### 3.4 The change feed: `ChangeFeed`

A client walks through `change_events` with a keyset cursor; between two pages anything
may be committed, and the client's scope may change. Order in the feed is
`(detected_at DESC, id DESC)`. `detected_at` is the start of the writing transaction and
the id comes from a sequence that no rollback gives back, so the order of the feed is
neither that of the commits nor that of the inserts.

| Code | Model |
| --- | --- |
| a row of `change_events` | `[id, at, doc]`, a member of `Event` |
| `change_events_id_seq`, `now()` | `seq`, `clock` |
| committed rows | `events` |
| the open transaction of a worker | `began[w]`, `draft[w]` |
| `current_scope()` of the client, the RLS policy | `granted`, `Visible` |
| the filters of the query | `query`, `Matches` |
| `encode_cursor`, `decode_cursor` | `cursor`, a `Position`: the last row returned |
| `_apply_cursor`, ORDER BY, `LIMIT n + 1`, `_paginate` | `PastCursor`, `Older`, `NextPage`, `LastPage` |

`page` and `shown` are what the walk has returned. `owed` is a history variable: the rows
that were there for the client when the walk began, less those of a scope it has lost
since. One request is one statement, so one step. The limit may change from page to
page; the query of a walk does not (the composable starts a new walk when it changes).

### 3.5 Entitlements: `Entitlements`

One client, its subscriptions and watchlists, administrators who PATCH, and requests of
the client. Every request is one READ COMMITTED transaction; each of its statements is
an action. `now()` is the time its transaction began, which `Begin` draws from
`clock`: a statement sees what is committed when it runs, judged by an older time.

| Code | Model |
| --- | --- |
| `subscription_scopes`, its primary key | `rows[<<s, p>>]`: `NoRow`, `Null`, or the end set by `soft_delete_scopes` |
| `watchlists`, `UNIQUE (user_id, document_id)` | `watch[d]`: none, active, hidden |
| position of a request, its `now()` | `pc`, `now` |
| the body of a PATCH | `toAdd`, `toEnd` |
| what an open transaction has written | `adds`, `ends`, `hides`, `puts`, `drops`; others do not see it, and wait for its locks |
| `active_scope_documents`, `current_scope()` | `ScopeDocuments`, `CurrentScope`: two definitions, as in the code |
| the set handed to `soft_hide_out_of_scope` | `seen` |

A statement that would wait for a lock is not enabled; one the database rejects leaves
`Rollback`. The statement reads at the moment it gets its locks; that Postgres chooses the rows
of an UPDATE before it waits is not modelled, and can only differ for
overlapping requests. `CreateSubscription` is one step: nobody can touch its rows
before it commits.

`crossed` and `tainted` are history variables: a PATCH is crossed when another request
was open at the same time; `tainted` is set by an overlap and cleared by the commit of
a PATCH that was not crossed. `InScopeUnlessCrossed` is as much as the code ensures.
`ActiveInScope`, what the module docstring of `admin_subscriptions.py` says, is false
under overlap, in two ways: two PATCHes that end the same scope of two subscriptions
each see the other's row as active and hide nothing; and a watchlist inserted by a
transaction that began before the PATCH is not there to be hidden.

Also seen while modelling: a scope that was ended cannot be added again (the route
looks at active rows, the primary key at all, so the PATCH fails), though
MIG `0011:29-30` says a hidden watchlist "can be restored by adding the scope back";
and nothing sets `active` back to true.

### 3.6 Parser, alignment and clause identity: `ClauseParser`, `Alignment`

`ClauseParser` is `_TreeBuilder`: one action for each kind of block (`ConsumeHeading`,
`ConsumeMatch`, `ConsumeBold`, `ConsumeProse`, `ConsumeLoose`). `nodes` are the clauses in
the order they are opened, which is the order of `walk()`; `stack` and `pending` are the
builder's. Which block a piece of markdown is (regular expressions, bold spans, the
portal's YAML) is the environment's choice, so every document is considered. A title stands
for its slug, and a segment is a name with the number of its suffix: that a slug may itself
look like another one with a suffix is left out, as the loop of `_disambiguate_segment` compares whole
segments.

`Alignment` is one changed poll after the other on one document, from the text to the rows:

| Code | Model |
| --- | --- |
| `clauses` of each version, `change_events` | `versions[n]`, `events[n]` |
| `"/".join(node.path)`, `path_str.split("/")` | `Stored`: a path as the table gives it back |
| `UNIQUE (document_version_id, clause_path)` | `PathsApart`; `PersistRefused` is the insert that raises |
| `uuid4()` | `<<n, j>>`: the version and the clause it is drawn for |
| `paired_v1`, `paired_v2` of `_pass_heading_match` | `anchored`, one `PairByAnchor` for each iteration of the greedy loop |
| the LSH index | `links`: all pairs of equal signatures, and any others: an index may miss a pair |
| `dp` and its traceback | `Dp`, a recursive function; `TraceBack`, one step of the while loop |
| `_emit_events`, `_build_clause_uid_map`, `_clause_insert_rows` | `EmitEvents`, `UidOf`, `NewRows` in `Persist` |

A similarity is the exact Jaccard index of two sets of shingles, which is what the
MinHash estimates; the estimate's error can only move a pair across the threshold, and
the instances have pairs on both sides of it. `Fetch` draws a new document or the same
one again with other markup (`FetchReformatted`).

The table keeps a path as one string. A slug and a `#n` hold no `/`, and of the patterns only
`ČÁST\s+\S+` (`config.py:58`) lets one into a label, at depth 1 (`SlashAssumption`). `Parts` says
what the split makes of such a label: a clause under it has another path in the next poll
than in the tree it came from. Two things follow, and the model has both: unchanged, it is
reported as moved, or as removed and added with a fresh uid; and when its string is also that
of another clause, the version is refused. `UnchangedIsSilent` confines the first to these very
clauses: the others bring no event and keep their uid. `MCAlignmentSlash`, by hand, shows that the docstring of
`align`, for which an unchanged version is a zero-row operation, is not true of every document.

### 3.7 The scripts: `Seeding`, `DemoAccounts`, `Reseed`

`Seeding` is `seed.py` with its two front ends, beside a worker reduced to what a script
can meet of it: it claims a row (the lock), inserts a version (the unique number) and
commits or rolls back. `RunSeed` is one transaction and one action. A pair is staged in
`PairFind` (the probes, in a transaction of its own), `PairInsert` and `PairPark`, and the
worker may act between any two of them; `Deadlock` is PostgreSQL aborting one of two
transactions that wait for each other; `ScriptDies` may happen anywhere.
`DemoAccounts` is `create_demo_accounts.py`, one transaction, with the three ways it ends:
nothing written; refused after the sweep and the reset, which are committed; all accounts.
`Reseed` composes both: the wipe, the seed, the pairs, the accounts, the last look at the
counts; or any of the scripts by hand. `gen` numbers the rows a document id has had, so that
a version of a wiped document is not one of its successor's.

### 3.8 What a request may read: `Access`

| Code | Model |
| --- | --- |
| `_verify_bearer`, `require_kinds`, `require_admin_principal` | `Authenticated`, `Allowed` in `Arrive` |
| `session_for_request`, `admin_operator_session`, `admin_or_app_session` | `ForRequest`, `AdminOperator`, `AdminOrApp`: the steps before the handler |
| `app.user_id`, `SET LOCAL ROLE`, `now()` of the transaction | `session[r]`, `now[r]` |
| the engine's pool | `Holding`, `Free`, `PoolTimeout` |
| `app_private.current_scope()`, the policies `*_in_scope` | `CurrentScope`, `DocumentsInScope`, `VersionsInScope`, `ClausesInScope` |
| a handler | `Handler`: the sequence of its statements; `got[r]` is what each has returned |
| `admin_access_log` | `audit`; a row is committed before the session it is for opens |
| a support-view token | `minted`, which other requests may present |

A statement sees what is committed when it runs (READ COMMITTED) under the scope as of
the beginning of its transaction. Around the requests the worker publishes versions,
scopes are granted and ended, accounts are reset (`ResetAccount` takes a user's audit rows
along, as `_teardown` does). `since` is a history variable: the pairs a subject has had at
any time since its request arrived.

### 3.9 The worker in time: `Lawstronaut`, `WorkerLiveness`

The one model with lengths. `Lawstronaut` is the client with its one caller: a cached bearer
and the expiry the client remembers (`left`), how long upstream goes on accepting it
(`valid`, which is shorter: the answer of a login arrives some time after the bearer was
issued), and the two envelopes of retries, of which the inner one is the login
(`_ensure_fresh_token` inside the attempt). The timeout of httpx holds for the connection,
a write and every single read (`client.py:81`). So it ends the wait for an answer to begin;
an answer that has begun (`AnswerBegins`) may go on arriving, piece by piece, and no
timeout ends it (`AnswerOpen`). Upstream looks at the bearer before it begins to answer
(`Accepted`).

`WorkerLiveness` adds the tick, whose transaction keeps its
marks to itself until `EndTick`, the health that only a finished tick touches, the tick
that raises and is rolled back with all its marks (`TickRaises`), and the
platform: the liveness probe with its threshold, SIGTERM, which lets the tick finish, and
SIGKILL after the grace, which does not (`NewProcess`: the database rolls the tick back).

`Elapse` is a unit of time. It is not enabled while something that takes no time is
waiting (`MayWait`): a claim, a mark, a commit, a probe that is due, the timeout of a wait.
`GetsStuck` is a poll that never returns: neither the statements nor the blob transfers have
a time limit of the worker's own. A tick raises in two ways. `PollRefused` is a statement of the poll
that the database refuses: the transaction is aborted, the `MARK_FAIL_SQL` of `_record_failure`
fails too, and the next tick that claims the row meets the same; which
documents this befalls (`refused`) is the environment's choice within `Refusable`,
`Ingestion` has the ways it comes about. `ConnectionLost` is what
`ClaimLoop.run` logs and retries. The clock of a step is the longest it may take:
`Timeout` covers the wait for an answer and the pause before the attempt.

## 4. The runs

| Run | Configuration | Bounds | Shows |
| --- | --- | --- | --- |
| `tick` | `MCIngestionTick` | 2 documents, 3 texts of which one is refused, 2 replicas, batches of 2, threshold 1, 2 publications, 1 disruption, no sweep | `LockExclusion`, `HistoryKept`, `IncidentIffParked`, `ParkedIsFrozen`, `PromiseKept` |
| `drain` | `MCIngestionDrain` | 2 documents, 1 text, LIMIT 1, threshold 1, 1 process that sweeps, 2 publications, 2 disruptions, fairness | `BlobsPresent`, `SettledBlobKept`, `ServedUnlessStuck`, `OrphanReclaimed`, `Drains` |
| `conflict` | `MCIngestionConflict` | 1 document, 1 worker | violates `ConstraintNeverFires` |
| `auth` | `MCAuth` | 4 tokens, 3 requests, 2 failures | `OneLivePerLogin`, `RotationKept`, `EndIsFinal` |
| `web` | `MCWebSession` | 6 tokens, 7 bearers, 2 view requests, another tab, 3 events, fairness | `StoreConsistent`, `SessionKept`, `RequestsSettle` |
| `feed` | `MCChangeFeed` | 2 writers, 4 events of 2 documents, 2 times, pages of 1 and 2, a scope lost and gained | `InOrder`, `Complete` |
| `entitlements` | `MCEntitlements` | 2 subscriptions, 2 scopes, 1 document, 2 PATCHes, 1 request of the client, 2 values of `now()` | `InScopeUnlessCrossed`, `NoNeedlessHide`, `EndIsFinal` |
| `restore` | `MCEntitlementsRestore` | the same | violates `HiddenReappears` |
| `alignment` | `MCAlignment` | documents of up to 4 blocks in all, up to 3 versions, 1 title, 2 markers of which one holds a `/`, 2 texts | `PathsUnique`, `DiffReplays`, `UnchangedIsSilent`, `ContentOptimal`, `PairsOneToOne`, `PairKeepsUid` |
| `reseed` | `MCReseed` | 3 fixtures, 2 files of pairs, 3 curated sets, 1 wipe, 2 versions by the worker, 2 accounts, 1 reset, fairness | `StagedStays`, `OkMeansReady`, `NoDowngrade`, `RefusalIsWhole`, `ScriptEnds` |
| `access` | `MCAccess` | 2 requests on a pool of 2, 1 client, 1 administrator, 1 pair, 1 document, 2 values of `now()`, 2 changes around them, fairness | `BypassAudited`, `AnswersInScope`, `AnswersWhole`, `Answered` |
| `worker` | `MCWorkerLiveness` | 2 documents, batches of 2, threshold 0, bearers of 3 units replaced 2 early, a timeout of 1, 2 attempts, a first probe after 3 units and then every 2, a grace of 4, 1 document whose statement may be refused, 1 fault (a revocation, a unit of trickling, a poll that hangs or a lost connection), fairness | `BearerHonoured`, `WaitBounded`, `SilenceBounded`, `Served` |

Why the bounds are enough. Locks and the tick's privacy concern two transactions,
so two replicas; a batch and its neighbour, two documents; a superseding needs two
texts and one publication, a return to the first text a second one; parking needs
threshold + 1 failures, and a threshold of 1 separates "first failure" from "past the
threshold". A third text, of which the database refuses a clause, makes a tick abort for another
reason than a taken number. `BlobsPresent` is checked in `drain`, where a process sweeps. In `drain` the pass of one process overlaps its own polls (passes that
overlap each other are covered by the theorem `SettledBlobsStay`), and LIMIT 1 with a failing first row is the starvation case; a publication withdraws the text
(its blob stays referenced) and one disruption can hit the retry of the poll the
other one hit. One text is enough there, since orphans and draining do not depend on
which text it is. In `auth` three requests are two racing for one token and a
third using the token one of them issued. In `web` an event is a sign-in, a page
load, an entry into support view, an expiry, a lost call, a failed answer, a failed commit, the removal of the account or a refresh of the
other tab; signing
out, leaving support view and every answer are free. Three events give login,
support view and expiry, or login, expiry and a lost answer, or login, the other tab's
refresh and the expiry that makes this one refresh after it. Commits that succeed are free,
so an answer may arrive, and the next refresh leave, before or after them. `MaxBearers` and the
number of jtis are chosen so that liveness is never
blocked by them: a blocked opener would appear as a violation of
`RequestsSettle`. In `feed` four events under two times give a page that ends inside a
batch, with rows to come on both sides of the cursor. In `entitlements` two
subscriptions are what one PATCH must not forget about the other, the second scope
is one that does not cover the document, and two values of `now()` tell an end that is moved from one that is set again to the same.

In `alignment` the texts are one long enough for a shingle and one too short to have any; loose text and
prose join them into bodies that resemble each other below, at and above the threshold. The markers are a part
"I" and a part "I/t", the title is "t": a clause with that title under the first part and the second part itself have
paths that join to one string. Four blocks
give repeated titles, equal texts under different titles, clauses that swap, and three versions give a uid that is
handed on twice. In `reseed` the fixtures are a document with a pair, one with a v1 only and
one whose v1 is empty; the curated sets are a full one, one that leaves a country out, and one the
schema refuses; one account of a client and the administrator's are what a refusal can fall
between. In `access` two requests on two connections are the case in which both
administrators hold one and want another; a token minted by one is presented by the other.
In `worker` a whole tick fits into what the first probes and the grace leave to a process, and
that is what `Served` rests on: two documents, the calls of both with their retries and one unit of
trickling. The deployment does not give this (`MCWorkerOutage` below). A bearer is replaced once a unit has passed, so
also in the middle of a tick. A threshold of 0 parks a document at its first failure: that failures below it are
counted is `Ingestion`'s subject.

Symmetry: documents, texts and replicas in `tick`, tokens and requests in `auth`,
writers in `feed`, PATCHes and subscriptions in `entitlements` and `restore`, where every property is a safety property that does not name an element. The runs
with liveness use none, nor does any web run, where jtis are numbers in order.

Deadlock is checked in `drain` and `worker`, where the worker never stops, in `feed`, where a
client can always start another walk, in `entitlements`, where any request can fail
and be made again, and in `reseed`. It is not
in the others: without sweeps the worker can come to rest when every row is parked
and the publications are spent; in `auth`, `web`, `alignment` and `access` the tokens, events,
blocks and changes of the instance run out.

Fairness. `Ingestion`: weak fairness of `Claim`, of the steps of an open tick, of the
sweep pass, of the loops' exits and of the start. Both loops are `while not
shutdown` with a bounded sleep, and
the platform restarts the container. That a step of a tick or of a pass is taken in the end
is an assumption: the calls upstream time out unless their answer trickles in, but SQL statements and blob
transfers have no time limit of the worker's own, and only the kill ends one that hangs. `ServedUnlessStuck`,
`OrphanReclaimed` and `Drains` are about a worker whose awaits return; `WorkerLiveness` is the
model in which one may not. Signals, crashes, publications and due dates
have none. `TickStep` is one fairness condition: which of its outcomes a poll has
is not assumed, so a fetch may fail for ever, which parks the row.
`WebSession`: each call is served and its callback runs; each request gets an
answer. Nothing the user or the clock does is fair.
`Reseed`: a running script goes on, strongly fair because PostgreSQL serves the waiters
of a row in turn, so that a worker which claims again and again does not keep a script out; a poll ends.
`Access`: each request goes on, with the pool's timeout among its steps.
`WorkerLiveness`: the loop, the answers, the platform and time go on. That a hung poll ends is not
assumed: the kill ends it. What becomes due, hangs, trickles, is lost, refused or revoked has no fairness.
`Served` excuses a database that goes on refusing a statement: then the row, and every row that shares a batch with
it, is neither served nor parked, which is what `conflict` leads to.

What the violations say (`findings` in `PROJECT.json` has the quoted lines):

- `conflict`: an unchanged poll sets `valid_to` on the live row, so the next poll sees
  a never-seen document and inserts version 1 again. The constraint fires at every
  later tick; the finished polls of the same batch are rolled back with it. `poll.md`
  says the constraint can never fire spuriously. (`RFC-4` also says that each poll
  has a transaction of its own, which the code's batch transaction contradicts.)
- `restore`: a watchlist that was hidden stays hidden when its scope comes back.

Other disagreements met while modelling. Each has a property in its module and a
configuration, to be run by hand, that violates it:

- `MCIngestionRace`, `NothingRaced`: a pass reads the keys, a poll uploads and commits, the
  pass lists and deletes the blob of a committed version.
- `MCWebLogout`, `LogoutFinal`: a refresh or a mint under way when `logout()` returns assigns
  its bearer afterwards: the tab is signed in again.
- `MCWebElevation`, `ImpersonationNeverRefreshes`: the interceptor looks at the kind of the
  bearer the store has when the 401 arrives, not at that of the request.
- `MCWebSelfWait`, `RefreshEnds`: the `/v1/me` inside `refresh()` gets a 401 and joins the
  refresh that waits for it.
- `MCAlignmentUids`, `AddedIsFresh`: `poll.md:154` says an unpaired clause gets a fresh
  `uuid4()`; one that sits at a path of the version before takes over the uid there, which
  may be that of a clause that was removed, or of one that moved away and keeps it too.
- `MCAlignmentSlash`, `UnchangedIsZeroRow`: the docstring of `align` calls the re-ingestion of an unchanged
  version a zero-row operation; a clause under a label that holds a `/` is reported as moved.
- `MCWorkerHealthz`, `HealthyWhileRunning`: ADR-0001 (line 85) says `/healthz` returns 200 while the loop
  is running; a tick that takes longer than `healthz_stale_after_s` (5 s) makes it a 503.
- `MCWorkerOutage`, `Served`: with a grace too short for a tick, an upstream that times out
  can make every tick end in SIGKILL. The failures it recorded are rolled back, nothing is ever
  parked, and the same rows are claimed again. In the deployment a tick polls 10 documents one after
  the other, each with timeouts of 30 s and 4 attempts, and the third probe fails 45 s after the
  start; the platform's grace is 30 s unless it is configured.

Also seen while modelling, with no property of its own: the administrator's `/v1/me`
that was under way when support view began overwrites the client-shaped principal
(`stores/auth.ts:58`); a 401 does not drop the cached bearer, and a failed row is due again at once
(`MARK_FAIL_SQL` leaves `next_poll_at` alone), so a bearer revoked before its time
parks whatever is due within a few ticks.

## 5. The theorems

Assumptions: `ConstantsAssumption` (sizes are naturals, `Absent`, `NoDoc` and
`Siblings` are apart from the sets they mark, `Docs` is finite), `AuthAssumption`,
`JtiAssumption`, `WebAssumption`, `FeedAssumption`, `NoCursorAssumption`,
`EntitlementAssumption`, `AccessAssumption`, `FixturesAssumption`, `AccountsAssumption`,
`ParserAssumption`, `AlignAssumption`, `SlashAssumption`, `ClientAssumption` and `ProbeAssumption`. Sets of documents, texts, workers, tokens and
requests are arbitrary, as are all bounds. TLC evaluates the assumptions in the runs.
The inductive invariants of `WorkerProofs` and the parts of `ReadyInv` were also checked by TLC, on
the instances of section 4.

`IngestionProofs`. `TypeCorrect` needs `TickShape`: where a loop stands decides
whether a document is in hand. `LocksExclude` needs `Sorted` besides exclusion: the
sets `pending`, `polled`, `failed` and the document in hand are disjoint within a
worker; else a row could be released in one set and kept in another. `ParkedOnce`
(`ParkInv`): no claimed row is parked, and `parking` holds the failed rows whose count
is at the threshold, by the count at the claim, which the lock keeps. `HistoriesKept` (`HistInv`): the draft of a claimed row extends the
committed history by at most one version, since no other worker can commit that row
meanwhile; the text in hand differs from the live one. `WorkerKeepsPromise` maps `Commit`
to a step of `VersionHistory` and every other action to a stutter;
`ParkedStaysFrozen` follows from the same invariant.
`SettledBlobsStay`: no text ever leaves the committed versions (from the refinement), so
a text that is referenced while no pass runs is in the keys of every later pass
(`Guarded`); two passes at once make no difference. `MissingBlobsRaced`, for any number of
sweeping processes: its invariant adds the drafts and the text about to be written, of which a blob is
missing only if `raced` has it; an upload ends that.

`AuthProofs`. `RequestInv`: what a request holds fits its program counter (`Shape`), a
locked row is live (`Holds`), no row is locked twice (`OneRevoker`) and no new token
issued twice (`OneIssuer`). From it every step maps to `Rotation` (`AuthKeepsRotation`):
`Commit` to the endpoint's atomic step, the rest to a stutter. `OneTokenPerLogin` and
`LogoutIsFinal` are proved of `Rotation`'s steps with `LineInv` (a row has a line
exactly if it exists, a line's login is its own line) and carried over.

`WebSessionProofs`. `StoreStaysConsistent` adds that the bearer captured by an open mint
is an access bearer: without it `Entered` could store an impersonation bearer as the one
to go back to. `SessionIsKept` has the invariant `SessionInv`: while no logout, no
lost answer, no failed or overtaken commit and no removal has happened, the cookie's token can be exchanged
or has just been exchanged by a refresh whose answer is under way, here or in the other tab (`CookieLive`),
while the other tab refreshes no call of this one is open and what it will find in the
cookie can be exchanged (`OtherAlone`), so can the token an open
refresh carries (`AskedLive`) and the one a granted call brings, to which
nothing else refers (`GrantedLive`), and no refresh with a cookie is refused
(`NoneDenied`), a tab with no cookie has no bearer (`CookieFirst`); in every state the
cold refresh runs alone (`ColdAlone`) and `/v1/me` is fetched after the answer it
belongs to (`MeAfterAnswer`). "Can be exchanged" is `Worthy`: the row is live, or an open transaction is about
to insert it, and no open transaction revokes it. A commit keeps the set as it is; only one that fails takes from
it.

`ChangeFeedProofs`. `WalkInOrder` and `WalkComplete` share `WalkInv`: the cursor splits
the feed, with everything the walk has returned at or before it and everything it
still owes after it. The feed's order is total and strict (`id` is drawn once), so a page, which is
a prefix of what remains, keeps the split; what is committed or revoked later falls on
one side or the other and does not move the cursor. Neither the page size nor the
number of writers, events or documents matters.

`EntitlementsProofs`. `EndInv`: a row that an open transaction has inserted is not there
for the others, one it has ended is still active for them, and no two transactions write the same row
(`Pending`, `Apart`); so a commit never meets an end that is already set
(`EndsAreFinal`). `ScopeInv` adds the argument for the watchlists: a PATCH that is not
crossed is the only open request and has the latest `now()` (`Alone`), so its own table
(`View`) is what will be committed, and what it hides is exactly what that table no longer
covers (`HidesRight`); without a taint no end has been set since any open request of the client
began (`Untainted`), so a watchlist inserted under an older `now()` is in scope all the same.
With the order of `soft_delete_scopes` and `active_scope_documents` swapped, or with an
end later than `now()`, `HidesRight` fails.

`AccessProofs`. `AuditInv`: a request that has passed its audit step, or holds a session
that bypasses row level security, has its row, unless its administrator was deleted since
(`Audited`); so has every token minted (`MintsAudited`). `ScopeInv`: the pairs a subject has
now are among those it has had, and so is every row read (`Scoped`); the argument is about
time: the scope a statement sees is judged as of the beginning of its transaction, and a pair can
only have been in scope then if it was when the request arrived or was granted since; tokens of
support view are a client's (`MintsAreClients`). `WholeInv`: what each statement of the two
handlers has returned (`Whole`), in the order they run: versions are only added, so what the
first statement saw is in the list that is read later, or scope was lost and the list is empty.

`ReseedProofs`. `CorpusInv`: a document other than the e2e seed's has a schedule exactly while it
has a row, and versions belong to rows that were made (`Rows`); a row the worker has claimed is
due (`Claimed`), which no parked one is; and a pair between its probe and its commit belongs to a
document with a row, without versions while they are staged and with none in the worker's hands
(`PairAtHand`), so `StagedStays` holds when the script commits. `AccountsInv`: where a script stands fixes which run's
arguments it carries (`AccountsPlace`), so a reseed can only reach its accounts with all three
passwords set. From it `NoDowngrade` and `RefusalIsWhole` follow for each step. `ReadyInv` adds the
argument for `ReseedOkMeansReady`: whoever gives the document of a pair a first version gives it enough
(`AllOrNone`: the worker's poll, or both files in one transaction), and a pair that has a row and no version
is still on the list while the script goes through the pairs, so none is left when the list is empty
(`PairsPlace`). A seed, a poll or a row appearing elsewhere takes no version away, and a wipe belongs to a
run that begins.

`WorkerProofs`: what the worker does for a document, first in time, then with its text.
`LoopInv` (types; no parked row is in a tick; a call belongs to the poll in hand; a process without SIGTERM
has missed fewer probes than the last one). `ClientInv` for `BearerIsHonoured` and `WaitIsBounded`: the client's idea
of the expiry is late by one flight at most, the login's, unless that one trickled (`Lag`); what was left when the request began exceeds two
flights (`Room`), which is where `2 * Timeout <= Buffer` is needed, for a bearer that was kept, and
`2 * Timeout < TTL` for a fresh one; an answer begins within the timeout (`Short`); the time waited is split at the envelopes (`Spent`): no attempt begins
at `GiveUp` or later, neither that of the request nor that of the login inside it. `SilenceInv` for
`SilenceIsBounded`: each missed probe lengthens the silence by one period, and SIGTERM starts the grace, whatever the tick does meanwhile.

`TreeInv` for `ClausePathsUnique`: the path of a clause is its parent's and one more segment (`Lineage`), so two
clauses with one path have one parent and one segment; a free suffix exists by the pigeonhole principle, since a
clause has fewer children than there are clauses, and an unnamed clause has a number its parent has not counted yet
(`Counted`). `AlignInv` adds the types, with `ValidEvent` for every stored event; that the rows of a version have distinct paths, which a second trip through the table leaves alone
(`RowsUnique`, from `PathsApart` and `StoredPath`); and `PairInv`: the heading pass pairs candidates one to one (`AnchorsFit`), the traceback has
only paired what lies behind it in the two lists (`Traced`), which are increasing (`InOrderLists`), so
neither pass meets a clause of the other and `PairsAreOneToOne`. `TracebackInOrder` is the part of
`ContentOptimal` that needs no sum: whatever the table holds, the traceback pairs only what the index yields and
never across another pair.

`ContentIsOptimal` is the correctness of the dynamic programme. `Dp` is a recursive function, so first its
equation has a solution (`TableExists`, filled by diagonals) and only one (`TableUnique`): both argue from the
least diagonal where it fails, which takes the place of an induction. Second, no pairing in
order among the first `a` and the first `b` clauses weighs more than the entry at `<<a, b>>` (`TableBounds`): such a
pairing has no pair for the last clause of one side, or none for that of the other, or pairs the two, since otherwise it would
cross itself. `Weight`, the sum of the similarities, counts the percent points of the pairs, so it grows by the
similarity of a pair that is added (`WeightAdd`). Third, `OptimalInv`: while the content pass runs, the weight of
what the traceback has taken and the entry where it stands add up to the last entry of the table, since each move is the
one its entry was made from, ties included (`MoveEntry`); and every link is of clauses the heading pass left
over. At the end the entry is 0, so the pairing weighs what bounds all others.

`EventsReplayVersions` follows at `Persist` from one-to-one
pairs: a text of the old version is kept by a pair that did not change it, struck out by a pair that did, or removed
without a pair, and the same for the new version; paths tell the cases apart. `PairedUidKept` is the same uniqueness seen from
the uid map. `SilentInv` for `UnchangedVersionSilent`: when the rows to come are those of the version before, the best triple that is
left always joins a clause to its twin, since equal triples are taken in document order, so the greedy pass
pairs clauses with themselves only. What it leaves over is without a heading and has a path that did not
come back as it went (`Deaf`): every other clause recognises its twin by heading or path. Whatever the content pass makes of those few,
the events name no clause but them (`OnlySlashedSpeak`).

Model-checked only. Liveness (`ServedUnlessStuck`, `OrphanReclaimed`, `Drains`,
`RequestsSettle`, `ScriptEnds`, `Answered`, `Served`) is out of the proof system's reach, with everything that
involves ENABLED.

## 6. Not modelled

Signatures, password hashes and the contents of tokens other than their kind, role and subject: a forged or
mistyped token is a request that changes nothing. Except in `WorkerLiveness` time is order: no clock, cadence or
expiry has a length. `valid_from` of a subscription is not in
`Entitlements`, `ChangeFeed` or `Access`: the default is a start at once. Regular expressions and the
portals' YAML decide which block a piece of markdown is, and stay outside `ClauseParser`; so do
the hash functions of the MinHash. Rows that a wipe under replica mode leaves
without a parent (a version inserted by a poll in flight, tokens and watchlists of deleted users) are kept
or left out by the models as nothing can reach them. The lock around the refresh of the Lawstronaut bearer is
not contended by the one caller there is. The scripts are run by one operator at a time.
The Log Analytics cache behind the API page of the health surface keeps no state another
part reads. Everything with the status
`not_modelled` or `partly` in `PROJECT.json` has its reason there.

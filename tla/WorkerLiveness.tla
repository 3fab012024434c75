--------------------------- MODULE WorkerLiveness ---------------------------
\* The claim loop, the health endpoint it feeds and the platform that probes it:
\* one process whose ticks take as long as the calls upstream do, and which is
\* told to end, and then killed, when its probes go unanswered for too long.
EXTENDS Lawstronaut, FiniteSets

CONSTANTS
  Docs,
  BatchSize,
  FailureThreshold,
  StaleAfter,     \* healthz_stale_after_s
  InitialDelay, Period, ProbeFailures,   \* the liveness probe
  Grace,          \* from SIGTERM to SIGKILL
  Refusable       \* documents of which the database may come to refuse a statement

ASSUME ProbeAssumption ==
  /\ IsFiniteSet(Docs)
  /\ BatchSize \in Nat \ {0} /\ FailureThreshold \in Nat
  /\ Refusable \subseteq Docs
  /\ StaleAfter \in Nat \ {0} /\ InitialDelay \in Nat /\ Grace \in Nat
  /\ Period \in Nat \ {0} /\ ProbeFailures \in Nat \ {0}

VARIABLES
  due,       \* committed: next_poll_at has passed
  failures,  \* committed: failure_count
  tick,      \* the open transaction: rows to poll, the one in hand, what is marked
  refused,   \* documents whose poll has a statement the database refuses
  stuck,     \* the poll in hand never returns
  health,    \* LoopHealth: whether there was a tick, and the time since then
  probe      \* the platform: time to the next probe, misses, SIGTERM sent, time left

loopVars == <<due, failures, tick, refused, stuck, health, probe>>
vars == <<clientVars, loopVars>>

NoTick == [todo |-> {}, cur |-> {}, ok |-> {}, failed |-> {}]

TypeOK ==
  /\ ClientTypeOK
  /\ due \in SUBSET Docs
  /\ failures \in [Docs -> 0..FailureThreshold + 1]
  /\ tick \in [todo : SUBSET Docs, cur : SUBSET Docs, ok : SUBSET Docs, failed : SUBSET Docs]
  /\ refused \in SUBSET Docs
  /\ stuck \in BOOLEAN
  /\ health \in [ticked : BOOLEAN, silent : Nat]
  /\ probe \in [next : Nat, misses : 0..ProbeFailures, term : BOOLEAN, grace : 0..Grace]

NewProbe == [next |-> InitialDelay, misses |-> 0, term |-> FALSE, grace |-> Grace]
NewHealth == [ticked |-> FALSE, silent |-> 0]

Init ==
  /\ ClientInit
  /\ due \in SUBSET Docs
  /\ refused \in SUBSET (due \cap Refusable)
  /\ failures = [d \in Docs |-> 0]
  /\ tick = NoTick
  /\ stuck = FALSE
  /\ health = NewHealth
  /\ probe = NewProbe

----------------------------------------------------------------------------
\* The claim loop.

Parked(d) == failures[d] > FailureThreshold
Claimable == {d \in due : ~Parked(d)}
Smaller(m, n) == IF m < n THEN m ELSE n

\* Between two ticks the loop sleeps for less than a unit.
Resting == tick = NoTick

\* CLAIM_SQL. Which rows come first is Ingestion's subject.
Claim ==
  /\ Resting /\ ~probe.term
  /\ Claimable # {}
  /\ \E S \in SUBSET Claimable :
       /\ Cardinality(S) = Smaller(BatchSize, Cardinality(Claimable))
       /\ tick' = [NoTick EXCEPT !.todo = S]
  /\ UNCHANGED <<clientVars, due, failures, refused, stuck, health, probe>>

StartPoll(d) ==
  /\ d \in tick.todo /\ tick.cur = {}
  /\ tick' = [tick EXCEPT !.todo = @ \ {d}, !.cur = {d}]
  /\ GetMarkdown
  /\ UNCHANGED <<due, failures, refused, stuck, health, probe>>

\* MARK_OK_SQL or MARK_FAIL_SQL, in the transaction of the tick.
PollEnds ==
  /\ tick.cur # {} /\ call.stage \in {"document", "error"}
  /\ tick' = IF call.stage = "document"
             THEN [tick EXCEPT !.ok = @ \cup tick.cur, !.cur = {}]
             ELSE [tick EXCEPT !.failed = @ \cup tick.cur, !.cur = {}]
  /\ call' = Idle
  /\ UNCHANGED <<bearerVars, faults, due, failures, refused, stuck, health, probe>>

\* The tick raises and is rolled back, with all it has marked; the loop logs that,
\* sleeps and claims again. The health is not touched.
TickRaises ==
  /\ tick' = NoTick
  /\ call' = Idle
  /\ UNCHANGED <<bearerVars, stuck, health, probe>>

\* The database refuses a statement of the poll, and with the transaction aborted
\* the MARK_FAIL_SQL of _record_failure too. It refuses it to every later tick.
PollRefused ==
  /\ tick.cur \cap refused # {} /\ call.stage = "document"
  /\ TickRaises
  /\ UNCHANGED <<faults, due, failures, refused>>

\* What COMMIT makes of the marks. A row that was served waits for its cadence;
\* one that failed is due at once.
Committed ==
  /\ due' = due \ tick.ok
  /\ failures' = [d \in Docs |-> IF d \in tick.ok THEN 0
                                 ELSE IF d \in tick.failed THEN failures[d] + 1
                                 ELSE failures[d]]

\* The connection is lost under a statement, or under COMMIT, which may have come
\* through.
ConnectionLost ==
  /\ ~Resting /\ ~InFlight /\ ~stuck /\ faults < MaxFaults
  /\ faults' = faults + 1
  /\ TickRaises
  /\ \/ UNCHANGED <<due, failures>>
     \/ tick.todo = {} /\ tick.cur = {} /\ Committed
  /\ UNCHANGED refused

\* health.touch, after the commit and nowhere else.
Touched == [ticked |-> TRUE, silent |-> 0]

EndTick ==
  /\ ~Resting /\ tick.todo = {} /\ tick.cur = {}
  /\ Committed
  /\ tick' = NoTick
  /\ health' = Touched
  /\ UNCHANGED <<clientVars, refused, stuck, probe>>

\* A tick that claims nothing.
EmptyTick ==
  /\ Resting /\ ~probe.term
  /\ Claimable = {} /\ health # Touched
  /\ health' = Touched
  /\ UNCHANGED <<clientVars, due, failures, tick, refused, stuck, probe>>

\* The poll waits for something that never comes: no statement, and no blob
\* transfer, has a time limit of the worker's own.
GetsStuck ==
  /\ call.stage = "document" /\ ~stuck /\ faults < MaxFaults
  /\ stuck' = TRUE
  /\ faults' = faults + 1
  /\ call' = Idle
  /\ UNCHANGED <<bearerVars, due, failures, tick, refused, health, probe>>

\* What the database will refuse of its poll, the polls before it or the new text
\* have brought about by then (Ingestion).
BecomeDue(d) ==
  /\ d \notin due
  /\ due' = due \cup {d}
  /\ refused' \in {refused, refused \cup ({d} \cap Refusable)}
  /\ UNCHANGED <<clientVars, failures, tick, stuck, health, probe>>

----------------------------------------------------------------------------
\* The endpoint and the platform.

\* Fault: a process that has not ticked yet counts as healthy.
HealthyFromStart == health.ticked => health.silent <= StaleAfter

IsHealthy == health.ticked /\ health.silent <= StaleAfter

Probe ==
  /\ probe.next = 0 /\ ~probe.term
  /\ probe' = IF IsHealthy THEN [probe EXCEPT !.next = Period, !.misses = 0]
              ELSE [probe EXCEPT !.next = Period, !.misses = @ + 1,
                                 !.term = (probe.misses + 1 = ProbeFailures)]
  /\ UNCHANGED <<clientVars, due, failures, tick, refused, stuck, health>>

\* The process ends and another starts. What the tick had not committed is gone.
NewProcess ==
  /\ NewClient
  /\ tick' = NoTick
  /\ stuck' = FALSE
  /\ health' = NewHealth
  /\ probe' = NewProbe
  /\ UNCHANGED <<due, failures, refused>>

\* Fault: SIGTERM cancels the tick under way.
ExitAtOnce == probe.term /\ NewProcess

\* SIGTERM sets the shutdown event: the tick under way is finished, no other begun.
Exit == probe.term /\ Resting /\ NewProcess

\* SIGKILL.
Kill == probe.term /\ probe.grace = 0 /\ NewProcess

----------------------------------------------------------------------------

\* Nothing that happens at once is waiting to happen.
MayWait ==
  /\ IF stuck THEN TRUE
     ELSE IF Resting THEN ~probe.term /\ Claimable = {} /\ health = Touched
     ELSE tick.cur # {} /\ InFlight /\ AnswerOpen
  /\ IF probe.term THEN probe.grace > 0 ELSE probe.next > 0

Elapse ==
  /\ MayWait
  /\ ClientElapse
  /\ health' = [health EXCEPT !.silent = @ + 1]
  /\ probe' = IF probe.term THEN [probe EXCEPT !.grace = @ - 1]
              ELSE [probe EXCEPT !.next = @ - 1]
  /\ UNCHANGED <<due, failures, tick, refused, stuck>>

Polling == ~stuck /\ AnswerArrives /\ UNCHANGED loopVars

LoopStep ==
  \/ Claim \/ (\E d \in Docs : StartPoll(d))
  \/ (~stuck /\ (PollEnds \/ PollRefused \/ EndTick \/ EmptyTick))

PlatformStep == Probe \/ Exit \/ Kill

Next ==
  \/ LoopStep \/ Polling \/ PlatformStep \/ Elapse
  \/ GetsStuck \/ ConnectionLost
  \/ (Revoke \/ AnswerBegins) /\ UNCHANGED loopVars
  \/ \E d \in Docs : BecomeDue(d)

Fairness == WF_vars(LoopStep) /\ WF_vars(Polling) /\ WF_vars(PlatformStep) /\ WF_vars(Elapse)

Spec == Init /\ [][Next]_vars /\ Fairness

----------------------------------------------------------------------------
\* A loop that has stopped ticking, whatever it waits for, is replaced within
\* this time, and with it the locks of its transaction go (health.py
\* is_healthy, loop.py touch, container-app-worker.bicep).
LongestSilence ==
  (IF InitialDelay > StaleAfter + Period THEN InitialDelay ELSE StaleAfter + Period)
    + (ProbeFailures - 1) * Period + Grace

SilenceBounded == health.silent <= LongestSilence

\* A due row is served or parked, unless the database goes on refusing a statement
\* of some poll: a tick that raises, or is killed, loses what it had recorded for
\* every row of its batch. So this rests on a whole tick that fits into what the
\* probe and the grace leave to a process, and on the tick that is finished after
\* SIGTERM (loop.py tick, run).
Served ==
  \A d \in Docs : d \in due /\ ~Parked(d)
                   ~> d \notin due \/ Parked(d) \/ refused # {}

\* ADR-0001: "/healthz returns 200 while the loop is running".
HealthyWhileRunning == health.ticked /\ ~stuck => IsHealthy
=============================================================================

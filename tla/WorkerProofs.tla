---------------------------- MODULE WorkerProofs ----------------------------
(***************************************************************************)
(* Theorems about what the ingestion worker does for a document. First its  *)
(* loop and its Lawstronaut client (WorkerLiveness): types, the bearer, the *)
(* length of a call and of a silence. Then what a poll does to the text it  *)
(* fetched (Alignment over ClauseParser): paths that tell clauses apart,    *)
(* pairs that are one to one and, in the content pass, the best there are,  *)
(* uids that stay, and events that add up to the new version.               *)
(***************************************************************************)
EXTENDS WorkerLiveness, Alignment, FiniteSetTheorems, SequenceTheorems, WellFoundedInduction, TLAPS

-----------------------------------------------------------------------------
(* The claim loop *)

\* Nothing is parked while the tick holds it: the count of a row that fails
\* stays within its bound.
HeldUnparked ==
    \A d \in tick.todo \cup tick.cur \cup tick.ok \cup tick.failed : ~ Parked(d)

\* A call belongs to the poll in hand, and a poll that is stuck has none open.
CallInHand ==
    /\ call.stage # "idle" => tick.cur # {}
    /\ stuck => call.stage = "idle" /\ tick.cur # {}

\* The miss that is one too many sends SIGTERM, and the grace runs from there.
ProbeCounted == ~ probe.term => probe.misses < ProbeFailures /\ probe.grace = Grace

LoopInv == TypeOK /\ HeldUnparked /\ CallInHand /\ ProbeCounted

\* The calls of ClientTypeOK.
Calls ==
    [stage : {"idle", "login", "data", "document", "error"},
     tries : 0..Attempts, spent : Nat, waited : Nat,
     logins : 0..Attempts, loginSpent : Nat, flight : Nat,
     answer : {"none", "accepted", "refused"}]

LEMMA CallTyped == ClientTypeOK => call \in Calls
  BY DEF ClientTypeOK, Calls

LEMMA ClientTyped ==
    ASSUME ClientTypeOK, call' \in Calls, UNCHANGED bearerVars,
           faults' \in 0..MaxFaults
    PROVE  ClientTypeOK'
  BY DEF ClientTypeOK, Calls, bearerVars

LEMMA IdleTyped == Idle \in Calls
  BY ClientAssumption DEF Idle, Calls

LEMMA ReturnedTyped ==
    ASSUME NEW outcome \in {"document", "error"}
    PROVE  /\ Returned(outcome) \in Calls /\ Returned(outcome).stage = outcome
           /\ Returned(outcome).spent = 0 /\ Returned(outcome).waited = 0
<1>1. 0 \in 0..Attempts
  BY ClientAssumption
<1> QED
  BY <1>1 DEF Returned, Idle, Calls

LEMMA AttemptTyped ==
    ASSUME NEW tries \in 0..Attempts, NEW spent \in Nat, NEW waited \in Nat
    PROVE  /\ Attempt(tries, spent, waited) \in Calls
           /\ Attempt(tries, spent, waited).stage \in {"login", "data"}
<1>1. 0 \in 0..Attempts /\ 1 \in 0..Attempts /\ Idle \in Calls
  BY ClientAssumption, IdleTyped
<1>2. CASE NeedsRefresh
  <2>1. Attempt(tries, spent, waited) =
          [Idle EXCEPT !.stage = "login", !.tries = tries, !.spent = spent, !.waited = waited,
                       !.logins = 1]
    BY <1>2 DEF Attempt
  <2> QED
    BY <1>1, <2>1 DEF Calls
<1>3. CASE ~ NeedsRefresh
  <2>1. Attempt(tries, spent, waited) =
          [Idle EXCEPT !.stage = "data", !.tries = tries, !.spent = spent, !.waited = waited,
                       !.logins = 0]
    BY <1>3 DEF Attempt
  <2> QED
    BY <1>1, <2>1 DEF Calls
<1> QED
  BY <1>2, <1>3

\* Every step of the client keeps its types, and a call that is open stays so.
LEMMA AnswerTyped ==
    ASSUME ClientTypeOK, AnswerArrives
    PROVE  ClientTypeOK' /\ call.stage \in {"login", "data"} /\ call'.stage # "idle"
<1>0. call \in Calls
  BY CallTyped
<1>1. CASE Transient
  <2>1. OuterFails \in Calls /\ OuterFails.stage # "idle"
    <3>1. CASE MayRetry(call.tries, call.spent)
      <4>1. call.tries + 1 \in 0..Attempts /\ call.spent \in Nat /\ call.waited \in Nat
        BY <1>0, <3>1, ClientAssumption DEF MayRetry, Calls
      <4> QED
        BY <3>1, <4>1, AttemptTyped DEF OuterFails
    <3>2. CASE ~ MayRetry(call.tries, call.spent)
      BY <3>2, ReturnedTyped DEF OuterFails
    <3> QED
      BY <3>1, <3>2
  <2>2. CASE call.stage = "login" /\ MayRetry(call.logins, call.loginSpent)
    <3>1. call.logins + 1 \in 0..Attempts
      BY <1>0, <2>2, ClientAssumption DEF MayRetry, Calls
    <3>2. call' = [call EXCEPT !.logins = @ + 1, !.flight = 0, !.answer = "none"]
      BY <1>1, <2>2 DEF Transient
    <3>3. call' \in Calls /\ call'.stage = call.stage
      BY <1>0, <3>1, <3>2 DEF Calls
    <3> QED
      BY <1>1, <2>2, <3>3, ClientTyped DEF Transient, ClientTypeOK
  <2>3. CASE ~ (call.stage = "login" /\ MayRetry(call.logins, call.loginSpent))
    BY <1>1, <2>1, <2>3, ClientTyped DEF Transient, ClientTypeOK
  <2> QED
    BY <2>2, <2>3
<1>2. CASE LoginAnswered
  <2>1. PICK late \in 0..call.flight : valid' = IF late < TTL THEN TTL - late ELSE 0
    BY <1>2 DEF LoginAnswered
  <2>2. valid' \in 0..TTL /\ left' \in 0..TTL
    BY <1>0, <1>2, <2>1, ClientAssumption DEF LoginAnswered, Calls
  <2>3. call' \in Calls /\ call'.stage = "data"
    <3>1. call' = [call EXCEPT !.stage = "data", !.logins = 0, !.loginSpent = 0, !.flight = 0,
                            !.answer = "none"]
      BY <1>2 DEF LoginAnswered
    <3>2. 0 \in 0..Attempts
      BY ClientAssumption
    <3> QED
      BY <1>0, <3>1, <3>2 DEF Calls
  <2>4. (call.flight > Timeout) \in BOOLEAN
    OBVIOUS
  <2> QED
    BY <1>2, <2>2, <2>3, <2>4 DEF LoginAnswered, ClientTypeOK, Calls
<1>3. ASSUME call.stage \in {"login", "data"}, NEW s \in {"document", "error"},
             call' = Returned(s), UNCHANGED <<bearerVars, faults>>
      PROVE  ClientTypeOK' /\ call'.stage # "idle"
  <2>1. call' \in Calls /\ call'.stage = s
    BY <1>3, ReturnedTyped
  <2>2. faults' \in 0..MaxFaults
    BY <1>3 DEF ClientTypeOK
  <2> QED
    BY <1>3, <2>1, <2>2, ClientTyped
<1> QED
  BY <1>1, <1>2, <1>3
  DEF AnswerArrives, LoginRefused, LoginAnswered, DataAnswered, DataUnauthorized, DataRejected,
      Transient

LEMMA InitLoop == Init => LoopInv
<1> SUFFICES ASSUME Init PROVE LoopInv
  OBVIOUS
<1>1. ClientTypeOK
  <2>1. call \in Calls
    BY IdleTyped DEF Init, ClientInit
  <2>2. left \in 0..TTL /\ valid \in 0..TTL /\ faults \in 0..MaxFaults
    BY ClientAssumption DEF Init, ClientInit
  <2>3. revoked \in BOOLEAN /\ trickled \in BOOLEAN
    BY DEF Init, ClientInit
  <2> QED
    BY <2>1, <2>2, <2>3 DEF ClientTypeOK, Calls
<1>2. TypeOK
  <2>1. due \in SUBSET Docs /\ refused \in SUBSET Docs /\ stuck \in BOOLEAN
    BY ProbeAssumption DEF Init
  <2>2. failures \in [Docs -> 0..FailureThreshold + 1]
    BY ProbeAssumption DEF Init
  <2>3. tick \in [todo : SUBSET Docs, cur : SUBSET Docs, ok : SUBSET Docs, failed : SUBSET Docs]
    BY DEF Init, NoTick
  <2>4. health \in [ticked : BOOLEAN, silent : Nat]
    BY DEF Init, NewHealth
  <2>5. probe \in [next : Nat, misses : 0..ProbeFailures, term : BOOLEAN, grace : 0..Grace]
    BY ProbeAssumption DEF Init, NewProbe
  <2> QED
    BY <1>1, <2>1, <2>2, <2>3, <2>4, <2>5 DEF TypeOK
<1> QED
  BY <1>2, ProbeAssumption
  DEF Init, ClientInit, LoopInv, HeldUnparked, CallInHand, ProbeCounted, NoTick, NewProbe, Idle

LEMMA NewProcessTyped ==
    ASSUME LoopInv, NewProcess
    PROVE  LoopInv'
<1>1. ClientTypeOK'
  <2>1. call' \in Calls /\ left' \in 0..TTL /\ valid' \in 0..TTL
    BY IdleTyped, ClientAssumption DEF NewProcess, NewClient
  <2>2. revoked' \in BOOLEAN /\ trickled' \in BOOLEAN /\ faults' \in 0..MaxFaults
    BY DEF NewProcess, NewClient, LoopInv, TypeOK, ClientTypeOK
  <2> QED
    BY <2>1, <2>2 DEF ClientTypeOK, Calls
<1>2. TypeOK'
  <2>1. probe' \in [next : Nat, misses : 0..ProbeFailures, term : BOOLEAN, grace : 0..Grace]
    BY ProbeAssumption DEF NewProcess, NewProbe
  <2>2. stuck' \in BOOLEAN /\ refused' \in SUBSET Docs
    BY DEF NewProcess, LoopInv, TypeOK
  <2>3. tick' \in [todo : SUBSET Docs, cur : SUBSET Docs, ok : SUBSET Docs, failed : SUBSET Docs]
    BY DEF NewProcess, NoTick
  <2>4. health' \in [ticked : BOOLEAN, silent : Nat]
    BY DEF NewProcess, NewHealth
  <2>5. due' \in SUBSET Docs /\ failures' \in [Docs -> 0..FailureThreshold + 1]
    BY DEF NewProcess, LoopInv, TypeOK
  <2> QED
    BY <1>1, <2>1, <2>2, <2>3, <2>4, <2>5 DEF TypeOK
<1> QED
  BY <1>2, ProbeAssumption
  DEF LoopInv, NewProcess, NewClient, HeldUnparked, CallInHand, ProbeCounted, NoTick, NewProbe, Idle

\* Time passes for an open call only while its answer may come later.
LEMMA FlightOpen ==
    ASSUME LoopInv, Elapse, InFlight
    PROVE  AnswerOpen
  BY DEF Elapse, MayWait, InFlight, LoopInv, CallInHand, Resting, NoTick

\* What is committed for a row that failed is a count within its bound.
LEMMA CommittedTyped ==
    ASSUME LoopInv, Committed
    PROVE  failures' \in [Docs -> 0..FailureThreshold + 1] /\ due' \in SUBSET Docs
<1>1. \A d \in Docs : d \in tick.failed => failures[d] <= FailureThreshold
  BY ProbeAssumption DEF LoopInv, TypeOK, HeldUnparked, Parked
<1> QED
  BY <1>1, ProbeAssumption DEF Committed, LoopInv, TypeOK

\* A tick that raises leaves nothing in hand.
LEMMA RaisedTyped ==
    ASSUME LoopInv, TickRaises, ~ stuck, faults' \in 0..MaxFaults, UNCHANGED refused,
           failures' \in [Docs -> 0..FailureThreshold + 1], due' \in SUBSET Docs
    PROVE  LoopInv'
<1>1. ClientTypeOK'
  BY IdleTyped, ClientTyped DEF TickRaises, LoopInv, TypeOK
<1>2. TypeOK'
  BY <1>1 DEF TickRaises, NoTick, LoopInv, TypeOK
<1> QED
  BY <1>2 DEF TickRaises, NoTick, Idle, LoopInv, HeldUnparked, CallInHand, ProbeCounted

LEMMA LoopKept == LoopInv /\ [Next]_vars => LoopInv'
<1> SUFFICES ASSUME LoopInv, [Next]_vars PROVE LoopInv'
  OBVIOUS
<1> USE ClientAssumption, ProbeAssumption
<1>1. CASE Claim
  <2>1. PICK S \in SUBSET Claimable : tick' = [NoTick EXCEPT !.todo = S]
    BY <1>1 DEF Claim
  <2>2. tick = NoTick /\ call.stage = "idle" /\ ~ stuck
    BY <1>1 DEF Claim, Resting, LoopInv, CallInHand, NoTick
  <2> QED
    BY <1>1, <2>1, <2>2
    DEF Claim, LoopInv, TypeOK, ClientTypeOK, HeldUnparked, CallInHand, ProbeCounted, Claimable, NoTick,
        Parked, clientVars, bearerVars
<1>2. ASSUME NEW d \in Docs, StartPoll(d) PROVE LoopInv'
  <2>1. call' = Attempt(1, 0, 0) /\ UNCHANGED <<bearerVars, faults>>
    BY <1>2 DEF StartPoll, GetMarkdown
  <2>2. Attempt(1, 0, 0) \in Calls /\ Attempt(1, 0, 0).stage # "idle"
    BY AttemptTyped, 1 \in 0..Attempts, 0 \in Nat
  <2>4. ClientTypeOK' /\ call'.stage # "idle"
    BY <2>1, <2>2, ClientTyped DEF LoopInv, TypeOK, ClientTypeOK
  <2>3. ~ stuck
    BY <1>2 DEF StartPoll, LoopInv, CallInHand
  <2> QED
    BY <1>2, <2>3, <2>4 DEF StartPoll, LoopInv, TypeOK, HeldUnparked, CallInHand, ProbeCounted, Parked
<1>3. CASE ~ stuck /\ PollEnds
  <2>1. call' = Idle /\ UNCHANGED <<bearerVars, faults, due, failures, refused, stuck, health, probe>>
    BY <1>3 DEF PollEnds
  <2>2. ClientTypeOK'
    BY <2>1, IdleTyped, ClientTyped DEF LoopInv, TypeOK, ClientTypeOK
  <2>3. /\ tick' \in [todo : SUBSET Docs, cur : SUBSET Docs, ok : SUBSET Docs, failed : SUBSET Docs]
        /\ tick'.todo \cup tick'.cur \cup tick'.ok \cup tick'.failed
              = tick.todo \cup tick.cur \cup tick.ok \cup tick.failed
    BY <1>3 DEF PollEnds, LoopInv, TypeOK
  <2>4. TypeOK'
    BY <2>1, <2>2, <2>3 DEF LoopInv, TypeOK
  <2>5. HeldUnparked'
    BY <2>1, <2>3 DEF LoopInv, HeldUnparked, Parked
  <2>6. CallInHand'
    BY <1>3, <2>1 DEF CallInHand, Idle
  <2> QED
    BY <2>1, <2>4, <2>5, <2>6 DEF LoopInv, ProbeCounted
<1>4. CASE ~ stuck /\ EndTick
  <2>2. failures' \in [Docs -> 0..FailureThreshold + 1] /\ due' \in SUBSET Docs
    BY <1>4, CommittedTyped DEF EndTick
  <2>3. ClientTypeOK' /\ call.stage = "idle" /\ call' = call
    BY <1>4 DEF EndTick, LoopInv, TypeOK, ClientTypeOK, CallInHand, clientVars, bearerVars
  <2> QED
    BY <1>4, <2>2, <2>3 DEF EndTick, LoopInv, TypeOK, HeldUnparked, CallInHand, ProbeCounted, NoTick, Touched
<1>5. CASE ~ stuck /\ EmptyTick
  BY <1>5
  DEF EmptyTick, LoopInv, TypeOK, ClientTypeOK, HeldUnparked, CallInHand, ProbeCounted, Parked, Touched, clientVars, bearerVars
<1>6. CASE Polling
  <2>1. ClientTypeOK' /\ call.stage # "idle" /\ call'.stage # "idle" /\ ~ stuck
    BY <1>6, AnswerTyped DEF Polling, LoopInv, TypeOK
  <2> QED
    BY <1>6, <2>1 DEF Polling, loopVars, LoopInv, TypeOK, HeldUnparked, CallInHand, ProbeCounted, Parked
<1>7. CASE Probe
  <2>1. probe.misses < ProbeFailures
    BY <1>7 DEF Probe, LoopInv, ProbeCounted
  <2>2. /\ probe' \in [next : Nat, misses : 0..ProbeFailures, term : BOOLEAN, grace : 0..Grace]
        /\ ProbeCounted'
    <3>1. probe \in [next : Nat, misses : 0..ProbeFailures, term : BOOLEAN, grace : 0..Grace]
      BY DEF LoopInv, TypeOK
    <3>2. CASE IsHealthy
      <4>1. probe' = [probe EXCEPT !.next = Period, !.misses = 0]
        BY <1>7, <3>2 DEF Probe
      <4>2. /\ probe' \in [next : Nat, misses : 0..ProbeFailures, term : BOOLEAN, grace : 0..Grace]
            /\ probe'.misses = 0 /\ probe'.grace = probe.grace /\ probe'.term = probe.term
        <5>1. Period \in Nat /\ 0 \in 0..ProbeFailures
          OBVIOUS
        <5>2. /\ probe'.misses = 0 /\ probe'.grace = probe.grace /\ probe'.term = probe.term
          BY <3>1, <4>1
        <5> QED
          BY <3>1, <4>1, <5>1, <5>2
      <4> QED
        BY <1>7, <4>2 DEF Probe, LoopInv, ProbeCounted
    <3>3. CASE ~ IsHealthy
      <4>1. probe' = [probe EXCEPT !.next = Period, !.misses = @ + 1,
                                   !.term = (probe.misses + 1 = ProbeFailures)]
        BY <1>7, <3>3 DEF Probe
      <4>2. probe.misses + 1 \in 0..ProbeFailures
        BY <2>1, <3>1
      <4>3. (probe.misses + 1 = ProbeFailures) \in BOOLEAN
        OBVIOUS
      <4>4. /\ probe' \in [next : Nat, misses : 0..ProbeFailures, term : BOOLEAN, grace : 0..Grace]
            /\ probe'.misses = probe.misses + 1 /\ probe'.grace = probe.grace
            /\ probe'.term = (probe.misses + 1 = ProbeFailures)
        BY <3>1, <4>1, <4>2, <4>3
      <4>5. ProbeCounted'
        <5>1. probe.grace = Grace
          BY <1>7 DEF Probe, LoopInv, ProbeCounted
        <5>2. ~ probe'.term => probe'.misses < ProbeFailures
          BY <2>1, <3>1, <4>4
        <5> QED
          BY <4>4, <5>1, <5>2 DEF ProbeCounted
      <4> QED
        BY <4>4, <4>5
    <3> QED
      BY <3>2, <3>3
  <2>3. UNCHANGED <<clientVars, due, failures, tick, refused, stuck, health>>
    BY <1>7 DEF Probe
  <2> QED
    BY <2>2, <2>3
    DEF LoopInv, TypeOK, ClientTypeOK, HeldUnparked, CallInHand, Parked, clientVars, bearerVars
<1>8. CASE Exit \/ Kill
  BY <1>8, NewProcessTyped DEF Exit, Kill
<1>9. CASE Elapse
  <2>1. InFlight => AnswerOpen
    BY <1>9, FlightOpen
  <2>2. ClientTypeOK'
    <3>1. /\ call \in Calls /\ left \in 0..TTL /\ valid \in 0..TTL /\ faults \in 0..MaxFaults
          /\ revoked' \in BOOLEAN /\ trickled' \in BOOLEAN
      BY <1>9, CallTyped DEF Elapse, ClientElapse, LoopInv, TypeOK, ClientTypeOK
    <3>2. left' \in 0..TTL /\ valid' \in 0..TTL
      BY <1>9, <3>1 DEF Elapse, ClientElapse, Less
    <3>3. CASE ~ InFlight
      <4>1. call' = call /\ faults' = faults
        BY <1>9, <3>3 DEF Elapse, ClientElapse
      <4> QED
        BY <3>1, <3>2, <4>1 DEF ClientTypeOK, Calls
    <3>4. CASE InFlight
      <4>1. call' = [call EXCEPT !.spent = @ + 1, !.flight = @ + 1,
                        !.waited = IF call.answer = "none" THEN @ + 1 ELSE @,
                        !.loginSpent = IF call.stage = "login" THEN @ + 1 ELSE @]
        BY <1>9, <3>4 DEF Elapse, ClientElapse
      <4>2. /\ call.flight + 1 \in Nat /\ call.spent + 1 \in Nat
            /\ call.waited + 1 \in Nat /\ call.loginSpent + 1 \in Nat
        BY <3>1 DEF Calls
      <4>3. call' \in Calls
        BY <3>1, <4>1, <4>2 DEF Calls
      <4>4. faults' \in 0..MaxFaults
        BY <1>9, <2>1, <3>1, <3>4, ClientAssumption DEF Elapse, ClientElapse, AnswerOpen
      <4> QED
        BY <3>1, <3>2, <4>3, <4>4 DEF ClientTypeOK, Calls
    <3> QED
      BY <3>3, <3>4
  <2>3. call'.stage = call.stage
    BY <1>9 DEF Elapse, ClientElapse, LoopInv, TypeOK, ClientTypeOK
  <2>4. probe' \in [next : Nat, misses : 0..ProbeFailures, term : BOOLEAN, grace : 0..Grace]
    BY <1>9 DEF Elapse, MayWait, LoopInv, TypeOK
  <2> QED
    BY <1>9, <2>2, <2>3, <2>4 DEF Elapse, LoopInv, TypeOK, HeldUnparked, CallInHand, ProbeCounted, Parked
<1>10. CASE GetsStuck
  <2>0. faults' \in 0..MaxFaults
    BY <1>10 DEF GetsStuck, LoopInv, TypeOK, ClientTypeOK
  <2>1. ClientTypeOK'
    BY <1>10, <2>0, IdleTyped, ClientTyped DEF GetsStuck, LoopInv, TypeOK
  <2> QED
    BY <1>10, <2>1 DEF GetsStuck, LoopInv, TypeOK, HeldUnparked, CallInHand, ProbeCounted, Parked, Idle
<1>11. CASE Revoke /\ UNCHANGED loopVars
  BY <1>11
  DEF Revoke, Honoured, loopVars, LoopInv, TypeOK, ClientTypeOK, HeldUnparked, CallInHand, ProbeCounted, Parked
<1>14. CASE AnswerBegins /\ UNCHANGED loopVars
  <2>1. PICK a \in {"accepted", "refused"} : call' = [call EXCEPT !.answer = a]
    BY <1>14 DEF AnswerBegins
  <2>2. call \in Calls
    BY CallTyped DEF LoopInv, TypeOK
  <2>3. call' \in Calls /\ call'.stage = call.stage
    BY <2>1, <2>2 DEF Calls
  <2>4. ClientTypeOK'
    BY <1>14, <2>3, ClientTyped DEF AnswerBegins, LoopInv, TypeOK, ClientTypeOK
  <2> QED
    BY <1>14, <2>3, <2>4
    DEF loopVars, LoopInv, TypeOK, HeldUnparked, CallInHand, ProbeCounted, Parked
<1>15. CASE ~ stuck /\ PollRefused
  <2>1. faults' \in 0..MaxFaults /\ failures' \in [Docs -> 0..FailureThreshold + 1] /\ due' \in SUBSET Docs
    BY <1>15 DEF PollRefused, LoopInv, TypeOK, ClientTypeOK
  <2> QED
    BY <1>15, <2>1, RaisedTyped DEF PollRefused
<1>16. CASE ConnectionLost
  <2>1. faults' \in 0..MaxFaults
    BY <1>16 DEF ConnectionLost, LoopInv, TypeOK, ClientTypeOK
  <2>2. failures' \in [Docs -> 0..FailureThreshold + 1] /\ due' \in SUBSET Docs
    BY <1>16, CommittedTyped DEF ConnectionLost, LoopInv, TypeOK
  <2> QED
    BY <1>16, <2>1, <2>2, RaisedTyped DEF ConnectionLost
<1>12. ASSUME NEW d \in Docs, BecomeDue(d) PROVE LoopInv'
  BY <1>12
  DEF BecomeDue, clientVars, bearerVars, LoopInv, TypeOK, ClientTypeOK, HeldUnparked, CallInHand, ProbeCounted, Parked
<1>13. CASE UNCHANGED vars
  BY <1>13
  DEF vars, clientVars, bearerVars, loopVars, LoopInv, TypeOK, ClientTypeOK, HeldUnparked, CallInHand, ProbeCounted, Parked
<1> QED
  BY <1>1, <1>2, <1>3, <1>4, <1>5, <1>6, <1>7, <1>8, <1>9, <1>10, <1>11, <1>12, <1>13, <1>14, <1>15, <1>16
  DEF Next, LoopStep, PlatformStep

LEMMA LoopAlways == Spec => []LoopInv
<1> QED
  BY InitLoop, LoopKept, PTL DEF Spec

\* Every variable keeps its type; the count of a row's failures in particular
\* stays at most one past the threshold, where the row is parked.
THEOREM WorkerTypeCorrect == Spec => []TypeOK
<1>1. LoopInv => TypeOK
  BY DEF LoopInv
<1> QED
  BY <1>1, LoopAlways, PTL

-----------------------------------------------------------------------------
(* The client *)

\* Upstream ends a bearer at most a timeout before the client does, unless the
\* answer to its login trickled in.
Lag == ~ trickled => left <= valid + Timeout

\* What was left of the bearer when the request began outlasts two flights.
Room == call.stage = "data" /\ call.answer = "none" => left + call.flight > 2 * Timeout

\* An answer begins within the timeout.
Short == call.answer = "none" => call.flight <= Timeout

\* What a call has waited for answers: in the attempts before, none of which was
\* begun at GiveUp or later, then for the login, then for the answer itself.
Spent ==
    /\ call.waited <= call.spent \/ call.stage \in {"idle", "document", "error"}
    /\ call.stage = "login" =>
          /\ call.waited <= GiveUp - 1 + call.loginSpent
          /\ call.waited <= GiveUp - 1 + LongestLogin
          /\ call.answer = "none" => call.loginSpent <= GiveUp - 1 + call.flight
    /\ call.stage = "data" /\ call.answer = "none" =>
          call.waited <= GiveUp - 1 + LongestLogin + call.flight
    /\ WaitBounded

ClientInv == Lag /\ Room /\ Short /\ Spent

\* Within this bound a process without a healthy probe is sent SIGTERM.
LongestWait == IF InitialDelay > StaleAfter + Period THEN InitialDelay ELSE StaleAfter + Period

\* Every miss makes the silence a period longer; SIGTERM starts the grace.
SilenceInv ==
    /\ ~ probe.term => health.silent + probe.next <= LongestWait + probe.misses * Period
    /\ probe.term => health.silent + probe.grace <= LongestSilence

LEMMA AttemptBegins ==
    ASSUME NEW tries \in Nat, NEW spent \in Nat, NEW waited \in Nat
    PROVE  /\ Attempt(tries, spent, waited).stage = IF NeedsRefresh THEN "login" ELSE "data"
           /\ Attempt(tries, spent, waited).spent = spent
           /\ Attempt(tries, spent, waited).waited = waited
           /\ Attempt(tries, spent, waited).loginSpent = 0
           /\ Attempt(tries, spent, waited).flight = 0
           /\ Attempt(tries, spent, waited).answer = "none"
<1>1. CASE NeedsRefresh
  <2>1. Attempt(tries, spent, waited) =
          [Idle EXCEPT !.stage = "login", !.tries = tries, !.spent = spent, !.waited = waited,
                       !.logins = 1]
    BY <1>1 DEF Attempt
  <2> QED
    BY <1>1, <2>1 DEF Idle
<1>2. CASE ~ NeedsRefresh
  <2>1. Attempt(tries, spent, waited) =
          [Idle EXCEPT !.stage = "data", !.tries = tries, !.spent = spent, !.waited = waited,
                       !.logins = 0]
    BY <1>2 DEF Attempt
  <2> QED
    BY <1>2, <2>1 DEF Idle
<1> QED
  BY <1>1, <1>2

\* An attempt begins with a bearer that lasts, or with a login, and not at
\* GiveUp or later.
LEMMA AttemptKeeps ==
    ASSUME ClientTypeOK, Lag, NEW tries \in Nat, NEW spent \in Nat, NEW waited \in Nat,
           waited <= spent, spent < GiveUp,
           call' = Attempt(tries, spent, waited), UNCHANGED <<left, valid, trickled>>
    PROVE  ClientInv'
<1>1. /\ call'.stage = IF NeedsRefresh THEN "login" ELSE "data"
      /\ call'.spent = spent /\ call'.waited = waited /\ call'.loginSpent = 0
      /\ call'.flight = 0 /\ call'.answer = "none"
  BY AttemptBegins
<1>2. Lag' /\ Short'
  BY <1>1, ClientAssumption DEF Lag, Short
<1>3. Room'
  BY <1>1, ClientAssumption DEF Room, NeedsRefresh, ClientTypeOK
<1>4. Spent'
  BY <1>1, ClientAssumption DEF Spent, WaitBounded, LongestWaited, LongestLogin
<1> QED
  BY <1>2, <1>3, <1>4 DEF ClientInv

\* A call that is over has nothing of its times left.
LEMMA EndKeeps ==
    ASSUME Lag, call'.stage \in {"idle", "document", "error"}, call'.waited = 0, call'.flight = 0,
           UNCHANGED <<left, valid, trickled>>
    PROVE  ClientInv'
  BY ClientAssumption
  DEF ClientInv, Lag, Room, Short, Spent, WaitBounded, LongestWaited, LongestLogin

LEMMA ReturnedKeeps ==
    ASSUME Lag, NEW s \in {"document", "error"}, call' = Returned(s),
           UNCHANGED <<left, valid, trickled>>
    PROVE  ClientInv'
<1>1. call'.stage = s /\ call'.waited = 0 /\ call'.flight = 0
  BY DEF Returned, Idle
<1> QED
  BY <1>1, EndKeeps

LEMMA AnswerKeeps ==
    ASSUME ClientTypeOK, ClientInv, AnswerArrives
    PROVE  ClientInv'
<1>0. call \in Calls /\ Lag
  BY CallTyped DEF ClientInv
<1>1. ASSUME NEW s \in {"document", "error"}, call' = Returned(s), UNCHANGED <<bearerVars, faults>>
      PROVE  ClientInv'
  BY <1>0, <1>1, ReturnedKeeps DEF bearerVars
<1>2. CASE Transient
  <2>0. UNCHANGED <<left, valid, trickled>> /\ call.stage \in {"login", "data"}
    BY <1>2 DEF Transient, bearerVars
  <2>1. CASE call.stage = "login" /\ MayRetry(call.logins, call.loginSpent)
    <3>1. call' = [call EXCEPT !.logins = @ + 1, !.flight = 0, !.answer = "none"]
      BY <1>2, <2>1 DEF Transient
    <3>2. /\ call'.stage = "login" /\ call'.spent = call.spent /\ call'.waited = call.waited
          /\ call'.loginSpent = call.loginSpent /\ call'.flight = 0 /\ call'.answer = "none"
      BY <1>0, <2>1, <3>1 DEF Calls
    <3>3. call.loginSpent \in Nat /\ call.loginSpent < GiveUp
      BY <1>0, <2>1 DEF MayRetry, Calls
    <3>4. Lag' /\ Room' /\ Short'
      BY <1>0, <2>0, <3>2, ClientAssumption DEF Lag, Room, Short
    <3>5. Spent'
      BY <2>1, <3>2, <3>3, ClientAssumption DEF ClientInv, Spent, WaitBounded
    <3> QED
      BY <3>4, <3>5 DEF ClientInv
  <2>2. CASE ~ (call.stage = "login" /\ MayRetry(call.logins, call.loginSpent))
    <3>1. call' = OuterFails
      BY <1>2, <2>2 DEF Transient
    <3>2. CASE MayRetry(call.tries, call.spent)
      <4>1. /\ call.spent < GiveUp /\ call.spent \in Nat /\ call.waited \in Nat
            /\ call.tries + 1 \in Nat
        BY <1>0, <3>2, ClientAssumption DEF MayRetry, Calls
      <4>2. call.waited <= call.spent
        BY <2>0 DEF ClientInv, Spent
      <4>3. call' = Attempt(call.tries + 1, call.spent, call.waited)
        BY <3>1, <3>2 DEF OuterFails
      <4> QED
        BY <1>0, <2>0, <4>1, <4>2, <4>3, AttemptKeeps
    <3>3. CASE ~ MayRetry(call.tries, call.spent)
      BY <1>0, <2>0, <3>1, <3>3, ReturnedKeeps DEF OuterFails
    <3> QED
      BY <3>2, <3>3
  <2> QED
    BY <2>1, <2>2
<1>3. CASE LoginAnswered
  <2>1. PICK late \in 0..call.flight : valid' = IF late < TTL THEN TTL - late ELSE 0
    BY <1>3 DEF LoginAnswered
  <2>2. call' = [call EXCEPT !.stage = "data", !.logins = 0, !.loginSpent = 0, !.flight = 0,
                            !.answer = "none"]
    BY <1>3 DEF LoginAnswered
  <2>3. /\ call'.stage = "data" /\ call'.spent = call.spent /\ call'.waited = call.waited
        /\ call'.flight = 0 /\ call'.answer = "none"
    BY <1>0, <2>2 DEF Calls
  <2>4. /\ call.waited <= GiveUp - 1 + LongestLogin /\ call.waited <= call.spent
        /\ call.spent \in Nat /\ call.waited \in Nat /\ call.flight \in Nat
    BY <1>0, <1>3 DEF LoginAnswered, ClientInv, Spent, Calls
  <2>5. left' = TTL /\ (~ trickled' => call.flight <= Timeout)
    <3>1. left' = TTL /\ trickled' = (call.flight > Timeout)
      BY <1>3 DEF LoginAnswered
    <3>2. ~ (call.flight > Timeout) => call.flight <= Timeout
      BY <2>4, ClientAssumption
    <3> QED
      BY <3>1, <3>2, Zenon
  <2>6. Lag'
    BY <2>1, <2>4, <2>5, ClientAssumption DEF Lag
  <2>7. Room' /\ Short'
    BY <2>3, <2>5, ClientAssumption DEF Room, Short
  <2>8. Spent'
    BY <2>3, <2>4, ClientAssumption DEF Spent, WaitBounded, LongestWaited, LongestLogin
  <2> QED
    BY <2>6, <2>7, <2>8 DEF ClientInv
<1> QED
  BY <1>1, <1>2, <1>3
  DEF AnswerArrives, LoginRefused, DataAnswered, DataUnauthorized, DataRejected

\* The first piece of an answer leaves less to show.
LEMMA BeginKeeps ==
    ASSUME ClientTypeOK, ClientInv, AnswerBegins
    PROVE  ClientInv'
<1>1. PICK a \in {"accepted", "refused"} : call' = [call EXCEPT !.answer = a]
  BY DEF AnswerBegins
<1>2. /\ call'.answer # "none" /\ call'.stage = call.stage /\ call'.spent = call.spent
      /\ call'.waited = call.waited /\ call'.loginSpent = call.loginSpent
  BY <1>1, CallTyped DEF Calls
<1>3. Lag' /\ Room' /\ Short'
  BY <1>2 DEF AnswerBegins, bearerVars, ClientInv, Lag, Room, Short
<1>4. Spent'
  BY <1>2 DEF ClientInv, Spent, WaitBounded
<1> QED
  BY <1>3, <1>4 DEF ClientInv

\* Time passes for the bearer on both sides, and for the call if one is open.
LEMMA ElapseKeeps ==
    ASSUME LoopInv, ClientInv, Elapse
    PROVE  ClientInv'
<1>0. call \in Calls /\ left \in Nat /\ valid \in Nat
  BY CallTyped, ClientAssumption DEF LoopInv, TypeOK, ClientTypeOK
<1>1. left' = Less(left) /\ valid' = Less(valid) /\ trickled' = trickled
  BY DEF Elapse, ClientElapse
<1>2. Lag' /\ left' >= left - 1
  BY <1>0, <1>1, ClientAssumption DEF ClientInv, Lag, Less
<1>3. CASE ~ InFlight
  <2>1. call' = call /\ call.stage \in {"idle", "document", "error"}
    BY <1>0, <1>3 DEF Elapse, ClientElapse, InFlight, Calls
  <2> QED
    BY <1>2, <2>1 DEF ClientInv, Room, Short, Spent, WaitBounded
<1>4. CASE InFlight
  <2>1. AnswerOpen
    BY <1>4, FlightOpen
  <2>2. call' = [call EXCEPT !.spent = @ + 1, !.flight = @ + 1,
                    !.waited = IF call.answer = "none" THEN @ + 1 ELSE @,
                    !.loginSpent = IF call.stage = "login" THEN @ + 1 ELSE @]
    BY <1>4 DEF Elapse, ClientElapse
  <2>3. /\ call'.stage = call.stage /\ call'.spent = call.spent + 1
        /\ call'.flight = call.flight + 1 /\ call'.answer = call.answer
        /\ call'.waited = IF call.answer = "none" THEN call.waited + 1 ELSE call.waited
        /\ call.stage = "login" => call'.loginSpent = call.loginSpent + 1
    BY <1>0, <2>2 DEF Calls
  <2>4. /\ call.spent \in Nat /\ call.waited \in Nat /\ call.loginSpent \in Nat
        /\ call.flight \in Nat /\ call.stage \in {"login", "data"}
    BY <1>0, <1>4 DEF InFlight, Calls
  <2>5. Room'
    <3>1. call.stage = "data" /\ call.answer = "none" => left + call.flight > 2 * Timeout
      BY DEF ClientInv, Room
    <3>2. left' \in Int /\ left \in Int /\ call.flight \in Int
      BY <1>0, <1>1, <2>4 DEF Less
    <3> QED
      BY <1>2, <2>3, <3>1, <3>2, ClientAssumption DEF Room
  <2>6. CASE call.answer = "none"
    <3>1. call.flight < Timeout
      BY <2>1, <2>6 DEF AnswerOpen
    <3>2. Short'
      BY <2>3, <2>4, <3>1, ClientAssumption DEF Short
    <3>3. Spent'
      <4>1. CASE call.stage = "login"
        BY <2>3, <2>4, <2>6, <3>1, <4>1, ClientAssumption
        DEF ClientInv, Spent, WaitBounded, LongestWaited, LongestLogin
      <4>2. CASE call.stage = "data"
        BY <2>3, <2>4, <2>6, <3>1, <4>2, ClientAssumption
        DEF ClientInv, Spent, WaitBounded, LongestWaited, LongestLogin
      <4> QED
        BY <2>4, <4>1, <4>2
    <3> QED
      BY <1>2, <2>5, <3>2, <3>3 DEF ClientInv
  <2>7. CASE call.answer # "none"
    <3>1. Short'
      BY <2>3, <2>7 DEF Short
    <3>2. Spent'
      BY <2>3, <2>4, <2>7, ClientAssumption DEF ClientInv, Spent, WaitBounded
    <3> QED
      BY <1>2, <2>5, <3>1, <3>2 DEF ClientInv
  <2> QED
    BY <2>6, <2>7
<1> QED
  BY <1>3, <1>4

LEMMA InitClient == Init => ClientInv
  BY ClientAssumption
  DEF Init, ClientInit, ClientInv, Lag, Room, Short, Spent, WaitBounded, LongestWaited,
      LongestLogin, Idle

LEMMA ClientKept == LoopInv /\ ClientInv /\ [Next]_vars => ClientInv'
<1> SUFFICES ASSUME LoopInv, ClientInv, [Next]_vars PROVE ClientInv'
  OBVIOUS
<1>1. CASE UNCHANGED <<left, valid, trickled, call>>
  BY <1>1 DEF ClientInv, Lag, Room, Short, Spent, WaitBounded
<1>2. CASE UNCHANGED <<left, valid, trickled>> /\ call' = Idle
  BY <1>2, EndKeeps DEF Idle, ClientInv
<1>3. CASE NewProcess
  BY <1>3, ClientAssumption
  DEF NewProcess, NewClient, ClientInv, Lag, Room, Short, Spent, WaitBounded, LongestWaited,
      LongestLogin, Idle
<1>4. ASSUME NEW d \in Docs, StartPoll(d) PROVE ClientInv'
  <2>1. call' = Attempt(1, 0, 0) /\ UNCHANGED <<left, valid, trickled>>
    BY <1>4 DEF StartPoll, GetMarkdown, bearerVars
  <2>2. 0 < GiveUp /\ 0 <= 0 /\ ClientTypeOK /\ Lag
    BY ClientAssumption DEF LoopInv, TypeOK, ClientInv
  <2> QED
    BY <2>1, <2>2, AttemptKeeps, 1 \in Nat, 0 \in Nat
<1>5. CASE Polling
  BY <1>5, AnswerKeeps DEF Polling, LoopInv, TypeOK
<1>6. CASE Elapse
  BY <1>6, ElapseKeeps
<1>7. CASE AnswerBegins
  BY <1>7, BeginKeeps DEF LoopInv, TypeOK
<1>8. CASE LoopStep
  BY <1>1, <1>2, <1>4, <1>8
  DEF LoopStep, Claim, PollEnds, PollRefused, TickRaises, EndTick, EmptyTick, clientVars, bearerVars
<1>9. CASE PlatformStep
  BY <1>1, <1>3, <1>9 DEF PlatformStep, Probe, Exit, Kill, clientVars, bearerVars
<1> QED
  BY <1>1, <1>2, <1>5, <1>6, <1>7, <1>8, <1>9
  DEF Next, GetsStuck, ConnectionLost, TickRaises, BecomeDue, Revoke, vars, clientVars, bearerVars

LEMMA ClientAlways == Spec => [](LoopInv /\ ClientInv)
<1> QED
  BY InitLoop, LoopKept, InitClient, ClientKept, PTL DEF Spec

LEMMA RoomHonours == ClientTypeOK /\ ClientInv => BearerHonoured
<1> SUFFICES ASSUME ClientTypeOK, ClientInv, call.stage = "data", call.answer = "none", ~ trickled
             PROVE  valid > 0
  BY DEF BearerHonoured, Honoured
<1>1. left \in Nat /\ valid \in Nat /\ call.flight \in Nat
  BY CallTyped, ClientAssumption DEF ClientTypeOK, Calls
<1> QED
  BY <1>1, ClientAssumption DEF ClientInv, Lag, Room, Short

\* Upstream accepts the bearer of every request until its answer begins,
\* whatever the lengths of a wait, a bearer and the buffer are as long as two
\* waits fit in what is left when it is replaced: for the login whose answer
\* came late, and for the request itself. A login whose answer trickles in, or a
\* bearer revoked, is the exception (client.py _needs_refresh).
THEOREM BearerIsHonoured == Spec => []BearerHonoured
<1>1. LoopInv /\ ClientInv => BearerHonoured
  BY RoomHonours DEF LoopInv, TypeOK
<1> QED
  BY <1>1, ClientAlways, PTL

\* What a call waits for answers to begin stays within twice what one envelope of
\* retries may last, whatever the answers do that have begun: the login of the
\* last attempt has an envelope of its own (client.py _request_with_retry).
THEOREM WaitIsBounded == Spec => []WaitBounded
<1>1. ClientInv => WaitBounded
  BY DEF ClientInv, Spent
<1> QED
  BY <1>1, ClientAlways, PTL

-----------------------------------------------------------------------------
(* The probe *)

LEMMA Periods ==
    ASSUME NEW m \in Nat, NEW n \in Nat, m <= n
    PROVE  /\ m * Period <= n * Period /\ m * Period \in Nat
           /\ (m + 1) * Period = m * Period + Period
  BY ProbeAssumption

LEMMA SilenceTyped ==
    ASSUME TypeOK
    PROVE  /\ health.silent \in Nat /\ probe.next \in Nat /\ probe.misses \in Nat
           /\ probe.grace \in Nat /\ probe.grace <= Grace /\ Grace \in Nat
           /\ LongestWait \in Nat
           /\ LongestSilence = LongestWait + (ProbeFailures - 1) * Period + Grace
           /\ ProbeFailures - 1 \in Nat /\ (ProbeFailures - 1) * Period \in Nat
  BY ProbeAssumption DEF TypeOK, LongestWait, LongestSilence

LEMMA InitSilence == Init => SilenceInv
  BY ProbeAssumption DEF Init, NewHealth, NewProbe, SilenceInv, LongestWait

\* A step after which the last tick is as recent and the next probe no later.
LEMMA SilenceKept == LoopInv /\ SilenceInv /\ [Next]_vars => SilenceInv'
<1> SUFFICES ASSUME LoopInv, SilenceInv, [Next]_vars PROVE SilenceInv'
  OBVIOUS
<1> USE ProbeAssumption
<1>0. TypeOK /\ LoopInv'
  BY LoopKept DEF LoopInv
<1>1. CASE UNCHANGED probe /\ (UNCHANGED health \/ health' = Touched)
  BY <1>0, <1>1, SilenceTyped DEF SilenceInv, Touched
<1>2. CASE Probe
  <2>1. /\ ~ probe.term /\ probe.next = 0 /\ health' = health
        /\ probe \in [next : Nat, misses : 0..ProbeFailures, term : BOOLEAN, grace : 0..Grace]
    BY <1>0, <1>2 DEF Probe, TypeOK
  <2>2. CASE IsHealthy
    <3>1. probe' = [probe EXCEPT !.next = Period, !.misses = 0]
      BY <1>2, <2>2 DEF Probe
    <3>2. probe'.next = Period /\ probe'.misses = 0 /\ ~ probe'.term
      BY <2>1, <3>1
    <3> QED
      BY <1>0, <2>1, <2>2, <3>2, SilenceTyped DEF SilenceInv, IsHealthy, LongestWait
  <2>3. CASE ~ IsHealthy
    <3>1. probe' = [probe EXCEPT !.next = Period, !.misses = @ + 1,
                                 !.term = (probe.misses + 1 = ProbeFailures)]
      BY <1>2, <2>3 DEF Probe
    <3>2. /\ probe'.next = Period /\ probe'.misses = probe.misses + 1
          /\ probe'.grace = probe.grace /\ (probe'.term <=> probe.misses + 1 = ProbeFailures)
      BY <2>1, <3>1
    <3>3. health.silent <= LongestWait + probe.misses * Period /\ probe.grace = Grace
      BY <1>0, <2>1, SilenceTyped, Periods DEF SilenceInv, LoopInv, ProbeCounted
    <3>4. CASE probe'.term
      <4>1. probe.misses = ProbeFailures - 1
        BY <1>0, <3>2, <3>4, SilenceTyped
      <4> QED
        BY <1>0, <2>1, <3>2, <3>3, <3>4, <4>1, SilenceTyped DEF SilenceInv
    <3>5. CASE ~ probe'.term
      BY <1>0, <2>1, <3>2, <3>3, <3>5, SilenceTyped, Periods DEF SilenceInv
    <3> QED
      BY <3>4, <3>5
  <2> QED
    BY <2>2, <2>3
<1>3. CASE NewProcess
  BY <1>3 DEF NewProcess, NewHealth, NewProbe, SilenceInv, LongestWait
<1>4. CASE Elapse
  <2>1. /\ health \in [ticked : BOOLEAN, silent : Nat]
        /\ probe \in [next : Nat, misses : 0..ProbeFailures, term : BOOLEAN, grace : 0..Grace]
    BY <1>0 DEF TypeOK
  <2>2. health'.silent = health.silent + 1
    BY <1>4, <2>1 DEF Elapse
  <2>3. CASE probe.term
    <3>1. probe.grace > 0 /\ probe' = [probe EXCEPT !.grace = @ - 1]
      BY <1>4, <2>3 DEF Elapse, MayWait
    <3>2. probe'.term /\ probe'.grace = probe.grace - 1
      BY <2>1, <2>3, <3>1
    <3> QED
      BY <1>0, <2>2, <2>3, <3>2, SilenceTyped DEF SilenceInv
  <2>4. CASE ~ probe.term
    <3>1. probe.next > 0 /\ probe' = [probe EXCEPT !.next = @ - 1]
      BY <1>4, <2>4 DEF Elapse, MayWait
    <3>2. ~ probe'.term /\ probe'.next = probe.next - 1 /\ probe'.misses = probe.misses
      BY <2>1, <2>4, <3>1
    <3> QED
      BY <1>0, <2>2, <2>4, <3>2, SilenceTyped DEF SilenceInv
  <2> QED
    BY <2>3, <2>4
<1> QED
  BY <1>1, <1>2, <1>3, <1>4
  DEF Next, LoopStep, PlatformStep, Polling, Claim, StartPoll, PollEnds, EndTick, EmptyTick,
      GetsStuck, PollRefused, ConnectionLost, TickRaises, AnswerBegins, Revoke, BecomeDue,
      Exit, Kill, vars, loopVars

\* No process is without a tick for longer than the probe and the grace leave
\* it, for every setting of the probe, also one that waits long before its
\* first request: what hangs is replaced (health.py is_healthy, loop.py touch,
\* container-app-worker.bicep).
THEOREM SilenceIsBounded == Spec => []SilenceBounded
<1>1. LoopInv /\ SilenceInv => SilenceBounded
  <2> SUFFICES ASSUME LoopInv, SilenceInv PROVE SilenceBounded
    OBVIOUS
  <2>1. TypeOK
    BY DEF LoopInv
  <2>2. CASE probe.term
    BY <2>1, <2>2, SilenceTyped DEF SilenceInv, SilenceBounded
  <2>3. CASE ~ probe.term
    <3>1. probe.misses <= ProbeFailures - 1
      BY <2>1, <2>3, SilenceTyped, ProbeAssumption DEF LoopInv, ProbeCounted
    <3>2. probe.misses * Period <= (ProbeFailures - 1) * Period /\ probe.misses * Period \in Nat
      BY <2>1, <3>1, SilenceTyped, Periods
    <3> QED
      BY <2>1, <2>3, <3>2, SilenceTyped DEF SilenceInv, SilenceBounded
  <2> QED
    BY <2>2, <2>3
<1> QED
  BY <1>1, InitLoop, LoopKept, InitSilence, SilenceKept, PTL DEF Spec

-----------------------------------------------------------------------------
(* Numbers in order *)

\* A non-empty set of natural numbers has a least element.
LEMMA LeastNumber ==
    ASSUME NEW S \in SUBSET Nat, S # {}
    PROVE  \E x \in S : \A y \in S : x <= y
<1> DEFINE Below == {0..x : x \in S}
<1>1. Below \subseteq FiniteSubsetsOf(Nat) /\ Below # {}
  <2>1. \A x \in S : IsFiniteSet(0..x) /\ 0..x \subseteq Nat
    BY FS_Interval
  <2> QED
    BY <2>1 DEF FiniteSubsetsOf
<1>2. PICK X \in Below : \A Y \in Below : <<Y, X>> \notin StrictSubsetOrdering(Nat)
  <2> HIDE DEF Below
  <2> QED
    BY <1>1, WFMin, FS_StrictSubsetOrderingWellFounded
<1>3. PICK x \in S : X = 0..x
  OBVIOUS
<1>4. ASSUME NEW y \in S, y < x PROVE FALSE
  <2>1. 0..y \subseteq 0..x /\ x \in 0..x /\ x \notin 0..y
    BY <1>4
  <2>2. 0..y \subseteq Nat /\ 0..x \subseteq Nat
    OBVIOUS
  <2>3. <<0..y, 0..x>> \in StrictSubsetOrdering(Nat)
    BY <2>1, <2>2 DEF StrictSubsetOrdering
  <2>4. 0..y \in Below
    OBVIOUS
  <2> QED
    BY <1>2, <1>3, <2>3, <2>4
<1> QED
  BY <1>4

\* A finite one has a greatest.
LEMMA GreatestNumber ==
    ASSUME NEW n \in Nat, NEW S \in SUBSET (0..n), S # {}
    PROVE  \E x \in S : \A y \in S : y <= x
<1> DEFINE T == {n - x : x \in S}
<1>1. PICK t \in T : \A u \in T : t <= u
  <2>1. T \subseteq Nat /\ T # {}
    OBVIOUS
  <2> HIDE DEF T
  <2> QED
    BY <2>1, LeastNumber
<1>2. PICK x \in S : t = n - x
  OBVIOUS
<1>3. ASSUME NEW y \in S PROVE y <= x
  BY <1>1, <1>2
<1> QED
  BY <1>3

LEMMA NumbersFinite ==
    ASSUME NEW n \in Nat, NEW S \in SUBSET (0..n)
    PROVE  IsFiniteSet(S) /\ Cardinality(S) \in Nat
<1>1. IsFiniteSet(0..n)
  BY FS_Interval
<1>2. IsFiniteSet(S)
  BY <1>1, FS_Subset
<1> QED
  BY <1>2, FS_CardinalityType

\* How many members of a set are no greater than x.
Rank(S, x) == Cardinality({y \in S : y <= x})

LEMMA RankUpTo ==
    ASSUME NEW n \in Nat, NEW S \in SUBSET (0..n), NEW x \in S
    PROVE  /\ Rank(S, x) \in 1..Cardinality(S)
           /\ \A y \in S : x < y => Rank(S, x) < Rank(S, y)
<1> DEFINE Low(z) == {y \in S : y <= z}
<1>1. IsFiniteSet(S)
  BY NumbersFinite
<1>2. \A z : IsFiniteSet(Low(z)) /\ Cardinality(Low(z)) \in Nat
             /\ Cardinality(Low(z)) <= Cardinality(S)
  BY <1>1, FS_Subset, FS_CardinalityType
<1>3. Cardinality(S) \in Nat
  BY <1>1, FS_CardinalityType
<1>4. Cardinality(Low(x)) # 0
  BY <1>2, FS_EmptySet
<1>5. ASSUME NEW y \in S, x < y
      PROVE  Cardinality(Low(x)) < Cardinality(Low(y))
  <2>0. x \in Nat /\ \A z \in S : z \in Nat
    OBVIOUS
  <2>1. Low(x) \subseteq Low(y) /\ y \in Low(y) /\ y \notin Low(x)
    <3>1. y \in Nat /\ ~ (y <= x) /\ y <= y
      BY <1>5, <2>0
    <3>2. \A z \in S : z <= x => z <= y
      BY <1>5, <2>0, <3>1
    <3> QED
      BY <3>1, <3>2
  <2>2. Cardinality(Low(x)) <= Cardinality(Low(y)) /\ Cardinality(Low(x)) # Cardinality(Low(y))
    BY <1>2, <2>1, FS_Subset
  <2> QED
    BY <1>2, <2>2
<1> QED
  BY <1>2, <1>3, <1>4, <1>5 DEF Rank

\* InOrder lists every member of a finite set of numbers once, the lesser first.
LEMMA InOrderLists ==
    ASSUME NEW n \in Nat, NEW S \in SUBSET (0..n)
    PROVE  /\ Len(InOrder(S)) \in Nat
           /\ InOrder(S) \in [1..Len(InOrder(S)) -> S]
           /\ InOrder(S) \in Seq(S)
           /\ \A x \in S : \E k \in 1..Len(InOrder(S)) : InOrder(S)[k] = x
           /\ \A k, l \in 1..Len(InOrder(S)) : k < l => InOrder(S)[k] < InOrder(S)[l]
<1> DEFINE N == Cardinality(S)
           rank == [x \in S |-> Rank(S, x)]
<1>1. IsFiniteSet(S) /\ N \in Nat
  BY NumbersFinite
<1>r. \A x \in S : /\ Rank(S, x) \in 1..N /\ x \in Nat
                  /\ \A y \in S : x < y => Rank(S, x) < Rank(S, y)
  <2>1. ASSUME NEW x \in S
        PROVE  Rank(S, x) \in 1..N /\ \A y \in S : x < y => Rank(S, x) < Rank(S, y)
    BY RankUpTo
  <2> QED
    BY <2>1
<1>2. rank \in [S -> 1..N]
  BY <1>r
<1>3. \A x, y \in S : x # y => rank[x] # rank[y]
  <2>1. ASSUME NEW x \in S, NEW y \in S, x < y PROVE Rank(S, x) # Rank(S, y)
    BY <1>1, <1>r, <2>1
  <2>2. \A x, y \in S : x # y => x < y \/ y < x
    BY <1>r
  <2> QED
    BY <2>1, <2>2
<1>4. rank \in Injection(S, 1..N)
  BY <1>2, <1>3 DEF Injection, IsInjective
<1>5. Cardinality(1..N) = N /\ IsFiniteSet(1..N)
  BY <1>1, FS_Interval
<1>6. rank \in Surjection(S, 1..N)
  BY <1>4, <1>5, FS_Injection
<1>7. \A k \in 1..N : \E x \in S : Rank(S, x) = k
  BY <1>6 DEF Surjection
<1>8. \A k \in 1..N : InOrder(S)[k] \in S /\ Rank(S, InOrder(S)[k]) = k
  BY <1>7 DEF InOrder, Rank
<1>9. Len(InOrder(S)) = N /\ InOrder(S) \in [1..N -> S]
  <2>1. InOrder(S) = [k \in 1..N |-> InOrder(S)[k]]
    BY DEF InOrder
  <2> QED
    BY <1>1, <1>8, <2>1
<1>10. \A x \in S : Rank(S, x) \in 1..N /\ InOrder(S)[Rank(S, x)] = x
  BY <1>2, <1>3, <1>8
<1>11. ASSUME NEW k \in 1..N, NEW l \in 1..N, k < l
       PROVE  InOrder(S)[k] < InOrder(S)[l]
  <2>1. InOrder(S)[k] \in S /\ InOrder(S)[l] \in S /\ InOrder(S)[k] # InOrder(S)[l]
    BY <1>8, <1>11
  <2>2. CASE InOrder(S)[l] < InOrder(S)[k]
    <3>1. Rank(S, InOrder(S)[l]) < Rank(S, InOrder(S)[k])
      BY <1>r, <2>1, <2>2
    <3> QED
      BY <1>8, <1>11, <3>1
  <2>3. InOrder(S)[k] \in Nat /\ InOrder(S)[l] \in Nat
    BY <1>r, <2>1
  <2> QED
    BY <2>1, <2>2, <2>3
<1>12. InOrder(S) \in Seq(S)
  BY <1>1, <1>9
<1> QED
  BY <1>1, <1>9, <1>10, <1>11, <1>12

-----------------------------------------------------------------------------
(* The clause tree *)

Segments == (Labels \cup Titles \cup {"#"}) \X (Nat \ {0})

\* The last segment of a clause's path.
Seg(i) == nodes[i].path[Len(nodes[i].path)]

\* The open clauses are clauses of the tree, the root the first.
StackInTree == stack # <<>> /\ stack[1] = 1 /\ \A k \in DOMAIN stack : stack[k] \in DOMAIN nodes

Rooted == nodes # <<>> /\ nodes[1].path = <<>> /\ nodes[1].parent = 0

\* The path of a clause is its parent's and one segment more.
Lineage ==
    \A i \in 2..Len(nodes) :
        /\ nodes[i].parent \in DOMAIN nodes
        /\ Seg(i) \in Segments
        /\ nodes[i].path = Append(nodes[nodes[i].parent].path, Seg(i))

\* A child without a name is numbered no further than its parent counts.
Counted ==
    \A i \in 2..Len(nodes) : Seg(i)[1] = "#" => Seg(i)[2] <= nodes[nodes[i].parent].kids

TreeInv == TreeOK /\ StackInTree /\ Rooted /\ Lineage /\ Counted /\ PathsUnique

LEMMA PathTyped == ASSUME TreeOK, NEW i \in DOMAIN nodes PROVE nodes[i].path \in Seq(Segments)
<1>1. nodes[i] \in NodeSet
  BY DEF TreeOK
<1> QED
  BY <1>1 DEF NodeSet, Segments

LEMMA InitTree == nodes = <<Root>> /\ stack = << 1 >> /\ pending = NoText /\ blocks \in 0..MaxBlocks => TreeInv
<1> SUFFICES ASSUME nodes = <<Root>>, stack = << 1 >>, pending = NoText, blocks \in 0..MaxBlocks
             PROVE  TreeInv
  OBVIOUS
<1>1. Root \in NodeSet /\ Root.path = <<>> /\ Root.parent = 0
  BY DEF Root, NodeSet
<1>2. Len(nodes) = 1 /\ DOMAIN nodes = {1} /\ nodes[1] = Root /\ DOMAIN stack = {1} /\ stack[1] = 1
  OBVIOUS
<1>3. nodes \in Seq(NodeSet) /\ stack \in Seq(Nat \ {0}) /\ nodes # <<>> /\ stack # <<>>
  BY <1>1
<1>4. TreeOK /\ StackInTree /\ Rooted
  BY <1>1, <1>2, <1>3 DEF TreeOK, StackInTree, Rooted
<1>5. Lineage /\ Counted /\ PathsUnique
  BY <1>2 DEF Lineage, Counted, PathsUnique
<1> QED
  BY <1>4, <1>5 DEF TreeInv

\* The segments of the children are the last ones of their paths.
LEMMA TakenSegs ==
    ASSUME TreeInv, NEW p \in DOMAIN nodes
    PROVE  Taken(p) = {Seg(k) : k \in {j \in 2..Len(nodes) : nodes[j].parent = p}}
<1>1. DOMAIN nodes = 1..Len(nodes) /\ p # 0
  BY DEF TreeInv, TreeOK
<1>2. {j \in DOMAIN nodes : nodes[j].parent = p} = {j \in 2..Len(nodes) : nodes[j].parent = p}
  BY <1>1 DEF TreeInv, Rooted
<1> QED
  BY <1>2 DEF Taken, Seg

\* There is always a suffix that no sibling carries: they are fewer.
LEMMA FreeName ==
    ASSUME TreeInv, NEW p \in DOMAIN nodes, NEW name
    PROVE  \E n \in Nat \ {0} : /\ DisambiguateSegment(name, p) = <<name, n>>
                                /\ <<name, n>> \notin Taken(p)
<1> DEFINE N == Len(nodes)
           free == {n \in 1..(N + 1) : <<name, n>> \notin Taken(p)}
<1>1. N \in Nat /\ DOMAIN nodes = 1..N
  BY DEF TreeInv, TreeOK
<1>2. free # {}
  <2> SUFFICES ASSUME free = {} PROVE FALSE
    OBVIOUS
  <2>1. \A n \in 1..(N + 1) : \E k \in 1..N : Seg(k) = <<name, n>>
    <3>1. \A n \in 1..(N + 1) : <<name, n>> \in {Seg(k) : k \in {j \in 2..N : nodes[j].parent = p}}
      BY TakenSegs
    <3> QED
      BY <1>1, <3>1
  <2> DEFINE f == [n \in 1..(N + 1) |-> CHOOSE k \in 1..N : Seg(k) = <<name, n>>]
  <2>2. \A n \in 1..(N + 1) : f[n] \in 1..N /\ Seg(f[n]) = <<name, n>>
    BY <2>1
  <2>3. f \in [1..(N + 1) -> 1..N]
    BY <2>2
  <2>4. /\ IsFiniteSet(1..N) /\ Cardinality(1..N) = N
        /\ IsFiniteSet(1..(N + 1)) /\ Cardinality(1..(N + 1)) = N + 1
    <3>1. 1 \in Int /\ N \in Int /\ N + 1 \in Int /\ N >= 0
      BY <1>1
    <3> HIDE DEF N
    <3> QED
      BY <3>1, FS_Interval
  <2>5. Cardinality(1..N) < Cardinality(1..(N + 1))
    BY <1>1, <2>4
  <2> HIDE DEF f
  <2>6. PICK x, y \in 1..(N + 1) : x # y /\ f[x] = f[y]
    BY <2>3, <2>4, <2>5, FS_PigeonHole
  <2> QED
    BY <2>2, <2>6
<1>3. PICK n \in free : \A m \in free : n <= m
  <2>1. free \subseteq Nat
    OBVIOUS
  <2> HIDE DEF free
  <2> QED
    BY <1>2, <2>1, LeastNumber
<1>4. \E m \in 1..(N + 1) : /\ <<name, m>> \notin Taken(p)
                            /\ \A k \in 1..(m - 1) : <<name, k>> \in Taken(p)
  <2>1. n \in 1..(N + 1) /\ <<name, n>> \notin Taken(p)
    OBVIOUS
  <2>2. ASSUME NEW k \in 1..(n - 1) PROVE <<name, k>> \in Taken(p)
    <3>1. k \in 1..(N + 1) /\ ~ (n <= k)
      BY <1>1, <2>1
    <3> QED
      BY <1>3, <3>1
  <2> QED
    BY <2>1, <2>2
<1>5. PICK m : /\ m = CHOOSE i \in 1..(N + 1) : /\ <<name, i>> \notin Taken(p)
                                             /\ \A k \in 1..(i - 1) : <<name, k>> \in Taken(p)
  OBVIOUS
<1>6. m \in 1..(N + 1) /\ <<name, m>> \notin Taken(p)
  BY <1>4, <1>5
<1>7. DisambiguateSegment(name, p) = <<name, m>>
  BY <1>5 DEF DisambiguateSegment
<1> QED
  BY <1>6, <1>7

\* The stack keeps a first part, the root in it.
LEMMA PoppedPart ==
    ASSUME StackInTree, stack \in Seq(Nat \ {0}), NEW depth
    PROVE  \E k \in DOMAIN stack : Popped(depth) = SubSeq(stack, 1, k)
<1> DEFINE open == {k \in DOMAIN stack : k = 1 \/ nodes[stack[k]].depth < depth}
<1>1. DOMAIN stack = 1..Len(stack) /\ Len(stack) \in Nat /\ 1 \in DOMAIN stack
  BY DEF StackInTree
<1>2. open \subseteq 0..Len(stack) /\ open # {}
  BY <1>1
<1>3. \E k \in open : \A j \in open : j <= k
  <2> HIDE DEF open
  <2> QED
    BY <1>1, <1>2, GreatestNumber
<1>4. (CHOOSE k \in open : \A j \in open : j <= k) \in open
  BY <1>3
<1>5. Popped(depth) = SubSeq(stack, 1, CHOOSE k \in open : \A j \in open : j <= k)
  BY DEF Popped
<1> QED
  BY <1>4, <1>5

LEMMA AppendApart ==
    ASSUME NEW S, NEW s \in Seq(S), NEW t \in Seq(S), NEW e \in S, NEW f \in S,
           Append(s, e) = Append(t, f)
    PROVE  s = t /\ e = f
  BY AppendInjective

LEMMA PathApart ==
    \A s, t \in Seq(Segments) : \A e, f \in Segments :
        Append(s, e) = Append(t, f) => s = t /\ e = f
  BY AppendApart

LEMMA BranchApart ==
    ASSUME NEW p, NEW q, NEW i, NEW seg \in Segments, Seg(i) \in Segments,
           nodes[p].path \in Seq(Segments), nodes[q].path \in Seq(Segments),
           Append(nodes[q].path, Seg(i)) = Append(nodes[p].path, seg)
    PROVE  nodes[q].path = nodes[p].path /\ Seg(i) = seg
<1>1. PICK s, t, e : s = nodes[q].path /\ t = nodes[p].path /\ e = Seg(i)
  OBVIOUS
<1>2. s \in Seq(Segments) /\ t \in Seq(Segments) /\ e \in Segments /\ Append(s, e) = Append(t, seg)
  BY <1>1
<1>3. s = t /\ e = seg
  BY ONLY <1>2, seg \in Segments, PathApart
<1> QED
  BY <1>1, <1>3

LEMMA KidCounted == ASSUME NEW r \in NodeSet PROVE [r EXCEPT !.kids = @ + 1] \in NodeSet
<1>1. PICK k : k = r.kids + 1
  OBVIOUS
<1>2. k \in Nat
  BY <1>1 DEF NodeSet
<1>3. [r EXCEPT !.kids = k] \in NodeSet
  BY <1>2 DEF NodeSet
<1> QED
  BY <1>1, <1>3

\* A new child with a segment that no sibling carries keeps the paths apart.
LEMMA ChildAdded ==
    ASSUME TreeInv, NEW p \in DOMAIN nodes, NEW seg \in Segments, seg \notin Taken(p),
           seg[1] = "#" => seg[2] = nodes[p].kids + 1,
           NEW depth \in Nat, NEW heading \in Titles \cup {NoText}, NEW body \in Seq(STRING),
           NEW label \in Labels \cup {NoText},
           nodes' = WithChild(p, Child(p, depth, seg, heading, body, label))
    PROVE  /\ nodes' \in Seq(NodeSet) /\ Len(nodes') = Len(nodes) + 1
           /\ Rooted' /\ Lineage' /\ Counted' /\ PathsUnique'
<1>n. PICK N : N = Len(nodes)
  OBVIOUS
<1> DEFINE c == Child(p, depth, seg, heading, body, label)
           old == [nodes EXCEPT ![p].kids = @ + 1]
<1>1. nodes \in Seq(NodeSet) /\ N \in Nat /\ DOMAIN nodes = 1..N /\ p \in 1..N /\ p # 0
  BY <1>n DEF TreeInv, TreeOK
<1>2. \A i \in 1..N : nodes[i] \in NodeSet
  BY <1>1
<1>3. \A i \in 1..N : /\ nodes[i].path \in Seq(Segments) /\ nodes[i].kids \in Nat
                      /\ nodes[i].ord \in Nat
  BY <1>2 DEF NodeSet, Segments
<1>4. Append(nodes[p].path, seg) \in Seq(Segments)
  BY <1>1, <1>3, AppendProperties
<1>5. /\ c.parent = p /\ c.ord = nodes[p].kids + 1 /\ c.kids = 0 /\ c.depth = depth
      /\ c.path = Append(nodes[p].path, seg) /\ c.heading = heading /\ c.body = body
      /\ c.label = label
  BY DEF Child
<1>6. c \in NodeSet
  <2>1. c = [parent |-> p, ord |-> nodes[p].kids + 1, kids |-> 0, depth |-> depth,
             path |-> Append(nodes[p].path, seg), heading |-> heading, body |-> body,
             label |-> label]
    BY DEF Child
  <2>2. p \in Nat /\ nodes[p].kids + 1 \in Nat /\ 0 \in Nat
    BY <1>1, <1>3
  <2> HIDE DEF c
  <2> QED
    BY <1>4, <2>1, <2>2 DEF NodeSet, Segments
<1> HIDE DEF c
<1>7. /\ old \in Seq(NodeSet) /\ Len(old) = N /\ DOMAIN old = 1..N
      /\ \A i \in 1..N : /\ old[i].parent = nodes[i].parent /\ old[i].path = nodes[i].path
                         /\ old[i].kids = IF i = p THEN nodes[i].kids + 1 ELSE nodes[i].kids
  <2>1. \A i \in 1..N : old[i] = IF i = p THEN [nodes[i] EXCEPT !.kids = @ + 1] ELSE nodes[i]
    BY <1>1
  <2>2. \A i \in 1..N : [nodes[i] EXCEPT !.kids = @ + 1] \in NodeSet
    BY <1>2, KidCounted
  <2>3. \A i \in 1..N : old[i] \in NodeSet
    BY <1>2, <2>1, <2>2
  <2>4. \A i \in 1..N : LET e == [nodes[i] EXCEPT !.kids = @ + 1]
                        IN  /\ e.parent = nodes[i].parent /\ e.path = nodes[i].path
                            /\ e.kids = nodes[i].kids + 1
    BY <1>2 DEF NodeSet
  <2>5. DOMAIN old = 1..N /\ old \in [1..N -> NodeSet]
    BY <1>1, <2>3
  <2> HIDE DEF old
  <2>6. old \in Seq(NodeSet) /\ Len(old) = N
    BY <1>1, <2>5
  <2> QED
    BY <2>1, <2>4, <2>5, <2>6
<1>8. nodes' = Append(old, c)
  BY DEF WithChild, c
<1> HIDE DEF old
<1>9. /\ nodes' \in Seq(NodeSet) /\ Len(nodes') = N + 1 /\ DOMAIN nodes' = 1..(N + 1)
      /\ nodes'[N + 1] = c /\ \A i \in 1..N : nodes'[i] = old[i]
  <2>1. /\ nodes' \in Seq(NodeSet) /\ Len(nodes') = Len(old) + 1 /\ nodes'[Len(old) + 1] = c
        /\ \A i \in 1..Len(old) : nodes'[i] = old[i]
    BY <1>6, <1>7, <1>8, AppendProperties
  <2> QED
    BY <1>1, <1>7, <2>1
<1>10. /\ nodes'[N + 1].parent = p /\ nodes'[N + 1].path = Append(nodes[p].path, seg)
       /\ \A i \in 1..N : /\ nodes'[i].parent = nodes[i].parent /\ nodes'[i].path = nodes[i].path
                          /\ nodes'[i].kids = IF i = p THEN nodes[i].kids + 1 ELSE nodes[i].kids
  BY <1>5, <1>7, <1>9
<1>11. Seg(N + 1)' = seg /\ \A i \in 1..N : Seg(i)' = Seg(i)
  <2>1. Append(nodes[p].path, seg)[Len(Append(nodes[p].path, seg))] = seg
    BY <1>1, <1>3, AppendProperties
  <2> QED
    BY <1>1, <1>10, <2>1 DEF Seg
<1>12. Rooted'
  BY <1>1, <1>9, <1>10 DEF TreeInv, Rooted
<1>13. Lineage'
  <2>1. ASSUME NEW i \in 2..(N + 1)
        PROVE  /\ nodes'[i].parent \in DOMAIN nodes' /\ Seg(i)' \in Segments
               /\ nodes'[i].path = Append(nodes'[nodes'[i].parent].path, Seg(i)')
    <3>1. CASE i = N + 1
      <4>1. nodes'[i].parent = p /\ p \in DOMAIN nodes' /\ Seg(i)' = seg
        BY <1>1, <1>9, <1>10, <1>11, <3>1
      <4>2. nodes'[p].path = nodes[p].path /\ nodes'[i].path = Append(nodes[p].path, seg)
        BY <1>1, <1>10, <3>1
      <4> QED
        BY <4>1, <4>2
    <3>2. CASE i # N + 1
      <4>1. i \in 2..N /\ i \in 1..N
        BY <1>1, <3>2
      <4> DEFINE q == nodes[i].parent
      <4>2. /\ q \in 1..N /\ Seg(i) \in Segments
            /\ nodes[i].path = Append(nodes[q].path, Seg(i))
        BY <1>1, <4>1 DEF TreeInv, Lineage
      <4>3. /\ nodes'[i].parent = q /\ nodes'[i].path = nodes[i].path /\ Seg(i)' = Seg(i)
            /\ nodes'[q].path = nodes[q].path /\ q \in DOMAIN nodes'
        <5>1. nodes'[i].parent = q /\ nodes'[i].path = nodes[i].path /\ Seg(i)' = Seg(i)
          BY <1>10, <1>11, <4>1
        <5> HIDE DEF q
        <5>2. nodes'[q].path = nodes[q].path /\ q \in DOMAIN nodes'
          BY <1>1, <1>9, <1>10, <4>2
        <5> QED
          BY <5>1, <5>2
      <4> HIDE DEF q
      <4> QED
        BY <4>2, <4>3
    <3> QED
      BY <3>1, <3>2
  <2> QED
    BY <1>9, <2>1 DEF Lineage
<1>14. Counted'
  <2>1. ASSUME NEW i \in 2..(N + 1), Seg(i)'[1] = "#"
        PROVE  Seg(i)'[2] <= nodes'[nodes'[i].parent].kids
    <3>1. CASE i = N + 1
      BY <1>1, <1>3, <1>10, <1>11, <2>1, <3>1
    <3>2. CASE i # N + 1
      <4>1. i \in 2..N /\ i \in 1..N
        BY <1>1, <3>2
      <4>2. Lineage /\ Counted
        BY DEF TreeInv
      <4>3. PICK q, e : q = nodes[i].parent /\ e = Seg(i)
        OBVIOUS
      <4>4. nodes'[i].parent = q /\ Seg(i)' = e
        BY <1>10, <1>11, <4>1, <4>3
      <4>5. q \in 1..N /\ e \in Segments
        BY <1>1, <1>n, <4>1, <4>2, <4>3 DEF Lineage
      <4>6. e[2] <= nodes[q].kids
        BY <1>n, <2>1, <4>1, <4>2, <4>3, <4>4 DEF Counted
      <4>7. e[2] \in Nat /\ nodes[q].kids \in Nat
        BY <1>3, <4>5 DEF Segments
      <4>8. nodes'[q].kids = nodes[q].kids \/ nodes'[q].kids = nodes[q].kids + 1
        BY <1>10, <4>5
      <4>9. e[2] <= nodes'[q].kids
        BY <4>6, <4>7, <4>8
      <4> QED
        BY <4>4, <4>9
    <3> QED
      BY <3>1, <3>2
  <2> QED
    BY <1>9, <2>1 DEF Counted
<1>15. PathsUnique'
  <2>1. ASSUME NEW i \in 1..N PROVE nodes[i].path # Append(nodes[p].path, seg)
    <3>1. CASE i = 1
      BY <1>1, <1>3, <3>1, AppendProperties DEF TreeInv, Rooted
    <3>2. CASE i # 1
      <4>1. i \in 2..N
        BY <1>1, <3>2
      <4>q. PICK q : q = nodes[i].parent
        OBVIOUS
      <4>l. Lineage
        BY DEF TreeInv
      <4>2. q \in 1..N /\ Seg(i) \in Segments /\ nodes[i].path = Append(nodes[q].path, Seg(i))
        BY <1>1, <1>n, <4>1, <4>q, <4>l DEF Lineage
      <4>3. q = p => Seg(i) \in Taken(p)
        <5>1. Taken(p) = {Seg(k) : k \in {j \in 2..N : nodes[j].parent = p}}
          BY <1>n, TakenSegs
        <5> QED
          BY <4>1, <4>q, <5>1
      <4>p. nodes[q].path \in Seq(Segments) /\ nodes[p].path \in Seq(Segments)
        BY <1>1, <1>3, <4>2
      <4>4. ASSUME Append(nodes[q].path, Seg(i)) = Append(nodes[p].path, seg)
            PROVE  nodes[q].path = nodes[p].path /\ Seg(i) = seg
        BY <4>2, <4>4, <4>p, BranchApart
      <4>5. nodes[q].path = nodes[p].path => q = p
        BY <1>1, <4>2 DEF TreeInv, PathsUnique
      <4> QED
        BY <4>2, <4>3, <4>4, <4>5
    <3> QED
      BY <3>1, <3>2
  <2>2. \A i, j \in 1..N : nodes[i].path = nodes[j].path => i = j
    BY <1>1 DEF TreeInv, PathsUnique
  <2>3. ASSUME NEW i \in 1..(N + 1), NEW j \in 1..(N + 1), nodes'[i].path = nodes'[j].path
        PROVE  i = j
    <3>1. (i \in 1..N \/ i = N + 1) /\ (j \in 1..N \/ j = N + 1)
      BY <1>1
    <3>2. CASE i \in 1..N /\ j \in 1..N
      BY <1>10, <2>2, <2>3, <3>2
    <3>3. CASE i \in 1..N /\ j = N + 1
      BY <1>10, <2>1, <2>3, <3>3
    <3>4. CASE i = N + 1 /\ j \in 1..N
      BY <1>10, <2>1, <2>3, <3>4
    <3> QED
      BY <3>1, <3>2, <3>3, <3>4
  <2> QED
    BY <1>9, <2>3 DEF PathsUnique
<1> QED
  BY <1>n, <1>9, <1>12, <1>13, <1>14, <1>15

\* The blocks that only write into a clause leave the shape of the tree alone.
LEMMA ShapeKept ==
    ASSUME TreeInv, nodes' \in Seq(NodeSet), Len(nodes') = Len(nodes),
           \A i \in DOMAIN nodes : /\ nodes'[i].parent = nodes[i].parent
                                   /\ nodes'[i].path = nodes[i].path /\ nodes'[i].kids = nodes[i].kids
    PROVE  Rooted' /\ Lineage' /\ Counted' /\ PathsUnique'
<1>1. PICK N : N = Len(nodes)
  OBVIOUS
<1>2. /\ nodes \in Seq(NodeSet) /\ N \in Nat /\ DOMAIN nodes = 1..N /\ DOMAIN nodes' = 1..N
      /\ Len(nodes') = N
  BY <1>1 DEF TreeInv, TreeOK
<1>3. nodes # <<>> /\ nodes' # <<>> /\ 1 \in DOMAIN nodes
  BY <1>1, <1>2 DEF TreeInv, Rooted
<1>4. \A i \in DOMAIN nodes : Seg(i)' = Seg(i)
  BY DEF Seg
<1>5. Rooted'
  BY <1>3 DEF TreeInv, Rooted
<1>6. \A i \in 2..N : i \in DOMAIN nodes
  BY <1>2
<1>7. Lineage' /\ Counted'
  <2>1. ASSUME NEW i \in 2..N
        PROVE  /\ nodes'[i].parent \in DOMAIN nodes' /\ Seg(i)' \in Segments
               /\ nodes'[i].path = Append(nodes'[nodes'[i].parent].path, Seg(i)')
               /\ Seg(i)'[1] = "#" => Seg(i)'[2] <= nodes'[nodes'[i].parent].kids
    <3>1. PICK q : q = nodes[i].parent
      OBVIOUS
    <3>2. /\ q \in DOMAIN nodes /\ Seg(i) \in Segments /\ nodes[i].path = Append(nodes[q].path, Seg(i))
          /\ Seg(i)[1] = "#" => Seg(i)[2] <= nodes[q].kids
      BY <1>1, <3>1 DEF TreeInv, Lineage, Counted
    <3>3. nodes'[i].parent = q /\ nodes'[i].path = nodes[i].path /\ Seg(i)' = Seg(i)
      BY <1>4, <1>6, <3>1
    <3>4. nodes'[q].path = nodes[q].path /\ nodes'[q].kids = nodes[q].kids /\ q \in DOMAIN nodes'
      BY <1>2, <3>2
    <3> QED
      BY <3>2, <3>3, <3>4
  <2> QED
    BY <1>2, <2>1 DEF Lineage, Counted
<1>8. PathsUnique'
  BY <1>2 DEF TreeInv, PathsUnique
<1> QED
  BY <1>5, <1>7, <1>8

\* A segment for a child: a name no sibling carries, or the next number.
LEMMA NumberFree ==
    ASSUME TreeInv, NEW p \in DOMAIN nodes
    PROVE  <<"#", nodes[p].kids + 1>> \in Segments /\ <<"#", nodes[p].kids + 1>> \notin Taken(p)
<1>1. PICK n : n = nodes[p].kids
  OBVIOUS
<1>2. n \in Nat
  <2>1. nodes[p] \in NodeSet
    BY DEF TreeInv, TreeOK
  <2> QED
    BY <1>1, <2>1 DEF NodeSet
<1>3. <<"#", n + 1>> \in Segments
  BY <1>2 DEF Segments
<1>4. ASSUME NEW k \in 2..Len(nodes), nodes[k].parent = p, Seg(k) = <<"#", n + 1>> PROVE FALSE
  BY <1>1, <1>2, <1>4 DEF TreeInv, Counted
<1> QED
  BY <1>1, <1>3, <1>4, TakenSegs

LEMMA NameFree ==
    ASSUME TreeInv, NEW p \in DOMAIN nodes, NEW name \in Labels \cup Titles
    PROVE  /\ DisambiguateSegment(name, p) \in Segments
           /\ DisambiguateSegment(name, p) \notin Taken(p)
           /\ DisambiguateSegment(name, p)[1] # "#"
<1>1. PICK n \in Nat \ {0} : /\ DisambiguateSegment(name, p) = <<name, n>>
                             /\ <<name, n>> \notin Taken(p)
  BY FreeName
<1>2. name # "#"
  BY ParserAssumption DEF Labels
<1> QED
  BY <1>1, <1>2 DEF Segments

\* A clause is opened by a marker, with or without a pending title, or by a title.
LEMMA OpenKeepsTree ==
    ASSUME TreeInv, NEW depth \in Nat, NEW label, NEW title, NEW body \in Seq(STRING),
           \/ label \in Labels /\ title = NoText
           \/ label = NoText /\ title \in Titles,
           blocks' \in 0..MaxBlocks,
           OpenClause(depth, label, body, title)
    PROVE  TreeInv'
<1>1. PICK k \in DOMAIN stack : Popped(depth) = SubSeq(stack, 1, k)
  BY PoppedPart DEF TreeInv, TreeOK
<1>2. PICK st : st = Popped(depth)
  OBVIOUS
<1>3. /\ stack \in Seq(Nat \ {0}) /\ DOMAIN stack = 1..Len(stack) /\ Len(stack) \in Nat
      /\ k \in 1..Len(stack)
  BY DEF TreeInv, TreeOK
<1>4. /\ st \in Seq(Nat \ {0}) /\ Len(st) = k /\ \A i \in 1..k : st[i] = stack[i]
  BY <1>1, <1>2, <1>3
<1>5. /\ st[1] = 1 /\ \A i \in 1..k : st[i] \in DOMAIN nodes
  <2>1. stack[1] = 1 /\ \A i \in DOMAIN stack : stack[i] \in DOMAIN nodes
    BY DEF TreeInv, StackInTree
  <2>2. 1 \in 1..k /\ \A i \in 1..k : i \in DOMAIN stack
    BY <1>3
  <2> QED
    BY <1>4, <2>1, <2>2
<1>6. PICK p : p = st[Len(st)]
  OBVIOUS
<1>7. p \in DOMAIN nodes
  BY <1>3, <1>4, <1>5, <1>6
<1>8. PICK heading : heading = IF title # NoText THEN title ELSE pending
  OBVIOUS
<1>9. heading \in Titles \cup {NoText} /\ label \in Labels \cup {NoText}
  BY <1>8 DEF TreeInv, TreeOK
<1>10. PICK seg : seg = IF label # NoText THEN DisambiguateSegment(label, p)
                        ELSE IF heading \in Unnamed THEN <<"#", nodes[p].kids + 1>>
                        ELSE DisambiguateSegment(heading, p)
  OBVIOUS
<1>11. /\ seg \in Segments /\ seg \notin Taken(p)
       /\ seg[1] = "#" => seg[2] = nodes[p].kids + 1
  <2>1. CASE label # NoText
    BY <1>7, <1>10, <2>1, NameFree
  <2>2. CASE label = NoText /\ heading \in Unnamed
    BY <1>7, <1>10, <2>2, NumberFree
  <2>3. CASE label = NoText /\ heading \notin Unnamed
    <3>1. heading \in Titles
      BY <1>8, <2>3, ParserAssumption DEF Labels
    <3> QED
      BY <1>7, <1>10, <2>3, <3>1, NameFree
  <2> QED
    BY <2>1, <2>2, <2>3
<1>12. /\ nodes' = WithChild(p, Child(p, depth, seg, heading, body, label))
       /\ stack' = Append(st, Len(nodes) + 1)
       /\ pending' = IF title # NoText THEN pending ELSE NoText
  BY <1>2, <1>6, <1>8, <1>10 DEF OpenClause
<1>13. /\ nodes' \in Seq(NodeSet) /\ Len(nodes') = Len(nodes) + 1
       /\ Rooted' /\ Lineage' /\ Counted' /\ PathsUnique'
  BY <1>7, <1>9, <1>11, <1>12, ChildAdded
<1>14. /\ stack' \in Seq(Nat \ {0}) /\ Len(stack') = k + 1 /\ stack'[k + 1] = Len(nodes) + 1
       /\ \A i \in 1..k : stack'[i] = st[i]
  <2>1. Len(nodes) + 1 \in Nat \ {0}
    BY DEF TreeInv, TreeOK
  <2> QED
    BY <1>3, <1>4, <1>12, <2>1
<1>15. StackInTree'
  <2>1. DOMAIN nodes = 1..Len(nodes) /\ DOMAIN nodes' = 1..(Len(nodes) + 1) /\ Len(nodes) \in Nat
    BY <1>13 DEF TreeInv, TreeOK
  <2>2. \A i \in 1..(k + 1) : stack'[i] \in DOMAIN nodes'
    <3>1. ASSUME NEW i \in 1..(k + 1) PROVE stack'[i] \in DOMAIN nodes'
      <4>1. CASE i \in 1..k
        <5>1. stack'[i] = st[i] /\ st[i] \in DOMAIN nodes
          BY <1>5, <1>14, <4>1
        <5>2. DOMAIN nodes \subseteq DOMAIN nodes'
          BY <2>1
        <5> QED
          BY <5>1, <5>2
      <4>2. CASE i = k + 1
        BY <1>14, <2>1, <4>2
      <4> QED
        BY <1>3, <4>1, <4>2
    <3> QED
      BY <3>1
  <2>3. DOMAIN stack' = 1..(k + 1) /\ stack' # <<>> /\ stack'[1] = 1
    BY <1>3, <1>5, <1>14
  <2> QED
    BY <2>2, <2>3 DEF StackInTree
<1>16. TreeOK'
  BY <1>12, <1>13, <1>14 DEF TreeOK, TreeInv
<1> QED
  BY <1>13, <1>15, <1>16 DEF TreeInv

LEMMA WrittenKeepsTree ==
    ASSUME TreeInv, NEW p \in DOMAIN nodes, NEW r \in NodeSet, r.parent = nodes[p].parent,
           r.path = nodes[p].path, r.kids = nodes[p].kids,
           nodes' = [nodes EXCEPT ![p] = r], UNCHANGED stack,
           pending' \in Titles \cup {NoText}, blocks' \in 0..MaxBlocks
    PROVE  TreeInv'
<1>1. nodes \in Seq(NodeSet) /\ DOMAIN nodes = 1..Len(nodes) /\ Len(nodes) \in Nat
  BY DEF TreeInv, TreeOK
<1>2. nodes' \in Seq(NodeSet) /\ Len(nodes') = Len(nodes) /\ DOMAIN nodes' = DOMAIN nodes
  BY <1>1, ExceptSeq
<1>3. \A i \in DOMAIN nodes : /\ nodes'[i].parent = nodes[i].parent
                              /\ nodes'[i].path = nodes[i].path /\ nodes'[i].kids = nodes[i].kids
  BY <1>1
<1>4. Rooted' /\ Lineage' /\ Counted' /\ PathsUnique'
  BY <1>2, <1>3, ShapeKept
<1>5. TreeOK' /\ StackInTree'
  BY <1>2 DEF TreeInv, TreeOK, StackInTree
<1> QED
  BY <1>4, <1>5 DEF TreeInv

LEMMA TopInTree == ASSUME TreeInv PROVE Top \in DOMAIN nodes /\ nodes[Top] \in NodeSet
<1>1. Len(stack) \in DOMAIN stack
  BY DEF TreeInv, TreeOK, StackInTree
<1>2. Top \in DOMAIN nodes
  BY <1>1 DEF TreeInv, StackInTree, Top
<1> QED
  BY <1>2 DEF TreeInv, TreeOK

LEMMA ProseKeepsTree == ASSUME TreeInv, NEW body \in Texts, ConsumeProse(body) PROVE TreeInv'
<1>1. PICK p : p = Top
  OBVIOUS
<1>2. p \in DOMAIN nodes /\ nodes[p] \in NodeSet /\ nodes[p].depth + 1 \in Nat
  BY <1>1, TopInTree DEF NodeSet
<1>3. PICK seg : seg = <<"#", nodes[p].kids + 1>>
  OBVIOUS
<1>4. seg \in Segments /\ seg \notin Taken(p) /\ seg[2] = nodes[p].kids + 1
  BY <1>2, <1>3, NumberFree
<1>5. /\ nodes' = WithChild(p, Child(p, nodes[p].depth + 1, seg, NoText, body, NoText))
      /\ UNCHANGED <<stack, pending>> /\ blocks' = blocks + 1 /\ blocks < MaxBlocks
  BY <1>1, <1>3 DEF ConsumeProse, CountBlock
<1>6. body \in Seq(STRING)
  BY ParserAssumption
<1>7. /\ nodes' \in Seq(NodeSet) /\ Len(nodes') = Len(nodes) + 1
      /\ Rooted' /\ Lineage' /\ Counted' /\ PathsUnique'
  BY <1>2, <1>4, <1>5, <1>6, ChildAdded
<1>8. blocks' \in 0..MaxBlocks
  BY <1>5, ParserAssumption DEF TreeInv, TreeOK
<1>9. TreeOK' /\ StackInTree'
  BY <1>5, <1>7, <1>8 DEF TreeInv, TreeOK, StackInTree
<1> QED
  BY <1>7, <1>9 DEF TreeInv

LEMMA BoldKeepsTree == ASSUME TreeInv, NEW title \in Titles, ConsumeBold(title) PROVE TreeInv'
<1>1. PICK p : p = Top
  OBVIOUS
<1>2. p \in DOMAIN nodes /\ nodes[p] \in NodeSet
  BY <1>1, TopInTree
<1>3. UNCHANGED stack /\ blocks' = blocks + 1 /\ blocks < MaxBlocks
  BY DEF ConsumeBold, CountBlock
<1>4. blocks' \in 0..MaxBlocks
  BY <1>3, ParserAssumption DEF TreeInv, TreeOK
<1>5. CASE pending' = title /\ nodes' = nodes
  <2>1. TreeOK' /\ StackInTree'
    BY <1>3, <1>4, <1>5 DEF TreeInv, TreeOK, StackInTree
  <2>2. Rooted' /\ Lineage' /\ Counted' /\ PathsUnique'
    BY <1>5, ShapeKept DEF TreeInv, TreeOK
  <2> QED
    BY <2>1, <2>2 DEF TreeInv
<1>6. CASE nodes' = [nodes EXCEPT ![p].heading = title] /\ pending' = pending
  <2>1. PICK r : r = [nodes[p] EXCEPT !.heading = title]
    OBVIOUS
  <2>2. /\ r \in NodeSet /\ r.parent = nodes[p].parent /\ r.path = nodes[p].path
        /\ r.kids = nodes[p].kids
    BY <1>2, <2>1 DEF NodeSet
  <2>3. nodes' = [nodes EXCEPT ![p] = r]
    BY <1>6, <2>1
  <2> QED
    BY <1>2, <1>3, <1>4, <1>6, <2>2, <2>3, WrittenKeepsTree DEF TreeInv, TreeOK
<1> QED
  BY <1>1, <1>5, <1>6 DEF ConsumeBold

LEMMA LooseKeepsTree == ASSUME TreeInv, NEW text \in Texts, ConsumeLoose(text) PROVE TreeInv'
<1>1. PICK p : p = Top
  OBVIOUS
<1>2. p \in DOMAIN nodes /\ nodes[p] \in NodeSet
  BY <1>1, TopInTree
<1>3. /\ UNCHANGED <<stack, pending>> /\ blocks' = blocks + 1 /\ blocks < MaxBlocks
      /\ nodes' = [nodes EXCEPT ![p].body = @ \o text]
  BY <1>1 DEF ConsumeLoose, CountBlock
<1>4. blocks' \in 0..MaxBlocks
  BY <1>3, ParserAssumption DEF TreeInv, TreeOK
<1>5. PICK b : b = nodes[p].body \o text
  OBVIOUS
<1>6. b \in Seq(STRING)
  <2>1. nodes[p].body \in Seq(STRING) /\ text \in Seq(STRING)
    BY <1>2, ParserAssumption DEF NodeSet
  <2> QED
    BY <1>5, <2>1, ConcatProperties
<1>7. PICK r : r = [nodes[p] EXCEPT !.body = b]
  OBVIOUS
<1>8. /\ r \in NodeSet /\ r.parent = nodes[p].parent /\ r.path = nodes[p].path
      /\ r.kids = nodes[p].kids
  BY <1>2, <1>6, <1>7 DEF NodeSet
<1>9. nodes' = [nodes EXCEPT ![p] = r]
  BY <1>3, <1>5, <1>7
<1>10. pending' \in Titles \cup {NoText}
  BY <1>3 DEF TreeInv, TreeOK
<1> QED
  BY <1>2, <1>3, <1>4, <1>8, <1>9, <1>10, WrittenKeepsTree

\* The tree of every document of every length.
LEMMA ConsumeKeepsTree == ASSUME TreeInv, Consume PROVE TreeInv'
<1>1. ASSUME CountBlock PROVE blocks' \in 0..MaxBlocks
  BY <1>1, ParserAssumption DEF CountBlock, TreeInv, TreeOK
<1>2. ASSUME NEW m \in Markers, NEW body \in Texts \cup {<<>>}, ConsumeMatch(m, body) PROVE TreeInv'
  <2>1. m.depth \in Nat /\ m.label \in Labels /\ body \in Seq(STRING)
    <3>1. m.depth \in Nat /\ m.label \in Labels
      BY ParserAssumption DEF Labels
    <3>2. body \in Seq(STRING)
      <4>1. <<>> \in Seq(STRING)
        OBVIOUS
      <4> QED
        BY <4>1, ParserAssumption
    <3> QED
      BY <3>1, <3>2
  <2> QED
    BY <1>1, <1>2, <2>1, OpenKeepsTree DEF ConsumeMatch
<1>3. ASSUME NEW level \in Levels, NEW title \in Titles, ConsumeHeading(level, title) PROVE TreeInv'
  <2>1. PICK depth : depth = IF level = 0 THEN 1 ELSE level
    OBVIOUS
  <2>2. depth \in Nat /\ <<>> \in Seq(STRING)
    BY <2>1, ParserAssumption
  <2>3. CountBlock /\ OpenClause(depth, NoText, <<>>, title)
    BY <1>3, <2>1 DEF ConsumeHeading
  <2> QED
    BY <1>1, <2>2, <2>3, OpenKeepsTree
<1> QED
  BY <1>2, <1>3, ProseKeepsTree, BoldKeepsTree, LooseKeepsTree DEF Consume

LEMMA StartKeepsTree == ASSUME TreeInv, StartTree PROVE TreeInv'
<1>1. nodes' = <<Root>> /\ stack' = << 1 >> /\ pending' = NoText /\ blocks' \in 0..MaxBlocks
  BY DEF StartTree, TreeInv, TreeOK
<1>2. (nodes = <<Root>> /\ stack = << 1 >> /\ pending = NoText /\ blocks \in 0..MaxBlocks => TreeInv)'
  BY InitTree, PTL
<1> QED
  BY <1>1, <1>2

-----------------------------------------------------------------------------
(* Similarity *)

LEMMA PercentOf ==
    ASSUME NEW a \in Nat, NEW b \in Nat, a <= b, b # 0
    PROVE  (100 * a) \div b \in 0..100 /\ (a = b => (100 * a) \div b = 100)
<1>1. PICK q : q = (100 * a) \div b
  OBVIOUS
<1>2. q \in Int /\ b * q <= 100 * a /\ 100 * a < b * q + b
  BY <1>1
<1>3. q >= 0
  BY <1>2
<1>4. q <= 100
  BY <1>2
<1>5. a = b => q = 100
  BY <1>2
<1> QED
  BY <1>1, <1>2, <1>3, <1>4, <1>5

LEMMA ShinglesFinite == ASSUME NEW text \in Seq(STRING) PROVE IsFiniteSet(Shingle(text))
<1>1. PICK n : n = Len(text) + 1 - ShingleK
  OBVIOUS
<1>2. n \in Int
  BY <1>1, AlignAssumption
<1>3. IsFiniteSet(1..n)
  BY <1>2, FS_Interval
<1> DEFINE f == [i \in 1..n |-> SubSeq(text, i, i + ShingleK - 1)]
<1>4. f \in Surjection(1..n, Shingle(text))
  BY <1>1 DEF Surjection, Shingle
<1> QED
  BY <1>3, <1>4, FS_Surjection

\* Similarity is a percentage, and equal texts are wholly similar.
LEMMA SimBounds ==
    ASSUME NEW c, NEW d, c.body \in Seq(STRING), d.body \in Seq(STRING)
    PROVE  Sim(c, d) \in 0..100 /\ (c.body = d.body => Sim(c, d) = 100)
<1>1. PICK s, t : s = Shingle(c.body) /\ t = Shingle(d.body)
  OBVIOUS
<1>2. IsFiniteSet(s) /\ IsFiniteSet(t)
  BY <1>1, ShinglesFinite
<1>3. Sim(c, d) = Jaccard(s, t)
  BY <1>1 DEF Sim
<1>4. CASE s \cup t = {}
  BY <1>3, <1>4 DEF Jaccard
<1>5. CASE s \cup t # {}
  <2>1. IsFiniteSet(s \cup t)
    BY <1>2, FS_Union
  <2>2. PICK u, v : u = s \cup t /\ v = s \cap t
    OBVIOUS
  <2>3. IsFiniteSet(v) /\ Cardinality(v) <= Cardinality(u) /\ Cardinality(u) \in Nat /\ Cardinality(v) \in Nat
    <3>1. v \in SUBSET u /\ IsFiniteSet(u)
      BY <2>1, <2>2
    <3> QED
      BY <3>1, FS_Subset, FS_CardinalityType
  <2>4. Cardinality(u) # 0
    BY <1>5, <2>1, <2>2, FS_EmptySet
  <2>5. Sim(c, d) = (100 * Cardinality(v)) \div Cardinality(u)
    BY <1>3, <1>5, <2>2 DEF Jaccard
  <2>6. c.body = d.body => Cardinality(v) = Cardinality(u)
    BY <1>1, <2>2
  <2>7. PICK a, b : a = Cardinality(v) /\ b = Cardinality(u)
    OBVIOUS
  <2>8. a \in Nat /\ b \in Nat /\ a <= b /\ b # 0
    BY <2>3, <2>4, <2>7
  <2>9. (100 * a) \div b \in 0..100 /\ (a = b => (100 * a) \div b = 100)
    BY <2>8, PercentOf
  <2> QED
    BY <2>5, <2>6, <2>7, <2>9
<1> QED
  BY <1>4, <1>5

LEMMA ConfidenceBounds ==
    ASSUME NEW c, NEW d, c.body \in Seq(STRING), d.body \in Seq(STRING)
    PROVE  /\ Confidence(c, d) \in 90..100
           /\ c.body = d.body /\ Long(c) => Confidence(c, d) = 100
           /\ ~ Long(c) => Confidence(c, d) = 90
<1>1. Sim(c, d) \in 0..100 /\ (c.body = d.body => Sim(c, d) = 100)
  BY SimBounds
<1>2. c.body = d.body => (Long(c) <=> Long(d))
  BY DEF Long
<1>3. PICK x : x = Sim(c, d)
  OBVIOUS
<1>4. Confidence(c, d) = IF Long(c) /\ Long(d) /\ x > 90 THEN x ELSE 90
  BY <1>3 DEF Confidence
<1>5. CASE Long(c) /\ Long(d) /\ x > 90
  <2>1. Confidence(c, d) = x /\ x \in 0..100 /\ x > 90 /\ (c.body = d.body => x = 100)
    BY <1>1, <1>3, <1>4, <1>5
  <2>2. x \in 90..100
    BY <2>1
  <2> QED
    BY <1>5, <2>1, <2>2
<1>6. CASE ~ (Long(c) /\ Long(d) /\ x > 90)
  BY <1>1, <1>2, <1>3, <1>4, <1>6
<1> QED
  BY <1>5, <1>6

-----------------------------------------------------------------------------
(* Versions and pairs *)

OneToOne(M) == \A p, q \in M : p[1] = q[1] \/ p[2] = q[2] => p = q

\* No two rows of a version have the same path, and every path is one that the
\* table holds.
RowsUnique ==
    \A n \in DOMAIN versions :
        /\ \A i, j \in DOMAIN versions[n] : versions[n][i].path = versions[n][j].path => i = j
        /\ \A i \in DOMAIN versions[n] : ~ Slashed(versions[n][i].path)

AnchorsFit ==
    /\ \A p \in anchored : p[1] \in Cands(Prev) /\ p[2] \in Cands(nodes)
    /\ OneToOne(anchored)

\* What the traceback has paired lies behind it, in both lists.
Traced ==
    /\ at[1] \in 0..Len(Left) /\ at[2] \in 0..Len(Right)
    /\ \A p \in matched : \E a \in 1..Len(Left), b \in 1..Len(Right) :
          a > at[1] /\ b > at[2] /\ p[1] = Left[a] /\ p[2] = Right[b]
    /\ OneToOne(matched)

PairInv ==
    /\ phase \in {"idle", "parse"} => anchored = {}
    /\ phase \in {"idle", "parse", "anchor"} => matched = {}
    /\ phase \in {"anchor", "content"} => AnchorsFit
    /\ phase = "content" => Traced

\* A version is only begun when there is one to come.
VersionToCome == phase # "idle" => Len(versions) < MaxVersions

AlignInv == TreeInv /\ AlignTypeOK /\ RowsUnique /\ PairInv /\ VersionToCome

\* A path as a row holds it: it comes back as it is.
LEMMA StoredPath ==
    ASSUME NEW path \in Paths
    PROVE  Stored(path) \in Paths /\ ~ Slashed(Stored(path))
<1>1. CASE path # <<>> /\ path[1][1] \in DOMAIN Parts
  <2>0. path[1] \in (Labels \cup Titles \cup {"#"} \cup Pieces) \X (Nat \ {0})
    BY <1>1, ElementOfSeq DEF Paths
  <2>1. PICK label, n, pieces : label = path[1][1] /\ n = path[1][2] /\ pieces = Parts[label]
    OBVIOUS
  <2>2. label \in DOMAIN Parts /\ n \in Nat \ {0}
    BY <1>1, <2>0, <2>1
  <2>3. pieces \in Seq(Pieces) /\ Len(pieces) \in Nat /\ Len(pieces) > 1
    BY <2>1, <2>2, SlashAssumption
  <2>4. PICK front : front = [k \in 1..Len(pieces) |-> <<pieces[k], IF k = Len(pieces) THEN n ELSE 1>>]
    OBVIOUS
  <2>5. Stored(path) = front \o Tail(path)
    <3>1. DOMAIN pieces = 1..Len(pieces)
      BY <2>3
    <3>2. front = [k \in DOMAIN pieces |-> <<pieces[k], IF k = Len(pieces) THEN path[1][2] ELSE 1>>]
      BY <2>1, <2>4, <3>1
    <3> QED
      BY <1>1, <2>1, <3>2, Zenon DEF Stored
  <2>6. front \in Paths /\ Len(front) = Len(pieces) /\ front[1] = <<pieces[1], 1>>
    <3>1. \A k \in 1..Len(pieces) : pieces[k] \in Pieces
      BY <2>3, ElementOfSeq
    <3>2. \A k \in 1..Len(pieces) :
             front[k] \in (Labels \cup Titles \cup {"#"} \cup Pieces) \X (Nat \ {0})
      BY <2>2, <2>4, <3>1
    <3>3. front[1] = <<pieces[1], 1>>
      BY <2>3, <2>4
    <3> QED
      BY <2>3, <2>4, <3>2, <3>3 DEF Paths
  <2>7. Tail(path) \in Paths
    BY <1>1 DEF Paths
  <2>8. /\ front \o Tail(path) \in Paths /\ front \o Tail(path) # <<>>
        /\ (front \o Tail(path))[1] = <<pieces[1], 1>>
    BY <2>3, <2>6, <2>7 DEF Paths
  <2>9. pieces[1] \notin DOMAIN Parts
    <3>1. pieces[1] \in Pieces
      BY <2>3, ElementOfSeq
    <3> QED
      BY <3>1, SlashAssumption
  <2>10. PICK back : back = front \o Tail(path)
    OBVIOUS
  <2>11. back[1][1] = pieces[1]
    BY <2>8, <2>10
  <2>12. Stored(back) = back
    BY <2>9, <2>11, Zenon DEF Stored
  <2> QED
    BY <2>5, <2>8, <2>10, <2>12 DEF Slashed
<1>2. CASE ~ (path # <<>> /\ path[1][1] \in DOMAIN Parts)
  BY <1>2 DEF Stored, Slashed
<1> QED
  BY <1>1, <1>2

LEMMA PrevTyped ==
    ASSUME AlignTypeOK
    PROVE  /\ Prev \in Seq(RowSet) /\ Len(Prev) \in Nat /\ DOMAIN Prev = 1..Len(Prev)
           /\ \A i \in DOMAIN Prev : /\ Prev[i] \in RowSet /\ Prev[i].uid \in Uids
                                     /\ Prev[i].path \in Paths
                                     /\ Prev[i].body \in Seq(STRING)
<1>1. Prev \in Seq(RowSet)
  BY DEF AlignTypeOK, Prev
<1>2. \A r \in RowSet : r.uid \in Uids /\ r.path \in Paths /\ r.body \in Seq(STRING)
  BY DEF RowSet
<1> HIDE DEF AlignTypeOK
<1> QED
  BY <1>1, <1>2

LEMMA PrevUnique ==
    ASSUME AlignTypeOK, RowsUnique, NEW i \in DOMAIN Prev, NEW j \in DOMAIN Prev,
           Prev[i].path = Prev[j].path
    PROVE  i = j /\ ~ Slashed(Prev[i].path)
<1>1. versions # <<>> /\ Len(versions) \in DOMAIN versions /\ Prev = versions[Len(versions)]
  BY DEF AlignTypeOK, Prev
<1> QED
  BY <1>1 DEF RowsUnique

LEMMA NodesTyped ==
    ASSUME TreeOK
    PROVE  /\ Len(nodes) \in Nat /\ DOMAIN nodes = 1..Len(nodes)
           /\ \A j \in DOMAIN nodes : /\ nodes[j].path \in Paths
                                      /\ nodes[j].body \in Seq(STRING)
                                      /\ nodes[j].heading \in Titles \cup {NoText}
                                      /\ nodes[j].label \in Labels \cup {NoText}
<1>1. nodes \in Seq(NodeSet)
  BY DEF TreeOK
<1>2. Seq((Labels \cup Titles \cup {"#"}) \X (Nat \ {0})) \subseteq Paths
  BY DEF Paths
<1>3. \A r \in NodeSet : /\ r.path \in Paths /\ r.body \in Seq(STRING)
                         /\ r.heading \in Titles \cup {NoText} /\ r.label \in Labels \cup {NoText}
  BY <1>2 DEF NodeSet
<1> QED
  BY <1>1, <1>3

\* What the heading pass left: candidates of either side, each once, in order.
LEMMA LeftOver ==
    ASSUME AlignTypeOK
    PROVE  /\ Len(Left) \in Nat /\ Len(Right) \in Nat
           /\ DOMAIN Left = 1..Len(Left) /\ DOMAIN Right = 1..Len(Right)
           /\ \A a \in 1..Len(Left) : /\ Left[a] \in Cands(Prev) /\ Left[a] \notin Used(anchored, 1)
                                      /\ Left[a] \in Nat
           /\ \A b \in 1..Len(Right) : /\ Right[b] \in Cands(nodes) /\ Right[b] \notin Used(anchored, 2)
                                       /\ Right[b] \in Nat
           /\ \A a, b \in 1..Len(Left) : Left[a] = Left[b] => a = b
           /\ \A a, b \in 1..Len(Right) : Right[a] = Right[b] => a = b
<1>1. PICK m, n : m = Len(Prev) /\ n = Len(nodes)
  OBVIOUS
<1>2. m \in Nat /\ n \in Nat /\ DOMAIN Prev = 1..m /\ DOMAIN nodes = 1..n
  BY <1>1, PrevTyped, NodesTyped DEF AlignTypeOK
<1>3. PICK S, T : /\ S = {i \in Cands(Prev) \ Used(anchored, 1) : Long(Prev[i])}
                  /\ T = {j \in Cands(nodes) \ Used(anchored, 2) : Long(nodes[j])}
  OBVIOUS
<1>4. Left = InOrder(S) /\ Right = InOrder(T)
  BY <1>3 DEF Left, Right
<1>5. S \in SUBSET (0..m) /\ T \in SUBSET (0..n)
  BY <1>2, <1>3 DEF Cands
<1>6. /\ Len(Left) \in Nat /\ Left \in [1..Len(Left) -> S]
      /\ \A k, l \in 1..Len(Left) : k < l => Left[k] < Left[l]
  BY <1>2, <1>4, <1>5, InOrderLists
<1>7. /\ Len(Right) \in Nat /\ Right \in [1..Len(Right) -> T]
      /\ \A k, l \in 1..Len(Right) : k < l => Right[k] < Right[l]
  BY <1>2, <1>4, <1>5, InOrderLists
<1>s. \A x \in S \cup T : x \in Nat
  BY <1>2, <1>5
<1>8. \A a \in 1..Len(Left) : Left[a] \in S /\ Left[a] \in Nat
  BY <1>s, <1>6
<1>9. \A b \in 1..Len(Right) : Right[b] \in T /\ Right[b] \in Nat
  BY <1>s, <1>7
<1>10. ASSUME NEW a \in 1..Len(Left), NEW b \in 1..Len(Left), Left[a] = Left[b] PROVE a = b
  <2>1. a \in Nat /\ b \in Nat /\ ~ (Left[a] < Left[b]) /\ ~ (Left[b] < Left[a])
    BY <1>8, <1>10
  <2> QED
    BY <1>6, <2>1
<1>11. ASSUME NEW a \in 1..Len(Right), NEW b \in 1..Len(Right), Right[a] = Right[b] PROVE a = b
  <2>1. a \in Nat /\ b \in Nat /\ ~ (Right[a] < Right[b]) /\ ~ (Right[b] < Right[a])
    BY <1>9, <1>11
  <2> QED
    BY <1>7, <2>1
<1> QED
  BY <1>3, <1>6, <1>7, <1>8, <1>9, <1>10, <1>11

\* While a version is aligned, every pair joins two candidates, and no clause
\* of either side has two.
LEMMA PairsJoin ==
    ASSUME AlignInv, phase \in {"anchor", "content"}
    PROVE  /\ \A p \in Pairs : p[1] \in Cands(Prev) /\ p[2] \in Cands(nodes) /\ p[3] \in 0..100
           /\ OneToOne(Pairs)
<1>1. AnchorsFit
  BY DEF AlignInv, PairInv
<1>2. \A p \in Pairs : p[3] \in 0..100
  BY DEF AlignInv, AlignTypeOK, Pairs
<1>3. CASE phase = "anchor"
  BY <1>1, <1>2, <1>3 DEF AlignInv, PairInv, Pairs, AnchorsFit
<1>4. CASE phase = "content"
  <2>1. Traced
    BY <1>4 DEF AlignInv, PairInv
  <2>2. \A p \in matched : /\ p[1] \in Cands(Prev) /\ p[1] \notin Used(anchored, 1)
                           /\ p[2] \in Cands(nodes) /\ p[2] \notin Used(anchored, 2)
    BY <2>1, LeftOver DEF Traced, AlignInv
  <2>3. \A p \in anchored : p[1] \in Used(anchored, 1) /\ p[2] \in Used(anchored, 2)
    BY DEF Used
  <2>4. \A p \in Pairs : p[1] \in Cands(Prev) /\ p[2] \in Cands(nodes)
    BY <1>1, <2>2 DEF Pairs, AnchorsFit
  <2>5. ASSUME NEW p \in Pairs, NEW q \in Pairs, p[1] = q[1] \/ p[2] = q[2] PROVE p = q
    BY <1>1, <2>1, <2>2, <2>3, <2>5 DEF Pairs, AnchorsFit, Traced, OneToOne
  <2> QED
    BY <1>2, <2>4, <2>5 DEF OneToOne
<1> QED
  BY <1>3, <1>4

LEMMA InitAlign == AlignInit => AlignInv
<1> SUFFICES ASSUME AlignInit PROVE AlignInv
  OBVIOUS
<1>1. blocks \in 0..MaxBlocks
  BY ParserAssumption DEF AlignInit
<1>2. TreeInv
  BY <1>1, InitTree DEF AlignInit
<1>3. versions = <<>> /\ events = <<>> /\ anchored = {} /\ matched = {} /\ links = {}
      /\ at = <<0, 0>> /\ phase = "idle"
  BY DEF AlignInit
<1>4. AlignTypeOK
  BY <1>2, <1>3, AlignAssumption DEF AlignTypeOK, TreeInv
<1>5. RowsUnique /\ PairInv /\ VersionToCome
  BY <1>3 DEF RowsUnique, PairInv, VersionToCome
<1> QED
  BY <1>2, <1>4, <1>5 DEF AlignInv

\* A step that leaves the versions alone.
LEMMA FetchKeeps == ASSUME AlignInv, Fetch \/ FetchReformatted \/ Parse \/ EndOfText PROVE AlignInv'
<1>1. TreeInv'
  <2>1. CASE Fetch
    BY <2>1, StartKeepsTree DEF Fetch, AlignInv
  <2>2. CASE Parse
    BY <2>2, ConsumeKeepsTree DEF Parse, AlignInv
  <2>3. CASE /\ nodes' = nodes /\ blocks' = blocks
             /\ \/ stack' = stack /\ pending' = pending
                \/ stack' = << 1 >> /\ pending' = NoText
    <3>1. /\ TreeInv /\ nodes' = nodes /\ blocks' = blocks
          /\ \/ stack' = stack /\ pending' = pending
             \/ stack' = << 1 >> /\ pending' = NoText
      BY <2>3 DEF AlignInv
    <3>2. TreeOK' /\ StackInTree'
      <4>1. CASE stack' = stack /\ pending' = pending
        BY <3>1, <4>1 DEF TreeInv, TreeOK, StackInTree
      <4>2. CASE stack' = << 1 >> /\ pending' = NoText
        <5>1. 1 \in DOMAIN nodes
          BY <3>1 DEF TreeInv, Rooted, TreeOK
        <5>2. TreeOK'
          BY <3>1, <4>2 DEF TreeInv, TreeOK
        <5> QED
          BY <3>1, <4>2, <5>1, <5>2 DEF StackInTree
      <4> QED
        BY <3>1, <4>1, <4>2
    <3>3. Rooted' /\ Lineage' /\ Counted' /\ PathsUnique'
      BY <3>1, ShapeKept DEF TreeInv, TreeOK
    <3> QED
      BY <3>2, <3>3 DEF TreeInv
  <2> QED
    <3>1. CASE FetchReformatted
      <4>1. UNCHANGED treeVars
        BY <3>1 DEF FetchReformatted
      <4>2. nodes' = nodes /\ stack' = stack /\ pending' = pending /\ blocks' = blocks
        BY <4>1 DEF treeVars
      <4> QED
        BY <2>3, <4>2
    <3>2. CASE EndOfText
      BY <2>3, <3>2 DEF EndOfText
    <3> QED
      BY <2>1, <2>2, <3>1, <3>2
<1>2. /\ UNCHANGED <<versions, events>> /\ phase' \in {"parse", "anchor"}
      /\ phase \in {"idle", "parse"} /\ UNCHANGED <<anchored, links, matched, at>>
  BY DEF Fetch, FetchReformatted, Parse, EndOfText, alignVars
<1>3. anchored' = {} /\ matched' = {}
  BY <1>2 DEF AlignInv, PairInv
<1>4. links' \subseteq (Nat \X Nat) /\ at' \in Nat \X Nat
  BY <1>2 DEF AlignInv, AlignTypeOK
<1>5. AlignTypeOK'
  BY <1>1, <1>2, <1>3, <1>4 DEF AlignInv, AlignTypeOK, TreeInv
<1>6. RowsUnique'
  BY <1>2 DEF AlignInv, RowsUnique
<1>7. PairInv'
  BY <1>2, <1>3 DEF PairInv, AnchorsFit, OneToOne
<1>8. VersionToCome'
  <2>1. Len(versions) < MaxVersions
    BY AlignAssumption DEF Fetch, FetchReformatted, Parse, EndOfText, AlignInv, VersionToCome
  <2> QED
    BY <1>2, <2>1 DEF VersionToCome
<1> QED
  BY <1>1, <1>5, <1>6, <1>7, <1>8 DEF AlignInv

LEMMA TreeUntouched == ASSUME TreeInv, UNCHANGED treeVars PROVE TreeInv'
  BY DEF TreeInv, TreeOK, StackInTree, Rooted, Lineage, Counted, PathsUnique, Seg, treeVars

\* What both passes read stays as it is while they run.
LEMMA SidesKept ==
    ASSUME UNCHANGED <<treeVars, versions>>
    PROVE  /\ Prev' = Prev /\ Cands(Prev)' = Cands(Prev) /\ Cands(nodes)' = Cands(nodes)
           /\ anchored' = anchored => Left' = Left /\ Right' = Right
<1>1. nodes' = nodes /\ versions' = versions
  BY DEF treeVars
<1>2. Prev' = Prev
  BY <1>1 DEF Prev
<1>3. Cands(Prev)' = Cands(Prev) /\ Cands(nodes)' = Cands(nodes)
  BY <1>1, <1>2 DEF Cands
<1> QED
  BY <1>1, <1>2, <1>3 DEF Left, Right, Used

\* A triple joins two candidates that no pair of the heading pass has.
LEMMA TripleFree ==
    ASSUME AlignTypeOK, NEW t \in Triples
    PROVE  /\ t \in Nat \X Nat \X (0..100)
           /\ t[1] \in Cands(Prev) /\ t[2] \in Cands(nodes)
           /\ t[1] \notin Used(anchored, 1) /\ t[2] \notin Used(anchored, 2)
           /\ SameAnchor(Prev[t[1]], nodes[t[2]]) /\ Corroborates(Prev[t[1]], nodes[t[2]])
           /\ t[3] = Confidence(Prev[t[1]], nodes[t[2]]) /\ t[3] \in 90..100
<1>1. PICK i \in Cands(Prev), j \in Cands(nodes) :
         /\ t = <<i, j, Confidence(Prev[i], nodes[j])>>
         /\ SameAnchor(Prev[i], nodes[j]) /\ Corroborates(Prev[i], nodes[j])
         /\ i \notin Used(anchored, 1) /\ j \notin Used(anchored, 2)
  BY DEF Triples
<1>2. i \in DOMAIN Prev /\ j \in DOMAIN nodes
  BY DEF Cands
<1>3. /\ i \in Nat /\ j \in Nat
      /\ Prev[i].body \in Seq(STRING) /\ nodes[j].body \in Seq(STRING)
  BY <1>2, PrevTyped, NodesTyped DEF AlignTypeOK
<1>4. PICK x : x = Confidence(Prev[i], nodes[j])
  OBVIOUS
<1>5. x \in 90..100
  <2>1. PICK c, d : c = Prev[i] /\ d = nodes[j]
    OBVIOUS
  <2>2. c.body \in Seq(STRING) /\ d.body \in Seq(STRING)
    BY <1>3, <2>1
  <2>3. Confidence(c, d) \in 90..100
    BY <2>2, ConfidenceBounds
  <2> QED
    BY <1>4, <2>1, <2>3
<1>6. t = <<i, j, x>>
  BY <1>1, <1>4
<1> QED
  BY <1>1, <1>3, <1>4, <1>5, <1>6

LEMMA AnchorKeeps == ASSUME AlignInv, PairByAnchor PROVE AlignInv'
<1>1. PICK t \in Triples : anchored' = anchored \cup {t}
  BY DEF PairByAnchor
<1>2. UNCHANGED <<treeVars, phase, links, matched, at, versions, events>> /\ phase = "anchor"
  BY DEF PairByAnchor
<1>3. /\ t \in Nat \X Nat \X (0..100) /\ t[1] \in Cands(Prev) /\ t[2] \in Cands(nodes)
      /\ t[1] \notin Used(anchored, 1) /\ t[2] \notin Used(anchored, 2)
  BY TripleFree DEF AlignInv
<1>4. TreeInv'
  BY <1>2, TreeUntouched DEF AlignInv
<1>5. AlignTypeOK'
  <2>1. anchored' \subseteq (Nat \X Nat \X (0..100))
    BY <1>1, <1>3 DEF AlignInv, AlignTypeOK
  <2> QED
    BY <1>2, <1>4, <2>1 DEF AlignInv, AlignTypeOK, TreeInv
<1>6. RowsUnique'
  BY <1>2 DEF AlignInv, RowsUnique
<1>7. AnchorsFit'
  <2>1. AnchorsFit
    BY <1>2 DEF AlignInv, PairInv
  <2>2. Cands(Prev)' = Cands(Prev) /\ Cands(nodes)' = Cands(nodes)
    BY <1>2, SidesKept
  <2>3. \A p \in anchored' : p[1] \in Cands(Prev) /\ p[2] \in Cands(nodes)
    BY <1>1, <1>3, <2>1 DEF AnchorsFit
  <2>4. \A p \in anchored : p[1] # t[1] /\ p[2] # t[2]
    BY <1>3 DEF Used
  <2>5. OneToOne(anchored')
    BY <1>1, <2>1, <2>4 DEF AnchorsFit, OneToOne
  <2> QED
    BY <2>2, <2>3, <2>5 DEF AnchorsFit, OneToOne
<1>8. PairInv'
  BY <1>2, <1>7 DEF AlignInv, PairInv
<1>9. VersionToCome'
  BY <1>2 DEF AlignInv, VersionToCome
<1> QED
  BY <1>4, <1>5, <1>6, <1>8, <1>9 DEF AlignInv

LEMMA EndAnchorsKeeps == ASSUME AlignInv, EndAnchors PROVE AlignInv'
<1>1. UNCHANGED <<treeVars, anchored, matched, versions, events>> /\ phase = "anchor"
      /\ phase' = "content" /\ at' = <<Len(Left), Len(Right)>> /\ links' \in CandidateSets
  BY DEF EndAnchors
<1>2. TreeInv' /\ RowsUnique'
  BY <1>1, TreeUntouched DEF AlignInv, RowsUnique
<1>3. Len(Left) \in Nat /\ Len(Right) \in Nat
  BY LeftOver DEF AlignInv
<1>4. links' \subseteq (Nat \X Nat)
  <2>1. links' \subseteq ToSet(Left) \X ToSet(Right)
    BY <1>1 DEF CandidateSets
  <2>2. ToSet(Left) \subseteq Nat /\ ToSet(Right) \subseteq Nat
    BY LeftOver DEF ToSet, AlignInv
  <2> QED
    BY <2>1, <2>2
<1>5. AlignTypeOK'
  BY <1>1, <1>2, <1>3, <1>4 DEF AlignInv, AlignTypeOK, TreeInv
<1>6. PairInv'
  <2>1. AnchorsFit'
    BY <1>1, SidesKept DEF AlignInv, PairInv, AnchorsFit
  <2>2. Left' = Left /\ Right' = Right /\ matched' = {}
    BY <1>1, SidesKept DEF AlignInv, PairInv
  <2>3. Traced'
    BY <1>1, <1>3, <2>2 DEF Traced, OneToOne
  <2> QED
    BY <1>1, <2>1, <2>3 DEF PairInv
<1>7. VersionToCome'
  BY <1>1 DEF AlignInv, VersionToCome
<1> QED
  BY <1>2, <1>5, <1>6, <1>7 DEF AlignInv

LEMMA TraceBackKeeps == ASSUME AlignInv, TraceBack PROVE AlignInv'
<1>1. PICK a, b : a = at[1] /\ b = at[2]
  OBVIOUS
<1>2. PICK x : x = Sim(Prev[Left[a]], nodes[Right[b]])
  OBVIOUS
<1>3. /\ phase = "content" /\ a > 0 /\ b > 0
      /\ UNCHANGED <<treeVars, phase, anchored, links, versions, events>>
      /\ \/ /\ matched' = matched \cup {<<Left[a], Right[b], x>>}
            /\ at' = <<a - 1, b - 1>>
         \/ matched' = matched /\ (at' = <<a - 1, b>> \/ at' = <<a, b - 1>>)
  BY <1>1, <1>2 DEF TraceBack
<1>4. Traced /\ AnchorsFit
  BY <1>3 DEF AlignInv, PairInv
<1>5. a \in 1..Len(Left) /\ b \in 1..Len(Right) /\ a \in Nat /\ b \in Nat
  BY <1>1, <1>3, <1>4, LeftOver DEF Traced, AlignInv
<1>6. PICK l, r : l = Left[a] /\ r = Right[b]
  OBVIOUS
<1>7. l \in Cands(Prev) /\ r \in Cands(nodes) /\ l \in Nat /\ r \in Nat
  BY <1>5, <1>6, LeftOver DEF AlignInv
<1>8. x \in 0..100
  <2>1. Prev[l].body \in Seq(STRING) /\ nodes[r].body \in Seq(STRING)
    BY <1>7, PrevTyped, NodesTyped DEF Cands, AlignInv, AlignTypeOK
  <2> QED
    <3>1. PICK c, d : c = Prev[l] /\ d = nodes[r]
      OBVIOUS
    <3>2. Sim(c, d) \in 0..100
      BY <2>1, <3>1, SimBounds
    <3> QED
      BY <1>2, <1>6, <3>1, <3>2
<1>9. TreeInv' /\ RowsUnique'
  BY <1>3, TreeUntouched DEF AlignInv, RowsUnique
<1>10. matched' \subseteq (Nat \X Nat \X (0..100)) /\ at' \in Nat \X Nat
  <2>1. <<l, r, x>> \in Nat \X Nat \X (0..100)
    BY <1>7, <1>8
  <2>2. matched' \subseteq matched \cup {<<l, r, x>>}
    BY <1>3, <1>6
  <2>3. a - 1 \in Nat /\ b - 1 \in Nat
    BY <1>5
  <2> QED
    <3>1. matched \subseteq (Nat \X Nat \X (0..100))
      BY DEF AlignInv, AlignTypeOK
    <3>2. at' \in Nat \X Nat
      BY <1>3, <1>5, <2>3
    <3> QED
      BY <2>1, <2>2, <3>1, <3>2
<1>11. AlignTypeOK'
  BY <1>3, <1>9, <1>10 DEF AlignInv, AlignTypeOK, TreeInv
<1>12. AnchorsFit'
  BY <1>3, <1>4, SidesKept DEF AnchorsFit
<1>13. Left' = Left /\ Right' = Right
  BY <1>3, SidesKept
<1>14. Traced'
  <2>1. at'[1] \in 0..Len(Left) /\ at'[2] \in 0..Len(Right) /\ at'[1] <= a /\ at'[2] <= b
        /\ at'[1] \in Nat /\ at'[2] \in Nat
    <3>1. Len(Left) \in Nat /\ Len(Right) \in Nat
      BY LeftOver DEF AlignInv
    <3>2. at' = <<a - 1, b - 1>> \/ at' = <<a - 1, b>> \/ at' = <<a, b - 1>>
      BY <1>3
    <3>3. a - 1 \in 0..Len(Left) /\ b - 1 \in 0..Len(Right) /\ a \in 0..Len(Left) /\ b \in 0..Len(Right)
          /\ a - 1 <= a /\ b - 1 <= b /\ a <= a /\ b <= b
      BY <1>5, <3>1
    <3> QED
      BY <3>2, <3>3
  <2>2. \A p \in matched : \E c \in 1..Len(Left), d \in 1..Len(Right) :
           c > a /\ d > b /\ p[1] = Left[c] /\ p[2] = Right[d]
    BY <1>1, <1>4 DEF Traced
  <2>3. \A p \in matched : \E c \in 1..Len(Left), d \in 1..Len(Right) :
           c > at'[1] /\ d > at'[2] /\ p[1] = Left[c] /\ p[2] = Right[d]
    <3>1. ASSUME NEW p \in matched
          PROVE  \E c \in 1..Len(Left), d \in 1..Len(Right) :
                    c > at'[1] /\ d > at'[2] /\ p[1] = Left[c] /\ p[2] = Right[d]
      <4>1. PICK c \in 1..Len(Left), d \in 1..Len(Right) :
               c > a /\ d > b /\ p[1] = Left[c] /\ p[2] = Right[d]
        BY <2>2
      <4>2. c > at'[1] /\ d > at'[2]
        BY <1>5, <2>1, <4>1
      <4> QED
        BY <4>1, <4>2
    <3> QED
      BY <3>1
  <2>4. CASE matched' = matched
    BY <1>4, <1>13, <2>1, <2>3, <2>4 DEF Traced, OneToOne
  <2>5. CASE matched' = matched \cup {<<l, r, x>>} /\ at' = <<a - 1, b - 1>>
    <3>1. \A p \in matched : p[1] # l /\ p[2] # r
      <4>1. ASSUME NEW p \in matched PROVE p[1] # l /\ p[2] # r
        <5>1. PICK c \in 1..Len(Left), d \in 1..Len(Right) :
                 c > a /\ d > b /\ p[1] = Left[c] /\ p[2] = Right[d]
          BY <2>2
        <5>2. c # a /\ d # b
          BY <1>5, <5>1
        <5> QED
          BY <1>5, <1>6, <5>1, <5>2, LeftOver DEF AlignInv
      <4> QED
        BY <4>1
    <3>2. OneToOne(matched')
      BY <1>4, <2>5, <3>1 DEF Traced, OneToOne
    <3>3. a > at'[1] /\ b > at'[2]
      BY <1>5, <2>5
    <3>4. \A p \in matched' : \E c \in 1..Len(Left), d \in 1..Len(Right) :
             c > at'[1] /\ d > at'[2] /\ p[1] = Left[c] /\ p[2] = Right[d]
      BY <1>5, <1>6, <2>3, <2>5, <3>3
    <3> QED
      BY <1>13, <2>1, <3>2, <3>4 DEF Traced, OneToOne
  <2> QED
    BY <1>3, <1>6, <2>4, <2>5
<1>15. PairInv'
  BY <1>3, <1>12, <1>14 DEF PairInv
<1>16. VersionToCome'
  BY <1>3 DEF AlignInv, VersionToCome
<1> QED
  BY <1>9, <1>11, <1>15, <1>16 DEF AlignInv

\* The rows of the new version: its clauses that persist, each once, in order.
LEMMA KeptOnce ==
    ASSUME TreeOK
    PROVE  /\ Len(Kept) \in Nat /\ DOMAIN Kept = 1..Len(Kept)
           /\ \A k \in DOMAIN Kept : Kept[k] \in DOMAIN nodes /\ Persistable(nodes[Kept[k]])
           /\ \A j \in DOMAIN nodes : Persistable(nodes[j]) => \E k \in DOMAIN Kept : Kept[k] = j
           /\ \A k, l \in DOMAIN Kept : k < l => Kept[k] < Kept[l]
           /\ \A k, l \in DOMAIN Kept : Kept[k] = Kept[l] => k = l
<1>1. PICK n, S : n = Len(nodes) /\ S = {j \in DOMAIN nodes : Persistable(nodes[j])}
  OBVIOUS
<1>2. n \in Nat /\ DOMAIN nodes = 1..n
  BY <1>1, NodesTyped
<1>3. S \in SUBSET (0..n) /\ \A x \in S : x \in Nat
  BY <1>1, <1>2
<1>4. Kept = InOrder(S)
  BY <1>1 DEF Kept
<1>5. /\ Len(Kept) \in Nat /\ Kept \in [1..Len(Kept) -> S]
      /\ \A x \in S : \E k \in 1..Len(Kept) : Kept[k] = x
      /\ \A k, l \in 1..Len(Kept) : k < l => Kept[k] < Kept[l]
  BY <1>2, <1>3, <1>4, InOrderLists
<1>6. ASSUME NEW k \in 1..Len(Kept), NEW l \in 1..Len(Kept), Kept[k] = Kept[l] PROVE k = l
  <2>1. Kept[k] \in Nat /\ Kept[l] \in Nat
    BY <1>3, <1>5
  <2>2. k \in Nat /\ l \in Nat /\ ~ (Kept[k] < Kept[l]) /\ ~ (Kept[l] < Kept[k])
    BY <1>6, <2>1
  <2> QED
    BY <1>5, <2>2
<1> QED
  BY <1>1, <1>5, <1>6

LEMMA NewRowFields ==
    ASSUME TreeOK
    PROVE  /\ DOMAIN NewRows = DOMAIN Kept
           /\ \A k \in DOMAIN Kept : /\ NewRows[k].path = Stored(nodes[Kept[k]].path)
                                     /\ NewRows[k].heading = nodes[Kept[k]].heading
                                     /\ NewRows[k].body = nodes[Kept[k]].body
                                     /\ NewRows[k].uid = UidOf(Kept[k])
  BY DEF NewRows, Row

LEMMA NoPathIsNone == NoPath \notin Paths
<1> SUFFICES ASSUME NoPath \in Paths PROVE FALSE
  OBVIOUS
<1>1. NoPath[1] = <<"none", 0>> /\ 1 \in 1..Len(NoPath)
  BY DEF NoPath
<1>2. NoPath[1] \in (Labels \cup Titles \cup {"#"} \cup Pieces) \X (Nat \ {0})
  BY <1>1, ElementOfSeq DEF Paths
<1> QED
  BY <1>1, <1>2

\* Every event of a new version is one that ChangeEvent accepts.
LEMMA EventsAccepted ==
    ASSUME AlignInv, phase = "content"
    PROVE  EmitEvents \subseteq EventSet /\ \A e \in EmitEvents : ValidEvent(e)
<1> SUFFICES ASSUME NEW e \in EmitEvents PROVE e \in EventSet /\ ValidEvent(e)
  OBVIOUS
<1>1. \A i \in DOMAIN Prev : Prev[i].path \in Paths /\ Prev[i].body \in Seq(STRING)
  BY PrevTyped DEF AlignInv
<1>2. \A j \in DOMAIN nodes : nodes[j].path \in Paths /\ nodes[j].body \in Seq(STRING)
  BY NodesTyped DEF AlignInv, TreeInv
<1>3. NoPath \notin Paths /\ <<>> \in Seq(STRING) /\ 100 \in 0..100
  BY NoPathIsNone
<1>4. CASE e \in PairEvents
  <2>1. PICK p \in Pairs :
           /\ Prev[p[1]].path # nodes[p[2]].path \/ Prev[p[1]].body # nodes[p[2]].body
           /\ e = Event(IF Prev[p[1]].body = nodes[p[2]].body THEN "MOVED" ELSE "MODIFIED",
                        Prev[p[1]].path, nodes[p[2]].path, Prev[p[1]].body, nodes[p[2]].body, p[3])
    BY <1>4 DEF PairEvents
  <2>2. p[1] \in DOMAIN Prev /\ p[2] \in DOMAIN nodes /\ p[3] \in 0..100
    BY PairsJoin DEF Cands
  <2>3. PICK c, d : c = Prev[p[1]] /\ d = nodes[p[2]]
    OBVIOUS
  <2>4. c.path \in Paths /\ c.body \in Seq(STRING) /\ d.path \in Paths /\ d.body \in Seq(STRING)
    BY <1>1, <1>2, <2>2, <2>3
  <2>5. e = [type |-> IF c.body = d.body THEN "MOVED" ELSE "MODIFIED", before_path |-> c.path,
             after_path |-> d.path, before_text |-> c.body, after_text |-> d.body,
             confidence |-> p[3]]
    BY <2>1, <2>3 DEF Event
  <2>6. e \in EventSet
    BY <2>2, <2>4, <2>5 DEF EventSet
  <2>7. /\ e.type = IF c.body = d.body THEN "MOVED" ELSE "MODIFIED"
        /\ e.before_path = c.path /\ e.after_path = d.path
        /\ e.before_text = c.body /\ e.after_text = d.body
    BY <2>5
  <2>8. ValidEvent(e)
    <3>1. CASE c.body = d.body
      BY <2>1, <2>3, <2>7, <3>1 DEF ValidEvent
    <3>2. CASE c.body # d.body
      BY <2>7, <3>2 DEF ValidEvent
    <3> QED
      BY <3>1, <3>2
  <2> QED
    BY <2>6, <2>8
<1>5. CASE \E i \in Cands(Prev) : e = Event("REMOVED", Prev[i].path, NoPath, Prev[i].body, <<>>, 100)
  <2>1. PICK i \in Cands(Prev) : e = Event("REMOVED", Prev[i].path, NoPath, Prev[i].body, <<>>, 100)
    BY <1>5
  <2>2. PICK path, body : path = Prev[i].path /\ body = Prev[i].body
    OBVIOUS
  <2>3. path \in Paths /\ body \in Seq(STRING)
    BY <1>1, <2>2 DEF Cands
  <2>4. e = [type |-> "REMOVED", before_path |-> path, after_path |-> NoPath,
             before_text |-> body, after_text |-> <<>>, confidence |-> 100]
    BY <2>1, <2>2 DEF Event
  <2>5. e \in EventSet
    BY <1>3, <2>3, <2>4 DEF EventSet
  <2>6. e.type = "REMOVED" /\ e.after_path = NoPath /\ e.before_path # NoPath
    BY <1>3, <2>3, <2>4
  <2>7. ValidEvent(e)
    BY <2>6 DEF ValidEvent
  <2> QED
    BY <2>5, <2>7
<1>6. CASE \E j \in Cands(nodes) : e = Event("ADDED", NoPath, nodes[j].path, <<>>, nodes[j].body, 100)
  <2>1. PICK j \in Cands(nodes) : e = Event("ADDED", NoPath, nodes[j].path, <<>>, nodes[j].body, 100)
    BY <1>6
  <2>2. PICK path, body : path = nodes[j].path /\ body = nodes[j].body
    OBVIOUS
  <2>3. path \in Paths /\ body \in Seq(STRING)
    BY <1>2, <2>2 DEF Cands
  <2>4. e = [type |-> "ADDED", before_path |-> NoPath, after_path |-> path,
             before_text |-> <<>>, after_text |-> body, confidence |-> 100]
    BY <2>1, <2>2 DEF Event
  <2>5. e \in EventSet
    BY <1>3, <2>3, <2>4 DEF EventSet
  <2>6. e.type = "ADDED" /\ e.before_path = NoPath /\ e.after_path # NoPath
    BY <1>3, <2>3, <2>4
  <2>7. ValidEvent(e)
    BY <2>6 DEF ValidEvent
  <2> QED
    BY <2>5, <2>7
<1> QED
  BY <1>4, <1>5, <1>6 DEF EmitEvents

LEMMA UidTyped == ASSUME AlignTypeOK, NEW j \in DOMAIN nodes PROVE UidOf(j) \in Uids
<1>1. PICK source : source = SourcePath(nodes[j])
  OBVIOUS
<1>2. CASE Rows(source) # {}
  <2>1. (CHOOSE i \in Rows(source) : TRUE) \in DOMAIN Prev
    BY <1>2 DEF Rows
  <2>2. UidAt(source) \in Uids
    BY <2>1, PrevTyped DEF UidAt
  <2> QED
    BY <1>1, <1>2, <2>2 DEF UidOf
<1>3. CASE Rows(source) = {}
  <2>1. Len(versions) + 1 \in Nat \ {0} /\ j \in Nat \ {0}
    BY NodesTyped DEF AlignTypeOK
  <2> QED
    BY <1>1, <1>3, <2>1 DEF UidOf, Uids
<1> QED
  BY <1>2, <1>3

\* The rows that UNIQUE (document_version_id, clause_path) lets in.
LEMMA RowsApart ==
    ASSUME TreeOK, PathsApart
    PROVE  /\ \A i, j \in DOMAIN NewRows : NewRows[i].path = NewRows[j].path => i = j
           /\ \A i \in DOMAIN NewRows : ~ Slashed(NewRows[i].path)
<1>1. ASSUME NEW i \in DOMAIN NewRows
      PROVE  /\ i \in DOMAIN Kept /\ Kept[i] \in DOMAIN nodes /\ Persistable(nodes[Kept[i]])
             /\ NewRows[i].path = Stored(nodes[Kept[i]].path)
  BY NewRowFields, KeptOnce
<1>2. ASSUME NEW i \in DOMAIN NewRows PROVE ~ Slashed(NewRows[i].path)
  <2>1. PICK path \in Paths : path = nodes[Kept[i]].path
    BY <1>1, NodesTyped
  <2> QED
    BY <1>1, <2>1, StoredPath
<1>3. ASSUME NEW i \in DOMAIN NewRows, NEW j \in DOMAIN NewRows, NewRows[i].path = NewRows[j].path
      PROVE  i = j
  <2>1. Kept[i] = Kept[j]
    BY <1>1, <1>3 DEF PathsApart
  <2> QED
    BY <1>1, <2>1, KeptOnce
<1> QED
  BY <1>2, <1>3

LEMMA RefusedKeeps == ASSUME AlignInv, PersistRefused PROVE AlignInv'
<1>1. /\ phase' = "idle" /\ anchored' = {} /\ links' = {} /\ matched' = {} /\ at' = <<0, 0>>
      /\ UNCHANGED treeVars /\ UNCHANGED <<versions, events>>
  BY DEF PersistRefused, EndPoll
<1>2. TreeInv'
  BY <1>1, TreeUntouched DEF AlignInv
<1>3. AlignTypeOK'
  BY <1>1, <1>2 DEF AlignInv, AlignTypeOK, TreeInv
<1>4. RowsUnique' /\ VersionToCome' /\ PairInv'
  BY <1>1 DEF AlignInv, RowsUnique, VersionToCome, PairInv
<1> QED
  BY <1>2, <1>3, <1>4 DEF AlignInv

LEMMA PersistKeeps == ASSUME AlignInv, Persist PROVE AlignInv'
<1>1. /\ phase = "content" /\ phase' = "idle" /\ versions' = Append(versions, NewRows)
      /\ events' = Append(events, EmitEvents)
      /\ anchored' = {} /\ links' = {} /\ matched' = {} /\ at' = <<0, 0>> /\ UNCHANGED treeVars
      /\ PathsApart
  BY DEF Persist, EndPoll
<1>2. TreeInv'
  BY <1>1, TreeUntouched DEF AlignInv
<1>3. TreeOK
  BY DEF AlignInv, TreeInv
<1>4. NewRows \in Seq(RowSet)
  <2>1. \A j \in DOMAIN nodes : Row(j) \in RowSet
    <3>1. ASSUME NEW j \in DOMAIN nodes PROVE Row(j) \in RowSet
      <4>1. PICK c : c = nodes[j]
        OBVIOUS
      <4>2. PICK uid, path : uid = UidOf(j) /\ path = Stored(nodes[j].path)
        OBVIOUS
      <4>3. /\ uid \in Uids /\ path \in Paths /\ c.heading \in Titles \cup {NoText}
            /\ c.body \in Seq(STRING) /\ c.label \in Labels \cup {NoText}
        BY <1>3, <4>1, <4>2, NodesTyped, UidTyped, StoredPath DEF AlignInv
      <4>4. Row(j) = [uid |-> uid, path |-> path, heading |-> c.heading, body |-> c.body,
                      label |-> c.label]
        BY <4>1, <4>2 DEF Row
      <4> QED
        BY <4>3, <4>4 DEF RowSet
    <3> QED
      BY <3>1
  <2>2. PICK m : m = Len(Kept)
    OBVIOUS
  <2>3. m \in Nat /\ DOMAIN Kept = 1..m /\ \A k \in 1..m : Kept[k] \in DOMAIN nodes
    BY <1>3, <2>2, KeptOnce
  <2>4. NewRows \in [1..m -> RowSet]
    BY <2>1, <2>3 DEF NewRows
  <2> QED
    BY <2>3, <2>4
<1>5. EmitEvents \in SUBSET EventSet /\ \A e \in EmitEvents : ValidEvent(e)
  BY <1>1, EventsAccepted
<1>6. PICK n : n = Len(versions)
  OBVIOUS
<1>7. /\ versions \in Seq(Seq(RowSet)) /\ events \in Seq(SUBSET EventSet)
      /\ n \in Nat /\ Len(events) = n /\ n < MaxVersions
      /\ \A i \in 1..n : \A e \in events[i] : ValidEvent(e)
  <2>1. Len(versions) < MaxVersions
    BY <1>1 DEF AlignInv, VersionToCome
  <2> QED
    BY <1>6, <2>1 DEF AlignInv, AlignTypeOK
<1>8. /\ versions' \in Seq(Seq(RowSet)) /\ Len(versions') = n + 1
      /\ versions'[n + 1] = NewRows /\ \A i \in 1..n : versions'[i] = versions[i]
  BY <1>1, <1>4, <1>6, <1>7, AppendProperties
<1>9. /\ events' \in Seq(SUBSET EventSet) /\ Len(events') = n + 1
      /\ events'[n + 1] = EmitEvents /\ \A i \in 1..n : events'[i] = events[i]
  BY <1>1, <1>5, <1>7, AppendProperties
<1>10. \A i \in 1..(n + 1) : i \in 1..n \/ i = n + 1
  BY <1>7
<1>11. AlignTypeOK'
  <2>1. \A i \in DOMAIN events' : \A e \in events'[i] : ValidEvent(e)
    BY <1>5, <1>7, <1>9, <1>10
  <2>2. Len(versions') <= MaxVersions /\ Len(events') = Len(versions')
    BY <1>7, <1>8, <1>9, AlignAssumption
  <2>3. TreeOK'
    BY <1>2 DEF TreeInv
  <2>4. /\ phase' \in {"idle", "parse", "anchor", "content"}
        /\ anchored' \subseteq (Nat \X Nat \X (0..100)) /\ matched' \subseteq (Nat \X Nat \X (0..100))
        /\ links' \subseteq (Nat \X Nat) /\ at' \in Nat \X Nat
    BY <1>1 DEF AlignInv, AlignTypeOK
  <2> QED
    BY <1>8, <1>9, <2>1, <2>2, <2>3, <2>4 DEF AlignTypeOK
<1>12. RowsUnique'
  <2>1. /\ \A i, j \in DOMAIN NewRows : NewRows[i].path = NewRows[j].path => i = j
        /\ \A i \in DOMAIN NewRows : ~ Slashed(NewRows[i].path)
    BY <1>1, <1>3, RowsApart
  <2>2. \A m \in 1..n :
           /\ \A i, j \in DOMAIN versions[m] : versions[m][i].path = versions[m][j].path => i = j
           /\ \A i \in DOMAIN versions[m] : ~ Slashed(versions[m][i].path)
    <3>1. DOMAIN versions = 1..n
      BY <1>6, <1>7
    <3>2. RowsUnique
      BY DEF AlignInv
    <3> QED
      BY <3>1, <3>2 DEF RowsUnique
  <2>3. DOMAIN versions' = 1..(n + 1)
    BY <1>7, <1>8
  <2> QED
    BY <1>8, <1>10, <2>1, <2>2, <2>3 DEF RowsUnique
<1>13. PairInv'
  BY <1>1 DEF PairInv
<1>14. VersionToCome'
  BY <1>1 DEF VersionToCome
<1> QED
  BY <1>2, <1>11, <1>12, <1>13, <1>14 DEF AlignInv

LEMMA AlignStutter == ASSUME AlignInv, UNCHANGED pollVars PROVE AlignInv'
<1>1. UNCHANGED <<treeVars, phase, anchored, links, matched, at, versions, events>>
  BY DEF pollVars, alignVars
<1>2. TreeInv'
  BY <1>1, TreeUntouched DEF AlignInv
<1>3. AlignTypeOK'
  BY <1>1, <1>2 DEF AlignInv, AlignTypeOK, TreeInv
<1>4. RowsUnique' /\ VersionToCome'
  BY <1>1 DEF AlignInv, RowsUnique, VersionToCome
<1>5. AnchorsFit => AnchorsFit'
  BY <1>1, SidesKept DEF AnchorsFit
<1>6. Traced => Traced'
  BY <1>1, SidesKept DEF Traced
<1>7. PairInv'
  BY <1>1, <1>5, <1>6 DEF AlignInv, PairInv
<1> QED
  BY <1>2, <1>3, <1>4, <1>7 DEF AlignInv

LEMMA AlignKept == AlignInv /\ [AlignNext]_pollVars => AlignInv'
  BY FetchKeeps, AnchorKeeps, EndAnchorsKeeps, TraceBackKeeps, PersistKeeps, RefusedKeeps, AlignStutter
     DEF AlignNext

\* The types of the parser and of the alignment, and every stored event is one
\* that ChangeEvent accepts.
THEOREM AlignTypeCorrect == AlignSpec => []AlignTypeOK
<1>1. AlignInv => AlignTypeOK
  BY DEF AlignInv
<1> QED
  BY <1>1, InitAlign, AlignKept, PTL DEF AlignSpec

\* No two clauses of a tree share a path, for any markers, titles, texts and
\* lengths of the document (_disambiguate_segment, _open_clause).
THEOREM ClausePathsUnique == AlignSpec => []PathsUnique
<1>1. AlignInv => PathsUnique
  BY DEF AlignInv, TreeInv
<1> QED
  BY <1>1, InitAlign, AlignKept, PTL DEF AlignSpec

\* No clause of either version has two partners, over both passes.
THEOREM PairsAreOneToOne == AlignSpec => []PairsOneToOne
<1>1. AlignInv => PairsOneToOne
  BY PairsJoin DEF PairsOneToOne, OneToOne
<1> QED
  BY <1>1, InitAlign, AlignKept, PTL DEF AlignSpec

-----------------------------------------------------------------------------
(* What the traceback pairs *)

LEMMA LeftInOrder ==
    ASSUME AlignTypeOK
    PROVE  /\ \A k, l \in 1..Len(Left) : k < l => Left[k] < Left[l]
           /\ \A k, l \in 1..Len(Right) : k < l => Right[k] < Right[l]
<1>1. PICK m, n : m = Len(Prev) /\ n = Len(nodes)
  OBVIOUS
<1>2. m \in Nat /\ n \in Nat /\ DOMAIN Prev = 1..m /\ DOMAIN nodes = 1..n
  BY <1>1, PrevTyped, NodesTyped DEF AlignTypeOK
<1>3. PICK S, T : /\ S = {i \in Cands(Prev) \ Used(anchored, 1) : Long(Prev[i])}
                  /\ T = {j \in Cands(nodes) \ Used(anchored, 2) : Long(nodes[j])}
  OBVIOUS
<1>4. Left = InOrder(S) /\ Right = InOrder(T)
  BY <1>3 DEF Left, Right
<1>5. S \in SUBSET (0..m) /\ T \in SUBSET (0..n)
  BY <1>2, <1>3 DEF Cands
<1>6. \A k, l \in 1..Len(Left) : k < l => Left[k] < Left[l]
  BY <1>2, <1>4, <1>5, InOrderLists
<1>7. \A k, l \in 1..Len(Right) : k < l => Right[k] < Right[l]
  BY <1>2, <1>4, <1>5, InOrderLists
<1> QED
  BY <1>6, <1>7

\* The part of ContentOptimal that needs no sum: only pairs the index yields, in
\* document order on both sides.
TracedInOrder == phase = "content" => matched \subseteq Links /\ NonCrossing(matched)

LEMMA LinksKept == ASSUME UNCHANGED <<treeVars, links, versions>> PROVE Links' = Links
<1>1. nodes' = nodes /\ links' = links /\ Prev' = Prev
  BY SidesKept DEF treeVars, Prev
<1> QED
  BY <1>1 DEF Links

\* What the traceback adds lies before all it has added so far, on both sides.
LEMMA TraceBackInOrder == ASSUME AlignInv, TracedInOrder, TraceBack PROVE TracedInOrder'
<1>1. PICK a, b : a = at[1] /\ b = at[2]
  OBVIOUS
<1>2. PICK l, r : l = Left[a] /\ r = Right[b]
  OBVIOUS
<1>3. PICK x : x = Sim(Prev[l], nodes[r])
  OBVIOUS
<1>4. /\ phase = "content" /\ a > 0 /\ b > 0
      /\ UNCHANGED <<treeVars, links, versions>>
      /\ \/ matched' = matched \cup {<<l, r, x>>} /\ Move(a, b) = "pair"
         \/ matched' = matched
  BY <1>1, <1>2, <1>3 DEF TraceBack
<1>5. Traced
  BY <1>4 DEF AlignInv, PairInv
<1>6. a \in 1..Len(Left) /\ b \in 1..Len(Right) /\ a \in Nat /\ b \in Nat
  BY <1>1, <1>4, <1>5, LeftOver DEF Traced, AlignInv
<1>7. matched \subseteq Links /\ NonCrossing(matched)
  BY <1>4 DEF TracedInOrder
<1>8. Links' = Links
  BY <1>4, LinksKept
<1>9. CASE matched' = matched
  BY <1>7, <1>8, <1>9 DEF TracedInOrder, NonCrossing
<1>10. CASE matched' = matched \cup {<<l, r, x>>} /\ Move(a, b) = "pair"
  <2>1. <<l, r>> \in links
    BY <1>2, <1>10 DEF Move
  <2>2. <<l, r, x>> \in Links
    <3>1. PICK k : k = <<l, r>>
      OBVIOUS
    <3>2. k \in links /\ k[1] = l /\ k[2] = r
      BY <2>1, <3>1
    <3> QED
      BY <1>3, <3>2 DEF Links
  <2>3. ASSUME NEW p \in matched
        PROVE  p[1] \in Nat /\ p[2] \in Nat /\ l < p[1] /\ r < p[2]
    <3>1. PICK c \in 1..Len(Left), d \in 1..Len(Right) :
             c > a /\ d > b /\ p[1] = Left[c] /\ p[2] = Right[d]
      BY <1>1, <1>5 DEF Traced
    <3>2. a < c /\ b < d
      BY <1>6, <3>1
    <3>3. Left[a] < Left[c] /\ Right[b] < Right[d]
      BY <1>6, <3>1, <3>2, LeftInOrder DEF AlignInv
    <3> QED
      BY <1>2, <3>1, <3>3, LeftOver DEF AlignInv
  <2>4. l \in Nat /\ r \in Nat
    BY <1>2, <1>6, LeftOver DEF AlignInv
  <2>5. ASSUME NEW p \in matched', NEW q \in matched' PROVE p[1] < q[1] <=> p[2] < q[2]
    <3>1. CASE p \in matched /\ q \in matched
      BY <1>7, <3>1 DEF NonCrossing
    <3>2. CASE p = <<l, r, x>> /\ q \in matched
      BY <2>3, <3>2
    <3>3. CASE p \in matched /\ q = <<l, r, x>>
      BY <2>3, <2>4, <3>3
    <3>4. CASE p = <<l, r, x>> /\ q = <<l, r, x>>
      BY <2>4, <3>4
    <3> QED
      BY <1>10, <3>1, <3>2, <3>3, <3>4
  <2>6. matched' \subseteq Links'
    BY <1>7, <1>8, <1>10, <2>2
  <2> QED
    BY <2>5, <2>6 DEF TracedInOrder, NonCrossing
<1> QED
  BY <1>4, <1>9, <1>10

LEMMA InOrderKept == ASSUME AlignInv, TracedInOrder, [AlignNext]_pollVars PROVE TracedInOrder'
<1>1. CASE Fetch \/ FetchReformatted \/ Parse \/ EndOfText \/ PairByAnchor \/ Persist
          \/ PersistRefused
  <2>1. phase' # "content"
    BY <1>1 DEF Fetch, FetchReformatted, Parse, EndOfText, PairByAnchor, Persist, PersistRefused, EndPoll, alignVars
  <2> QED
    BY <2>1 DEF TracedInOrder
<1>2. CASE EndAnchors
  <2>1. matched' = {}
    BY <1>2 DEF EndAnchors, AlignInv, PairInv
  <2> QED
    BY <2>1 DEF TracedInOrder, NonCrossing
<1>3. CASE TraceBack
  BY <1>3, TraceBackInOrder
<1>4. CASE UNCHANGED pollVars
  <2>1. UNCHANGED <<treeVars, phase, links, matched, versions>>
    BY <1>4 DEF pollVars, alignVars
  <2>2. Links' = Links
    BY <2>1, LinksKept
  <2> QED
    BY <2>1, <2>2 DEF TracedInOrder, NonCrossing
<1> QED
  BY <1>1, <1>2, <1>3, <1>4 DEF AlignNext

\* The content pass pairs only what the index yields and never across another
\* pair, whatever the table of the dynamic programme holds
\* (_pass_content_monotonic).
THEOREM TracebackInOrder == AlignSpec => []TracedInOrder
<1>1. AlignInit => TracedInOrder
  BY DEF AlignInit, TracedInOrder
<1> QED
  BY <1>1, InitAlign, AlignKept, InOrderKept, PTL DEF AlignSpec

-----------------------------------------------------------------------------
(* The table of the dynamic programme *)

\* An entry of the table over m clauses and n, from its three neighbours, when
\* the index pairs in K are linked and w is what each gains.
Entry(f, K, w, a, b) ==
    LET skip == Greater(f[<<a - 1, b>>], f[<<a, b - 1>>])
    IN IF a = 0 \/ b = 0 THEN 0
       ELSE IF <<a, b>> \in K THEN Greater(skip, f[<<a - 1, b - 1>>] + w[<<a, b>>]) ELSE skip

\* The equation of the table, and the table with its type.
Fills(f, m, n, K, w) == f = [x \in (0..m) \X (0..n) |-> Entry(f, K, w, x[1], x[2])]

IsTable(f, m, n, K, w) ==
    /\ f \in [(0..m) \X (0..n) -> Nat]
    /\ \A a \in 0..m, b \in 0..n : f[<<a, b>>] = Entry(f, K, w, a, b)

LEMMA EntryTyped ==
    ASSUME NEW m \in Nat, NEW n \in Nat, NEW K, NEW w \in [(1..m) \X (1..n) -> Nat],
           NEW f \in [(0..m) \X (0..n) -> Nat], NEW a \in 0..m, NEW b \in 0..n
    PROVE  Entry(f, K, w, a, b) \in Nat
<1>1. CASE a = 0 \/ b = 0
  BY <1>1 DEF Entry
<1>2. CASE a # 0 /\ b # 0
  <2>1. /\ <<a, b>> \in (1..m) \X (1..n) /\ <<a - 1, b>> \in (0..m) \X (0..n)
        /\ <<a, b - 1>> \in (0..m) \X (0..n) /\ <<a - 1, b - 1>> \in (0..m) \X (0..n)
    BY <1>2
  <2>2. PICK x, y, z, v : /\ x = f[<<a - 1, b>>] /\ y = f[<<a, b - 1>>]
                          /\ z = f[<<a - 1, b - 1>>] /\ v = w[<<a, b>>]
    OBVIOUS
  <2>3. x \in Nat /\ y \in Nat /\ z \in Nat /\ v \in Nat
    BY <2>1, <2>2
  <2>4. Greater(x, y) \in Nat /\ Greater(Greater(x, y), z + v) \in Nat
    BY <2>3 DEF Greater
  <2> QED
    BY <1>2, <2>2, <2>4 DEF Entry
<1> QED
  BY <1>1, <1>2

\* The neighbours an entry is made from agree.
Agree(f, g, a, b) ==
    a # 0 /\ b # 0 => /\ f[<<a - 1, b>>] = g[<<a - 1, b>>] /\ f[<<a, b - 1>>] = g[<<a, b - 1>>]
                      /\ f[<<a - 1, b - 1>>] = g[<<a - 1, b - 1>>]

LEMMA EntryFrom ==
    ASSUME NEW K, NEW w, NEW f, NEW g, NEW a, NEW b, Agree(f, g, a, b)
    PROVE  Entry(f, K, w, a, b) = Entry(g, K, w, a, b)
  BY DEF Agree, Entry

SameBefore(f, g, m, n, k) ==
    \A c \in 0..m, d \in 0..n : c + d < k => f[<<c, d>>] = g[<<c, d>>]

\* All neighbours lie on earlier diagonals.
LEMMA AgreeBefore ==
    ASSUME NEW m \in Nat, NEW n \in Nat, NEW f, NEW g, NEW a \in 0..m, NEW b \in 0..n,
           SameBefore(f, g, m, n, a + b)
    PROVE  Agree(f, g, a, b)
<1> SUFFICES ASSUME a # 0, b # 0
             PROVE  /\ f[<<a - 1, b>>] = g[<<a - 1, b>>] /\ f[<<a, b - 1>>] = g[<<a, b - 1>>]
                    /\ f[<<a - 1, b - 1>>] = g[<<a - 1, b - 1>>]
  BY DEF Agree
<1>1. /\ a - 1 \in 0..m /\ b - 1 \in 0..n
      /\ a - 1 + b < a + b /\ a + (b - 1) < a + b /\ a - 1 + (b - 1) < a + b
  OBVIOUS
<1> QED
  BY <1>1 DEF SameBefore

\* The equation leaves no choice: the first diagonal where two solutions differ
\* would follow from entries where they agree.
LEMMA TableUnique ==
    ASSUME NEW m \in Nat, NEW n \in Nat, NEW K, NEW w, NEW f, NEW g,
           Fills(f, m, n, K, w), Fills(g, m, n, K, w)
    PROVE  f = g
<1>0. \A a \in 0..m, b \in 0..n :
         f[<<a, b>>] = Entry(f, K, w, a, b) /\ g[<<a, b>>] = Entry(g, K, w, a, b)
  <2> SUFFICES ASSUME NEW a \in 0..m, NEW b \in 0..n
               PROVE  f[<<a, b>>] = Entry(f, K, w, a, b) /\ g[<<a, b>>] = Entry(g, K, w, a, b)
    OBVIOUS
  <2>1. PICK x : x = <<a, b>>
    OBVIOUS
  <2>2. x \in (0..m) \X (0..n) /\ x[1] = a /\ x[2] = b
    BY <2>1
  <2>3. f[x] = Entry(f, K, w, x[1], x[2]) /\ g[x] = Entry(g, K, w, x[1], x[2])
    BY <2>2 DEF Fills
  <2> QED
    BY <2>1, <2>2, <2>3
<1> DEFINE Off == {k \in 0..(m + n) : \E a \in 0..m, b \in 0..n : a + b = k /\ f[<<a, b>>] # g[<<a, b>>]}
<1>1. CASE Off # {}
  <2>1. PICK k \in Off : \A l \in Off : k <= l
    <3>1. Off \in SUBSET Nat
      OBVIOUS
    <3> HIDE DEF Off
    <3> QED
      BY <1>1, <3>1, LeastNumber
  <2>2. PICK a \in 0..m, b \in 0..n : a + b = k /\ f[<<a, b>>] # g[<<a, b>>]
    BY <2>1
  <2>3. ASSUME NEW c \in 0..m, NEW d \in 0..n, c + d < a + b PROVE f[<<c, d>>] = g[<<c, d>>]
    <3>1. c + d \notin Off
      <4>1. c + d \in Nat /\ c + d < k /\ k \in Nat
        BY <2>2, <2>3
      <4> HIDE DEF Off
      <4> QED
        BY <2>1, <4>1
    <3>2. c + d \in 0..(m + n)
      OBVIOUS
    <3> QED
      BY <3>1, <3>2
  <2>4. Entry(f, K, w, a, b) = Entry(g, K, w, a, b)
    <3> HIDE DEF Off
    <3>1. SameBefore(f, g, m, n, a + b)
      BY <2>3 DEF SameBefore
    <3> QED
      BY <3>1, AgreeBefore, EntryFrom
  <2> QED
    BY <1>0, <2>2, <2>4
<1>2. CASE Off = {}
  <2>1. ASSUME NEW a \in 0..m, NEW b \in 0..n PROVE f[<<a, b>>] = g[<<a, b>>]
    <3>1. a + b \in 0..(m + n)
      OBVIOUS
    <3> QED
      BY <1>2, <3>1
  <2>2. ASSUME NEW x \in (0..m) \X (0..n) PROVE f[x] = g[x]
    <3>1. x = <<x[1], x[2]>> /\ x[1] \in 0..m /\ x[2] \in 0..n
      OBVIOUS
    <3> QED
      BY <2>1, <3>1
  <2> QED
    BY <2>2 DEF Fills
<1> QED
  BY <1>1, <1>2

\* Filled by diagonals, the table is there.
LEMMA TableExists ==
    ASSUME NEW m \in Nat, NEW n \in Nat, NEW K, NEW w \in [(1..m) \X (1..n) -> Nat]
    PROVE  \E f : IsTable(f, m, n, K, w)
<1> DEFINE Grid == (0..m) \X (0..n)
           Upto(f, k) == \A a \in 0..m, b \in 0..n : a + b <= k => f[<<a, b>>] = Entry(f, K, w, a, b)
           Open == {k \in 0..(m + n) : ~ \E f \in [Grid -> Nat] : Upto(f, k)}
<1>0. ASSUME NEW k \in Nat, NEW f \in [Grid -> Nat],
             \A a \in 0..m, b \in 0..n : a + b < k => f[<<a, b>>] = Entry(f, K, w, a, b)
      PROVE  \E g \in [Grid -> Nat] : Upto(g, k)
  <2> DEFINE g == [x \in Grid |-> Entry(f, K, w, x[1], x[2])]
  <2>1. g \in [Grid -> Nat]
    <3>1. \A x \in Grid : Entry(f, K, w, x[1], x[2]) \in Nat
      BY EntryTyped
    <3> QED
      BY <3>1
  <2>2. \A a \in 0..m, b \in 0..n : g[<<a, b>>] = Entry(f, K, w, a, b)
    OBVIOUS
  <2> HIDE DEF g
  <2>3. ASSUME NEW a \in 0..m, NEW b \in 0..n, a + b <= k PROVE g[<<a, b>>] = Entry(g, K, w, a, b)
    <3>1. ASSUME NEW c \in 0..m, NEW d \in 0..n, c + d < a + b PROVE f[<<c, d>>] = g[<<c, d>>]
      <4>1. c + d < k
        BY <2>3, <3>1
      <4> QED
        BY <1>0, <2>2, <4>1
    <3>2. Entry(f, K, w, a, b) = Entry(g, K, w, a, b)
      <4> HIDE DEF Open, Grid
      <4>1. SameBefore(f, g, m, n, a + b)
        BY <3>1 DEF SameBefore
      <4> QED
        BY <4>1, AgreeBefore, EntryFrom
    <3> QED
      BY <2>2, <3>2
  <2> QED
    BY <2>1, <2>3
<1>1. CASE Open # {}
  <2>1. PICK k \in Open : \A l \in Open : k <= l
    <3>1. Open \in SUBSET Nat
      OBVIOUS
    <3> HIDE DEF Open
    <3> QED
      BY <1>1, <3>1, LeastNumber
  <2>2. k \in Nat /\ ~ \E f \in [Grid -> Nat] : Upto(f, k)
    <3> HIDE DEF Upto, Grid
    <3> QED
      BY <2>1
  <2>3. \E f \in [Grid -> Nat] :
           \A a \in 0..m, b \in 0..n : a + b < k => f[<<a, b>>] = Entry(f, K, w, a, b)
    <3>1. CASE k = 0
      <4>1. [x \in Grid |-> 0] \in [Grid -> Nat]
        OBVIOUS
      <4>2. \A a \in 0..m, b \in 0..n : ~ (a + b < k)
        BY <3>1
      <4> QED
        BY <4>1, <4>2
    <3>2. CASE k # 0
      <4>1. k - 1 \in 0..(m + n) /\ k - 1 < k /\ k - 1 \in Nat
        BY <2>1, <3>2
      <4>2. k - 1 \notin Open
        <5> HIDE DEF Open
        <5> QED
          BY <2>1, <2>2, <4>1
      <4>3. PICK f \in [Grid -> Nat] : Upto(f, k - 1)
        BY <4>1, <4>2
      <4>4. \A a \in 0..m, b \in 0..n : a + b < k => a + b <= k - 1
        BY <2>2
      <4> QED
        BY <4>3, <4>4
    <3> QED
      BY <3>1, <3>2
  <2> HIDE DEF Upto, Grid
  <2> QED
    BY <1>0, <2>2, <2>3
<1>2. CASE Open = {}
  <2>1. m + n \in 0..(m + n)
    OBVIOUS
  <2>2. PICK f \in [Grid -> Nat] : Upto(f, m + n)
    <3> HIDE DEF Upto, Grid
    <3> QED
      BY <1>2, <2>1
  <2>3. \A a \in 0..m, b \in 0..n : a + b <= m + n
    OBVIOUS
  <2> QED
    BY <2>2, <2>3 DEF IsTable
<1> QED
  BY <1>1, <1>2

-----------------------------------------------------------------------------
(* The weight of a pairing *)

\* A pair has as many points as its similarity in percent.
LEMMA Points ==
    ASSUME NEW p, NEW k \in Nat
    PROVE  IsFiniteSet({p} \X (1..k)) /\ Cardinality({p} \X (1..k)) = k
<1>1. IsFiniteSet({p}) /\ Cardinality({p}) = 1
  BY FS_Singleton
<1>2. IsFiniteSet(1..k) /\ Cardinality(1..k) = k
  BY FS_Interval
<1>3. /\ IsFiniteSet({p} \X (1..k))
      /\ Cardinality({p} \X (1..k)) = Cardinality({p}) * Cardinality(1..k)
  BY <1>1, <1>2, FS_Product
<1>4. 1 * k = k
  OBVIOUS
<1> QED
  BY <1>1, <1>2, <1>3, <1>4

PointsOf(M) == UNION {{p} \X (1..p[3]) : p \in M}

\* The similarities a set of pairs can have.
Weighed(M) == IsFiniteSet(M) /\ \A p \in M : p[3] \in Nat

LEMMA PointsFinite == ASSUME NEW M, Weighed(M) PROVE IsFiniteSet(PointsOf(M))
<1> DEFINE all == {{p} \X (1..p[3]) : p \in M}
           f == [p \in M |-> {p} \X (1..p[3])]
<1>1. f \in Surjection(M, all)
  BY DEF Surjection
<1>2. IsFiniteSet(all)
  <2> HIDE DEF f, all
  <2> QED
    BY <1>1, FS_Surjection DEF Weighed
<1>3. \A T \in all : IsFiniteSet(T)
  <2> SUFFICES ASSUME NEW p \in M PROVE IsFiniteSet({p} \X (1..p[3]))
    OBVIOUS
  <2>1. p[3] \in Nat
    BY DEF Weighed
  <2> QED
    BY <2>1, Points
<1>4. IsFiniteSet(UNION all)
  <2> HIDE DEF all
  <2> QED
    BY <1>2, <1>3, FS_UNION
<1> QED
  BY <1>4 DEF PointsOf

LEMMA WeightEmpty == Weight({}) = 0
<1>1. UNION {{p} \X (1..p[3]) : p \in {}} = {}
  OBVIOUS
<1> QED
  BY <1>1, FS_EmptySet DEF Weight

\* The weight is the sum of the similarities: it grows by that of a new pair.
LEMMA WeightAdd ==
    ASSUME NEW M, Weighed(M), NEW t, t \notin M, t[3] \in Nat
    PROVE  /\ Weighed(M \cup {t}) /\ Weight(M) \in Nat
           /\ Weight(M \cup {t}) = Weight(M) + t[3]
<1>1. PICK S, T, k : S = PointsOf(M) /\ k = t[3] /\ T = {t} \X (1..k)
  OBVIOUS
<1>2. IsFiniteSet(S) /\ IsFiniteSet(T) /\ Cardinality(T) = k /\ k \in Nat
  BY <1>1, Points, PointsFinite
<1>3. PointsOf(M \cup {t}) = S \cup T
  BY <1>1 DEF PointsOf
<1>4. S \cap T = {}
  <2>1. \A x \in S : x[1] \in M
    BY <1>1 DEF PointsOf
  <2>2. \A x \in T : x[1] = t
    BY <1>1
  <2> QED
    BY <2>1, <2>2
<1>5. Cardinality(S) \in Nat /\ Cardinality(S \cup T) = Cardinality(S) + k
  <2>1. Cardinality(S \cup T) = Cardinality(S) + Cardinality(T) - Cardinality(S \cap T)
    BY <1>2, FS_Union
  <2>2. Cardinality(S) \in Nat /\ Cardinality(S \cap T) = 0
    BY <1>2, <1>4, FS_CardinalityType, FS_EmptySet
  <2> QED
    BY <1>2, <2>1, <2>2
<1>6. Weighed(M \cup {t})
  BY FS_AddElement DEF Weighed
<1> QED
  BY <1>1, <1>3, <1>5, <1>6 DEF Weight, PointsOf

LEMMA WeighedPart == ASSUME NEW M, Weighed(M), NEW N \in SUBSET M PROVE Weighed(N) /\ Weight(N) \in Nat
<1>1. Weighed(N)
  BY FS_Subset DEF Weighed
<1>2. IsFiniteSet(PointsOf(N))
  BY <1>1, PointsFinite
<1> QED
  BY <1>1, <1>2, FS_CardinalityType DEF Weight, PointsOf

LEMMA WeightRemove ==
    ASSUME NEW M, Weighed(M), NEW t \in M
    PROVE  /\ Weighed(M \ {t}) /\ Weight(M \ {t}) \in Nat /\ t[3] \in Nat
           /\ Weight(M) = Weight(M \ {t}) + t[3]
<1>1. Weighed(M \ {t}) /\ t[3] \in Nat
  BY WeighedPart DEF Weighed
<1>2. (M \ {t}) \cup {t} = M /\ t \notin M \ {t}
  OBVIOUS
<1> QED
  BY <1>1, <1>2, WeightAdd

-----------------------------------------------------------------------------
(* No pairing in order outweighs the table *)

\* The links among the first a clauses of one side and the first b of the other.
LinksUpto(olds, news, K, w, a, b) ==
    {<<olds[k[1]], news[k[2]], w[k]>> : k \in {l \in K : l[1] <= a /\ l[2] <= b}}

Rising(s, m) == s \in [1..m -> Nat] /\ \A i, j \in 1..m : i < j => s[i] < s[j]

LEMMA RisingOnce == ASSUME NEW m \in Nat, NEW s, Rising(s, m), NEW i \in 1..m, NEW j \in 1..m
                    PROVE  (s[i] < s[j] <=> i < j) /\ (s[i] = s[j] => i = j)
<1>1. s[i] \in Nat /\ s[j] \in Nat /\ (i < j => s[i] < s[j]) /\ (j < i => s[j] < s[i])
  BY DEF Rising
<1> QED
  BY <1>1

LEMMA LinkIn ==
    ASSUME NEW olds, NEW news, NEW K, NEW w, NEW a, NEW b, NEW i, NEW j, <<i, j>> \in K, i <= a, j <= b
    PROVE  <<olds[i], news[j], w[<<i, j>>]>> \in LinksUpto(olds, news, K, w, a, b)
<1>1. PICK k : k = <<i, j>>
  OBVIOUS
<1>2. k \in K /\ k[1] = i /\ k[2] = j
  BY <1>1
<1> QED
  BY <1>1, <1>2 DEF LinksUpto
\* What the bound says of one entry.
Bounds(f, olds, news, K, w, a, b) ==
    \A M \in SUBSET LinksUpto(olds, news, K, w, a, b) :
        NonCrossing(M) /\ Weighed(M) => Weight(M) <= f[<<a, b>>]

\* An entry is no less than its neighbours allow.
LEMMA EntryAbove ==
    ASSUME NEW m \in Nat, NEW n \in Nat, NEW K, NEW w \in [(1..m) \X (1..n) -> Nat],
           NEW f, IsTable(f, m, n, K, w), NEW a \in 1..m, NEW b \in 1..n
    PROVE  /\ f[<<a, b>>] \in Nat /\ f[<<a - 1, b>>] \in Nat /\ f[<<a, b - 1>>] \in Nat
           /\ f[<<a - 1, b - 1>>] \in Nat /\ w[<<a, b>>] \in Nat
           /\ f[<<a - 1, b>>] <= f[<<a, b>>] /\ f[<<a, b - 1>>] <= f[<<a, b>>]
           /\ <<a, b>> \in K => f[<<a - 1, b - 1>>] + w[<<a, b>>] <= f[<<a, b>>]
<1>1. /\ <<a, b>> \in (1..m) \X (1..n) /\ <<a - 1, b>> \in (0..m) \X (0..n) /\ a # 0 /\ b # 0
      /\ <<a, b - 1>> \in (0..m) \X (0..n) /\ <<a - 1, b - 1>> \in (0..m) \X (0..n)
      /\ a \in 0..m /\ b \in 0..n
  OBVIOUS
<1>2. PICK x, y, z, v, e : /\ x = f[<<a - 1, b>>] /\ y = f[<<a, b - 1>>] /\ e = f[<<a, b>>]
                           /\ z = f[<<a - 1, b - 1>>] /\ v = w[<<a, b>>]
  OBVIOUS
<1>3. x \in Nat /\ y \in Nat /\ z \in Nat /\ v \in Nat
  BY <1>1, <1>2 DEF IsTable
<1>4. e = IF <<a, b>> \in K THEN Greater(Greater(x, y), z + v) ELSE Greater(x, y)
  BY <1>1, <1>2 DEF IsTable, Entry
<1>5. e \in Nat /\ x <= e /\ y <= e /\ (<<a, b>> \in K => z + v <= e)
  BY <1>3, <1>4 DEF Greater
<1> QED
  BY <1>2, <1>3, <1>5

\* A pairing in order leaves the last clause of one side out, or of the other,
\* or pairs the two: else it would cross itself.
LEMMA BoundStep ==
    ASSUME NEW m \in Nat, NEW n \in Nat, NEW olds, Rising(olds, m), NEW news, Rising(news, n),
           NEW K \in SUBSET ((1..m) \X (1..n)), NEW w \in [(1..m) \X (1..n) -> Nat],
           NEW f, IsTable(f, m, n, K, w), NEW a \in 1..m, NEW b \in 1..n,
           Bounds(f, olds, news, K, w, a - 1, b), Bounds(f, olds, news, K, w, a, b - 1),
           Bounds(f, olds, news, K, w, a - 1, b - 1)
    PROVE  Bounds(f, olds, news, K, w, a, b)
<1> DEFINE L(c, d) == LinksUpto(olds, news, K, w, c, d)
<1> HIDE DEF L
<1>e. /\ f[<<a, b>>] \in Nat /\ f[<<a - 1, b>>] \in Nat /\ f[<<a, b - 1>>] \in Nat
      /\ f[<<a - 1, b - 1>>] \in Nat /\ w[<<a, b>>] \in Nat
      /\ f[<<a - 1, b>>] <= f[<<a, b>>] /\ f[<<a, b - 1>>] <= f[<<a, b>>]
      /\ <<a, b>> \in K => f[<<a - 1, b - 1>>] + w[<<a, b>>] <= f[<<a, b>>]
  BY EntryAbove
<1> SUFFICES ASSUME NEW M \in SUBSET L(a, b), NonCrossing(M), Weighed(M)
             PROVE  Weight(M) <= f[<<a, b>>]
  BY DEF Bounds, L
<1>1. \A p \in M : \E i \in 1..m, j \in 1..n :
          /\ <<i, j>> \in K /\ i <= a /\ j <= b
          /\ p = <<olds[i], news[j], w[<<i, j>>]>>
          /\ p[1] = olds[i] /\ p[2] = news[j] /\ p[3] = w[<<i, j>>]
  <2> SUFFICES ASSUME NEW p \in M
               PROVE  \E i \in 1..m, j \in 1..n :
                          /\ <<i, j>> \in K /\ i <= a /\ j <= b
                          /\ p = <<olds[i], news[j], w[<<i, j>>]>>
                          /\ p[1] = olds[i] /\ p[2] = news[j] /\ p[3] = w[<<i, j>>]
    OBVIOUS
  <2>1. PICK k \in K : k[1] <= a /\ k[2] <= b /\ p = <<olds[k[1]], news[k[2]], w[k]>>
    BY DEF L, LinksUpto
  <2>2. k = <<k[1], k[2]>> /\ k[1] \in 1..m /\ k[2] \in 1..n
    OBVIOUS
  <2> QED
    BY <2>1, <2>2
<1>2. Weight(M) \in Nat
  BY WeighedPart
<1>3. ASSUME NEW c \in {a - 1, a}, NEW d \in {b - 1, b}, NEW N \in SUBSET M,
             \A p \in N, i \in 1..m, j \in 1..n :
                i <= a /\ j <= b /\ p = <<olds[i], news[j], w[<<i, j>>]>> => i <= c /\ j <= d
      PROVE  N \subseteq L(c, d) /\ NonCrossing(N) /\ Weighed(N)
  <2>1. N \subseteq L(c, d)
    <3> SUFFICES ASSUME NEW p \in N PROVE p \in L(c, d)
      OBVIOUS
    <3>1. PICK i \in 1..m, j \in 1..n :
             <<i, j>> \in K /\ i <= a /\ j <= b /\ p = <<olds[i], news[j], w[<<i, j>>]>>
      BY <1>1
    <3>2. i <= c /\ j <= d
      BY <1>3, <3>1
    <3> QED
      BY <3>1, <3>2, LinkIn DEF L
  <2>2. NonCrossing(N)
    BY DEF NonCrossing
  <2> QED
    BY <2>1, <2>2, WeighedPart
<1>4. CASE \A p \in M : p[1] # olds[a]
  <2>1. ASSUME NEW p \in M, NEW i \in 1..m, NEW j \in 1..n, i <= a, j <= b,
               p = <<olds[i], news[j], w[<<i, j>>]>>
        PROVE  i <= a - 1 /\ j <= b
    BY <1>4, <2>1
  <2>2. M \subseteq L(a - 1, b)
    BY <1>3, <2>1
  <2>3. Weight(M) <= f[<<a - 1, b>>]
    BY <2>2 DEF Bounds, L
  <2> QED
    BY <1>2, <2>3, <1>e
<1>5. CASE \A p \in M : p[2] # news[b]
  <2>1. ASSUME NEW p \in M, NEW i \in 1..m, NEW j \in 1..n, i <= a, j <= b,
               p = <<olds[i], news[j], w[<<i, j>>]>>
        PROVE  i <= a /\ j <= b - 1
    BY <1>5, <2>1
  <2>2. M \subseteq L(a, b - 1)
    BY <1>3, <2>1
  <2>3. Weight(M) <= f[<<a, b - 1>>]
    BY <2>2 DEF Bounds, L
  <2> QED
    BY <1>2, <2>3, <1>e
<1>6. ASSUME NEW p \in M, p[1] = olds[a], NEW q \in M, q[2] = news[b]
      PROVE  Weight(M) <= f[<<a, b>>]
  <2>1. PICK i \in 1..m, j \in 1..n :
           /\ <<i, j>> \in K /\ i <= a /\ j <= b
           /\ p = <<olds[i], news[j], w[<<i, j>>]>> /\ p[1] = olds[i] /\ p[2] = news[j]
           /\ p[3] = w[<<i, j>>]
    BY <1>1
  <2>2. PICK k \in 1..m, l \in 1..n :
           /\ <<k, l>> \in K /\ k <= a /\ l <= b
           /\ q = <<olds[k], news[l], w[<<k, l>>]>> /\ q[1] = olds[k] /\ q[2] = news[l]
    BY <1>1
  <2>3. i = a /\ l = b
    BY <1>6, <2>1, <2>2, RisingOnce
  <2>4. j = b
    <3>1. (p[1] < q[1] <=> p[2] < q[2]) /\ (q[1] < p[1] <=> q[2] < p[2])
      BY DEF NonCrossing
    <3>2. (i < k <=> j < l) /\ (k < i <=> l < j)
      BY <2>1, <2>2, <3>1, RisingOnce
    <3> QED
      BY <2>1, <2>2, <2>3, <3>2
  <2>5. p = <<olds[a], news[b], w[<<a, b>>]>> /\ p[1] = olds[a] /\ p[2] = news[b]
        /\ p[3] = w[<<a, b>>] /\ <<a, b>> \in K
    BY <2>1, <2>3, <2>4
  <2>6. ASSUME NEW r \in M \ {p}, NEW x \in 1..m, NEW y \in 1..n, x <= a, y <= b,
               r = <<olds[x], news[y], w[<<x, y>>]>>
        PROVE  x <= a - 1 /\ y <= b - 1
    <3>1. (p[1] < r[1] <=> p[2] < r[2]) /\ (r[1] < p[1] <=> r[2] < p[2])
      BY <2>6 DEF NonCrossing
    <3>2. r[1] = olds[x] /\ r[2] = news[y]
      BY <2>6
    <3>3. (a < x <=> b < y) /\ (x < a <=> y < b)
      BY <2>5, <3>1, <3>2, RisingOnce
    <3>4. x = a /\ y = b => r = p
      BY <2>5, <2>6
    <3> QED
      BY <2>6, <3>3, <3>4
  <2>7. M \ {p} \subseteq L(a - 1, b - 1) /\ NonCrossing(M \ {p}) /\ Weighed(M \ {p})
    BY <1>3, <2>6
  <2>8. Weight(M \ {p}) <= f[<<a - 1, b - 1>>]
    BY <2>7 DEF Bounds, L
  <2>9. Weight(M \ {p}) \in Nat /\ Weight(M) = Weight(M \ {p}) + w[<<a, b>>]
    BY <2>5, WeightRemove
  <2> QED
    BY <2>5, <2>8, <2>9, <1>e
<1> QED
  BY <1>4, <1>5, <1>6

\* By the least diagonal where an entry does not bound the pairings it stands for.
LEMMA TableBounds ==
    ASSUME NEW m \in Nat, NEW n \in Nat, NEW olds, Rising(olds, m), NEW news, Rising(news, n),
           NEW K \in SUBSET ((1..m) \X (1..n)), NEW w \in [(1..m) \X (1..n) -> Nat],
           NEW f, IsTable(f, m, n, K, w)
    PROVE  Bounds(f, olds, news, K, w, m, n)
<1> DEFINE B(a, b) == Bounds(f, olds, news, K, w, a, b)
           Off == {k \in 0..(m + n) : \E a \in 0..m, b \in 0..n : a + b = k /\ ~ B(a, b)}
<1>1. ASSUME NEW a \in 0..m, NEW b \in 0..n, a = 0 \/ b = 0 PROVE B(a, b)
  <2>1. LinksUpto(olds, news, K, w, a, b) = {}
    <3> SUFFICES ASSUME NEW k \in K, k[1] <= a, k[2] <= b PROVE FALSE
      BY DEF LinksUpto
    <3>1. k[1] \in 1..m /\ k[2] \in 1..n
      OBVIOUS
    <3> QED
      BY <1>1, <3>1
  <2>2. f[<<a, b>>] = 0
    BY <1>1 DEF IsTable, Entry
  <2>3. Weight({}) <= f[<<a, b>>]
    BY <2>2, WeightEmpty
  <2> QED
    BY <2>1, <2>3 DEF Bounds
<1>2. ASSUME NEW a \in 1..m, NEW b \in 1..n, B(a - 1, b), B(a, b - 1), B(a - 1, b - 1) PROVE B(a, b)
  BY <1>2, BoundStep
<1> HIDE DEF B
<1>3. ASSUME Off # {} PROVE FALSE
  <2>1. PICK k \in Off : \A l \in Off : k <= l
    <3>1. Off \in SUBSET Nat
      OBVIOUS
    <3> HIDE DEF Off
    <3> QED
      BY <1>3, <3>1, LeastNumber
  <2>2. PICK a \in 0..m, b \in 0..n : a + b = k /\ ~ B(a, b)
    BY <2>1
  <2>3. a \in 1..m /\ b \in 1..n
    <3>1. a # 0 /\ b # 0
      BY <1>1, <2>2
    <3> QED
      BY <3>1
  <2>4. ASSUME NEW c \in 0..m, NEW d \in 0..n, c + d < k PROVE B(c, d)
    <3>1. c + d \notin Off
      <4>1. c + d \in Nat /\ ~ (k <= c + d)
        BY <2>2, <2>4
      <4> HIDE DEF Off
      <4> QED
        BY <2>1, <4>1
    <3>2. c + d \in 0..(m + n)
      OBVIOUS
    <3> QED
      BY <3>1, <3>2
  <2>5. B(a - 1, b) /\ B(a, b - 1) /\ B(a - 1, b - 1)
    <3>1. /\ a - 1 \in 0..m /\ b - 1 \in 0..n /\ a \in 0..m /\ b \in 0..n
          /\ a - 1 + b < k /\ a + (b - 1) < k /\ a - 1 + (b - 1) < k
      BY <2>2, <2>3
    <3> HIDE DEF Off
    <3> QED
      BY <2>4, <3>1
  <2> QED
    BY <1>2, <2>2, <2>3, <2>5
<1>4. B(m, n)
  <2>1. m + n \in 0..(m + n) /\ m \in 0..m /\ n \in 0..n
    OBVIOUS
  <2> QED
    BY <1>3, <2>1
<1> QED
  BY <1>4 DEF B

-----------------------------------------------------------------------------
(* The table of the content pass *)

\* The left-over clauses by their place on either side: which are linked, and
\* how similar any two are.
Linked == {k \in (1..Len(Left)) \X (1..Len(Right)) : <<Left[k[1]], Right[k[2]]>> \in links}

Gain == [k \in (1..Len(Left)) \X (1..Len(Right)) |-> Sim(Prev[Left[k[1]]], nodes[Right[k[2]]])]

Tabled(f) == IsTable(f, Len(Left), Len(Right), Linked, Gain)

LEMMA TableFills ==
    ASSUME NEW m, NEW n, NEW K, NEW w, NEW f, IsTable(f, m, n, K, w)
    PROVE  Fills(f, m, n, K, w)
<1>1. ASSUME NEW x \in (0..m) \X (0..n) PROVE f[x] = Entry(f, K, w, x[1], x[2])
  <2>1. x = <<x[1], x[2]>> /\ x[1] \in 0..m /\ x[2] \in 0..n
    OBVIOUS
  <2> QED
    BY <2>1 DEF IsTable
<1> QED
  BY <1>1 DEF IsTable, Fills

LEMMA SidesAreFunctions ==
    ASSUME AlignTypeOK
    PROVE  Left \in [1..Len(Left) -> Nat] /\ Right \in [1..Len(Right) -> Nat]
<1>1. PICK m, n : m = Len(Prev) /\ n = Len(nodes)
  OBVIOUS
<1>2. m \in Nat /\ n \in Nat /\ DOMAIN Prev = 1..m /\ DOMAIN nodes = 1..n
  BY <1>1, PrevTyped, NodesTyped DEF AlignTypeOK
<1>3. PICK S, T : /\ S = {i \in Cands(Prev) \ Used(anchored, 1) : Long(Prev[i])}
                  /\ T = {j \in Cands(nodes) \ Used(anchored, 2) : Long(nodes[j])}
  OBVIOUS
<1>4. Left = InOrder(S) /\ Right = InOrder(T)
  BY <1>3 DEF Left, Right
<1>5. S \in SUBSET (0..m) /\ T \in SUBSET (0..n)
  BY <1>2, <1>3 DEF Cands
<1>6. Left \in [1..Len(Left) -> S] /\ Right \in [1..Len(Right) -> T]
  BY <1>2, <1>4, <1>5, InOrderLists
<1>7. S \subseteq Nat /\ T \subseteq Nat
  BY <1>2, <1>5
<1> QED
  BY <1>6, <1>7

LEMMA SidesTyped ==
    ASSUME AlignTypeOK
    PROVE  /\ Len(Left) \in Nat /\ Len(Right) \in Nat
           /\ Rising(Left, Len(Left)) /\ Rising(Right, Len(Right))
           /\ Linked \in SUBSET ((1..Len(Left)) \X (1..Len(Right)))
           /\ Gain \in [(1..Len(Left)) \X (1..Len(Right)) -> 0..100]
           /\ Gain \in [(1..Len(Left)) \X (1..Len(Right)) -> Nat]
<1>1. PICK m, n : m = Len(Left) /\ n = Len(Right)
  OBVIOUS
<1>2. m \in Nat /\ n \in Nat
  BY <1>1, LeftOver
<1>3. Rising(Left, m) /\ Rising(Right, n)
  <2>1. Left \in [1..m -> Nat] /\ Right \in [1..n -> Nat]
    BY <1>1, SidesAreFunctions
  <2> QED
    BY <1>1, <2>1, LeftInOrder DEF Rising
<1>4. \A a \in 1..m, b \in 1..n : Sim(Prev[Left[a]], nodes[Right[b]]) \in 0..100
  <2> SUFFICES ASSUME NEW a \in 1..m, NEW b \in 1..n
               PROVE  Sim(Prev[Left[a]], nodes[Right[b]]) \in 0..100
    OBVIOUS
  <2>1. PICK i, j : i = Left[a] /\ j = Right[b]
    OBVIOUS
  <2>2. i \in DOMAIN Prev /\ j \in DOMAIN nodes
    BY <1>1, <2>1, LeftOver DEF Cands
  <2>3. Prev[i].body \in Seq(STRING) /\ nodes[j].body \in Seq(STRING)
    BY <2>2, PrevTyped, NodesTyped DEF AlignTypeOK
  <2> QED
    <3>1. PICK c, d : c = Prev[i] /\ d = nodes[j]
      OBVIOUS
    <3>2. Sim(c, d) \in 0..100
      BY <2>3, <3>1, SimBounds
    <3> QED
      BY <2>1, <3>1, <3>2
<1>5. Linked \in SUBSET ((1..m) \X (1..n))
  BY <1>1 DEF Linked
<1>6. Gain \in [(1..m) \X (1..n) -> 0..100]
  BY <1>1, <1>4 DEF Gain
<1>7. Gain \in [(1..m) \X (1..n) -> Nat]
  BY <1>6
<1> QED
  BY <1>1, <1>2, <1>3, <1>5, <1>6, <1>7

\* A recursive function is a choice among the functions that satisfy its
\* equation, and there is one.
LEMMA DpTabled == ASSUME AlignTypeOK PROVE Tabled(Dp)
<1>1. PICK m, n : m = Len(Left) /\ n = Len(Right)
  OBVIOUS
<1>2. m \in Nat /\ n \in Nat
  BY <1>1, SidesTyped
<1> DEFINE Filled(f) ==
        [ab \in (0..Len(Left)) \X (0..Len(Right)) |->
            LET a == ab[1]  b == ab[2]
                skip == Greater(f[<<a - 1, b>>], f[<<a, b - 1>>])
            IN IF a = 0 \/ b = 0 THEN 0
               ELSE IF <<Left[a], Right[b]>> \in links
                    THEN Greater(skip, f[<<a - 1, b - 1>>] + Sim(Prev[Left[a]], nodes[Right[b]]))
                    ELSE skip]
<1>3. \A f : Filled(f) = [x \in (0..m) \X (0..n) |-> Entry(f, Linked, Gain, x[1], x[2])]
  <2> SUFFICES ASSUME NEW f, NEW x \in (0..m) \X (0..n)
               PROVE  Filled(f)[x] = Entry(f, Linked, Gain, x[1], x[2])
    BY <1>1
  <2>1. PICK a \in 0..m, b \in 0..n : x = <<a, b>> /\ x[1] = a /\ x[2] = b
    OBVIOUS
  <2>2. CASE a = 0 \/ b = 0
    BY <1>1, <2>1, <2>2 DEF Entry
  <2>3. CASE a # 0 /\ b # 0
    <3>1. <<a, b>> \in (1..m) \X (1..n)
      BY <1>2, <2>3
    <3>2. /\ <<a, b>> \in Linked <=> <<Left[a], Right[b]>> \in links
          /\ Gain[<<a, b>>] = Sim(Prev[Left[a]], nodes[Right[b]])
      BY <1>1, <3>1 DEF Linked, Gain
    <3> QED
      BY <1>1, <2>1, <2>3, <3>2 DEF Entry
  <2> QED
    BY <2>2, <2>3
<1>4. Dp = CHOOSE f : f = Filled(f)
  BY DEF Dp
<1> HIDE DEF Filled
<1>5. PICK g : IsTable(g, m, n, Linked, Gain)
  BY <1>1, <1>2, SidesTyped, TableExists
<1>6. g = Filled(g)
  <2>1. Fills(g, m, n, Linked, Gain)
    BY <1>5, TableFills
  <2> QED
    BY <1>3, <2>1 DEF Fills
<1>7. Dp = Filled(Dp)
  BY <1>4, <1>6
<1>8. Fills(Dp, m, n, Linked, Gain) /\ Fills(g, m, n, Linked, Gain)
  BY <1>3, <1>6, <1>7 DEF Fills
<1>9. Dp = g
  BY <1>2, <1>8, TableUnique
<1> QED
  BY <1>1, <1>5, <1>9 DEF Tabled

\* What the traceback has taken and what the table still promises from where it
\* stands add up to the best there is.
PromiseKept ==
    /\ links \subseteq ToSet(Left) \X ToSet(Right)
    /\ Weighed(matched)
    /\ \E f : Tabled(f) /\ Weight(matched) + f[at] = f[<<Len(Left), Len(Right)>>]

OptimalInv == phase = "content" => PromiseKept

\* The move the traceback makes is the one the entry was made from.
LEMMA MoveEntry ==
    ASSUME AlignTypeOK, NEW f, Tabled(f), NEW a \in 1..Len(Left), NEW b \in 1..Len(Right)
    PROVE  \/ /\ Move(a, b) = "pair" /\ f[<<a, b>>] = f[<<a - 1, b - 1>>] + Gain[<<a, b>>]
              /\ <<Left[a], Right[b]>> \in links
           \/ Move(a, b) = "skip_v1" /\ f[<<a, b>>] = f[<<a - 1, b>>]
           \/ Move(a, b) = "skip_v2" /\ f[<<a, b>>] = f[<<a, b - 1>>]
<1>1. PICK m, n : m = Len(Left) /\ n = Len(Right)
  OBVIOUS
<1>2. m \in Nat /\ n \in Nat /\ a \in 1..m /\ b \in 1..n
  BY <1>1, SidesTyped
<1>3. IsTable(f, m, n, Linked, Gain) /\ Dp = f
  <2>1. IsTable(f, m, n, Linked, Gain) /\ IsTable(Dp, m, n, Linked, Gain)
    BY <1>1, DpTabled DEF Tabled
  <2> QED
    BY <1>2, <2>1, TableFills, TableUnique
<1>4. PICK x, y, z, v, e : /\ x = f[<<a - 1, b>>] /\ y = f[<<a, b - 1>>] /\ e = f[<<a, b>>]
                           /\ z = f[<<a - 1, b - 1>>] /\ v = Gain[<<a, b>>]
  OBVIOUS
<1>5. /\ <<a, b>> \in (1..m) \X (1..n) /\ a # 0 /\ b # 0 /\ a \in 0..m /\ b \in 0..n
      /\ <<a - 1, b>> \in (0..m) \X (0..n) /\ <<a, b - 1>> \in (0..m) \X (0..n)
      /\ <<a - 1, b - 1>> \in (0..m) \X (0..n)
  BY <1>2
<1>6. x \in Nat /\ y \in Nat /\ z \in Nat /\ v \in Nat
  <2>1. Gain \in [(1..m) \X (1..n) -> Nat]
    BY <1>1, SidesTyped
  <2> QED
    BY <1>3, <1>4, <1>5, <2>1 DEF IsTable
<1>7. e = IF <<a, b>> \in Linked THEN Greater(Greater(x, y), z + v) ELSE Greater(x, y)
  BY <1>3, <1>4, <1>5 DEF IsTable, Entry
<1>8. /\ <<a, b>> \in Linked <=> <<Left[a], Right[b]>> \in links
      /\ v = Sim(Prev[Left[a]], nodes[Right[b]])
  BY <1>1, <1>4, <1>5 DEF Linked, Gain
<1>9. Move(a, b) = IF <<a, b>> \in Linked /\ z + v >= Greater(x, y) THEN "pair"
                   ELSE IF y > x THEN "skip_v2" ELSE "skip_v1"
  BY <1>3, <1>4, <1>8 DEF Move
<1>10. CASE <<a, b>> \in Linked /\ z + v >= Greater(x, y)
  <2>1. Move(a, b) = "pair" /\ e = Greater(Greater(x, y), z + v) /\ <<Left[a], Right[b]>> \in links
    BY <1>7, <1>8, <1>9, <1>10
  <2>2. e = z + v
    BY <1>6, <1>10, <2>1 DEF Greater
  <2> QED
    BY <1>4, <2>1, <2>2
<1>11. CASE ~ (<<a, b>> \in Linked /\ z + v >= Greater(x, y))
  <2>1. e = Greater(x, y)
    BY <1>6, <1>7, <1>11 DEF Greater
  <2> QED
    BY <1>4, <1>6, <1>9, <1>11, <2>1 DEF Greater
<1> QED
  BY <1>10, <1>11

\* The table does not change while the traceback runs.
LEMMA TableKept ==
    ASSUME UNCHANGED <<treeVars, anchored, links, versions>>, NEW f, Tabled(f)
    PROVE  Tabled(f)'
<1>1. Left' = Left /\ Right' = Right /\ Prev' = Prev /\ nodes' = nodes /\ links' = links
  BY SidesKept DEF treeVars
<1>2. Linked' = Linked /\ Gain' = Gain
  BY <1>1 DEF Linked, Gain
<1> QED
  BY <1>1, <1>2 DEF Tabled

\* Every step takes as much as it gives up of the promise.
LEMMA TraceBackPays ==
    ASSUME AlignInv, OptimalInv, TraceBack
    PROVE  OptimalInv'
<1>1. PICK a, b : a = at[1] /\ b = at[2]
  OBVIOUS
<1>2. /\ phase = "content" /\ a > 0 /\ b > 0 /\ AlignTypeOK /\ Traced
      /\ UNCHANGED <<treeVars, anchored, links, versions>>
  BY <1>1 DEF TraceBack, AlignInv, PairInv
<1>3. at = <<a, b>> /\ a \in 1..Len(Left) /\ b \in 1..Len(Right)
  <2>1. at = <<a, b>>
    BY <1>1, <1>2 DEF AlignTypeOK
  <2> QED
    BY <1>1, <1>2, <2>1, LeftOver DEF Traced
<1>4. PICK f : Tabled(f) /\ Weight(matched) + f[at] = f[<<Len(Left), Len(Right)>>]
  BY <1>2 DEF OptimalInv, PromiseKept
<1>5. PICK m, n : m = Len(Left) /\ n = Len(Right)
  OBVIOUS
<1>6. Left' = Left /\ Right' = Right
  BY <1>2, SidesKept
<1>7. Tabled(f)' /\ links' \subseteq ToSet(Left)' \X ToSet(Right)' /\ Weighed(matched)
  <2>1. Tabled(f)'
    BY <1>2, <1>4, TableKept
  <2>2. links' = links
    BY <1>2
  <2> QED
    BY <1>2, <1>6, <2>1, <2>2 DEF OptimalInv, PromiseKept, ToSet
<1>8. ASSUME Weighed(matched'), Weight(matched') + f[at'] = Weight(matched) + f[at]
      PROVE  OptimalInv'
  <2>1. Weight(matched)' + f[at'] = f[<<m, n>>] /\ Len(Left)' = m /\ Len(Right)' = n
    BY <1>4, <1>5, <1>6, <1>8 DEF Weight
  <2>2. Weighed(matched)'
    BY <1>8 DEF Weighed
  <2> QED
    BY <1>7, <2>1, <2>2 DEF OptimalInv, PromiseKept
<1>9. f[<<a, b>>] \in Nat /\ f[<<a - 1, b>>] \in Nat /\ f[<<a, b - 1>>] \in Nat
      /\ f[<<a - 1, b - 1>>] \in Nat /\ Gain[<<a, b>>] \in Nat
  <2>1. /\ m \in Nat /\ n \in Nat /\ a \in 1..m /\ b \in 1..n /\ IsTable(f, m, n, Linked, Gain)
        /\ Gain \in [(1..m) \X (1..n) -> Nat]
    BY <1>2, <1>3, <1>4, <1>5, SidesTyped DEF Tabled
  <2> QED
    BY <2>1, EntryAbove
<1>10. Weight(matched) \in Nat
  BY <1>7, WeighedPart
<1>11. CASE Move(a, b) = "pair"
  <2>1. PICK x : x = Sim(Prev[Left[a]], nodes[Right[b]])
    OBVIOUS
  <2>2. PICK t : t = <<Left[a], Right[b], x>>
    OBVIOUS
  <2>3. matched' = matched \cup {t} /\ at' = <<a - 1, b - 1>>
    BY <1>1, <1>11, <2>1, <2>2 DEF TraceBack
  <2>4. x = Gain[<<a, b>>] /\ f[<<a, b>>] = f[<<a - 1, b - 1>>] + x
    <3>1. f[<<a, b>>] = f[<<a - 1, b - 1>>] + Gain[<<a, b>>]
      BY <1>2, <1>3, <1>4, <1>11, MoveEntry
    <3>2. x = Gain[<<a, b>>]
      BY <1>3, <2>1 DEF Gain
    <3> QED
      BY <3>1, <3>2
  <2>5. t \notin matched
    <3>1. ASSUME t \in matched PROVE FALSE
      <4>1. PICK c \in 1..Len(Left) : c > a /\ t[1] = Left[c]
        BY <1>1, <1>2, <3>1 DEF Traced
      <4>2. Left[c] = Left[a]
        BY <2>2, <4>1
      <4>3. c = a
        BY <1>2, <1>3, <4>1, <4>2, LeftOver
      <4> QED
        BY <1>2, <1>3, <4>1, <4>3, LeftOver
    <3> QED
      BY <3>1
  <2>6. t[3] = x /\ x \in Nat
    BY <1>9, <2>2, <2>4
  <2>7. Weighed(matched \cup {t}) /\ Weight(matched \cup {t}) = Weight(matched) + x
    BY <1>7, <2>5, <2>6, WeightAdd
  <2>8. Weight(matched') + f[at'] = Weight(matched) + f[at]
    <3>1. PICK y, z, u : y = f[at] /\ z = f[at'] /\ u = Weight(matched)
      OBVIOUS
    <3>2. y = z + x /\ z \in Nat /\ x \in Nat /\ u \in Nat
      BY <1>3, <1>9, <1>10, <2>3, <2>4, <2>6, <3>1
    <3>3. Weight(matched') = u + x
      BY <2>3, <2>7, <3>1
    <3> QED
      BY <3>1, <3>2, <3>3
  <2> QED
    BY <1>8, <2>3, <2>7, <2>8
<1>12. CASE Move(a, b) = "skip_v1"
  <2>1. matched' = matched /\ at' = <<a - 1, b>>
    BY <1>1, <1>12 DEF TraceBack
  <2>2. f[<<a, b>>] = f[<<a - 1, b>>]
    BY <1>2, <1>3, <1>4, <1>12, MoveEntry
  <2> QED
    BY <1>3, <1>7, <1>8, <2>1, <2>2
<1>13. CASE Move(a, b) = "skip_v2"
  <2>1. matched' = matched /\ at' = <<a, b - 1>>
    BY <1>1, <1>13 DEF TraceBack
  <2>2. f[<<a, b>>] = f[<<a, b - 1>>]
    BY <1>2, <1>3, <1>4, <1>13, MoveEntry
  <2> QED
    BY <1>3, <1>7, <1>8, <2>1, <2>2
<1> QED
  <2>1. Move(a, b) \in {"pair", "skip_v1", "skip_v2"}
    BY <1>2, <1>3, <1>4, MoveEntry
  <2> QED
    BY <1>11, <1>12, <1>13, <2>1

\* Where the traceback ends, nothing is left to promise.
LEMMA EndEntry ==
    ASSUME AlignTypeOK, NEW f, Tabled(f), phase = "content", at[1] = 0 \/ at[2] = 0, Traced
    PROVE  f[at] = 0
<1>1. PICK a, b : a = at[1] /\ b = at[2]
  OBVIOUS
<1>2. at = <<a, b>> /\ a \in 0..Len(Left) /\ b \in 0..Len(Right) /\ (a = 0 \/ b = 0)
  BY <1>1 DEF AlignTypeOK, Traced
<1> QED
  BY <1>2 DEF Tabled, IsTable, Entry

\* The content pass starts with nothing taken, and everything promised.
LEMMA EndAnchorsPromises == ASSUME AlignInv, EndAnchors PROVE OptimalInv'
<1>1. /\ UNCHANGED <<treeVars, anchored, matched, versions>> /\ phase = "anchor"
      /\ links' \in CandidateSets /\ at' = <<Len(Left), Len(Right)>> /\ matched = {}
      /\ AlignTypeOK
  BY DEF EndAnchors, AlignInv, PairInv
<1>3. Left' = Left /\ Right' = Right
  BY <1>1, SidesKept
<1>4. links' \subseteq ToSet(Left)' \X ToSet(Right)'
  <2>1. links' \subseteq ToSet(Left) \X ToSet(Right)
    BY <1>1 DEF CandidateSets
  <2> QED
    BY <1>3, <2>1 DEF ToSet
<1>5. PICK m, n : m = Len(Left) /\ n = Len(Right)
  OBVIOUS
<1>6. m \in Nat /\ n \in Nat
  BY <1>1, <1>5, SidesTyped
<1>7. PICK f : IsTable(f, m, n, Linked', Gain)
  <2>1. Gain \in [(1..m) \X (1..n) -> Nat]
    BY <1>1, <1>5, SidesTyped
  <2>2. PICK K : K = Linked'
    OBVIOUS
  <2> QED
    BY <1>6, <2>1, <2>2, TableExists
<1>8. Tabled(f)'
  <2>1. Prev' = Prev /\ nodes' = nodes
    BY <1>1, SidesKept DEF treeVars
  <2>2. Gain' = Gain
    BY <1>3, <2>1 DEF Gain
  <2> QED
    BY <1>3, <1>5, <1>7, <2>2 DEF Tabled
<1>9. Weight(matched)' + f[at'] = f[<<m, n>>]
  <2>1. f[<<m, n>>] \in Nat
    <3>1. <<m, n>> \in (0..m) \X (0..n)
      BY <1>6
    <3> QED
      BY <1>7, <3>1 DEF IsTable
  <2>2. matched' = {} /\ at' = <<m, n>>
    BY <1>1, <1>5
  <2>3. Weight(matched)' = 0
    BY <2>2, WeightEmpty DEF Weight
  <2> QED
    BY <2>1, <2>2, <2>3
<1>10. Weighed(matched)'
  BY <1>1, FS_EmptySet DEF Weighed
<1>11. Len(Left)' = m /\ Len(Right)' = n
  BY <1>3, <1>5
<1> QED
  BY <1>4, <1>8, <1>9, <1>10, <1>11 DEF OptimalInv, PromiseKept

LEMMA OptimalKept == ASSUME AlignInv, OptimalInv, [AlignNext]_pollVars PROVE OptimalInv'
<1>1. CASE Fetch \/ FetchReformatted \/ Parse \/ EndOfText \/ PairByAnchor \/ Persist
          \/ PersistRefused
  <2>1. phase' # "content"
    BY <1>1 DEF Fetch, FetchReformatted, Parse, EndOfText, PairByAnchor, Persist, PersistRefused, EndPoll, alignVars
  <2> QED
    BY <2>1 DEF OptimalInv
<1>2. CASE EndAnchors
  BY <1>2, EndAnchorsPromises
<1>3. CASE TraceBack
  BY <1>3, TraceBackPays
<1>4. CASE UNCHANGED pollVars
  <2> SUFFICES ASSUME phase' = "content" PROVE PromiseKept'
    BY DEF OptimalInv
  <2>1. UNCHANGED <<treeVars, phase, anchored, links, matched, at, versions>>
    BY <1>4 DEF pollVars, alignVars
  <2>2. phase = "content"
    BY <2>1
  <2>3. PICK f : Tabled(f) /\ Weight(matched) + f[at] = f[<<Len(Left), Len(Right)>>]
    BY <2>2 DEF OptimalInv, PromiseKept
  <2>4. Left' = Left /\ Right' = Right /\ Tabled(f)'
    BY <2>1, <2>3, SidesKept, TableKept
  <2>5. Weight(matched)' + f[at'] = f[<<Len(Left)', Len(Right)'>>]
    BY <2>1, <2>3, <2>4 DEF Weight
  <2>6. Weighed(matched)' /\ links' \subseteq ToSet(Left)' \X ToSet(Right)'
    BY <2>1, <2>2, <2>4 DEF OptimalInv, PromiseKept, Weighed, ToSet
  <2> QED
    BY <2>4, <2>5, <2>6 DEF PromiseKept
<1> QED
  BY <1>1, <1>2, <1>3, <1>4 DEF AlignNext

\* Every link is one of the table's, and they are finitely many.
LEMMA LinksInTable ==
    ASSUME AlignTypeOK, links \subseteq ToSet(Left) \X ToSet(Right)
    PROVE  /\ Links \subseteq LinksUpto(Left, Right, Linked, Gain, Len(Left), Len(Right))
           /\ \A M \in SUBSET Links : Weighed(M)
<1>1. PICK m, n : m = Len(Left) /\ n = Len(Right)
  OBVIOUS
<1>2. /\ m \in Nat /\ n \in Nat /\ DOMAIN Left = 1..m /\ DOMAIN Right = 1..n
      /\ Linked \in SUBSET ((1..m) \X (1..n)) /\ Gain \in [(1..m) \X (1..n) -> Nat]
  BY <1>1, LeftOver, SidesTyped
<1>3. ASSUME NEW p \in Links
      PROVE  \E k \in Linked : /\ k[1] <= m /\ k[2] <= n
                               /\ p = <<Left[k[1]], Right[k[2]], Gain[k]>> /\ p[3] = Gain[k]
  <2>1. PICK l \in links : p = <<l[1], l[2], Sim(Prev[l[1]], nodes[l[2]])>>
    BY DEF Links
  <2>2. PICK a \in 1..m, b \in 1..n : l = <<Left[a], Right[b]>> /\ l[1] = Left[a] /\ l[2] = Right[b]
    BY <1>2 DEF ToSet
  <2>3. PICK k : k = <<a, b>>
    OBVIOUS
  <2>4. k \in (1..m) \X (1..n) /\ k[1] = a /\ k[2] = b
    BY <2>3
  <2>5. k \in Linked /\ Gain[k] = Sim(Prev[Left[a]], nodes[Right[b]])
    BY <1>1, <2>2, <2>4 DEF Linked, Gain
  <2>6. k[1] <= m /\ k[2] <= n
    BY <1>2, <2>4
  <2> QED
    BY <2>1, <2>2, <2>4, <2>5, <2>6
<1>4. Links \subseteq LinksUpto(Left, Right, Linked, Gain, m, n)
  BY <1>3 DEF LinksUpto
<1>5. IsFiniteSet(Links)
  <2> DEFINE g == [k \in Linked |-> <<Left[k[1]], Right[k[2]], Gain[k]>>]
             all == {<<Left[k[1]], Right[k[2]], Gain[k]>> : k \in Linked}
  <2>1. IsFiniteSet(Linked)
    <3>1. IsFiniteSet(1..m) /\ IsFiniteSet(1..n)
      BY <1>2, FS_Interval
    <3>2. IsFiniteSet((1..m) \X (1..n))
      BY <3>1, FS_Product
    <3> QED
      BY <1>2, <3>2, FS_Subset
  <2>2. g \in Surjection(Linked, all)
    BY DEF Surjection
  <2>3. Links \subseteq all
    BY <1>3
  <2> HIDE DEF g, all
  <2>4. IsFiniteSet(all)
    BY <2>1, <2>2, FS_Surjection
  <2> QED
    BY <2>3, <2>4, FS_Subset
<1>6. \A p \in Links : p[3] \in Nat
  BY <1>2, <1>3
<1>7. ASSUME NEW M \in SUBSET Links PROVE Weighed(M)
  BY <1>5, <1>6, FS_Subset DEF Weighed
<1> QED
  BY <1>1, <1>4, <1>7

\* The content pass ends with a pairing in document order that no other such
\* pairing of the linked clauses outweighs (_pass_content_monotonic).
THEOREM ContentIsOptimal == AlignSpec => []ContentOptimal
<1>1. ASSUME AlignInv, TracedInOrder, OptimalInv PROVE ContentOptimal
  <2> SUFFICES ASSUME phase = "content", at[1] = 0 \/ at[2] = 0,
                      NEW M \in SUBSET Links, NonCrossing(M)
               PROVE  Weight(M) <= Weight(matched)
    BY <1>1 DEF ContentOptimal, TracedInOrder
  <2>1. AlignTypeOK /\ Traced /\ PromiseKept
    BY <1>1 DEF AlignInv, PairInv, OptimalInv
  <2>2. PICK f : Tabled(f) /\ Weight(matched) + f[at] = f[<<Len(Left), Len(Right)>>]
    BY <2>1 DEF PromiseKept
  <2>3. f[at] = 0 /\ Weight(matched) \in Nat
    BY <2>1, <2>2, EndEntry, WeighedPart DEF PromiseKept
  <2>4. M \subseteq LinksUpto(Left, Right, Linked, Gain, Len(Left), Len(Right)) /\ Weighed(M)
    BY <2>1, LinksInTable DEF PromiseKept
  <2>5. Bounds(f, Left, Right, Linked, Gain, Len(Left), Len(Right))
    BY <2>1, <2>2, SidesTyped, TableBounds DEF Tabled
  <2>6. Weight(M) <= f[<<Len(Left), Len(Right)>>]
    BY <2>4, <2>5 DEF Bounds
  <2> QED
    BY <2>2, <2>3, <2>6
<1>2. AlignInit => OptimalInv
  BY DEF AlignInit, OptimalInv
<1>3. AlignInit => TracedInOrder
  BY DEF AlignInit, TracedInOrder
<1> QED
  BY <1>1, <1>2, <1>3, InitAlign, AlignKept, InOrderKept, OptimalKept, PTL DEF AlignSpec

-----------------------------------------------------------------------------
(* The events of a version *)

\* A pair that says nothing.
Still(p) == Prev[p[1]].path = nodes[p[2]].path /\ Prev[p[1]].body = nodes[p[2]].body

Before1(e) == <<e.before_path, e.before_text>>
After1(e) == <<Stored(e.after_path), e.after_text>>

OldText(i) == <<Prev[i].path, Prev[i].body>>
NewText(j) == <<Stored(nodes[j].path), nodes[j].body>>

\* An event is that of a pair that speaks, of a clause struck out or of a new one.
LEMMA EventKinds ==
    ASSUME NEW e \in EmitEvents
    PROVE  \/ \E p \in Pairs : /\ ~ Still(p) /\ e.type \in {"MOVED", "MODIFIED"}
                               /\ Before1(e) = OldText(p[1]) /\ After1(e) = NewText(p[2])
                               /\ e.before_path = Prev[p[1]].path /\ e.after_path = nodes[p[2]].path
           \/ \E i \in Cands(Prev) \ Used(Pairs, 1) : e.type = "REMOVED" /\ Before1(e) = OldText(i)
           \/ \E j \in Cands(nodes) \ Used(Pairs, 2) :
                 e.type = "ADDED" /\ After1(e) = NewText(j) /\ e.after_path = nodes[j].path
<1>1. CASE e \in PairEvents
  <2>1. PICK p \in Pairs :
           /\ Prev[p[1]].path # nodes[p[2]].path \/ Prev[p[1]].body # nodes[p[2]].body
           /\ e = Event(IF Prev[p[1]].body = nodes[p[2]].body THEN "MOVED" ELSE "MODIFIED",
                        Prev[p[1]].path, nodes[p[2]].path, Prev[p[1]].body, nodes[p[2]].body, p[3])
    BY <1>1 DEF PairEvents
  <2>2. /\ e.type = IF Prev[p[1]].body = nodes[p[2]].body THEN "MOVED" ELSE "MODIFIED"
        /\ e.before_path = Prev[p[1]].path /\ e.after_path = nodes[p[2]].path
        /\ e.before_text = Prev[p[1]].body /\ e.after_text = nodes[p[2]].body
    BY <2>1 DEF Event
  <2> QED
    BY <2>1, <2>2 DEF Still, Before1, After1, OldText, NewText
<1>2. CASE \E i \in Cands(Prev) \ Used(Pairs, 1) :
             e = Event("REMOVED", Prev[i].path, NoPath, Prev[i].body, <<>>, 100)
  BY <1>2 DEF Event, Before1, OldText
<1>3. CASE \E j \in Cands(nodes) \ Used(Pairs, 2) :
             e = Event("ADDED", NoPath, nodes[j].path, <<>>, nodes[j].body, 100)
  BY <1>3 DEF Event, After1, NewText
<1> QED
  BY <1>1, <1>2, <1>3 DEF EmitEvents

\* Each of them is there.
LEMMA EventsThere ==
    /\ \A p \in Pairs : ~ Still(p) =>
          \E e \in EmitEvents : /\ e.type \in {"MOVED", "MODIFIED"}
                                /\ Before1(e) = OldText(p[1]) /\ After1(e) = NewText(p[2])
                                /\ e.before_path = Prev[p[1]].path /\ e.after_path = nodes[p[2]].path
    /\ \A i \in Cands(Prev) \ Used(Pairs, 1) :
          \E e \in EmitEvents : e.type = "REMOVED" /\ Before1(e) = OldText(i)
    /\ \A j \in Cands(nodes) \ Used(Pairs, 2) :
          \E e \in EmitEvents : e.type = "ADDED" /\ After1(e) = NewText(j)
<1>1. ASSUME NEW p \in Pairs, ~ Still(p)
      PROVE  \E e \in EmitEvents : /\ e.type \in {"MOVED", "MODIFIED"}
                                   /\ Before1(e) = OldText(p[1]) /\ After1(e) = NewText(p[2])
                                   /\ e.before_path = Prev[p[1]].path
                                   /\ e.after_path = nodes[p[2]].path
  <2>1. PICK e : e = Event(IF Prev[p[1]].body = nodes[p[2]].body THEN "MOVED" ELSE "MODIFIED",
                           Prev[p[1]].path, nodes[p[2]].path, Prev[p[1]].body, nodes[p[2]].body, p[3])
    OBVIOUS
  <2>2. e \in EmitEvents
    BY <1>1, <2>1 DEF EmitEvents, PairEvents, Still
  <2>3. /\ e.type = IF Prev[p[1]].body = nodes[p[2]].body THEN "MOVED" ELSE "MODIFIED"
        /\ e.before_path = Prev[p[1]].path /\ e.after_path = nodes[p[2]].path
        /\ e.before_text = Prev[p[1]].body /\ e.after_text = nodes[p[2]].body
    BY <2>1 DEF Event
  <2> QED
    BY <2>2, <2>3 DEF Before1, After1, OldText, NewText
<1>2. ASSUME NEW i \in Cands(Prev) \ Used(Pairs, 1)
      PROVE  \E e \in EmitEvents : e.type = "REMOVED" /\ Before1(e) = OldText(i)
  <2>1. Event("REMOVED", Prev[i].path, NoPath, Prev[i].body, <<>>, 100) \in EmitEvents
    BY DEF EmitEvents
  <2> QED
    BY <2>1 DEF Event, Before1, OldText
<1>3. ASSUME NEW j \in Cands(nodes) \ Used(Pairs, 2)
      PROVE  \E e \in EmitEvents : e.type = "ADDED" /\ After1(e) = NewText(j)
  <2>1. Event("ADDED", NoPath, nodes[j].path, <<>>, nodes[j].body, 100) \in EmitEvents
    BY DEF EmitEvents
  <2> QED
    BY <2>1 DEF Event, After1, NewText
<1> QED
  BY <1>1, <1>2, <1>3

\* The texts of a version, by path.
LEMMA OldTexts == Texted(Prev) = {OldText(i) : i \in Cands(Prev)}
  BY DEF Texted, Cands, OldText

LEMMA NewTexts == ASSUME TreeOK PROVE Texted(NewRows) = {NewText(j) : j \in Cands(nodes)}
<1>1. ASSUME NEW k \in DOMAIN NewRows, NewRows[k].body # <<>>
      PROVE  \E j \in Cands(nodes) : <<NewRows[k].path, NewRows[k].body>> = NewText(j)
  <2>1. k \in DOMAIN Kept /\ Kept[k] \in DOMAIN nodes
    BY KeptOnce, NewRowFields
  <2>2. Kept[k] \in Cands(nodes)
    BY <1>1, <2>1, NewRowFields DEF Cands
  <2> QED
    BY <2>1, <2>2, NewRowFields DEF NewText
<1>2. ASSUME NEW j \in Cands(nodes)
      PROVE  \E k \in DOMAIN NewRows : NewRows[k].body # <<>> /\ <<NewRows[k].path, NewRows[k].body>> = NewText(j)
  <2>1. j \in DOMAIN nodes /\ Persistable(nodes[j]) /\ nodes[j].body # <<>>
    BY DEF Cands, Persistable
  <2>2. PICK k \in DOMAIN Kept : Kept[k] = j
    BY <2>1, KeptOnce
  <2> QED
    BY <2>1, <2>2, NewRowFields DEF NewText
<1> QED
  BY <1>1, <1>2 DEF Texted

\* Striking out what the events call before and writing in what they call
\* after turns the texts of the version before into those of the new one.
LEMMA EventsReplay ==
    ASSUME AlignInv, phase = "content",
           NEW out, out = {<<e.before_path, e.before_text>> : e \in {x \in EmitEvents : x.type # "ADDED"}},
           NEW in, in = {<<Stored(e.after_path), e.after_text>> : e \in {x \in EmitEvents : x.type # "REMOVED"}}
    PROVE  /\ out \subseteq Texted(Prev) /\ in \subseteq Texted(NewRows)
           /\ Texted(NewRows) = (Texted(Prev) \ out) \cup in
<1>0. TreeOK
  BY DEF AlignInv, TreeInv
<1>1. /\ \A p \in Pairs : p[1] \in Cands(Prev) /\ p[2] \in Cands(nodes)
      /\ OneToOne(Pairs)
  BY PairsJoin
<1>2. \A x : x \in out <=> \E e \in EmitEvents : e.type # "ADDED" /\ x = Before1(e)
  BY DEF Before1
<1>3. \A x : x \in in <=> \E e \in EmitEvents : e.type # "REMOVED" /\ x = After1(e)
  BY DEF After1
<1>4. ASSUME NEW x \in out
      PROVE  \E i \in Cands(Prev) : x = OldText(i) /\ ~ \E p \in Pairs : p[1] = i /\ Still(p)
  <2>1. PICK e \in EmitEvents : e.type # "ADDED" /\ x = Before1(e)
    BY <1>2
  <2>2. CASE \E p \in Pairs : ~ Still(p) /\ Before1(e) = OldText(p[1])
    <3>1. PICK p \in Pairs : ~ Still(p) /\ Before1(e) = OldText(p[1])
      BY <2>2
    <3>2. ~ \E q \in Pairs : q[1] = p[1] /\ Still(q)
      BY <1>1, <3>1 DEF OneToOne
    <3> QED
      BY <1>1, <2>1, <3>1, <3>2
  <2>3. CASE \E i \in Cands(Prev) \ Used(Pairs, 1) : Before1(e) = OldText(i)
    BY <2>1, <2>3 DEF Used
  <2> QED
    BY <2>1, <2>2, <2>3, EventKinds
<1>5. ASSUME NEW i \in Cands(Prev), ~ \E p \in Pairs : p[1] = i /\ Still(p)
      PROVE  OldText(i) \in out
  <2>1. CASE i \in Used(Pairs, 1)
    <3>1. PICK p \in Pairs : p[1] = i
      BY <2>1 DEF Used
    <3> QED
      BY <1>2, <1>5, <3>1, EventsThere
  <2>2. CASE i \notin Used(Pairs, 1)
    BY <1>2, <2>2, EventsThere
  <2> QED
    BY <2>1, <2>2
<1>6. ASSUME NEW x \in in PROVE \E j \in Cands(nodes) : x = NewText(j)
  BY <1>1, <1>3, EventKinds
<1>7. ASSUME NEW j \in Cands(nodes), ~ \E p \in Pairs : p[2] = j /\ Still(p)
      PROVE  NewText(j) \in in
  <2>1. CASE j \in Used(Pairs, 2)
    <3>1. PICK p \in Pairs : p[2] = j
      BY <2>1 DEF Used
    <3> QED
      BY <1>3, <1>7, <3>1, EventsThere
  <2>2. CASE j \notin Used(Pairs, 2)
    BY <1>3, <2>2, EventsThere
  <2> QED
    BY <2>1, <2>2
<1>8. \A p \in Pairs : Still(p) => OldText(p[1]) = NewText(p[2])
  BY <1>1, PrevUnique DEF AlignInv, Cands, Slashed, Still, OldText, NewText
<1>9. \A i, k \in Cands(Prev) : OldText(i) = OldText(k) => i = k
  BY PrevUnique DEF AlignInv, OldText, Cands
<1>10. out \subseteq Texted(Prev)
  BY <1>4, OldTexts
<1>11. in \subseteq Texted(NewRows)
  BY <1>0, <1>6, NewTexts
<1>12. ASSUME NEW x \in Texted(NewRows), x \notin in PROVE x \in Texted(Prev) \ out
  <2>1. PICK j \in Cands(nodes) : x = NewText(j)
    BY <1>0, NewTexts
  <2>2. PICK p \in Pairs : p[2] = j /\ Still(p)
    BY <1>7, <1>12, <2>1
  <2>3. x = OldText(p[1]) /\ p[1] \in Cands(Prev)
    BY <1>1, <1>8, <2>1, <2>2
  <2>4. x \notin out
    BY <1>4, <1>9, <2>2, <2>3
  <2> QED
    BY <2>3, <2>4, OldTexts
<1>13. ASSUME NEW x \in Texted(Prev), x \notin out PROVE x \in Texted(NewRows)
  <2>1. PICK i \in Cands(Prev) : x = OldText(i)
    BY OldTexts
  <2>2. PICK p \in Pairs : p[1] = i /\ Still(p)
    BY <1>5, <1>13, <2>1
  <2> QED
    BY <1>0, <1>1, <1>8, <2>1, <2>2, NewTexts
<1> QED
  BY <1>10, <1>11, <1>12, <1>13

\* The steps before the commit touch neither versions nor events.
LEMMA OnlyPersistWrites ==
    ASSUME [AlignNext]_pollVars, ~ Persist
    PROVE  UNCHANGED <<versions, events>>
  BY DEF AlignNext, Fetch, FetchReformatted, Parse, EndOfText, PairByAnchor, EndAnchors, TraceBack,
         PersistRefused, pollVars, alignVars

\* What Persist writes, and what it leaves.
LEMMA PersistWrites ==
    ASSUME AlignInv, Persist, NEW n, n = Len(versions) + 1
    PROVE  /\ DOMAIN versions' = 1..n /\ DOMAIN versions = 1..(n - 1) /\ n \in Nat \ {0}
           /\ Len(versions') = n /\ Len(events') = n /\ versions'[n] = NewRows /\ events'[n] = EmitEvents
           /\ \A i \in 1..(n - 1) : versions'[i] = versions[i] /\ events'[i] = events[i]
           /\ RowsOf(n - 1)' = Prev /\ \A i \in 0..(n - 1) : RowsOf(i)' = RowsOf(i)
<1>1. versions' = Append(versions, NewRows) /\ events' = Append(events, EmitEvents)
  BY DEF Persist
<1>2. PICK m : m = Len(versions)
  OBVIOUS
<1>3. /\ versions \in Seq(Seq(RowSet)) /\ m \in Nat /\ DOMAIN versions = 1..m
      /\ events \in Seq(SUBSET EventSet) /\ Len(events) = m
  BY <1>2 DEF AlignInv, AlignTypeOK
<1>4. n = m + 1 /\ n - 1 = m /\ n \in Nat \ {0}
  BY <1>2, <1>3
<1>5. /\ DOMAIN versions' = 1..n /\ versions'[n] = NewRows /\ Len(versions') = n
      /\ \A i \in 1..m : versions'[i] = versions[i]
  BY <1>1, <1>2, <1>3, <1>4
<1>6. Len(events') = n /\ events'[n] = EmitEvents /\ \A i \in 1..m : events'[i] = events[i]
  BY <1>1, <1>3, <1>4
<1>7. ASSUME NEW i \in 0..m PROVE RowsOf(i)' = RowsOf(i)
  <2>1. i = 0 \/ i \in 1..m
    BY <1>3
  <2> QED
    BY <1>5, <2>1 DEF RowsOf
<1>8. RowsOf(m) = Prev
  BY <1>2, <1>3 DEF RowsOf, Prev
<1>9. RowsOf(m)' = Prev
  BY <1>3, <1>7, <1>8
<1> QED
  BY <1>3, <1>4, <1>5, <1>6, <1>7, <1>9

LEMMA GrowsByPersist ==
    ASSUME AlignInv, [AlignNext]_pollVars, Len(versions') > Len(versions)
    PROVE  Persist
<1>1. Len(versions) \in Nat
  BY DEF AlignInv, AlignTypeOK
<1> QED
  BY <1>1, OnlyPersistWrites

LEMMA ReplaysKept ==
    ASSUME AlignInv, DiffReplays, [AlignNext]_pollVars
    PROVE  DiffReplays'
<1>1. CASE ~ Persist
  <2>1. UNCHANGED <<versions, events>>
    BY <1>1, OnlyPersistWrites
  <2> QED
    BY <2>1 DEF DiffReplays, Texted, RowsOf
<1>2. CASE Persist
  <2>1. PICK n : n = Len(versions) + 1
    OBVIOUS
  <2>2. /\ DOMAIN versions' = 1..n /\ DOMAIN versions = 1..(n - 1) /\ n \in Nat \ {0}
        /\ versions'[n] = NewRows /\ events'[n] = EmitEvents
        /\ \A i \in 1..(n - 1) : versions'[i] = versions[i] /\ events'[i] = events[i]
        /\ RowsOf(n - 1)' = Prev /\ \A i \in 0..(n - 1) : RowsOf(i)' = RowsOf(i)
    BY <1>2, <2>1, PersistWrites
  <2> DEFINE Out(es) == {<<e.before_path, e.before_text>> : e \in {x \in es : x.type # "ADDED"}}
             In(es) == {<<Stored(e.after_path), e.after_text>> : e \in {x \in es : x.type # "REMOVED"}}
             Good(old, es, new) == /\ Out(es) \subseteq Texted(old) /\ In(es) \subseteq Texted(new)
                                   /\ Texted(new) = (Texted(old) \ Out(es)) \cup In(es)
  <2>3. DiffReplays <=> \A i \in DOMAIN versions : Good(RowsOf(i - 1), events[i], versions[i])
    BY DEF DiffReplays
  <2>4. DiffReplays' <=> \A i \in DOMAIN versions' : Good(RowsOf(i - 1)', events'[i], versions'[i])
    BY DEF DiffReplays, Texted
  <2>5. Good(Prev, EmitEvents, NewRows)
    BY <1>2, EventsReplay DEF Persist, EndPoll
  <2> HIDE DEF Good
  <2>6. ASSUME NEW i \in 1..n PROVE Good(RowsOf(i - 1)', events'[i], versions'[i])
    <3>1. CASE i = n
      BY <2>2, <2>5, <3>1
    <3>2. CASE i # n
      <4>1. i \in 1..(n - 1) /\ i - 1 \in 0..(n - 1)
        BY <2>2, <3>2
      <4> QED
        BY <2>2, <2>3, <4>1
    <3> QED
      BY <3>1, <3>2
  <2> QED
    BY <2>2, <2>4, <2>6
<1> QED
  BY <1>1, <1>2

\* The events of every version replay it from the one before, for any
\* documents, similarities and numbers of versions (_emit_events).
THEOREM EventsReplayVersions == AlignSpec => []DiffReplays
<1>1. AlignInit => DiffReplays
  BY DEF AlignInit, DiffReplays
<1>2. AlignInv /\ DiffReplays /\ [AlignNext]_pollVars => DiffReplays'
  BY ReplaysKept
<1> QED
  BY <1>1, <1>2, InitAlign, AlignKept, PTL DEF AlignSpec

-----------------------------------------------------------------------------
(* The uids of a version *)

\* The only row at the path of a row is that row.
LEMMA RowAlone ==
    ASSUME AlignInv, NEW i \in DOMAIN Prev
    PROVE  Rows(Prev[i].path) = {i} /\ UidAt(Prev[i].path) = Prev[i].uid
<1>1. Rows(Prev[i].path) = {i}
  BY PrevUnique DEF Rows, AlignInv
<1> QED
  BY <1>1 DEF UidAt

\* The events that name a clause of a pair are those of the pair.
LEMMA NamedByPair ==
    ASSUME AlignInv, phase = "content", NEW p \in Pairs, NEW e \in EmitEvents,
           e.type \in {"MOVED", "MODIFIED"}, e.after_path = nodes[p[2]].path
    PROVE  ~ Still(p) /\ e.before_path = Prev[p[1]].path
<1>1. /\ \A q \in Pairs : q[1] \in Cands(Prev) /\ q[2] \in Cands(nodes)
      /\ OneToOne(Pairs)
  BY PairsJoin
<1>2. PICK q \in Pairs : /\ ~ Still(q) /\ e.before_path = Prev[q[1]].path
                         /\ e.after_path = nodes[q[2]].path
  BY EventKinds
<1>3. q[2] = p[2]
  BY <1>1, <1>2 DEF Cands, AlignInv, TreeInv, PathsUnique
<1>4. q = p
  BY <1>1, <1>3 DEF OneToOne
<1> QED
  BY <1>2, <1>4

LEMMA PairUid ==
    ASSUME AlignInv, phase = "content", NEW p \in Pairs
    PROVE  UidOf(p[2]) = Prev[p[1]].uid
<1>1. p[1] \in DOMAIN Prev /\ p[2] \in DOMAIN nodes
  BY PairsJoin DEF Cands
<1>2. PICK c : c = nodes[p[2]]
  OBVIOUS
<1>3. PICK named : named = {e \in EmitEvents : e.type \in {"MOVED", "MODIFIED"} /\ e.after_path = c.path}
  OBVIOUS
<1>4. SourcePath(c) = IF named # {} /\ Rows((CHOOSE e \in named : TRUE).before_path) # {}
                      THEN (CHOOSE e \in named : TRUE).before_path
                      ELSE c.path
  BY <1>3 DEF SourcePath
<1>5. SourcePath(c) = Prev[p[1]].path
  <2>1. CASE named = {}
    <3>1. Still(p)
      BY <1>2, <1>3, <2>1, EventsThere
    <3> QED
      BY <1>2, <1>4, <2>1, <3>1 DEF Still
  <2>2. CASE named # {}
    <3>1. (CHOOSE e \in named : TRUE) \in named
      BY <2>2
    <3>2. (CHOOSE e \in named : TRUE).before_path = Prev[p[1]].path
      BY <1>2, <1>3, <3>1, NamedByPair
    <3>3. Rows(Prev[p[1]].path) # {}
      BY <1>1, RowAlone
    <3> QED
      BY <1>4, <2>2, <3>2, <3>3
  <2> QED
    BY <2>1, <2>2
<1> QED
  BY <1>1, <1>2, <1>5, RowAlone DEF UidOf

\* A clause that the alignment paired keeps the uid of its partner, whatever
\* moved, was renamed or reworded around it (_build_clause_uid_map).
THEOREM PairedUidKept == AlignSpec => PairKeepsUid
<1>1. AlignInv /\ [AlignNext]_pollVars =>
        [LET new == versions'[Len(versions')]
         IN Len(versions') > Len(versions) =>
              \A p \in Pairs : \A k \in DOMAIN new :
                  new[k].path = Stored(nodes[p[2]].path) => new[k].uid = Prev[p[1]].uid]_pollVars
  <2> SUFFICES ASSUME AlignInv, AlignNext, Len(versions') > Len(versions),
                      NEW p \in Pairs, NEW k \in DOMAIN versions'[Len(versions')],
                      versions'[Len(versions')][k].path = Stored(nodes[p[2]].path)
               PROVE  versions'[Len(versions')][k].uid = Prev[p[1]].uid
    OBVIOUS
  <2>1. Persist /\ PathsApart /\ phase = "content"
    BY GrowsByPersist DEF Persist, EndPoll
  <2>2. versions'[Len(versions')] = NewRows
    BY <2>1, PersistWrites
  <2>3. TreeOK
    BY DEF AlignInv, TreeInv
  <2>4. k \in DOMAIN Kept /\ Kept[k] \in DOMAIN nodes /\ Persistable(nodes[Kept[k]])
        /\ NewRows[k].path = Stored(nodes[Kept[k]].path) /\ NewRows[k].uid = UidOf(Kept[k])
    BY <2>2, <2>3, NewRowFields, KeptOnce
  <2>5. p[2] \in DOMAIN nodes /\ Persistable(nodes[p[2]])
    BY <2>1, PairsJoin DEF Cands, Persistable
  <2>6. Kept[k] = p[2]
    BY <2>1, <2>2, <2>4, <2>5 DEF PathsApart
  <2> QED
    BY <2>1, <2>2, <2>4, <2>6, PairUid
<1> QED
  BY <1>1, InitAlign, AlignKept, PTL DEF AlignSpec, PairKeepsUid

-----------------------------------------------------------------------------
(* An unchanged version *)

\* The rows to come are those of the version before.
SameSides ==
    /\ Len(Kept) = Len(Prev)
    /\ \A i \in DOMAIN Prev : /\ Stored(nodes[Kept[i]].path) = Prev[i].path
                              /\ nodes[Kept[i]].heading = Prev[i].heading
                              /\ nodes[Kept[i]].body = Prev[i].body

\* A clause that cannot recognise itself: it has its path to go by, and the path
\* did not come back as it went.
Deaf(i) == Prev[i].heading = NoText /\ Slashed(nodes[Kept[i]].path)

\* Then the heading pass pairs clauses with themselves only, and leaves over
\* those that are deaf.
SilentInv ==
    SameSides =>
      /\ phase \in {"anchor", "content"} => \A p \in anchored : p[2] = Kept[p[1]]
      /\ phase = "content" => \A i \in Cands(Prev) : Deaf(i) \/ i \in Used(anchored, 1)

\* Every candidate has a twin on the other side.
LEMMA Twins ==
    ASSUME AlignInv, SameSides
    PROVE  /\ DOMAIN Kept = DOMAIN Prev
           /\ \A i \in Cands(Prev) : Kept[i] \in Cands(nodes)
           /\ \A j \in Cands(nodes) : \E i \in Cands(Prev) : j = Kept[i]
<1>1. TreeOK
  BY DEF AlignInv, TreeInv
<1>2. DOMAIN Kept = DOMAIN Prev
  BY <1>1, KeptOnce, PrevTyped DEF SameSides, AlignInv
<1>3. ASSUME NEW i \in Cands(Prev) PROVE Kept[i] \in Cands(nodes)
  BY <1>1, <1>2, KeptOnce DEF Cands, SameSides
<1>4. ASSUME NEW j \in Cands(nodes) PROVE \E i \in Cands(Prev) : j = Kept[i]
  <2>1. j \in DOMAIN nodes /\ Persistable(nodes[j]) /\ nodes[j].body # <<>>
    BY DEF Cands, Persistable
  <2>2. PICK i \in DOMAIN Kept : Kept[i] = j
    BY <1>1, <2>1, KeptOnce
  <2>3. i \in Cands(Prev)
    BY <1>2, <2>1, <2>2 DEF Cands, SameSides
  <2> QED
    BY <2>2, <2>3
<1> QED
  BY <1>2, <1>3, <1>4

\* No clause is anchored to a deaf one, on either side.
LEMMA DeafApart ==
    ASSUME AlignInv, SameSides, NEW i \in Cands(Prev), NEW k \in Cands(Prev),
           SameAnchor(Prev[i], nodes[Kept[k]])
    PROVE  ~ Deaf(i) /\ ~ Deaf(k)
<1>1. PICK c : c = nodes[Kept[k]]
  OBVIOUS
<1>2. /\ i \in DOMAIN Prev /\ k \in DOMAIN Prev
      /\ Stored(c.path) = Prev[k].path /\ c.heading = Prev[k].heading
      /\ ~ Slashed(Prev[i].path)
  BY <1>1, PrevUnique DEF Cands, SameSides, AlignInv
<1>3. ASSUME Prev[i].heading = NoText \/ Prev[k].heading = NoText
      PROVE  Prev[i].path = c.path /\ i = k
  <2>1. Prev[i].path = c.path
    BY <1>1, <1>2, <1>3 DEF SameAnchor
  <2>2. Prev[i].path = Prev[k].path
    BY <1>2, <2>1 DEF Slashed
  <2> QED
    BY <1>2, <2>1, <2>2, PrevUnique DEF AlignInv
<1> QED
  BY <1>1, <1>2, <1>3 DEF Deaf

\* A clause and its twin are a triple, of the greatest confidence there is for
\* a clause as long, until one of the two is taken.
LEMMA TwinTriple ==
    ASSUME AlignInv, SameSides, NEW i \in Cands(Prev), i \notin Used(anchored, 1),
           Kept[i] \notin Used(anchored, 2), ~ Deaf(i)
    PROVE  <<i, Kept[i], IF Long(Prev[i]) THEN 100 ELSE 90>> \in Triples
<1>1. PICK c, j : j = Kept[i] /\ c = nodes[j]
  OBVIOUS
<1>2. PICK r : r = Prev[i]
  OBVIOUS
<1>3. j \in Cands(nodes) /\ i \in DOMAIN Prev /\ j \in DOMAIN nodes
  BY <1>1, Twins DEF Cands
<1>4. /\ Stored(c.path) = r.path /\ c.heading = r.heading /\ c.body = r.body
      /\ r.heading = NoText => c.path = r.path
  BY <1>1, <1>2, <1>3 DEF SameSides, Deaf, Slashed
<1>5. c.body \in Seq(STRING) /\ r.body \in Seq(STRING)
  BY <1>2, <1>3, <1>4, PrevTyped DEF AlignInv
<1>6. SameAnchor(r, c)
  BY <1>4 DEF SameAnchor
<1>7. Long(r) <=> Long(c)
  BY <1>4 DEF Long
<1>8. Sim(r, c) = 100
  BY <1>4, <1>5, SimBounds
<1>9. Sim(r, c) >= Threshold
  BY <1>8, AlignAssumption
<1>10. Corroborates(r, c)
  BY <1>4, <1>7, <1>9 DEF Corroborates
<1>11. Confidence(r, c) = IF Long(r) THEN 100 ELSE 90
  BY <1>4, <1>5, ConfidenceBounds
<1>12. <<i, j, Confidence(Prev[i], nodes[j])>> \in Triples
  <2>1. PICK q : q = <<i, j>>
    OBVIOUS
  <2>2. q \in Cands(Prev) \X Cands(nodes) /\ q[1] = i /\ q[2] = j
    BY <1>3, <2>1
  <2>3. SameAnchor(Prev[i], nodes[j]) /\ Corroborates(Prev[i], nodes[j])
    BY <1>1, <1>2, <1>6, <1>10
  <2> QED
    BY <1>1, <2>2, <2>3 DEF Triples
<1> QED
  BY <1>1, <1>2, <1>11, <1>12

\* The greedy choice among the triples that are left is a clause and its twin:
\* the last of the longest confidence.
LEMMA FirstIsTwin ==
    ASSUME AlignInv, SameSides, phase = "anchor", \A p \in anchored : p[2] = Kept[p[1]],
           NEW t \in Triples, \A u \in Triples : Before(t, u)
    PROVE  t[2] = Kept[t[1]]
<1>1. PICK i, j, x : i = t[1] /\ j = t[2] /\ x = t[3]
  OBVIOUS
<1>2. /\ i \in Cands(Prev) /\ j \in Cands(nodes) /\ i \notin Used(anchored, 1)
      /\ j \notin Used(anchored, 2) /\ Corroborates(Prev[i], nodes[j])
      /\ SameAnchor(Prev[i], nodes[j]) /\ x = Confidence(Prev[i], nodes[j]) /\ x \in 90..100 /\ i \in Nat /\ j \in Nat
  BY <1>1, TripleFree DEF AlignInv
<1>3. PICK k \in Cands(Prev) : j = Kept[k]
  BY <1>2, Twins
<1>4. TreeOK /\ i \in DOMAIN Kept /\ k \in DOMAIN Kept
  BY <1>2, <1>3, Twins DEF AlignInv, TreeInv, Cands
<1>5. Kept[i] \notin Used(anchored, 2) /\ k \notin Used(anchored, 1)
  <2>1. ASSUME NEW p \in anchored, p[2] = Kept[i] PROVE FALSE
    <3>1. Kept[p[1]] = Kept[i] /\ p[1] \in Used(anchored, 1)
      BY <2>1 DEF Used
    <3>2. p[1] \in DOMAIN Kept
      <4>1. p[1] \in Cands(Prev)
        BY DEF AlignInv, PairInv, AnchorsFit
      <4> QED
        BY <4>1, Twins DEF Cands
    <3> QED
      BY <1>2, <1>4, <3>1, <3>2, KeptOnce
  <2>2. ASSUME NEW p \in anchored, p[1] = k PROVE FALSE
    BY <1>2, <1>3, <2>2 DEF Used
  <2> QED
    BY <2>1, <2>2 DEF Used
<1>6. Long(Prev[i]) <=> Long(Prev[k])
  <2>1. Long(Prev[i]) <=> Long(nodes[j])
    BY <1>2 DEF Corroborates
  <2>2. nodes[j].body = Prev[k].body
    BY <1>3 DEF SameSides, Cands
  <2> QED
    BY <2>1, <2>2 DEF Long
<1>7. PICK y : y = IF Long(Prev[i]) THEN 100 ELSE 90
  OBVIOUS
<1>8. <<i, Kept[i], y>> \in Triples /\ <<k, Kept[k], y>> \in Triples
  <2>1. ~ Deaf(i) /\ ~ Deaf(k)
    BY <1>2, <1>3, DeafApart
  <2> QED
    BY <1>2, <1>3, <1>5, <1>6, <1>7, <2>1, TwinTriple
<1>9. x <= y
  <2>1. CASE Long(Prev[i])
    BY <1>2, <1>7, <2>1
  <2>2. CASE ~ Long(Prev[i])
    <3>1. PICK c, d : c = Prev[i] /\ d = nodes[j]
      OBVIOUS
    <3>2. c.body \in Seq(STRING) /\ d.body \in Seq(STRING)
      BY <1>2, <1>4, <3>1, PrevTyped, NodesTyped DEF AlignInv, Cands
    <3>3. x = 90
      BY <1>2, <2>2, <3>1, <3>2, ConfidenceBounds
    <3> QED
      BY <1>7, <2>2, <3>3
  <2> QED
    BY <2>1, <2>2
<1>10. Before(t, <<i, Kept[i], y>>) /\ Before(t, <<k, Kept[k], y>>)
  BY <1>8
<1>11. Kept[i] \in Nat /\ k \in Nat /\ y \in Nat
  BY <1>4, <1>7, KeptOnce, NodesTyped, PrevTyped DEF AlignInv, Cands
<1>12. j >= Kept[i]
  BY <1>1, <1>2, <1>9, <1>10, <1>11 DEF Before
<1>13. i > k \/ i = k
  BY <1>1, <1>2, <1>9, <1>10, <1>11 DEF Before
<1>14. i = k
  <2>1. k < i => Kept[k] < Kept[i]
    BY <1>4, KeptOnce
  <2> QED
    BY <1>2, <1>3, <1>11, <1>12, <1>13, <2>1
<1> QED
  BY <1>1, <1>3, <1>14

LEMMA SilentKept == ASSUME AlignInv, SilentInv, [AlignNext]_pollVars PROVE SilentInv'
<1>1. CASE Fetch \/ FetchReformatted \/ EndOfText
  <2>1. anchored' = {} /\ phase' \in {"parse", "anchor"}
    BY <1>1 DEF Fetch, FetchReformatted, EndOfText, AlignInv, PairInv
  <2> QED
    BY <2>1 DEF SilentInv
<1>2. CASE Parse \/ Persist \/ PersistRefused
  <2>1. phase' \notin {"anchor", "content"}
    BY <1>2 DEF Parse, Persist, PersistRefused, EndPoll, alignVars
  <2> QED
    BY <2>1 DEF SilentInv
<1>s. ASSUME UNCHANGED <<treeVars, versions>>
      PROVE  /\ (SameSides' <=> SameSides) /\ Kept' = Kept /\ Prev' = Prev
             /\ \A i \in DOMAIN Prev : Deaf(i)' <=> Deaf(i)
  <2>1. nodes' = nodes /\ versions' = versions
    BY <1>s DEF treeVars
  <2>2. Kept' = Kept /\ Prev' = Prev
    BY <2>1 DEF Kept, Prev
  <2>3. \A i \in DOMAIN Prev : Deaf(i)' <=> Deaf(i)
    BY <2>1, <2>2 DEF Deaf
  <2> QED
    BY <2>1, <2>2, <2>3 DEF SameSides
<1>3. CASE PairByAnchor
  <2>1. /\ phase = "anchor" /\ phase' = "anchor" /\ UNCHANGED <<treeVars, versions>>
    BY <1>3 DEF PairByAnchor
  <2>2. PICK t \in Triples : (\A u \in Triples : Before(t, u)) /\ anchored' = anchored \cup {t}
    BY <1>3 DEF PairByAnchor
  <2>3. SUFFICES ASSUME SameSides PROVE \A p \in anchored' : p[2] = Kept[p[1]]
    BY <1>s, <2>1 DEF SilentInv
  <2>4. \A p \in anchored : p[2] = Kept[p[1]]
    BY <2>1, <2>3 DEF SilentInv
  <2>5. t[2] = Kept[t[1]]
    BY <2>1, <2>2, <2>3, <2>4, FirstIsTwin
  <2> QED
    BY <2>2, <2>4, <2>5
<1>4. CASE EndAnchors
  <2>1. /\ phase = "anchor" /\ Triples = {} /\ UNCHANGED <<treeVars, versions, anchored>>
    BY <1>4 DEF EndAnchors
  <2>2. SUFFICES ASSUME SameSides
                 PROVE  /\ \A p \in anchored : p[2] = Kept[p[1]]
                        /\ \A i \in Cands(Prev) : Deaf(i) \/ i \in Used(anchored, 1)
    BY <1>s, <2>1, SidesKept DEF SilentInv, Used, Cands
  <2>3. \A p \in anchored : p[2] = Kept[p[1]]
    BY <2>1, <2>2 DEF SilentInv
  <2>4. \A p \in anchored : p[1] \in Cands(Prev)
    BY <2>1 DEF AlignInv, PairInv, AnchorsFit
  <2>5. ASSUME NEW i \in Cands(Prev), i \notin Used(anchored, 1), ~ Deaf(i) PROVE FALSE
    <3>1. ASSUME NEW p \in anchored, p[2] = Kept[i] PROVE FALSE
      <4>1. Kept[p[1]] = Kept[i] /\ p[1] # i
        BY <2>3, <2>5, <3>1 DEF Used
      <4>2. p[1] \in DOMAIN Kept /\ i \in DOMAIN Kept /\ TreeOK
        BY <2>2, <2>4, Twins DEF Cands, AlignInv, TreeInv
      <4> QED
        BY <4>1, <4>2, KeptOnce
    <3>2. Kept[i] \notin Used(anchored, 2)
      BY <3>1 DEF Used
    <3> QED
      BY <2>1, <2>2, <2>5, <3>2, TwinTriple
  <2> QED
    BY <2>3, <2>5
<1>5. CASE TraceBack \/ UNCHANGED pollVars
  <2>1. UNCHANGED <<treeVars, versions, anchored, phase>>
    BY <1>5 DEF TraceBack, pollVars, alignVars
  <2> QED
    BY <1>s, <2>1, SidesKept DEF SilentInv, Used, Cands
<1> QED
  BY <1>1, <1>2, <1>3, <1>4, <1>5 DEF AlignNext

\* The only clauses that speak are those whose path holds a '/'.
LEMMA OnlySlashedSpeak ==
    ASSUME AlignInv, SilentInv, phase = "content", SameSides
    PROVE  /\ \A p \in Pairs : Still(p) \/ Slashed(nodes[p[2]].path)
           /\ \A i \in Cands(Prev) \ Used(Pairs, 1) : Slashed(nodes[Kept[i]].path)
           /\ \A j \in Cands(nodes) \ Used(Pairs, 2) : Slashed(nodes[j].path)
<1>1. /\ \A p \in anchored : p[1] \in Cands(Prev) /\ p[2] = Kept[p[1]]
      /\ \A i \in Cands(Prev) : i \notin Used(anchored, 1) => Slashed(nodes[Kept[i]].path)
  BY DEF SilentInv, AlignInv, PairInv, AnchorsFit, Deaf
<1>2. ASSUME NEW j \in Cands(nodes), j \notin Used(anchored, 2) PROVE Slashed(nodes[j].path)
  <2>1. PICK i \in Cands(Prev) : j = Kept[i]
    BY Twins
  <2>2. i \notin Used(anchored, 1)
    BY <1>1, <1>2, <2>1 DEF Used
  <2> QED
    BY <1>1, <2>1, <2>2
<1>3. ASSUME NEW p \in anchored, ~ Slashed(nodes[p[2]].path) PROVE Still(p)
  BY <1>1, <1>3 DEF Still, SameSides, Cands, Slashed
<1>4. ASSUME NEW p \in matched PROVE Slashed(nodes[p[2]].path)
  <2>1. PICK b \in 1..Len(Right) : p[2] = Right[b]
    BY DEF AlignInv, PairInv, Traced
  <2> QED
    BY <1>2, <2>1, LeftOver DEF AlignInv
<1> QED
  BY <1>1, <1>2, <1>3, <1>4 DEF Pairs, Used

\* Such a version brings no event and no uid but for them.
LEMMA SilentVersion ==
    ASSUME AlignInv, SilentInv, phase = "content", SameSides
    PROVE  /\ \A e \in EmitEvents : \E j \in DOMAIN nodes :
                 /\ Slashed(nodes[j].path)
                 /\ e.after_path = nodes[j].path \/ e.before_path = Stored(nodes[j].path)
           /\ \A k \in DOMAIN Kept :
                 ~ Slashed(nodes[Kept[k]].path) => UidOf(Kept[k]) = Prev[k].uid
<1>1. \A p \in Pairs : p[2] \in DOMAIN nodes
  BY PairsJoin DEF Cands
<1>2. ASSUME NEW e \in EmitEvents
      PROVE  \E j \in DOMAIN nodes :
                /\ Slashed(nodes[j].path)
                /\ e.after_path = nodes[j].path \/ e.before_path = Stored(nodes[j].path)
  <2>1. CASE \E p \in Pairs : ~ Still(p) /\ e.after_path = nodes[p[2]].path
    BY <1>1, <2>1, OnlySlashedSpeak
  <2>2. CASE \E i \in Cands(Prev) \ Used(Pairs, 1) : Before1(e) = OldText(i)
    <3>1. PICK i \in Cands(Prev) \ Used(Pairs, 1) : e.before_path = Prev[i].path
      BY <2>2 DEF Before1, OldText
    <3>2. Slashed(nodes[Kept[i]].path) /\ Prev[i].path = Stored(nodes[Kept[i]].path)
      BY OnlySlashedSpeak DEF SameSides, Cands
    <3>3. Kept[i] \in DOMAIN nodes
      BY Twins DEF Cands
    <3> QED
      BY <3>1, <3>2, <3>3
  <2>3. CASE \E j \in Cands(nodes) \ Used(Pairs, 2) : e.after_path = nodes[j].path
    BY <2>3, OnlySlashedSpeak DEF Cands
  <2> QED
    BY <2>1, <2>2, <2>3, EventKinds
<1>3. ASSUME NEW k \in DOMAIN Kept, ~ Slashed(nodes[Kept[k]].path)
      PROVE  UidOf(Kept[k]) = Prev[k].uid
  <2>1. k \in DOMAIN Prev
    BY Twins
  <2>2. PICK c : c = nodes[Kept[k]]
    OBVIOUS
  <2>3. c.path = Prev[k].path /\ ~ Slashed(c.path)
    BY <1>3, <2>1, <2>2 DEF SameSides, Slashed
  <2>4. ASSUME NEW e \in EmitEvents, e.type \in {"MOVED", "MODIFIED"} PROVE e.after_path # c.path
    <3>1. PICK p \in Pairs : ~ Still(p) /\ e.after_path = nodes[p[2]].path
      BY <2>4, EventKinds
    <3> QED
      BY <2>3, <3>1, OnlySlashedSpeak
  <2>5. SourcePath(c) = c.path
    BY <2>4 DEF SourcePath
  <2>6. Rows(Prev[k].path) # {} /\ UidAt(Prev[k].path) = Prev[k].uid
    BY <2>1, RowAlone
  <2> QED
    BY <2>2, <2>3, <2>5, <2>6 DEF UidOf
<1> QED
  BY <1>2, <1>3

\* An unchanged version is silent but for the clauses whose path holds a '/',
\* whatever titles and texts repeat in it and whatever the LSH index yields: the
\* greedy pass pairs each other clause with itself.
THEOREM UnchangedVersionSilent == AlignSpec => UnchangedIsSilent
<1>1. AlignInit => SilentInv
  BY DEF AlignInit, SilentInv
<1>2. AlignInv /\ SilentInv /\ [AlignNext]_pollVars => SilentInv'
  BY SilentKept
<1>3. AlignInv /\ SilentInv /\ [AlignNext]_pollVars =>
        [LET new == versions'[Len(versions')]
         IN Len(versions') > Len(versions) /\ SameRows(new, Prev) =>
              /\ \A e \in events'[Len(events')] : \E j \in DOMAIN nodes :
                    /\ Slashed(nodes[j].path)
                    /\ e.after_path = nodes[j].path \/ e.before_path = Stored(nodes[j].path)
              /\ \A k \in DOMAIN new :
                    ~Slashed(nodes[Kept[k]].path) => new[k].uid = Prev[k].uid]_pollVars
  <2> SUFFICES ASSUME AlignInv, SilentInv, AlignNext, Len(versions') > Len(versions),
                      SameRows(versions'[Len(versions')], Prev)
               PROVE  /\ \A e \in events'[Len(events')] : \E j \in DOMAIN nodes :
                            /\ Slashed(nodes[j].path)
                            /\ e.after_path = nodes[j].path \/ e.before_path = Stored(nodes[j].path)
                      /\ \A k \in DOMAIN versions'[Len(versions')] :
                            ~Slashed(nodes[Kept[k]].path) => versions'[Len(versions')][k].uid = Prev[k].uid
    OBVIOUS
  <2>1. Persist /\ phase = "content" /\ TreeOK
    BY GrowsByPersist DEF Persist, EndPoll, AlignInv, TreeInv
  <2>2. versions'[Len(versions')] = NewRows /\ events'[Len(events')] = EmitEvents
    BY <2>1, PersistWrites
  <2>3. DOMAIN NewRows = DOMAIN Kept /\ DOMAIN Kept = 1..Len(Kept) /\ Len(Kept) \in Nat
    BY <2>1, KeptOnce, NewRowFields
  <2>4. Len(NewRows) = Len(Kept)
    BY <2>3 DEF NewRows
  <2>5. Len(Kept) = Len(Prev) /\ DOMAIN Prev = DOMAIN Kept
    BY <2>2, <2>3, <2>4, PrevTyped DEF SameRows, AlignInv
  <2>6. \A i \in DOMAIN Kept : /\ NewRows[i].path = Prev[i].path
                               /\ NewRows[i].heading = Prev[i].heading
                               /\ NewRows[i].body = Prev[i].body
    BY <2>2, <2>3 DEF SameRows
  <2>7. SameSides
    BY <2>1, <2>5, <2>6, NewRowFields DEF SameSides
  <2> QED
    BY <2>1, <2>2, <2>3, <2>7, NewRowFields, SilentVersion
<1> QED
  BY <1>1, <1>2, <1>3, InitAlign, AlignKept, PTL DEF AlignSpec, UnchangedIsSilent

=============================================================================

---------------------------- MODULE Lawstronaut ----------------------------
\* core/lawstronaut/client.py as the worker uses it: one caller, a cached
\* bearer with the expiry the client remembers, a login that is a request with
\* retries of its own inside the retries of the request that needs it. Time
\* passes in whole units, by Elapse of the module that composes this one; what
\* has a length here is a count of them. The timeout is one of httpx: for the
\* connection, a write, and every single read. It ends a wait for an answer, and
\* nothing ends an answer that has begun and keeps arriving, piece by piece.
EXTENDS Integers

CONSTANTS
  TTL,        \* expires_in of a login
  Buffer,     \* refresh_buffer_s
  Timeout,    \* the longest wait for an answer to begin, with the pause before it
  Attempts,   \* stamina_attempts
  GiveUp,     \* no further attempt once this much time has passed
  MaxFaults   \* bound on what goes wrong: bearers revoked, units in which an
              \* answer keeps arriving, and the faults of the composing module

\* Two requests fit in what is left of a bearer when it is replaced.
ASSUME ClientAssumption ==
  /\ TTL \in Nat /\ Buffer \in Nat /\ Timeout \in Nat \ {0}
  /\ MaxFaults \in Nat
  /\ Attempts \in Nat \ {0} /\ GiveUp \in Nat \ {0}
  /\ 2 * Timeout <= Buffer /\ 2 * Timeout < TTL

VARIABLES
  left,     \* time to the expiry the client remembers; 0 when there is no bearer
  valid,    \* for how long upstream goes on accepting that bearer
  revoked,  \* upstream has revoked the bearer in use
  trickled, \* the answer to its login trickled in
  call,     \* the call of get_markdown: its stage, attempts and times, and the
            \* answer that has begun to arrive: to a bearer accepted, or not
  faults    \* what has gone wrong so far, a count

bearerVars == <<left, valid, revoked, trickled>>
clientVars == <<bearerVars, call, faults>>

Idle == [stage |-> "idle", tries |-> 0, spent |-> 0, waited |-> 0,
         logins |-> 0, loginSpent |-> 0, flight |-> 0, answer |-> "none"]

\* The call has come back, with a document or an error.
Returned(outcome) == [Idle EXCEPT !.stage = outcome]

ClientTypeOK ==
  /\ left \in 0..TTL /\ valid \in 0..TTL
  /\ revoked \in BOOLEAN /\ trickled \in BOOLEAN
  /\ faults \in 0..MaxFaults
  /\ call \in [stage : {"idle", "login", "data", "document", "error"},
               tries : 0..Attempts, spent : Nat, waited : Nat,
               logins : 0..Attempts, loginSpent : Nat, flight : Nat,
               answer : {"none", "accepted", "refused"}]

\* A process that starts has no bearer.
NewClient ==
  /\ left' = 0 /\ valid' = 0
  /\ revoked' = FALSE /\ trickled' = FALSE
  /\ call' = Idle
  /\ UNCHANGED faults

ClientInit ==
  /\ left = 0 /\ valid = 0
  /\ revoked = FALSE /\ trickled = FALSE
  /\ call = Idle
  /\ faults = 0

\* Fault: the bearer is replaced when it has expired, not before.
RefreshWhenOver == left = 0

NeedsRefresh == left <= Buffer

\* One attempt of the outer envelope: a fresh token first, then the request.
\* The login of an attempt starts an envelope of its own.
Attempt(tries, spent, waited) ==
  [Idle EXCEPT !.stage = IF NeedsRefresh THEN "login" ELSE "data",
               !.tries = tries, !.spent = spent, !.waited = waited,
               !.logins = IF NeedsRefresh THEN 1 ELSE 0]

GetMarkdown ==
  /\ call.stage = "idle"
  /\ call' = Attempt(1, 0, 0)
  /\ UNCHANGED <<bearerVars, faults>>

\* Fault: only the number of attempts ends an envelope.
RetryByCount(attempts, spent) == attempts < Attempts

MayRetry(attempts, spent) == attempts < Attempts /\ spent < GiveUp

\* A transient error leaves the outer envelope only when it is exhausted.
OuterFails ==
  IF MayRetry(call.tries, call.spent)
  THEN Attempt(call.tries + 1, call.spent, call.waited)
  ELSE Returned("error")

\* A 5xx, a 429, a timeout or a network error, on either host, before the answer
\* has begun or in the middle of it.
Transient ==
  /\ call.stage \in {"login", "data"}
  /\ call' = IF call.stage = "login" /\ MayRetry(call.logins, call.loginSpent)
             THEN [call EXCEPT !.logins = @ + 1, !.flight = 0, !.answer = "none"]
             ELSE OuterFails
  /\ UNCHANGED <<bearerVars, faults>>

\* The auth host refuses the credentials, or its answer holds no bearer.
LoginRefused ==
  /\ call.stage = "login"
  /\ call' = Returned("error")
  /\ UNCHANGED <<bearerVars, faults>>

\* The bearer lives from the moment it was issued, somewhere in the flight; the
\* client counts from the moment the answer arrives.
LoginAnswered ==
  /\ call.stage = "login"
  /\ \E late \in 0..call.flight : valid' = IF late < TTL THEN TTL - late ELSE 0
  /\ left' = TTL
  /\ revoked' = FALSE
  /\ trickled' = (call.flight > Timeout)
  /\ call' = [call EXCEPT !.stage = "data", !.logins = 0, !.loginSpent = 0, !.flight = 0,
                          !.answer = "none"]
  /\ UNCHANGED faults

InFlight == call.stage \in {"login", "data"}

\* Upstream would accept the bearer of the request under way.
Honoured == valid > 0 /\ ~revoked

\* The first piece of an answer. The bearer was looked at before it was sent.
AnswerBegins ==
  /\ InFlight /\ call.answer = "none" /\ faults < MaxFaults
  /\ call' = [call EXCEPT !.answer = IF call.stage = "login" \/ Honoured
                                     THEN "accepted" ELSE "refused"]
  /\ UNCHANGED <<bearerVars, faults>>

\* The request was accepted when it arrived, however long its answer takes.
Accepted == IF call.answer = "none" THEN Honoured ELSE call.answer = "accepted"

\* A document, or an empty answer: the poll has what it needs.
DataAnswered ==
  /\ call.stage = "data" /\ Accepted
  /\ call' = Returned("document")
  /\ UNCHANGED <<bearerVars, faults>>

\* A 401 for a bearer that is not honoured. It is not dropped.
DataUnauthorized ==
  /\ call.stage = "data" /\ ~Accepted
  /\ call' = Returned("error")
  /\ UNCHANGED <<bearerVars, faults>>

\* Any other 4xx, or an answer that cannot be read.
DataRejected ==
  /\ call.stage = "data"
  /\ call' = Returned("error")
  /\ UNCHANGED <<bearerVars, faults>>

\* Upstream ends the bearer in use before its time.
Revoke ==
  /\ faults < MaxFaults /\ Honoured
  /\ revoked' = TRUE
  /\ faults' = faults + 1
  /\ UNCHANGED <<left, valid, trickled, call>>

AnswerArrives ==
  \/ Transient \/ LoginRefused \/ LoginAnswered
  \/ DataAnswered \/ DataUnauthorized \/ DataRejected

\* The answer may be later still: the timeout is not over, or the answer trickles.
AnswerOpen == IF call.answer = "none" THEN call.flight < Timeout ELSE faults < MaxFaults

Less(n) == IF n = 0 THEN 0 ELSE n - 1

ClientElapse ==
  /\ left' = Less(left) /\ valid' = Less(valid)
  /\ call' = IF ~InFlight THEN call
             ELSE [call EXCEPT !.spent = @ + 1, !.flight = @ + 1,
                               !.waited = IF call.answer = "none" THEN @ + 1 ELSE @,
                               !.loginSpent = IF call.stage = "login" THEN @ + 1 ELSE @]
  /\ faults' = IF InFlight /\ call.answer # "none" THEN faults + 1 ELSE faults
  /\ UNCHANGED <<revoked, trickled>>

----------------------------------------------------------------------------
\* A request whose answer has not begun carries a bearer upstream accepts,
\* unless it was revoked or the answer to its login trickled in: replacing it
\* Buffer early makes up for a login that waited as long as it may and for the
\* request itself (client.py _needs_refresh).
BearerHonoured ==
  call.stage = "data" /\ call.answer = "none" /\ ~revoked /\ ~trickled => Honoured

\* The retries of a login inside the retries of a request multiply, and the
\* tick waits for them with its transaction open. What a call waits for answers
\* to begin is bounded by the time after which neither envelope tries again;
\* what it waits while one keeps arriving, the code does not bound (client.py
\* _request_with_retry, httpx.Timeout).
LongestLogin == GiveUp - 1 + Timeout
LongestWaited == GiveUp - 1 + LongestLogin + Timeout
WaitBounded == call.waited <= LongestWaited
=============================================================================

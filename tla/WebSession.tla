----------------------------- MODULE WebSession -----------------------------
(***************************************************************************)
(* The session of the web app in a browser tab: the auth store             *)
(* (stores/auth.ts), the interceptors of the API client (api/client.ts),   *)
(* the cold refresh of the router (router/index.ts) and the bridge between *)
(* them (bootstrap.ts), for an administrator who may enter support view.   *)
(* Another tab shares the cookie: all this one notices are its refreshes.  *)
(*                                                                         *)
(* The page runs one callback at a time, so an action is the code from one *)
(* await to the next.  A call of an auth endpoint is four actions: the     *)
(* request, the server's answer, its arrival, and the commit, which comes  *)
(* after the answer has left (db/session.py), before or after it arrives,  *)
(* or fails.  What a commit does to the registry of tokens is a step of    *)
(* Rotation.  Of any other request only the answer's arrival matters.      *)
(***************************************************************************)
EXTENDS Rotation, Naturals

CONSTANTS
    Data,           \* requests of the views that can be open at a time
    MaxBearers,     \* bound: access and impersonation tokens minted
    MaxEvents       \* bound: sign-ins, loads, support views, expiries, losses, removals

ASSUME WebAssumption ==
    /\ Jtis \subseteq Nat /\ NoJti = 0
    /\ MaxBearers \in Nat /\ MaxEvents \in Nat
    /\ Data \cap {"cold", "login", "flight", "logout", "enter"} = {}

\* Calls to the auth endpoints: the router's cold refresh, a login, the
\* refresh of the interceptor (inFlightRefresh), a logout.
Calls == {"cold", "login", "flight", "logout"}

\* Three of them go on to fetch /v1/me (refreshPrincipal).
Openers == {"cold", "login", "flight"}

\* Requests under a bearer: those /v1/me, POST /v1/admin/impersonate, the views'.
Slots == Openers \cup {"enter"} \cup Data

VARIABLES
    issued,     \* the jtis handed out, committed or not
    open,       \* transactions of the auth endpoints: answered, not yet ended
    jar,        \* the refresh cookie of the browser
    other,      \* what another tab's refresh under way brings, NoJti when there is none
    removed,    \* the account has been removed
    bearer,     \* accessToken of the store
    kind,       \* its kind
    principal,  \* role of its principal
    support,    \* impersonationState: the administrator's bearer, if any
    captured,   \* originalAccessToken of the enterSupportView under way
    call,       \* call[c]: where it stands and the cookie it carries or brings
    slot,       \* slot[s]: where it stands, its bearer, its _retried flag
    minted,     \* bearers minted
    expired,    \* bearers 1 .. expired are past their expiry
    events,     \* events so far
    ended,      \* a cause to lose the session came up: a logout asked for, an answer or a
                \* commit lost, calls of two tabs that overlapped, a commit overtaken
    out         \* logout() has returned and no login or page load followed

registry == <<token, line, issued, open>>
server == <<registry, removed>>
store == <<bearer, kind, principal, support>>
ghosts == <<ended, out>>
clock == <<minted, expired, events>>
vars == <<server, jar, other, store, captured, call, slot, clock, ghosts>>

NoBearer == [id |-> 0, kind |-> "none"]
Bearers == [id : 1 .. MaxBearers, kind : {"access", "impersonation"}]
NoCall == [st |-> "idle", jti |-> NoJti]
NoRequest == [st |-> "idle", bearer |-> NoBearer, retried |-> FALSE]

\* A transaction: the token whose row it has locked and revoked, the one whose row
\* it has inserted.
Transactions == [old : Jtis \cup {NoJti}, new : Jtis \cup {NoJti}]

CallStates ==
    [st : {"idle", "asked", "granted", "denied", "failed", "me"}, jti : Jtis \cup {NoJti}]
RequestStates ==
    [st : {"idle", "sent", "waiting"}, bearer : Bearers \cup {NoBearer}, retried : BOOLEAN]

TypeOK ==
    /\ RTypeOK
    /\ issued \subseteq Jtis /\ open \subseteq Transactions
    /\ jar \in Jtis \cup {NoJti} /\ other \in Jtis \cup {NoJti}
    /\ removed \in BOOLEAN
    /\ bearer \in Bearers \cup {NoBearer}
    /\ kind \in {"access", "impersonation"}
    /\ principal \in {"none", "admin", "client"}
    /\ support \in Bearers \cup {NoBearer}
    /\ captured \in Bearers \cup {NoBearer}
    /\ call \in [Calls -> CallStates]
    /\ slot \in [Slots -> RequestStates]
    /\ minted \in 0 .. MaxBearers
    /\ expired \in 0 .. MaxBearers
    /\ events \in 0 .. MaxEvents
    /\ ended \in BOOLEAN /\ out \in BOOLEAN

\* A page that has just been loaded: empty memory, the cold refresh under way.
Loaded(cookie) ==
    [c \in Calls |-> IF c = "cold" THEN [st |-> "asked", jti |-> cookie] ELSE NoCall]

Init ==
    /\ RInit
    /\ issued = {} /\ open = {}
    /\ jar = NoJti /\ other = NoJti /\ removed = FALSE
    /\ bearer = NoBearer /\ kind = "access" /\ principal = "none" /\ support = NoBearer
    /\ captured = NoBearer
    /\ call = Loaded(NoJti)
    /\ slot = [s \in Slots |-> NoRequest]
    /\ minted = 0 /\ expired = 0 /\ events = 0
    /\ ended = FALSE /\ out = FALSE

-----------------------------------------------------------------------------
\* The store.

\* clear(): also the end of logout().
Cleared ==
    /\ bearer' = NoBearer /\ kind' = "access"
    /\ principal' = "none" /\ support' = NoBearer

\* The next bearer the API mints.
Minted(k) == [id |-> minted + 1, kind |-> k]
Mint == minted < MaxBearers /\ minted' = minted + 1

\* Fault: the snapshot of support view survives the new pair.
OpenedInSupport ==
    /\ Mint
    /\ bearer' = Minted("access") /\ kind' = "access"
    /\ UNCHANGED <<principal, support>>

\* login() and refresh() after their answer: principal waits for /v1/me.
Opened ==
    /\ Mint
    /\ bearer' = Minted("access") /\ kind' = "access"
    /\ support' = NoBearer
    /\ UNCHANGED principal

\* exitSupportView()
Exited ==
    IF support = NoBearer THEN UNCHANGED store
    ELSE /\ bearer' = support /\ kind' = "access"
         /\ principal' = "admin" /\ support' = NoBearer

\* enterSupportView() after its answer.
Entered ==
    /\ Mint
    /\ support' = captured
    /\ bearer' = Minted("impersonation") /\ kind' = "impersonation"
    /\ principal' = "client"

-----------------------------------------------------------------------------
\* The auth endpoints.

Spend == events < MaxEvents /\ events' = events + 1

\* A call that leaves while another tab's refresh is under way carries a cookie
\* that is worth nothing.
Overlapped == ended \/ other # NoJti

Ask(c) == [call EXCEPT ![c] = [st |-> "asked", jti |-> jar]]
Becomes(c, st, j) == call' = [call EXCEPT ![c] = [st |-> st, jti |-> j]]

\* The jtis are handed out in order: which uuid it is does not matter.
NextJti(k) == k \notin issued /\ \A i \in Jtis : i < k => i \in issued

\* RefreshTokensRepository.revoke waits for the row lock of another transaction,
\* and sees committed rows only.
Locked(j) == \E t \in open : t.old = j
Revocable(j) == token[j] = "live" /\ ~Locked(j)

\* A token some transaction has yet to commit.
Coming(j) == \E t \in open : t.new = j

\* The endpoint's statements are sent and its answer leaves.
Begin(j, k) ==
    /\ open' = open \cup {[old |-> j, new |-> k]}
    /\ issued' = issued \cup ({k} \ {NoJti})
    /\ UNCHANGED <<token, line>>

Grant(c) ==
    \/ /\ c = "login"
       /\ \E k \in Jtis : NextJti(k) /\ Begin(NoJti, k) /\ Becomes(c, "granted", k)
    \/ /\ c \in {"cold", "flight"}
       /\ \E j, k \in Jtis : /\ call[c].jti = j /\ Revocable(j) /\ NextJti(k)
                             /\ Begin(j, k) /\ Becomes(c, "granted", k)
    \/ /\ c = "logout"
       /\ \E j \in Jtis : /\ call[c].jti = j /\ Revocable(j)
                          /\ Begin(j, NoJti) /\ Becomes(c, "granted", NoJti)

\* 401: wrong credentials; no cookie, or one whose row is revoked or not yet
\* committed; the account is gone, and its tokens with it.
Deny(c) ==
    /\ \/ c = "login" \/ removed
       \/ call[c].jti = NoJti
       \/ call[c].jti # NoJti /\ token[call[c].jti] # "live"
    /\ Becomes(c, "denied", call[c].jti)
    /\ UNCHANGED registry

Serve(c) ==
    /\ call[c].st = "asked"
    /\ \/ ~removed /\ Grant(c) /\ UNCHANGED ended
       \/ Deny(c) /\ ended' = (ended \/ (c # "login" /\ Coming(call[c].jti)))
    /\ UNCHANGED <<removed, jar, other, store, captured, slot, clock, out>>

\* The session bracket of the request commits.
Commit(t) ==
    /\ \/ t.old = NoJti /\ Login(t.new)
       \/ t.new = NoJti /\ Logout(t.old)
       \/ t.old # NoJti /\ t.new # NoJti /\ Exchange(t.old, t.new)
    /\ open' = open \ {t}
    /\ UNCHANGED <<issued, removed, jar, other, store, captured, call, slot, clock, ghosts>>

\* It fails, or the process dies: rolled back, the answer has left all the same.
CommitFails(t) ==
    /\ Spend
    /\ open' = open \ {t}
    /\ ended' = TRUE
    /\ UNCHANGED <<token, line, issued, removed, jar, other, store, captured, call, slot>>
    /\ UNCHANGED <<minted, expired, out>>

\* The call or its answer is lost: the promise rejects all the same.
Lose(c) ==
    /\ call[c].st \in {"asked", "granted"}
    /\ Spend
    /\ ended' = (ended \/ call[c].st = "granted")
    /\ Becomes(c, "failed", NoJti)
    /\ UNCHANGED <<server, jar, other, store, captured, slot, minted, expired, out>>

-----------------------------------------------------------------------------
\* The requests.

\* The request interceptor: the bearer of the store when the request leaves.
Sent(b) == [st |-> "sent", bearer |-> b, retried |-> FALSE]

\* What the server refuses: an expired bearer or none; /v1/me and the mint also
\* look the account up.
Refused(s) ==
    \/ slot[s].bearer = NoBearer
    \/ slot[s].bearer.id <= expired
    \/ removed /\ s \notin Data /\ slot[s].bearer.kind = "access"

\* role of the MeResponse: an impersonation bearer names the client.
Role(b) == IF b.kind = "access" THEN "admin" ELSE "client"

\* Fault: the requests that waited for the refresh are forgotten.
SettleAlone(s) ==
    /\ call' = IF s \in Openers THEN [call EXCEPT ![s] = NoCall] ELSE call
    /\ slot' = [slot EXCEPT ![s] = NoRequest]

\* Request s is over.  The call that waited for its /v1/me is over with it, and
\* the end of the interceptor's refresh sends every request that waited again.
Settle(s) ==
    /\ call' = IF s \in Openers THEN [call EXCEPT ![s] = NoCall] ELSE call
    /\ slot' = [q \in Slots |->
                  IF q = s THEN NoRequest
                  ELSE IF s = "flight" /\ slot[q].st = "waiting"
                  THEN [slot[q] EXCEPT !.st = "sent", !.bearer = bearer']
                  ELSE slot[q]]

\* An answer of the server other than a 401.
AnswerOk(s) ==
    /\ slot[s].st = "sent" /\ ~Refused(s)
    /\ IF s = "enter" THEN Entered
       ELSE /\ principal' = IF s \in Data THEN principal ELSE Role(slot[s].bearer)
            /\ UNCHANGED <<bearer, kind, support, minted>>
    /\ Settle(s)
    /\ UNCHANGED <<server, jar, other, captured, expired, events, ghosts>>

\* A network error or another status: the promise rejects, the store stays.
AnswerFails(s) ==
    /\ slot[s].st = "sent"
    /\ Spend
    /\ UNCHANGED store
    /\ Settle(s)
    /\ UNCHANGED <<server, jar, other, captured, minted, expired, ghosts>>

\* Fault: every 401 starts a refresh of its own.
JoinNoFlight == call' = Ask("flight")

\* singleFlightRefresh(): join the refresh under way or start one.
JoinFlight == call' = IF call["flight"].st = "idle" THEN Ask("flight") ELSE call

\* The response interceptor on a 401: a retried request is rejected; under an
\* impersonation bearer support view ends; otherwise wait for a refresh.
Answer401(s) ==
    /\ slot[s].st = "sent" /\ Refused(s)
    /\ \/ /\ slot[s].retried
          /\ UNCHANGED <<store, ended>>
          /\ Settle(s)
       \/ /\ ~slot[s].retried /\ kind = "impersonation"
          /\ Exited
          /\ Settle(s)
          /\ UNCHANGED ended
       \/ /\ ~slot[s].retried /\ kind = "access"
          /\ slot' = [slot EXCEPT ![s].st = "waiting", ![s].retried = TRUE]
          /\ JoinFlight
          /\ ended' = Overlapped
          /\ UNCHANGED store
    /\ UNCHANGED <<server, jar, other, captured, clock, out>>

-----------------------------------------------------------------------------
\* Answers of the auth endpoints.

\* A new pair: the cookie with the answer, the store, then /v1/me.
OpenerGranted(c) ==
    /\ call[c].st = "granted"
    /\ jar' = call[c].jti
    /\ Opened
    /\ Becomes(c, "me", NoJti)
    /\ slot' = [slot EXCEPT ![c] = Sent(bearer')]
    /\ UNCHANGED <<server, other, captured, expired, events, ghosts>>

\* A rejected cold refresh or login leaves the store alone.
OpenerRejected(c) ==
    /\ c # "flight" /\ call[c].st \in {"denied", "failed"}
    /\ Becomes(c, "idle", NoJti)
    /\ UNCHANGED <<server, jar, other, store, captured, slot, clock, ghosts>>

\* A rejected refresh of the interceptor: onAuthFailure() and rejection of every
\* request that waited, a /v1/me among them with its call.
FlightRejected ==
    /\ call["flight"].st \in {"denied", "failed"}
    /\ Cleared
    /\ call' = [c \in Calls |->
                  IF c = "flight" \/ (c \in Openers /\ slot[c].st = "waiting") THEN NoCall
                  ELSE call[c]]
    /\ slot' = [s \in Slots |-> IF slot[s].st = "waiting" THEN NoRequest ELSE slot[s]]
    /\ UNCHANGED <<server, jar, other, captured, clock, ghosts>>

\* logout() clears the store whatever the answer; a 204 clears the cookie.
LogoutReturns ==
    /\ call["logout"].st \in {"granted", "denied", "failed"}
    /\ jar' = IF call["logout"].st = "granted" THEN NoJti ELSE jar
    /\ Cleared
    /\ Becomes("logout", "idle", NoJti)
    /\ out' = TRUE
    /\ UNCHANGED <<server, other, captured, slot, clock, ended>>

-----------------------------------------------------------------------------
\* The user and the environment.

\* Nothing is on the screen before the first navigation has ended.
Shown == call["cold"].st = "idle" /\ call["login"].st = "idle"

SignIn ==
    /\ Shown /\ bearer = NoBearer /\ call["logout"].st = "idle"
    /\ Spend
    /\ call' = Ask("login")
    /\ ended' = Overlapped
    /\ out' = FALSE
    /\ UNCHANGED <<server, jar, other, store, captured, slot, minted, expired>>

SignOut ==
    /\ Shown /\ bearer # NoBearer /\ call["logout"].st = "idle"
    /\ call' = Ask("logout")
    /\ ended' = TRUE
    /\ UNCHANGED <<server, jar, other, store, captured, slot, clock, out>>

View(d) ==
    /\ Shown /\ bearer # NoBearer
    /\ slot[d].st = "idle"
    /\ slot' = [slot EXCEPT ![d] = Sent(bearer)]
    /\ UNCHANGED <<server, jar, other, store, captured, call, clock, ghosts>>

\* enterSupportView() up to its await; supportPending disables the button.
Enter ==
    /\ Shown /\ kind = "access" /\ principal = "admin" /\ bearer # NoBearer
    /\ slot["enter"].st = "idle"
    /\ Spend
    /\ captured' = bearer
    /\ slot' = [slot EXCEPT !["enter"] = Sent(bearer)]
    /\ UNCHANGED <<server, jar, other, store, call, minted, expired, ghosts>>

Exit ==
    /\ support # NoBearer
    /\ Exited
    /\ UNCHANGED <<server, jar, other, captured, call, slot, clock, ghosts>>

\* F5: the memory is gone and with it every answer under way.
Load ==
    /\ Spend
    /\ Cleared
    /\ captured' = NoBearer
    /\ call' = Loaded(jar)
    /\ slot' = [s \in Slots |-> NoRequest]
    /\ ended' = (Overlapped \/ \E c \in Calls : call[c].st = "granted")
    /\ out' = FALSE
    /\ UNCHANGED <<server, jar, other, minted, expired>>

\* Both kinds live 15 minutes: the oldest expire first.
Expire ==
    /\ Spend
    /\ \E n \in expired + 1 .. minted : expired' = n
    /\ UNCHANGED <<server, jar, other, store, captured, call, slot, minted, ghosts>>

Remove ==
    /\ ~removed /\ removed' = TRUE
    /\ Spend
    /\ UNCHANGED <<registry, jar, other, store, captured, call, slot, minted, expired, ghosts>>

-----------------------------------------------------------------------------
\* Another tab with the same cookie. Its refresh is the server's answer and, later,
\* the arrival of the cookie; one that is refused changes nothing here.

Settled(c) == call[c].st \in {"idle", "me"}

OtherRefreshes ==
    /\ other = NoJti /\ ~removed
    /\ Spend
    /\ jar \in Jtis /\ Revocable(jar)
    /\ \E k \in Jtis : NextJti(k) /\ Begin(jar, k) /\ other' = k
    /\ ended' = (ended \/ \E c \in Calls : ~Settled(c))
    /\ UNCHANGED <<removed, jar, store, captured, call, slot, minted, expired, out>>

OtherAnswered ==
    /\ other # NoJti
    /\ jar' = other /\ other' = NoJti
    /\ UNCHANGED <<server, store, captured, call, slot, clock, ghosts>>

OtherLost ==
    /\ other # NoJti
    /\ Spend
    /\ other' = NoJti
    /\ ended' = TRUE
    /\ UNCHANGED <<server, jar, store, captured, call, slot, minted, expired, out>>

Next ==
    \/ \E t \in open : Commit(t) \/ CommitFails(t)
    \/ OtherRefreshes \/ OtherAnswered \/ OtherLost
    \/ \E c \in Calls : Serve(c) \/ Lose(c)
    \/ \E c \in Openers : OpenerGranted(c) \/ OpenerRejected(c)
    \/ FlightRejected \/ LogoutReturns
    \/ \E s \in Slots : AnswerOk(s) \/ Answer401(s) \/ AnswerFails(s)
    \/ SignIn \/ SignOut \/ Enter \/ Exit \/ Load \/ Expire \/ Remove
    \/ \E d \in Data : View(d)

Spec == Init /\ [][Next]_vars

Answered(s) == AnswerOk(s) \/ Answer401(s)

\* What the server and the callbacks of the auth endpoints do.
CallStep ==
    \/ \E t \in open : Commit(t)
    \/ \E c \in Calls : Serve(c)
    \/ \E c \in Openers : OpenerGranted(c) \/ OpenerRejected(c) \/ Answered(c)
    \/ FlightRejected \/ LogoutReturns

\* Every request is answered or fails in the end and its callback runs; the calls
\* make progress, transactions end.
Fairness ==
    /\ WF_vars(CallStep)
    /\ \A s \in Slots \ Openers : WF_vars(Answered(s))

FairSpec == Spec /\ Fairness

-----------------------------------------------------------------------------
\* The bearer, its kind and the snapshot always tell the same story: in support
\* view there is an administrator's bearer to go back to, and only there
\* (stores/auth.ts).
StoreConsistent ==
    /\ bearer # NoBearer => bearer.kind = kind
    /\ bearer = NoBearer => kind = "access"
    /\ kind = "impersonation" <=> support # NoBearer
    /\ support # NoBearer => support.kind = "access"

\* A tab never loses its session by its own doing: a refresh is refused only after
\* a logout, a lost answer or commit, the removal of the account, a refresh of
\* another tab at the same time as a call of this one, or because it came before
\* the commit of the answer that brought its cookie (api/client.ts single-flight,
\* router/index.ts, db/session.py). Neither a commit that is late nor a tab that
\* waits for the other's cookie is a cause.
SessionKept ==
    \A c \in {"cold", "flight"} :
       call[c].st = "denied" /\ (c = "cold" => call[c].jti # NoJti) => ended \/ removed

\* The /v1/me of a refresh waits for that same refresh.
SelfWait == slot["flight"].st = "waiting"

\* Every request of a view is answered or rejected, unless the refresh it waits
\* for waits for itself (api/client.ts).
RequestsSettle == \A d \in Data : slot[d].st # "idle" ~> (slot[d].st = "idle" \/ SelfWait)

\* docs/api/auth.md, POST /v1/auth/logout: the SPA "discards the access token at
\* logout and falls back to login next time".
LogoutFinal == out => bearer = NoBearer

\* api/client.ts: "an impersonation bearer's 401 must NEVER trigger
\* /v1/auth/refresh".
ImpersonationNeverRefreshes ==
    [][\A s \in Slots : slot[s].bearer.kind = "impersonation" /\ slot[s].st = "sent"
                           => slot'[s].st # "waiting"]_vars

\* stores/auth.ts refreshPrincipal: a failing /v1/me returns null and the "caller
\* decides what to render": the refresh it belongs to ends.
RefreshEnds == call["flight"].st # "idle" ~> call["flight"].st = "idle"
=============================================================================

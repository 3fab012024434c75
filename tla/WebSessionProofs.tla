-------------------------- MODULE WebSessionProofs --------------------------
(***************************************************************************)
(* Theorems about WebSession, for any number of open requests, tokens,     *)
(* bearers and events: types, the consistency of the store, and that a tab *)
(* keeps its session beside another tab with the same cookie.              *)
(***************************************************************************)
EXTENDS WebSession, TLAPS

-----------------------------------------------------------------------------
\* Types.

LEMMA NoneTyped ==
    /\ NoCall \in CallStates
    /\ NoRequest \in RequestStates
  BY DEF NoCall, CallStates, NoRequest, RequestStates

LEMMA AskedTyped ==
    ASSUME TypeOK, NEW c \in Calls
    PROVE  Ask(c) \in [Calls -> CallStates] /\ Loaded(jar) \in [Calls -> CallStates]
  BY NoneTyped DEF TypeOK, Ask, Loaded, CallStates

LEMMA InitTypeOK == Init => TypeOK
<1> SUFFICES ASSUME Init PROVE TypeOK
  OBVIOUS
<1>1. RTypeOK
  BY DEF Init, RInit, RTypeOK
<1>2. call \in [Calls -> CallStates] /\ slot \in [Slots -> RequestStates]
  BY NoneTyped DEF Init, Loaded, CallStates
<1>3. /\ minted \in 0 .. MaxBearers /\ expired \in 0 .. MaxBearers /\ events \in 0 .. MaxEvents
  BY WebAssumption DEF Init
<1> QED
  BY <1>1, <1>2, <1>3 DEF Init, TypeOK

LEMMA SpendTyped ==
    ASSUME TypeOK, Spend
    PROVE  events' \in 0 .. MaxEvents
  BY WebAssumption DEF TypeOK, Spend

\* A request that leaves under the bearer of the store.
LEMMA SentTyped ==
    ASSUME NEW b \in Bearers \cup {NoBearer}
    PROVE  Sent(b) \in RequestStates
  BY DEF Sent, RequestStates

\* A minted bearer is one of Bearers.
LEMMA MintTyped ==
    ASSUME TypeOK, Mint, NEW k \in {"access", "impersonation"}
    PROVE  Minted(k) \in Bearers /\ minted' \in 0 .. MaxBearers
  BY WebAssumption DEF TypeOK, Mint, Minted, Bearers

LEMMA SettleTyped ==
    ASSUME TypeOK, NEW s \in Slots, Settle(s), bearer' \in Bearers \cup {NoBearer}
    PROVE  /\ call' \in [Calls -> CallStates]
           /\ slot' \in [Slots -> RequestStates]
<1>1. call' \in [Calls -> CallStates]
  BY NoneTyped DEF TypeOK, Settle, Openers, Calls
<1>2. ASSUME NEW q \in Slots
      PROVE  [slot[q] EXCEPT !.st = "sent", !.bearer = bearer'] \in RequestStates
  BY DEF TypeOK, RequestStates
<1>3. \A q \in Slots : slot[q] \in RequestStates
  BY DEF TypeOK
<1>4. slot' \in [Slots -> RequestStates]
  BY <1>2, <1>3, NoneTyped DEF Settle
<1> QED
  BY <1>1, <1>4

\* The next tokens and transactions are ones.
LEMMA BeginTyped ==
    ASSUME TypeOK, NEW j \in Jtis \cup {NoJti}, NEW k \in Jtis \cup {NoJti}, Begin(j, k)
    PROVE  RTypeOK' /\ issued' \subseteq Jtis /\ open' \subseteq Transactions
  BY DEF TypeOK, RTypeOK, Begin, Transactions

LEMMA NextTypeOK == TypeOK /\ [Next]_vars => TypeOK'
<1> SUFFICES ASSUME TypeOK, [Next]_vars PROVE TypeOK'
  OBVIOUS
<1> USE WebAssumption
<1>1. CASE UNCHANGED vars
  BY <1>1 DEF vars, server, registry, store, clock, ghosts, TypeOK, RTypeOK
<1>2. ASSUME NEW c \in Calls, Serve(c) PROVE TypeOK'
  <2>1. RTypeOK' /\ issued' \subseteq Jtis /\ open' \subseteq Transactions
    <3>1. CASE Grant(c)
      BY <3>1, BeginTyped DEF Grant
    <3>2. CASE Deny(c)
      BY <3>2 DEF Deny, registry, TypeOK, RTypeOK
    <3> QED
      BY <1>2, <3>1, <3>2 DEF Serve
  <2>2. call' \in [Calls -> CallStates]
    BY <1>2 DEF Serve, Grant, Deny, Becomes, TypeOK, CallStates
  <2>3. ended' \in BOOLEAN
    BY <1>2 DEF Serve, TypeOK
  <2> QED
    BY <1>2, <2>1, <2>2, <2>3 DEF Serve, TypeOK, store, clock
<1>3. ASSUME NEW c \in Calls, Lose(c) PROVE TypeOK'
  <2>1. call' \in [Calls -> CallStates]
    BY <1>3 DEF Lose, Becomes, TypeOK, CallStates
  <2> QED
    BY <1>3, <2>1, SpendTyped DEF Lose, TypeOK, RTypeOK, server, registry, store
<1>4. ASSUME NEW c \in Openers, OpenerGranted(c) PROVE TypeOK'
  <2>1. Mint /\ bearer' = Minted("access") /\ bearer' \in Bearers /\ minted' \in 0 .. MaxBearers
    BY <1>4, MintTyped DEF OpenerGranted, Opened
  <2>2. slot' \in [Slots -> RequestStates]
    BY <1>4, <2>1, SentTyped DEF OpenerGranted, TypeOK
  <2>3. jar' \in Jtis \cup {NoJti} /\ c \in Calls
    BY <1>4 DEF OpenerGranted, TypeOK, Openers, Calls, CallStates
  <2>4. call' \in [Calls -> CallStates]
    BY <1>4 DEF OpenerGranted, Becomes, TypeOK, CallStates
  <2> QED
    BY <1>4, <2>1, <2>2, <2>3, <2>4 DEF OpenerGranted, Opened, TypeOK, RTypeOK, server, registry, ghosts
<1>5. ASSUME NEW c \in Openers, OpenerRejected(c) PROVE TypeOK'
  <2>1. call' \in [Calls -> CallStates]
    BY <1>5 DEF OpenerRejected, Becomes, TypeOK, CallStates
  <2> QED
    BY <1>5, <2>1 DEF OpenerRejected, TypeOK, RTypeOK, server, registry, store, clock, ghosts
<1>6. CASE FlightRejected
  <2>1. call' \in [Calls -> CallStates]
    BY <1>6, NoneTyped DEF FlightRejected, TypeOK
  <2>2. slot' \in [Slots -> RequestStates]
    BY <1>6, NoneTyped DEF FlightRejected, TypeOK
  <2> QED
    BY <1>6, <2>1, <2>2 DEF FlightRejected, Cleared, TypeOK, RTypeOK, server, registry, clock, ghosts
<1>7. CASE LogoutReturns
  <2>1. call' \in [Calls -> CallStates]
    BY <1>7 DEF LogoutReturns, Becomes, TypeOK, CallStates
  <2> QED
    BY <1>7, <2>1 DEF LogoutReturns, Cleared, TypeOK, RTypeOK, server, registry, clock
<1>8. ASSUME NEW s \in Slots, AnswerOk(s) PROVE TypeOK'
  <2>1. /\ bearer' \in Bearers \cup {NoBearer} /\ kind' \in {"access", "impersonation"}
        /\ principal' \in {"none", "admin", "client"}
        /\ support' \in Bearers \cup {NoBearer} /\ minted' \in 0 .. MaxBearers
    <3>1. CASE s = "enter"
      BY <1>8, <3>1, MintTyped DEF AnswerOk, Entered, TypeOK
    <3>2. CASE s # "enter"
      BY <1>8, <3>2 DEF AnswerOk, Role, TypeOK
    <3> QED
      BY <3>1, <3>2
  <2> QED
    BY <1>8, <2>1, SettleTyped DEF AnswerOk, TypeOK, RTypeOK, server, registry, ghosts
<1>9. ASSUME NEW s \in Slots, AnswerFails(s) PROVE TypeOK'
  BY <1>9, SettleTyped, SpendTyped DEF AnswerFails, TypeOK, RTypeOK, server, registry, store, ghosts
<1>10. ASSUME NEW s \in Slots, Answer401(s) PROVE TypeOK'
  <2>1. /\ bearer' \in Bearers \cup {NoBearer} /\ kind' \in {"access", "impersonation"}
        /\ principal' \in {"none", "admin", "client"} /\ support' \in Bearers \cup {NoBearer}
    BY <1>10 DEF Answer401, Exited, store, TypeOK
  <2>2. /\ call' \in [Calls -> CallStates]
        /\ slot' \in [Slots -> RequestStates]
    <3>1. CASE Settle(s)
      BY <2>1, <3>1, SettleTyped
    <3>2. CASE JoinFlight /\ slot' = [slot EXCEPT ![s].st = "waiting", ![s].retried = TRUE]
      <4>1. call' \in [Calls -> CallStates]
        BY <3>2, AskedTyped DEF JoinFlight, TypeOK, Calls
      <4>2. slot' \in [Slots -> RequestStates]
        <5>1. [slot[s] EXCEPT !.st = "waiting", !.retried = TRUE] \in RequestStates
          BY DEF TypeOK, RequestStates
        <5>2. slot' = [slot EXCEPT ![s] = [slot[s] EXCEPT !.st = "waiting", !.retried = TRUE]]
          BY <3>2
        <5> QED
          BY <5>1, <5>2 DEF TypeOK
      <4> QED
        BY <4>1, <4>2
    <3> QED
      BY <1>10, <3>1, <3>2 DEF Answer401
  <2> QED
    BY <1>10, <2>1, <2>2 DEF Answer401, Overlapped, TypeOK, RTypeOK, server, registry, clock
<1>11. CASE SignIn \/ SignOut
  <2>1. call' \in [Calls -> CallStates]
    BY <1>11, AskedTyped DEF SignIn, SignOut, Calls
  <2>2. events' \in 0 .. MaxEvents
    BY <1>11, SpendTyped DEF SignIn, SignOut, TypeOK, clock
  <2> QED
    BY <1>11, <2>1, <2>2 DEF SignIn, SignOut, Overlapped, TypeOK, RTypeOK, server, registry, store, clock, ghosts
<1>12. ASSUME NEW d \in Data, View(d) PROVE TypeOK'
  <2>1. slot' \in [Slots -> RequestStates]
    BY <1>12, SentTyped DEF View, TypeOK
  <2> QED
    BY <1>12, <2>1 DEF View, TypeOK, RTypeOK, server, registry, store, clock, ghosts
<1>13. CASE Enter
  <2>1. slot' \in [Slots -> RequestStates]
    BY <1>13, SentTyped DEF Enter, TypeOK
  <2> QED
    BY <1>13, <2>1, SpendTyped DEF Enter, TypeOK, RTypeOK, server, registry, store, ghosts
<1>14. CASE Exit
  BY <1>14 DEF Exit, Exited, TypeOK, RTypeOK, server, registry, clock, ghosts
<1>15. CASE Load
  <2>1. call' \in [Calls -> CallStates] /\ slot' \in [Slots -> RequestStates]
    BY <1>15, AskedTyped, NoneTyped DEF Load, Calls
  <2>2. ended' \in BOOLEAN
    BY <1>15 DEF Load, Overlapped, TypeOK
  <2> QED
    BY <1>15, <2>1, <2>2, SpendTyped DEF Load, Cleared, TypeOK, RTypeOK, server, registry
<1>16. CASE Expire
  <2>1. expired' \in 0 .. MaxBearers
    BY <1>16 DEF Expire, TypeOK
  <2> QED
    BY <1>16, <2>1, SpendTyped DEF Expire, TypeOK, RTypeOK, server, registry, store, ghosts
<1>17. CASE Remove
  BY <1>17, SpendTyped DEF Remove, TypeOK, RTypeOK, registry, store, ghosts
<1>18. CASE OtherRefreshes
  <2>1. /\ RTypeOK' /\ issued' \subseteq Jtis /\ open' \subseteq Transactions
        /\ other' \in Jtis
    BY <1>18, BeginTyped DEF OtherRefreshes
  <2>2. ended' \in BOOLEAN
    BY <1>18 DEF OtherRefreshes, TypeOK
  <2> QED
    BY <1>18, <2>1, <2>2, SpendTyped DEF OtherRefreshes, TypeOK, store
<1>19. CASE OtherAnswered \/ OtherLost
  <2>1. events' \in 0 .. MaxEvents
    BY <1>19, SpendTyped DEF OtherAnswered, OtherLost, TypeOK, clock
  <2> QED
    BY <1>19, <2>1 DEF OtherAnswered, OtherLost, TypeOK, RTypeOK, server, registry, store, clock, ghosts
<1>20. ASSUME NEW t \in open, Commit(t) PROVE TypeOK'
  <2>1. RTypeOK'
    BY <1>20 DEF Commit, Login, Exchange, Logout, TypeOK, RTypeOK, Transactions
  <2> QED
    BY <1>20, <2>1 DEF Commit, TypeOK, store, clock, ghosts
<1>21. ASSUME NEW t \in open, CommitFails(t) PROVE TypeOK'
  BY <1>21, SpendTyped DEF CommitFails, TypeOK, RTypeOK, store
<1> QED
  BY <1>1, <1>2, <1>3, <1>4, <1>5, <1>6, <1>7, <1>8, <1>9, <1>10, <1>11, <1>12, <1>13,
     <1>14, <1>15, <1>16, <1>17, <1>18, <1>19, <1>20, <1>21 DEF Next

\* Every variable keeps its type (stores/auth.ts, api/client.ts).
THEOREM WebTypeCorrect == Spec => []TypeOK
<1> QED
  BY InitTypeOK, NextTypeOK, PTL DEF Spec

-----------------------------------------------------------------------------
\* The store.

\* The bearer kept for the way back is an administrator's already while the
\* server mints the impersonation token.
StoreInv ==
    /\ TypeOK
    /\ StoreConsistent
    /\ slot["enter"].st # "idle" => captured.kind = "access"

LEMMA InitStoreInv == Init => StoreInv
  BY InitTypeOK DEF Init, StoreInv, StoreConsistent, NoRequest, Slots

\* No bearer has no kind.
LEMMA KindOfBearer ==
    /\ NoBearer.kind = "none"
    /\ \A b \in Bearers : b # NoBearer
  BY DEF NoBearer, Bearers

\* A request that is over, or sent again, is not a new one.
LEMMA SettleStarts ==
    ASSUME TypeOK, NEW s \in Slots, Settle(s), NEW q \in Slots, slot'[q].st # "idle"
    PROVE  slot[q].st # "idle"
  BY DEF TypeOK, Settle, NoRequest, RequestStates

LEMMA NextStoreInv == StoreInv /\ [Next]_vars => StoreInv'
<1> SUFFICES ASSUME StoreInv, [Next]_vars PROVE StoreInv'
  OBVIOUS
<1>1. TypeOK /\ TypeOK' /\ "enter" \in Slots
  BY NextTypeOK DEF StoreInv, Slots
<1> SUFFICES StoreConsistent' /\ (slot'["enter"].st # "idle" => captured'.kind = "access")
  BY <1>1 DEF StoreInv
<1> USE DEF StoreInv, StoreConsistent
<1>2. CASE UNCHANGED <<store, captured, slot>>
  BY <1>2 DEF store
<1>3. ASSUME NEW c \in Openers, OpenerGranted(c)
      PROVE  StoreConsistent' /\ (slot'["enter"].st # "idle" => captured'.kind = "access")
  <2>1. "enter" # c
    BY DEF Openers
  <2> QED
    BY <1>1, <1>3, <2>1 DEF OpenerGranted, Opened, Minted, TypeOK
<1>4. CASE FlightRejected \/ LogoutReturns \/ Load
  BY <1>1, <1>4 DEF FlightRejected, LogoutReturns, Load, Cleared, NoRequest, TypeOK
<1>5. ASSUME NEW s \in Slots, AnswerOk(s)
      PROVE  StoreConsistent' /\ (slot'["enter"].st # "idle" => captured'.kind = "access")
  <2>1. slot'["enter"].st # "idle" => captured'.kind = "access"
    BY <1>1, <1>5, SettleStarts DEF AnswerOk
  <2>2. CASE s = "enter"
    BY <1>1, <1>5, <2>2, KindOfBearer DEF AnswerOk, Entered, Minted, NoBearer
  <2>3. CASE s # "enter"
    BY <1>5, <2>1, <2>3 DEF AnswerOk
  <2> QED
    BY <2>1, <2>2, <2>3
<1>6. ASSUME NEW s \in Slots, AnswerFails(s)
      PROVE  StoreConsistent' /\ (slot'["enter"].st # "idle" => captured'.kind = "access")
  BY <1>1, <1>6, SettleStarts DEF AnswerFails, store
<1>7. ASSUME NEW s \in Slots, Answer401(s)
      PROVE  StoreConsistent' /\ (slot'["enter"].st # "idle" => captured'.kind = "access")
  <2>1. slot'["enter"].st # "idle" => captured'.kind = "access"
    <3>1. CASE Settle(s)
      BY <1>1, <1>7, <3>1, SettleStarts DEF Answer401
    <3>2. CASE slot' = [slot EXCEPT ![s].st = "waiting", ![s].retried = TRUE]
      BY <1>1, <1>7, <3>2 DEF Answer401, TypeOK, RequestStates
    <3> QED
      BY <1>7, <3>1, <3>2 DEF Answer401
  <2>2. UNCHANGED store \/ Exited
    BY <1>7 DEF Answer401
  <2> QED
    BY <2>1, <2>2 DEF store, Exited
<1>8. ASSUME NEW d \in Data, View(d)
      PROVE  StoreConsistent' /\ (slot'["enter"].st # "idle" => captured'.kind = "access")
  <2>1. d # "enter"
    BY WebAssumption
  <2> QED
    BY <1>1, <1>8, <2>1 DEF View, store, TypeOK
<1>9. CASE Enter
  BY <1>9 DEF Enter, store
<1>10. CASE Exit
  BY <1>10 DEF Exit, Exited
<1>11. ASSUME NEW c \in Calls, Serve(c) \/ Lose(c) PROVE UNCHANGED <<store, captured, slot>>
  BY <1>11 DEF Serve, Lose
<1>12. ASSUME NEW c \in Openers, OpenerRejected(c) PROVE UNCHANGED <<store, captured, slot>>
  BY <1>12 DEF OpenerRejected
<1>13. CASE SignIn \/ SignOut \/ Expire \/ Remove
  BY <1>2, <1>13 DEF SignIn, SignOut, Expire, Remove
<1>15. CASE OtherRefreshes \/ OtherAnswered \/ OtherLost
  BY <1>2, <1>15 DEF OtherRefreshes, OtherAnswered, OtherLost
<1>16. ASSUME NEW t \in open, Commit(t) \/ CommitFails(t) PROVE UNCHANGED <<store, captured, slot>>
  BY <1>16 DEF Commit, CommitFails
<1>14. CASE UNCHANGED vars
  BY <1>2, <1>14 DEF vars
<1> QED
  BY <1>2, <1>3, <1>4, <1>5, <1>6, <1>7, <1>8, <1>9, <1>10, <1>11, <1>12, <1>13, <1>14,
     <1>15, <1>16 DEF Next

LEMMA StoreInvHolds == Spec => []StoreInv
<1> QED
  BY InitStoreInv, NextStoreInv, PTL DEF Spec

\* The bearer, its kind and the snapshot always agree (stores/auth.ts), whatever
\* answers arrive in whatever order.
THEOREM StoreStaysConsistent == Spec => []StoreConsistent
<1>1. StoreInv => StoreConsistent
  BY DEF StoreInv
<1> QED
  BY <1>1, StoreInvHolds, PTL

-----------------------------------------------------------------------------
\* The session.

\* During the cold refresh nothing else is under way.
ColdAlone ==
    call["cold"].st \notin {"idle", "me"} =>
       /\ call["flight"].st = "idle" /\ call["login"].st = "idle"
       /\ \A s \in Slots : slot[s].st = "idle"

\* A call fetches /v1/me only after its answer.
MeAfterAnswer == \A c \in Openers : slot[c].st # "idle" => call[c].st = "me"

\* The tokens that can be exchanged, now or once the transaction that brings them
\* has committed.
Worthy == {j \in Jtis : /\ token[j] = "live" \/ \E t \in open : t.new = j
                        /\ \A t \in open : t.old # j}

\* What the tab, the other tab and the transactions refer to has been handed out.
Referred ==
    /\ jar \in issued \cup {NoJti} /\ other \in issued \cup {NoJti}
    /\ \A c \in Calls : call[c].jti \in issued \cup {NoJti}
    /\ \A t \in open : t.old \in issued \cup {NoJti} /\ t.new \in issued \cup {NoJti}

\* The cookie can be exchanged, or a refresh has just done so, here or in the
\* other tab.
CookieLive ==
    jar # NoJti => \/ jar \in Worthy \/ other # NoJti
                   \/ \E c \in {"cold", "flight"} : call[c].st = "granted"

\* While the other tab refreshes, this one asks for nothing; what it will find in
\* the cookie can be exchanged.
OtherAlone ==
    other # NoJti => /\ other \in Worthy /\ jar # NoJti
                     /\ \A c \in Calls : Settled(c)

\* A refresh that the server has not seen carries a token it will exchange.
AskedLive ==
    /\ \A c \in {"cold", "flight"} :
          call[c].st = "asked" /\ call[c].jti # NoJti => call[c].jti \in Worthy
    /\ call["flight"].st = "asked" => call["flight"].jti # NoJti

\* An answer under way brings a token that can be exchanged and that nothing else
\* refers to.
GrantedLive ==
    \A c \in Openers : call[c].st = "granted" =>
       /\ call[c].jti \in Worthy
       /\ call[c].jti # jar
       /\ \A d \in Openers \ {c} :
             call[d].st = "granted" \/ (call[d].st = "asked" /\ d # "login") =>
                call[d].jti # call[c].jti

NoneDenied ==
    \A c \in {"cold", "flight"} :
       call[c].st = "denied" => c = "cold" /\ call[c].jti = NoJti

\* Without a cookie there is no bearer and no request.
CookieFirst ==
    jar = NoJti => bearer = NoBearer /\ \A s \in Slots : slot[s].st = "idle"

SessionInv ==
    /\ ColdAlone /\ MeAfterAnswer
    /\ call["logout"].st # "idle" => ended
    /\ ~ended /\ ~removed =>
          CookieLive /\ OtherAlone /\ AskedLive /\ GrantedLive /\ NoneDenied /\ CookieFirst

LEMMA InitSessionInv == Init => SessionInv
  BY DEF Init, Loaded, NoCall, NoRequest, SessionInv, ColdAlone, MeAfterAnswer, CookieLive,
         OtherAlone, AskedLive, GrantedLive, NoneDenied, CookieFirst, Openers, Calls, Slots

\* What a transaction does to the tokens that can be exchanged.
LEMMA WorthyKept == ASSUME UNCHANGED registry PROVE Worthy' = Worthy
  BY DEF registry, Worthy

LEMMA BeginWorthy ==
    ASSUME TypeOK, Referred, NEW j \in issued \cup {NoJti}, NEW k \in Jtis \ issued, Begin(j, k)
    PROVE  /\ k \in Worthy' /\ \A i \in Worthy : i # j => i \in Worthy'
           /\ issued \subseteq issued'
<1>1. \A t \in open' : t \in open \/ (t.old = j /\ t.new = k)
  BY DEF Begin
<1>2. open \subseteq open' /\ [old |-> j, new |-> k] \in open' /\ token' = token
  BY DEF Begin
<1>3. \A t \in open : t.old # k
  BY JtiAssumption DEF Referred
<1>4. k # j
  BY JtiAssumption
<1>5. \E t \in open' : t.new = k
  BY <1>2
<1>6. k \in Worthy'
  BY <1>1, <1>3, <1>4, <1>5 DEF Worthy
<1>7. ASSUME NEW i \in Worthy, i # j PROVE i \in Worthy'
  <2>1. i \in Jtis /\ \A t \in open' : t.old # i
    BY <1>1, <1>7 DEF Worthy
  <2>2. token'[i] = "live" \/ \E t \in open' : t.new = i
    BY <1>2, <1>7 DEF Worthy
  <2> QED
    BY <2>1, <2>2 DEF Worthy
<1> QED
  BY <1>6, <1>7 DEF Begin

LEMMA CommitWorthy ==
    ASSUME TypeOK, NEW t \in open, Commit(t)
    PROVE  Worthy \subseteq Worthy'
<1> SUFFICES ASSUME NEW j \in Jtis, j \in Worthy PROVE j \in Worthy'
  BY DEF Worthy
<1>1. \A u \in open' : u \in open
  BY DEF Commit
<1>2. t.old # j /\ j # NoJti
  BY JtiAssumption DEF Worthy
<1>3. CASE t.new = j
  <2>1. token'[j] = "live"
    BY <1>2, <1>3 DEF Commit, Login, Exchange, TypeOK, RTypeOK
  <2> QED
    BY <1>1, <2>1 DEF Worthy
<1>4. CASE t.new # j
  <2>1. token'[j] = token[j]
    BY <1>2, <1>4 DEF Commit, Login, Exchange, Logout, TypeOK, RTypeOK
  <2>2. \A u \in open : u.new = j => u \in open'
    BY <1>4 DEF Commit
  <2> QED
    BY <1>1, <2>1, <2>2 DEF Worthy
<1> QED
  BY <1>3, <1>4

\* A newly granted token is not yet referred to by anything.
LEMMA NewGrantedLive ==
    ASSUME TypeOK, GrantedLive, Referred, jar' = jar,
           NEW c \in Openers, call[c].st = "asked",
           NEW k \in Jtis \ issued, k \in Worthy',
           call'[c] = [st |-> "granted", jti |-> k],
           \A d \in Calls \ {c} : call'[d] = call[d],
           \A i \in Worthy : (c # "login" => i # call[c].jti) => i \in Worthy'
    PROVE  GrantedLive'
<1> USE JtiAssumption
<1>1. Openers \subseteq Calls
  BY DEF Openers, Calls
<1>2. ASSUME NEW e \in Openers, call'[e].st = "granted", e = c
      PROVE  /\ call'[e].jti \in Worthy' /\ call'[e].jti # jar'
             /\ \A d \in Openers \ {e} :
                   call'[d].st = "granted" \/ (call'[d].st = "asked" /\ d # "login") =>
                      call'[d].jti # call'[e].jti
  <2>1. call'[e].jti = k /\ jar # k
    BY <1>2 DEF Referred
  <2>2. \A d \in Openers \ {e} : call'[d].jti # k
    BY <1>1, <1>2 DEF Referred
  <2> QED
    BY <2>1, <2>2
<1>3. ASSUME NEW e \in Openers, call'[e].st = "granted", e # c
      PROVE  /\ call'[e].jti \in Worthy' /\ call'[e].jti # jar'
             /\ \A d \in Openers \ {e} :
                   call'[d].st = "granted" \/ (call'[d].st = "asked" /\ d # "login") =>
                      call'[d].jti # call'[e].jti
  <2>1. call'[e] = call[e]
    BY <1>1, <1>3
  <2>2. /\ call[e].jti \in Worthy /\ call[e].jti # jar
        /\ c # "login" => call[e].jti # call[c].jti
    BY <1>3, <2>1 DEF GrantedLive
  <2>3. ASSUME NEW d \in Openers \ {e},
               call'[d].st = "granted" \/ (call'[d].st = "asked" /\ d # "login")
        PROVE  call'[d].jti # call[e].jti
    <3>1. CASE d = c
      BY <1>1, <3>1 DEF Referred
    <3>2. CASE d # c
      BY <1>1, <1>3, <2>1, <2>3, <3>2 DEF GrantedLive
    <3> QED
      BY <3>1, <3>2
  <2> QED
    BY <2>1, <2>2, <2>3
<1> QED
  BY <1>2, <1>3 DEF GrantedLive

\* The answer of the server to a call.
LEMMA ServeKeeps ==
    ASSUME TypeOK, Referred, SessionInv, NEW c \in Calls, Serve(c)
    PROVE  SessionInv'
<1> USE WebAssumption
<1>1. /\ call[c].st = "asked" /\ call'[c].st \in {"granted", "denied"}
      /\ \A d \in Calls \ {c} : call'[d] = call[d]
      /\ UNCHANGED <<jar, other, slot, bearer, removed>>
  BY DEF Serve, Grant, Deny, Becomes, TypeOK, store
<1>5. ended => ended'
  <2>1. CASE ended' = (ended \/ (c # "login" /\ Coming(call[c].jti)))
    BY Zenon, <2>1
  <2> QED
    BY <2>1 DEF Serve
<1>2. ColdAlone' /\ MeAfterAnswer' /\ (call'["logout"].st # "idle" => ended')
  BY <1>1, <1>5 DEF SessionInv, ColdAlone, MeAfterAnswer, Calls, Openers
<1>4. ASSUME ~ended', ~removed
      PROVE  /\ CookieLive' /\ OtherAlone' /\ AskedLive' /\ GrantedLive'
             /\ NoneDenied' /\ CookieFirst'
  <2>1. /\ CookieLive /\ AskedLive /\ GrantedLive /\ NoneDenied /\ CookieFirst
        /\ c # "logout" /\ other = NoJti
    BY <1>1, <1>4, <1>5 DEF SessionInv, OtherAlone, Settled
  <2>6. OtherAlone'
    BY <1>1, <2>1 DEF OtherAlone
  <2>2. CookieFirst'
    BY <1>1, <2>1 DEF CookieFirst
  <2>3. CASE Deny(c) /\ ended' = (ended \/ (c # "login" /\ Coming(call[c].jti)))
    <3>0. c # "login" => ~Coming(call[c].jti)
      BY Zenon, <1>4, <2>3
    <3>1. c = "login" \/ (c = "cold" /\ call[c].jti = NoJti)
      <4>1. CASE c \in {"cold", "flight"} /\ call[c].jti # NoJti
        BY <1>1, <1>4, <2>1, <2>3, <3>0, <4>1 DEF Deny, AskedLive, Worthy, Coming
      <4> QED
        BY <1>1, <2>1, <4>1 DEF AskedLive, Calls
    <3>2. call'[c] = [st |-> "denied", jti |-> call[c].jti] /\ Worthy' = Worthy
      BY <2>3 DEF Deny, Becomes, TypeOK, registry, Worthy
    <3> QED
      BY <1>1, <2>1, <2>2, <2>6, <3>1, <3>2
         DEF CookieLive, AskedLive, GrantedLive, NoneDenied, Calls, Openers
  <2>4. CASE \E k \in Jtis : c = "login" /\ NextJti(k) /\ Begin(NoJti, k) /\ Becomes(c, "granted", k)
    <3>1. PICK k \in Jtis \ issued : c = "login" /\ Begin(NoJti, k) /\ Becomes(c, "granted", k)
      BY <2>4 DEF NextJti
    <3>2. call'[c] = [st |-> "granted", jti |-> k]
      BY <3>1 DEF Becomes, TypeOK
    <3>3. k \in Worthy' /\ Worthy \subseteq Worthy'
      <4>1. NoJti \notin Worthy
        BY JtiAssumption DEF Worthy
      <4> QED
        BY <3>1, <4>1, BeginWorthy
    <3>4. CookieLive'
      BY <1>1, <2>1, <3>1, <3>3 DEF CookieLive, Calls
    <3>5. AskedLive'
      BY <1>1, <2>1, <3>1, <3>3 DEF AskedLive, Calls
    <3>6. GrantedLive'
      BY <1>1, <2>1, <3>1, <3>2, <3>3, NewGrantedLive DEF Openers
    <3>7. NoneDenied'
      BY <1>1, <2>1, <3>1 DEF NoneDenied, Calls
    <3> QED
      BY <2>2, <2>6, <3>4, <3>5, <3>6, <3>7
  <2>5. CASE \E j, k \in Jtis : /\ c \in {"cold", "flight"} /\ call[c].jti = j
                                /\ Revocable(j) /\ NextJti(k) /\ Begin(j, k)
                                /\ Becomes(c, "granted", k)
    <3>1. PICK j \in Jtis, k \in Jtis \ issued :
             /\ c \in {"cold", "flight"} /\ call[c].jti = j
             /\ Begin(j, k) /\ Becomes(c, "granted", k)
      BY <2>5 DEF NextJti
    <3>2. call'[c] = [st |-> "granted", jti |-> k]
      BY <3>1 DEF Becomes, TypeOK
    <3>3. k \in Worthy' /\ \A i \in Worthy : i # j => i \in Worthy'
      <4>1. j \in issued \cup {NoJti}
        BY <3>1 DEF Referred
      <4> QED
        BY <3>1, <4>1, BeginWorthy
    <3>4. CookieLive'
      BY <1>1, <2>1, <3>1, <3>2 DEF CookieLive
    <3>5. \A d \in {"cold", "flight"} \ {c} : call[d].st # "asked"
      BY <1>1, <3>1 DEF SessionInv, ColdAlone, Calls
    <3>6. AskedLive'
      BY <1>1, <2>1, <3>1, <3>2, <3>5 DEF AskedLive, Calls
    <3>7. GrantedLive'
      <4>1. c \in Openers
        BY <3>1 DEF Openers
      <4> QED
        BY <1>1, <2>1, <3>1, <3>2, <3>3, <4>1, NewGrantedLive
    <3>8. NoneDenied'
      BY <1>1, <2>1, <3>1, <3>2 DEF NoneDenied, Calls
    <3> QED
      BY <2>2, <2>6, <3>4, <3>6, <3>7, <3>8
  <2> QED
    BY <1>4, <2>1, <2>3, <2>4, <2>5 DEF Serve, Grant
<1> QED
  BY <1>1, <1>2, <1>4 DEF SessionInv

\* A step that takes calls from one state to a later one, closes requests or
\* resends them, and takes no token away.
LEMMA QuietKeeps ==
    ASSUME TypeOK, SessionInv,
           Worthy \subseteq Worthy', UNCHANGED <<jar, other>>, ended => ended', removed => removed',
           \A s \in Slots : slot'[s].st # "idle" => slot[s].st # "idle",
           \A c \in Calls : call'[c] = call[c] \/ call'[c].st \in {"idle", "failed"},
           \A c \in Calls : call[c].st = "idle" => call'[c] = call[c],
           \A c \in Calls : call[c].st = "granted" => call'[c] = call[c] \/ ended',
           \A c \in Calls : call'[c].st = "failed" => call[c].st \notin {"idle", "me"},
           \A c \in Openers : slot'[c].st # "idle" => call'[c] = call[c],
           bearer' # NoBearer => bearer # NoBearer \/ \E s \in Slots : slot[s].st # "idle"
    PROVE  SessionInv'
<1>1. ColdAlone' /\ MeAfterAnswer' /\ (call'["logout"].st # "idle" => ended')
  BY DEF SessionInv, ColdAlone, MeAfterAnswer, Calls, Slots, Openers
<1>2. ASSUME ~ended', ~removed'
      PROVE  /\ CookieLive' /\ OtherAlone' /\ AskedLive' /\ GrantedLive'
             /\ NoneDenied' /\ CookieFirst'
  <2>1. CookieLive /\ OtherAlone /\ AskedLive /\ GrantedLive /\ NoneDenied /\ CookieFirst
    BY <1>2 DEF SessionInv
  <2>7. OtherAlone'
    BY <2>1 DEF OtherAlone, Settled
  <2>2. CookieLive'
    BY <1>2, <2>1 DEF CookieLive, Calls
  <2>3. AskedLive'
    BY <2>1 DEF AskedLive, Calls
  <2>4. GrantedLive'
    BY <2>1 DEF GrantedLive, Calls, Openers
  <2>5. NoneDenied'
    BY <2>1 DEF NoneDenied, Calls
  <2>6. CookieFirst'
    BY <2>1 DEF CookieFirst
  <2> QED
    BY <2>2, <2>3, <2>4, <2>5, <2>6, <2>7
<1> QED
  BY <1>1, <1>2 DEF SessionInv

\* A request that is over may be that of a call.
LEMMA SettleKeeps ==
    ASSUME TypeOK, SessionInv, NEW s \in Slots, slot[s].st = "sent", Settle(s),
           Worthy' = Worthy, UNCHANGED <<jar, other, removed, ended>>,
           bearer' # NoBearer => bearer # NoBearer \/ slot[s].st # "idle"
    PROVE  SessionInv'
<1>1. \A q \in Slots : slot'[q].st # "idle" => slot[q].st # "idle" /\ q # s
  BY SettleStarts DEF Settle, NoRequest
<1>2. /\ s \in Openers => call[s].st = "me" /\ call'[s].st = "idle"
      /\ \A c \in Calls : c = s \/ call'[c] = call[c]
  BY DEF Settle, NoCall, SessionInv, MeAfterAnswer, TypeOK, Openers, Calls
<1>3. s \notin Openers => call' = call
  BY DEF Settle
<1>4. Openers \subseteq Slots /\ Openers \subseteq Calls
  BY DEF Slots, Openers, Calls
<1> QED
  BY <1>1, <1>2, <1>3, <1>4, QuietKeeps

\* A 401 under an access bearer: its refresh carries a live cookie.
LEMMA JoinKeeps ==
    ASSUME TypeOK, SessionInv, NEW s \in Slots, slot[s].st = "sent", JoinFlight,
           slot' = [slot EXCEPT ![s].st = "waiting", ![s].retried = TRUE],
           ended' = Overlapped, Worthy' = Worthy, UNCHANGED <<jar, other, bearer, removed>>
    PROVE  SessionInv'
<1> USE JtiAssumption
<1>1. \A q \in Slots : (slot'[q].st # "idle") <=> (slot[q].st # "idle")
  BY DEF TypeOK, RequestStates
<1>2. CASE call' = call
  BY <1>1, <1>2, QuietKeeps DEF Overlapped, Openers, Slots
<1>3. CASE call["flight"].st = "idle" /\ call' = Ask("flight")
  <2>1. /\ call'["flight"] = [st |-> "asked", jti |-> jar]
        /\ \A c \in Calls \ {"flight"} : call'[c] = call[c]
    BY <1>3 DEF Ask, TypeOK, Calls
  <2>2. ColdAlone' /\ MeAfterAnswer' /\ (call'["logout"].st # "idle" => ended')
    BY <1>1, <1>3, <2>1 DEF SessionInv, ColdAlone, MeAfterAnswer, Overlapped, Calls, Openers, Slots
  <2>3. ASSUME ~ended', ~removed'
        PROVE  /\ CookieLive' /\ OtherAlone' /\ AskedLive' /\ GrantedLive'
               /\ NoneDenied' /\ CookieFirst'
    <3>1. /\ CookieLive /\ AskedLive /\ GrantedLive /\ NoneDenied /\ CookieFirst
          /\ other = NoJti
      BY <2>3 DEF SessionInv, Overlapped
    <3>6. OtherAlone'
      BY <3>1 DEF OtherAlone
    <3>2. jar # NoJti /\ call["cold"].st # "granted" /\ call["cold"].st # "asked"
      BY <3>1 DEF SessionInv, ColdAlone, CookieFirst
    <3>3. jar \in Worthy
      BY <1>3, <3>1, <3>2 DEF CookieLive
    <3>4. CookieLive' /\ AskedLive' /\ NoneDenied' /\ CookieFirst'
      BY <1>1, <2>1, <3>1, <3>2, <3>3 DEF CookieLive, AskedLive, NoneDenied, CookieFirst, Calls
    <3>5. GrantedLive'
      BY <2>1, <3>1, <3>2 DEF GrantedLive, Calls, Openers
    <3> QED
      BY <3>1, <3>4, <3>5, <3>6
  <2> QED
    BY <2>2, <2>3 DEF SessionInv
<1> QED
  BY <1>2, <1>3 DEF JoinFlight

\* The answer to a call: the cookie it brings is live.
LEMMA OpenerKeeps ==
    ASSUME TypeOK, SessionInv, NEW c \in Openers, OpenerGranted(c)
    PROVE  SessionInv'
<1> USE JtiAssumption
<1>1. /\ call[c].st = "granted" /\ jar' = call[c].jti
      /\ call'[c].st = "me" /\ \A d \in Calls \ {c} : call'[d] = call[d]
      /\ slot'[c].st = "sent" /\ \A s \in Slots \ {c} : slot'[s] = slot[s]
      /\ UNCHANGED <<registry, other, removed, ended>>
  BY DEF OpenerGranted, Becomes, Sent, TypeOK, server, ghosts, Openers, Calls, Slots
<1>2. Openers \subseteq Slots /\ Openers \subseteq Calls
  BY DEF Slots, Openers, Calls
<1>3. ColdAlone'
  BY <1>1, <1>2 DEF SessionInv, ColdAlone, Openers, Calls
<1>4. MeAfterAnswer' /\ (call'["logout"].st # "idle" => ended')
  BY <1>1, <1>2 DEF SessionInv, MeAfterAnswer, Openers, Calls
<1>5. ASSUME ~ended', ~removed'
      PROVE  /\ CookieLive' /\ OtherAlone' /\ AskedLive' /\ GrantedLive'
             /\ NoneDenied' /\ CookieFirst'
  <2>1. /\ CookieLive /\ AskedLive /\ GrantedLive /\ NoneDenied /\ CookieFirst
        /\ other = NoJti
    BY <1>1, <1>2, <1>5 DEF SessionInv, OtherAlone, Settled
  <2>6. OtherAlone'
    BY <1>1, <2>1 DEF OtherAlone
  <2>2. jar' \in Worthy /\ jar' \in Jtis /\ Worthy' = Worthy
    BY <1>1, <2>1, WorthyKept DEF GrantedLive, Worthy
  <2>3. CookieLive' /\ CookieFirst'
    BY <2>2 DEF CookieLive, CookieFirst
  <2>4. AskedLive' /\ NoneDenied'
    BY <1>1, <2>1, <2>2 DEF AskedLive, NoneDenied, Calls
  <2>5. GrantedLive'
    BY <1>1, <1>2, <2>1, <2>2 DEF GrantedLive
  <2> QED
    BY <2>3, <2>4, <2>5, <2>6
<1> QED
  BY <1>3, <1>4, <1>5 DEF SessionInv

\* What the user does.
LEMMA UserKeeps ==
    ASSUME StoreInv, SessionInv,
           SignIn \/ SignOut \/ Enter \/ Exit \/ Load \/ \E d \in Data : View(d)
    PROVE  SessionInv'
<1>1. TypeOK /\ Openers \subseteq Calls /\ Data \cap Openers = {} /\ "enter" \in Slots
  BY WebAssumption DEF StoreInv, Openers, Calls, Slots
<1>2. CASE SignIn
  <2>1. /\ call'["login"].st = "asked" /\ \A c \in Calls \ {"login"} : call'[c] = call[c]
        /\ call["cold"].st = "idle" /\ call["login"].st = "idle"
        /\ ended' = Overlapped /\ UNCHANGED <<registry, removed, jar, other, bearer, slot>>
    BY <1>1, <1>2 DEF SignIn, Shown, Ask, TypeOK, server, store, Calls
  <2>2. ColdAlone' /\ MeAfterAnswer' /\ (call'["logout"].st # "idle" => ended')
    BY <2>1 DEF SessionInv, ColdAlone, MeAfterAnswer, Overlapped, Calls, Openers
  <2>0. Worthy' = Worthy
    BY <2>1, WorthyKept
  <2>3. CookieLive /\ AskedLive /\ GrantedLive /\ NoneDenied /\ CookieFirst =>
           CookieLive' /\ AskedLive' /\ NoneDenied' /\ CookieFirst'
    BY <2>0, <2>1 DEF CookieLive, AskedLive, NoneDenied, CookieFirst, Calls
  <2>4. GrantedLive => GrantedLive'
    BY <2>0, <2>1 DEF GrantedLive, Calls, Openers
  <2>5. ~ended' => OtherAlone'
    BY <2>1 DEF Overlapped, OtherAlone
  <2> QED
    BY <2>1, <2>2, <2>3, <2>4, <2>5 DEF SessionInv, Overlapped
<1>3. CASE SignOut
  <2>1. /\ ended' /\ call["cold"].st = "idle"
        /\ \A c \in Calls \ {"logout"} : call'[c] = call[c]
        /\ UNCHANGED slot
    BY <1>1, <1>3 DEF SignOut, Shown, Ask, TypeOK
  <2> QED
    BY <2>1 DEF SessionInv, ColdAlone, MeAfterAnswer, Calls, Openers
<1>4. ASSUME NEW s \in {"enter"} \cup Data, slot' = [slot EXCEPT ![s] = Sent(bearer)],
             bearer # NoBearer, call["cold"].st = "idle",
             UNCHANGED <<registry, removed, jar, other, bearer, call, ended>>
      PROVE  SessionInv'
  <2>1. /\ \A q \in Slots \ {s} : slot'[q] = slot[q]
        /\ s \notin Openers
    BY <1>1, <1>4 DEF TypeOK, Openers, Slots
  <2>2. ColdAlone' /\ MeAfterAnswer' /\ (call'["logout"].st # "idle" => ended')
    BY <1>4, <2>1 DEF SessionInv, ColdAlone, MeAfterAnswer, Slots
  <2>3. CookieLive /\ OtherAlone /\ AskedLive /\ GrantedLive /\ NoneDenied /\ CookieFirst =>
           CookieLive' /\ OtherAlone' /\ AskedLive' /\ GrantedLive' /\ NoneDenied' /\ CookieFirst'
    BY <1>4, WorthyKept DEF CookieLive, OtherAlone, Settled, AskedLive, GrantedLive, NoneDenied, CookieFirst
  <2> QED
    BY <1>4, <2>2, <2>3 DEF SessionInv
<1>5. CASE Enter \/ \E d \in Data : View(d)
  BY <1>4, <1>5 DEF Enter, View, Shown, server, store, ghosts
<1>6. CASE Exit
  <2>1. bearer # NoBearer
    BY <1>6 DEF Exit, StoreInv, StoreConsistent
  <2> QED
    BY <1>1, <1>6, <2>1, WorthyKept, QuietKeeps DEF Exit, SessionInv, MeAfterAnswer, server, ghosts,
                                      Calls, Openers, CallStates, TypeOK
<1>7. CASE Load
  <2>1. /\ call' = Loaded(jar) /\ bearer' = NoBearer /\ \A s \in Slots : slot'[s] = NoRequest
        /\ ended' = (Overlapped \/ \E c \in Calls : call[c].st = "granted")
        /\ UNCHANGED <<registry, removed, jar, other>>
    BY <1>7 DEF Load, Cleared, server
  <2>2. /\ call'["cold"] = [st |-> "asked", jti |-> jar]
        /\ \A c \in Calls \ {"cold"} : call'[c].st = "idle"
        /\ \A s \in Slots : slot'[s].st = "idle"
    BY <2>1 DEF Loaded, NoCall, NoRequest, Calls
  <2>3. ColdAlone' /\ MeAfterAnswer' /\ (call'["logout"].st # "idle" => ended')
    BY <1>1, <2>2 DEF ColdAlone, MeAfterAnswer, Calls, Slots, Openers
  <2>4. ASSUME ~ended', ~removed'
        PROVE  /\ CookieLive' /\ OtherAlone' /\ AskedLive' /\ GrantedLive'
               /\ NoneDenied' /\ CookieFirst'
    <3>1. CookieLive /\ other = NoJti /\ \A c \in Calls : call[c].st # "granted"
      BY <2>1, <2>4 DEF SessionInv, Overlapped
    <3>2. jar # NoJti => jar \in Worthy
      BY <3>1 DEF CookieLive, Calls
    <3> QED
      BY <1>1, <2>1, <2>2, <3>1, <3>2, WorthyKept
         DEF CookieLive, OtherAlone, AskedLive, GrantedLive, NoneDenied, CookieFirst, Calls, Openers
  <2> QED
    BY <2>3, <2>4 DEF SessionInv
<1> QED
  BY <1>2, <1>3, <1>5, <1>6, <1>7

\* What the other tab does.
LEMMA OtherKeeps ==
    ASSUME TypeOK, Referred, SessionInv, OtherRefreshes \/ OtherAnswered \/ OtherLost
    PROVE  SessionInv'
<1> USE JtiAssumption
<1>1. UNCHANGED <<call, slot, bearer>> /\ (ended => ended')
  <2>1. UNCHANGED <<call, slot, bearer>>
    BY DEF OtherRefreshes, OtherAnswered, OtherLost, store
  <2>2. CASE OtherRefreshes
    <3>1. ended' = (ended \/ \E c \in Calls : ~Settled(c))
      BY <2>2 DEF OtherRefreshes
    <3>2. ended => ended'
      BY Zenon, <3>1
    <3> QED
      BY <2>1, <3>2
  <2>3. CASE OtherAnswered \/ OtherLost
    BY <2>1, <2>3 DEF OtherAnswered, OtherLost, ghosts
  <2> QED
    BY <2>2, <2>3
<1>2. ColdAlone' /\ MeAfterAnswer' /\ (call'["logout"].st # "idle" => ended')
  BY <1>1 DEF SessionInv, ColdAlone, MeAfterAnswer
<1>3. ASSUME ~ended', ~removed'
      PROVE  /\ CookieLive' /\ OtherAlone' /\ AskedLive' /\ GrantedLive'
             /\ NoneDenied' /\ CookieFirst'
  <2>1. ~removed
    BY <1>3 DEF OtherRefreshes, OtherAnswered, OtherLost, server
  <2>2. CookieLive /\ OtherAlone /\ NoneDenied /\ CookieFirst
    BY <1>1, <1>3, <2>1 DEF SessionInv
  <2>3. \A c \in Calls : Settled(c)
    BY <1>3, <2>2 DEF OtherRefreshes, OtherAnswered, OtherLost, OtherAlone
  <2>4. AskedLive' /\ GrantedLive' /\ NoneDenied'
    BY <1>1, <2>3 DEF AskedLive, GrantedLive, NoneDenied, Settled, Calls, Openers
  <2>5. CASE OtherRefreshes
    <3>1. PICK k \in Jtis \ issued : jar \in Jtis /\ Begin(jar, k) /\ other' = k /\ jar' = jar
      BY <2>5 DEF OtherRefreshes, NextJti
    <3>2. k \in Worthy'
      BY <3>1, BeginWorthy DEF Referred
    <3> QED
      BY <1>1, <2>2, <2>3, <2>4, <3>1, <3>2 DEF CookieLive, OtherAlone, CookieFirst, Settled
  <2>6. CASE OtherAnswered
    <3>1. jar' = other /\ other # NoJti /\ other' = NoJti /\ Worthy' = Worthy
      BY <2>6, WorthyKept DEF OtherAnswered, server
    <3> QED
      BY <2>2, <2>4, <3>1 DEF CookieLive, OtherAlone, CookieFirst
  <2> QED
    BY <1>3, <2>5, <2>6 DEF OtherLost
<1> QED
  BY <1>2, <1>3 DEF SessionInv

LEMMA NextSessionInv == StoreInv /\ Referred /\ SessionInv /\ [Next]_vars => SessionInv'
<1> SUFFICES ASSUME StoreInv, Referred, SessionInv, [Next]_vars PROVE SessionInv'
  OBVIOUS
<1>1. TypeOK /\ TypeOK' /\ Openers \subseteq Calls /\ Openers \subseteq Slots
  BY NextTypeOK DEF StoreInv, Openers, Calls, Slots
<1>2. CASE \E c \in Calls : Serve(c)
  BY <1>1, <1>2, ServeKeeps
<1>3. ASSUME NEW c \in Calls, Lose(c) PROVE SessionInv'
  <2>1. /\ call[c].st \in {"asked", "granted"} /\ call'[c].st = "failed"
        /\ \A d \in Calls \ {c} : call'[d] = call[d]
        /\ call[c].st = "granted" => ended'
        /\ ended => ended'
        /\ UNCHANGED <<registry, removed, jar, other, slot, bearer>>
    BY <1>1, <1>3 DEF Lose, Becomes, TypeOK, server, store
  <2>2. \A d \in Openers : slot'[d].st # "idle" => call'[d] = call[d]
    BY <1>1, <2>1 DEF SessionInv, MeAfterAnswer
  <2> QED
    BY <1>1, <2>1, <2>2, WorthyKept, QuietKeeps
<1>4. CASE \E c \in Openers : OpenerGranted(c)
  BY <1>1, <1>4, OpenerKeeps
<1>5. ASSUME NEW c \in Openers, OpenerRejected(c) PROVE SessionInv'
  <2>1. /\ call[c].st \in {"denied", "failed"} /\ call'[c].st = "idle"
        /\ \A d \in Calls \ {c} : call'[d] = call[d]
        /\ UNCHANGED <<registry, removed, jar, other, slot, bearer, ended>>
    BY <1>1, <1>5 DEF OpenerRejected, Becomes, TypeOK, server, store, ghosts
  <2>2. \A d \in Openers : slot'[d].st # "idle" => call'[d] = call[d]
    BY <1>1, <2>1 DEF SessionInv, MeAfterAnswer
  <2> QED
    BY <1>1, <2>1, <2>2, WorthyKept, QuietKeeps
<1>6. CASE FlightRejected
  <2>1. /\ \A c \in Calls : call'[c] = call[c] \/
              /\ call'[c].st = "idle"
              /\ c = "flight" \/ (c \in Openers /\ slot[c].st = "waiting")
        /\ \A s \in Slots :
              (slot'[s] = slot[s] /\ slot[s].st # "waiting") \/ slot'[s].st = "idle"
        /\ call["flight"].st \in {"denied", "failed"} /\ bearer' = NoBearer
        /\ UNCHANGED <<registry, removed, jar, other, ended>>
    BY <1>6 DEF FlightRejected, NoCall, NoRequest, Cleared, server, ghosts
  <2>2. slot["flight"].st = "idle"
    BY <1>1, <2>1 DEF SessionInv, MeAfterAnswer, Openers
  <2>3. \A c \in Openers : slot[c].st = "waiting" => call[c].st = "me"
    BY DEF SessionInv, MeAfterAnswer
  <2>4. \A c \in Calls : call[c].st = "idle" => call'[c] = call[c]
    BY <2>1, <2>3 DEF Openers
  <2>5. \A c \in Calls : call[c].st = "granted" => call'[c] = call[c]
    BY <2>1, <2>3
  <2>6. \A c \in Openers : slot'[c].st # "idle" => call'[c] = call[c]
    BY <1>1, <2>1, <2>2
  <2> QED
    BY <1>1, <2>1, <2>4, <2>5, <2>6, WorthyKept, QuietKeeps
<1>7. CASE LogoutReturns
  <2>1. /\ ended /\ ended' /\ call'["logout"].st = "idle"
        /\ \A c \in Calls \ {"logout"} : call'[c] = call[c]
        /\ UNCHANGED slot
    BY <1>1, <1>7 DEF LogoutReturns, Becomes, SessionInv, TypeOK
  <2> QED
    BY <2>1 DEF SessionInv, ColdAlone, MeAfterAnswer, Calls, Openers
<1>8. ASSUME NEW s \in Slots, AnswerOk(s) \/ AnswerFails(s) PROVE SessionInv'
  <2>1. /\ slot[s].st = "sent" /\ Settle(s)
        /\ UNCHANGED <<registry, removed, jar, other, ended>>
    BY <1>8 DEF AnswerOk, AnswerFails, server, ghosts
  <2> QED
    BY <1>1, <2>1, WorthyKept, SettleKeeps
<1>9. ASSUME NEW s \in Slots, Answer401(s) PROVE SessionInv'
  <2>1. slot[s].st = "sent" /\ UNCHANGED <<registry, removed, jar, other>>
    BY <1>9 DEF Answer401, server
  <2>2. CASE Settle(s) /\ UNCHANGED ended
    BY <1>1, <2>1, <2>2, WorthyKept, SettleKeeps
  <2>3. CASE JoinFlight /\ UNCHANGED store /\ ended' = Overlapped
             /\ slot' = [slot EXCEPT ![s].st = "waiting", ![s].retried = TRUE]
    BY <1>1, <2>1, <2>3, WorthyKept, JoinKeeps DEF store
  <2> QED
    BY <1>9, <2>2, <2>3 DEF Answer401
<1>10. CASE SignIn \/ SignOut \/ Enter \/ Exit \/ Load \/ \E d \in Data : View(d)
  BY <1>10, UserKeeps
<1>11. CASE Expire \/ Remove \/ UNCHANGED vars
  <2>1. UNCHANGED <<registry, jar, other, bearer, call, slot, ended>> /\ (removed => removed')
    BY <1>11 DEF Expire, Remove, vars, server, store, ghosts
  <2> QED
    BY <1>1, <2>1, WorthyKept, QuietKeeps
<1>12. CASE OtherRefreshes \/ OtherAnswered \/ OtherLost
  BY <1>1, <1>12, OtherKeeps
<1>13. ASSUME NEW t \in open, Commit(t) PROVE SessionInv'
  <2>1. /\ UNCHANGED <<removed, jar, other, slot, bearer, call, ended>>
        /\ Worthy \subseteq Worthy'
    BY <1>1, <1>13, CommitWorthy DEF Commit, store, ghosts
  <2> QED
    BY <1>1, <2>1, QuietKeeps DEF SessionInv, MeAfterAnswer, TypeOK, CallStates
<1>14. ASSUME NEW t \in open, CommitFails(t) PROVE SessionInv'
  <2>1. ended' /\ UNCHANGED <<call, slot>>
    BY <1>14 DEF CommitFails
  <2> QED
    BY <2>1 DEF SessionInv, ColdAlone, MeAfterAnswer
<1> QED
  BY <1>2, <1>3, <1>4, <1>5, <1>6, <1>7, <1>8, <1>9, <1>10, <1>11, <1>12, <1>13, <1>14 DEF Next

LEMMA InitReferred == Init => Referred
  BY DEF Init, Loaded, NoCall, Referred, Calls

LEMMA NextReferred == TypeOK /\ Referred /\ [Next]_vars => Referred'
<1> SUFFICES ASSUME TypeOK, Referred, [Next]_vars PROVE Referred'
  OBVIOUS
<1> USE DEF Referred
<1>1. ASSUME UNCHANGED <<issued, open>>,
             jar' \in issued \cup {NoJti}, other' \in issued \cup {NoJti},
             \A c \in Calls : call'[c].jti \in issued \cup {NoJti}
      PROVE  Referred'
  BY <1>1
<1>2. ASSUME NEW j \in issued \cup {NoJti}, NEW k \in Jtis \cup {NoJti}, Begin(j, k),
             jar' = jar, other' \in {other, k},
             \A c \in Calls : call'[c] = call[c] \/ call'[c].jti \in {k, NoJti}
      PROVE  Referred'
  BY <1>2 DEF Begin
<1>3. ASSUME NEW c \in Calls, Serve(c) PROVE Referred'
  <2>1. UNCHANGED <<jar, other>> /\ call[c].jti \in issued \cup {NoJti}
    BY <1>3 DEF Serve
  <2>2. CASE Grant(c)
    <3>1. PICK j \in issued \cup {NoJti}, k \in Jtis \cup {NoJti} :
             Begin(j, k) /\ Becomes(c, "granted", k)
      BY <2>1, <2>2 DEF Grant
    <3>2. \A d \in Calls : call'[d] = call[d] \/ call'[d].jti \in {k, NoJti}
      BY <3>1 DEF Becomes, TypeOK
    <3> QED
      BY <1>2, <2>1, <3>1, <3>2
  <2>3. CASE Deny(c)
    BY <2>1, <2>3 DEF Deny, Becomes, TypeOK, registry
  <2> QED
    BY <1>3, <2>2, <2>3 DEF Serve
<1>4. CASE OtherRefreshes
  <2>1. PICK k \in Jtis : Begin(jar, k) /\ other' = k
    BY <1>4 DEF OtherRefreshes
  <2> QED
    BY <1>2, <1>4, <2>1 DEF OtherRefreshes
<1>5. ASSUME NEW t \in open, Commit(t) \/ CommitFails(t) PROVE Referred'
  BY <1>5 DEF Commit, CommitFails
<1>6. ASSUME NEW c \in Calls, Lose(c) PROVE Referred'
  BY <1>1, <1>6 DEF Lose, Becomes, TypeOK, server, registry
<1>7. ASSUME NEW c \in Openers, OpenerGranted(c) \/ OpenerRejected(c) PROVE Referred'
  BY <1>1, <1>7 DEF OpenerGranted, OpenerRejected, Becomes, TypeOK, server, registry, Openers, Calls
<1>8. CASE FlightRejected \/ LogoutReturns
  BY <1>1, <1>8 DEF FlightRejected, LogoutReturns, Becomes, NoCall, TypeOK, server, registry
<1>9. ASSUME NEW s \in Slots, AnswerOk(s) \/ AnswerFails(s) \/ Answer401(s) PROVE Referred'
  <2>1. UNCHANGED <<issued, open, jar, other>>
    BY <1>9 DEF AnswerOk, AnswerFails, Answer401, server, registry
  <2>2. CASE Settle(s)
    BY <1>1, <2>1, <2>2 DEF Settle, NoCall, TypeOK
  <2>3. CASE JoinFlight
    BY <1>1, <2>1, <2>3 DEF JoinFlight, Ask, TypeOK
  <2> QED
    BY <1>9, <2>2, <2>3 DEF AnswerOk, AnswerFails, Answer401
<1>10. CASE SignIn \/ SignOut \/ Load
  BY <1>1, <1>10 DEF SignIn, SignOut, Load, Loaded, NoCall, Ask, TypeOK, server, registry
<1>11. CASE Enter \/ Exit \/ Expire \/ Remove \/ OtherAnswered \/ OtherLost
            \/ \E d \in Data : View(d)
  BY <1>1, <1>11 DEF Enter, Exit, Expire, Remove, OtherAnswered, OtherLost, View, server, registry
<1>12. CASE UNCHANGED vars
  BY <1>1, <1>12 DEF vars, server, registry
<1> QED
  BY <1>3, <1>4, <1>5, <1>6, <1>7, <1>8, <1>9, <1>10, <1>11, <1>12 DEF Next

\* A tab never loses its session by its own doing (api/client.ts single-flight,
\* router/index.ts cold refresh): with answers that leave before their transaction
\* commits (db/session.py), the rotation of refresh tokens refuses it only after a
\* logout, a lost answer or commit, the removal of the account, a refresh of
\* another tab that overlaps a call of this one, or when it presents its token
\* before the commit that brings it.
THEOREM SessionIsKept == Spec => []SessionKept
<1>1. SessionInv => SessionKept
  BY DEF SessionInv, NoneDenied, SessionKept
<1>2. StoreInv => TypeOK
  BY DEF StoreInv
<1> QED
  BY <1>1, <1>2, InitSessionInv, NextSessionInv, InitReferred, NextReferred, StoreInvHolds, PTL
     DEF Spec
=============================================================================

------------------------------ MODULE Rotation ------------------------------
(***************************************************************************)
(* What the registry of refresh tokens promises, one atomic step for each  *)
(* of the three auth endpoints (docs/api/auth.md): a login starts a line   *)
(* of tokens, a refresh hands the line on to a new token, a logout ends    *)
(* it.  Auth shows that the transactions of the API keep the promise, and  *)
(* WebSession builds on it.                                                *)
(***************************************************************************)
CONSTANTS
    Jtis,       \* the uuid4 values a token can carry
    NoJti       \* no token

ASSUME JtiAssumption == NoJti \notin Jtis

VARIABLES
    token,      \* token[j]: the row of refresh_tokens with jti j
    line        \* line[j]: the login that j descends from

rvars == <<token, line>>

RTypeOK ==
    /\ token \in [Jtis -> {"none", "live", "revoked"}]
    /\ line \in [Jtis -> Jtis \cup {NoJti}]

RInit ==
    /\ token = [j \in Jtis |-> "none"]
    /\ line = [j \in Jtis |-> NoJti]

Login(j) ==
    /\ token[j] = "none"
    /\ token' = [token EXCEPT ![j] = "live"]
    /\ line' = [line EXCEPT ![j] = j]

Exchange(j, k) ==
    /\ token[j] = "live" /\ token[k] = "none"
    /\ token' = [token EXCEPT ![j] = "revoked", ![k] = "live"]
    /\ line' = [line EXCEPT ![k] = line[j]]

Logout(j) ==
    /\ token[j] = "live"
    /\ token' = [token EXCEPT ![j] = "revoked"]
    /\ UNCHANGED line

RNext ==
    \/ \E j \in Jtis : Login(j) \/ Logout(j)
    \/ \E j, k \in Jtis : Exchange(j, k)

RSpec == RInit /\ [][RNext]_rvars
-----------------------------------------------------------------------------
\* However refreshes and logouts of one login interleave, at most one token of
\* its line is live: a copy of an older one is worth nothing.
OneLivePerLogin ==
    \A j, k \in Jtis :
       token[j] = "live" /\ token[k] = "live" /\ line[j] = line[k] => j = k

\* A line that has ended (logout, or its last token lost) stays ended.
Ended(i) == line[i] = i /\ \A j \in Jtis : line[j] = i => token[j] # "live"
EndIsFinal == [][\A i \in Jtis : Ended(i) => Ended(i)']_rvars
=============================================================================

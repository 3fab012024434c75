------------------------------ MODULE MCAccess ------------------------------
EXTENDS Access, TLC

Asked(route, docs, no) ==
    [route |-> route, docs |-> docs, no |-> no, limit |-> 1, scope |-> "corpus",
     content |-> FALSE, target |-> "client"]

Support(u) == [Asked("impersonate", {}, 0) EXCEPT !.target = u]

\* One request asks for an administrator's routes, the other of the shared ones.
MCAsks ==
    "r1" :> {Support("client"), Asked("db", {}, 0)}
    @@ "r2" :> {Support("client"), Asked("documents", {1}, 0), Asked("document", {1}, 0),
                Asked("clauses", {1}, 1), Asked("overview", {}, 0),
                [Asked("differential", {1}, 0) EXCEPT !.content = TRUE, !.limit = 2]}

MCPairOf == <<"pair">>
MCNewVersions == {[effective |-> 0, clauses |-> 2], [effective |-> 1, clauses |-> 1]}
=============================================================================

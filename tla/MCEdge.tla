------------------------------- MODULE MCEdge -------------------------------
(* Values for Edge.                                                          *)
EXTENDS Edge, TLC

CONSTANTS t1, t2, r1, h1, h2, i1, i2

\* An open app that becomes an API for members with a second factor, or the
\* other way round; visitors of the app, over HTTP and over a WebSocket, and
\* callers of the API with a cookie or with the token.
App(open, mfa) == [kind |-> "app", open |-> open, mfa |-> mfa, cors |-> FALSE, limited |-> FALSE]
Api(open, mfa) == [App(open, mfa) EXCEPT !.kind = "api", !.cors = TRUE, !.limited = TRUE]
Req(route, who, ws, method, html) ==
    [route |-> route, who |-> who, ws |-> ws, method |-> method, html |-> html,
     big |-> FALSE, cookie |-> "none"]
ProxySpecs == {App(TRUE, FALSE), Api(FALSE, TRUE)}
ProxyRequests ==
    {Req("app", "anon", FALSE, "get", TRUE), Req("app", "member", TRUE, "get", FALSE),
     [Req("api", "token", FALSE, "get", FALSE) EXCEPT !.cookie = r1],
     [Req("api", "anon", FALSE, "options", FALSE) EXCEPT !.big = TRUE]}
FileSpec == [kind |-> "external", mfa |-> FALSE]

\* The file's specs name no image of the model and no volume.
FileNames == [tags |-> {}, volumes |-> {}]

Symmetry == Permutations({t1, t2}) \cup Permutations({h1, h2}) \cup Permutations({i1, i2})
=============================================================================

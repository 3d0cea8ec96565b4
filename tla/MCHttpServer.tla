---------------------------- MODULE MCHttpServer ----------------------------
(* Requests that take each way through the parser: every kind of line, no  *)
(* header, one, or a second that replaces the first, and a body.           *)
EXTENDS HttpServer

MCTokens == {"space", "question", "colon", "cr", "lf", "Connection", "close", "KeepAlive", "body", "zero",
             "/a", "q", "GET", "POST", "BREW", "HTTP1", "0", "1", "2"}

MCRequest(method, query, version, connection, body) ==
    [method |-> method, path |-> "/a", query |-> query,
     version |-> <<"HTTP1", version>>, connection |-> connection, body |-> body]

MCRequests ==
    {MCRequest("GET", <<>>, "1", <<>>, FALSE),
     MCRequest("GET", <<"question", "q">>, "1", <<"close">>, FALSE),
     MCRequest("POST", <<>>, "1", <<"close", "KeepAlive">>, TRUE),
     MCRequest("GET", <<>>, "0", <<>>, FALSE),
     MCRequest("GET", <<>>, "0", <<"KeepAlive">>, FALSE),
     MCRequest("BREW", <<>>, "1", <<>>, FALSE),
     MCRequest("GET", <<>>, "2", <<>>, FALSE)}
=============================================================================

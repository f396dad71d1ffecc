--------------------------- MODULE MCHttpPipeline ---------------------------
(***************************************************************************)
(* A small instance of HttpPipeline: requests that take each of the ways   *)
(* through the middleware.                                                 *)
(***************************************************************************)
EXTENDS HttpPipeline

CONSTANTS c1, c2

Request(method, path, origin, length, id) ==
    [header |-> "agent", host |-> "127.0.0.1", method |-> method, path |-> path,
     origin |-> origin, length |-> length, id |-> id]

McNormal == [h \in {"agent"} |-> h]
McLimits == [b \in {"mcp", "reads", "writes", "batch"} |-> 1]

Mixed ==
    {Request("POST", "/memories", NoOrigin, Unknown, NoId),
     Request("POST", "/mcp", "page", 1, NoId),
     Request("POST", "/mcp", "elsewhere", 1, "r1"),
     Request("PATCH", "/memories/id", NoOrigin, 3, "r1"),
     Request("GET", "/health", "page", Unknown, NoId)}
=============================================================================

--------------------------- MODULE MCRateLimiter ---------------------------
(***************************************************************************)
(* A small instance of RateLimiter.  Four requests under two keys: two     *)
(* spellings of one client's name, a client known by its address, and a    *)
(* request that is not limited.                                            *)
(***************************************************************************)
EXTENDS RateLimiter

From(header, host, method, path) ==
    [header |-> header, host |-> host, method |-> method, path |-> path]

McNormal == [h \in {"alice", " alice ", "  "} |-> IF h = "  " THEN "" ELSE "alice"]
McLimits == [b \in BucketNames |-> 2]

\* Two identities in one bucket.
TwoIdentities ==
    {From("alice", "10.0.0.1", "GET", "/memories"),
     From(" alice ", "10.0.0.2", "GET", "/memories/id"),
     From("  ", "10.0.0.1", "GET", "/memories"),
     From("alice", "10.0.0.1", "GET", "/health")}
=============================================================================

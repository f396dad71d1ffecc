-------------------------- MODULE MCStressHarness --------------------------
(***************************************************************************)
(* A small instance of StressHarness: limits of one or two requests,       *)
(* clients that keep within them and clients that send a few more.         *)
(***************************************************************************)
EXTENDS StressHarness

McClientId ==
    [x \in Roles \X Surfaces |->
        CASE x[1] = "mixed" /\ x[2] = "rest" -> "mixed-rest"
          [] x[1] = "mixed" /\ x[2] = "mcp" -> "mixed-mcp"
          [] x[1] = "fast" /\ x[2] = "rest" -> "fast-rest"
          [] x[1] = "fast" /\ x[2] = "mcp" -> "fast-mcp"
          [] x[1] = "flood" /\ x[2] = "rest" -> "flood-rest"
          [] x[1] = "flood" /\ x[2] = "mcp" -> "flood-mcp"
          [] x[1] = "normal" /\ x[2] = "rest" -> "normal-rest"
          [] x[1] = "normal" /\ x[2] = "mcp" -> "normal-mcp"
          [] x[1] = "runaway" /\ x[2] = "rest" -> "runaway-rest"
          [] x[1] = "runaway" /\ x[2] = "mcp" -> "runaway-mcp"]

McNormal == [id \in {McClientId[x] : x \in Roles \X Surfaces} |-> id]
McRequests == {RequestOf(McClientId[x], k) : x \in Roles \X Surfaces, k \in Kinds}
McLimits == [b \in BucketNames |-> IF b = "reads" THEN 2 ELSE 1]

McProfile ==
    [mixed_reads |-> 1, mixed_writes |-> 1, mixed_batches |-> 1,
     reads |-> [fast |-> 3, flood |-> 3, normal |-> 2, runaway |-> 4],
     writes |-> [fast |-> 2, flood |-> 2, normal |-> 1],
     mcp |-> [mixed |-> 1, fast |-> 2, flood |-> 3, normal |-> 1, runaway |-> 3]]

McConfigs ==
    {[scenarios |-> <<"two-agent">>, surfaces |-> <<"rest">>],
     [scenarios |-> <<"mixed", "flood">>, surfaces |-> <<"rest">>],
     [scenarios |-> <<"fast", "two-agent">>, surfaces |-> <<"mcp">>],
     [scenarios |-> <<"fast">>, surfaces |-> <<"rest", "mcp">>],
     [scenarios |-> << >>, surfaces |-> <<"rest">>]}
=============================================================================

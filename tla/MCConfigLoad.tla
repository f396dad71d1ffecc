---------------------------- MODULE MCConfigLoad ----------------------------
(***************************************************************************)
(* A small instance of ConfigLoad: a file of every state, lists with and   *)
(* without bad entries, and environments with every sort of value.         *)
(***************************************************************************)
EXTENDS ConfigLoad

Quiet == [n \in Names |-> NotSet]

McDefaults == [n \in Names |-> IF n = "enabled" THEN TRUE ELSE 2]

McEnvironments ==
    {Quiet, [Quiet EXCEPT !["enabled"] = "no", !["reads"] = 0, !["mcp"] = 3],
     [Quiet EXCEPT !["enabled"] = Garbage, !["body"] = -1, !["writes"] = 1],
     [Quiet EXCEPT !["enabled"] = "yes", !["batch"] = Garbage]}

McFiles ==
    [state : {"list"},
     entries : {<< >>, <<"page">>, <<"other", "page">>, <<NotAnObject>>,
                <<NoOrigin, "page">>, <<"page", NotAnObject, "other">>}]
    \cup [state : Broken \cup Unexpected \cup {"missing"}, entries : {<< >>}]
=============================================================================

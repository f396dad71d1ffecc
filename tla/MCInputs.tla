------------------------------ MODULE MCInputs ------------------------------
(***************************************************************************)
(* Small instances of the two modules about what people write: a process   *)
(* that reads its file and its environment (ConfigLoad), and a search that *)
(* a service answers (Retrieval).  No variable is common to the two, and   *)
(* no step of one looks at the other: a behaviour is one of either, with   *)
(* the other at rest, and their states are not multiplied.                 *)
(***************************************************************************)
EXTENDS MCConfigLoad, Retrieval

\* A process starts, and nobody searches.
Configured == Init /\ text = <<"a">> /\ filter = <<"a">> /\ answer = "found"

\* Somebody searches, and the process has started: the operator is done with it.
Searched ==
    /\ SearchInit
    /\ env = Quiet /\ file = [state |-> "missing", entries |-> << >>]
    /\ phase = "serving"
    /\ origins = << >> /\ ignored = {}
    /\ settings = McDefaults /\ refused = {}
    /\ edits = MaxEdits
    /\ offered = {file}

InputsNext ==
    \/ Next /\ UNCHANGED searchVars
    \/ SearchNext /\ UNCHANGED vars

InputsSpec ==
    /\ Configured \/ Searched
    /\ [][InputsNext]_<<vars, searchVars>>
    /\ WF_vars(Startup /\ UNCHANGED searchVars)
=============================================================================

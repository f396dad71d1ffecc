----------------------------- MODULE ConfigLoad -----------------------------
(***************************************************************************)
(* How a server process gets its configuration (app/config.py, create_app  *)
(* and lifespan of app/main.py): the origins of browser clients from       *)
(* mcp_browser_clients.local.json, the limits from the environment.  Both  *)
(* are read once, while the process starts; a part that is wrong is        *)
(* ignored with a warning.  The operator edits the file in place at any    *)
(* time, also between exists() and read_text(), and restarts the process.  *)
(*                                                                         *)
(* The text of a variable counts for what int() or the list of Boolean     *)
(* words make of it, Garbage standing for every other text; the file       *)
(* counts for what json.loads makes of it; one that lacks the key          *)
(* browser_clients is a list of nothing.                                   *)
(***************************************************************************)
EXTENDS Integers, Sequences

CONSTANTS Origins,      \* non-empty strings, as origins of browser clients
          NotAnObject,  \* an entry that is no JSON object
          NoOrigin,     \* an entry without an origin, or with an empty one
          NotSet,       \* the variable is not in the environment
          Garbage,      \* its text is neither a number nor a Boolean word
          Defaults,     \* the DEFAULT_ constants
          Environments, \* the environments a process may be started in
          Files,        \* what the operator may make of the file
          MaxEdits      \* bound: edits of the file, and restarts

Buckets == {"reads", "writes", "batch", "mcp"}
Numbers == Buckets \cup {"body"}
Names == Numbers \cup {"enabled"}

\* An entry of the file, and a file: its state, and its entries if it is a list.
\* Broken files are expected.  The others make read_text or json.loads raise what is
\* neither an OSError nor a JSONDecodeError: UnicodeDecodeError for bytes that are
\* not UTF-8, RecursionError for deep nesting, ValueError for an endless number.
Entries == Origins \cup {NotAnObject, NoOrigin}
Broken == {"unreadable", "malformed", "not_object", "not_list"}
Unexpected == {"undecodable", "too_deep", "long_number"}
File == [state : {"list"}, entries : Seq(Entries)]
        \cup [state : Broken \cup Unexpected \cup {"missing"}, entries : {<< >>}]

IsEnvironment(e) ==
    /\ DOMAIN e = Names
    /\ e["enabled"] \in {NotSet, Garbage, "yes", "no"}
    /\ \A n \in Numbers : e[n] \in {NotSet, Garbage} \cup Int

ASSUME ConfigAssumption ==
    /\ {NotAnObject, NoOrigin} \cap Origins = {}
    /\ {NotSet, Garbage} \cap ({"yes", "no"} \cup Int) = {}
    /\ NotSet # Garbage
    /\ Defaults["enabled"] = TRUE
    /\ \A n \in Numbers : Defaults[n] \in Nat \ {0}
    /\ \A e \in Environments : IsEnvironment(e)
    /\ Files \subseteq File
    /\ MaxEdits \in Nat

VARIABLES env,      \* the environment of the process
          file,     \* mcp_browser_clients.local.json
          phase,    \* what create_app and lifespan do next
          origins,  \* allowed_origins
          ignored,  \* warnings about the file: the entries, or 0 for all of it
          settings, \* SafetyConfig
          refused,  \* warnings about the environment: the names
          edits,    \* edits of the file, and restarts
          offered   \* history: what the file has been since this start

vars == <<env, file, phase, origins, ignored, settings, refused, edits, offered>>

Init ==
    /\ env \in Environments
    /\ file \in Files
    /\ phase = "exists"
    /\ origins = << >> /\ ignored = {}
    /\ settings = << >> /\ refused = {}
    /\ edits = 0
    /\ offered = {file}

-----------------------------------------------------------------------------
(* load_browser_client_config.                                             *)

NoFile ==
    /\ phase = "exists" /\ file.state = "missing"
    /\ phase' = "safety"
    /\ UNCHANGED <<env, file, origins, ignored, settings, refused, edits, offered>>

FindFile ==
    /\ phase = "exists" /\ file.state # "missing"
    /\ phase' = "read"
    /\ UNCHANGED <<env, file, origins, ignored, settings, refused, edits, offered>>

\* Faulty: only json.loads is expected to raise.
ReadUselessText ==
    /\ phase = "read" /\ file.state \in Broken \cup {"missing"}
    /\ ignored' = {0}
    /\ phase' = IF file.state \in {"missing", "unreadable"} THEN "down" ELSE "safety"
    /\ UNCHANGED <<env, file, origins, settings, refused, edits, offered>>

\* read_text or json.loads raises what the code expects, or makes something of the
\* wrong kind of the file; the file may have gone since exists().
ReadUseless ==
    /\ phase = "read" /\ file.state \in Broken \cup {"missing"}
    /\ ignored' = {0}
    /\ phase' = "safety"
    /\ UNCHANGED <<env, file, origins, settings, refused, edits, offered>>

\* Faulty: a bad entry ends the loop.
GoodUpToABadOne(entries) ==
    LET good == {k \in 0 .. Len(entries) : \A i \in 1 .. k : entries[i] \in Origins}
    IN  SubSeq(entries, 1, CHOOSE k \in good : \A j \in good : j <= k)

\* The entries that are kept, in the order of the file: kept[k] after the first k.
Good(entries) ==
    LET kept[k \in 0 .. Len(entries)] ==
            IF k = 0 THEN << >>
            ELSE IF entries[k] \in Origins THEN Append(kept[k - 1], entries[k])
            ELSE kept[k - 1]
    IN  kept[Len(entries)]

\* Faulty: an entry without an origin is passed over in silence.
BadObjectsOnly(entries) == {i \in DOMAIN entries : entries[i] = NotAnObject}

\* The entries that are skipped, each with a warning.
Bad(entries) == {i \in DOMAIN entries : entries[i] \notin Origins}

ReadEntries ==
    /\ phase = "read" /\ file.state = "list"
    /\ origins' = Good(file.entries)
    /\ ignored' = Bad(file.entries)
    /\ phase' = "safety"
    /\ UNCHANGED <<env, file, settings, refused, edits, offered>>

\* Nobody catches what is raised: the import of app.main fails.
ReadUnexpected ==
    /\ phase = "read" /\ file.state \in Unexpected
    /\ phase' = "down"
    /\ UNCHANGED <<env, file, origins, ignored, settings, refused, edits, offered>>

-----------------------------------------------------------------------------
(* load_safety_config.                                                     *)

\* Faulty: zero is a number of requests.
UsableFromZero(name, value) ==
    IF name = "enabled" THEN value \in {"yes", "no"} ELSE value \in Nat

\* Values that _parse_bool_env and _parse_positive_int_env make something of.
Usable(name, value) ==
    IF name = "enabled" THEN value \in {"yes", "no"} ELSE value \in Nat \ {0}

Setting(name) ==
    CASE ~Usable(name, env[name]) -> Defaults[name]
      [] Usable(name, env[name]) /\ name = "enabled" -> env[name] = "yes"
      [] OTHER -> env[name]

LoadSafety ==
    /\ phase = "safety"
    /\ settings' = [n \in Names |-> Setting(n)]
    /\ refused' = {n \in Names : env[n] # NotSet /\ ~Usable(n, env[n])}
    /\ phase' = "lifespan"
    /\ UNCHANGED <<env, file, origins, ignored, edits, offered>>

\* lifespan logs the warnings; init_db and the session manager of MCP come up, and
\* so does the service.
Serve ==
    /\ phase = "lifespan"
    /\ phase' = "serving"
    /\ UNCHANGED <<env, file, origins, ignored, settings, refused, edits, offered>>

\* lifespan logs the warnings, and one of the two raises: the server gives up.
GiveUp ==
    /\ phase = "lifespan"
    /\ phase' = "stopped"
    /\ UNCHANGED <<env, file, origins, ignored, settings, refused, edits, offered>>

Startup == \/ NoFile \/ FindFile \/ ReadUseless \/ ReadEntries \/ ReadUnexpected
           \/ LoadSafety \/ Serve \/ GiveUp

-----------------------------------------------------------------------------
(* The operator.                                                           *)

Edit(f) ==
    /\ f # file
    /\ edits < MaxEdits
    /\ edits' = edits + 1
    /\ file' = f
    /\ offered' = offered \cup {f}
    /\ UNCHANGED <<env, phase, origins, ignored, settings, refused>>

\* A process that runs, or did not come up, is started again.
Restart(e) ==
    /\ phase \in {"serving", "down", "stopped"}
    /\ edits < MaxEdits
    /\ edits' = edits + 1
    /\ env' = e /\ file' = file
    /\ phase' = "exists"
    /\ origins' = << >> /\ ignored' = {}
    /\ settings' = << >> /\ refused' = {}
    /\ offered' = {file}

Operator == \/ \E f \in Files : Edit(f)
            \/ \E e \in Environments : Restart(e)

Next == Startup \/ Operator

Spec == Init /\ [][Next]_vars

\* A process that has been started gets on with it.
FairSpec == Spec /\ WF_vars(Startup)

-----------------------------------------------------------------------------
(* Properties.                                                             *)

\* Type correctness.
TypeOK ==
    /\ IsEnvironment(env) /\ file \in File
    /\ phase \in {"exists", "read", "safety", "lifespan", "serving", "down", "stopped"}
    /\ origins = << >> \/ \E f \in offered : origins = Good(f.entries)
    /\ ignored \subseteq Nat /\ refused \subseteq Names
    /\ edits \in 0 .. MaxEdits
    /\ offered \subseteq File /\ file \in offered

RangeOf(f) == {f[i] : i \in DOMAIN f}

\* README.md:116 and 131: whatever is wrong with the file, and however it changes
\* while the process starts, the allowed origins are the ones that some version of
\* it lists, all of them and no others, whatever stands between them, or else none.
OneVersionOfTheFile ==
    origins # << >> =>
        \E f \in offered : RangeOf(origins) = RangeOf(f.entries) \cap Origins

\* No part of the file is dropped in silence: a service that warns of nothing in it
\* allows every entry that one version of the file lists, in its order; a file without
\* the key browser_clients lists none.
SilenceIsObedience ==
    phase = "serving" /\ ignored = {} =>
        \E f \in offered : f.state \in {"missing", "list"} /\ origins = f.entries

\* A variable that is misspelt neither switches the limits off nor leaves one that
\* the limiter cannot work with (RateLimiter's assumption on its limits): limits are
\* off because somebody said so, and every number is positive.
LimitsSurviveTypos ==
    phase \in {"lifespan", "serving"} =>
        /\ ~settings["enabled"] => env["enabled"] = "no"
        /\ \A n \in Numbers : settings[n] \in Nat \ {0}
        /\ \A n \in Names \ refused :
              env[n] = NotSet \/ settings[n] = (IF n = "enabled" THEN env[n] = "yes" ELSE env[n])

\* A start comes to an end, whatever the operator does meanwhile: the service serves,
\* or init_db or the session manager has stopped it, or the file was one that the code
\* does not expect.  No variable, no broken file or entry, and no edit between
\* exists() and read_text() keeps it from coming up.
ComesUp ==
    (phase = "exists") ~>
        \/ phase \in {"serving", "stopped"}
        \/ phase = "down" /\ \E f \in offered : f.state \in Unexpected

-----------------------------------------------------------------------------
(* What the documentation says and the code does not do.                   *)

\* README.md:131: "If the local file exists but is invalid, the app logs a warning
\* and denies browser-based MCP access instead of failing startup."
InvalidFileIsNoFailure == phase # "down"
=============================================================================

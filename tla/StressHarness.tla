--------------------------- MODULE StressHarness ---------------------------
(***************************************************************************)
(* scripts/rate_limit_stress.py against a running service: scenarios of    *)
(* one or two clients, one after the other, each client with an            *)
(* X-Client-Id of its own, and a report at the end.  A client sends its    *)
(* requests in sequence, with or without a pause, or all at once.          *)
(*                                                                         *)
(* The service is RateLimiter.  A request waits on its way for as long as  *)
(* it likes; it is then seen by the limiter, answered and counted in one   *)
(* step.  A request that times out, or whose connection fails, ends the    *)
(* script: neither asyncio.gather nor anything above it catches what       *)
(* client.request raises.                                                  *)
(***************************************************************************)
EXTENDS RateLimiter, FiniteSets
Seqs == INSTANCE SequencesExt

CONSTANTS ClientId,  \* <<role, surface>> -> the X-Client-Id of the client
          Profile,   \* how many requests of a kind a client sends: LoadProfile
          Pause,     \* mixed_pause_seconds, in ticks
          Configs    \* the scenarios and surfaces the script may be called with

Scenarios == {"mixed", "fast", "flood", "two-agent"}
Roles == {"mixed", "fast", "flood", "normal", "runaway"}
Surfaces == {"rest", "mcp"}
Kinds == {"read", "write", "batch", "mcp"}

\* What the limiter sees of rest_read_spec, rest_write_spec, rest_batch_spec and
\* mcp_request_spec.
RequestOf(id, kind) ==
    [header |-> id, host |-> "127.0.0.1",
     method |-> IF kind = "read" THEN "GET" ELSE "POST",
     path |-> CASE kind = "mcp" -> "/mcp" [] kind = "batch" -> "/memories/batch"
                [] OTHER -> "/memories"]

Copies(kind, n) == [i \in 1 .. n |-> kind]

\* mixed_rest_specs: batches beyond the longer of the two other lists are not sent.
MixedRest(p) ==
    Seqs!FlattenSeq([i \in 1 .. (IF p.mixed_reads > p.mixed_writes THEN p.mixed_reads
                                                              ELSE p.mixed_writes) |->
        (IF i <= p.mixed_writes THEN <<"write">> ELSE << >>)
        \o (IF i <= p.mixed_batches THEN <<"batch">> ELSE << >>)
        \o (IF i <= p.mixed_reads THEN <<"read">> ELSE << >>)])

\* The requests of a client, in the order of its list.
SpecsOf(role, surface, p) ==
    IF surface = "mcp" THEN Copies("mcp", p.mcp[role])
    ELSE CASE role = "mixed" -> MixedRest(p)
           [] role = "runaway" -> Copies("read", p.reads[role])
           [] OTHER -> Copies("read", p.reads[role]) \o Copies("write", p.writes[role])

\* Whose requests a scenario sends.
RolesOf(scenario) == IF scenario = "two-agent" THEN {"normal", "runaway"} ELSE {scenario}

AtOnce(role) == role \in {"flood", "runaway"}
PauseOf(role) == IF role \in {"mixed", "normal"} THEN Pause ELSE 0

\* run_stress_suite: every scenario on every surface.
Suite(config) ==
    Seqs!FlattenSeq([s \in DOMAIN config.scenarios |->
        [t \in DOMAIN config.surfaces |->
            [scenario |-> config.scenarios[s], surface |-> config.surfaces[t]]]])

\* How many requests of a list are of a kind.
Number(specs, kind) == Cardinality({i \in DOMAIN specs : specs[i] = kind})

KindBucket == [k \in Kinds |-> BucketOf(RequestOf("", k))]

\* How many of a list's requests go to a bucket.
Share(specs, bucket) == Cardinality({i \in DOMAIN specs : KindBucket[specs[i]] = bucket})

\* A client that stays within every limit, however fast it is.
Modest(specs, limits) == \A b \in BucketNames : Share(specs, b) <= limits[b]

\* The defaults of LoadProfile, and those of app/config.py.
LoadProfile ==
    [mixed_reads |-> 40, mixed_writes |-> 8, mixed_batches |-> 2,
     reads |-> [fast |-> 150, flood |-> 500, normal |-> 40, runaway |-> 300],
     writes |-> [fast |-> 40, flood |-> 100, normal |-> 6],
     mcp |-> [mixed |-> 80, fast |-> 300, flood |-> 500, normal |-> 60, runaway |-> 300]]
DefaultLimits == [reads |-> 120, writes |-> 30, batch |-> 10, mcp |-> 240]

\* scripts/README.md:105 and 111: by default the mixed session and the normal agent
\* "fit comfortably", the others do not.
ASSUME DefaultsAssumption ==
    \A role \in Roles, surface \in Surfaces :
        Modest(SpecsOf(role, surface, LoadProfile), DefaultLimits)
            <=> role \in {"mixed", "normal"}

\* A client's name holds its role and its surface, and is short and without blanks.
ASSUME ClientAssumption ==
    /\ \A x, y \in Roles \X Surfaces : ClientId[x] = ClientId[y] => x = y
    /\ \A x \in Roles \X Surfaces : Normal[ClientId[x]] = ClientId[x] /\ ClientId[x] # ""

\* Nobody else uses the service.
ASSUME RequestsAssumption ==
    Requests = {RequestOf(ClientId[x], k) : x \in Roles \X Surfaces, k \in Kinds}

\* What the profile counts are natural numbers.
ASSUME ProfileAssumption ==
    /\ Pause \in Nat
    /\ \A role \in Roles, surface \in Surfaces : SpecsOf(role, surface, Profile) \in Seq(Kinds)

\* The script is called with scenarios and surfaces it knows, each once.  It would run
\* one that is named twice a second time, as clients with ids of their own.
ASSUME SuiteAssumption ==
    \A c \in Configs :
        /\ Suite(c) \in Seq([scenario : Scenarios, surface : Surfaces])
        /\ \A i, j \in DOMAIN Suite(c) : Suite(c)[i] = Suite(c)[j] => i = j

VARIABLES config,  \* what the script was called with
          step,    \* the position in the suite
          outcome, \* running, aborted or reported
          todo,    \* role -> the requests still to be sent
          flying,  \* role -> kind -> requests on their way
          ready,   \* role -> the instant its pause is over
          counts,  \* role -> status -> answers: status_counts
          started, \* time.perf_counter() when the scenario began
          results  \* the ScenarioResults so far

job == <<todo, flying, ready, counts, started>>
harness == <<config, step, outcome, job, results>>
allVars == <<vars, harness>>

Statuses == {"passed", "failed", "429"}
NothingFlying == [k \in Kinds |-> 0]

Scenario == Suite(config)[step]
Running == DOMAIN todo
Id(role) == ClientId[<<role, Scenario.surface>>]

HarnessInit ==
    /\ Init
    /\ config \in Configs
    /\ step = 0
    /\ outcome = "running"
    /\ todo = << >> /\ flying = << >> /\ ready = << >> /\ counts = << >>
    /\ started = 0
    /\ results = << >>

-----------------------------------------------------------------------------
Over == \A role \in Running :
           /\ todo[role] = << >> /\ flying[role] = NothingFlying
           /\ ready[role] <= now

\* The next scenario begins; nothing is left of the last one but its results.
BeginScenario ==
    /\ outcome = "running" /\ Running = {} /\ step < Len(Suite(config))
    /\ step' = step + 1
    /\ LET begun == Suite(config)[step + 1]
           roles == RolesOf(begun.scenario)
       IN  /\ todo' = [r \in roles |-> SpecsOf(r, begun.surface, Profile)]
           /\ flying' = [r \in roles |-> NothingFlying]
           /\ ready' = [r \in roles |-> now]
           /\ counts' = [r \in roles |-> [s \in Statuses |-> 0]]
    /\ started' = now
    /\ UNCHANGED <<vars, config, outcome, results>>

\* Faulty: the answer is not awaited.
SendNextUnawaited(role) ==
    /\ ~AtOnce(role)
    /\ todo[role] # << >> /\ ready[role] <= now
    /\ todo' = [todo EXCEPT ![role] = Tail(@)]
    /\ flying' = [flying EXCEPT ![role][Head(todo[role])] = @ + 1]
    /\ UNCHANGED <<vars, config, step, outcome, ready, counts, started, results>>

\* run_sequence: the next request, when the last one was answered and the pause is
\* over.
SendNext(role) ==
    /\ ~AtOnce(role)
    /\ todo[role] # << >> /\ flying[role] = NothingFlying /\ ready[role] <= now
    /\ todo' = [todo EXCEPT ![role] = Tail(@)]
    /\ flying' = [flying EXCEPT ![role][Head(todo[role])] = 1]
    /\ UNCHANGED <<vars, config, step, outcome, ready, counts, started, results>>

\* run_concurrent: everything at once.
SendAll(role) ==
    /\ AtOnce(role)
    /\ todo[role] # << >>
    /\ todo' = [todo EXCEPT ![role] = << >>]
    /\ flying' = [flying EXCEPT ![role] = [k \in Kinds |-> Number(todo[role], k)]]
    /\ UNCHANGED <<vars, config, step, outcome, ready, counts, started, results>>

Counted(role, kind, status) ==
    /\ flying[role][kind] > 0
    /\ flying' = [flying EXCEPT ![role][kind] = @ - 1]
    /\ counts' = [counts EXCEPT ![role][status] = @ + 1]
    /\ ready' = [ready EXCEPT ![role] = now + PauseOf(role)]
    /\ UNCHANGED <<config, step, outcome, todo, started, results>>

\* The service lets a request through, and answers it one way or the other.
Pass(role, kind) ==
    /\ \E status \in {"passed", "failed"} : Counted(role, kind, status)
    /\ Admit(KeyOf(RequestOf(Id(role), kind)))

Deny(role, kind) ==
    /\ Counted(role, kind, "429")
    /\ Reject(KeyOf(RequestOf(Id(role), kind)))

\* Faulty: a request that fails is left out, and the script goes on.
FailSkipped(role, kind) ==
    /\ flying[role][kind] > 0
    /\ flying' = [flying EXCEPT ![role][kind] = @ - 1]
    /\ UNCHANGED <<vars, config, step, outcome, todo, ready, counts, started, results>>

NoJob ==
    /\ todo' = << >> /\ flying' = << >> /\ ready' = << >> /\ counts' = << >>
    /\ started' = 0

\* client.request raises: there will be no report.
Fail(role, kind) ==
    /\ flying[role][kind] > 0
    /\ outcome' = "aborted"
    /\ NoJob
    /\ UNCHANGED <<vars, config, step, results>>

\* The runner returns its ScenarioResults.
EndScenario ==
    /\ Running # {} /\ Over
    /\ results' = Append(results,
                         [scenario |-> Scenario, duration |-> now - started, counts |-> counts])
    /\ NoJob
    /\ UNCHANGED <<vars, config, step, outcome>>

\* write_html_report
Report ==
    /\ outcome = "running" /\ Running = {} /\ step = Len(Suite(config))
    /\ outcome' = "reported"
    /\ UNCHANGED <<vars, config, step, job, results>>

HarnessNext ==
    \/ BeginScenario \/ EndScenario \/ Report
    \/ \E role \in Running : SendNext(role) \/ SendAll(role)
    \/ \E role \in Running, kind \in Kinds :
          Pass(role, kind) \/ Deny(role, kind) \/ Fail(role, kind)
    \/ outcome = "running" /\ Tick /\ UNCHANGED harness

HarnessSpec == HarnessInit /\ [][HarnessNext]_allVars

-----------------------------------------------------------------------------
(* Properties.                                                             *)

\* The ScenarioResult's accepted_by_limiter and total_requests.
AcceptedBy(c) == c["passed"] + c["failed"]
TotalOf(c) == AcceptedBy(c) + c["429"]

Smaller(m, n) == IF m < n THEN m ELSE n
Sum(f) == f["reads"] + f["writes"] + f["batch"] + f["mcp"]

Airborne(role) ==
    LET f == flying[role] IN f["read"] + f["write"] + f["batch"] + f["mcp"]

\* Type correctness; requests are to be sent, on their way or counted, and none is lost.
HarnessTypeOK ==
    /\ TypeOK
    /\ outcome \in {"running", "aborted", "reported"}
    /\ step \in 0 .. Len(Suite(config)) /\ Len(results) \in {step, step - 1}
    /\ Running # {} => Running = RolesOf(Scenario.scenario)
    /\ \A role \in Running :
          /\ todo[role] \in Seq(Kinds) /\ flying[role] \in [Kinds -> Nat]
          /\ ready[role] \in Nat /\ counts[role] \in [Statuses -> Nat]
          /\ Len(todo[role]) + Airborne(role) + TotalOf(counts[role])
                = Len(SpecsOf(role, Scenario.surface, Profile))
          /\ ~AtOnce(role) => Airborne(role) <= 1

\* scripts/README.md:111, "the normal client should continue to avoid 429s while the
\* runaway client is limited": a client that sends no more than its limits allow is
\* never refused, whatever the other client and the clients before it did.
ModestNeverDenied ==
    \A role \in Running :
        Modest(SpecsOf(role, Scenario.surface, Profile), Limits) => counts[role]["429"] = 0

\* scripts/README.md:108, "the accepted count is near the configured per-minute bucket
\* limit": it is at least the limit, and no more than the limit for every window
\* the scenario can have touched; less only if less was sent.
AcceptedNearLimit ==
    \A i \in DOMAIN results : \A role \in DOMAIN results[i].counts :
        LET specs == SpecsOf(role, results[i].scenario.surface, Profile)
            windowsTouched == results[i].duration \div Window + 1
            within(n) == Sum([b \in BucketNames |-> Smaller(Share(specs, b), n * Limits[b])])
        IN  AcceptedBy(results[i].counts[role]) \in within(1) .. within(windowsTouched)

\* The report is about every request of the suite or there is none: its totals are
\* what the profile says, and what it calls accepted is what the limiter admitted.
ReportAddsUp ==
    outcome = "reported" =>
        /\ Len(results) = Len(Suite(config))
        /\ \A i \in DOMAIN results :
              /\ DOMAIN results[i].counts = RolesOf(Suite(config)[i].scenario)
              /\ \A role \in DOMAIN results[i].counts :
                    LET c == results[i].counts[role]
                        surface == Suite(config)[i].surface
                        id == ClientId[<<role, surface>>]
                    IN  /\ TotalOf(c) = Len(SpecsOf(role, surface, Profile))
                        /\ AcceptedBy(c) = Sum([b \in BucketNames |-> Len(admitted[<<id, b>>])])
=============================================================================

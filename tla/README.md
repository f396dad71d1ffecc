# Verification of the memories API

The program under `src/` is a local service that stores short memories for
assistants. A FastAPI application (`app/main.py`) serves REST routes and, mounted
under `/mcp`, an MCP server (`app/mcp_server.py`); the same MCP server also runs
alone over stdio. Both reach one SQLite file through `app/storage.py` and
`app/db.py`. This directory holds TLA+ models of it, TLC configurations that
check them on small instances, and proofs checked by TLAPS.

To check a configuration: `tlc -config store_race.cfg MCMemoryStore`. To check the
proofs: `tlapm MemoryStore_proofs.tla`.

## Inventory

| Part | State | Operations | What is hard | What makes it correct |
| --- | --- | --- | --- | --- |
| storage (`storage.py`) | the table `memories` | create, batch, get, page, refresh, update, delete | every operation is several SQL statements on a connection of its own, interleaved with those of other threads and processes; optimistic locking; commits that time out or die | no acknowledged write is lost, a version identifies a content, a 409 is a real conflict, pages are consistent, batches are atomic |
| schemas (`schemas.py`) | none | validation of bodies, patches, queries | a PATCH field can be absent, null or a value | what passes can be stored and read back |
| connections (`db.py`) | SQLite's locks, the set of initialised files, a `threading.Lock` | connect, initialise once, readiness | lock waits, `busy_timeout`, first use by several threads, files that vanish | no deadlock; no connection without a table |
| rate limiter (`request_limits.py`) | one dictionary of windows per process | `check`, pruning, identity and bucket | instants at window boundaries, two clocks, rounding | bursts are bounded, nobody is refused early, headers can be relied on |
| HTTP middleware (`main.py`, `request_limits.py`, `request_context.py`, `request_logging.py`) | per request: id, buffered body | origin check, limiter, body limits, log record, headers | every early return and exception path must log and label the response; the client can go away | one record and one id per request, no oversized body reaches a handler |
| REST routes (`main.py`) and MCP tools (`mcp_server.py`) | none | map requests to storage operations and outcomes to answers | `prime_memory_context` is two committed pages | see storage |
| configuration (`config.py`, `create_app` and `lifespan` of `main.py`) | origins, limits and warnings, read once at start | environment variables, a JSON file of allowed origins | malformed values; a file that is edited or removed between two looks at it | what is used is what was asked for or the safe default, nothing is dropped in silence, every start ends and few things can stop it |
| stress harness (`scripts/rate_limit_stress.py`) | per client: requests to send, statuses counted; results of the scenarios | clients in sequence, paced or at once, against the limiter; a report | hundreds of requests in flight beside a paced client, timeouts, windows that end in a scenario | nothing lost or counted twice, a client within its limits is never refused, the report is true or there is none |
| issue and review workflows (`.github/workflows`) | labels, comments and branches on GitHub | implement an issue, review a pull request | events cancel one another | |
| skill validator, CI | none | static checks | | |

How they interact: a request passes the middleware (event loop), then its handler.
REST handlers run on a thread pool, one thread per request; MCP tools run on the
event loop of their process; a stdio MCP server is another process. Handlers share
nothing in memory but the limiter and the set of initialised files. Everything
else is shared through the database file, whose locks are the only synchronisation.

The hazards of this code are listed with their lines in `PROJECT.json`.

## Modules

| Module | Models |
| --- | --- |
| `MemoryModel`, `MemoryModel_proofs` | the data: memories, bodies, patches, queries; merging a patch, selecting and ordering a page (`schemas.py`, the SQL of `storage.py`); lemmas on merging, ordering and paging |
| `MemoryContract` | abstract specification: how the committed table may change between two states another connection can see |
| `MemoryStore` | the storage operations, statement by statement, by workers of several processes over SQLite's locks; implements `MemoryContract` |
| `MCMemoryStore`, `MemoryStore_proofs` | its instances (seeds and request mixes) and its proofs |
| `PageWalk` | a client that collects a query's matches page by page while others write: the pagination of `GET /memories` and `search_memories` over time, on the data of `MemoryModel` |
| `MCPageWalk`, `PageWalk_proofs` | its instance, whose searches are those of `TextFilter`, and its proofs |
| `TextFilter` | pure operators: stripping, lower-casing and escaping a filter, SQLite's `LIKE` (`schemas.py`, `_escape_like_pattern`) |
| `Retrieval` | a text, a filter and the service's answer: `TextFilter` against what a search promises |
| `RateLimiter` | `FixedWindowRateLimiter` with identity, bucket and headers |
| `MCRateLimiter`, `RateLimiter_proofs` | its instance and its proofs |
| `DbInit` | `get_connection`, `init_db` and readiness meeting a file that may not be there |
| `MCDbInit`, `DbInit_proofs` | its instance and its proofs |
| `HttpPipeline` | a request's way through `enforce_request_safety`, the CORS middleware and the exception handler, on one event loop; composes `RateLimiter` |
| `MCHttpPipeline`, `HttpPipeline_proofs` | its instance and its proofs |
| `ConfigLoad` | the start of a process: the file of origins and the environment, with the file changing meanwhile (`config.py`) |
| `MCConfigLoad`, `MCInputs` | its instance; the same beside the searches of `Retrieval` |
| `Inputs_proofs` | the proofs about `ConfigLoad` and about `Retrieval`, which share their inductions over sequences |
| `StressHarness` | the stress script as clients of `RateLimiter` |
| `MCStressHarness`, `StressHarness_proofs` | its instance and its proofs |

Some modules hold definitions whose comment starts with "Faulty:". They are the
definition that follows them with a mistake such code could have. They take no
part in the specification; they are substituted for it to confirm that a property
notices the mistake.

### MemoryStore and the code

A worker is a thread that serves one request at a time. `pc` names the next
statement of its code, `seen` is what its last SELECT returned, `stamp` its
`current_timestamp()`, `kept` the memories of its response, `code` how the request
ended. `rows` is the committed table, `staged` the table inside the one open write
transaction, and `writer`, `pending`, `readers` are SQLite's locks.

| Action | Code |
| --- | --- |
| `Submit` | a request reaches a REST route or an MCP tool |
| `FetchMiss`, `FetchForRead`, `FetchForWrite` | `_fetch_visible_memory_row` and what `get_memory`, `update_memory`, `delete_memory` do before their UPDATE |
| `Stamp`, `EmptyBatch` | `current_timestamp()`; a batch of nothing |
| `Insert` | one INSERT of `create_memory` or `create_memory_batch` |
| `Touch` | the UPDATE of `get_memory` and `refresh_memories_last_accessed` |
| `Write` | the conditional UPDATE of `update_memory` and `delete_memory` |
| `Conflict`, `Constraint` | rowcount 0; an IntegrityError from a null |
| `BeginCommit`, `Publish` | `connection.commit()` in SQLite's two stages |
| `BeginPage`, `ReadPage` | `get_memories_page`: BEGIN and COUNT; SELECT and the end of the read transaction |
| `Timeout` | `busy_timeout` runs out while another connection is in the way |
| `Crash` | a process dies with all its requests |

What the model assumes of SQLite is the default of `sqlite3.connect`: rollback
journal, a deferred transaction opened by the first INSERT or UPDATE, a SELECT
outside a transaction finished when its row is fetched. The wait for a lock is a
blocked action; `Timeout` may end it at any moment, so its length is abstracted. A
DELETE or PATCH whose row has tags that are no list raises before its UPDATE; a GET
raises after its commit, because that is where the code makes a `Memory` of the
row. A PATCH that leaves a null in `tags` answers 200: FastAPI does not validate
again an instance of the declared model.

Data are abstracted: contents and tags are model values, `Mentions` says which of
them contain which search term, a timestamp is a natural number (0 is NULL), and
the clock never goes back. MCP tools run on one event loop and so interleave less
than the model allows.

### PageWalk and the code

`query` is what the client searches, at the offset it has reached; `got` are the ids
it has received. A page request is the two transactions `MemoryStore` shows to be
atomic, so here each is one step.

| Action | Code |
| --- | --- |
| `ReadPage` | `get_memories_page`, one snapshot, with a `Memory` of every row |
| `FailPage`, `AskAgain` | a row of the page whose tags are null: `_row_to_memory` raises, the client gets a 500 and asks again |
| `Refresh` | `refresh_memories_last_accessed`, with a timestamp taken since the page was read |
| `Deliver` | `has_more` of the envelope; the client adds the number of items to its offset |
| `Retry` | the request fails after the read, or its answer is lost after the commit, and the client asks for the same page again |
| `Create`, `Revise`, `Access` | one commit of another client, as `MemoryContract` allows it (`WalksKeepContract`) |

The client that stops when `has_more` is false is the one the envelope invites; it is
no code of the repository and marked external. A walk starts at offset 0.

### TextFilter, Retrieval and the code

A text is a sequence over eight characters, one for every sort the code or SQLite
tells apart: a small and a capital ASCII letter, the same letter with an accent, the
two wildcards, the escape character and the blank. `Strip`, `Accepted` and `Escaped`
are the code's; `Like`, `FoldSql` and `FoldPython` are what SQLite's and Python's
documentation say and are marked external. `Like` works through the pattern from its
end and keeps the set of places in the text from which the rest can match; the
property speaks of the existence of an occurrence: neither is a rewording of the other. `Retrieval` stores a text as content or tag and asks for it
with `q` (`Search`) or `tag` (`Select`); a filter of blanks is refused (`Refuse`).

### RateLimiter and the code

`windows` is the limiter's dictionary. `check` has no await, so a call is one step:
`Admit` or `Reject`, each with the pruning that precedes it. Time is discrete, in
ticks finer than a second so that rounding up matters, and the wall clock runs at a
constant offset from the monotonic one. `admitted`, `retryAt` and `resetAt` are
history: when each key was admitted, and what its last 429 promised. Only processes
with rate limiting enabled are modelled; without it `check` is never called. Each
process has a limiter of its own (README.md:212), so with several processes the
bounds hold per process.

### DbInit and the code

A thread's call passes `_ensure_db_initialized` and `_initialize_database` step by
step: `FastPath` (the look without the lock), `Lock`, `Recheck`, `Open`, `Schema`,
`Register`, then `Connect` and `Use`. `init_db` takes the lock and skips the looks; a
readiness check is a `get_connection` that turns what it meets into a failed check.
`known` is `_INITIALIZED_DATABASE_FILES` and `lock` its `threading.Lock`, both lost
with their process. `sqlite3.connect` creates the file it does not find, empty, and
each DDL statement commits by itself, so that other threads and processes see the
file between `Open` and `Schema`. Files are numbered, so that a connection to a
removed file is told from one to its successor. `Fail` is an exception while the file is
initialised, `Raise` one at the connect of `get_connection` or in the caller's
statement, `Remove` somebody's removal of the file, `Crash` the death of a process.
A file put in place of the removed one by somebody else is not modelled.

### HttpPipeline and the code

The middleware runs on one event loop, so what a request does between two awaits is
one step, and the steps of other connections come between. From outside to inside a
request meets Starlette's ServerErrorMiddleware, `enforce_request_safety`, the CORS
middleware (added earlier, therefore further inside) and the routes.

| Action | Code |
| --- | --- |
| `RefuseOrigin`, `RefuseRate`, `RefuseLength`, `Start` | everything up to the first await, by where it ends: 403, 429, 413 for a declared length, or on to the body or the application |
| `Buffer`, `RefuseBody`, `Forward` | a chunk kept, a chunk too many, the end of the stream and the replaying `_receive` |
| `Lost` | `ClientDisconnect` out of the stream, ahead of the try-statement |
| `Respond`, `Raise` | `call_next` returns or raises |
| `Unhandled` | `unhandled_exception_response`, called by ServerErrorMiddleware |
| `Finish`, `Disconnect` | the HTTP server has sent, or dropped, the response; the client leaves |

`Limiter == INSTANCE RateLimiter` shares the limiter's variables: every head that
passes or is refused takes one of its steps, in the same step as the middleware's.
The limiter bounds admissions, not the start of handlers: a request may lie in
`read` while its window ends, and a 413 costs budget. A given id and a made one are
distinguished (`<<"given", x>>`, `<<"made", n>>`), as a UUID is not guessed. Bodies
are counted in units. A malformed Content-Length is refused by the HTTP server
before the application sees it. A client may be slow for ever, for the code has no
timeout there. A connection carries one request at a time.

### ConfigLoad and the code

`phase` is where `create_app` and `lifespan` are. The file counts for what
`json.loads` makes of it: missing, unreadable, malformed, no object, no list, one that
raises an exception nobody expects (not UTF-8, nested too deeply, with an integer of
too many digits), or a list of entries, each of them an origin or wrong in one of two
ways; a file without the key `browser_clients` is a list of nothing. A variable's text
counts for what `int()` or the list of Boolean words make of it.

| Action | Code |
| --- | --- |
| `NoFile`, `FindFile` | `exists()` |
| `ReadEntries`, `ReadUseless` | `read_text`, `json.loads` and what becomes of the entries; every failure that is caught, the file that has gone since `exists()` included |
| `ReadUnexpected` | what is raised and not caught: `UnicodeDecodeError`, `RecursionError`, a plain `ValueError` |
| `LoadSafety` | `load_safety_config`, all variables |
| `Serve`, `GiveUp` | `lifespan` logs the warnings; `init_db` and the session manager of MCP come up, or one of them raises |
| `Edit`, `Restart` | the operator, at any moment |

`offered` is history: what the file has been since this start. `exists()` is taken not to
raise, for the file lies beside the code that was just imported.

### StressHarness and the code

| Action | Code |
| --- | --- |
| `BeginScenario`, `EndScenario` | one entry of `SCENARIO_RUNNERS` on one surface; its `ScenarioResult`s |
| `SendNext` | `run_sequence`: the next request, when the last was answered and the pause is over |
| `SendAll` | `run_concurrent`: `asyncio.gather` over the whole list |
| `Pass`, `Deny` | the limiter lets a request through or answers 429, and the status is counted |
| `Fail` | `client.request` raises: nothing catches it, and there is no report |
| `Report` | `write_html_report` |

The module extends `RateLimiter`: `Pass` and `Deny` are its `Admit` and `Reject`. The
limiter's decision and the arrival of the answer are one step, for nothing looks at
the answer in between; how long a request is on its way before that is left open.
After an abort the requests still in flight are left out, since nobody counts them.
`mixed_rest_specs` sends no batches beyond the longer of its two other lists, which
`MixedRest` repeats. A client's name is made of role, surface and a random number,
and is therefore no other client's. Nobody else uses the service. The parser of the
arguments lets a scenario be named twice, which `SuiteAssumption` leaves out: the
script would run it again as clients with new names.

## Runs

| Run | Instance | Checks | Shows |
| --- | --- | --- | --- |
| `store_race` | 3 workers, 2 processes, 1 memory, GET, DELETE and two PATCHes of different fields, 3 requests | `VersionIdentifiesContent`, `ConflictIsReal`, `NoDeadlock`, `RefinesContract` | races of readers and writers on one row |
| `store_edges` | 2 workers, 2 memories of two types, PATCHes with nulls and without effect, pages, the bootstrap, batches, a creation, a retirement, 2 requests | `TypeOK`, `PageMatchesTotal`, `WholeBatch`, `EveryRequestAnswered` | the edge of what validation lets through; consistency of what spans several statements; nothing waits for ever |
| `walk` | 3 memories, or 4 with a retired one; 7 walks: every order, limits 1 and 2, one with a filter; 2 steps of others or repetitions, timestamps up to 1 instant old | `TypeOK`, `IdWalkNeverTwice`, `IdWalkMissesFew`, `AccessWalkNeverTwice`, `QuietWalkIsExact`, `WalkAdvances`, `WalkEnds` | what a walk can receive twice and what it can miss, and how it ends |
| `limiter` | 2 identities, limit 2, window of 4 half-second ticks, instants 0 to 8 | `TypeOK`, `BurstBound`, `OverLimitOnly`, `RetryIsEnough`, `RetryIsTight` | behaviour at window boundaries |
| `dbinit` | 3 threads, 2 processes, 3 calls, a removal and a crash | `TableUnlessRemoved`, `InitializedOnce`, `EmptyFileExplained`, `EveryCallReturns` | first use, and use after a removal or a failed initialisation |
| `http` | 2 connections, 3 requests of five kinds, limit 1, window of 1 tick, body limit 2, chunks of 1 or 2 | `LoggedAsAnswered`, `IdsTellRequestsApart`, `BodiesWholeAndBounded`, `NoFreeRide`, `UsesLimiter`, `ServiceAnswers` | every way through the middleware beside another request on any other |
| `inputs` | 2 origins, all kinds of broken files, lists with good and bad entries, usable and unusable environments, 3 edits or restarts; all texts and all filters of 1 to 3 characters out of 8 | `OneVersionOfTheFile`, `SilenceIsObedience`, `LimitsSurviveTypos`, `SearchIsLiteral`, `NothingSpurious`, `ComesUp` | a start beside an operator; what `q` selects |
| `harness` | limits 1 and 2, window of 2 ticks, instants 0 to 4, 5 suites of up to two scenarios | `HarnessTypeOK`, `ModestNeverDenied`, `AcceptedNearLimit`, `ReportAddsUp` | the script's reports can be relied on |

Bounds. Three requests are enough for a lost update, a real conflict beside a
spurious one, and a writer overtaken twice; workers are reused, so they also cover
a request that follows another on one thread. In `store_race` all requests aim at
one memory, because operations on different rows interact only through the locks
and the page queries, which `store_edges` covers. The limiter runs over two
whole windows, and a limit of 2 distinguishes a full window from a half-used
one. The five requests of `http` are one of unknown length, one that fits, one of a
foreign page, one that declares too much and one that is exempt from limits. A chunk
of two units after one of one crosses the body limit, two instants are a window and
its successor, and three requests on two connections also reuse a connection.
In `walk` two steps of others are enough for one that shifts the boundary of a page
and one that makes up for it, or for a repetition beside a change; three memories are
three pages of one or a full and a half-full page of two. An escape sequence is two
characters and a term with a wildcard between letters three, hence the lengths of
`inputs`, whose three edits are a file that is there, gone, and there again within one
start. `inputs` puts two small instances into one run, starts of a process and searches:
they have no variable in common, so a behaviour is one of either. The `harness` profile has clients exactly at a limit and clients
one and more above it, and scenarios that span two windows.

Two workers of one process are interchangeable, which is the symmetry `store_race`
uses; runs with a liveness property use none. `limiter`, `harness`, `inputs` and
`search_tags` do not check deadlock: the clock, the answers and the edits are bounded, so
their behaviours end in states without a successor that mean nothing (the bound is
reached, the filter is answered, the process serves). The other runs check it, with a
`Terminating` or `Terminated` step for the state in which everything has been done.

Fairness. `EveryRequestAnswered` assumes `WF_vars(Step(w))` for each worker: the
operating system schedules threads, and a blocked SQLite call ends by itself, by
getting its lock or by `busy_timeout`. Nothing is assumed of clients (`Submit`) or
of crashes. `EveryCallReturns` assumes the same of the threads of `DbInit`:
`threading.Lock` is released by whoever holds it, a thread that waits can be passed over
only by other calls, and those are bounded. `ServiceAnswers` assumes `WF_vars(Step(c))`
for each connection: the event loop runs what is ready, and the application returns or
raises, which is what the other two properties show of it. Nothing is assumed of
clients: neither the rest of a body nor a disconnect has to come. `WalkEnds` assumes
`WF_vars(Walk)`: the client goes on and its requests are answered, which
`EveryRequestAnswered` shows of the storage layer. Its premise is that others leave the
table alone from some moment on, and that from then on answers arrive; the bound
`MaxEvents` makes this true of every behaviour of the run, but the code alone does not.
`ComesUp` assumes `WF_vars(Startup)`: a process that has been started runs; the
operator need not do anything. That `init_db` returns or raises is `EveryCallReturns`;
that the session manager of MCP does is taken for granted.

What `dbinit` tells of the design. Both looks call `exists()`, so a file that was
removed between calls comes back with its table. A removal in the middle of a call,
after the look and before `sqlite3.connect`, leaves an empty file, which both looks
take for an initialised one until the process restarts: `EmptyFileExplained` allows
exactly this, a crash and a failure before the DDL, and nothing else. After a crash
or a failure the process does not remember the file and initialises it at its next call.

What `walk` tells of pagination. In id order a walk over everything receives nothing
twice, and can miss no more memories than have been retired among those it had
already received. In the order of `last_accessed_at` each page moves itself to the
top, where the offset counts it: it works, but only while nobody else accesses a
memory and no answer is lost, because a repeated request reads another page. When
nobody interferes every order gives every match once. A client that is told to go on has
always moved ahead (`WalkAdvances`), but nothing says that it gets to an end: with one
memory a page, a memory created for every page keeps `has_more` true for as long as that
goes on. `WalkEnds` is what remains: once the others are done the walk ends, wherever
the table has got to, or it has come to a page with a row whose tags are null (see
`store_tags`), which fails whenever it is asked for.

What `inputs` tells of a start. Whatever the environment and whatever is wrong with the
file, the process comes up with what was asked for or with less, and says so. What can
keep it down are the exceptions of `config_encoding`, while the file is read, and an
`init_db` or a session manager that raises (`ComesUp`).

What `inputs` and `search_tags` tell of retrieval. SQLite folds the case of ASCII letters
only, so a text with an accented capital is not found by that text itself; matches are
lost, none is invented. A tag with a blank at an end can be stored and never be selected;
every other tag selects itself (`TagsSelectThemselves`).

### Where the code and its documentation disagree

Each of these runs ends in a counterexample.

| Run | Statement | What the code does |
| --- | --- | --- |
| `store_tags` | tags are "A list of keywords or labels" (data_object_schema.md:90) | `PATCH {"tags": null}` stores the text `null`; every later read of the row raises |
| `http_lost_record` | "one JSON request log record per HTTP request" (README.md:177) | a request whose client leaves while its body is read is not logged: the read is ahead of the try-statement |
| `config_encoding` | "If the local file exists but is invalid, the app logs a warning and denies browser-based MCP access instead of failing startup." (README.md:131) | `read_text` of a file that is not UTF-8 raises `UnicodeDecodeError`, and `json.loads` a `RecursionError` for deep nesting or a plain `ValueError` for an integer of too many digits, none of which is caught: `app.main` cannot be imported |
| `search_tags` | "`tag` is exact matching against the stored tag list." (data_object_schema.md:289; README.md:146: "`tag` matches exactly.") | the filter is stripped, the stored tag is not: a tag with a blank at an end is not selected by the very same text |

Smaller disagreements that no run keeps: `q` is not case-insensitive for letters outside
ASCII (README.md:147 says it is; `SearchIsLiteral` leaves such texts out); DELETE increments `version`
(data_object_schema.md:251 says only PATCH does); `prime_memory_context` commits the
access to the preferences even if the identities fail (data_object_schema.md:312,
"Only returned rows are refreshed."); `last_accessed_at` can go back, because its
timestamp is taken before waiting for the write lock; 429 and 413 are made outside the
CORS middleware, so that a page of an allowed origin cannot read their headers.

## Proofs

For every value of the constants, from `ModelAssumption` and `StoreAssumption`
(`MemoryStore_proofs`): `TypeOK`, `VersionIdentifiesContent`, `ConflictIsReal`,
`NoDeadlock`, and `RefinesContract`. None but the first is inductive. `IInv`
strengthens them, in named parts:

- `LockInv`: who can hold which lock at which `pc`, and that the staged table is the
  committed one when nobody writes;
- `FlowInv`: which statements a kind of request can be at;
- `TableInv`: ids are positions, and the staged table differs from the committed one
  by a change the contract allows;
- `SeenInv`, `KeptInv`: a copy a worker read, or is about to answer with, agrees
  with the table it came from: committed or, for a writer, staged;
- `StampInv`: no timestamp is ahead of the clock, and a writer's is not behind the
  row it read;
- `IntentInv`: a worker that will UPDATE has one readable row in hand and really
  changes it;
- `LossInv`: a worker that found its row moved has seen an older version than the
  table's.

The argument in one sentence: under the write lock the staged table differs from
the committed one by this worker's change alone, the conditional UPDATE fires only
if the version is the one read, and the version grows with every change of a body,
so a copy with the current version has the current body. `TableChanges` turns this
into the refinement: every step publishes one contract change or leaves the table.

`PageMatchesTotal` and `WholeBatch` need two more parts. `SnapshotInv`: nobody can
commit between the COUNT and the SELECT of a page, so the items and the total are of
one table until the handler returns, refresh included. `BatchInv`: the open
transaction of a batch has appended exactly the bodies before its cursor and is at its
commit only with all of them, so whatever is published at once is the whole request.
The lemmas about pages (a page is finite, as long as the limit and the matches allow,
and nothing on it comes after what is left out) are in `MemoryModel_proofs`.

From `ModelAssumption` and `WalkAssumption` (`PageWalk_proofs`), for every table a walk
may begin with, every page size and any number of steps of others: all six safety
properties of `PageWalk`. The argument counts. `Covered(G, n)` says that the matches in
`G` and all that is listed before one of them are at most `n` rows, so that a page at
offset `n` has none of them; what was received is covered by the offset. A retired match
makes the rows before fewer; a created one comes last in id order; a memory that others
access would come first in access order, which is why `AccessWalkNeverTwice` excludes
it. In access order the client's own refresh moves the page it has read to the top:
`MovedInv` says where the page is between the two. `MissInv` keeps a count of the live
rows as of the last total, from which `IdWalkMissesFew` follows, and `QuietInv` what
holds while nobody interferes. `WalkAdvances` needs little: `AheadInv` says that an empty
page was read at an offset that is not below its total. `WalkAssumption` has walks begin at instant 1 or later,
as 0 stands for NULL, which sorts as never accessed: a page refreshed at 0 would not
move. `WalksKeepContract` ties the walk to the storage layer: whatever its refreshes and
the others do to the table is a behaviour of `MemoryContract`, which `MemoryStore`
implements.

From `LimiterAssumption` (`RateLimiter_proofs`): all five properties of
`RateLimiter`. `HistoryInv` places a key's admissions: those its window counted lie
inside the window, the older ones before it, and all but a limit's worth of the
older ones more than a window's length before it. A window is replaced only after
it has run out, which keeps this true, and the burst bound follows at every
admission. `PromiseInv` ties the headers to the window that caused the 429. A last
section counts windows: since an instant, a key that was not admitted before it has had
at most one window for every window's length gone by (`Spaced`), and none of them
counts more than the limit.

From `InitAssumption` (`DbInit_proofs`): `TypeOK`, `TableUnlessRemoved`,
`InitializedOnce` and `EmptyFileExplained`. `LockInv` makes the threads of a process
exclude one another between `Lock` and `Register`; `IntactInv` says that while nothing was removed
there is one file and whoever remembers it, or is past the initialisation, finds its
table; `LookInv` that a thread past its last look has a file at the path, or the file
was removed during its call.

From `PipelineAssumption` (`HttpPipeline_proofs`): `TypeOK`; `UsesLimiter`, hence the
burst bound of `RateLimiter` for all connections together (`PipelineBoundsBursts`); then
`LoggedAsAnswered`, `IdsTellRequestsApart` and `BodiesWholeAndBounded`. `LogInv` says
what has been logged and answered at each stage, which includes that a request without
a record in `failing` has lost its client; `IdInv` that the ids made lie behind the
counter; `BodyInv` that while a body is read all that was sent is kept and nothing
handed on. `NoFreeRide` is a count: `RideInv` says that the requests of a key that are
under way behind the limiter are finitely many, whatever the number of connections, and
no more than its admissions. The only step that adds one is an admission.

From `ConfigAssumption` (`Inputs_proofs`): `TypeOK`, which says that what a process
allows is what it made of some version of its file since its start;
`LimitsSurviveTypos`, as `SafetyInv` ties the settings to the environment the process
has; `OneVersionOfTheFile`, from what the loop over the entries keeps of a list of any
length (`GoodKeeps`); and `SilenceIsObedience`, as `SilenceInv` says that a process that
has nothing to warn of has kept every entry of a file that was offered to it.

From `RetrievalAssumption` (`Inputs_proofs`), for texts and filters of any length:
`SearchIsLiteral`, `NothingSpurious`, and `TagSelectsItself` of all tags without a blank
at an end, which is as far as it is true. The three replacements of
`_escape_like_pattern`, one after the other, come to one backslash before each of the
three special characters (`EscapedAppend`): this is where their order matters. The
escaped term is therefore one unit of one or two characters after the other (`Units`),
and `LIKE`, taken from the end of the pattern, passes one unit by going back one place in the
text (`EndsBefore`); between the two wildcards it finds exactly the places where the
term occurs (`LikeContains`). What remains is how Python and SQLite fold the letters of
the alphabet (`Folding`).

Inductions over sequences. The library's induction theorems take an operator as a
parameter, which the provers cannot instantiate. `LeastNumber` derives that a set of
numbers has a least one from the well-foundedness of inclusion among finite sets, `UpTo`
states induction for a set of numbers, and `Recursion` that a function defined step by
step exists. With these three, recursive functions (`Good`, `Like`, the library's
`FlattenSeq`) are proved about like anything else.

From `ClientAssumption`, `RequestsAssumption`, `ProfileAssumption` and
`SuiteAssumption` (`StressHarness_proofs`), for every profile, suite and limits:
`HarnessUsesLimiter`, that what the script does to the service is a behaviour of
`RateLimiter`, hence `BurstBound`; then `HarnessTypeOK`, `ModestNeverDenied`,
`ReportAddsUp` and `AcceptedNearLimit`. `BooksInv` keeps the script's books per client and kind of request:
`Balance` (to send, on their way, counted), `Budget` (admitted, on their way and to
send are never more than the list), `Agreement` (counted as accepted is what the
limiter admitted), `UntouchedInv` (the limiter has not met the clients of later
scenarios) and `Settled` (the results so far). That a modest client is never refused
joins `Budget` to `RateLimiter`'s `OverLimitOnly`: a refusal needs a whole limit of
admissions, and the refused request would be one more than the list has.
`AcceptedNearLimit` has an argument for each side (`NearInv`): a client's whole list is
to be sent, on its way or admitted until the limiter has admitted a whole limit
(`Covered`), which gives the least it is accepted for; and `RateLimiter`'s count of the
windows since the scenario began (`Spaced`) gives the most. Two facts
about constants are assumed and checked by TLC for each instance, as their proof
would be an induction over sequences: that `SpecsOf` and `Suite` are sequences of
kinds, and of scenarios on surfaces.

Only model-checked: `EveryRequestAnswered`, `EveryCallReturns`, `ServiceAnswers`,
`WalkEnds` and `ComesUp`, which are liveness properties and beyond the prover. Every
invariant and every action property that a passing run checks is a theorem.

## Plan

Done, in this order: the storage layer, the limiter, first use of the file, the
middleware; then the walk over pages, the text filters, configuration and the stress
script; then the proofs of every safety property of the runs. To come: the facts about
constants that `ProfileAssumption` and `SuiteAssumption` leave to TLC (what `SpecsOf` and
`Suite` make of the profile and of the command line), with the inductions of
`Inputs_proofs`.

## Not modelled

Texts and their lengths, JSON and HTTP formatting, the MCP transport and its
sessions, indexes (they change no result), MCP resources and prompts (constant
texts), the unused `get_memories` and `_fetch_memory_row`, the HTML of the stress
report and the parsing of its arguments. A database file that is damaged, replaced or
on a file system without locks is outside the model, and so is a wall clock that is
set back. Ids and offsets from 2^63 on, which sqlite3 cannot bind and the schemas let
through, are outside too: the integers of the models have no width.

The issue and review workflows only order commands; what runs at the same time and
what is cancelled is decided by GitHub, of which the repository holds no code. The
skill validator is a static check of files, and the CI job a list of commands:
neither keeps a state.

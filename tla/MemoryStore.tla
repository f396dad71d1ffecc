---------------------------- MODULE MemoryStore ----------------------------
(***************************************************************************)
(* The storage layer (app/storage.py over app/db.py's connections) as it   *)
(* runs: every worker is a thread serving one REST or MCP request at a     *)
(* time, each with a SQLite connection of its own to the one database      *)
(* file.  A step of a worker is a stretch of its code between two points   *)
(* at which another connection can get in: one SQL statement, one reading  *)
(* of the clock, one stage of a commit.                                    *)
(*                                                                         *)
(* SQLite (rollback journal, busy_timeout set) is modelled by what the     *)
(* code relies on: a SELECT outside a transaction sees the committed       *)
(* table; the first write of a transaction takes the RESERVED lock (one    *)
(* writer at a time, readers unaffected); COMMIT takes the PENDING lock    *)
(* (no new readers), waits for the readers inside to leave and publishes   *)
(* the whole transaction; a connection that must wait longer than          *)
(* busy_timeout raises; closing a connection, or the death of its process, *)
(* rolls back.                                                             *)
(*                                                                         *)
(* A definition whose comment starts with "Faulty:" is no part of the      *)
(* specification.  It is its successor with a mistake the code could have, *)
(* kept to confirm that the properties below would notice it.              *)
(***************************************************************************)
EXTENDS MemoryModel

CONSTANTS Workers,     \* threads serving requests
          Processes,   \* the workers of each server process
          NoWorker,    \* nobody holds the write lock
          Requests,    \* the requests clients may send
          Seeds,       \* the tables a run may start from
          MaxRequests  \* bound: requests submitted in a behaviour

VARIABLES rows,    \* the committed table, what a new connection reads
          staged,  \* the table inside the open write transaction, else rows
          writer,  \* the worker holding RESERVED
          pending, \* that worker is committing: PENDING is held
          readers, \* workers inside a read transaction, holding SHARED
          clock,   \* current_timestamp()
          issued,  \* requests submitted so far
          pc,      \* per worker: the next statement of its code
          req,     \* per worker: the request it serves, or served last
          cursor,  \* per worker: position in req's bodies or queries
          seen,    \* per worker: the rows its last SELECT returned
          total,   \* per worker: the COUNT(*) of its page transaction
          stamp,   \* per worker: the timestamp it took
          kept,    \* per worker: the memories of its response
          code     \* per worker: how its last request ended

locks == <<writer, pending, readers>>
store == <<rows, staged, locks>>
vars == <<store, clock, issued, pc, req, cursor, seen, total, stamp, kept, code>>

-----------------------------------------------------------------------------
(* Requests.                                                               *)

Kinds == {"create", "batch", "get", "update", "delete", "list", "prime"}

Request == [kind : Kinds, id : Nat \ {0}, patch : Patch,
            bodies : Seq(NewBody), queries : Seq(Query)]

Creates(r) == r.kind \in {"create", "batch"}
Pages(r)   == r.kind \in {"list", "prime"}

\* create_memory always has its one body; only a batch may be empty.  A list
\* request runs one query, prime_memory_context runs two.
WellFormed(r) ==
    /\ r.kind = "create" => Len(r.bodies) = 1
    /\ r.kind = "list" => Len(r.queries) = 1
    /\ r.kind = "prime" => Len(r.queries) = 2

IsSeed(t) == \A i \in DOMAIN t : t[i] \in Memory /\ t[i].id = i

ASSUME StoreAssumption ==
    /\ NoWorker \notin Workers
    /\ Processes \subseteq SUBSET Workers
    /\ Requests \subseteq Request /\ Requests # {}
    /\ \A r \in Requests : WellFormed(r)
    /\ MaxRequests \in Nat
    /\ Seeds \subseteq Seq(Memory)
    /\ \A t \in Seeds : IsSeed(t) /\ \A i \in DOMAIN t : t[i].updated_at <= 1

Codes == {"none", "ok", "not_found", "conflict", "failed", "lost"}
PCs == {"idle", "fetch", "stamp", "write", "conflict", "constraint",
        "commit", "publish", "count", "page"}

Active(w) == pc[w] # "idle"

Init ==
    /\ rows \in Seeds
    /\ staged = rows
    /\ writer = NoWorker
    /\ pending = FALSE
    /\ readers = {}
    /\ clock = 1
    /\ issued = 0
    /\ pc = [w \in Workers |-> "idle"]
    /\ req \in [Workers -> {CHOOSE r \in Requests : TRUE}]
    /\ cursor = [w \in Workers |-> 1]
    /\ seen = [w \in Workers |-> {}]
    /\ total = [w \in Workers |-> 0]
    /\ stamp = [w \in Workers |-> 0]
    /\ kept = [w \in Workers |-> {}]
    /\ code = [w \in Workers |-> "none"]

-----------------------------------------------------------------------------
(* Building blocks.                                                        *)

Goto(w, label) == pc' = [pc EXCEPT ![w] = label]

\* The request ends: the handler returns its response, or raises.  A handler
\* that does not return leaves its client with no memories.
Reply(w, outcome, memories) ==
    /\ Goto(w, "idle")
    /\ code' = [code EXCEPT ![w] = outcome]
    /\ kept' = [kept EXCEPT ![w] = memories]

CanRead(w) == ~pending
CanWrite(w) == writer \in {NoWorker, w}

\* connection.rollback(), connection.close() and the death of a process
Abandon(W) ==
    /\ readers' = readers \ W
    /\ IF writer \in W
       THEN writer' = NoWorker /\ pending' = FALSE /\ staged' = rows
       ELSE UNCHANGED <<writer, pending, staged>>
    /\ UNCHANGED rows

-----------------------------------------------------------------------------
(* A client's request reaches a worker.                                    *)

Entry(r) == CASE Creates(r) -> "stamp"
              [] Pages(r)   -> "count"
              [] OTHER      -> "fetch"

Submit(w, r) ==
    /\ pc[w] = "idle"
    /\ issued < MaxRequests
    /\ issued' = issued + 1
    /\ Goto(w, Entry(r))
    /\ req' = [req EXCEPT ![w] = r]
    /\ cursor' = [cursor EXCEPT ![w] = 1]
    /\ seen' = [seen EXCEPT ![w] = {}]
    /\ total' = [total EXCEPT ![w] = 0]
    /\ stamp' = [stamp EXCEPT ![w] = 0]
    /\ kept' = [kept EXCEPT ![w] = {}]
    /\ code' = [code EXCEPT ![w] = "none"]
    /\ UNCHANGED <<store, clock>>

-----------------------------------------------------------------------------
(* get_memory, update_memory, delete_memory: SELECT the live row.          *)

Live(id) == {m \in {rows[i] : i \in DOMAIN rows} : m.id = id /\ Visible(m)}

Fetch(w) ==
    /\ pc[w] = "fetch"
    /\ CanRead(w)
    /\ seen' = [seen EXCEPT ![w] = Live(req[w].id)]
    /\ UNCHANGED <<store, clock, issued, req, cursor, total, stamp>>

\* No such row: the handler answers 404.
FetchMiss(w) ==
    /\ Fetch(w)
    /\ Live(req[w].id) = {}
    /\ Reply(w, "not_found", {})

\* get_memory goes on to its UPDATE without looking at the row.
FetchForRead(w) ==
    /\ Fetch(w)
    /\ req[w].kind = "get"
    /\ Live(req[w].id) # {}
    /\ Goto(w, "stamp")
    /\ UNCHANGED <<kept, code>>

\* update_memory and delete_memory first make a Memory of the row, which
\* raises if its tags are not a list; a PATCH that changes nothing is done.
FetchForWrite(w) ==
    /\ Fetch(w)
    /\ req[w].kind \in {"update", "delete"}
    /\ \E m \in Live(req[w].id) :
          \/ /\ ~Readable(m)
             /\ Reply(w, "failed", {})
          \/ /\ Readable(m)
             /\ req[w].kind = "update" /\ ~Changes(m.body, req[w].patch)
             /\ Reply(w, "ok", {m})
          \/ /\ Readable(m)
             /\ req[w].kind = "update" => Changes(m.body, req[w].patch)
             /\ Goto(w, "stamp")
             /\ UNCHANGED <<kept, code>>

-----------------------------------------------------------------------------
(* current_timestamp(): every writing operation reads the clock before it  *)
(* asks for the write lock.  The clock does not go back, and may or may    *)
(* not have moved since it was last read.                                  *)

\* Faulty: the timestamp was taken on arrival, before the row was read.
StampOnArrival(w) ==
    /\ pc[w] = "stamp"
    /\ Creates(req[w]) => cursor[w] <= Len(req[w].bodies)
    /\ clock' \in {clock, clock + 1}
    /\ \E early \in 1 .. clock : stamp' = [stamp EXCEPT ![w] = early]
    /\ Goto(w, "write")
    /\ UNCHANGED <<store, issued, req, cursor, seen, total, kept, code>>

Stamp(w) ==
    /\ pc[w] = "stamp"
    /\ Creates(req[w]) => cursor[w] <= Len(req[w].bodies)
    /\ clock' \in {clock, clock + 1}
    /\ stamp' = [stamp EXCEPT ![w] = clock']
    /\ Goto(w, "write")
    /\ UNCHANGED <<store, issued, req, cursor, seen, total, kept, code>>

\* create_memory_batch([]) opens a connection, commits nothing, returns [].
EmptyBatch(w) ==
    /\ pc[w] = "stamp"
    /\ Creates(req[w]) /\ req[w].bodies = << >>
    /\ Reply(w, "ok", {})
    /\ UNCHANGED <<store, clock, issued, req, cursor, seen, total, stamp>>

-----------------------------------------------------------------------------
(* The first write statement of a transaction waits for the write lock.    *)

Acquire(w) ==
    /\ pc[w] = "write"
    /\ CanWrite(w)
    /\ writer' = w
    /\ UNCHANGED <<rows, pending, readers, clock, issued, req, seen, total,
                   stamp, code>>

\* Faulty: a connection in autocommit mode, which publishes every INSERT.
InsertAutocommits(w) ==
    /\ pc[w] = "write"
    /\ CanWrite(w)
    /\ Creates(req[w])
    /\ LET new == NewMemory(Len(rows) + 1, req[w].bodies[cursor[w]], stamp[w])
       IN  /\ rows' = Append(rows, new)
           /\ staged' = rows'
           /\ kept' = [kept EXCEPT ![w] = @ \cup {new}]
    /\ cursor' = [cursor EXCEPT ![w] = @ + 1]
    /\ Goto(w, IF cursor[w] < Len(req[w].bodies) THEN "stamp" ELSE "commit")
    /\ UNCHANGED <<locks, clock, issued, req, seen, total, stamp, code>>

\* create_memory and create_memory_batch: INSERT, one statement per memory;
\* a batch goes back for the next timestamp with its transaction open.
Insert(w) ==
    /\ Acquire(w)
    /\ Creates(req[w])
    /\ LET new == NewMemory(Len(staged) + 1, req[w].bodies[cursor[w]], stamp[w])
       IN  /\ staged' = Append(staged, new)
           /\ kept' = [kept EXCEPT ![w] = @ \cup {new}]
    /\ cursor' = [cursor EXCEPT ![w] = @ + 1]
    /\ Goto(w, IF cursor[w] < Len(req[w].bodies) THEN "stamp" ELSE "commit")

\* get_memory and refresh_memories_last_accessed: UPDATE by id alone, so also
\* a row that has been revised or retired since it was read.
Touched(table, ids, now) ==
    [i \in DOMAIN table |-> IF i \in ids THEN Accessed(table[i], now) ELSE table[i]]

Touch(w) ==
    /\ Acquire(w)
    /\ req[w].kind = "get" \/ Pages(req[w])
    /\ staged' = Touched(staged, {m.id : m \in seen[w]}, stamp[w])
    /\ kept' = [kept EXCEPT ![w] = @ \cup {Accessed(m, stamp[w]) : m \in seen[w]}]
    /\ Goto(w, "commit")
    /\ UNCHANGED cursor

\* Faulty: the WHERE clause forgets the version.
UnmovedAtAnyVersion(table, m) == Visible(table[m.id])

\* Faulty: the WHERE clause compares the whole row, access time included.
UnmovedAndUnread(table, m) == table[m.id] = m

\* The optimistic lock: the row is still live, at the version that was read.
Unmoved(table, m) == Visible(table[m.id]) /\ table[m.id].version = m.version

\* What the statement makes of the row: a PATCH writes all four editable columns
\* from the Memory m it read, a DELETE only the status; the version is m's plus one.
Written(row, m, r, now) ==
    [row EXCEPT !.body = IF r.kind = "delete" THEN Retired(row.body)
                                              ELSE Merge(m.body, r.patch),
                !.updated_at = now,
                !.version = m.version + 1]

Overwritten(table, m, r, now) == [table EXCEPT ![m.id] = Written(@, m, r, now)]

\* update_memory and delete_memory: the conditional UPDATE.  It matches no row
\* when the memory has moved on; a null in a NOT NULL column makes it raise.
Write(w) ==
    /\ Acquire(w)
    /\ req[w].kind \in {"update", "delete"}
    /\ \E m \in seen[w] :
          LET answer == Written(m, m, req[w], stamp[w])
          IN  \/ /\ ~Unmoved(staged, m)
                 /\ Goto(w, "conflict")
                 /\ UNCHANGED <<staged, kept>>
              \/ /\ Unmoved(staged, m) /\ ~Storable(answer.body)
                 /\ Goto(w, "constraint")
                 /\ UNCHANGED <<staged, kept>>
              \/ /\ Unmoved(staged, m) /\ Storable(answer.body)
                 /\ Goto(w, "commit")
                 /\ staged' = Overwritten(staged, m, req[w], stamp[w])
                 /\ kept' = [kept EXCEPT ![w] = {answer}]
    /\ UNCHANGED cursor

\* Faulty: the lost race leaves its transaction open on a leaked connection.
ConflictKeepsLock(w) ==
    /\ pc[w] = "conflict"
    /\ Reply(w, "conflict", {})
    /\ UNCHANGED <<store, clock, issued, req, cursor, seen, total, stamp>>

\* Faulty: the statement is retried with the Memory that is already stale.
ConflictRetries(w) ==
    /\ pc[w] = "conflict"
    /\ Abandon({w})
    /\ Goto(w, "stamp")
    /\ UNCHANGED <<clock, issued, req, cursor, seen, total, stamp, kept, code>>

\* rowcount 0: rollback, MemoryWriteConflictError, 409.
Conflict(w) ==
    /\ pc[w] = "conflict"
    /\ Abandon({w})
    /\ Reply(w, "conflict", {})
    /\ UNCHANGED <<clock, issued, req, cursor, seen, total, stamp>>

\* IntegrityError: the connection is closed, 500.
Constraint(w) ==
    /\ pc[w] = "constraint"
    /\ Abandon({w})
    /\ Reply(w, "failed", {})
    /\ UNCHANGED <<clock, issued, req, cursor, seen, total, stamp>>

-----------------------------------------------------------------------------
(* connection.commit() of a write transaction.                             *)

BeginCommit(w) ==
    /\ pc[w] = "commit"
    /\ pending' = TRUE
    /\ Goto(w, "publish")
    /\ UNCHANGED <<rows, staged, writer, readers, clock, issued, req, cursor,
                   seen, total, stamp, kept, code>>

\* A handler with another page to read goes on; the others return.
Advance(w) ==
    IF Pages(req[w]) /\ cursor[w] < Len(req[w].queries)
    THEN /\ Goto(w, "count")
         /\ cursor' = [cursor EXCEPT ![w] = @ + 1]
         /\ seen' = [seen EXCEPT ![w] = {}]
         /\ UNCHANGED <<kept, code>>
    ELSE /\ Reply(w, "ok", kept[w])
         /\ UNCHANGED <<cursor, seen>>

\* The transaction becomes the table.  get_memory makes a Memory of the row it
\* read only now, and raises if it cannot.
Publish(w) ==
    /\ pc[w] = "publish"
    /\ readers = {}
    /\ rows' = staged
    /\ writer' = NoWorker
    /\ pending' = FALSE
    /\ IF req[w].kind = "get" /\ \E m \in seen[w] : ~Readable(m)
       THEN Reply(w, "failed", {}) /\ UNCHANGED <<cursor, seen>>
       ELSE Advance(w)
    /\ UNCHANGED <<staged, readers, clock, issued, req, total, stamp>>

-----------------------------------------------------------------------------
(* get_memories_page: one read transaction around COUNT and SELECT.        *)

CurrentQuery(w) == req[w].queries[cursor[w]]

\* Faulty: no BEGIN, so COUNT and SELECT are transactions of their own.
BeginPageWithoutBegin(w) ==
    /\ pc[w] = "count"
    /\ CanRead(w)
    /\ total' = [total EXCEPT ![w] = Cardinality(Matching(rows, CurrentQuery(w)))]
    /\ Goto(w, "page")
    /\ UNCHANGED <<store, clock, issued, req, cursor, seen, stamp, kept, code>>

BeginPage(w) ==
    /\ pc[w] = "count"
    /\ CanRead(w)
    /\ readers' = readers \cup {w}
    /\ total' = [total EXCEPT ![w] = Cardinality(Matching(rows, CurrentQuery(w)))]
    /\ Goto(w, "page")
    /\ UNCHANGED <<rows, staged, writer, pending, clock, issued, req, cursor,
                   seen, stamp, kept, code>>

\* The transaction ends before the rows become Memories, which raises if any
\* of them cannot.  An empty page is not refreshed.
ReadPage(w) ==
    /\ pc[w] = "page"
    /\ readers' = readers \ {w}
    /\ LET page == Page(rows, CurrentQuery(w))
       IN  \/ /\ \E m \in page : ~Readable(m)
              /\ Reply(w, "failed", {})
              /\ seen' = [seen EXCEPT ![w] = page]
              /\ UNCHANGED cursor
           \/ /\ page # {} /\ \A m \in page : Readable(m)
              /\ Goto(w, "stamp")
              /\ seen' = [seen EXCEPT ![w] = page]
              /\ UNCHANGED <<cursor, kept, code>>
           \/ /\ page = {}
              /\ Advance(w)
    /\ UNCHANGED <<rows, staged, writer, pending, clock, issued, req, total, stamp>>

-----------------------------------------------------------------------------
(* What goes wrong underneath.                                             *)

Blocked(w) ==
    \/ pc[w] \in {"fetch", "count"} /\ ~CanRead(w)
    \/ pc[w] = "write" /\ ~CanWrite(w)
    \/ pc[w] = "publish" /\ readers # {}

\* The wait outlasts busy_timeout: OperationalError, the connection is closed.
Timeout(w) ==
    /\ Blocked(w)
    /\ Abandon({w})
    /\ Reply(w, "failed", {})
    /\ UNCHANGED <<clock, issued, req, cursor, seen, total, stamp>>

\* A server process dies and is started again; its clients get no answer.
Crash(P) ==
    /\ \E w \in P : Active(w)
    /\ Abandon(P)
    /\ pc' = [w \in Workers |-> IF w \in P THEN "idle" ELSE pc[w]]
    /\ code' = [w \in Workers |-> IF w \in P /\ Active(w) THEN "lost" ELSE code[w]]
    /\ kept' = [w \in Workers |-> IF w \in P /\ Active(w) THEN {} ELSE kept[w]]
    /\ UNCHANGED <<clock, issued, req, cursor, seen, total, stamp>>

\* Every request has been answered and the bound on requests is reached.
Terminating ==
    /\ issued = MaxRequests
    /\ \A w \in Workers : ~Active(w)
    /\ UNCHANGED vars

-----------------------------------------------------------------------------
\* What a worker does by itself once it has a request.
Step(w) ==
    \/ FetchMiss(w) \/ FetchForRead(w) \/ FetchForWrite(w)
    \/ Stamp(w) \/ EmptyBatch(w)
    \/ Insert(w) \/ Touch(w) \/ Write(w)
    \/ Conflict(w) \/ Constraint(w)
    \/ BeginCommit(w) \/ Publish(w)
    \/ BeginPage(w) \/ ReadPage(w)
    \/ Timeout(w)

Next ==
    \/ \E w \in Workers : Step(w) \/ \E r \in Requests : Submit(w, r)
    \/ \E P \in Processes : Crash(P)
    \/ Terminating

Spec == Init /\ [][Next]_vars

\* Threads are scheduled and busy_timeout ends every wait, so a worker that can
\* go on does; nothing makes a client send a request or a process die.
Fairness == \A w \in Workers : WF_vars(Step(w))

FairSpec == Spec /\ Fairness

-----------------------------------------------------------------------------
(* Properties.                                                             *)

\* Type correctness of every variable of the storage layer.
TypeOK ==
    /\ rows \in Seq(Memory) /\ staged \in Seq(Memory)
    /\ writer \in Workers \cup {NoWorker}
    /\ pending \in BOOLEAN
    /\ readers \subseteq Workers
    /\ clock \in Nat \ {0} /\ issued \in 0 .. MaxRequests
    /\ pc \in [Workers -> PCs]
    /\ req \in [Workers -> Requests]
    /\ cursor \in [Workers -> Nat \ {0}]
    /\ seen \in [Workers -> SUBSET Memory]
    /\ total \in [Workers -> Nat]
    /\ stamp \in [Workers -> Nat]
    /\ kept \in [Workers -> SUBSET Memory]
    /\ code \in [Workers -> Codes]

\* A copy of a memory and a table it may be older than: the table has the
\* memory, at that version or a later one, and if at that version, with that
\* body and that updated_at.
Agrees(m, table) ==
    /\ m.id \in DOMAIN table
    /\ m.version <= table[m.id].version
    /\ m.version = table[m.id].version =>
          /\ m.body = table[m.id].body
          /\ m.updated_at = table[m.id].updated_at

\* What a worker has told its client: nothing unless it answered.
Answered(w) == IF code[w] = "ok" THEN kept[w] ELSE {}

\* A version number identifies a content.  Every memory that a worker has read
\* (storage.py's SELECTs) or has answered with (what create, update, delete, get
\* and the list handlers return) is in the committed table, unchanged or since
\* revised to a higher version, whatever other requests, timeouts, rollbacks and
\* crashes came in between: no acknowledged write is lost, and no two different
\* contents are ever handed out under one version.
VersionIdentifiesContent ==
    \A w \in Workers : \A m \in seen[w] \cup Answered(w) : Agrees(m, rows)

\* A 409 is never spurious: when update_memory or delete_memory raises
\* MemoryWriteConflictError, another PATCH or DELETE has committed a later version
\* of the memory since this one read it.  Reads of the memory, whose access-time
\* UPDATE writes the same row, do not make a writer lose.
ConflictIsReal ==
    \A w \in Workers : code[w] = "conflict" =>
        \A m \in seen[w] : rows[m.id].version > m.version

\* The locks by themselves never stop everybody: whenever some request is in
\* progress, some worker with a request can go on without waiting for
\* busy_timeout to break the wait (db.py's connections, one per call).
NoDeadlock ==
    (\E w \in Workers : Active(w)) => \E w \in Workers : Active(w) /\ ~Blocked(w)

\* The envelope of a page is consistent: total and items come from one snapshot
\* although other workers commit between COUNT and SELECT.  has_more (offset +
\* len(items) < total in main.py and mcp_server.py) is told only with a full
\* page, and a page with items never reaches past total.
PageMatchesTotal ==
    \A w \in Workers :
        /\ Pages(req[w])
        /\ pc[w] \in {"stamp", "write", "commit", "publish"} \/ code[w] = "ok"
        => LET q == CurrentQuery(w)
               items == Cardinality(seen[w])
           IN  /\ items <= q.limit
               /\ q.offset + items < total[w] => items = q.limit
               /\ items > 0 => q.offset + items <= total[w]

\* create_memory_batch is all or nothing, and its memories get consecutive ids in
\* the order they were sent: whenever rows appear in the committed table, they
\* are the whole body list of one request, nobody else's rows among them.
WholeBatch ==
    [][Len(rows') > Len(rows) =>
         \E w \in Workers :
            /\ Creates(req[w])
            /\ req[w].bodies =
                 [i \in 1 .. Len(rows') - Len(rows) |-> rows'[Len(rows) + i].body]
      ]_rows

\* The storage layer, with its locks, races, timeouts and crashes, implements the
\* contract of MemoryContract on the committed table.
Contract == INSTANCE MemoryContract WITH table <- rows
RefinesContract == Contract!Spec

\* Every request a client sends is answered, or dies with its process: neither
\* the locks, nor losing an optimistic race, nor another worker's crash keeps a
\* handler of storage.py busy for ever.
EveryRequestAnswered ==
    \A w \in Workers : Active(w) ~> ~Active(w)

-----------------------------------------------------------------------------
(* What the documentation says and the code does not do.                   *)

\* docs/data_object_schema.md:90 calls tags "A list of keywords or labels
\* associated with the memory"; update_memory can store the JSON text null.
TagsAreLists == \A i \in DOMAIN rows : Readable(rows[i])
=============================================================================

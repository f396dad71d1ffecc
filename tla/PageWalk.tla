------------------------------ MODULE PageWalk ------------------------------
(***************************************************************************)
(* A client collects everything a query matches, page by page, as GET      *)
(* /memories and the MCP tool search_memories invite it to: it asks for    *)
(* offset 0, adds the number of items it received to the offset, and goes  *)
(* on while has_more.  When a request fails or its answer is lost the      *)
(* client asks for the same page again; a page with a memory whose tags    *)
(* are null fails each time.                                               *)
(*                                                                         *)
(* A page request is two transactions, the read of get_memories_page and   *)
(* the write of refresh_memories_last_accessed; around and between them    *)
(* other requests create, revise, retire and access memories, each in one  *)
(* step that MemoryContract allows.  That the two transactions and those   *)
(* steps are atomic is what MemoryStore shows of the storage layer.        *)
(***************************************************************************)
EXTENDS MemoryModel

CONSTANTS Seeds,      \* the tables a walk may start from
          Queries,    \* the queries clients walk through, at offset 0
          Bodies,     \* what other clients create, and make of a memory
          Start,      \* the instant a walk starts at
          MaxLag,     \* bound: how old a timestamp can be at its commit
          MaxEvents   \* bound: steps of other clients, and requests that fail
                      \* after their page was read or whose answer is lost

\* A timestamp is never 0, which stands for NULL: an access shows.
ASSUME WalkAssumption ==
    /\ Queries \subseteq Query /\ \A q \in Queries : q.offset = 0
    /\ Bodies \subseteq NewBody
    /\ Start \in Nat \ {0} /\ {MaxLag, MaxEvents} \subseteq Nat
    /\ Seeds \subseteq Seq(Memory)
    /\ \A t \in Seeds : \A i \in DOMAIN t :
          /\ t[i].id = i
          /\ t[i].updated_at <= Start /\ t[i].last_accessed_at <= Start

VARIABLES table,   \* the committed table
          clock,   \* current_timestamp()
          query,   \* what the client searches, at the offset it has reached
          phase,   \* where the client and its request are
          asked,   \* the instant the page was read at
          page,    \* the memories of the page
          total,   \* the COUNT(*) of the page
          got,     \* ids of the memories the client has received
          start,   \* history: ids that matched when the walk began
          drift,   \* history: what other clients have done meanwhile
          changes, \* history: how often
          retries  \* history: pages that were read and did not arrive

others == <<drift, changes>>
vars == <<table, clock, query, phase, asked, page, total, got, start, others, retries>>

Ids(memories) == {m.id : m \in memories}

Init ==
    /\ table \in Seeds
    /\ clock = Start
    /\ query \in Queries
    /\ phase = "ask"
    /\ asked = 0
    /\ page = {}
    /\ total = 0
    /\ got = {}
    /\ start = Ids(Matching(table, query))
    /\ drift = {} /\ changes = 0 /\ retries = 0

-----------------------------------------------------------------------------
(* The walk.                                                               *)

\* Faulty: the COUNT has lost its WHERE clause.
ReadPageCountsAll ==
    /\ phase = "ask"
    /\ \A m \in Page(table, query) : Readable(m)
    /\ page' = Page(table, query)
    /\ total' = Len(table)
    /\ asked' = clock
    /\ phase' = IF page' = {} THEN "answer" ELSE "refresh"
    /\ UNCHANGED <<table, clock, query, got, start, others, retries>>

\* get_memories_page: COUNT and SELECT of one snapshot, and Memories of the rows.
ReadPage ==
    /\ phase = "ask"
    /\ \A m \in Page(table, query) : Readable(m)
    /\ page' = Page(table, query)
    /\ total' = Cardinality(Matching(table, query))
    /\ asked' = clock
    /\ phase' = IF page' = {} THEN "answer" ELSE "refresh"
    /\ UNCHANGED <<table, clock, query, got, start, others, retries>>

\* A row of the page that no Memory can be made of: 500, and nothing is refreshed.
FailPage ==
    /\ phase = "ask"
    /\ \E m \in Page(table, query) : ~Readable(m)
    /\ phase' = "failed"
    /\ UNCHANGED <<table, clock, query, asked, page, total, got, start, others, retries>>

AskAgain ==
    /\ phase = "failed"
    /\ phase' = "ask"
    /\ UNCHANGED <<table, clock, query, asked, page, total, got, start, others, retries>>

\* refresh_memories_last_accessed: the timestamp was taken at some instant since
\* the page was read, and covers every row of the page.
Refresh ==
    /\ phase = "refresh"
    /\ \E s \in asked .. clock + 1 :
          /\ clock' = IF s > clock THEN s ELSE clock
          /\ table' = [i \in DOMAIN table |->
                          IF i \in Ids(page) THEN Accessed(table[i], s) ELSE table[i]]
    /\ phase' = "answer"
    /\ UNCHANGED <<query, asked, page, total, got, start, others, retries>>

\* Faulty: has_more is still told when the page reaches the total.
HasMoreAtTotal(offset, items) == offset + items <= total

\* Faulty: the last match is not worth a page.
HasMoreButOne(offset, items) == offset + items + 1 < total

HasMore(offset, items) == offset + items < total

\* The client receives the page.
Deliver ==
    /\ phase = "answer"
    /\ got' = got \cup Ids(page)
    /\ query' = [query EXCEPT !.offset = @ + Cardinality(page)]
    /\ phase' = IF HasMore(query.offset, Cardinality(page)) THEN "ask" ELSE "done"
    /\ page' = {} /\ total' = 0 /\ asked' = 0
    /\ UNCHANGED <<table, clock, start, others, retries>>

\* The request fails before its second commit, or the answer is lost after it.
Retry ==
    /\ phase \in {"refresh", "answer"}
    /\ changes + retries < MaxEvents
    /\ retries' = retries + 1
    /\ phase' = "ask" /\ page' = {} /\ total' = 0 /\ asked' = 0
    /\ UNCHANGED <<table, clock, query, got, start, others>>

Walk == ReadPage \/ FailPage \/ AskAgain \/ Refresh \/ Deliver

-----------------------------------------------------------------------------
(* Everybody else.  Their timestamps, too, may be older than their commit. *)

Meanwhile(kind, s) ==
    /\ phase # "done"
    /\ changes + retries < MaxEvents
    /\ changes' = changes + 1
    /\ drift' = drift \cup {kind}
    /\ clock' = IF s > clock THEN s ELSE clock
    /\ UNCHANGED <<query, phase, asked, page, total, got, start, retries>>

Create(body, s) ==
    /\ Meanwhile("create", s)
    /\ table' = Append(table, NewMemory(Len(table) + 1, body, s))

\* A PATCH of a live memory; one that sets the status to deleted retires it, as
\* DELETE does.  Both first make a Memory of the row.
Revise(i, body, s) ==
    /\ Meanwhile("revise", s)
    /\ Visible(table[i]) /\ Readable(table[i]) /\ body # table[i].body
    /\ s >= table[i].updated_at
    /\ table' = [table EXCEPT ![i] = Revised(@, body, s)]

\* get_memory commits the access before it makes a Memory of the row.
Access(i, s) ==
    /\ Meanwhile("access", s)
    /\ table' = [table EXCEPT ![i] = Accessed(@, s)]

\* PATCH {"tags": null}
Untagged(b) == [b EXCEPT !.tags = Null]

Others ==
    \E s \in {x \in Start .. clock + 1 : x + MaxLag >= clock} :
        \/ \E b \in Bodies : Create(b, s)
        \/ \E i \in DOMAIN table, b \in Bodies : Revise(i, b, s)
        \/ \E i \in DOMAIN table :
              \/ Revise(i, Retired(table[i].body), s)
              \/ Revise(i, Untagged(table[i].body), s)
              \/ Access(i, s)

Terminated == phase = "done" /\ UNCHANGED vars

Next == Walk \/ Retry \/ Others \/ Terminated

Spec == Init /\ [][Next]_vars

\* The client goes on, and the service answers; nothing makes anybody else do
\* anything, nor an answer get lost.
FairSpec == Spec /\ WF_vars(Walk)

-----------------------------------------------------------------------------
(* Properties.                                                             *)

\* Type correctness; a page holds no more than its limit.
TypeOK ==
    /\ table \in Seq(Memory) /\ clock \in Nat
    /\ query \in Query
    /\ phase \in {"ask", "failed", "refresh", "answer", "done"}
    /\ asked \in Nat /\ total \in Nat
    /\ page \in SUBSET Memory /\ Cardinality(page) <= query.limit
    /\ got \subseteq DOMAIN table /\ start \subseteq DOMAIN table
    /\ drift \subseteq {"create", "revise", "access"}
    /\ changes \in Nat /\ retries \in Nat /\ changes + retries <= MaxEvents

\* The query that filters nothing out but retired memories.
Plain(q) == /\ q.status = Null /\ q.memory_type = Null
            /\ q.tag = Null /\ q.q = Null

\* The offset counts what the client has received, got what was distinct in it.
NothingTwice == Cardinality(got) = query.offset

\* A walk in id order over everything never meets a memory twice, whatever others
\* create, revise, retire or access and however often a request is repeated
\* (_build_memory_order_by's ORDER BY id ASC): matches only leave, or append.
IdWalkNeverTwice == Plain(query) /\ query.sort = "id" => NothingTwice

\* What such a walk can miss is bounded by what was retired behind its back: of the
\* memories that were there at its last page, it has missed no more than it has
\* received memories that have been retired since.
IdWalkMissesFew ==
    Plain(query) /\ query.sort = "id" /\ phase = "done" =>
        LET live == {i \in DOMAIN table : Visible(table[i])}
        IN  Cardinality((live \cap start) \ got) <= Cardinality(got \ live)

\* In last_accessed_at order every page moves to the top of the list it was read
\* from (get_memories_page and the refresh use the same column), where the offset
\* already counts it: as long as nobody else accesses memories and no request is
\* repeated, nothing comes twice, also while others create, revise and retire.
AccessWalkNeverTwice ==
    /\ query.sort = "last_accessed_at" /\ Plain(query)
    /\ "access" \notin drift /\ retries = 0
    => NothingTwice

\* docs/data_object_schema.md:305, "retrieval deterministic, which makes pagination
\* reliable": when nobody else changes anything, a walk in any order receives every
\* match once.  Only the order by last_accessed_at does not survive a repetition,
\* whose first attempt has moved the page that the client did not receive.
QuietWalkIsExact ==
    /\ phase = "done" /\ drift = {}
    /\ query.sort = "last_accessed_at" => retries = 0
    => got = start /\ NothingTwice

\* has_more is never told with an empty page (the comparison in list_memories and
\* search_memories, the COUNT and the OFFSET of get_memories_page): whoever is told
\* to go on has moved ahead, however much others change in the meantime.
WalkAdvances ==
    [][phase = "answer" /\ phase' = "ask" /\ retries' = retries
         => query'.offset > query.offset]_vars

\* Once others leave the table alone and answers arrive, a walk comes to its end,
\* wherever it has got to by then; or it asks for ever for a page that fails each
\* time, as one with a row that no Memory can be made of does.  Without the condition
\* it need not end: a memory created for every page keeps has_more true.
WalkEnds ==
    <>[][UNCHANGED <<changes, retries>>]_vars
        => <>(phase = "done") \/ <>[](phase \in {"ask", "failed"})
=============================================================================

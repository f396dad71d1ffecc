---------------------------- MODULE MemoryModel ----------------------------
(***************************************************************************)
(* The data of the memories service: what a stored memory is, what a PATCH *)
(* makes of it, and which memories a retrieval query selects.  Pure        *)
(* operators over a table of memories; no state.                           *)
(*                                                                         *)
(* A table is a sequence of memories whose i-th element has id i:          *)
(* AUTOINCREMENT hands out consecutive ids and no row is ever removed      *)
(* (app/db.py SCHEMA_SQL, app/storage.py delete_memory).  Contents and     *)
(* tags are opaque values; a timestamp is a natural number, and 0 is the   *)
(* NULL of last_accessed_at.                                               *)
(***************************************************************************)
EXTENDS Naturals, Sequences, FiniteSets

CONSTANTS Contents,    \* texts that pass validate_content_value
          Tags,        \* texts that pass validate_tags_value's per-tag tests
          MemoryTypes, \* ALLOWED_MEMORY_TYPES
          Terms,       \* texts a query can search for
          Mentions,    \* text -> the terms its lower-cased form contains
          Null,        \* JSON null / SQL NULL / Python None
          Unset        \* a PATCH field the client did not send

Statuses == {"active", "invalid", "deleted"}
SortKeys == {"id", "created_at", "updated_at", "last_accessed_at"}
TagLists == Seq(Tags) \ {<< >>}

\* None and "not sent" are distinguishable from every value a field can hold,
\* and from each other; Mentions is defined for everything that can be searched.
ASSUME ModelAssumption ==
    /\ Null # Unset
    /\ {Null, Unset} \cap (Contents \cup MemoryTypes \cup Statuses) = {}
    /\ Null \notin Seq(Tags) /\ Unset \notin Seq(Tags)
    /\ Mentions \in [Contents \cup Tags -> SUBSET Terms]

-----------------------------------------------------------------------------
(* Stored memories.                                                        *)

\* The client-editable columns.  The column tags holds the JSON text of the
\* list, and the text 'null' satisfies its NOT NULL constraint.
Body == [content : Contents, tags : TagLists \cup {Null},
         memory_type : MemoryTypes, status : Statuses]

\* A body that POST accepts: every field present and valid.
NewBody == {b \in Body : b.tags # Null}

Memory == [id : Nat \ {0}, body : Body, version : Nat \ {0},
           created_at : Nat, updated_at : Nat, last_accessed_at : Nat]

NewMemory(id, body, now) ==
    [id |-> id, body |-> body, version |-> 1,
     created_at |-> now, updated_at |-> now, last_accessed_at |-> 0]

Visible(m) == m.body.status # "deleted"

\* _row_to_memory validates the row as a Memory, whose tags are a list.
Readable(m) == m.body.tags # Null

\* Faulty: a schema without NOT NULL.
StorableWithNulls(b) == TRUE

\* The NOT NULL constraints the editable columns must satisfy.
Storable(b) == Null \notin {b.content, b.memory_type, b.status}

Accessed(m, now) == [m EXCEPT !.last_accessed_at = now]

-----------------------------------------------------------------------------
(* PATCH: a field the client sent replaces the stored one, null included.  *)

Patch == [content     : Contents \cup {Null, Unset},
          tags        : TagLists \cup {Null, Unset},
          memory_type : MemoryTypes \cup {Null, Unset},
          status      : Statuses \cup {Null, Unset}]

Pick(sent, stored) == IF sent = Unset THEN stored ELSE sent

Merge(b, p) == [content     |-> Pick(p.content, b.content),
                tags        |-> Pick(p.tags, b.tags),
                memory_type |-> Pick(p.memory_type, b.memory_type),
                status      |-> Pick(p.status, b.status)]

\* Faulty: any PATCH counts as a change.
ChangesAlways(b, p) == TRUE

Changes(b, p) == Merge(b, p) # b

\* The row an UPDATE leaves behind when its WHERE clause matches.
Revised(m, body, now) ==
    [m EXCEPT !.body = body, !.updated_at = now, !.version = @ + 1]

Retired(b) == [b EXCEPT !.status = "deleted"]

-----------------------------------------------------------------------------
(* Retrieval: filters, order and page.                                     *)

Query == [status : Statuses \cup {Null}, memory_type : MemoryTypes \cup {Null},
          tag : Tags \cup {Null}, q : Terms \cup {Null},
          sort : SortKeys, limit : Nat \ {0}, offset : Nat]

TagsOf(m) == IF m.body.tags = Null THEN {} 
             ELSE {m.body.tags[k] : k \in DOMAIN m.body.tags}

Selected(m, q) ==
    /\ IF q.status = Null THEN Visible(m) ELSE m.body.status = q.status
    /\ q.memory_type \in {Null, m.body.memory_type}
    /\ q.tag \in {Null} \cup TagsOf(m)
    /\ q.q # Null => \E text \in {m.body.content} \cup TagsOf(m) :
                        q.q \in Mentions[text]

Matching(table, q) == {m \in {table[i] : i \in DOMAIN table} : Selected(m, q)}

\* Faulty: id descends, like everything else.
PrecedesNewestFirst(m, n, sort) ==
    m[sort] > n[sort] \/ (m[sort] = n[sort] /\ m.id > n.id)

\* Faulty: every column ascends.
PrecedesOldestFirst(m, n, sort) ==
    m[sort] < n[sort] \/ (m[sort] = n[sort] /\ m.id < n.id)

\* Faulty: NULL comes first, as in other databases.
PrecedesNullsFirst(m, n, sort) ==
    IF sort = "id" THEN m.id < n.id
    ELSE \/ m[sort] = 0 /\ n[sort] # 0
         \/ n[sort] # 0 /\ m[sort] > n[sort]
         \/ m[sort] = n[sort] /\ m.id > n.id

\* id ascends; a timestamp descends, NULL last, ties by descending id.
Precedes(m, n, sort) ==
    IF sort = "id" THEN m.id < n.id
    ELSE m[sort] > n[sort] \/ (m[sort] = n[sort] /\ m.id > n.id)

Position(m, table, q) ==
    Cardinality({n \in Matching(table, q) : Precedes(n, m, q.sort)})

\* Faulty: one row more, to see whether there is one.
PageAndOneMore(table, q) ==
    {m \in Matching(table, q) :
        Position(m, table, q) \in q.offset .. q.offset + q.limit}

\* LIMIT ? OFFSET ? over the ordered matches.
Page(table, q) ==
    {m \in Matching(table, q) :
        Position(m, table, q) \in q.offset .. q.offset + q.limit - 1}
=============================================================================

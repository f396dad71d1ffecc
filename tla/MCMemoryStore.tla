--------------------------- MODULE MCMemoryStore ---------------------------
(***************************************************************************)
(* Small instances of MemoryStore for TLC: the request mixes and the       *)
(* starting tables of its runs.                                            *)
(***************************************************************************)
EXTENDS MemoryStore, TLC

CONSTANTS w1, w2, w3, c1, c2, t1, t2

OneProcess == {{w1, w2, w3}}
TwoProcesses == {{w1, w2}, {w3}}
PairOfProcesses == {{w1}, {w2}}
Interchangeable == Permutations({w1, w2})

\* "c2" and the tag t1 contain the term a query looks for.
McMentions == [x \in {c1, c2, t1, t2} |-> IF x \in {c2, t1} THEN {"needle"} ELSE {}]

-----------------------------------------------------------------------------
Fact(content) == [content |-> content, tags |-> <<t1>>,
                  memory_type |-> "fact", status |-> "active"]
Preference == [Fact(c1) EXCEPT !.memory_type = "preference"]
Identity == [Fact(c1) EXCEPT !.memory_type = "identity"]

NoPatch == [content |-> Unset, tags |-> Unset, memory_type |-> Unset, status |-> Unset]

Ask(kind, id, patch, bodies, queries) ==
    [kind |-> kind, id |-> id, patch |-> patch, bodies |-> bodies, queries |-> queries]
Get(id) == Ask("get", id, NoPatch, << >>, << >>)
Update(id, patch) == Ask("update", id, patch, << >>, << >>)
Delete(id) == Ask("delete", id, NoPatch, << >>, << >>)
Create(body) == Ask("create", 1, NoPatch, <<body>>, << >>)
Batch(bodies) == Ask("batch", 1, NoPatch, bodies, << >>)
List(query) == Ask("list", 1, NoPatch, << >>, <<query>>)

All == [status |-> Null, memory_type |-> Null, tag |-> Null, q |-> Null,
        sort |-> "id", limit |-> 2, offset |-> 0]

\* _build_bootstrap_query, with a page of one memory instead of ten.
Bootstrap(type) == [All EXCEPT !.status = "active", !.memory_type = type,
                               !.sort = "updated_at", !.limit = 1]
Prime == Ask("prime", 1, NoPatch, << >>, <<Bootstrap("preference"), Bootstrap("identity")>>)

-----------------------------------------------------------------------------
(* One memory, everybody after it: three writers that change different     *)
(* fields, one that changes nothing, and a reader.                         *)
OneFact == {<<NewMemory(1, Fact(c1), 1)>>}

RaceRequests ==
    {Get(1), Delete(1),
     Update(1, [NoPatch EXCEPT !.content = c2]),
     Update(1, [NoPatch EXCEPT !.status = "invalid"])}

(* PATCHes at the edge of what MemoryUpdate accepts, pages of a growing    *)
(* table, and the requests that take the longest ways through the code.    *)
TwoTypes == {<<NewMemory(1, Preference, 1), NewMemory(2, Identity, 1)>>}

EdgeRequests ==
    {Get(1), Delete(1), Prime, Create(Identity),
     Batch(<<Fact(c1), Fact(c2)>>), Batch(<< >>),
     List(All), List([All EXCEPT !.sort = "last_accessed_at", !.limit = 1, !.offset = 1]),
     Update(1, [NoPatch EXCEPT !.content = c1]),
     Update(1, [NoPatch EXCEPT !.content = c2]),
     Update(1, [NoPatch EXCEPT !.content = Null]),
     Update(1, [NoPatch EXCEPT !.tags = Null])}
=============================================================================

----------------------------- MODULE MCPageWalk -----------------------------
(***************************************************************************)
(* A small instance of PageWalk, whose searches are those of TextFilter:   *)
(* three live memories, one never accessed, two accessed together, or one  *)
(* more that is retired.                                                   *)
(***************************************************************************)
EXTENDS PageWalk, TextFilter

Percent == <<"A", "%">>
Plainly == <<"a", "a">>
Work == <<"a">>

McContents == {Percent, Plainly}
McTags == {Work}
McTerms == {<<"%">>}
McMentions == [x \in {Percent, Plainly, Work} |-> IF x = Percent THEN {<<"%">>} ELSE {}]

\* The searches of the walk are those of TextFilter.
ASSUME SearchAssumption ==
    \A x \in DOMAIN McMentions : McMentions[x] = {q \in McTerms : Finds(q, x)}

Fact(content) == [content |-> content, tags |-> <<Work>>,
                  memory_type |-> "fact", status |-> "active"]

McBodies == {Fact(Percent)}

Stored(id, content, accessed) ==
    [NewMemory(id, Fact(content), 1) EXCEPT !.last_accessed_at = accessed]

Three == {<<Stored(1, Percent, 2), Stored(2, Plainly, 0), Stored(3, Percent, 2)>>,
          <<Stored(1, Percent, 1), [Stored(2, Plainly, 2) EXCEPT !.body = Retired(@)],
            Stored(3, Plainly, 0), Stored(4, Percent, 2)>>}

Everything == [status |-> Null, memory_type |-> Null, tag |-> Null, q |-> Null,
               sort |-> "id", limit |-> 1, offset |-> 0]

Walks == {[Everything EXCEPT !.sort = s] : s \in SortKeys}
         \cup {[Everything EXCEPT !.sort = s, !.limit = 2] : s \in {"id", "last_accessed_at"}}
         \cup {[Everything EXCEPT !.q = <<"%">>]}
=============================================================================

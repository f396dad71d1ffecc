----------------------------- MODULE Retrieval -----------------------------
(***************************************************************************)
(* A client stores a text, as the content or as a tag of a memory, and     *)
(* looks for it with the filter q or with the filter tag.  Every text and  *)
(* every filter up to a length: the module checks what TextFilter computes *)
(* against what a search promises.                                         *)
(***************************************************************************)
EXTENDS TextFilter

CONSTANTS MaxText,  \* bound: characters of a stored text
          MaxFilter \* bound: characters of a filter

ASSUME RetrievalAssumption == MaxText \in Nat /\ MaxFilter \in Nat

VARIABLES text,   \* what is stored, content or tag
          filter, \* what the client sends
          answer  \* what the service makes of them

searchVars == <<text, filter, answer>>

TextsUpTo(n) == UNION {[1 .. k -> Alphabet] : k \in 1 .. n}

\* validate_content_value and validate_tags_value take a text as it is, unless it
\* is blank; a filter can be anything.
SearchInit ==
    /\ text \in {t \in TextsUpTo(MaxText) : Accepted(t)}
    /\ filter \in TextsUpTo(MaxFilter)
    /\ answer = "none"

Refuse == ~Accepted(filter) /\ answer' = "refused"
Search == Accepted(filter) /\ answer' = IF Finds(filter, text) THEN "found" ELSE "missed"
Select == Accepted(filter) /\ answer' = IF TagMatches(filter, text) THEN "tagged" ELSE "untagged"

SearchNext ==
    /\ answer = "none"
    /\ Refuse \/ Search \/ Select
    /\ UNCHANGED <<text, filter>>

SearchSpec == SearchInit /\ [][SearchNext]_searchVars

-----------------------------------------------------------------------------
(* Properties.                                                             *)

\* What the search promises: the text has the term in it, whatever the case.
HasTerm(t, term) ==
    \E i \in 0 .. Len(t) - Len(term) :
        \A k \in DOMAIN term : FoldPython(t[i + k]) = FoldPython(term[k])

\* README.md:147: q is case-insensitive matching in which %, _ and \ stand for
\* themselves, no more and no less, as long as the text has no capital letter that
\* SQLite cannot fold (_escape_like_pattern, the LIKE of _build_memory_filters).
SearchIsLiteral ==
    answer \in {"found", "missed"} /\ (\A i \in DOMAIN text : text[i] # "E-acute") =>
        (answer = "found" <=> HasTerm(text, Strip(filter)))

\* Whatever the letters, nothing is found that does not have the term in it: the
\* disagreement between Python's lower() and SQLite's LOWER() only loses matches.
NothingSpurious == answer = "found" => HasTerm(text, Strip(filter))

-----------------------------------------------------------------------------
(* What the documentation says and the code does not do.                   *)

\* docs/data_object_schema.md:289: "`tag` is exact matching against the stored tag
\* list." README.md:146: "`tag` matches exactly." So a tag that validate_tags_value
\* lets in is selected by the filter that is the very same text.
TagSelectsItself ==
    answer \in {"tagged", "untagged"} /\ filter = text => answer = "tagged"
=============================================================================

----------------------------- MODULE TextFilter -----------------------------
(***************************************************************************)
(* How the text filters of a retrieval query reach a stored text: the term *)
(* is stripped by the schema, lower-cased by Python, escaped, and wrapped  *)
(* into a LIKE pattern, which SQLite compares with the text it has         *)
(* lower-cased itself.  A text is a sequence of characters, and the        *)
(* alphabet has one character of every sort the code treats differently.   *)
(* SQLite's LOWER and LIKE fold the case of ASCII letters only, Python's   *)
(* lower() that of every letter.                                           *)
(***************************************************************************)
EXTENDS Naturals, Sequences

Seqs == INSTANCE SequencesExt
Sets == INSTANCE FiniteSetsExt

Letters == {"a", "A"}
Marks == {"%", "_", "\\", " "}
Accented == {"e-acute", "E-acute"}
Alphabet == Letters \cup Marks \cup Accented

\* SQLite's LOWER and the comparison of LIKE
FoldSql(c) == IF c = "A" THEN "a" ELSE c

\* str.lower
FoldPython(c) == IF c = "E-acute" THEN "e-acute" ELSE FoldSql(c)

LowerSql(text) == [i \in DOMAIN text |-> FoldSql(text[i])]
LowerPython(text) == [i \in DOMAIN text |-> FoldPython(text[i])]

\* validate_optional_text_filter: str.strip
Strip(text) ==
    LET solid == {i \in DOMAIN text : text[i] # " "}
    IN  IF solid = {} THEN << >> ELSE SubSeq(text, Sets!Min(solid), Sets!Max(solid))

\* The filter a request can bring; an empty one is refused with 422.
Accepted(text) == Strip(text) # << >>

\* str.replace of one character
Replaced(text, c, by) ==
    Seqs!FlattenSeq([i \in DOMAIN text |-> IF text[i] = c THEN by ELSE <<text[i]>>])

\* Faulty: the escape character is escaped last, together with its own work.
EscapedBackslashLast(text) ==
    Replaced(Replaced(Replaced(text, "%", <<"\\", "%">>), "_", <<"\\", "_">>),
             "\\", <<"\\", "\\">>)

\* Faulty: the one-character wildcard is forgotten.
EscapedPercentOnly(text) ==
    Replaced(Replaced(text, "\\", <<"\\", "\\">>), "%", <<"\\", "%">>)

\* _escape_like_pattern
Escaped(text) ==
    Replaced(Replaced(Replaced(text, "\\", <<"\\", "\\">>), "%", <<"\\", "%">>),
             "_", <<"\\", "_">>)

Pattern(q) == <<"%">> \o Escaped(LowerPython(q)) \o <<"%">>

\* text LIKE pattern ESCAPE '\': fits[r] is where in text its rest can begin that
\* the last r characters of pattern match.
Like(text, pattern) ==
    LET m == Len(pattern)
        n == Len(text)
        Before(c, ends) == {j \in 0 .. n - 1 : FoldSql(c) = FoldSql(text[j + 1]) /\ j + 1 \in ends}
        fits[r \in 0 .. m] ==
            LET c == pattern[m - r + 1]
            IN  CASE r = 0 -> {n}
                  [] r > 0 /\ c = "%" -> {j \in 0 .. n : \E k \in j .. n : k \in fits[r - 1]}
                  [] r > 0 /\ c = "_" -> {j \in 0 .. n - 1 : j + 1 \in fits[r - 1]}
                  [] r = 1 /\ c = "\\" -> {}
                  [] r > 1 /\ c = "\\" -> Before(pattern[m - r + 2], fits[r - 2])
                  [] OTHER -> Before(c, fits[r - 1])
    IN  0 \in fits[m]

\* The two text filters of _build_memory_filters, from what the client sent.
Finds(q, text) == Like(LowerSql(text), Pattern(Strip(q)))
TagMatches(filter, tag) == Strip(filter) = tag
=============================================================================

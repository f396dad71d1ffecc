-------------------------- MODULE PageWalk_proofs --------------------------
(***************************************************************************)
(* Proofs about PageWalk, for every table a walk may start from, every     *)
(* query and page size, and any number of steps of other clients.          *)
(*                                                                         *)
(* The argument is one of counting.  Covered(G, n) says that the matches   *)
(* in G, what the client has received, and everything listed before them   *)
(* are no more than n rows; a page that starts at offset n therefore has   *)
(* none of them.  Others may retire a match (fewer rows come before),      *)
(* create one (where the order puts it last), and, unless the order is the *)
(* one by access time, access one.  In access order the client's own       *)
(* refresh moves each page: MovedInv describes the page between its read   *)
(* and its refresh.                                                        *)
(***************************************************************************)
EXTENDS PageWalk, MemoryModel_proofs

\* What the service promises about the table a walk reads.
Contract == INSTANCE MemoryContract

\* The ids of the rows a query selects.
Matches(t, q) == {i \in DOMAIN t : Selected(t[i], q)}

Ahead(i, j, t, q) == Precedes(t[i], t[j], q.sort)

\* Every match in G, and every match listed before one, is in K.
Covers(K, G, t, q) ==
    \A g \in G \cap Matches(t, q) :
        g \in K /\ \A j \in Matches(t, q) \ K : Ahead(g, j, t, q)

Covered(G, n, t, q) ==
    \E K \in SUBSET DOMAIN t : Cardinality(K) <= n /\ Covers(K, G, t, q)

-----------------------------------------------------------------------------
(* The invariant.                                                          *)

Received == got \cup Ids(page)
Reached  == query.offset + Cardinality(page)

\* The rows carry their ids, and no timestamp is in the future.
TableInv ==
    /\ Numbered(table)
    /\ clock >= Start
    /\ \A i \in DOMAIN table : table[i].last_accessed_at <= clock

\* The page a request is working on.
PageInv ==
    /\ \A m \in page : m.id \in DOMAIN table
    /\ IsFiniteSet(page) /\ Cardinality(Ids(page)) = Cardinality(page)
    /\ phase \in {"ask", "failed", "done"} => page = {}
    /\ phase \in {"refresh", "answer"} => asked \in Start .. clock

\* The order does not change under the client.
FixedOrder ==
    /\ query.sort # "last_accessed_at"
    /\ drift = {} \/ (Plain(query) /\ query.sort = "id")

\* The order changes only by the client's own refreshes.
MovingOrder ==
    /\ query.sort = "last_accessed_at" /\ retries = 0
    /\ drift = {} \/ (Plain(query) /\ "access" \notin drift)

\* The offset counts what was received, and a page brings only new memories.
CountInv ==
    FixedOrder \/ MovingOrder => NothingTwice /\ got \cap Ids(page) = {}

FixedInv ==
    FixedOrder => /\ Covered(got, query.offset, table, query)
                  /\ Covered(Received, Reached, table, query)

\* A refreshed page is on top of the list; one that waits for its refresh will be
\* above everything that it was not listed after.
MovedInv ==
    MovingOrder =>
        /\ \A g \in got : table[g].last_accessed_at >= Start
        /\ phase = "answer" =>
              \A m \in page : table[m.id].last_accessed_at >= Start
        /\ phase # "refresh" => Covered(Received, Reached, table, query)
        /\ phase = "refresh" =>
              \E K \in SUBSET DOMAIN table :
                 /\ Cardinality(K) <= Reached
                 /\ Ids(page) \subseteq K
                 /\ Covers(K, got, table, query)
                 /\ \A m \in page, j \in Matches(table, query) \ K :
                       \/ table[j].last_accessed_at < asked
                       \/ table[j].last_accessed_at = asked /\ j < m.id

LiveUpTo(n) == {i \in 1 .. n : Visible(table[i])}

\* When the total was counted, no more memories were live than it says; what has
\* been created since is of no concern.
MissInv ==
    Plain(query) /\ query.sort = "id" =>
        /\ phase \in {"refresh", "answer"} =>
              \E n \in 0 .. Len(table) : /\ Received \cup start \subseteq 1 .. n
                                         /\ Cardinality(LiveUpTo(n)) <= total
        /\ phase = "done" =>
              \E n \in 0 .. Len(table) : /\ got \cup start \subseteq 1 .. n
                                         /\ Cardinality(LiveUpTo(n)) <= query.offset

\* While nobody else changes anything, what matches is what matched.
QuietInv ==
    drift = {} =>
        /\ start = Matches(table, query)
        /\ Received \subseteq start
        /\ phase \in {"refresh", "answer"} => total = Cardinality(start)
        /\ phase = "done" => query.offset >= Cardinality(start)

IInv == /\ TypeOK /\ TableInv /\ PageInv /\ CountInv
        /\ FixedInv /\ MovedInv /\ MissInv /\ QuietInv

-----------------------------------------------------------------------------
(* Lemmas about what covers what.                                          *)

\* Memories that are told apart by their ids are as many as their ids.
LEMMA IdsCounted ==
    ASSUME NEW P, IsFiniteSet(P), \A m, n \in P : m.id = n.id => m = n
    PROVE  IsFiniteSet(Ids(P)) /\ Cardinality(Ids(P)) = Cardinality(P)
  <1> DEFINE f == [m \in P |-> m.id]
  <1>1. /\ f \in [P -> Ids(P)]
        /\ \A m, n \in P : f[m] = f[n] => m = n
        /\ \A i \in Ids(P) : \E m \in P : f[m] = i
    BY DEF Ids
  <1> HIDE DEF f
  <1>2. f \in Bijection(P, Ids(P))
    BY <1>1, Zenon DEF Bijection, Injection, Surjection, IsInjective
  <1> QED BY <1>2, FS_Bijection, Zenon DEF ExistsBijection

\* The matches are told apart by their ids, which are their places in the table.
LEMMA MatchesCounted ==
    ASSUME NEW t \in Seq(Memory), Numbered(t), NEW q
    PROVE  /\ Matches(t, q) = Ids(Matching(t, q))
           /\ IsFiniteSet(Matches(t, q))
           /\ Cardinality(Matches(t, q)) = Cardinality(Matching(t, q))
           /\ \A i \in Matches(t, q) : t[i] \in Matching(t, q) /\ t[i].id = i
  <1>1. \A i \in Matches(t, q) : t[i] \in Matching(t, q) /\ t[i].id = i
    BY MatchingRows, Zenon DEF Matches, Numbered
  <1>2. \A m \in Matching(t, q) : m.id \in Matches(t, q) /\ t[m.id] = m
    <2>1. \A m \in Matching(t, q) : m.id \in DOMAIN t /\ t[m.id] = m /\ Selected(m, q)
      BY MatchingRows, Zenon
    <2> QED BY <2>1 DEF Matches
  <1>3. Matches(t, q) = Ids(Matching(t, q))
    BY <1>1, <1>2 DEF Ids
  <1>4. /\ IsFiniteSet(Matching(t, q))
        /\ \A m, n \in Matching(t, q) : m.id = n.id => m = n
    BY MatchingRows
  <1>5. /\ IsFiniteSet(Matches(t, q))
        /\ Cardinality(Matches(t, q)) = Cardinality(Matching(t, q))
    BY <1>3, <1>4, IdsCounted
  <1> QED BY <1>1, <1>3, <1>5

\* A set of rows of a table is finite.
LEMMA RowsFinite ==
    ASSUME NEW t \in Seq(Memory), NEW K \in SUBSET DOMAIN t
    PROVE  IsFiniteSet(K) /\ Cardinality(K) \in Nat
  <1>1. DOMAIN t = 1 .. Len(t) /\ 1 \in Int /\ Len(t) \in Int
    OBVIOUS
  <1>2. IsFiniteSet(DOMAIN t)
    BY <1>1, FS_Interval, Zenon
  <1>3. IsFiniteSet(K)
    BY <1>2, FS_Subset, Zenon
  <1> QED BY <1>3, FS_CardinalityType, Zenon

\* A received match comes before position n, if n rows cover what was received.
LEMMA CoveredPosition ==
    ASSUME NEW t \in Seq(Memory), Numbered(t), NEW q \in Query, NEW n \in Nat,
           NEW G, Covered(G, n, t, q), NEW g \in G \cap Matches(t, q)
    PROVE  Position(t[g], t, q) < n
  <1>1. PICK K \in SUBSET DOMAIN t : Cardinality(K) <= n /\ Covers(K, G, t, q)
    BY DEF Covered
  <1> DEFINE B == {m \in Matching(t, q) : Precedes(m, t[g], q.sort)}
             f == [m \in B |-> m.id]
  <1>2. IsFiniteSet(K) /\ Cardinality(K) \in Nat
    BY RowsFinite
  <1>3. t[g] \in Matching(t, q) /\ t[g].id = g /\ t[g] \in Memory
    BY MatchesCounted, MatchingRows, Zenon
  <1>4. g \in K /\ \A j \in Matches(t, q) \ K : Precedes(t[g], t[j], q.sort)
    BY <1>1 DEF Covers, Ahead
  <1>5. \A m \in B : m.id \in K \ {g}
    <2> SUFFICES ASSUME NEW m \in B PROVE m.id \in K \ {g}
      OBVIOUS
    <2>1. m \in Memory /\ m.id \in Matches(t, q) /\ t[m.id] = m
      BY MatchingRows DEF Matches
    <2>2. Precedes(m, t[g], q.sort) /\ q.sort \in SortKeys
      BY DEF Query
    <2>3. ~Precedes(t[g], m, q.sort) /\ m # t[g]
      BY <1>3, <2>1, <2>2, PrecedesOrder
    <2> QED BY <1>4, <2>1, <2>3
  <1>6. IsFiniteSet(K \ {g}) /\ Cardinality(K \ {g}) = Cardinality(K) - 1
    BY <1>2, <1>4, FS_RemoveElement, Zenon
  <1>7. f \in Injection(B, K \ {g})
    <2>1. \A m, k \in B : m.id = k.id => m = k
      BY MatchingRows, Zenon
    <2>2. f \in [B -> K \ {g}]
      BY <1>5
    <2>3. \A m, k \in B : f[m] = f[k] => m = k
      BY <2>1
    <2> HIDE DEF f, B
    <2> QED BY <2>2, <2>3 DEF Injection, IsInjective
  <1>8. IsFiniteSet(B) /\ Cardinality(B) <= Cardinality(K \ {g})
    <2> HIDE DEF f, B
    <2> QED BY <1>6, <1>7, FS_Injection, Zenon
  <1>9. Position(t[g], t, q) = Cardinality(B) /\ Cardinality(B) \in Nat
    BY <1>8, FS_CardinalityType DEF Position
  <1> QED BY <1>1, <1>2, <1>6, <1>8, <1>9

\* The page at the offset that covers what was received brings nothing of it, and
\* the rows up to its end cover it and the page.
LEMMA ReadCovers ==
    ASSUME NEW t \in Seq(Memory), Numbered(t), NEW q \in Query,
           NEW G, Covered(G, q.offset, t, q), NEW P, P = Page(t, q), P # {}
    PROVE  LET K == Ids(Prefix(q.offset + Cardinality(P), t, q))
           IN  /\ G \cap Ids(P) = {}
               /\ K \in SUBSET DOMAIN t
               /\ Cardinality(K) = q.offset + Cardinality(P)
               /\ Ids(P) \subseteq K
               /\ Covers(K, G \cup Ids(P), t, q)
  <1> DEFINE n == q.offset + Cardinality(P)
             R == Prefix(n, t, q)
             K == Ids(R)
             all == Cardinality(Matching(t, q))
  <1>1. /\ q.offset \in Nat /\ q.limit \in Nat \ {0} /\ q.sort \in SortKeys
    BY DEF Query
  <1>2. /\ IsFiniteSet(P) /\ Cardinality(P) \in Nat /\ all \in Nat
        /\ P \subseteq Matching(t, q) /\ Cardinality(P) <= q.limit
        /\ Cardinality(P) > 0 => n <= all
        /\ n < all => Cardinality(P) = q.limit
    BY <1>1, PageSize
  <1>3. Cardinality(P) > 0
    BY <1>2, FS_EmptySet
  <1>4. n \in Nat /\ n <= all
    BY <1>1, <1>2, <1>3
  <1> HIDE DEF all
  <1>5. \A m \in Matching(t, q) : Position(m, t, q) \in 0 .. all - 1
    BY PositionOrder DEF all
  <1>6. \A m \in P : /\ m \in Matching(t, q)
                     /\ Position(m, t, q) >= q.offset
                     /\ Position(m, t, q) < n
    <2> SUFFICES ASSUME NEW m \in P
                 PROVE  /\ m \in Matching(t, q)
                        /\ Position(m, t, q) >= q.offset /\ Position(m, t, q) < n
      OBVIOUS
    <2>1. m \in Matching(t, q) /\ Position(m, t, q) \in q.offset .. q.offset + q.limit - 1
      BY DEF Page
    <2>2. Position(m, t, q) \in 0 .. all - 1
      BY <1>5, <2>1
    <2> QED BY <1>1, <1>2, <1>4, <2>1, <2>2
  <1>7. R = {m \in Matching(t, q) : Position(m, t, q) \in 0 .. n - 1}
    BY DEF Prefix, RowsAt
  <1>8. \A m \in Matching(t, q) : m \in R <=> Position(m, t, q) < n
    BY <1>4, <1>5, <1>7
  <1>9. IsFiniteSet(R) /\ Cardinality(R) = n
    <2>1. (0 .. n - 1) \in SUBSET (0 .. all - 1)
      BY <1>2, <1>4
    <2>2. IsFiniteSet(R) /\ Cardinality(R) = Cardinality(0 .. n - 1)
      BY <2>1, RowsCounted DEF all, Prefix
    <2>3. 0 \in Int /\ n - 1 \in Int
      BY <1>4
    <2>4. Cardinality(0 .. n - 1) = IF 0 > n - 1 THEN 0 ELSE (n - 1) - 0 + 1
      BY <2>3, FS_Interval, Zenon
    <2>5. Cardinality(0 .. n - 1) = n
      BY <1>4, <2>4
    <2> QED BY <2>2, <2>5
  <1> HIDE DEF n
  <1>10. P \subseteq R /\ R \subseteq Matching(t, q)
    BY <1>6, <1>7, <1>8
  <1> HIDE DEF R
  <1>11. \A m \in Matching(t, q) : m.id \in DOMAIN t /\ t[m.id] = m /\ m.id \in Matches(t, q)
    BY MatchingRows DEF Matches
  <1>12. K \in SUBSET DOMAIN t /\ Ids(P) \subseteq K
    BY <1>10, <1>11 DEF Ids
  <1>13. Cardinality(K) = n
    BY <1>9, <1>10, <1>11, IdsCounted
  <1>14. \A j \in Matches(t, q) \ K : t[j] \in Matching(t, q) /\ t[j] \notin R
    BY MatchesCounted DEF Ids
  <1>15. ASSUME NEW m \in R, NEW j \in Matches(t, q) \ K
         PROVE  Precedes(m, t[j], q.sort)
    <2>1. m \in Matching(t, q) /\ t[j] \in Matching(t, q)
      BY <1>10, <1>14
    <2>2. Position(m, t, q) < n /\ ~(Position(t[j], t, q) < n)
      BY <1>8, <1>14, <2>1
    <2>3. Position(m, t, q) \in Nat /\ Position(t[j], t, q) \in Nat
      BY <1>2, <1>5, <2>1
    <2>4. Position(m, t, q) < Position(t[j], t, q)
      BY <1>4, <2>2, <2>3
    <2> QED BY <2>1, <2>4, PositionOrder
  <1>16. ASSUME NEW g \in G \cap Matches(t, q)
         PROVE  t[g] \in R /\ t[g].id = g /\ Position(t[g], t, q) < q.offset
    <2>1. Position(t[g], t, q) < q.offset
      BY <1>1, CoveredPosition
    <2>2. t[g] \in Matching(t, q) /\ t[g].id = g
      BY MatchesCounted, Zenon
    <2>3. Position(t[g], t, q) \in Nat
      BY <1>2, <1>5, <2>2
    <2>4. Position(t[g], t, q) < n
      BY <1>1, <1>2, <2>1, <2>3 DEF n
    <2> QED BY <1>8, <2>1, <2>2, <2>4
  <1>17. G \cap Ids(P) = {}
    <2> SUFFICES ASSUME NEW m \in P, m.id \in G
                 PROVE  FALSE
      BY DEF Ids
    <2>1. t[m.id] = m /\ m.id \in G \cap Matches(t, q)
      BY <1>6, <1>11
    <2>2. Position(m, t, q) < q.offset
      BY <1>16, <2>1
    <2>3. Position(m, t, q) >= q.offset /\ Position(m, t, q) \in 0 .. all - 1
      BY <1>5, <1>6
    <2> QED BY <1>1, <1>2, <2>2, <2>3
  <1>18. Covers(K, G \cup Ids(P), t, q)
    <2> SUFFICES ASSUME NEW g \in (G \cup Ids(P)) \cap Matches(t, q)
                 PROVE  g \in K /\ \A j \in Matches(t, q) \ K : Ahead(g, j, t, q)
      BY DEF Covers
    <2>1. t[g] \in R /\ t[g].id = g
      <3>1. CASE g \in G
        BY <3>1, <1>16
      <3>2. CASE g \in Ids(P)
        <4>1. PICK m \in P : g = m.id
          BY <3>2 DEF Ids
        <4> QED BY <4>1, <1>6, <1>10, <1>11
      <3> QED BY <3>1, <3>2
    <2>2. g \in K
      BY <2>1 DEF Ids
    <2> QED BY <1>15, <2>1, <2>2 DEF Ahead
  <1> QED BY <1>12, <1>13, <1>17, <1>18 DEF n, R

\* What is covered stays covered while matches only leave, keep their order, and
\* arrive last.
LEMMA CoversKept ==
    ASSUME NEW t, NEW u, NEW q, NEW K, NEW G,
           DOMAIN t \subseteq DOMAIN u, K \subseteq DOMAIN t, G \subseteq DOMAIN t,
           Covers(K, G, t, q),
           Matches(u, q) \cap DOMAIN t \subseteq Matches(t, q),
           \A i \in G, j \in DOMAIN t \ K : Ahead(i, j, t, q) => Ahead(i, j, u, q),
           \A i \in G, j \in Matches(u, q) \ DOMAIN t : Ahead(i, j, u, q)
    PROVE  Covers(K, G, u, q)
  <1> SUFFICES ASSUME NEW g \in G \cap Matches(u, q)
               PROVE  g \in K /\ \A j \in Matches(u, q) \ K : Ahead(g, j, u, q)
    BY DEF Covers
  <1>1. g \in Matches(t, q)
    OBVIOUS
  <1>2. g \in K /\ \A j \in Matches(t, q) \ K : Ahead(g, j, t, q)
    BY <1>1, Zenon DEF Covers
  <1>3. ASSUME NEW j \in Matches(u, q) \ K
        PROVE  Ahead(g, j, u, q)
    <2>1. CASE j \in DOMAIN t
      <3>1. j \in Matches(t, q) \ K /\ j \in DOMAIN t \ K
        BY <2>1, <1>3
      <3> QED BY <1>2, <3>1, Zenon
    <2>2. CASE j \notin DOMAIN t
      BY <2>2, <1>3, Zenon
    <2> QED BY <2>1, <2>2
  <1> QED BY <1>2, <1>3

\* The offset of a query plays no part in what it matches, nor in the order.
LEMMA OffsetApart ==
    ASSUME NEW q \in Query, NEW k \in Nat, NEW t
    PROVE  LET r == [q EXCEPT !.offset = k]
           IN  /\ r \in Query /\ r.offset = k /\ r.sort = q.sort /\ r.limit = q.limit
               /\ Plain(r) <=> Plain(q)
               /\ Matches(t, r) = Matches(t, q)
               /\ \A G, n : Covered(G, n, t, r) <=> Covered(G, n, t, q)
  <1> DEFINE r == [q EXCEPT !.offset = k]
  <1>1. /\ r \in Query /\ r.offset = k /\ r.sort = q.sort /\ r.limit = q.limit
        /\ r.status = q.status /\ r.memory_type = q.memory_type
        /\ r.tag = q.tag /\ r.q = q.q
    BY DEF Query
  <1> HIDE DEF r
  <1>2. \A m : Selected(m, r) <=> Selected(m, q)
    BY <1>1, Zenon DEF Selected
  <1>3. Matches(t, r) = Matches(t, q)
    BY <1>2 DEF Matches
  <1>4. \A i, j : Ahead(i, j, t, r) <=> Ahead(i, j, t, q)
    BY <1>1 DEF Ahead
  <1>5. \A K, G : Covers(K, G, t, r) <=> Covers(K, G, t, q)
    BY <1>3, <1>4, Zenon DEF Covers
  <1>6. \A G, n : Covered(G, n, t, r) <=> Covered(G, n, t, q)
    BY <1>5, Zenon DEF Covered
  <1> QED BY <1>1, <1>3, <1>6 DEF r, Plain

-----------------------------------------------------------------------------
(* What a step can do to the table.                                        *)

\* Others create behind the last row and never bring a retired memory back; only an
\* access changes an access time.
OthersEffect ==
    /\ table' \in Seq(Memory) /\ Numbered(table')
    /\ DOMAIN table \subseteq DOMAIN table' /\ Len(table) <= Len(table')
    /\ clock' \in Nat /\ clock <= clock'
    /\ \A i \in DOMAIN table' : table'[i].last_accessed_at <= clock'
    /\ \A i \in DOMAIN table : Visible(table'[i]) => Visible(table[i])
    /\ "access" \notin drift' =>
          \A i \in DOMAIN table :
             table'[i].last_accessed_at = table[i].last_accessed_at
    /\ \A i \in DOMAIN table' \ DOMAIN table : table'[i].last_accessed_at = 0

\* A body can be stored without its tags.
LEMMA UntaggedType ==
    ASSUME NEW b \in Body
    PROVE  Untagged(b) \in Body
  <1>1. /\ b.content \in Contents /\ b.memory_type \in MemoryTypes /\ b.status \in Statuses
        /\ Untagged(b) = [content |-> b.content, tags |-> Null,
                          memory_type |-> b.memory_type, status |-> b.status]
    BY DEF Untagged, Body
  <1> QED BY <1>1 DEF Body

\* What a PATCH or DELETE makes of a memory.
LEMMA RevisedType ==
    ASSUME NEW m \in Memory, NEW body \in Body, NEW now \in Nat
    PROVE  /\ Revised(m, body, now) \in Memory
           /\ Revised(m, body, now).id = m.id
           /\ Revised(m, body, now).last_accessed_at = m.last_accessed_at
  <1>1. m.version + 1 \in Nat \ {0}
    BY DEF Memory
  <1> QED BY <1>1 DEF Revised, Memory

\* A retired body is a body.
LEMMA RetiredType ==
    ASSUME NEW m \in Memory
    PROVE  Retired(m.body) \in Body
  <1>1. m.body \in Body
    BY DEF Memory
  <1> QED BY <1>1 DEF Body, Retired, Statuses

\* Replacing one row of a table by another with its id.
LEMMA RowReplaced ==
    ASSUME NEW t \in Seq(Memory), Numbered(t), NEW i \in DOMAIN t,
           NEW m \in Memory, m.id = i
    PROVE  LET u == [t EXCEPT ![i] = m]
           IN  /\ u \in Seq(Memory) /\ Numbered(u)
               /\ DOMAIN u = DOMAIN t /\ Len(u) = Len(t)
               /\ \A j \in DOMAIN t : u[j] = IF j = i THEN m ELSE t[j]
  <1> DEFINE u == [t EXCEPT ![i] = m]
  <1>1. u \in Seq(Memory) /\ DOMAIN u = DOMAIN t /\ Len(u) = Len(t)
    OBVIOUS
  <1>2. \A j \in DOMAIN t : u[j] = IF j = i THEN m ELSE t[j]
    OBVIOUS
  <1> HIDE DEF u
  <1>3. Numbered(u)
    BY <1>1, <1>2 DEF Numbered
  <1> QED BY <1>1, <1>2, <1>3 DEF u

\* What a commit of another client does to the table, and what it leaves alone.
LEMMA OthersKeep ==
    ASSUME TypeOK, TableInv, Others
    PROVE  /\ OthersEffect
           /\ phase # "done" /\ drift' # {} /\ drift \subseteq drift'
           /\ drift' \subseteq {"create", "revise", "access"}
           /\ changes' \in Nat /\ changes' + retries <= MaxEvents
           /\ UNCHANGED <<query, phase, asked, page, total, got, start, retries>>
  <1> USE DEF TypeOK, TableInv
  <1>1. PICK s \in Start .. clock + 1 :
           \/ \E b \in Bodies : Create(b, s)
           \/ \E i \in DOMAIN table, b \in Bodies : Revise(i, b, s)
           \/ \E i \in DOMAIN table :
                 \/ Revise(i, Retired(table[i].body), s)
                 \/ Revise(i, Untagged(table[i].body), s)
                 \/ Access(i, s)
    BY DEF Others
  <1>2. Start \in Nat \ {0} /\ MaxEvents \in Nat /\ Bodies \subseteq Body /\ s \in Nat
    BY WalkAssumption DEF NewBody
  <1>3. PICK kind \in {"create", "revise", "access"} : Meanwhile(kind, s)
    BY <1>1 DEF Create, Revise, Access
  <1>4. /\ phase # "done" /\ drift' # {} /\ drift \subseteq drift'
        /\ drift' \subseteq {"create", "revise", "access"}
        /\ UNCHANGED <<query, phase, asked, page, total, got, start, retries>>
    BY <1>3 DEF Meanwhile
  <1>5. changes' \in Nat /\ changes' + retries <= MaxEvents
    BY <1>2, <1>3 DEF Meanwhile
  <1>6. clock' \in Nat /\ clock <= clock' /\ s <= clock'
    BY <1>2, <1>3 DEF Meanwhile
  <1>7. \A i \in DOMAIN table : table[i] \in Memory /\ table[i].id = i
    BY DEF Numbered
  <1>8. ASSUME NEW i \in DOMAIN table, NEW m \in Memory, m.id = i,
               table' = [table EXCEPT ![i] = m],
               m.last_accessed_at <= clock',
               Visible(m) => Visible(table[i]),
               "access" \notin drift' => m.last_accessed_at = table[i].last_accessed_at
        PROVE  OthersEffect
    <2>1. /\ table' \in Seq(Memory) /\ Numbered(table')
          /\ DOMAIN table' = DOMAIN table /\ Len(table') = Len(table)
          /\ \A j \in DOMAIN table : table'[j] = IF j = i THEN m ELSE table[j]
      BY <1>8, RowReplaced
    <2>2. \A j \in DOMAIN table : table'[j].last_accessed_at <= clock'
      <3> SUFFICES ASSUME NEW j \in DOMAIN table
                   PROVE  table'[j].last_accessed_at <= clock'
        OBVIOUS
      <3>1. CASE j = i BY <3>1, <1>8, <2>1
      <3>2. CASE j # i
        <4>1. table'[j] = table[j] /\ table[j].last_accessed_at \in Nat
          BY <3>2, <1>7, <2>1 DEF Memory
        <4> QED BY <4>1, <1>6
      <3> QED BY <3>1, <3>2
    <2>3. Len(table) <= Len(table')
      BY <2>1
    <2> QED BY <1>6, <1>8, <2>1, <2>2, <2>3 DEF OthersEffect
  <1>9. CASE \E b \in Bodies : Create(b, s)
    <2>1. PICK b \in Bodies : Create(b, s)
      BY <1>9
    <2> DEFINE m == NewMemory(Len(table) + 1, b, s)
    <2>2. m \in Memory /\ m.id = Len(table) + 1 /\ m.last_accessed_at = 0
      BY <1>2 DEF NewMemory, Memory
    <2> HIDE DEF m
    <2>3. table' = Append(table, m)
      BY <2>1 DEF Create, m
    <2>4. /\ table' \in Seq(Memory) /\ DOMAIN table \subseteq DOMAIN table'
          /\ Len(table) <= Len(table')
          /\ \A i \in DOMAIN table : table'[i] = table[i]
          /\ \A i \in DOMAIN table' \ DOMAIN table : i = Len(table) + 1 /\ table'[i] = m
      BY <2>2, <2>3
    <2>5. Numbered(table')
      BY <2>2, <2>4 DEF Numbered
    <2>6. \A i \in DOMAIN table' : table'[i].last_accessed_at <= clock'
      <3> SUFFICES ASSUME NEW i \in DOMAIN table'
                   PROVE  table'[i].last_accessed_at <= clock'
        OBVIOUS
      <3>1. CASE i \in DOMAIN table
        <4>1. table'[i] = table[i] /\ table[i].last_accessed_at \in Nat
          BY <3>1, <1>7, <2>4 DEF Memory
        <4> QED BY <4>1, <3>1, <1>6
      <3>2. CASE i \notin DOMAIN table
        BY <3>2, <1>6, <2>2, <2>4
      <3> QED BY <3>1, <3>2
    <2> QED BY <1>4, <1>5, <1>6, <2>2, <2>4, <2>5, <2>6 DEF OthersEffect
  <1>10. ASSUME NEW i \in DOMAIN table, NEW body \in Body, Revise(i, body, s)
         PROVE  OthersEffect
    <2> DEFINE m == Revised(table[i], body, s)
    <2>1. table' = [table EXCEPT ![i] = m] /\ Visible(table[i])
      BY <1>10 DEF Revise
    <2>2. table[i] \in Memory /\ table[i].id = i
      BY <1>7
    <2>3. /\ m \in Memory /\ m.id = i
          /\ m.last_accessed_at = table[i].last_accessed_at
      BY <1>2, <2>2, RevisedType
    <2>4. m.last_accessed_at <= clock'
      BY <1>6, <2>2, <2>3 DEF Memory
    <2> QED BY <1>8, <2>1, <2>3, <2>4
  <1>11. ASSUME NEW i \in DOMAIN table, Access(i, s)
         PROVE  OthersEffect
    <2> DEFINE m == Accessed(table[i], s)
    <2>1. table' = [table EXCEPT ![i] = m] /\ "access" \in drift'
      BY <1>11 DEF Access, Meanwhile
    <2>2. /\ m \in Memory /\ m.id = i
          /\ m.last_accessed_at = s /\ m.body = table[i].body
      BY <1>2, <1>7 DEF Accessed, Memory
    <2>3. Visible(m) => Visible(table[i])
      BY <2>2 DEF Visible
    <2> QED BY <1>6, <1>8, <2>1, <2>2, <2>3
  <1>12. \A i \in DOMAIN table :
            Retired(table[i].body) \in Body /\ Untagged(table[i].body) \in Body
    BY <1>7, RetiredType, UntaggedType DEF Memory
  <1>13. OthersEffect
    BY <1>1, <1>2, <1>9, <1>10, <1>11, <1>12
  <1> QED BY <1>4, <1>5, <1>13

\* The client's own request changes nothing but access times, and those of the page
\* to one instant not before it was read.
RefreshEffect(s) ==
    /\ table' \in Seq(Memory) /\ Numbered(table')
    /\ DOMAIN table' = DOMAIN table /\ Len(table') = Len(table)
    /\ s \in Nat /\ asked <= s /\ clock <= clock' /\ clock' \in Nat /\ s <= clock'
    /\ \A i \in DOMAIN table :
          /\ table'[i].body = table[i].body
          /\ table'[i].created_at = table[i].created_at
          /\ table'[i].updated_at = table[i].updated_at
          /\ i \in Ids(page) => table'[i].last_accessed_at = s
          /\ i \notin Ids(page) => table'[i].last_accessed_at = table[i].last_accessed_at

\* What the client's own refresh does to the table.
LEMMA RefreshKeep ==
    ASSUME TypeOK, TableInv, Refresh
    PROVE  \E s : RefreshEffect(s)
  <1>1. PICK s \in asked .. clock + 1 :
          /\ clock' = IF s > clock THEN s ELSE clock
          /\ table' = [i \in DOMAIN table |->
                          IF i \in Ids(page) THEN Accessed(table[i], s) ELSE table[i]]
    BY DEF Refresh
  <1>2. /\ s \in Nat /\ asked <= s /\ clock <= clock' /\ clock' \in Nat /\ s <= clock'
    BY <1>1 DEF TypeOK
  <1>3. \A i \in DOMAIN table : table[i] \in Memory /\ table[i].id = i
    BY DEF TypeOK, TableInv, Numbered
  <1>4. \A i \in DOMAIN table :
          /\ table'[i] \in Memory
          /\ table'[i].id = i
          /\ table'[i].body = table[i].body
          /\ table'[i].created_at = table[i].created_at
          /\ table'[i].updated_at = table[i].updated_at
          /\ i \in Ids(page) => table'[i].last_accessed_at = s
          /\ i \notin Ids(page) => table'[i].last_accessed_at = table[i].last_accessed_at
    <2> SUFFICES ASSUME NEW i \in DOMAIN table
                 PROVE  /\ table'[i] \in Memory
                        /\ table'[i].id = i
                        /\ table'[i].body = table[i].body
                        /\ table'[i].created_at = table[i].created_at
                        /\ table'[i].updated_at = table[i].updated_at
                        /\ i \in Ids(page) => table'[i].last_accessed_at = s
                        /\ i \notin Ids(page) =>
                              table'[i].last_accessed_at = table[i].last_accessed_at
      OBVIOUS
    <2>1. CASE i \in Ids(page)
      <3>1. table'[i] = Accessed(table[i], s)
        BY <1>1, <2>1
      <3>2. table[i] \in Memory /\ table[i].id = i
        BY <1>3
      <3> QED BY <1>2, <2>1, <3>1, <3>2 DEF Accessed, Memory
    <2>2. CASE i \notin Ids(page)
      BY <1>1, <1>3, <2>2
    <2> QED BY <2>1, <2>2
  <1>5. DOMAIN table' = DOMAIN table /\ Len(table') = Len(table) /\ table' \in Seq(Memory)
    <2>1. table \in Seq(Memory)
      BY DEF TypeOK
    <2>2. DOMAIN table' = 1 .. Len(table) /\ table' = [i \in 1 .. Len(table) |-> table'[i]]
      BY <1>1, <2>1
    <2>3. table' \in Seq(Memory)
      BY <1>4, <2>1, <2>2
    <2> QED BY <2>1, <2>2, <2>3
  <1>6. Numbered(table')
    BY <1>4, <1>5 DEF Numbered
  <1> QED BY <1>2, <1>4, <1>5, <1>6 DEF RefreshEffect

\* A page that was read is a finite set of matches, as many memories as ids; the
\* total counts the matches.
LEMMA ReadFacts ==
    ASSUME TypeOK, TableInv, ReadPage
    PROVE  /\ page' = Page(table, query)
           /\ IsFiniteSet(page') /\ page' \in SUBSET Memory
           /\ Cardinality(page') \in 0 .. query.limit
           /\ Cardinality(Ids(page')) = Cardinality(page')
           /\ Ids(page') \subseteq Matches(table, query)
           /\ total' \in Nat /\ total' = Cardinality(Matches(table, query))
           /\ Cardinality(page') = 0 => total' <= query.offset
  <1>1. table \in Seq(Memory) /\ Numbered(table) /\ query \in Query
    BY DEF TypeOK, TableInv
  <1>2. page' = Page(table, query) /\ total' = Cardinality(Matching(table, query))
    BY DEF ReadPage
  <1>3. /\ IsFiniteSet(page') /\ Cardinality(page') \in 0 .. query.limit
        /\ page' \subseteq Matching(table, query) /\ total' \in Nat
        /\ query.offset + Cardinality(page') < total' => Cardinality(page') = query.limit
    BY <1>1, <1>2, PageSize
  <1>4. /\ \A m \in Matching(table, query) : m \in Memory
        /\ \A m, n \in Matching(table, query) : m.id = n.id => m = n
    BY <1>1, MatchingRows, Zenon
  <1>5. Cardinality(Ids(page')) = Cardinality(page')
    BY <1>3, <1>4, IdsCounted
  <1>6. /\ Ids(Matching(table, query)) = Matches(table, query)
        /\ total' = Cardinality(Matches(table, query))
    BY <1>1, <1>2, MatchesCounted, Zenon
  <1>7. Ids(page') \subseteq Matches(table, query)
    BY <1>3, <1>6 DEF Ids
  <1>8. Cardinality(page') = 0 => total' <= query.offset
    BY <1>1, <1>3 DEF Query
  <1> QED BY <1>2, <1>3, <1>4, <1>5, <1>6, <1>7, <1>8

\* Nothing moves but, maybe, the client between asking and being refused.
Idles ==
    /\ UNCHANGED <<table, clock, query, asked, page, total, got, start, drift, changes, retries>>
    /\ phase' = phase \/ (phase \in {"ask", "failed"} /\ phase' \in {"ask", "failed"})

\* The steps, all together.
LEMMA NextCases ==
    ASSUME [Next]_vars
    PROVE  ReadPage \/ Refresh \/ Deliver \/ Retry \/ Others \/ Idles
  <1>1. FailPage \/ AskAgain \/ UNCHANGED vars => Idles
    BY DEF FailPage, AskAgain, Idles, vars, others
  <1> QED BY <1>1 DEF Next, Walk, Terminated

-----------------------------------------------------------------------------
(* Each part of the invariant.                                             *)

\* Every step keeps the types.
LEMMA TypeStep == IInv /\ [Next]_vars => TypeOK'
  <1> SUFFICES ASSUME TypeOK, TableInv, PageInv, [Next]_vars
               PROVE  TypeOK'
    BY DEF IInv
  <1> USE DEF TypeOK
  <1>1. CASE ReadPage
    <2>1. /\ page' \in SUBSET Memory /\ Cardinality(page') <= query.limit
          /\ total' \in Nat
      BY <1>1, ReadFacts DEF Query
    <2>2. /\ phase' \in {"refresh", "answer"} /\ asked' = clock
          /\ UNCHANGED <<table, clock, query, got, start, drift, changes, retries>>
      BY <1>1 DEF ReadPage, others
    <2> QED BY <2>1, <2>2
  <1>2. CASE Refresh
    <2>1. table' \in Seq(Memory) /\ DOMAIN table' = DOMAIN table /\ clock' \in Nat
      BY <1>2, RefreshKeep DEF RefreshEffect
    <2>2. /\ phase' = "answer"
          /\ UNCHANGED <<query, asked, page, total, got, start, drift, changes, retries>>
      BY <1>2 DEF Refresh, others
    <2> QED BY <2>1, <2>2
  <1>3. CASE Deliver
    <2>1. Cardinality(page) \in Nat /\ Ids(page) \subseteq DOMAIN table
      BY FS_CardinalityType DEF PageInv, Ids
    <2>2. query' = [query EXCEPT !.offset = query.offset + Cardinality(page)]
      BY <1>3 DEF Deliver
    <2>3. query.offset + Cardinality(page) \in Nat /\ query.limit \in Nat
      BY <2>1 DEF Query
    <2>4. query' \in Query /\ query'.limit = query.limit
      BY <2>2, <2>3, OffsetApart
    <2>5. Cardinality({}) = 0
      BY FS_EmptySet
    <2>6. /\ phase' \in {"ask", "done"} /\ asked' = 0 /\ total' = 0 /\ page' = {}
          /\ got' = got \cup Ids(page)
          /\ UNCHANGED <<table, clock, start, drift, changes, retries>>
      BY <1>3 DEF Deliver, others
    <2> QED BY <2>1, <2>3, <2>4, <2>5, <2>6
  <1>4. CASE Retry
    <2>1. Cardinality({}) = 0 /\ MaxEvents \in Nat
      BY FS_EmptySet, WalkAssumption
    <2>2. query.limit \in Nat
      BY DEF Query
    <2> QED BY <1>4, <2>1, <2>2 DEF Retry, others
  <1>5. CASE Others
    <2>1. table' \in Seq(Memory) /\ DOMAIN table \subseteq DOMAIN table' /\ clock' \in Nat
      BY <1>5, OthersKeep DEF OthersEffect
    <2>2. /\ drift' \subseteq {"create", "revise", "access"}
          /\ changes' \in Nat /\ changes' + retries <= MaxEvents
          /\ UNCHANGED <<query, phase, asked, page, total, got, start, retries>>
      BY <1>5, OthersKeep
    <2> QED BY <2>1, <2>2
  <1>6. CASE Idles
    BY <1>6 DEF Idles
  <1> QED BY <1>1, <1>2, <1>3, <1>4, <1>5, <1>6, NextCases

\* Every step keeps ids in their rows and timestamps behind the clock.
LEMMA TableStep == IInv /\ [Next]_vars => TableInv'
  <1> SUFFICES ASSUME TypeOK, TableInv, [Next]_vars
               PROVE  TableInv'
    BY DEF IInv
  <1>1. CASE UNCHANGED <<table, clock>>
    BY <1>1 DEF TableInv, Numbered
  <1>2. CASE Refresh
    <2>1. PICK s : RefreshEffect(s)
      BY <1>2, RefreshKeep
    <2>2. /\ Numbered(table') /\ DOMAIN table' = DOMAIN table
          /\ s <= clock' /\ s \in Nat /\ clock <= clock' /\ clock' \in Nat
      BY <2>1 DEF RefreshEffect
    <2>3. Start \in Nat /\ clock \in Nat /\ Start <= clock
      BY WalkAssumption DEF TypeOK, TableInv
    <2>4. ASSUME NEW i \in DOMAIN table'
          PROVE  table'[i].last_accessed_at <= clock'
      <3>1. /\ table[i] \in Memory /\ table[i].last_accessed_at <= clock
        BY <2>2 DEF TableInv, TypeOK
      <3>2. table'[i].last_accessed_at \in {s, table[i].last_accessed_at}
        BY <2>1, <2>2 DEF RefreshEffect
      <3>3. table[i].last_accessed_at \in Nat
        BY <3>1 DEF Memory
      <3> QED BY <2>2, <2>3, <3>1, <3>2, <3>3
    <2> QED BY <2>2, <2>3, <2>4 DEF TableInv
  <1>3. CASE Others
    <2>1. OthersEffect
      BY <1>3, OthersKeep
    <2>2. Start \in Nat /\ clock \in Nat /\ Start <= clock
      BY WalkAssumption DEF TypeOK, TableInv
    <2> QED BY <2>1, <2>2 DEF TableInv, OthersEffect
  <1>4. ReadPage \/ Deliver \/ Retry => UNCHANGED <<table, clock>>
    BY DEF ReadPage, Deliver, Retry
  <1> QED BY <1>1, <1>2, <1>3, <1>4, NextCases DEF Idles

\* Every step keeps what is known of the page in hand.
LEMMA PageStep == IInv /\ [Next]_vars => PageInv'
  <1> SUFFICES ASSUME TypeOK, TableInv, PageInv, [Next]_vars
               PROVE  PageInv'
    BY DEF IInv
  <1>1. /\ IsFiniteSet({}) /\ Ids({}) = {}
    BY FS_EmptySet DEF Ids
  <1>2. CASE ReadPage
    <2>1. /\ IsFiniteSet(page') /\ Cardinality(Ids(page')) = Cardinality(page')
          /\ Ids(page') \subseteq Matches(table, query)
      BY <1>2, ReadFacts
    <2>2. /\ phase' \in {"refresh", "answer"} /\ asked' = clock
          /\ UNCHANGED <<table, clock>>
      BY <1>2 DEF ReadPage
    <2>3. \A m \in page' : m.id \in DOMAIN table
      BY <2>1 DEF Ids, Matches
    <2>4. asked' \in Start .. clock'
      BY <2>2, WalkAssumption DEF TypeOK, TableInv
    <2> QED BY <2>1, <2>2, <2>3, <2>4 DEF PageInv
  <1>3. CASE Refresh
    <2>1. /\ DOMAIN table' = DOMAIN table /\ clock <= clock' /\ clock' \in Nat
      BY <1>3, RefreshKeep DEF RefreshEffect
    <2>2. phase = "refresh" /\ phase' = "answer" /\ UNCHANGED <<asked, page>>
      BY <1>3 DEF Refresh
    <2>3. asked \in Start .. clock'
      BY <2>1, <2>2, WalkAssumption DEF PageInv, TypeOK
    <2> QED BY <2>1, <2>2, <2>3 DEF PageInv
  <1>4. CASE Deliver
    BY <1>1, <1>4 DEF Deliver, PageInv
  <1>5. CASE Retry
    BY <1>1, <1>5 DEF Retry, PageInv
  <1>6. CASE Others
    <2>1. /\ DOMAIN table \subseteq DOMAIN table' /\ clock <= clock' /\ clock' \in Nat
          /\ UNCHANGED <<phase, asked, page>>
      BY <1>6, OthersKeep DEF OthersEffect
    <2>2. phase \in {"refresh", "answer"} => asked \in Start .. clock'
      BY <2>1, WalkAssumption DEF PageInv, TypeOK
    <2> QED BY <2>1, <2>2 DEF PageInv
  <1>7. CASE Idles
    BY <1>7 DEF PageInv, Idles
  <1> QED BY <1>2, <1>3, <1>4, <1>5, <1>6, <1>7, NextCases

\* What a query selects depends on nothing but the bodies; without filters, on what
\* is visible.
LEMMA SelectedByBody ==
    ASSUME NEW m, NEW n, NEW q
    PROVE  /\ m.body = n.body => (Selected(m, q) <=> Selected(n, q))
           /\ Plain(q) => (Selected(m, q) <=> Visible(m))
  <1>1. m.body = n.body => (Selected(m, q) <=> Selected(n, q))
    BY DEF Selected, Visible, TagsOf
  <1>2. Plain(q) => (Selected(m, q) <=> Visible(m))
    BY DEF Plain, Selected
  <1> QED BY <1>1, <1>2

\* The query's filters and order never change, others only do more, and a failure
\* is not undone.
LEMMA OrdersPersist ==
    ASSUME TypeOK, PageInv, [Next]_vars
    PROVE  /\ query'.sort = query.sort
           /\ Plain(query') <=> Plain(query)
           /\ drift' = {} => drift = {}
           /\ FixedOrder' => FixedOrder
           /\ MovingOrder' => MovingOrder
           /\ start' = start
  <1>1. query' = query \/ query' = [query EXCEPT !.offset = query.offset + Cardinality(page)]
    BY NextCases DEF ReadPage, Refresh, Deliver, Retry, Others, Create, Revise,
           Access, Meanwhile, Idles
  <1>2. query \in Query /\ query.offset + Cardinality(page) \in Nat
    BY FS_CardinalityType DEF TypeOK, PageInv, Query
  <1>3. query'.sort = query.sort /\ (Plain(query') <=> Plain(query))
    <2>1. CASE query' = query
      BY <2>1 DEF Plain
    <2>2. CASE query' = [query EXCEPT !.offset = query.offset + Cardinality(page)]
      BY <1>2, <2>2, OffsetApart
    <2> QED BY <1>1, <2>1, <2>2
  <1>4. drift \subseteq drift' /\ (retries' = 0 => retries = 0) /\ start' = start
    BY NextCases DEF ReadPage, Refresh, Deliver, Retry, Others, Create, Revise,
           Access, Meanwhile, Idles, others, TypeOK
  <1> QED BY <1>3, <1>4 DEF FixedOrder, MovingOrder

\* When the client asks for a page, its offset covers what it has.
LEMMA AskCovered ==
    ASSUME FixedInv, MovedInv, PageInv, TypeOK, FixedOrder \/ MovingOrder, phase = "ask"
    PROVE  Covered(got, query.offset, table, query)
  <1>1. CASE FixedOrder
    BY <1>1 DEF FixedInv
  <1>2. CASE MovingOrder
    <2>1. page = {} /\ Cardinality({}) = 0 /\ query.offset \in Nat
      BY FS_EmptySet DEF PageInv, TypeOK, Query
    <2>2. Received = got /\ Reached = query.offset
      BY <2>1 DEF Received, Reached, Ids
    <2> QED BY <1>2, <2>2 DEF MovedInv
  <1> QED BY <1>1, <1>2

\* Every step keeps the offset at the number of memories received, none twice.
LEMMA CountStep == IInv /\ [Next]_vars => CountInv'
  <1> SUFFICES ASSUME IInv, [Next]_vars, FixedOrder' \/ MovingOrder'
               PROVE  NothingTwice' /\ got' \cap Ids(page') = {}
    BY DEF CountInv
  <1> USE DEF IInv
  <1>1. NothingTwice /\ got \cap Ids(page) = {} /\ (FixedOrder \/ MovingOrder)
    BY OrdersPersist DEF CountInv
  <1>2. Ids({}) = {}
    BY DEF Ids
  <1>3. CASE ReadPage
    <2>1. phase = "ask" /\ page' = Page(table, query) /\ UNCHANGED <<got, query>>
      BY <1>3 DEF ReadPage
    <2>2. Covered(got, query.offset, table, query)
      BY <1>1, <2>1, AskCovered
    <2>3. got \cap Ids(page') = {}
      <3>1. CASE page' = {} BY <3>1, <1>2
      <3>2. CASE page' # {}
        BY <3>2, <2>1, <2>2, ReadCovers DEF TypeOK, TableInv
      <3> QED BY <3>1, <3>2
    <2> QED BY <1>1, <2>1, <2>3 DEF NothingTwice
  <1>4. CASE Deliver
    <2>1. IsFiniteSet(got) /\ IsFiniteSet(Ids(page))
      BY RowsFinite DEF TypeOK, PageInv, Ids
    <2>2. /\ Cardinality(got) = query.offset /\ Cardinality(got \cap Ids(page)) = 0
          /\ query.offset \in Nat
      BY <1>1, FS_EmptySet DEF NothingTwice, TypeOK, Query
    <2>3. Cardinality(got \cup Ids(page))
             = Cardinality(got) + Cardinality(Ids(page)) - Cardinality(got \cap Ids(page))
      BY <2>1, FS_Union, Zenon
    <2>4. Cardinality(Ids(page)) = Cardinality(page) /\ Cardinality(page) \in Nat
      BY FS_CardinalityType DEF PageInv
    <2>5. /\ got' = got \cup Ids(page) /\ page' = {}
          /\ query' = [query EXCEPT !.offset = query.offset + Cardinality(page)]
      BY <1>4 DEF Deliver
    <2>6. query'.offset = query.offset + Cardinality(page)
      BY <2>2, <2>4, <2>5, OffsetApart DEF TypeOK
    <2> QED BY <1>2, <2>2, <2>3, <2>4, <2>5, <2>6 DEF NothingTwice
  <1>5. CASE Refresh \/ Others \/ Idles
    <2>1. UNCHANGED <<got, page, query>>
      BY <1>5, OthersKeep DEF Refresh, Idles
    <2> QED BY <1>1, <2>1 DEF NothingTwice
  <1>6. CASE Retry
    BY <1>1, <1>2, <1>6 DEF Retry, NothingTwice
  <1> QED BY <1>3, <1>4, <1>5, <1>6, NextCases

\* In a fixed order, neither the client's refreshes nor anybody else can bring a row
\* before one that the client has.
LEMMA FixedKept ==
    ASSUME IInv, Refresh \/ Others, FixedOrder',
           NEW G \in SUBSET DOMAIN table, NEW n, Covered(G, n, table, query)
    PROVE  Covered(G, n, table', query')
  <1>1. PICK K \in SUBSET DOMAIN table : Cardinality(K) <= n /\ Covers(K, G, table, query)
    BY DEF Covered
  <1>2. /\ query' = query /\ query \in Query
        /\ table \in Seq(Memory) /\ Numbered(table) /\ FixedOrder
    BY OthersKeep DEF IInv, TypeOK, TableInv, Refresh, FixedOrder, others
  <1>3. CASE Refresh
    <2>1. PICK s : RefreshEffect(s)
      BY <1>3, RefreshKeep DEF IInv
    <2>2. DOMAIN table' = DOMAIN table /\ Numbered(table')
      BY <2>1 DEF RefreshEffect
    <2>3. Matches(table', query) = Matches(table, query)
      <3>1. \A i \in DOMAIN table : Selected(table'[i], query) <=> Selected(table[i], query)
        BY <2>1, SelectedByBody DEF RefreshEffect
      <3> QED BY <2>2, <3>1 DEF Matches
    <2>4. ASSUME NEW i \in DOMAIN table
          PROVE  table'[i][query.sort] = table[i][query.sort] /\ table'[i].id = table[i].id
      <3>1. query.sort \in {"id", "created_at", "updated_at"}
        BY <1>2 DEF FixedOrder, Query, SortKeys
      <3>2. /\ table'[i].created_at = table[i].created_at
            /\ table'[i].updated_at = table[i].updated_at
            /\ table'[i].id = table[i].id
        BY <1>2, <2>1, <2>2 DEF RefreshEffect, Numbered
      <3> QED BY <3>1, <3>2
    <2>5. \A i, j \in DOMAIN table : Ahead(i, j, table, query) => Ahead(i, j, table', query)
      BY <2>4, Zenon DEF Ahead, Precedes
    <2>6. /\ Matches(table', query) \cap DOMAIN table \subseteq Matches(table, query)
          /\ Matches(table', query) \ DOMAIN table = {}
      BY <2>2, <2>3 DEF Matches
    <2>7. \A i \in G, j \in DOMAIN table \ K :
             Ahead(i, j, table, query) => Ahead(i, j, table', query)
      BY <2>5, Zenon
    <2>8. Covers(K, G, table', query)
      BY <1>1, <2>2, <2>6, <2>7, CoversKept
    <2> QED BY <1>1, <1>2, <2>2, <2>8 DEF Covered
  <1>4. CASE Others
    <2>1. OthersEffect /\ drift' # {}
      BY <1>4, OthersKeep DEF IInv
    <2>2. Plain(query) /\ query.sort = "id"
      BY <1>2, <2>1 DEF FixedOrder
    <2>3. DOMAIN table \subseteq DOMAIN table' /\ Numbered(table') /\ table' \in Seq(Memory)
      BY <2>1 DEF OthersEffect
    <2>4. Matches(table', query) \cap DOMAIN table \subseteq Matches(table, query)
      <3>1. \A i \in DOMAIN table : Visible(table'[i]) => Visible(table[i])
        BY <2>1 DEF OthersEffect
      <3>2. \A m : Selected(m, query) <=> Visible(m)
        BY <2>2, SelectedByBody
      <3> QED BY <3>1, <3>2 DEF Matches
    <2>5. \A i, j \in DOMAIN table : Ahead(i, j, table, query) <=> i < j
      BY <1>2, <2>2, Zenon DEF Ahead, Precedes, Numbered
    <2>6. \A i, j \in DOMAIN table' : Ahead(i, j, table', query) <=> i < j
      BY <2>2, <2>3, Zenon DEF Ahead, Precedes, Numbered
    <2>7. \A i \in DOMAIN table, j \in DOMAIN table' \ DOMAIN table : i < j
      BY <1>2, <2>3
    <2>8. \A i \in G, j \in DOMAIN table \ K :
             Ahead(i, j, table, query) => Ahead(i, j, table', query)
      BY <2>3, <2>5, <2>6, Zenon
    <2>9. \A i \in G, j \in Matches(table', query) \ DOMAIN table : Ahead(i, j, table', query)
      <3>1. Matches(table', query) \subseteq DOMAIN table'
        BY DEF Matches
      <3> QED BY <2>3, <2>6, <2>7, <3>1, Zenon
    <2>10. Covers(K, G, table', query)
      BY <1>1, <2>3, <2>4, <2>8, <2>9, CoversKept
    <2> QED BY <1>1, <1>2, <2>3, <2>10 DEF Covered
  <1> QED BY <1>3, <1>4

\* After a delivery, what was received and reached is what the client has.
LEMMA Delivered ==
    ASSUME TypeOK, PageInv, Deliver
    PROVE  /\ got' = Received /\ query'.offset = Reached /\ table' = table
           /\ Received' = Received /\ Reached' = Reached
           /\ \A G, n : Covered(G, n, table', query') <=> Covered(G, n, table, query)
           /\ Matches(table', query') = Matches(table, query)
           /\ Reached \in Nat
  <1>1. Reached \in Nat /\ query \in Query /\ Cardinality(page) \in Nat /\ query.offset \in Nat
    BY FS_CardinalityType DEF TypeOK, PageInv, Query, Reached
  <1>2. /\ got' = Received /\ page' = {} /\ table' = table
        /\ query' = [query EXCEPT !.offset = Reached]
    BY DEF Deliver, Received, Reached
  <1>3. query'.offset = Reached
    BY <1>1, <1>2, OffsetApart
  <1>4. Ids({}) = {} /\ Cardinality({}) = 0
    BY FS_EmptySet DEF Ids
  <1>5. Received' = Received
    BY <1>2, <1>4 DEF Received
  <1>6. Reached' = query'.offset + Cardinality(page')
    BY DEF Reached
  <1>7. Reached' = Reached
    BY <1>1, <1>2, <1>3, <1>4, <1>6
  <1>8. /\ \A G, n : Covered(G, n, table, query') <=> Covered(G, n, table, query)
        /\ Matches(table, query') = Matches(table, query)
    BY <1>1, <1>2, OffsetApart
  <1> QED BY <1>1, <1>2, <1>3, <1>5, <1>7, <1>8

\* Every step keeps the rows before the offset covered, in an order that is fixed.
LEMMA FixedStep == IInv /\ [Next]_vars => FixedInv'
  <1> SUFFICES ASSUME IInv, [Next]_vars, FixedOrder'
               PROVE  /\ Covered(got', query'.offset, table', query')
                      /\ Covered(Received', Reached', table', query')
    BY DEF FixedInv
  <1>1. /\ FixedOrder
        /\ Covered(got, query.offset, table, query)
        /\ Covered(Received, Reached, table, query)
    BY OrdersPersist DEF IInv, FixedInv
  <1>2. Ids({}) = {} /\ Cardinality({}) = 0 /\ query.offset \in Nat
    BY FS_EmptySet DEF Ids, IInv, TypeOK, Query
  <1>3. CASE ReadPage
    <2>1. page' = Page(table, query) /\ UNCHANGED <<table, query, got>>
      BY <1>3 DEF ReadPage
    <2>2. CASE page' = {}
      BY <1>1, <1>2, <2>1, <2>2 DEF Received, Reached
    <2>3. CASE page' # {}
      <3> DEFINE K == Ids(Prefix(query.offset + Cardinality(page'), table, query))
      <3>1. /\ K \in SUBSET DOMAIN table
            /\ Cardinality(K) = query.offset + Cardinality(page')
            /\ Covers(K, got \cup Ids(page'), table, query)
        BY <1>1, <2>1, <2>3, ReadCovers DEF IInv, TypeOK, TableInv
      <3>2. Cardinality(page') \in Nat
        BY <1>3, ReadFacts DEF IInv, TypeOK, Query
      <3>3. Received' = got \cup Ids(page') /\ Reached' = query.offset + Cardinality(page')
        BY <2>1 DEF Received, Reached
      <3>4. Cardinality(K) <= Reached'
        BY <1>2, <3>1, <3>2, <3>3
      <3> HIDE DEF K
      <3>5. Covered(Received', Reached', table, query)
        BY <3>1, <3>3, <3>4, Zenon DEF Covered
      <3> QED BY <1>1, <2>1, <3>5
    <2> QED BY <2>2, <2>3
  <1>4. CASE Deliver
    <2>1. /\ got' = Received /\ query'.offset = Reached
          /\ Received' = Received /\ Reached' = Reached
          /\ \A G, n : Covered(G, n, table', query') <=> Covered(G, n, table, query)
      BY <1>4, Delivered DEF IInv
    <2> QED BY <1>1, <2>1
  <1>5. CASE Refresh \/ Others
    <2>1. UNCHANGED <<got, page, query>>
      BY <1>5, OthersKeep DEF Refresh, IInv
    <2>2. got \in SUBSET DOMAIN table /\ Received \in SUBSET DOMAIN table
      BY DEF IInv, TypeOK, PageInv, Received, Ids
    <2>3. Received' = Received /\ Reached' = Reached
      BY <2>1 DEF Received, Reached
    <2>4. Covered(got, query.offset, table', query') /\ Covered(Received, Reached, table', query')
      BY <1>1, <1>5, <2>2, FixedKept
    <2> QED BY <2>1, <2>3, <2>4
  <1>6. CASE Retry
    <2>1. page' = {} /\ UNCHANGED <<table, query, got>>
      BY <1>6 DEF Retry
    <2>2. Received' = got /\ Reached' = query.offset
      BY <1>2, <2>1 DEF Received, Reached
    <2> QED BY <1>1, <2>1, <2>2
  <1>7. CASE Idles
    BY <1>1, <1>7 DEF Idles, Received, Reached
  <1> QED BY <1>3, <1>4, <1>5, <1>6, <1>7, NextCases

\* In access order, what the client has was accessed by its own refreshes, so that
\* what others create or retire cannot come before it.
LEMMA OthersMoveNothing ==
    ASSUME IInv, Others, MovingOrder',
           NEW G \in SUBSET DOMAIN table, NEW K \in SUBSET DOMAIN table,
           Covers(K, G, table, query),
           \A g \in G : table[g].last_accessed_at >= Start
    PROVE  /\ Covers(K, G, table', query)
           /\ \A g \in G : table'[g].last_accessed_at >= Start
           /\ Matches(table', query) \cap DOMAIN table \subseteq Matches(table, query)
           /\ \A i \in DOMAIN table :
                 table'[i].last_accessed_at = table[i].last_accessed_at
           /\ \A i \in Matches(table', query) \ DOMAIN table :
                 table'[i].last_accessed_at < Start
  <1>1. /\ OthersEffect /\ drift' # {} /\ query' = query
        /\ query \in Query /\ table \in Seq(Memory) /\ Numbered(table)
    BY OthersKeep DEF IInv, TypeOK, TableInv
  <1>2. Plain(query) /\ query.sort = "last_accessed_at" /\ "access" \notin drift'
    BY <1>1 DEF MovingOrder
  <1>3. /\ DOMAIN table \subseteq DOMAIN table' /\ Numbered(table') /\ table' \in Seq(Memory)
        /\ \A i \in DOMAIN table : table'[i].last_accessed_at = table[i].last_accessed_at
        /\ \A i \in DOMAIN table' \ DOMAIN table : table'[i].last_accessed_at = 0
        /\ \A i \in DOMAIN table : Visible(table'[i]) => Visible(table[i])
    BY <1>1, <1>2 DEF OthersEffect
  <1>4. Matches(table', query) \cap DOMAIN table \subseteq Matches(table, query)
    <2>1. \A m : Selected(m, query) <=> Visible(m)
      BY <1>2, SelectedByBody
    <2> QED BY <1>3, <2>1 DEF Matches
  <1>5. \A i, j \in DOMAIN table : Ahead(i, j, table, query) => Ahead(i, j, table', query)
    <2>1. \A i \in DOMAIN table : /\ table'[i].id = i /\ table[i].id = i
                                  /\ table'[i][query.sort] = table[i][query.sort]
      BY <1>1, <1>2, <1>3 DEF Numbered
    <2> QED BY <2>1, Zenon DEF Ahead, Precedes
  <1>6. Matches(table', query) \subseteq DOMAIN table'
    BY DEF Matches
  <1>7. \A i \in Matches(table', query) \ DOMAIN table : table'[i].last_accessed_at = 0
    BY <1>3, <1>6, Zenon
  <1>8. Start > 0 /\ Start \in Nat
    BY WalkAssumption
  <1>9. \A g \in G : table'[g].last_accessed_at >= Start
    BY <1>3
  <1>10. \A i \in G, j \in Matches(table', query) \ DOMAIN table : Ahead(i, j, table', query)
    <2> SUFFICES ASSUME NEW i \in G, NEW j \in Matches(table', query) \ DOMAIN table
                 PROVE  table'[i].last_accessed_at > table'[j].last_accessed_at
      BY <1>2 DEF Ahead, Precedes
    <2>1. table'[i] \in Memory
      BY <1>3
    <2>2. table'[i].last_accessed_at \in Nat
      BY <2>1 DEF Memory
    <2>3. table'[i].last_accessed_at >= Start /\ table'[j].last_accessed_at = 0
      BY <1>7, <1>9
    <2> QED BY <1>8, <2>2, <2>3
  <1>11. \A i \in G, j \in DOMAIN table \ K :
            Ahead(i, j, table, query) => Ahead(i, j, table', query)
    BY <1>5, Zenon
  <1>12. Covers(K, G, table', query)
    BY <1>3, <1>4, <1>10, <1>11, CoversKept
  <1>13. \A i \in Matches(table', query) \ DOMAIN table : table'[i].last_accessed_at < Start
    BY <1>7, <1>8
  <1> QED BY <1>3, <1>4, <1>9, <1>12, <1>13

\* Reading a page in access order: what lies beyond the page was accessed before it
\* was read, or listed after it.
LEMMA MovedRead ==
    ASSUME IInv, MovingOrder, ReadPage, page' # {}
    PROVE  \E K \in SUBSET DOMAIN table :
              /\ Cardinality(K) <= Reached'
              /\ Ids(page') \subseteq K
              /\ Covers(K, got, table, query)
              /\ \A m \in page', j \in Matches(table, query) \ K :
                    \/ table[j].last_accessed_at < clock
                    \/ table[j].last_accessed_at = clock /\ j < m.id
  <1> DEFINE K == Ids(Prefix(query.offset + Cardinality(page'), table, query))
  <1>1. page' = Page(table, query) /\ phase = "ask" /\ UNCHANGED <<table, query, got>>
    BY DEF ReadPage
  <1>2. Covered(got, query.offset, table, query)
    BY <1>1, AskCovered DEF IInv
  <1>3. /\ K \in SUBSET DOMAIN table
        /\ Cardinality(K) = query.offset + Cardinality(page')
        /\ Ids(page') \subseteq K
        /\ Covers(K, got \cup Ids(page'), table, query)
    BY <1>1, <1>2, ReadCovers DEF IInv, TypeOK, TableInv
  <1>4. /\ Cardinality(page') \in Nat /\ query.offset \in Nat
        /\ Ids(page') \subseteq Matches(table, query)
        /\ query.sort = "last_accessed_at"
    BY ReadFacts DEF IInv, TypeOK, Query, MovingOrder
  <1>5. Reached' = query.offset + Cardinality(page')
    BY <1>1 DEF Reached
  <1>6. Cardinality(K) <= Reached'
    BY <1>3, <1>4, <1>5
  <1> HIDE DEF K
  <1>7. Covers(K, got, table, query)
    BY <1>3 DEF Covers
  <1>8. ASSUME NEW m \in page', NEW j \in Matches(table, query) \ K
        PROVE  \/ table[j].last_accessed_at < clock
               \/ table[j].last_accessed_at = clock /\ j < m.id
    <2>1. m.id \in Ids(page') /\ m.id \in Matches(table, query)
      BY <1>4 DEF Ids
    <2>2. Ahead(m.id, j, table, query)
      BY <1>3, <2>1 DEF Covers
    <2>3. m.id \in DOMAIN table /\ j \in DOMAIN table
      BY <2>1 DEF Matches
    <2> DEFINE a == table[m.id].last_accessed_at  b == table[j].last_accessed_at
    <2>4. a > b \/ (a = b /\ m.id > j)
      BY <1>4, <2>2, <2>3 DEF Ahead, Precedes, Numbered, IInv, TableInv
    <2>5. /\ table[m.id] \in Memory /\ table[j] \in Memory /\ clock \in Nat
          /\ a <= clock /\ b <= clock
      BY <2>3 DEF IInv, TypeOK, TableInv
    <2>6. a \in Nat /\ b \in Nat /\ m.id \in Nat /\ j \in Nat
      <3>1. \A n \in Memory : n.last_accessed_at \in Nat
        BY DEF Memory
      <3>2. DOMAIN table \subseteq Nat
        BY DEF IInv, TypeOK
      <3> QED BY <2>3, <2>5, <3>1, <3>2
    <2> HIDE DEF a, b
    <2>7. b < clock \/ (b = clock /\ j < m.id)
      BY <2>4, <2>5, <2>6
    <2> QED BY <2>7 DEF b
  <1> QED BY <1>3, <1>6, <1>7, <1>8

\* The refresh puts the page above everything that is not listed before its end.
LEMMA MovedRefresh ==
    ASSUME IInv, MovingOrder, Refresh
    PROVE  /\ \A g \in Received : table'[g].last_accessed_at >= Start
           /\ Covered(Received, Reached, table', query)
  <1>1. phase = "refresh" /\ query.sort = "last_accessed_at" /\ got \cap Ids(page) = {}
    BY DEF Refresh, MovingOrder, IInv, CountInv
  <1>2. PICK K \in SUBSET DOMAIN table :
           /\ Cardinality(K) <= Reached
           /\ Ids(page) \subseteq K
           /\ Covers(K, got, table, query)
           /\ \A m \in page, j \in Matches(table, query) \ K :
                 \/ table[j].last_accessed_at < asked
                 \/ table[j].last_accessed_at = asked /\ j < m.id
    BY <1>1 DEF IInv, MovedInv
  <1>3. PICK s : RefreshEffect(s)
    BY RefreshKeep DEF IInv
  <1>4. /\ DOMAIN table' = DOMAIN table /\ Numbered(table') /\ s \in Nat /\ asked <= s
        /\ \A i \in DOMAIN table :
              /\ table'[i].body = table[i].body
              /\ i \in Ids(page) => table'[i].last_accessed_at = s
              /\ i \notin Ids(page) =>
                    table'[i].last_accessed_at = table[i].last_accessed_at
    BY <1>3 DEF RefreshEffect
  <1>5. asked \in Nat /\ Start <= asked /\ Start \in Nat
    BY <1>1, WalkAssumption DEF IInv, PageInv, TypeOK
  <1>6. got \in SUBSET DOMAIN table /\ Ids(page) \in SUBSET DOMAIN table
    BY DEF IInv, TypeOK, PageInv, Ids
  <1>7. ASSUME NEW g \in Received
        PROVE  table'[g].last_accessed_at >= Start
    <2>1. CASE g \in Ids(page)
      BY <2>1, <1>4, <1>5, <1>6
    <2>2. CASE g \in got
      BY <2>2, <1>1, <1>4, <1>6 DEF IInv, MovedInv, MovingOrder
    <2> QED BY <2>1, <2>2 DEF Received
  <1>8. Matches(table', query) = Matches(table, query)
    <2>1. \A i \in DOMAIN table : Selected(table'[i], query) <=> Selected(table[i], query)
      BY <1>4, SelectedByBody
    <2> QED BY <1>4, <2>1 DEF Matches
  <1>9. ASSUME NEW g \in Received \cap Matches(table', query)
        PROVE  g \in K /\ \A j \in Matches(table', query) \ K : Ahead(g, j, table', query)
    <2>1. CASE g \in Ids(page)
      <3> SUFFICES ASSUME NEW j \in Matches(table', query) \ K
                   PROVE  Ahead(g, j, table', query)
        BY <1>2, <2>1
      <3>1. PICK m \in page : g = m.id
        BY <2>1 DEF Ids
      <3>2. j \in Matches(table, query) \ K /\ j \in DOMAIN table /\ j \notin Ids(page)
        BY <1>2, <1>8 DEF Matches
      <3>3. \/ table[j].last_accessed_at < asked
            \/ table[j].last_accessed_at = asked /\ j < g
        BY <1>2, <3>1, <3>2
      <3>4. /\ table'[g].last_accessed_at = s
            /\ table'[j].last_accessed_at = table[j].last_accessed_at
            /\ table'[g].id = g /\ table'[j].id = j
        BY <1>4, <1>6, <2>1, <3>2 DEF Numbered
      <3>5. table[j].last_accessed_at \in Nat
        <4>1. table[j] \in Memory
          BY <3>2 DEF IInv, TypeOK
        <4> QED BY <4>1 DEF Memory
      <3>6. g \in Nat /\ j \in Nat
        BY <1>6, <2>1, <3>2 DEF IInv, TypeOK
      <3>7. s > table[j].last_accessed_at \/ (s = table[j].last_accessed_at /\ g > j)
        BY <1>4, <1>5, <3>3, <3>5, <3>6
      <3> QED BY <1>1, <3>4, <3>7 DEF Ahead, Precedes
    <2>2. CASE g \in got
      <3>1. g \in got \cap Matches(table, query)
        BY <1>8, <2>2
      <3>2. g \in K /\ \A j \in Matches(table, query) \ K : Ahead(g, j, table, query)
        BY <1>2, <3>1, Zenon DEF Covers
      <3>3. ASSUME NEW j \in Matches(table', query) \ K
            PROVE  Ahead(g, j, table', query)
        <4>1. /\ j \in Matches(table, query) \ K /\ j \in DOMAIN table /\ j \notin Ids(page)
              /\ g \in DOMAIN table /\ g \notin Ids(page)
          BY <1>1, <1>2, <1>6, <1>8, <2>2 DEF Matches
        <4>2. /\ table'[g].last_accessed_at = table[g].last_accessed_at
              /\ table'[j].last_accessed_at = table[j].last_accessed_at
              /\ table'[g].id = table[g].id /\ table'[j].id = table[j].id
          BY <1>4, <4>1 DEF Numbered, IInv, TableInv
        <4>3. Ahead(g, j, table, query)
          BY <3>2, <4>1
        <4> QED BY <1>1, <4>2, <4>3 DEF Ahead, Precedes
      <3> QED BY <3>2, <3>3
    <2> QED BY <2>1, <2>2 DEF Received
  <1>10. Covers(K, Received, table', query)
    BY <1>9 DEF Covers
  <1> QED BY <1>2, <1>4, <1>7, <1>10 DEF Covered

\* Every step keeps them covered in the order the client's refreshes change.
LEMMA MovedStep == IInv /\ [Next]_vars => MovedInv'
  <1> SUFFICES ASSUME IInv, [Next]_vars, MovingOrder'
               PROVE  /\ \A g \in got' : table'[g].last_accessed_at >= Start
                      /\ phase' = "answer" =>
                            \A m \in page' : table'[m.id].last_accessed_at >= Start
                      /\ phase' # "refresh" => Covered(Received', Reached', table', query')
                      /\ phase' = "refresh" =>
                            \E K \in SUBSET DOMAIN table' :
                               /\ Cardinality(K) <= Reached'
                               /\ Ids(page') \subseteq K
                               /\ Covers(K, got', table', query')
                               /\ \A m \in page', j \in Matches(table', query') \ K :
                                     \/ table'[j].last_accessed_at < asked'
                                     \/ table'[j].last_accessed_at = asked' /\ j < m.id
    BY Zenon DEF MovedInv
  <1>1. MovingOrder /\ MovedInv
    BY OrdersPersist DEF IInv
  <1>2. Ids({}) = {} /\ Cardinality({}) = 0 /\ query.offset \in Nat
    BY FS_EmptySet DEF Ids, IInv, TypeOK, Query
  <1>3. got \in SUBSET DOMAIN table /\ Received \in SUBSET DOMAIN table
    BY DEF IInv, TypeOK, PageInv, Ids, Received
  <1>4. CASE ReadPage
    <2>1. /\ phase = "ask" /\ asked' = clock /\ UNCHANGED <<table, query, got>>
          /\ phase' = IF page' = {} THEN "answer" ELSE "refresh"
      BY <1>4 DEF ReadPage
    <2>2. \A g \in got' : table'[g].last_accessed_at >= Start
      BY <1>1, <2>1 DEF MovedInv
    <2>3. CASE page' = {}
      <3>1. Covered(got, query.offset, table, query)
        BY <1>1, <2>1, AskCovered DEF IInv
      <3>2. Received' = got /\ Reached' = query.offset
        BY <1>2, <2>1, <2>3 DEF Received, Reached
      <3> QED BY <2>1, <2>2, <2>3, <3>1, <3>2
    <2>4. CASE page' # {}
      <3>1. phase' = "refresh"
        BY <2>1, <2>4
      <3> QED BY <1>1, <1>4, <2>1, <2>2, <2>4, <3>1, MovedRead
    <2> QED BY <2>3, <2>4
  <1>5. CASE Refresh
    <2>1. phase' = "answer" /\ UNCHANGED <<page, got, query>>
      BY <1>5 DEF Refresh
    <2>2. /\ \A g \in Received : table'[g].last_accessed_at >= Start
          /\ Covered(Received, Reached, table', query)
      BY <1>1, <1>5, MovedRefresh
    <2>3. Received' = Received /\ Reached' = Reached
      BY <2>1 DEF Received, Reached
    <2>4. got \subseteq Received /\ \A m \in page : m.id \in Received
      BY DEF Received, Ids
    <2> QED BY <2>1, <2>2, <2>3, <2>4
  <1>6. CASE Deliver
    <2>1. /\ got' = Received /\ table' = table
          /\ Received' = Received /\ Reached' = Reached
          /\ \A G, n : Covered(G, n, table', query') <=> Covered(G, n, table, query)
      BY <1>6, Delivered DEF IInv
    <2>2. phase = "answer" /\ phase' \in {"ask", "done"}
      BY <1>6 DEF Deliver
    <2>3. Covered(Received, Reached, table, query)
      BY <1>1, <2>2 DEF MovedInv
    <2>4. \A g \in Received : table[g].last_accessed_at >= Start
      BY <1>1, <2>2 DEF MovedInv, Received, Ids
    <2> QED BY <2>1, <2>2, <2>3, <2>4
  <1>7. CASE Retry
    <2>1. retries' = retries + 1 /\ retries = 0 /\ retries' = 0
      BY <1>1, <1>7 DEF Retry, MovingOrder
    <2> QED BY <2>1
  <1>8. CASE Others
    <2>1. UNCHANGED <<phase, asked, page, got, query>>
      BY <1>8, OthersKeep DEF IInv
    <2>2. Received' = Received /\ Reached' = Reached
      BY <2>1 DEF Received, Reached
    <2>3. DOMAIN table \subseteq DOMAIN table'
      BY <1>8, OthersKeep DEF IInv, OthersEffect
    <2>4. ASSUME NEW G \in SUBSET DOMAIN table, NEW n, Covered(G, n, table, query),
                 \A g \in G : table[g].last_accessed_at >= Start
          PROVE  /\ Covered(G, n, table', query)
                 /\ \A g \in G : table'[g].last_accessed_at >= Start
      <3>1. PICK K \in SUBSET DOMAIN table : Cardinality(K) <= n /\ Covers(K, G, table, query)
        BY <2>4 DEF Covered
      <3>2. /\ Covers(K, G, table', query)
            /\ \A g \in G : table'[g].last_accessed_at >= Start
        BY <1>8, <2>4, <3>1, OthersMoveNothing
      <3> QED BY <2>3, <3>1, <3>2 DEF Covered
    <2>5. CASE phase # "refresh"
      <3>1. \A g \in Received : table[g].last_accessed_at >= Start
        <4>1. phase # "answer" => Received = got
          BY <1>2, <2>5 DEF IInv, TypeOK, PageInv, Received
        <4> QED BY <1>1, <4>1 DEF MovedInv, Received, Ids
      <3>2. Covered(Received, Reached, table, query)
        BY <1>1, <2>5 DEF MovedInv
      <3>3. /\ Covered(Received, Reached, table', query)
            /\ \A g \in Received : table'[g].last_accessed_at >= Start
        BY <1>3, <2>4, <3>1, <3>2
      <3>4. got \subseteq Received /\ \A m \in page : m.id \in Received
        BY DEF Received, Ids
      <3> QED BY <2>1, <2>2, <2>5, <3>3, <3>4
    <2>6. CASE phase = "refresh"
      <3>1. PICK K \in SUBSET DOMAIN table :
               /\ Cardinality(K) <= Reached
               /\ Ids(page) \subseteq K
               /\ Covers(K, got, table, query)
               /\ \A m \in page, j \in Matches(table, query) \ K :
                     \/ table[j].last_accessed_at < asked
                     \/ table[j].last_accessed_at = asked /\ j < m.id
        BY <1>1, <2>6 DEF MovedInv
      <3>2. \A g \in got : table[g].last_accessed_at >= Start
        BY <1>1 DEF MovedInv
      <3>3. /\ Covers(K, got, table', query)
            /\ \A g \in got : table'[g].last_accessed_at >= Start
            /\ Matches(table', query) \cap DOMAIN table \subseteq Matches(table, query)
            /\ \A i \in DOMAIN table :
                  table'[i].last_accessed_at = table[i].last_accessed_at
            /\ \A i \in Matches(table', query) \ DOMAIN table :
                  table'[i].last_accessed_at < Start
        BY <1>3, <1>8, <3>1, <3>2, OthersMoveNothing
      <3>4. Start <= asked /\ Start \in Nat /\ asked \in Nat
        BY <2>6, WalkAssumption DEF IInv, PageInv, TypeOK
      <3>5. ASSUME NEW m \in page, NEW j \in Matches(table', query) \ K
            PROVE  \/ table'[j].last_accessed_at < asked
                   \/ table'[j].last_accessed_at = asked /\ j < m.id
        <4>1. CASE j \in DOMAIN table
          BY <4>1, <3>1, <3>3
        <4>2. CASE j \notin DOMAIN table
          <5>1. table'[j].last_accessed_at < Start
            BY <4>2, <3>3, <3>5
          <5>2. table'[j] \in Memory
            BY <1>8, OthersKeep DEF IInv, OthersEffect, Matches
          <5>3. table'[j].last_accessed_at \in Nat
            BY <5>2 DEF Memory
          <5> QED BY <3>4, <5>1, <5>3
        <4> QED BY <4>1, <4>2
      <3>6. K \in SUBSET DOMAIN table'
        BY <2>3
      <3> QED BY <2>1, <2>2, <2>6, <3>1, <3>3, <3>5, <3>6
    <2> QED BY <2>5, <2>6
  <1>9. CASE Idles
    <2>1. /\ UNCHANGED <<table, asked, page, got, query>>
          /\ phase' = "answer" <=> phase = "answer"
          /\ phase' = "refresh" <=> phase = "refresh"
      BY <1>9 DEF Idles
    <2>2. Received' = Received /\ Reached' = Reached
      BY <2>1 DEF Received, Reached
    <2> QED BY <1>1, <2>1, <2>2, Zenon DEF MovedInv
  <1> QED BY <1>4, <1>5, <1>6, <1>7, <1>8, <1>9, NextCases

\* Retiring memories, or creating some beyond n, leaves no more of the first n live.
LEMMA LiveShrinks ==
    ASSUME NEW n \in 0 .. Len(table), TypeOK, DOMAIN table \subseteq DOMAIN table',
           \A i \in DOMAIN table : Visible(table'[i]) => Visible(table[i])
    PROVE  /\ IsFiniteSet(LiveUpTo(n)) /\ Cardinality(LiveUpTo(n)) \in Nat
           /\ Cardinality({i \in 1 .. n : Visible(table'[i])}) \in Nat
           /\ Cardinality({i \in 1 .. n : Visible(table'[i])}) <= Cardinality(LiveUpTo(n))
  <1>1. 1 .. n \subseteq DOMAIN table /\ n \in Nat
    BY DEF TypeOK
  <1>2. {i \in 1 .. n : Visible(table'[i])} \subseteq LiveUpTo(n)
    BY <1>1 DEF LiveUpTo
  <1>3. LiveUpTo(n) \in SUBSET DOMAIN table
    BY <1>1 DEF LiveUpTo
  <1>4. IsFiniteSet(LiveUpTo(n)) /\ Cardinality(LiveUpTo(n)) \in Nat
    BY <1>3, RowsFinite DEF TypeOK
  <1>5. /\ IsFiniteSet({i \in 1 .. n : Visible(table'[i])})
        /\ Cardinality({i \in 1 .. n : Visible(table'[i])}) <= Cardinality(LiveUpTo(n))
    BY <1>2, <1>4, FS_Subset, Zenon
  <1> QED BY <1>4, <1>5, FS_CardinalityType, Zenon

\* Every step keeps the total a bound on the live memories that were there.
LEMMA MissStep == IInv /\ [Next]_vars => MissInv'
  <1> SUFFICES ASSUME IInv, [Next]_vars, Plain(query'), query'.sort = "id"
               PROVE  /\ phase' \in {"refresh", "answer"} =>
                            \E n \in 0 .. Len(table') :
                               /\ Received' \cup start' \subseteq 1 .. n
                               /\ Cardinality({i \in 1 .. n : Visible(table'[i])}) <= total'
                      /\ phase' = "done" =>
                            \E n \in 0 .. Len(table') :
                               /\ got' \cup start' \subseteq 1 .. n
                               /\ Cardinality({i \in 1 .. n : Visible(table'[i])})
                                     <= query'.offset
    BY DEF MissInv, LiveUpTo
  <1>1. Plain(query) /\ query.sort = "id" /\ start' = start /\ MissInv
    BY OrdersPersist DEF IInv
  <1>2. /\ DOMAIN table = 1 .. Len(table) /\ Len(table) \in Nat /\ table \in Seq(Memory)
        /\ got \subseteq DOMAIN table /\ start \subseteq DOMAIN table
        /\ Ids(page) \subseteq DOMAIN table
    BY DEF IInv, TypeOK, PageInv, Ids
  <1>3. CASE ReadPage
    <2>1. /\ UNCHANGED <<table, query, got>> /\ phase' \in {"refresh", "answer"}
      BY <1>3 DEF ReadPage
    <2>2. /\ Ids(page') \subseteq Matches(table, query)
          /\ total' = Cardinality(Matches(table, query))
      BY <1>3, ReadFacts DEF IInv
    <2>3. Matches(table, query) = {i \in 1 .. Len(table) : Visible(table[i])}
      BY <1>1, <1>2, SelectedByBody DEF Matches
    <2>4. Received' \cup start' \subseteq 1 .. Len(table)
      BY <1>1, <1>2, <2>1, <2>2, <2>3 DEF Received
    <2>5. total' \in Nat /\ Len(table) \in 0 .. Len(table')
      BY <1>2, <1>3, <2>1, ReadFacts DEF IInv
    <2>6. Cardinality({i \in 1 .. Len(table) : Visible(table'[i])}) <= total'
      BY <2>1, <2>2, <2>3, <2>5
    <2> QED BY <2>1, <2>4, <2>5, <2>6
  <1>4. CASE Refresh \/ Others
    <2>1. /\ DOMAIN table \subseteq DOMAIN table' /\ Len(table) <= Len(table')
          /\ Len(table') \in Nat
          /\ \A i \in DOMAIN table : Visible(table'[i]) => Visible(table[i])
      <3>1. CASE Refresh
        <4>1. PICK s : RefreshEffect(s)
          BY <3>1, RefreshKeep DEF IInv
        <4> QED BY <1>2, <4>1 DEF RefreshEffect, Visible
      <3>2. CASE Others
        BY <3>2, OthersKeep DEF IInv, OthersEffect
      <3> QED BY <1>4, <3>1, <3>2
    <2>2. /\ phase \in {"refresh", "answer"} <=> phase' \in {"refresh", "answer"}
          /\ phase' # "done" /\ UNCHANGED <<page, got, query, total>>
      BY <1>4, OthersKeep DEF Refresh, IInv
    <2>3. Received' = Received
      BY <2>2 DEF Received
    <2>4. ASSUME phase' \in {"refresh", "answer"}
          PROVE  \E n \in 0 .. Len(table') :
                    /\ Received' \cup start' \subseteq 1 .. n
                    /\ Cardinality({i \in 1 .. n : Visible(table'[i])}) <= total'
      <3>1. PICK n \in 0 .. Len(table) : /\ Received \cup start \subseteq 1 .. n
                                         /\ Cardinality(LiveUpTo(n)) <= total
        BY <1>1, <2>2, <2>4 DEF MissInv
      <3>2. /\ Cardinality(LiveUpTo(n)) \in Nat
            /\ Cardinality({i \in 1 .. n : Visible(table'[i])}) \in Nat
            /\ Cardinality({i \in 1 .. n : Visible(table'[i])}) <= Cardinality(LiveUpTo(n))
        BY <2>1, LiveShrinks DEF IInv
      <3>3. Cardinality({i \in 1 .. n : Visible(table'[i])}) <= total'
        BY <2>2, <3>1, <3>2 DEF IInv, TypeOK
      <3>4. n \in 0 .. Len(table')
        BY <1>2, <2>1
      <3> QED BY <1>1, <2>3, <3>1, <3>3, <3>4
    <2> QED BY <2>2, <2>4
  <1>5. CASE Deliver
    <2>1. /\ got' = Received /\ query'.offset = Reached /\ table' = table /\ Reached \in Nat
      BY <1>5, Delivered DEF IInv
    <2>2. /\ phase = "answer" /\ phase' \in {"ask", "done"}
          /\ phase' = "done" => ~(Reached < total)
      BY <1>5 DEF Deliver, HasMore, Reached
    <2>3. PICK n \in 0 .. Len(table) : /\ Received \cup start \subseteq 1 .. n
                                       /\ Cardinality(LiveUpTo(n)) <= total
      BY <1>1, <2>2 DEF MissInv
    <2>4. Cardinality(LiveUpTo(n)) \in Nat /\ total \in Nat
      BY <2>1, LiveShrinks DEF IInv, TypeOK
    <2>5. phase' = "done" => Cardinality(LiveUpTo(n)) <= Reached
      BY <2>1, <2>2, <2>3, <2>4
    <2>6. {i \in 1 .. n : Visible(table'[i])} = LiveUpTo(n)
      BY <2>1 DEF LiveUpTo
    <2> QED BY <1>1, <2>1, <2>2, <2>3, <2>5, <2>6
  <1>6. CASE Retry
    BY <1>6 DEF Retry
  <1>7. CASE Idles
    <2>1. /\ UNCHANGED <<table, query, page, total, got>>
          /\ phase' \in {"refresh", "answer"} <=> phase \in {"refresh", "answer"}
          /\ phase' = "done" <=> phase = "done"
      BY <1>7 DEF Idles
    <2>2. Received' = Received
      BY <2>1 DEF Received
    <2> QED BY <1>1, <2>1, <2>2 DEF MissInv, LiveUpTo
  <1> QED BY <1>3, <1>4, <1>5, <1>6, <1>7, NextCases

\* Every step keeps the matches what they were, as long as nobody interferes.
LEMMA QuietStep == IInv /\ [Next]_vars => QuietInv'
  <1> SUFFICES ASSUME IInv, [Next]_vars, drift' = {}
               PROVE  /\ start' = Matches(table', query')
                      /\ Received' \subseteq start'
                      /\ phase' \in {"refresh", "answer"} => total' = Cardinality(start')
                      /\ phase' = "done" => query'.offset >= Cardinality(start')
    BY DEF QuietInv
  <1>1. /\ start = Matches(table, query)
        /\ Received \subseteq start
        /\ phase \in {"refresh", "answer"} => total = Cardinality(start)
        /\ phase = "done" => query.offset >= Cardinality(start)
        /\ start' = start
    BY OrdersPersist DEF IInv, QuietInv
  <1>2. got \subseteq start /\ Ids({}) = {}
    BY <1>1 DEF Received, Ids
  <1>3. CASE ReadPage
    <2>1. UNCHANGED <<table, query, got>> /\ phase' \in {"refresh", "answer"}
      BY <1>3 DEF ReadPage
    <2>2. /\ Ids(page') \subseteq Matches(table, query)
          /\ total' = Cardinality(Matches(table, query))
      BY <1>3, ReadFacts DEF IInv
    <2> QED BY <1>1, <1>2, <2>1, <2>2 DEF Received
  <1>4. CASE Refresh
    <2>1. PICK s : RefreshEffect(s)
      BY <1>4, RefreshKeep DEF IInv
    <2>2. /\ phase = "refresh" /\ phase' = "answer" /\ UNCHANGED <<page, got, query, total>>
      BY <1>4 DEF Refresh
    <2>3. Matches(table', query) = Matches(table, query)
      <3>1. \A i \in DOMAIN table : Selected(table'[i], query) <=> Selected(table[i], query)
        BY <2>1, SelectedByBody DEF RefreshEffect
      <3> QED BY <2>1, <3>1 DEF Matches, RefreshEffect
    <2> QED BY <1>1, <2>2, <2>3 DEF Received
  <1>5. CASE Deliver
    <2>1. /\ query'.offset = Reached /\ Received' = Received /\ Reached \in Nat
          /\ Matches(table', query') = Matches(table, query)
      BY <1>5, Delivered DEF IInv
    <2>2. /\ phase = "answer" /\ phase' \in {"ask", "done"}
          /\ phase' = "done" => ~(Reached < total)
      BY <1>5 DEF Deliver, HasMore, Reached
    <2>3. total \in Nat
      BY DEF IInv, TypeOK
    <2>4. phase' = "done" => Reached >= Cardinality(start)
      BY <1>1, <2>1, <2>2, <2>3
    <2> QED BY <1>1, <2>1, <2>2, <2>4
  <1>6. CASE Retry
    <2>1. page' = {} /\ phase' = "ask" /\ UNCHANGED <<table, query, got>>
      BY <1>6 DEF Retry
    <2> QED BY <1>1, <1>2, <2>1 DEF Received
  <1>7. CASE Others
    BY <1>7, OthersKeep DEF IInv
  <1>8. CASE Idles
    <2>1. /\ UNCHANGED <<table, query, page, total, got>>
          /\ phase' \in {"refresh", "answer"} <=> phase \in {"refresh", "answer"}
          /\ phase' = "done" <=> phase = "done"
      BY <1>8 DEF Idles
    <2> QED BY <1>1, <2>1 DEF Received
  <1> QED BY <1>3, <1>4, <1>5, <1>6, <1>7, <1>8, NextCases

\* The invariant holds before the first page.
LEMMA InitInvariant == Init => IInv
  <1> SUFFICES ASSUME Init PROVE IInv
    OBVIOUS
  <1>1. /\ table \in Seeds /\ clock = Start /\ query \in Queries /\ phase = "ask"
        /\ asked = 0 /\ page = {} /\ total = 0 /\ got = {}
        /\ start = Ids(Matching(table, query))
        /\ drift = {} /\ changes = 0 /\ retries = 0
    BY DEF Init
  <1>2. /\ table \in Seq(Memory) /\ query \in Query /\ query.offset = 0
        /\ Start \in Nat /\ MaxEvents \in Nat
        /\ \A i \in DOMAIN table : table[i].id = i /\ table[i].last_accessed_at <= Start
    BY <1>1, WalkAssumption
  <1>3. Numbered(table)
    BY <1>2 DEF Numbered
  <1>4. start = Matches(table, query) /\ start \subseteq DOMAIN table
    BY <1>1, <1>2, <1>3, MatchesCounted DEF Matches
  <1>5. IsFiniteSet({}) /\ Cardinality({}) = 0 /\ Ids({}) = {}
    BY FS_EmptySet DEF Ids
  <1>6. query.limit \in Nat
    BY <1>2 DEF Query
  <1>7. TypeOK
    BY <1>1, <1>2, <1>4, <1>5, <1>6 DEF TypeOK
  <1>8. TableInv
    BY <1>1, <1>2, <1>3 DEF TableInv
  <1>9. PageInv
    BY <1>1, <1>5 DEF PageInv
  <1>10. CountInv
    BY <1>1, <1>2, <1>5 DEF CountInv, NothingTwice
  <1>11. Received = {} /\ Reached = 0
    BY <1>1, <1>2, <1>5 DEF Received, Reached
  <1>12. Covered({}, 0, table, query)
    BY <1>5 DEF Covered, Covers
  <1>13. FixedInv /\ MovedInv
    BY <1>1, <1>2, <1>11, <1>12 DEF FixedInv, MovedInv
  <1>14. MissInv
    BY <1>1 DEF MissInv
  <1>15. QuietInv
    BY <1>1, <1>4, <1>11 DEF QuietInv
  <1> QED BY <1>7, <1>8, <1>9, <1>10, <1>13, <1>14, <1>15 DEF IInv

-----------------------------------------------------------------------------
(* The theorems.                                                           *)

\* The counting argument holds in every state of every walk.
THEOREM Invariance == Spec => []IInv
  <1>1. IInv /\ [Next]_vars => IInv'
    BY TypeStep, TableStep, PageStep, CountStep, FixedStep, MovedStep, MissStep,
       QuietStep DEF IInv
  <1> QED BY InitInvariant, <1>1, PTL DEF Spec

\* Every variable of a walk keeps its type, and no page of get_memories_page is
\* longer than its limit.
THEOREM TypeCorrect == Spec => []TypeOK
  <1>1. IInv => TypeOK
    BY DEF IInv
  <1> QED BY Invariance, <1>1, PTL

\* A client that walks all memories by id (ORDER BY id ASC) never receives one
\* twice, whatever others do meanwhile and however often it repeats a request.
THEOREM IdWalksNeverRepeat == Spec => []IdWalkNeverTwice
  <1>1. IInv => IdWalkNeverTwice
    BY DEF IInv, CountInv, FixedOrder, IdWalkNeverTwice
  <1> QED BY Invariance, <1>1, PTL

\* Such a walk misses no more memories than it has received that were retired since:
\* has_more is told against a total that counted them.
THEOREM IdWalksMissFew == Spec => []IdWalkMissesFew
  <1>1. ASSUME IInv, Plain(query), query.sort = "id", phase = "done"
        PROVE  LET live == {i \in DOMAIN table : Visible(table[i])}
               IN  Cardinality((live \cap start) \ got) <= Cardinality(got \ live)
    <2> DEFINE live == {i \in DOMAIN table : Visible(table[i])}
    <2>1. PICK n \in 0 .. Len(table) :
             /\ got \cup start \subseteq 1 .. n
             /\ Cardinality(LiveUpTo(n)) <= query.offset
      BY <1>1 DEF IInv, MissInv
    <2> DEFINE L == LiveUpTo(n)
    <2>2. 1 .. n \subseteq DOMAIN table
      BY DEF IInv, TypeOK
    <2>3. /\ (live \cap start) \ got \subseteq L \ got
          /\ got \ live = got \ L /\ got \cap L = L \cap got
          /\ L \in SUBSET DOMAIN table /\ got \in SUBSET DOMAIN table
      BY <1>1, <2>1, <2>2 DEF LiveUpTo, IInv, TypeOK
    <2>4. Cardinality(got) = query.offset /\ query.offset \in Nat
      BY <1>1 DEF IInv, CountInv, FixedOrder, NothingTwice, TypeOK, Query
    <2>5. IsFiniteSet(L) /\ IsFiniteSet(got) /\ Cardinality(L) \in Nat
      BY <1>1, <2>3, RowsFinite DEF IInv, TypeOK
    <2> HIDE DEF L, live
    <2>6. /\ IsFiniteSet(L \ got) /\ IsFiniteSet(got \ L) /\ IsFiniteSet(L \cap got)
          /\ Cardinality(L \ got) = Cardinality(L) - Cardinality(L \cap got)
          /\ Cardinality(got \ L) = Cardinality(got) - Cardinality(got \cap L)
      BY <2>5, FS_Difference, FS_Intersection, Zenon
    <2>7. Cardinality((live \cap start) \ got) <= Cardinality(L \ got)
      BY <2>3, <2>6, FS_Subset, Zenon
    <2>8. /\ Cardinality(L \cap got) \in Nat /\ Cardinality(L \ got) \in Nat
          /\ IsFiniteSet((live \cap start) \ got)
      BY <2>3, <2>6, FS_CardinalityType, FS_Subset, Zenon
    <2>9. Cardinality((live \cap start) \ got) \in Nat
      BY <2>8, FS_CardinalityType, Zenon
    <2>10. Cardinality(L) <= Cardinality(got)
      BY <2>1, <2>4 DEF L
    <2>11. Cardinality(got \ live) = Cardinality(got) - Cardinality(L \cap got)
      BY <2>3, <2>6
    <2>12. Cardinality((live \cap start) \ got) <= Cardinality(got \ live)
      BY <2>4, <2>5, <2>6, <2>7, <2>8, <2>9, <2>10, <2>11
    <2> QED BY <2>12 DEF live
  <1>2. IInv => IdWalkMissesFew
    BY <1>1 DEF IdWalkMissesFew
  <1> QED BY Invariance, <1>2, PTL

\* A client that walks all memories by access time, each of whose pages its own
\* request moves to the top, never receives one twice while nobody else accesses
\* memories and no request is repeated.
THEOREM AccessWalksNeverRepeat == Spec => []AccessWalkNeverTwice
  <1>1. IInv => AccessWalkNeverTwice
    BY DEF IInv, CountInv, MovingOrder, AccessWalkNeverTwice
  <1> QED BY Invariance, <1>1, PTL

\* When nobody else changes anything, a walk of any query in any order receives
\* exactly what matched, each memory once.
THEOREM QuietWalksAreExact == Spec => []QuietWalkIsExact
  <1>1. ASSUME IInv, phase = "done", drift = {},
               query.sort = "last_accessed_at" => retries = 0
        PROVE  got = start /\ NothingTwice
    <2>1. NothingTwice
      BY <1>1 DEF IInv, CountInv, FixedOrder, MovingOrder
    <2>2. got \subseteq start /\ query.offset >= Cardinality(start)
      BY <1>1 DEF IInv, QuietInv, Received
    <2>3. IsFiniteSet(start) /\ Cardinality(start) \in Nat
      BY <1>1, RowsFinite DEF IInv, TypeOK
    <2>4. Cardinality(got) <= Cardinality(start) /\ Cardinality(got) \in Nat
      BY <1>1, <2>2, <2>3, FS_Subset, RowsFinite DEF IInv, TypeOK
    <2>5. Cardinality(got) = Cardinality(start)
      BY <2>1, <2>2, <2>3, <2>4 DEF NothingTwice
    <2>6. got = start
      BY <2>2, <2>3, <2>5, FS_Subset, Zenon
    <2> QED BY <2>1, <2>6
  <1>2. IInv => QuietWalkIsExact
    BY <1>1 DEF QuietWalkIsExact
  <1> QED BY Invariance, <1>2, PTL

-----------------------------------------------------------------------------
(* What a walk assumes of the service.                                     *)

\* The contract speaks of the same memories.
LEMMA ContractSpeaksOf ==
    /\ Contract!Body = Body /\ Contract!NewBody = NewBody
    /\ \A m : Contract!Visible(m) <=> Visible(m)
    /\ \A m, s : Contract!Accessed(m, s) = Accessed(m, s)
    /\ \A m, b, s : Contract!Revised(m, b, s) = Revised(m, b, s)
    /\ \A i, b, s : Contract!NewMemory(i, b, s) = NewMemory(i, b, s)
  <1>1. Contract!Body = Body /\ Contract!NewBody = NewBody
    BY Zenon DEF Contract!Body, Body, Contract!NewBody, NewBody, Contract!TagLists, TagLists,
                 Contract!Statuses, Statuses
  <1>2. /\ \A m : Contract!Visible(m) <=> Visible(m)
        /\ \A m, s : Contract!Accessed(m, s) = Accessed(m, s)
        /\ \A m, b, s : Contract!Revised(m, b, s) = Revised(m, b, s)
        /\ \A i, b, s : Contract!NewMemory(i, b, s) = NewMemory(i, b, s)
    BY Zenon DEF Contract!Visible, Visible, Contract!Accessed, Accessed,
                 Contract!Revised, Revised, Contract!NewMemory, NewMemory
  <1> QED BY <1>1, <1>2

\* One row that changes, by a PATCH, a DELETE or a GET of another client.
LEMMA RowChange ==
    ASSUME TypeOK, TableInv, NEW i \in DOMAIN table, NEW s \in Nat
    PROVE  /\ \A b \in Body : Revise(i, b, s) => Contract!Revises(table, table')
           /\ Access(i, s) => Contract!Accesses(table, table')
  <1>1. DOMAIN table = 1 .. Len(table) /\ table[i] \in Memory /\ table[i].id = i
    BY DEF TypeOK, TableInv, Numbered
  <1>2. ASSUME NEW b \in Body, Revise(i, b, s)
        PROVE  Contract!Revises(table, table')
    <2> DEFINE m == Revised(table[i], b, s)
    <2>1. m \in Memory /\ m.id = i /\ m.body = b /\ m.updated_at = s
      BY <1>1, RevisedType DEF Revised, Memory
    <2>2. table' = [table EXCEPT ![i] = m]
      BY <1>2 DEF Revise
    <2> HIDE DEF m
    <2>3. /\ Len(table') = Len(table)
          /\ \A j \in DOMAIN table : table'[j] = IF j = i THEN m ELSE table[j]
      BY <2>1, <2>2, RowReplaced DEF TypeOK, TableInv
    <2>4. Visible(table[i]) /\ b # table[i].body /\ s >= table[i].updated_at
      BY <1>2 DEF Revise
    <2>5. table'[i] = Revised(table[i], table'[i].body, table'[i].updated_at)
      BY <2>1, <2>3 DEF m
    <2> QED BY <1>1, <2>1, <2>3, <2>4, <2>5, ContractSpeaksOf DEF Contract!Revises
  <1>3. ASSUME Access(i, s)
        PROVE  Contract!Accesses(table, table')
    <2> DEFINE m == Accessed(table[i], s)
    <2>1. m \in Memory /\ m.id = i /\ m.last_accessed_at = s
      BY <1>1 DEF Accessed, Memory
    <2>2. table' = [table EXCEPT ![i] = m]
      BY <1>3 DEF Access
    <2> HIDE DEF m
    <2>3. /\ Len(table') = Len(table)
          /\ \A j \in DOMAIN table : table'[j] = IF j = i THEN m ELSE table[j]
      BY <2>1, <2>2, RowReplaced DEF TypeOK, TableInv
    <2>4. table'[i] = Accessed(table[i], table'[i].last_accessed_at)
      BY <2>1, <2>3 DEF m
    <2> QED BY <1>1, <2>3, <2>4, ContractSpeaksOf DEF Contract!Accesses
  <1> QED BY <1>2, <1>3

\* Whoever was given an empty page was told that there is no more.
AheadInv ==
    phase \in {"refresh", "answer"} /\ Cardinality(page) = 0 => total <= query.offset

\* Every step keeps that.
LEMMA AheadStep == IInv /\ AheadInv /\ [Next]_vars => AheadInv'
  <1> SUFFICES ASSUME TypeOK, TableInv, PageInv, AheadInv, [Next]_vars
               PROVE  AheadInv'
    BY DEF IInv
  <1>1. CASE ReadPage
    <2>1. (Cardinality(page') = 0 => total' <= query.offset) /\ query' = query
      BY <1>1, ReadFacts DEF ReadPage
    <2> QED BY <2>1 DEF AheadInv
  <1>2. CASE Refresh \/ Others
    <2>1. /\ UNCHANGED <<page, total, query>>
          /\ phase' \in {"refresh", "answer"} => phase \in {"refresh", "answer"}
      BY <1>2, OthersKeep DEF Refresh
    <2> QED BY <2>1 DEF AheadInv
  <1>3. CASE Deliver \/ Retry
    BY <1>3 DEF Deliver, Retry, AheadInv
  <1>4. CASE Idles
    BY <1>4 DEF Idles, AheadInv
  <1> QED BY <1>1, <1>2, <1>3, <1>4, NextCases

\* A page with more to come is never empty, whatever others do at whatever rate: the
\* COUNT and the SELECT of get_memories_page are of one snapshot, so that the client's
\* offset grows with every answer that sends it on.
THEOREM WalksAdvance == Spec => WalkAdvances
  <1>1. ASSUME IInv, AheadInv, [Next]_vars,
               phase = "answer", phase' = "ask", retries' = retries
        PROVE  query'.offset > query.offset
    <2>1. ~ReadPage /\ ~Refresh /\ ~Retry /\ ~Idles
      BY <1>1 DEF ReadPage, Refresh, Retry, Idles, IInv, TypeOK
    <2>2. ~Others
      BY <1>1, OthersKeep DEF IInv
    <2>3. Deliver
      BY <1>1, <2>1, <2>2, NextCases
    <2>4. /\ Cardinality(page) \in Nat /\ query.offset \in Nat /\ total \in Nat
      BY <1>1, FS_CardinalityType DEF IInv, PageInv, TypeOK, Query
    <2>5. /\ query.offset + Cardinality(page) < total
          /\ query' = [query EXCEPT !.offset = query.offset + Cardinality(page)]
      BY <1>1, <2>3 DEF Deliver, HasMore
    <2>6. query'.offset = query.offset + Cardinality(page)
      BY <1>1, <2>4, <2>5, OffsetApart DEF IInv, TypeOK
    <2>7. Cardinality(page) # 0
      BY <1>1, <2>4, <2>5 DEF AheadInv
    <2> QED BY <2>4, <2>6, <2>7
  <1>2. Init => AheadInv
    BY DEF Init, AheadInv
  <1>3. IInv /\ AheadInv /\ [Next]_vars =>
            [phase = "answer" /\ phase' = "ask" /\ retries' = retries
               => query'.offset > query.offset]_vars
    BY <1>1
  <1> QED BY Invariance, AheadStep, <1>2, <1>3, PTL DEF Spec, WalkAdvances

\* Every step of a walk, and of the others, is a change that the contract allows, or
\* leaves the table alone.
LEMMA ContractStep == IInv /\ [Next]_vars => [Contract!Next]_table
  <1> SUFFICES ASSUME TypeOK, TableInv, [Next]_vars, table' # table
               PROVE  Contract!Change(table, table')
    BY DEF IInv, Contract!Next
  <1>1. DOMAIN table = 1 .. Len(table) /\ Len(table) \in Nat
    BY DEF TypeOK
  <1>2. CASE Refresh
    <2>1. PICK s : table' = [i \in DOMAIN table |->
                                IF i \in Ids(page) THEN Accessed(table[i], s) ELSE table[i]]
      BY <1>2 DEF Refresh
    <2>2. Len(table') = Len(table)
      BY <1>2, RefreshKeep DEF RefreshEffect
    <2>3. \A i \in DOMAIN table :
             table'[i] = IF i \in Ids(page) THEN Accessed(table[i], s) ELSE table[i]
      BY <2>1
    <2>4. \A i \in DOMAIN table : Accessed(table[i], s).last_accessed_at = s
      BY DEF Accessed, TypeOK, Memory
    <2>5. \A i \in DOMAIN table :
             table'[i] # table[i] => /\ table'[i] = Accessed(table[i], s)
                                     /\ table'[i].last_accessed_at = s
      BY <2>3, <2>4
    <2>6. Contract!Accesses(table, table')
      BY <1>1, <2>2, <2>5, ContractSpeaksOf DEF Contract!Accesses
    <2> QED BY <2>6 DEF Contract!Change
  <1>3. CASE Others
    <2>1. PICK s \in Start .. clock + 1 :
             \/ \E b \in Bodies : Create(b, s)
             \/ \E i \in DOMAIN table, b \in Bodies : Revise(i, b, s)
             \/ \E i \in DOMAIN table :
                   \/ Revise(i, Retired(table[i].body), s)
                   \/ Revise(i, Untagged(table[i].body), s)
                   \/ Access(i, s)
      BY <1>3 DEF Others
    <2>2. s \in Nat /\ Bodies \subseteq NewBody /\ NewBody \subseteq Body
      BY WalkAssumption DEF TypeOK, NewBody
    <2>3. ASSUME NEW b \in Bodies, Create(b, s)
          PROVE  Contract!Extends(table, table')
      <3> DEFINE m == NewMemory(Len(table) + 1, b, s)
      <3>1. table' = Append(table, m)
        BY <2>3 DEF Create
      <3>2. m.body = b /\ m.created_at = s
        BY DEF NewMemory
      <3>3. m \in Memory /\ table \in Seq(Memory)
        <4>1. Len(table) + 1 \in Nat \ {0} /\ b \in Body
          BY <1>1, <2>2
        <4> QED BY <2>2, <4>1 DEF NewMemory, Memory, TypeOK
      <3> HIDE DEF m
      <3>4. /\ Len(table') = Len(table) + 1
            /\ \A i \in 1 .. Len(table) : table'[i] = table[i]
            /\ table'[Len(table) + 1] = m
        BY <3>1, <3>3
      <3>5. \A i \in Len(table) + 1 .. Len(table') : i = Len(table) + 1
        BY <1>1, <3>4
      <3>6. m = NewMemory(Len(table) + 1, m.body, m.created_at)
        BY <3>2 DEF m
      <3>7. m.body \in NewBody
        BY <2>2, <3>2
      <3>8. \A i \in Len(table) + 1 .. Len(table') :
               /\ table'[i].body \in NewBody
               /\ table'[i] = NewMemory(i, table'[i].body, table'[i].created_at)
        BY <3>4, <3>5, <3>6, <3>7
      <3>9. Len(table) <= Len(table')
        BY <1>1, <3>4
      <3> QED BY <3>4, <3>8, <3>9, ContractSpeaksOf DEF Contract!Extends
    <2>4. ASSUME NEW i \in DOMAIN table, NEW b \in Bodies, Revise(i, b, s)
          PROVE  Contract!Revises(table, table')
      BY <2>2, <2>4, RowChange
    <2>5. ASSUME NEW i \in DOMAIN table,
                 \/ Revise(i, Retired(table[i].body), s)
                 \/ Revise(i, Untagged(table[i].body), s)
          PROVE  Contract!Revises(table, table')
      <3>1. table[i] \in Memory
        BY DEF TypeOK
      <3>2. Retired(table[i].body) \in Body /\ Untagged(table[i].body) \in Body
        BY <3>1, RetiredType, UntaggedType DEF Memory
      <3> QED BY <2>2, <2>5, <3>2, RowChange
    <2>6. ASSUME NEW i \in DOMAIN table, Access(i, s)
          PROVE  Contract!Accesses(table, table')
      BY <2>2, <2>6, RowChange
    <2> QED BY <2>1, <2>3, <2>4, <2>5, <2>6 DEF Contract!Change
  <1>4. ASSUME ReadPage \/ Deliver \/ Retry \/ Idles
        PROVE  FALSE
    BY <1>4 DEF ReadPage, Deliver, Retry, Idles
  <1> QED BY <1>2, <1>3, <1>4, NextCases

\* What a walk takes for granted of everybody who writes, and what its own refreshes
\* do, is no more than the contract allows, which MemoryStore implements: the walk
\* shows what a client can expect of a service that keeps it.
THEOREM WalksKeepContract == Spec => Contract!Spec
  <1>1. Init => Contract!Init
    BY DEF Init, Contract!Init
  <1> QED BY Invariance, ContractStep, <1>1, PTL DEF Spec, Contract!Spec
=============================================================================

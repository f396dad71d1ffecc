------------------------ MODULE MemoryModel_proofs ------------------------
(***************************************************************************)
(* What ORDER BY, LIMIT and OFFSET make of any table of memories: the      *)
(* matches of a query are strictly ordered, a row's position counts the    *)
(* matches before it, and a page is as long as it can be.  The proofs      *)
(* about MemoryStore's pages and PageWalk's walks rest on these facts.     *)
(***************************************************************************)
EXTENDS MemoryModel, FiniteSetTheorems, TLAPS

\* A table whose i-th row has id i, as AUTOINCREMENT leaves it.
Numbered(t) == \A i \in DOMAIN t : t[i].id = i

\* The matches whose position is in S.
RowsAt(S, t, q) == {m \in Matching(t, q) : Position(m, t, q) \in S}

-----------------------------------------------------------------------------
(* The order of the rows.                                                  *)

\* The columns a query can sort by hold numbers.
LEMMA SortKeyType ==
    ASSUME NEW m \in Memory, NEW sort \in SortKeys
    PROVE  m.id \in Nat /\ m[sort] \in Nat
  <1>1. CASE sort = "id" BY <1>1 DEF Memory
  <1>2. CASE sort = "created_at" BY <1>2 DEF Memory
  <1>3. CASE sort = "updated_at" BY <1>3 DEF Memory
  <1>4. CASE sort = "last_accessed_at" BY <1>4 DEF Memory
  <1> QED BY <1>1, <1>2, <1>3, <1>4 DEF SortKeys

\* _build_memory_order_by's order is strict, transitive, and, by its tie-breaker,
\* total on rows with different ids.
LEMMA PrecedesOrder ==
    ASSUME NEW sort \in SortKeys, NEW m \in Memory, NEW n \in Memory, NEW p \in Memory
    PROVE  /\ ~Precedes(m, m, sort)
           /\ Precedes(m, n, sort) => ~Precedes(n, m, sort)
           /\ Precedes(m, n, sort) /\ Precedes(n, p, sort) => Precedes(m, p, sort)
           /\ m.id # n.id => Precedes(m, n, sort) \/ Precedes(n, m, sort)
  <1> DEFINE a == m[sort]  b == n[sort]  c == p[sort]
             i == m.id  j == n.id  k == p.id
  <1>1. /\ a \in Nat /\ b \in Nat /\ c \in Nat
        /\ i \in Nat /\ j \in Nat /\ k \in Nat
    BY SortKeyType
  <1> HIDE DEF a, b, c, i, j, k
  <1>2. CASE sort = "id"
    <2>1. ~(i < i) /\ (i < j => ~(j < i)) /\ (i < j /\ j < k => i < k)
          /\ (i # j => i < j \/ j < i)
      BY <1>1
    <2> QED BY <1>2, <2>1, Zenon DEF Precedes, i, j, k
  <1>3. CASE sort # "id"
    <2> DEFINE B(x, ix, y, iy) == x > y \/ (x = y /\ ix > iy)
    <2>1. /\ ~B(a, i, a, i) /\ (B(a, i, b, j) => ~B(b, j, a, i))
          /\ (B(a, i, b, j) /\ B(b, j, c, k) => B(a, i, c, k))
          /\ (i # j => B(a, i, b, j) \/ B(b, j, a, i))
      BY <1>1
    <2> QED BY <1>3, <2>1, Zenon DEF Precedes, a, b, c, i, j, k
  <1> QED BY <1>2, <1>3

\* The matches of a query are rows of the table, told apart by their ids, and
\* there are finitely many.
LEMMA MatchingRows ==
    ASSUME NEW t \in Seq(Memory), Numbered(t), NEW q
    PROVE  /\ IsFiniteSet(Matching(t, q))
           /\ Cardinality(Matching(t, q)) \in Nat
           /\ \A m \in Matching(t, q) : /\ m \in Memory /\ m.id \in DOMAIN t
                                        /\ t[m.id] = m /\ Selected(m, q)
           /\ \A i \in DOMAIN t : Selected(t[i], q) => t[i] \in Matching(t, q)
           /\ \A m, n \in Matching(t, q) : m.id = n.id => m = n
  <1> DEFINE M == Matching(t, q)
             f == [m \in M |-> m.id]
  <1>1. \A m \in M : m \in Memory /\ m.id \in DOMAIN t /\ t[m.id] = m /\ Selected(m, q)
    <2> SUFFICES ASSUME NEW m \in M
                 PROVE  m \in Memory /\ m.id \in DOMAIN t /\ t[m.id] = m /\ Selected(m, q)
      OBVIOUS
    <2>1. Selected(m, q) /\ m \in {t[i] : i \in DOMAIN t}
      BY DEF Matching
    <2>2. PICK i \in DOMAIN t : m = t[i]
      BY <2>1
    <2>3. m.id = i
      BY <2>2 DEF Numbered
    <2>4. t[i] \in Memory
      BY <2>2
    <2> QED BY <2>1, <2>2, <2>3, <2>4, Zenon
  <1>2. \A m, n \in M : m.id = n.id => m = n
    BY <1>1, Zenon
  <1>3. f \in Injection(M, 1 .. Len(t))
    <2>1. f \in [M -> 1 .. Len(t)]
      <3>1. DOMAIN t = 1 .. Len(t)
        OBVIOUS
      <3> QED BY <1>1, <3>1
    <2> QED BY <1>2, <2>1 DEF Injection, IsInjective
  <1>4. IsFiniteSet(1 .. Len(t))
    <2>1. 1 \in Int /\ Len(t) \in Int
      OBVIOUS
    <2> QED BY <2>1, FS_Interval, Zenon
  <1>5. IsFiniteSet(M)
    BY <1>3, <1>4, FS_Injection, Zenon
  <1>6. Cardinality(M) \in Nat
    BY <1>5, FS_CardinalityType, Zenon
  <1>7. \A i \in DOMAIN t : Selected(t[i], q) => t[i] \in M
    BY Zenon DEF Matching
  <1> QED BY <1>1, <1>2, <1>5, <1>6, <1>7, Zenon

-----------------------------------------------------------------------------
(* Positions.                                                              *)

\* Positions count from 0 up to the number of matches, and grow with the order.
LEMMA PositionOrder ==
    ASSUME NEW t \in Seq(Memory), Numbered(t), NEW q \in Query,
           NEW m \in Matching(t, q), NEW n \in Matching(t, q)
    PROVE  /\ Position(m, t, q) \in 0 .. Cardinality(Matching(t, q)) - 1
           /\ Precedes(m, n, q.sort) => Position(m, t, q) < Position(n, t, q)
           /\ Position(m, t, q) < Position(n, t, q) => Precedes(m, n, q.sort)
           /\ Position(m, t, q) = Position(n, t, q) => m = n
  <1> DEFINE M == Matching(t, q)
             Before(x) == {y \in M : Precedes(y, x, q.sort)}
  <1>1. IsFiniteSet(M) /\ M \subseteq Memory /\ q.sort \in SortKeys /\ Cardinality(M) \in Nat
    BY MatchingRows DEF Query
  <1>2. ASSUME NEW x \in M
        PROVE  /\ IsFiniteSet(Before(x)) /\ Cardinality(Before(x)) \in Nat
               /\ Cardinality(Before(x)) < Cardinality(M)
               /\ Position(x, t, q) = Cardinality(Before(x))
    <2>1. Before(x) \subseteq M /\ x \notin Before(x)
      BY <1>1, PrecedesOrder
    <2>2. IsFiniteSet(Before(x)) /\ Cardinality(Before(x)) <= Cardinality(M)
      BY <1>1, <2>1, FS_Subset, Zenon
    <2>3. Cardinality(Before(x)) # Cardinality(M)
      BY <1>1, <2>1, FS_Subset, Zenon
    <2>4. Cardinality(Before(x)) \in Nat
      BY <2>2, FS_CardinalityType, Zenon
    <2>5. Cardinality(Before(x)) < Cardinality(M)
      <3> DEFINE c == Cardinality(Before(x))  d == Cardinality(M)
      <3>1. c \in Nat /\ d \in Nat /\ c <= d /\ c # d
        BY <1>1, <2>2, <2>3, <2>4
      <3> HIDE DEF c, d
      <3>2. c < d BY <3>1
      <3> QED BY <3>2 DEF c, d
    <2>6. Position(x, t, q) = Cardinality(Before(x))
      BY DEF Position
    <2> QED BY <2>2, <2>4, <2>5, <2>6, Zenon
  <1>3. ASSUME NEW x \in M, NEW y \in M, Precedes(x, y, q.sort)
        PROVE  Position(x, t, q) < Position(y, t, q)
    <2>1. Before(x) \subseteq Before(y)
      <3> SUFFICES ASSUME NEW z \in M, Precedes(z, x, q.sort)
                   PROVE  Precedes(z, y, q.sort)
        OBVIOUS
      <3> QED BY <1>1, <1>3, PrecedesOrder
    <2>2. x \in Before(y) /\ x \notin Before(x)
      BY <1>1, <1>3, PrecedesOrder
    <2>3. /\ Cardinality(Before(x)) <= Cardinality(Before(y))
          /\ Cardinality(Before(x)) # Cardinality(Before(y))
      BY <1>2, <2>1, <2>2, FS_Subset, Zenon
    <2> DEFINE c == Cardinality(Before(x))  d == Cardinality(Before(y))
    <2>4. c \in Nat /\ d \in Nat /\ c <= d /\ c # d
      BY <1>2, <2>3, Zenon
    <2> HIDE DEF c, d
    <2>5. c < d BY <2>4
    <2>6. Position(x, t, q) = c /\ Position(y, t, q) = d
      BY <1>2, Zenon DEF c, d
    <2> QED BY <2>5, <2>6, Zenon
  <1>4. m.id # n.id => Precedes(m, n, q.sort) \/ Precedes(n, m, q.sort)
    BY <1>1, PrecedesOrder
  <1>5. m.id = n.id => m = n
    BY MatchingRows, Zenon
  <1> DEFINE a == Position(m, t, q)  b == Position(n, t, q)  c == Cardinality(M)
  <1>6. a \in Nat /\ b \in Nat /\ c \in Nat /\ a < c
    BY <1>1, <1>2, Zenon
  <1>7. (Precedes(m, n, q.sort) => a < b) /\ (Precedes(n, m, q.sort) => b < a)
    BY <1>3, Zenon
  <1> HIDE DEF a, b, c, M
  <1>8. a \in 0 .. c - 1
    BY <1>6
  <1>9. m = n => a = b
    BY DEF a, b
  <1>10. /\ a < b => Precedes(m, n, q.sort)
         /\ a = b => m = n
    BY <1>4, <1>5, <1>6, <1>7, <1>9
  <1>11. a \in 0 .. Cardinality(Matching(t, q)) - 1
    BY <1>8 DEF c, M
  <1> QED BY <1>7, <1>10, <1>11, Zenon DEF a, b

\* Every position below the number of matches is taken: the k-th row exists.
LEMMA PositionBijective ==
    ASSUME NEW t \in Seq(Memory), Numbered(t), NEW q \in Query
    PROVE  [m \in Matching(t, q) |-> Position(m, t, q)]
              \in Bijection(Matching(t, q), 0 .. Cardinality(Matching(t, q)) - 1)
  <1> DEFINE M == Matching(t, q)
             c == Cardinality(M)
             f == [m \in M |-> Position(m, t, q)]
  <1>1. IsFiniteSet(M) /\ c \in Nat
    BY MatchingRows
  <1>2. \A m, n \in M : f[m] \in 0 .. c - 1 /\ (f[m] = f[n] => m = n)
    BY PositionOrder, Zenon
  <1>3. f \in Injection(M, 0 .. c - 1)
    <2> HIDE DEF M, c
    <2>1. f \in [M -> 0 .. c - 1]
      BY <1>2
    <2> HIDE DEF f
    <2> QED BY <1>2, <2>1 DEF Injection, IsInjective
  <1>4. IsFiniteSet(0 .. c - 1) /\ Cardinality(0 .. c - 1) = c
    <2> HIDE DEF c
    <2>1. 0 \in Int /\ c - 1 \in Int
      BY <1>1
    <2>2. /\ IsFiniteSet(0 .. c - 1)
          /\ Cardinality(0 .. c - 1) = IF 0 > c - 1 THEN 0 ELSE (c - 1) - 0 + 1
      BY <2>1, FS_Interval, Zenon
    <2> QED BY <1>1, <2>2
  <1>5. f \in Surjection(M, 0 .. c - 1)
    BY <1>3, <1>4, FS_Injection, Zenon
  <1> QED BY <1>3, <1>5, Zenon DEF Bijection

\* As many rows as positions.
LEMMA RowsCounted ==
    ASSUME NEW t \in Seq(Memory), Numbered(t), NEW q \in Query,
           NEW S \in SUBSET (0 .. Cardinality(Matching(t, q)) - 1)
    PROVE  IsFiniteSet(RowsAt(S, t, q)) /\ Cardinality(RowsAt(S, t, q)) = Cardinality(S)
  <1> DEFINE M == Matching(t, q)
             f == [m \in M |-> Position(m, t, q)]
             R == RowsAt(S, t, q)
             g == [m \in R |-> Position(m, t, q)]
  <1>1. f \in Bijection(M, 0 .. Cardinality(M) - 1)
    BY PositionBijective
  <1>2. R \subseteq M /\ \A m \in R : g[m] = f[m] /\ g[m] \in S
    BY DEF RowsAt
  <1>3. \A m, n \in M : f[m] = f[n] => m = n
    BY <1>1 DEF Bijection, Injection, IsInjective
  <1>4. \A s \in S : \E m \in M : f[m] = s
    BY <1>1 DEF Bijection, Surjection
  <1>5. \A s \in S : \E m \in R : g[m] = s
    BY <1>4 DEF RowsAt
  <1>6. g \in Injection(R, S)
    BY <1>2, <1>3 DEF Injection, IsInjective
  <1>7. g \in Surjection(R, S)
    BY <1>2, <1>5 DEF Surjection
  <1>8. IsFiniteSet(S)
    <2>1. Cardinality(M) \in Nat
      BY MatchingRows
    <2>2. 0 \in Int /\ Cardinality(M) - 1 \in Int
      BY <2>1
    <2>3. IsFiniteSet(0 .. Cardinality(M) - 1)
      BY <2>2, FS_Interval, Zenon
    <2> QED BY <2>3, FS_Subset, Zenon
  <1> QED BY <1>6, <1>7, <1>8, FS_Injection, Zenon

-----------------------------------------------------------------------------
(* Pages.                                                                  *)

\* The rows before offset + limit: a page and everything before it.
Prefix(k, t, q) == RowsAt(0 .. k - 1, t, q)

\* A page holds limit rows, or as many as there are from its offset on.
LEMMA PageSize ==
    ASSUME NEW t \in Seq(Memory), Numbered(t), NEW q \in Query
    PROVE  LET items == Cardinality(Page(t, q))
               all   == Cardinality(Matching(t, q))
           IN  /\ IsFiniteSet(Page(t, q)) /\ items \in 0 .. q.limit /\ all \in Nat
               /\ Page(t, q) \subseteq Matching(t, q)
               /\ q.offset + items < all => items = q.limit
               /\ items > 0 => q.offset + items <= all
  <1> DEFINE all == Cardinality(Matching(t, q))
             last == IF q.offset + q.limit <= all THEN q.offset + q.limit ELSE all
             S == q.offset .. last - 1
             items == Cardinality(Page(t, q))
  <1>1. q.offset \in Nat /\ q.limit \in Nat \ {0}
    BY DEF Query
  <1>2. all \in Nat
    BY MatchingRows
  <1>3. \A m \in Matching(t, q) : Position(m, t, q) \in 0 .. all - 1
    BY PositionOrder
  <1> HIDE DEF all
  <1>4. last \in Nat
    BY <1>1, <1>2
  <1>5. S \in SUBSET (0 .. all - 1)
    BY <1>1, <1>2
  <1>6. \A p \in 0 .. all - 1 : p \in q.offset .. q.offset + q.limit - 1 <=> p \in S
    BY <1>1, <1>2
  <1>7. Page(t, q) = RowsAt(S, t, q)
    <2> HIDE DEF S
    <2> QED BY <1>3, <1>6 DEF Page, RowsAt
  <1>8. IsFiniteSet(Page(t, q)) /\ items = Cardinality(S)
    <2> HIDE DEF S
    <2> QED BY <1>5, <1>7, RowsCounted DEF all
  <1>9. Cardinality(S) = IF q.offset > last - 1 THEN 0 ELSE (last - 1) - q.offset + 1
    <2>1. q.offset \in Int /\ last - 1 \in Int
      BY <1>1, <1>4
    <2> HIDE DEF last
    <2> QED BY <2>1, FS_Interval, Zenon
  <1>10. items = IF q.offset > last - 1 THEN 0 ELSE (last - 1) - q.offset + 1
    BY <1>8, <1>9, Zenon
  <1> HIDE DEF items
  <1>11. /\ items \in 0 .. q.limit
         /\ q.offset + items < all => items = q.limit
         /\ items > 0 => q.offset + items <= all
    BY <1>1, <1>2, <1>10
  <1> QED BY <1>2, <1>8, <1>11 DEF items, all, Page
=============================================================================

------------------------ MODULE MemoryStore_proofs ------------------------
(***************************************************************************)
(* Proofs about MemoryStore, for every set of workers, processes, requests *)
(* and starting tables, and every bound on the number of requests.         *)
(*                                                                         *)
(* The properties are not inductive as they stand.  IInv strengthens them  *)
(* with the discipline of the locks (LockInv), where a request can be in   *)
(* its handler (FlowInv), what an open transaction may hold (TableInv),    *)
(* how copies of memories relate to the table they came from (SeenInv,     *)
(* KeptInv), what an UPDATE is about to write (StampInv, IntentInv),       *)
(* and what a lost race means (LossInv).                                   *)
(* Two further invariants rest on it, for the action property on batches   *)
(* and the envelope of pages: SnapshotInv and BatchInv, at the end.        *)
(***************************************************************************)
EXTENDS MemoryStore, MemoryModel_proofs

-----------------------------------------------------------------------------
(* Lemmas about the data.                                                  *)

\* A memory that create_memory builds is a memory, and a new body a body.
LEMMA NewMemoryType ==
    ASSUME NEW id \in Nat \ {0}, NEW body \in NewBody, NEW now \in Nat
    PROVE  NewMemory(id, body, now) \in Memory
  BY DEF NewMemory, Memory, NewBody

\* Refreshing last_accessed_at leaves a memory, with the rest unchanged.
LEMMA AccessedType ==
    ASSUME NEW m \in Memory, NEW now \in Nat
    PROVE  /\ Accessed(m, now) \in Memory
           /\ Accessed(m, now).id = m.id
           /\ Accessed(m, now).body = m.body
           /\ Accessed(m, now).version = m.version
           /\ Accessed(m, now).updated_at = m.updated_at
  BY DEF Accessed, Memory

\* The constraints on a merged body leave a body.
LEMMA MergeType ==
    ASSUME NEW b \in Body, NEW p \in Patch, Storable(Merge(b, p))
    PROVE  Merge(b, p) \in Body
  <1> DEFINE c == Merge(b, p)
  <1>1. c.content \in Contents
    BY ModelAssumption DEF Merge, Pick, Storable, Body, Patch
  <1>2. c.tags \in TagLists \cup {Null}
    BY DEF Merge, Pick, Body, Patch
  <1>3. c.memory_type \in MemoryTypes
    BY ModelAssumption DEF Merge, Pick, Storable, Body, Patch
  <1>4. c.status \in Statuses
    BY ModelAssumption DEF Merge, Pick, Storable, Body, Patch
  <1>5. c = [content |-> c.content, tags |-> c.tags,
             memory_type |-> c.memory_type, status |-> c.status]
    BY DEF Merge
  <1> QED BY <1>1, <1>2, <1>3, <1>4, <1>5 DEF Body

\* Retiring a live body changes it.
LEMMA RetiredType ==
    ASSUME NEW b \in Body
    PROVE  /\ Retired(b) \in Body
           /\ b.status # "deleted" => Retired(b) # b
  BY DEF Retired, Body, Statuses

\* The row that the conditional UPDATE leaves behind.
LEMMA WrittenType ==
    ASSUME NEW row \in Memory, NEW m \in Memory, NEW r \in Request, NEW now \in Nat,
           r.kind \in {"update", "delete"},
           Storable(Written(m, m, r, now).body), row.body = m.body
    PROVE  /\ Written(row, m, r, now) \in Memory
           /\ Written(row, m, r, now).id = row.id
           /\ Written(row, m, r, now).body = Written(m, m, r, now).body
           /\ Written(row, m, r, now).version = m.version + 1
           /\ Written(row, m, r, now).updated_at = now
           /\ (Visible(m) /\ (r.kind = "update" => Changes(m.body, r.patch)))
                 => Written(row, m, r, now).body # m.body
  <1> DEFINE body == IF r.kind = "delete" THEN Retired(m.body) ELSE Merge(m.body, r.patch)
  <1>1. m.body \in Body /\ r.patch \in Patch /\ m.version \in Nat \ {0}
    BY DEF Memory, Request
  <1>2. Written(m, m, r, now).body = body
    BY DEF Written, Memory
  <1>3. body \in Body
    <2>1. CASE r.kind = "delete" BY <2>1, <1>1, RetiredType
    <2>2. CASE r.kind # "delete" BY <2>2, <1>1, <1>2, MergeType
    <2> QED BY <2>1, <2>2
  <1>4. Written(row, m, r, now) =
           [row EXCEPT !.body = body, !.updated_at = now, !.version = m.version + 1]
    BY DEF Written
  <1>5. /\ Written(row, m, r, now) \in Memory
        /\ Written(row, m, r, now).id = row.id
        /\ Written(row, m, r, now).body = body
        /\ Written(row, m, r, now).version = m.version + 1
        /\ Written(row, m, r, now).updated_at = now
    <2> DEFINE new == [row EXCEPT !.body = body, !.updated_at = now,
                                  !.version = m.version + 1]
    <2>1. m.version + 1 \in Nat \ {0}
      BY <1>1
    <2> HIDE DEF body
    <2>2. /\ new \in Memory /\ new.id = row.id /\ new.body = body
          /\ new.version = m.version + 1 /\ new.updated_at = now
      BY <2>1, <1>3 DEF Memory
    <2> QED BY <2>2, <1>4
  <1>6. ASSUME Visible(m), r.kind = "update" => Changes(m.body, r.patch)
        PROVE  body # m.body
    BY <1>1, <1>6, RetiredType DEF Visible, Changes
  <1> QED BY <1>2, <1>5, <1>6

-----------------------------------------------------------------------------
(* Lemmas about copies of memories and changes of the table.               *)

\* Nothing is a change, of any kind.
LEMMA ExtendsReflexive ==
    ASSUME NEW t \in Seq(Memory)
    PROVE  Contract!Extends(t, t) /\ Contract!Change(t, t)
  BY DEF Contract!Extends, Contract!Change

\* A copy that agrees with a table agrees with whatever the table changes into.
LEMMA AgreesKept ==
    ASSUME NEW t \in Seq(Memory), NEW u \in Seq(Memory), NEW m \in Memory,
           Agrees(m, t), Contract!Change(t, u)
    PROVE  /\ Agrees(m, u)
           /\ t[m.id].version <= u[m.id].version
  <1> DEFINE i == m.id
  <1>1. /\ i \in 1 .. Len(t) /\ t[i] \in Memory
        /\ DOMAIN u = 1 .. Len(u) /\ DOMAIN t = 1 .. Len(t)
    BY DEF Agrees
  <1>2. m.version \in Nat /\ t[i].version \in Nat
    BY <1>1 DEF Memory
  <1>3. CASE Contract!Extends(t, u)
    <2>1. i \in DOMAIN u /\ u[i] = t[i]
      BY <1>1, <1>3 DEF Contract!Extends
    <2> QED BY <2>1, <1>2 DEF Agrees
  <1>4. CASE Contract!Revises(t, u)
    <2>1. PICK k \in 1 .. Len(t) :
             /\ u[k] = Contract!Revised(t[k], u[k].body, u[k].updated_at)
             /\ \A j \in 1 .. Len(t) : j # k => u[j] = t[j]
      BY <1>4 DEF Contract!Revises
    <2>2. i \in DOMAIN u
      BY <1>1, <1>4 DEF Contract!Revises
    <2>3. CASE i # k
      BY <2>1, <2>2, <2>3, <1>1, <1>2 DEF Agrees
    <2>4. CASE i = k
      <3>1. u[i].version = t[i].version + 1
        BY <2>1, <2>4, <1>1 DEF Contract!Revised, Memory
      <3> QED BY <3>1, <2>2, <1>2 DEF Agrees
    <2> QED BY <2>3, <2>4
  <1>5. CASE Contract!Accesses(t, u)
    <2>1. i \in DOMAIN u
          /\ u[i] \in {t[i], Contract!Accessed(t[i], u[i].last_accessed_at)}
      BY <1>1, <1>5 DEF Contract!Accesses
    <2>2. /\ u[i].version = t[i].version
          /\ u[i].body = t[i].body
          /\ u[i].updated_at = t[i].updated_at
      BY <2>1, <1>1 DEF Contract!Accessed, Memory
    <2> QED BY <2>1, <2>2, <1>2 DEF Agrees
  <1> QED BY <1>3, <1>4, <1>5 DEF Contract!Change

\* INSERT: the table with one more memory still extends what it extended.
LEMMA InsertExtends ==
    ASSUME NEW t \in Seq(Memory), NEW u \in Seq(Memory), NEW body \in NewBody,
           NEW now \in Nat, Contract!Extends(t, u)
    PROVE  LET v == Append(u, NewMemory(Len(u) + 1, body, now))
           IN  v \in Seq(Memory) /\ Contract!Extends(t, v)
  <1> DEFINE new == NewMemory(Len(u) + 1, body, now)
             v == Append(u, new)
  <1>1. new \in Memory
    BY NewMemoryType
  <1>2. new.body = body /\ new.created_at = now
    BY DEF NewMemory
  <1>3. new = Contract!NewMemory(Len(u) + 1, body, now)
    BY DEF NewMemory, Contract!NewMemory
  <1>4. body \in Contract!NewBody
    BY DEF NewBody, Body, TagLists, Statuses,
           Contract!NewBody, Contract!Body, Contract!TagLists, Contract!Statuses
  <1> HIDE DEF new
  <1>5. /\ v \in Seq(Memory) /\ Len(v) = Len(u) + 1
        /\ \A i \in 1 .. Len(u) : v[i] = u[i]
        /\ v[Len(u) + 1] = new
    BY <1>1
  <1>6. Len(t) <= Len(v) /\ \A i \in 1 .. Len(t) : v[i] = t[i]
    BY <1>5 DEF Contract!Extends
  <1>7. ASSUME NEW i \in Len(t) + 1 .. Len(v)
        PROVE  /\ v[i].body \in Contract!NewBody
               /\ v[i] = Contract!NewMemory(i, v[i].body, v[i].created_at)
    <2>1. CASE i \in Len(t) + 1 .. Len(u)
      BY <2>1, <1>5 DEF Contract!Extends
    <2>2. CASE i = Len(u) + 1
      BY <2>2, <1>2, <1>3, <1>4, <1>5
    <2> QED BY <2>1, <2>2, <1>5
  <1> HIDE DEF v
  <1>8. v \in Seq(Memory) /\ Contract!Extends(t, v)
    BY <1>5, <1>6, <1>7 DEF Contract!Extends
  <1> QED BY <1>8 DEF new, v

\* UPDATE ... SET last_accessed_at: an access of the touched rows.
LEMMA TouchAccesses ==
    ASSUME NEW t \in Seq(Memory), NEW ids, NEW now \in Nat
    PROVE  LET v == Touched(t, ids, now)
           IN  /\ v \in Seq(Memory) /\ Len(v) = Len(t)
               /\ Contract!Accesses(t, v) /\ Contract!Change(t, v)
               /\ \A i \in DOMAIN t : /\ v[i].id = t[i].id
                                      /\ v[i].version = t[i].version
                                      /\ v[i].body = t[i].body
                                      /\ v[i].updated_at = t[i].updated_at
  <1> DEFINE v == Touched(t, ids, now)
  <1>1. \A i \in DOMAIN t : v[i] = IF i \in ids THEN Accessed(t[i], now) ELSE t[i]
    BY DEF Touched
  <1>2. ASSUME NEW i \in DOMAIN t
        PROVE  /\ v[i] \in Memory /\ v[i].id = t[i].id
               /\ v[i].version = t[i].version /\ v[i].body = t[i].body
               /\ v[i].updated_at = t[i].updated_at
               /\ v[i] \in {t[i], Contract!Accessed(t[i], v[i].last_accessed_at)}
               /\ v[i] # t[i] => v[i].last_accessed_at = now
    <2>1. t[i] \in Memory
      OBVIOUS
    <2>2. CASE i \in ids
      <3>1. v[i] = Accessed(t[i], now) BY <1>1, <2>2
      <3> HIDE DEF v
      <3>2. v[i].last_accessed_at = now
        BY <2>1, <3>1 DEF Accessed, Memory
      <3>3. v[i] = Contract!Accessed(t[i], v[i].last_accessed_at)
        BY <3>1, <3>2 DEF Accessed, Contract!Accessed
      <3>4. /\ v[i] \in Memory /\ v[i].id = t[i].id
            /\ v[i].version = t[i].version /\ v[i].body = t[i].body
            /\ v[i].updated_at = t[i].updated_at
        BY <2>1, <3>1, AccessedType
      <3> QED BY <3>2, <3>3, <3>4
    <2>3. CASE i \notin ids
      <3>1. v[i] = t[i] BY <1>1, <2>3
      <3> QED BY <2>1, <3>1
    <2> QED BY <2>2, <2>3
  <1>3. v \in Seq(Memory) /\ Len(v) = Len(t)
    <2>1. v \in [1 .. Len(t) -> Memory]
      BY <1>2 DEF Touched
    <2> HIDE DEF v
    <2> QED BY <2>1
  <1> HIDE DEF v
  <1>4. Contract!Accesses(t, v)
    BY <1>2, <1>3 DEF Contract!Accesses
  <1>5. Contract!Change(t, v)
    BY <1>4 DEF Contract!Change
  <1> QED BY <1>2, <1>3, <1>4, <1>5 DEF v

\* The conditional UPDATE: a revision of the one row it matched.
LEMMA WriteRevises ==
    ASSUME NEW t \in Seq(Memory), NEW m \in Memory, NEW r \in Request, NEW now \in Nat,
           r.kind \in {"update", "delete"},
           Visible(m), r.kind = "update" => Changes(m.body, r.patch),
           Agrees(m, t), Unmoved(t, m), m.updated_at <= now,
           Storable(Written(m, m, r, now).body)
    PROVE  LET answer == Written(m, m, r, now)
               v == Overwritten(t, m, r, now)
           IN  /\ answer \in Memory
               /\ v \in Seq(Memory) /\ Len(v) = Len(t)
               /\ Contract!Revises(t, v) /\ Contract!Change(t, v)
               /\ \A i \in DOMAIN t :
                     v[i].id = t[i].id /\ v[i].updated_at \in {now, t[i].updated_at}
               /\ Agrees(answer, v)
  <1> DEFINE answer == Written(m, m, r, now)
             new == Written(t[m.id], m, r, now)
             v == [t EXCEPT ![m.id] = new]
  <1>1. /\ m.id \in DOMAIN t /\ t[m.id] \in Memory
        /\ t[m.id].version = m.version /\ t[m.id].body = m.body
        /\ t[m.id].updated_at = m.updated_at
    BY DEF Agrees, Unmoved
  <1>2. /\ new \in Memory /\ new.id = t[m.id].id /\ new.body = answer.body
        /\ new.version = m.version + 1 /\ new.updated_at = now
        /\ new.body # m.body
    BY <1>1, WrittenType
  <1>3. /\ answer \in Memory /\ answer.id = m.id
        /\ answer.version = m.version + 1 /\ answer.updated_at = now
    BY WrittenType
  <1>4. new = Contract!Revised(t[m.id], new.body, now)
    BY <1>1 DEF Written, Contract!Revised, Memory
  <1>5. Contract!Visible(t[m.id])
    BY <1>1 DEF Visible, Contract!Visible
  <1>6. new.body \in Contract!Body
    BY <1>2 DEF Memory, Body, TagLists, Statuses,
                Contract!Body, Contract!TagLists, Contract!Statuses
  <1> HIDE DEF answer, new
  <1>7. /\ v \in Seq(Memory) /\ Len(v) = Len(t) /\ v[m.id] = new
        /\ \A i \in DOMAIN t : i # m.id => v[i] = t[i]
    BY <1>1, <1>2
  <1> HIDE DEF v
  <1>8. m.updated_at \in Nat /\ DOMAIN t = 1 .. Len(t) /\ DOMAIN v = 1 .. Len(v)
    BY <1>7 DEF Memory
  <1>9. Contract!Revises(t, v)
    BY <1>1, <1>2, <1>4, <1>5, <1>6, <1>7, <1>8 DEF Contract!Revises
  <1>10. Contract!Change(t, v)
    BY <1>9 DEF Contract!Change
  <1>11. \A i \in DOMAIN t :
            v[i].id = t[i].id /\ v[i].updated_at \in {now, t[i].updated_at}
    BY <1>2, <1>7
  <1>12. Agrees(answer, v)
    BY <1>1, <1>2, <1>3, <1>7, <1>8 DEF Agrees, Memory
  <1> QED BY <1>3, <1>7, <1>9, <1>10, <1>11, <1>12 DEF answer, new, v, Overwritten

-----------------------------------------------------------------------------
(* The inductive invariant.                                                *)

Writing == {"commit", "publish", "conflict", "constraint"}

\* Who holds which lock follows from where everybody is.
LockInv ==
    /\ readers = {v \in Workers : pc[v] = "page"}
    /\ writer = NoWorker => staged = rows /\ ~pending
    /\ \A v \in Workers :
          /\ pc[v] = "publish" <=> pending /\ writer = v
          /\ pc[v] \in Writing => writer = v
          /\ writer = v => \/ pc[v] \in Writing
                           \/ /\ pc[v] \in {"stamp", "write"}
                              /\ Creates(req[v]) /\ cursor[v] <= Len(req[v].bodies)

\* Where a request can be depends on its kind; it has no outcome until it ends.
FlowInv ==
    \A v \in Workers :
       /\ Active(v) => code[v] = "none"
       /\ pc[v] \in {"count", "page"} =>
             Pages(req[v]) /\ cursor[v] <= Len(req[v].queries)
       /\ pc[v] = "fetch" => req[v].kind \in {"get", "update", "delete"}
       /\ pc[v] \in {"conflict", "constraint"} => req[v].kind \in {"update", "delete"}
       /\ pc[v] = "write" /\ Creates(req[v]) => cursor[v] <= Len(req[v].bodies)

\* Row i has id i and no timestamp of the future; an open transaction is a change
\* of the committed table, and an INSERT's an extension of it.
TableInv ==
    /\ \A i \in DOMAIN rows : rows[i].id = i /\ rows[i].updated_at <= clock
    /\ \A i \in DOMAIN staged : staged[i].id = i /\ staged[i].updated_at <= clock
    /\ Contract!Change(rows, staged)
    /\ \A v \in Workers : writer = v /\ Creates(req[v]) => Contract!Extends(rows, staged)

\* What a worker has read agrees with the committed table.
SeenInv ==
    \A v \in Workers : \A m \in seen[v] : Agrees(m, rows) /\ m.updated_at <= clock

\* What it will answer agrees with the table of its own transaction, if it has one.
KeptInv ==
    \A v \in Workers : \A m \in kept[v] : Agrees(m, IF writer = v THEN staged ELSE rows)

\* The timestamp it is about to write is not older than what it read.
StampInv ==
    \A v \in Workers : pc[v] = "write" =>
        stamp[v] <= clock /\ \A m \in seen[v] : m.updated_at <= stamp[v]

\* What it is about to revise is one memory that was live, and will be different.
IntentInv ==
    \A v \in Workers :
        pc[v] \in {"stamp", "write"} /\ req[v].kind \in {"update", "delete"} =>
            \A m \in seen[v] :
               /\ Visible(m)
               /\ req[v].kind = "update" => Changes(m.body, req[v].patch)
               /\ \A n \in seen[v] : n = m

\* A worker that has lost, or just found that it has, read an old version.
LossInv ==
    \A v \in Workers : (pc[v] = "conflict" \/ code[v] = "conflict") =>
        \A m \in seen[v] : rows[m.id].version > m.version

IInv == /\ TypeOK /\ LockInv /\ FlowInv /\ TableInv
        /\ SeenInv /\ KeptInv /\ StampInv /\ IntentInv /\ LossInv

-----------------------------------------------------------------------------
(* Facts about requests, used in every step.                               *)
LEMMA RequestType ==
    ASSUME NEW r \in Requests
    PROVE  /\ r \in Request /\ WellFormed(r)
           /\ r.kind \in Kinds /\ r.patch \in Patch
           /\ r.bodies \in Seq(NewBody) /\ r.queries \in Seq(Query)
  BY StoreAssumption DEF Request

\* A page, and the matches it is taken from, are rows of the table.
LEMMA PageType ==
    ASSUME NEW t \in Seq(Memory), NEW q
    PROVE  /\ Page(t, q) \subseteq {t[i] : i \in DOMAIN t}
           /\ Page(t, q) \subseteq Memory
           /\ Cardinality(Matching(t, q)) \in Nat
  <1>1. Matching(t, q) \subseteq {t[i] : i \in DOMAIN t}
    BY DEF Matching
  <1>2. {t[i] : i \in DOMAIN t} \subseteq Memory
    OBVIOUS
  <1>3. IsFiniteSet(1 .. Len(t))
    BY FS_Interval
  <1>4. IsFiniteSet({t[i] : i \in DOMAIN t})
    <2>1. DOMAIN t = 1 .. Len(t)
      OBVIOUS
    <2>2. t \in Surjection(1 .. Len(t), {t[i] : i \in DOMAIN t})
      <3>1. t \in [1 .. Len(t) -> {t[i] : i \in DOMAIN t}]
        BY <2>1
      <3> QED BY <3>1, <2>1 DEF Surjection
    <2> QED BY <2>2, <1>3, FS_Surjection
  <1>5. Cardinality(Matching(t, q)) \in Nat
    BY <1>1, <1>4, FS_Subset, FS_CardinalityType
  <1>6. Page(t, q) \subseteq Matching(t, q)
    BY DEF Page
  <1> QED BY <1>1, <1>2, <1>5, <1>6

\* The invariant holds at the start: one seed, nobody active, no lock held.
LEMMA InitInvariant == Init => IInv
  <1> SUFFICES ASSUME Init PROVE IInv
    OBVIOUS
  <1> USE DEF Init
  <1>1. rows \in Seq(Memory) /\ IsSeed(rows) /\ \A i \in DOMAIN rows : rows[i].updated_at <= 1
    BY StoreAssumption
  <1>2. req \in [Workers -> Requests]
    <2>1. (CHOOSE r \in Requests : TRUE) \in Requests
      BY StoreAssumption
    <2> QED BY <2>1
  <1>3. TypeOK
    <2>1. /\ staged \in Seq(Memory) /\ writer \in Workers \cup {NoWorker}
          /\ readers \subseteq Workers
          /\ clock \in Nat \ {0} /\ issued \in 0 .. MaxRequests
      BY <1>1, StoreAssumption
    <2>5. pending \in BOOLEAN
      OBVIOUS
    <2>2. pc \in [Workers -> PCs] /\ code \in [Workers -> Codes]
      BY DEF PCs, Codes
    <2>3. /\ cursor \in [Workers -> Nat \ {0}]
          /\ total \in [Workers -> Nat] /\ stamp \in [Workers -> Nat]
      OBVIOUS
    <2>4. seen \in [Workers -> SUBSET Memory] /\ kept \in [Workers -> SUBSET Memory]
      OBVIOUS
    <2> QED BY <1>1, <1>2, <2>1, <2>2, <2>3, <2>4, <2>5 DEF TypeOK
  <1>4. LockInv
    BY <1>1, StoreAssumption DEF LockInv, Writing
  <1>5. FlowInv
    BY DEF FlowInv, Active
  <1>6. TableInv
    BY <1>1, StoreAssumption, ExtendsReflexive DEF TableInv, IsSeed
  <1>7. SeenInv /\ KeptInv /\ StampInv /\ IntentInv
    BY DEF SeenInv, KeptInv, StampInv, IntentInv
  <1>8. LossInv
    BY DEF LossInv
  <1> QED BY <1>3, <1>4, <1>5, <1>6, <1>7, <1>8 DEF IInv

\* Every step keeps the discipline of the locks.
LEMMA LockStep == IInv /\ [Next]_vars => LockInv'
  <1> SUFFICES ASSUME IInv, [Next]_vars PROVE LockInv'
    OBVIOUS
  <1>0. /\ LockInv /\ FlowInv
        /\ pc \in [Workers -> PCs] /\ req \in [Workers -> Requests]
        /\ cursor \in [Workers -> Nat \ {0}] /\ NoWorker \notin Workers
        /\ writer \in Workers \cup {NoWorker} /\ pending \in BOOLEAN
        /\ \A v \in Workers : req[v].bodies \in Seq(NewBody)
    BY StoreAssumption, RequestType DEF IInv, TypeOK
  <1>1. ASSUME NEW w \in Workers, NEW r \in Requests, Submit(w, r) PROVE LockInv'
    BY <1>0, <1>1 DEF LockInv, FlowInv, Writing, PCs, Creates, Pages, Active, Submit,
       Entry, Goto, store, locks
  <1>2. ASSUME NEW w \in Workers, FetchMiss(w) PROVE LockInv'
    BY <1>0, <1>2 DEF LockInv, FlowInv, Writing, PCs, Creates, Pages, Active, FetchMiss,
       Fetch, CanRead, Reply, Goto, store, locks
  <1>3. ASSUME NEW w \in Workers, FetchForRead(w) PROVE LockInv'
    BY <1>0, <1>3 DEF LockInv, FlowInv, Writing, PCs, Creates, Pages, Active,
       FetchForRead, Fetch, CanRead, Goto, store, locks
  <1>4. ASSUME NEW w \in Workers, FetchForWrite(w) PROVE LockInv'
    BY <1>0, <1>4 DEF LockInv, FlowInv, Writing, PCs, Creates, Pages, Active,
       FetchForWrite, Fetch, CanRead, Reply, Goto, store, locks
  <1>5. ASSUME NEW w \in Workers, Stamp(w) PROVE LockInv'
    BY <1>0, <1>5 DEF LockInv, FlowInv, Writing, PCs, Creates, Pages, Active, Stamp, Goto,
       store, locks
  <1>6. ASSUME NEW w \in Workers, EmptyBatch(w) PROVE LockInv'
    BY <1>0, <1>6 DEF LockInv, FlowInv, Writing, PCs, Creates, Pages, Active, EmptyBatch,
       Reply, Goto, store, locks
  <1>7. ASSUME NEW w \in Workers, Insert(w) PROVE LockInv'
    BY <1>0, <1>7 DEF LockInv, FlowInv, Writing, PCs, Creates, Pages, Active, Insert,
       Acquire, CanWrite, Goto, store, locks
  <1>8. ASSUME NEW w \in Workers, Touch(w) PROVE LockInv'
    BY <1>0, <1>8 DEF LockInv, FlowInv, Writing, PCs, Creates, Pages, Active, Touch,
       Acquire, CanWrite, Goto, store, locks
  <1>9. ASSUME NEW w \in Workers, Write(w) PROVE LockInv'
    BY <1>0, <1>9 DEF LockInv, FlowInv, Writing, PCs, Creates, Pages, Active, Write,
       Acquire, CanWrite, Goto, store, locks
  <1>10. ASSUME NEW w \in Workers, Conflict(w) PROVE LockInv'
    BY <1>0, <1>10 DEF LockInv, FlowInv, Writing, PCs, Creates, Pages, Active, Conflict,
       Abandon, Reply, Goto, store, locks
  <1>11. ASSUME NEW w \in Workers, Constraint(w) PROVE LockInv'
    BY <1>0, <1>11 DEF LockInv, FlowInv, Writing, PCs, Creates, Pages, Active, Constraint,
       Abandon, Reply, Goto, store, locks
  <1>12. ASSUME NEW w \in Workers, BeginCommit(w) PROVE LockInv'
    BY <1>0, <1>12 DEF LockInv, FlowInv, Writing, PCs, Creates, Pages, Active,
       BeginCommit, Goto, store, locks
  <1>13. ASSUME NEW w \in Workers, Publish(w) PROVE LockInv'
    BY <1>0, <1>13 DEF LockInv, FlowInv, Writing, PCs, Creates, Pages, Active, Publish,
       Advance, Reply, Goto, store, locks
  <1>14. ASSUME NEW w \in Workers, BeginPage(w) PROVE LockInv'
    BY <1>0, <1>14 DEF LockInv, FlowInv, Writing, PCs, Creates, Pages, Active, BeginPage,
       CanRead, Goto, store, locks
  <1>15. ASSUME NEW w \in Workers, ReadPage(w) PROVE LockInv'
    BY <1>0, <1>15 DEF LockInv, FlowInv, Writing, PCs, Creates, Pages, Active, ReadPage,
       Advance, Reply, Goto, store, locks
  <1>16. ASSUME NEW w \in Workers, Timeout(w) PROVE LockInv'
    BY <1>0, <1>16 DEF LockInv, FlowInv, Writing, PCs, Creates, Pages, Active, Timeout,
       Abandon, Reply, Goto, store, locks
  <1>17. ASSUME NEW P \in Processes, Crash(P) PROVE LockInv'
    BY <1>0, <1>17 DEF LockInv, FlowInv, Writing, PCs, Creates, Pages, Active, Crash, Abandon
  <1>18. CASE UNCHANGED vars
    BY <1>0, <1>18 DEF LockInv, FlowInv, Writing, PCs, Creates, Pages, Active, vars,
       store, locks
  <1> QED
    BY <1>1, <1>2, <1>3, <1>4, <1>5, <1>6, <1>7, <1>8, <1>9, <1>10, <1>11, <1>12, <1>13,
       <1>14, <1>15, <1>16, <1>17, <1>18
    DEF Next, Step, Terminating


\* Every step keeps a request inside its own handler.
LEMMA FlowStep == IInv /\ [Next]_vars => FlowInv'
  <1> SUFFICES ASSUME IInv, [Next]_vars PROVE FlowInv'
    OBVIOUS
  <1>0. /\ LockInv /\ FlowInv
        /\ pc \in [Workers -> PCs] /\ req \in [Workers -> Requests]
        /\ cursor \in [Workers -> Nat \ {0}] /\ code \in [Workers -> Codes]
        /\ \A v \in Workers : /\ req[v].bodies \in Seq(NewBody)
                               /\ req[v].queries \in Seq(Query)
        /\ \A r \in Requests : WellFormed(r) /\ r.kind \in Kinds
    BY RequestType DEF IInv, TypeOK
  <1>1. ASSUME NEW w \in Workers, NEW r \in Requests, Submit(w, r) PROVE FlowInv'
    <2>1. /\ pc' = [pc EXCEPT ![w] = Entry(r)] /\ req' = [req EXCEPT ![w] = r]
          /\ cursor' = [cursor EXCEPT ![w] = 1] /\ code' = [code EXCEPT ![w] = "none"]
      BY <1>1 DEF Submit, Goto
    <2>2. /\ Entry(r) \in {"stamp", "count", "fetch"}
          /\ Entry(r) = "count" => Pages(r) /\ 1 <= Len(r.queries)
          /\ Entry(r) = "fetch" => r.kind \in {"get", "update", "delete"}
      <3>1. WellFormed(r) /\ r.kind \in Kinds
        BY <1>0
      <3>2. CASE Creates(r)
        <4>1. ~Pages(r) BY <3>2 DEF Creates, Pages
        <4>2. Entry(r) = "stamp" BY <4>1, <3>2 DEF Entry
        <4> QED BY <4>2
      <3>3. CASE Pages(r)
        <4>1. ~Creates(r) BY <3>3 DEF Creates, Pages
        <4>2. Entry(r) = "count" BY <4>1, <3>3 DEF Entry
        <4>3. 1 <= Len(r.queries)
          <5>1. Len(r.queries) = 1 \/ Len(r.queries) = 2
            BY <3>1, <3>3 DEF WellFormed, Pages
          <5> QED BY <5>1
        <4> QED BY <4>2, <4>3, <3>3
      <3>4. CASE ~Creates(r) /\ ~Pages(r)
        BY <3>1, <3>4 DEF Entry, Pages, Creates, Kinds
      <3> QED BY <3>2, <3>3, <3>4
    <2> QED BY <1>0, <2>1, <2>2 DEF FlowInv, Active, Pages, Creates
  <1>2. ASSUME NEW w \in Workers, FetchMiss(w) PROVE FlowInv'
    BY <1>0, <1>2 DEF FlowInv, WellFormed, Kinds, PCs, Creates, Pages, Active, FetchMiss,
       Fetch, CanRead, Reply, Goto, store, locks
  <1>3. ASSUME NEW w \in Workers, FetchForRead(w) PROVE FlowInv'
    BY <1>0, <1>3 DEF FlowInv, WellFormed, Kinds, PCs, Creates, Pages, Active,
       FetchForRead, Fetch, CanRead, Goto, store, locks
  <1>4. ASSUME NEW w \in Workers, FetchForWrite(w) PROVE FlowInv'
    BY <1>0, <1>4 DEF FlowInv, WellFormed, Kinds, PCs, Creates, Pages, Active,
       FetchForWrite, Fetch, CanRead, Reply, Goto, store, locks
  <1>5. ASSUME NEW w \in Workers, Stamp(w) PROVE FlowInv'
    BY <1>0, <1>5 DEF FlowInv, WellFormed, Kinds, PCs, Creates, Pages, Active, Stamp,
       Goto, store, locks
  <1>6. ASSUME NEW w \in Workers, EmptyBatch(w) PROVE FlowInv'
    BY <1>0, <1>6 DEF FlowInv, WellFormed, Kinds, PCs, Creates, Pages, Active, EmptyBatch,
       Reply, Goto, store, locks
  <1>7. ASSUME NEW w \in Workers, Insert(w) PROVE FlowInv'
    BY <1>0, <1>7 DEF FlowInv, WellFormed, Kinds, PCs, Creates, Pages, Active, Insert,
       Acquire, CanWrite, Goto, store, locks
  <1>8. ASSUME NEW w \in Workers, Touch(w) PROVE FlowInv'
    BY <1>0, <1>8 DEF FlowInv, WellFormed, Kinds, PCs, Creates, Pages, Active, Touch,
       Acquire, CanWrite, Goto, store, locks
  <1>9. ASSUME NEW w \in Workers, Write(w) PROVE FlowInv'
    BY <1>0, <1>9 DEF FlowInv, WellFormed, Kinds, PCs, Creates, Pages, Active, Write,
       Acquire, CanWrite, Goto, store, locks
  <1>10. ASSUME NEW w \in Workers, Conflict(w) PROVE FlowInv'
    BY <1>0, <1>10 DEF FlowInv, WellFormed, Kinds, PCs, Creates, Pages, Active, Conflict,
       Abandon, Reply, Goto, store, locks
  <1>11. ASSUME NEW w \in Workers, Constraint(w) PROVE FlowInv'
    BY <1>0, <1>11 DEF FlowInv, WellFormed, Kinds, PCs, Creates, Pages, Active,
       Constraint, Abandon, Reply, Goto, store, locks
  <1>12. ASSUME NEW w \in Workers, BeginCommit(w) PROVE FlowInv'
    BY <1>0, <1>12 DEF FlowInv, WellFormed, Kinds, PCs, Creates, Pages, Active,
       BeginCommit, Goto, store, locks
  <1>13. ASSUME NEW w \in Workers, Publish(w) PROVE FlowInv'
    BY <1>0, <1>13 DEF FlowInv, WellFormed, Kinds, PCs, Creates, Pages, Active, Publish,
       Advance, Reply, Goto, store, locks
  <1>14. ASSUME NEW w \in Workers, BeginPage(w) PROVE FlowInv'
    BY <1>0, <1>14 DEF FlowInv, WellFormed, Kinds, PCs, Creates, Pages, Active, BeginPage,
       CanRead, Goto, store, locks
  <1>15. ASSUME NEW w \in Workers, ReadPage(w) PROVE FlowInv'
    BY <1>0, <1>15 DEF FlowInv, WellFormed, Kinds, PCs, Creates, Pages, Active, ReadPage,
       Advance, Reply, Goto, store, locks
  <1>16. ASSUME NEW w \in Workers, Timeout(w) PROVE FlowInv'
    BY <1>0, <1>16 DEF FlowInv, WellFormed, Kinds, PCs, Creates, Pages, Active, Timeout,
       Abandon, Reply, Goto, store, locks
  <1>17. ASSUME NEW P \in Processes, Crash(P) PROVE FlowInv'
    BY <1>0, <1>17 DEF FlowInv, WellFormed, Kinds, PCs, Creates, Pages, Active, Crash, Abandon
  <1>18. CASE UNCHANGED vars
    BY <1>0, <1>18 DEF FlowInv, WellFormed, Kinds, PCs, Creates, Pages, Active, vars,
       store, locks
  <1> QED
    BY <1>1, <1>2, <1>3, <1>4, <1>5, <1>6, <1>7, <1>8, <1>9, <1>10, <1>11, <1>12, <1>13,
       <1>14, <1>15, <1>16, <1>17, <1>18
    DEF Next, Step, Terminating



\* What the conditional UPDATE does when it matches, from the invariant.
LEMMA WriteFacts ==
    ASSUME IInv, NEW w \in Workers, Write(w), NEW m \in seen[w],
           Unmoved(staged, m), Storable(Written(m, m, req[w], stamp[w]).body)
    PROVE  LET answer == Written(m, m, req[w], stamp[w])
               v == Overwritten(staged, m, req[w], stamp[w])
           IN  /\ staged = rows /\ m \in Memory /\ answer \in Memory
               /\ v \in Seq(Memory) /\ Len(v) = Len(rows)
               /\ Contract!Change(rows, v)
               /\ \A i \in DOMAIN v : v[i].id = i /\ v[i].updated_at <= clock
               /\ Agrees(answer, v)
  <1>1. /\ pc[w] = "write" /\ writer \in {NoWorker, w}
        /\ req[w].kind \in {"update", "delete"} /\ req[w] \in Request
        /\ m \in Memory /\ stamp[w] \in Nat /\ rows \in Seq(Memory) /\ clock \in Nat
    BY RequestType DEF Write, Acquire, CanWrite, IInv, TypeOK
  <1>2. staged = rows
    BY <1>1 DEF IInv, LockInv, Writing, Creates
  <1>3. /\ Visible(m) /\ (req[w].kind = "update" => Changes(m.body, req[w].patch))
        /\ Agrees(m, rows) /\ m.updated_at <= stamp[w] /\ stamp[w] <= clock
    BY <1>1 DEF IInv, SeenInv, StampInv, IntentInv
  <1>4. \A i \in DOMAIN rows : rows[i].id = i /\ rows[i].updated_at <= clock
    BY DEF IInv, TableInv
  <1> DEFINE answer == Written(m, m, req[w], stamp[w])
             v == Overwritten(rows, m, req[w], stamp[w])
  <1>5. /\ answer \in Memory /\ v \in Seq(Memory) /\ Len(v) = Len(rows)
        /\ Contract!Change(rows, v) /\ Agrees(answer, v)
        /\ \A i \in DOMAIN rows :
              v[i].id = rows[i].id /\ v[i].updated_at \in {stamp[w], rows[i].updated_at}
    BY <1>1, <1>2, <1>3, WriteRevises
  <1> HIDE DEF v, answer
  <1>6. \A i \in DOMAIN v : v[i].id = i /\ v[i].updated_at <= clock
    BY <1>1, <1>3, <1>4, <1>5
  <1> QED BY <1>1, <1>2, <1>5, <1>6 DEF v, answer

\* Ending a request, and going on to its next page, keep the types.
LEMMA ReplyType ==
    ASSUME TypeOK, NEW w \in Workers, NEW outcome \in Codes,
           NEW memories \in SUBSET Memory, Reply(w, outcome, memories)
    PROVE  /\ pc' \in [Workers -> PCs] /\ code' \in [Workers -> Codes]
           /\ kept' \in [Workers -> SUBSET Memory]
  <1>1. "idle" \in PCs
    BY DEF PCs
  <1> QED BY <1>1 DEF TypeOK, Reply, Goto

\* Going on to the next statement, or ending the request, keeps these types.
LEMMA AdvanceType ==
    ASSUME TypeOK, NEW w \in Workers, Advance(w)
    PROVE  /\ pc' \in [Workers -> PCs] /\ code' \in [Workers -> Codes]
           /\ kept' \in [Workers -> SUBSET Memory]
           /\ cursor' \in [Workers -> Nat \ {0}]
           /\ seen' \in [Workers -> SUBSET Memory]
  <1>1. CASE Pages(req[w]) /\ cursor[w] < Len(req[w].queries)
    <2>1. "count" \in PCs
      BY DEF PCs
    <2>2. /\ pc' = [pc EXCEPT ![w] = "count"] /\ UNCHANGED code /\ UNCHANGED kept
          /\ cursor' = [cursor EXCEPT ![w] = cursor[w] + 1]
          /\ seen' = [seen EXCEPT ![w] = {}]
      BY <1>1 DEF Advance, Goto
    <2> QED BY <2>1, <2>2 DEF TypeOK
  <1>2. CASE ~(Pages(req[w]) /\ cursor[w] < Len(req[w].queries))
    <2>1. "ok" \in Codes /\ kept[w] \in SUBSET Memory
      BY DEF Codes, TypeOK
    <2>2. Reply(w, "ok", kept[w]) /\ UNCHANGED cursor /\ UNCHANGED seen
      BY <1>2 DEF Advance
    <2> QED BY <2>1, <2>2, ReplyType DEF TypeOK
  <1> QED BY <1>1, <1>2

\* Every step keeps the types.
LEMMA TypeStep == IInv /\ [Next]_vars => TypeOK'
  <1> SUFFICES ASSUME IInv, [Next]_vars PROVE TypeOK'
    OBVIOUS
  <1>0. TypeOK /\ FlowInv /\ \A r \in Requests : r \in Request
    BY RequestType DEF IInv
  <1>t. /\ {"idle", "stamp", "write", "conflict", "constraint", "commit", "publish",
            "count", "page", "fetch"} \subseteq PCs
        /\ {"none", "ok", "not_found", "conflict", "failed", "lost"} \subseteq Codes
    BY DEF PCs, Codes
  <1>1. ASSUME NEW w \in Workers, NEW r \in Requests, Submit(w, r) PROVE TypeOK'
    <2>1. Entry(r) \in PCs
      <3>1. r.kind \in Kinds BY <1>0 DEF Request
      <3>2. Entry(r) \in {"stamp", "count", "fetch"}
        BY <3>1 DEF Entry, Creates, Pages, Kinds
      <3> QED BY <3>2, <1>t
    <2>2. issued' \in 0 .. MaxRequests
      BY <1>0, <1>t, <1>1, StoreAssumption DEF TypeOK, Submit
    <2>3. UNCHANGED <<rows, staged, writer, pending, readers, clock>>
      BY <1>1 DEF Submit, store, locks
    <2>4. /\ pc' \in [Workers -> PCs] /\ code' \in [Workers -> Codes]
          /\ req' \in [Workers -> Requests]
      BY <1>0, <1>t, <1>1, <2>1 DEF TypeOK, Submit, Goto
    <2>5. /\ cursor' \in [Workers -> Nat \ {0}] /\ seen' \in [Workers -> SUBSET Memory]
          /\ kept' \in [Workers -> SUBSET Memory]
          /\ total' \in [Workers -> Nat] /\ stamp' \in [Workers -> Nat]
      BY <1>0, <1>1 DEF TypeOK, Submit
    <2>6. pending' \in BOOLEAN
      BY <1>0, <2>3 DEF TypeOK
    <2> QED BY <1>0, <2>2, <2>3, <2>4, <2>5, <2>6 DEF TypeOK
  <1>2. ASSUME NEW w \in Workers, FetchMiss(w) PROVE TypeOK'
    <2>1. Live(req[w].id) \subseteq Memory
      BY <1>0 DEF Live, TypeOK
    <2> QED BY <1>0, <1>t, <1>2, <2>1 DEF TypeOK, FetchMiss, Fetch, CanRead, Reply, Goto,
               store, locks
  <1>3. ASSUME NEW w \in Workers, FetchForRead(w) PROVE TypeOK'
    <2>1. Live(req[w].id) \subseteq Memory
      BY <1>0 DEF Live, TypeOK
    <2> QED BY <1>0, <1>t, <1>3, <2>1 DEF TypeOK, FetchForRead, Fetch, CanRead, Goto,
               store, locks
  <1>4. ASSUME NEW w \in Workers, FetchForWrite(w) PROVE TypeOK'
    <2>1. Live(req[w].id) \subseteq Memory
      BY <1>0 DEF Live, TypeOK
    <2>2. /\ pc' \in [Workers -> PCs] /\ code' \in [Workers -> Codes]
          /\ kept' \in [Workers -> SUBSET Memory]
      <3>1. PICK m \in Live(req[w].id) :
               \/ Reply(w, "failed", {})
               \/ Reply(w, "ok", {m})
               \/ Goto(w, "stamp") /\ UNCHANGED <<kept, code>>
        BY <1>4 DEF FetchForWrite
      <3>2. {m} \in SUBSET Memory
        BY <2>1
      <3>3. CASE Reply(w, "failed", {})
        BY <1>0, <1>t, <3>3, ReplyType
      <3>4. CASE Reply(w, "ok", {m})
        BY <1>0, <1>t, <3>2, <3>4, ReplyType
      <3>5. CASE Goto(w, "stamp") /\ UNCHANGED <<kept, code>>
        BY <1>0, <1>t, <3>5 DEF TypeOK, Goto
      <3> QED BY <3>1, <3>3, <3>4, <3>5
    <2> QED BY <1>0, <1>4, <2>1, <2>2 DEF TypeOK, FetchForWrite, Fetch, store, locks
  <1>5. ASSUME NEW w \in Workers, Stamp(w) PROVE TypeOK'
    BY <1>0, <1>t, <1>5 DEF TypeOK, Active, Stamp, Goto, store, locks
  <1>6. ASSUME NEW w \in Workers, EmptyBatch(w) PROVE TypeOK'
    BY <1>0, <1>t, <1>6 DEF TypeOK, Active, EmptyBatch, Reply, Goto, store, locks
  <1>7. ASSUME NEW w \in Workers, Insert(w) PROVE TypeOK'
    <2> DEFINE new == NewMemory(Len(staged) + 1, req[w].bodies[cursor[w]], stamp[w])
    <2>1. req[w].bodies[cursor[w]] \in NewBody
      <3>1. req[w].bodies \in Seq(NewBody) /\ cursor[w] \in 1 .. Len(req[w].bodies)
        BY <1>0, <1>t, <1>7, RequestType DEF Insert, Acquire, FlowInv, TypeOK
      <3> QED BY <3>1
    <2>2. new \in Memory
      <3>1. Len(staged) + 1 \in Nat \ {0} /\ stamp[w] \in Nat
        BY <1>0 DEF TypeOK
      <3> QED BY <2>1, <3>1, NewMemoryType
    <2>3. staged' = Append(staged, new)
      BY <1>7 DEF Insert
    <2>4. kept' = [kept EXCEPT ![w] = @ \cup {new}]
      BY <1>7 DEF Insert
    <2> HIDE DEF new
    <2> QED BY <1>0, <1>t, <1>7, <2>2, <2>3, <2>4 DEF TypeOK, Insert, Acquire, Goto
  <1>8. ASSUME NEW w \in Workers, Touch(w) PROVE TypeOK'
    <2>1. staged' \in Seq(Memory)
      BY <1>0, <1>t, <1>8, TouchAccesses DEF Touch, TypeOK
    <2>2. \A m \in seen[w] : Accessed(m, stamp[w]) \in Memory
      BY <1>0, AccessedType DEF TypeOK
    <2>3. kept' \in [Workers -> SUBSET Memory]
      BY <1>0, <1>t, <1>8, <2>2 DEF Touch, TypeOK
    <2> QED BY <1>0, <1>t, <1>8, <2>1, <2>3 DEF TypeOK, Touch, Acquire, Goto
  <1>9. ASSUME NEW w \in Workers, Write(w) PROVE TypeOK'
    <2>1. PICK m \in seen[w] :
             \/ UNCHANGED <<staged, kept>> /\ (Goto(w, "conflict") \/ Goto(w, "constraint"))
             \/ /\ Unmoved(staged, m) /\ Storable(Written(m, m, req[w], stamp[w]).body)
                /\ Goto(w, "commit")
                /\ staged' = Overwritten(staged, m, req[w], stamp[w])
                /\ kept' = [kept EXCEPT ![w] = {Written(m, m, req[w], stamp[w])}]
      BY <1>9 DEF Write
    <2>2. staged' \in Seq(Memory) /\ kept' \in [Workers -> SUBSET Memory]
      <3>1. CASE UNCHANGED <<staged, kept>>
        BY <1>0, <3>1 DEF TypeOK
      <3>2. CASE ~UNCHANGED <<staged, kept>>
        <4>1. Unmoved(staged, m) /\ Storable(Written(m, m, req[w], stamp[w]).body)
          BY <2>1, <3>2
        <4>2. /\ Overwritten(staged, m, req[w], stamp[w]) \in Seq(Memory)
              /\ Written(m, m, req[w], stamp[w]) \in Memory
          BY <1>9, <4>1, WriteFacts
        <4> QED BY <1>0, <2>1, <3>2, <4>2 DEF TypeOK
      <3> QED BY <3>1, <3>2
    <2>3. pc' \in [Workers -> PCs]
      BY <1>0, <1>t, <2>1 DEF TypeOK, Goto
    <2> QED BY <1>0, <1>t, <1>9, <2>2, <2>3 DEF TypeOK, Write, Acquire
  <1>10. ASSUME NEW w \in Workers, Conflict(w) PROVE TypeOK'
    BY <1>0, <1>t, <1>10 DEF TypeOK, Active, Conflict, Abandon, Reply, Goto, store, locks
  <1>11. ASSUME NEW w \in Workers, Constraint(w) PROVE TypeOK'
    BY <1>0, <1>t, <1>11 DEF TypeOK, Active, Constraint, Abandon, Reply, Goto, store, locks
  <1>12. ASSUME NEW w \in Workers, BeginCommit(w) PROVE TypeOK'
    BY <1>0, <1>t, <1>12 DEF TypeOK, Active, BeginCommit, Goto, store, locks
  <1>13. ASSUME NEW w \in Workers, Publish(w) PROVE TypeOK'
    <2>1. CASE Reply(w, "failed", {}) /\ UNCHANGED <<cursor, seen>>
      <3>1. /\ pc' \in [Workers -> PCs] /\ code' \in [Workers -> Codes]
            /\ kept' \in [Workers -> SUBSET Memory]
        BY <1>0, <1>t, <2>1, ReplyType
      <3>2. UNCHANGED cursor /\ UNCHANGED seen
        BY <2>1
      <3> QED BY <1>0, <1>13, <3>1, <3>2 DEF TypeOK, Publish
    <2>2. CASE Advance(w)
      BY <1>0, <1>13, <2>2, AdvanceType DEF TypeOK, Publish
    <2> QED BY <1>13, <2>1, <2>2 DEF Publish
  <1>14. ASSUME NEW w \in Workers, BeginPage(w) PROVE TypeOK'
    <2>1. total' \in [Workers -> Nat]
      BY <1>0, <1>t, <1>14, PageType DEF TypeOK, BeginPage
    <2> QED BY <1>0, <1>t, <1>14, <2>1 DEF TypeOK, BeginPage, Goto
  <1>15. ASSUME NEW w \in Workers, ReadPage(w) PROVE TypeOK'
    <2>1. Page(rows, CurrentQuery(w)) \subseteq Memory
      BY <1>0, PageType DEF TypeOK
    <2> DEFINE page == Page(rows, CurrentQuery(w))
    <2>2. CASE /\ Reply(w, "failed", {}) /\ seen' = [seen EXCEPT ![w] = page]
               /\ UNCHANGED cursor
      BY <1>0, <1>15, <1>t, <2>1, <2>2, ReplyType DEF TypeOK, ReadPage
    <2>3. CASE /\ Goto(w, "stamp") /\ seen' = [seen EXCEPT ![w] = page]
               /\ UNCHANGED <<cursor, kept, code>>
      BY <1>0, <1>15, <1>t, <2>1, <2>3 DEF TypeOK, ReadPage, Goto
    <2>4. CASE Advance(w)
      BY <1>0, <1>15, <2>4, AdvanceType DEF TypeOK, ReadPage
    <2> QED BY <1>15, <2>2, <2>3, <2>4 DEF ReadPage
  <1>16. ASSUME NEW w \in Workers, Timeout(w) PROVE TypeOK'
    BY <1>0, <1>t, <1>16 DEF TypeOK, Active, Timeout, Abandon, Reply, Goto, store, locks
  <1>17. ASSUME NEW P \in Processes, Crash(P) PROVE TypeOK'
    BY <1>0, <1>t, <1>17 DEF TypeOK, Active, Crash, Abandon
  <1>18. CASE UNCHANGED vars
    BY <1>0, <1>t, <1>18 DEF TypeOK, Active, vars, store, locks
  <1> QED
    BY <1>1, <1>2, <1>3, <1>4, <1>5, <1>6, <1>7, <1>8, <1>9, <1>10, <1>11, <1>12, <1>13,
       <1>14, <1>15, <1>16, <1>17, <1>18
    DEF Next, Step, Terminating


\* Between two states the committed table stays, or becomes the table of the open
\* transaction; the clock does not go back.
LEMMA TableMoves ==
    IInv /\ [Next]_vars => /\ rows' = rows \/ (rows' = staged /\ staged' = staged)
                          /\ clock <= clock'
  <1> SUFFICES ASSUME IInv, [Next]_vars
               PROVE  /\ rows' = rows \/ (rows' = staged /\ staged' = staged)
                      /\ clock <= clock'
    OBVIOUS
  <1>1. clock \in Nat
    BY DEF IInv, TypeOK
  <1>2. CASE UNCHANGED vars
    BY <1>1, <1>2 DEF vars, store
  <1>3. ASSUME NEW w \in Workers, Step(w)
        PROVE  rows' = rows \/ (rows' = staged /\ staged' = staged)
    BY <1>3 DEF Step, FetchMiss, FetchForRead, FetchForWrite, Fetch, Stamp, EmptyBatch,
                Insert, Touch, Write, Acquire, Conflict, Constraint, BeginCommit, Publish,
                BeginPage, ReadPage, Timeout, Abandon, store
  <1>4. ASSUME NEW w \in Workers, Step(w) PROVE clock <= clock'
    BY <1>1, <1>4 DEF Step, FetchMiss, FetchForRead, FetchForWrite, Fetch, Stamp, EmptyBatch,
                Insert, Touch, Write, Acquire, Conflict, Constraint, BeginCommit, Publish,
                BeginPage, ReadPage, Timeout, Abandon
  <1>5. ASSUME NEW w \in Workers, NEW r \in Requests, Submit(w, r)
        PROVE  rows' = rows /\ clock <= clock'
    BY <1>1, <1>5 DEF Submit, store
  <1>6. ASSUME NEW P \in Processes, Crash(P) PROVE rows' = rows /\ clock <= clock'
    BY <1>1, <1>6 DEF Crash, Abandon
  <1> QED BY <1>2, <1>3, <1>4, <1>5, <1>6 DEF Next, Terminating

\* The committed table only ever changes as the contract allows.
LEMMA TableChanges == IInv /\ [Next]_vars => Contract!Change(rows, rows')
  <1> SUFFICES ASSUME IInv, [Next]_vars PROVE Contract!Change(rows, rows')
    OBVIOUS
  <1>1. rows \in Seq(Memory) /\ Contract!Change(rows, staged)
    BY DEF IInv, TypeOK, TableInv
  <1> QED BY <1>1, TableMoves, ExtendsReflexive

\* Every step keeps both tables in order.
LEMMA TableStep == IInv /\ [Next]_vars => TableInv'
  <1> SUFFICES ASSUME IInv, [Next]_vars PROVE TableInv'
    OBVIOUS
  <1>0. /\ TableInv /\ LockInv /\ NoWorker \notin Workers
        /\ rows \in Seq(Memory) /\ staged \in Seq(Memory) /\ clock \in Nat
        /\ clock <= clock' /\ clock' \in Nat
        /\ req \in [Workers -> Requests] /\ Processes \subseteq SUBSET Workers
        /\ Contract!Extends(rows, rows) /\ Contract!Change(rows, rows)
        /\ Contract!Extends(staged, staged) /\ Contract!Change(staged, staged)
        /\ \A i \in DOMAIN rows : rows[i] \in Memory /\ rows[i].updated_at \in Nat
        /\ \A i \in DOMAIN staged : staged[i] \in Memory /\ staged[i].updated_at \in Nat
    <2>1. /\ TableInv /\ LockInv /\ NoWorker \notin Workers /\ clock \in Nat
          /\ rows \in Seq(Memory) /\ staged \in Seq(Memory)
          /\ req \in [Workers -> Requests] /\ Processes \subseteq SUBSET Workers
      BY StoreAssumption DEF IInv, TypeOK
    <2>2. clock' \in Nat /\ clock <= clock'
      BY TypeStep, TableMoves DEF TypeOK
    <2>3. \A m \in Memory : m.updated_at \in Nat
      BY DEF Memory
    <2> QED BY <2>1, <2>2, <2>3, ExtendsReflexive
  <1>1. ASSUME NEW w \in Workers, NEW r \in Requests, Submit(w, r) PROVE TableInv'
    <2>1. writer # w
      BY <1>0, <1>1 DEF LockInv, Writing, Submit
    <2>2. UNCHANGED <<rows, staged, writer, clock>>
      BY <1>1 DEF Submit, store, locks
    <2>3. \A v \in Workers : v # w => req'[v] = req[v]
      BY <1>0, <1>1 DEF Submit
    <2> QED BY <1>0, <2>1, <2>2, <2>3 DEF TableInv
  <1>2. ASSUME NEW w \in Workers, FetchMiss(w) PROVE TableInv'
    BY <1>0, <1>2 DEF TableInv, Creates, FetchMiss, Fetch, CanRead, Reply, Goto, store, locks
  <1>3. ASSUME NEW w \in Workers, FetchForRead(w) PROVE TableInv'
    BY <1>0, <1>3 DEF TableInv, Creates, FetchForRead, Fetch, CanRead, Goto, store, locks
  <1>4. ASSUME NEW w \in Workers, FetchForWrite(w) PROVE TableInv'
    BY <1>0, <1>4 DEF TableInv, Creates, FetchForWrite, Fetch, CanRead, Reply, Goto,
       store, locks
  <1>5. ASSUME NEW w \in Workers, Stamp(w) PROVE TableInv'
    BY <1>0, <1>5 DEF TableInv, Creates, Stamp, Goto, store, locks
  <1>6. ASSUME NEW w \in Workers, EmptyBatch(w) PROVE TableInv'
    BY <1>0, <1>6 DEF TableInv, Creates, EmptyBatch, Reply, Goto, store, locks
  <1>7. ASSUME NEW w \in Workers, Insert(w) PROVE TableInv'
    <2> DEFINE body == req[w].bodies[cursor[w]]
               new == NewMemory(Len(staged) + 1, body, stamp[w])
    <2>1. body \in NewBody /\ stamp[w] \in Nat /\ stamp[w] <= clock
      <3>1. req[w].bodies \in Seq(NewBody) /\ cursor[w] \in 1 .. Len(req[w].bodies)
        BY <1>7, RequestType DEF Insert, Acquire, FlowInv, TypeOK, IInv
      <3>2. stamp[w] \in Nat /\ stamp[w] <= clock
        BY <1>7 DEF Insert, Acquire, IInv, TypeOK, StampInv
      <3> QED BY <3>1, <3>2
    <2>2. Contract!Extends(rows, staged)
      BY <1>0, <1>7 DEF TableInv, LockInv, Insert, Acquire, CanWrite
    <2>3. staged' = Append(staged, new) /\ writer' = w
      BY <1>7 DEF Insert, Acquire
    <2>4. Contract!Extends(rows, staged') /\ Contract!Change(rows, staged')
      BY <1>0, <2>1, <2>2, <2>3, InsertExtends DEF Contract!Change
    <2>5. new \in Memory /\ new.id = Len(staged) + 1 /\ new.updated_at = stamp[w]
      <3>1. Len(staged) + 1 \in Nat \ {0}
        BY <1>0
      <3>2. new \in Memory
        BY <3>1, <2>1, NewMemoryType
      <3> QED BY <3>2 DEF NewMemory
    <2> HIDE DEF new
    <2>6. \A i \in DOMAIN staged' : staged'[i].id = i /\ staged'[i].updated_at <= clock
      BY <1>0, <2>1, <2>3, <2>5 DEF TableInv
    <2>7. UNCHANGED <<rows, clock, req>>
      BY <1>7 DEF Insert, Acquire
    <2> QED BY <1>0, <2>3, <2>4, <2>6, <2>7 DEF TableInv
  <1>8. ASSUME NEW w \in Workers, Touch(w) PROVE TableInv'
    <2>1. staged = rows /\ ~Creates(req[w])
      BY <1>0, <1>8 DEF LockInv, Writing, Touch, Acquire, CanWrite, Pages, Creates
    <2>2. stamp[w] \in Nat
      BY DEF IInv, TypeOK
    <2>3. /\ staged' \in Seq(Memory) /\ Len(staged') = Len(staged)
          /\ Contract!Change(staged, staged')
          /\ \A i \in DOMAIN staged : /\ staged'[i].id = staged[i].id
                                     /\ staged'[i].updated_at = staged[i].updated_at
      BY <1>0, <2>2, <1>8, TouchAccesses DEF Touch
    <2>4. UNCHANGED <<rows, clock, req>> /\ writer' = w
      BY <1>8 DEF Touch, Acquire
    <2> QED BY <1>0, <2>1, <2>3, <2>4 DEF TableInv
  <1>9. ASSUME NEW w \in Workers, Write(w) PROVE TableInv'
    <2>1. UNCHANGED <<rows, clock, req>> /\ writer' = w /\ ~Creates(req[w])
      BY <1>9 DEF Write, Acquire, Creates
    <2>2. CASE staged' = staged
      BY <1>0, <2>1, <2>2 DEF TableInv
    <2>3. CASE staged' # staged
      <3>1. PICK m \in seen[w] :
               /\ Unmoved(staged, m) /\ Storable(Written(m, m, req[w], stamp[w]).body)
               /\ staged' = Overwritten(staged, m, req[w], stamp[w])
        BY <2>3, <1>9 DEF Write
      <3>2. /\ Contract!Change(rows, staged')
            /\ \A i \in DOMAIN staged' : staged'[i].id = i /\ staged'[i].updated_at <= clock
        BY <3>1, <1>9, WriteFacts
      <3> QED BY <1>0, <2>1, <3>2 DEF TableInv
    <2> QED BY <2>2, <2>3
  <1>10. ASSUME NEW w \in Workers, Conflict(w) PROVE TableInv'
    BY <1>0, <1>10 DEF TableInv, Conflict, Abandon
  <1>11. ASSUME NEW w \in Workers, Constraint(w) PROVE TableInv'
    BY <1>0, <1>11 DEF TableInv, Constraint, Abandon
  <1>12. ASSUME NEW w \in Workers, BeginCommit(w) PROVE TableInv'
    BY <1>0, <1>12 DEF TableInv, Creates, BeginCommit, Goto, store, locks
  <1>13. ASSUME NEW w \in Workers, Publish(w) PROVE TableInv'
    BY <1>0, <1>13 DEF TableInv, Creates, Publish, Advance, Reply, Goto, store, locks
  <1>14. ASSUME NEW w \in Workers, BeginPage(w) PROVE TableInv'
    BY <1>0, <1>14 DEF TableInv, Creates, BeginPage, CanRead, Goto, store, locks
  <1>15. ASSUME NEW w \in Workers, ReadPage(w) PROVE TableInv'
    BY <1>0, <1>15 DEF TableInv, Creates, ReadPage, Advance, Reply, Goto, store, locks
  <1>16. ASSUME NEW w \in Workers, Timeout(w) PROVE TableInv'
    BY <1>0, <1>16 DEF TableInv, Timeout, Abandon
  <1>17. ASSUME NEW P \in Processes, Crash(P) PROVE TableInv'
    BY <1>0, <1>17 DEF TableInv, Crash, Abandon
  <1>18. CASE UNCHANGED vars
    BY <1>0, <1>18 DEF TableInv, Creates, vars, store, locks
  <1> QED
    BY <1>1, <1>2, <1>3, <1>4, <1>5, <1>6, <1>7, <1>8, <1>9, <1>10, <1>11, <1>12, <1>13,
       <1>14, <1>15, <1>16, <1>17, <1>18
    DEF Next, Step, Terminating


\* Every step keeps what was read in agreement with the committed table.
LEMMA SeenStep == IInv /\ [Next]_vars => SeenInv'
  <1> SUFFICES ASSUME IInv, [Next]_vars PROVE SeenInv'
    OBVIOUS
  <1>0. /\ rows \in Seq(Memory) /\ seen \in [Workers -> SUBSET Memory]
        /\ \A i \in DOMAIN rows : Agrees(rows[i], rows) /\ rows[i].updated_at <= clock
        /\ \A v \in Workers : \A m \in seen[v] :
              Agrees(m, rows') /\ m.updated_at <= clock'
    <2>1. /\ rows \in Seq(Memory) /\ seen \in [Workers -> SUBSET Memory] /\ clock \in Nat
          /\ SeenInv /\ TableInv
      BY DEF IInv, TypeOK
    <2>2. \A m \in Memory : m.updated_at \in Nat /\ m.version \in Nat
      BY DEF Memory
    <2>3. rows' \in Seq(Memory) /\ clock' \in Nat
      BY TypeStep DEF TypeOK
    <2>4. \A i \in DOMAIN rows : Agrees(rows[i], rows) /\ rows[i].updated_at <= clock
      BY <2>1, <2>2 DEF TableInv, Agrees
    <2>5. ASSUME NEW v \in Workers, NEW m \in seen[v]
          PROVE  Agrees(m, rows') /\ m.updated_at <= clock'
      <3>1. m \in Memory /\ Agrees(m, rows) /\ m.updated_at <= clock
        BY <2>1 DEF SeenInv
      <3>2. Agrees(m, rows')
        BY <2>1, <2>3, <3>1, AgreesKept, TableChanges
      <3> QED BY <2>1, <2>2, <2>3, <3>1, <3>2, TableMoves
    <2> QED BY <2>1, <2>4, <2>5
  <1>1. ASSUME NEW w \in Workers, NEW r \in Requests, Submit(w, r) PROVE SeenInv'
    BY <1>0, <1>1 DEF SeenInv, Submit
  <1>2. ASSUME NEW w \in Workers, FetchMiss(w) PROVE SeenInv'
    <2>1. UNCHANGED <<rows, clock>> /\ seen' = [seen EXCEPT ![w] = Live(req[w].id)]
      BY <1>2 DEF FetchMiss, Fetch, store
    <2>2. \A m \in Live(req[w].id) : \E i \in DOMAIN rows : m = rows[i]
      BY DEF Live
    <2> QED BY <1>0, <2>1, <2>2 DEF SeenInv
  <1>3. ASSUME NEW w \in Workers, FetchForRead(w) PROVE SeenInv'
    <2>1. UNCHANGED <<rows, clock>> /\ seen' = [seen EXCEPT ![w] = Live(req[w].id)]
      BY <1>3 DEF FetchForRead, Fetch, store
    <2>2. \A m \in Live(req[w].id) : \E i \in DOMAIN rows : m = rows[i]
      BY DEF Live
    <2> QED BY <1>0, <2>1, <2>2 DEF SeenInv
  <1>4. ASSUME NEW w \in Workers, FetchForWrite(w) PROVE SeenInv'
    <2>1. UNCHANGED <<rows, clock>> /\ seen' = [seen EXCEPT ![w] = Live(req[w].id)]
      BY <1>4 DEF FetchForWrite, Fetch, store
    <2>2. \A m \in Live(req[w].id) : \E i \in DOMAIN rows : m = rows[i]
      BY DEF Live
    <2> QED BY <1>0, <2>1, <2>2 DEF SeenInv
  <1>5. ASSUME NEW w \in Workers, Stamp(w) PROVE SeenInv'
    BY <1>0, <1>5 DEF SeenInv, Stamp, Acquire
  <1>6. ASSUME NEW w \in Workers, EmptyBatch(w) PROVE SeenInv'
    BY <1>0, <1>6 DEF SeenInv, EmptyBatch, Acquire
  <1>7. ASSUME NEW w \in Workers, Insert(w) PROVE SeenInv'
    BY <1>0, <1>7 DEF SeenInv, Insert, Acquire
  <1>8. ASSUME NEW w \in Workers, Touch(w) PROVE SeenInv'
    BY <1>0, <1>8 DEF SeenInv, Touch, Acquire
  <1>9. ASSUME NEW w \in Workers, Write(w) PROVE SeenInv'
    BY <1>0, <1>9 DEF SeenInv, Write, Acquire
  <1>10. ASSUME NEW w \in Workers, Conflict(w) PROVE SeenInv'
    BY <1>0, <1>10 DEF SeenInv, Conflict, Acquire
  <1>11. ASSUME NEW w \in Workers, Constraint(w) PROVE SeenInv'
    BY <1>0, <1>11 DEF SeenInv, Constraint, Acquire
  <1>12. ASSUME NEW w \in Workers, BeginCommit(w) PROVE SeenInv'
    BY <1>0, <1>12 DEF SeenInv, BeginCommit, Acquire
  <1>13. ASSUME NEW w \in Workers, Publish(w) PROVE SeenInv'
    <2>1. seen' = [seen EXCEPT ![w] = {}] \/ seen' = seen
      BY <1>13 DEF Publish, Advance
    <2> QED BY <1>0, <2>1 DEF SeenInv
  <1>14. ASSUME NEW w \in Workers, BeginPage(w) PROVE SeenInv'
    BY <1>0, <1>14 DEF SeenInv, BeginPage, Acquire
  <1>15. ASSUME NEW w \in Workers, ReadPage(w) PROVE SeenInv'
    <2>1. UNCHANGED <<rows, clock>>
      BY <1>15 DEF ReadPage
    <2>2. \A m \in Page(rows, CurrentQuery(w)) : \E i \in DOMAIN rows : m = rows[i]
      BY <1>0, PageType
    <2>3. \/ seen' = [seen EXCEPT ![w] = Page(rows, CurrentQuery(w))]
          \/ seen' = [seen EXCEPT ![w] = {}]
          \/ seen' = seen
      BY <1>15 DEF ReadPage, Advance
    <2> QED BY <1>0, <2>1, <2>2, <2>3 DEF SeenInv
  <1>16. ASSUME NEW w \in Workers, Timeout(w) PROVE SeenInv'
    BY <1>0, <1>16 DEF SeenInv, Timeout, Acquire
  <1>17. ASSUME NEW P \in Processes, Crash(P) PROVE SeenInv'
    BY <1>0, <1>17 DEF SeenInv, Crash
  <1>18. CASE UNCHANGED vars
    BY <1>0, <1>18 DEF SeenInv, vars
  <1> QED
    BY <1>1, <1>2, <1>3, <1>4, <1>5, <1>6, <1>7, <1>8, <1>9, <1>10, <1>11, <1>12, <1>13,
       <1>14, <1>15, <1>16, <1>17, <1>18
    DEF Next, Step, Terminating

\* Every step keeps what will be answered in agreement with the transaction.
LEMMA KeptStep == IInv /\ [Next]_vars => KeptInv'
  <1> SUFFICES ASSUME IInv, [Next]_vars PROVE KeptInv'
    OBVIOUS
  <1>0. /\ LockInv /\ FlowInv /\ NoWorker \notin Workers /\ kept \in [Workers -> SUBSET Memory]
        /\ \A v \in Workers : \A m \in kept[v] : writer # v => Agrees(m, rows')
        /\ \A v \in Workers : \A m \in kept[v] : writer = v => Agrees(m, staged)
        /\ \A m \in Memory : m.version \in Nat
    <2>1. /\ LockInv /\ FlowInv /\ KeptInv /\ NoWorker \notin Workers
          /\ rows \in Seq(Memory) /\ kept \in [Workers -> SUBSET Memory]
      BY StoreAssumption DEF IInv, TypeOK
    <2>2. rows' \in Seq(Memory)
      BY TypeStep DEF TypeOK
    <2>3. ASSUME NEW v \in Workers, NEW m \in kept[v], writer # v PROVE Agrees(m, rows')
      <3>1. m \in Memory /\ Agrees(m, rows)
        BY <2>1, <2>3 DEF KeptInv
      <3> QED BY <2>1, <2>2, <3>1, AgreesKept, TableChanges
    <2>4. \A m \in Memory : m.version \in Nat
      BY DEF Memory
    <2> QED BY <2>1, <2>3, <2>4 DEF KeptInv
  <1>1. ASSUME NEW w \in Workers, NEW r \in Requests, Submit(w, r) PROVE KeptInv'
    <2>1. UNCHANGED <<rows, staged, writer>> /\ kept' = [kept EXCEPT ![w] = {}]
      BY <1>1 DEF Submit, Reply, Fetch, store, locks
    <2> QED BY <1>0, <2>1 DEF KeptInv
  <1>2. ASSUME NEW w \in Workers, FetchMiss(w) PROVE KeptInv'
    <2>1. UNCHANGED <<rows, staged, writer>> /\ kept' = [kept EXCEPT ![w] = {}]
      BY <1>2 DEF FetchMiss, Reply, Fetch, store, locks
    <2> QED BY <1>0, <2>1 DEF KeptInv
  <1>3. ASSUME NEW w \in Workers, FetchForRead(w) PROVE KeptInv'
    <2>1. UNCHANGED <<rows, staged, writer, kept>>
      BY <1>3 DEF FetchForRead, store, locks, Fetch
    <2> QED BY <1>0, <2>1 DEF KeptInv
  <1>4. ASSUME NEW w \in Workers, FetchForWrite(w) PROVE KeptInv'
    <2>1. writer # w
      BY <1>0, <1>4 DEF LockInv, Writing, FetchForWrite, Fetch
    <2>2. UNCHANGED <<rows, staged, writer>>
      BY <1>4 DEF FetchForWrite, Fetch, store, locks
    <2>3. PICK m \in Live(req[w].id) :
             \/ kept' = [kept EXCEPT ![w] = {}]
             \/ kept' = [kept EXCEPT ![w] = {m}]
             \/ kept' = kept
      BY <1>4 DEF FetchForWrite, Reply
    <2>4. Agrees(m, rows)
      <3>1. PICK i \in DOMAIN rows : m = rows[i]
        BY DEF Live
      <3>2. m \in Memory /\ m.id = i
        BY <3>1 DEF IInv, TypeOK, TableInv
      <3> QED BY <1>0, <3>1, <3>2 DEF Agrees
    <2> QED BY <1>0, <2>1, <2>2, <2>3, <2>4 DEF KeptInv
  <1>5. ASSUME NEW w \in Workers, Stamp(w) PROVE KeptInv'
    <2>1. UNCHANGED <<rows, staged, writer, kept>>
      BY <1>5 DEF Stamp, store, locks, Fetch
    <2> QED BY <1>0, <2>1 DEF KeptInv
  <1>6. ASSUME NEW w \in Workers, EmptyBatch(w) PROVE KeptInv'
    <2>1. UNCHANGED <<rows, staged, writer>> /\ kept' = [kept EXCEPT ![w] = {}]
      BY <1>6 DEF EmptyBatch, Reply, Fetch, store, locks
    <2> QED BY <1>0, <2>1 DEF KeptInv
  <1>7. ASSUME NEW w \in Workers, Insert(w) PROVE KeptInv'
    <2> DEFINE new == NewMemory(Len(staged) + 1, req[w].bodies[cursor[w]], stamp[w])
    <2>1. /\ staged' = Append(staged, new) /\ kept' = [kept EXCEPT ![w] = kept[w] \cup {new}]
          /\ writer' = w /\ rows' = rows /\ writer \in {NoWorker, w}
      BY <1>7 DEF Insert, Acquire, CanWrite
    <2>2. staged \in Seq(Memory) /\ staged' \in Seq(Memory) /\ new.id = Len(staged) + 1
      BY TypeStep DEF IInv, TypeOK, NewMemory
    <2>3. new \in kept'[w] /\ kept'[w] \subseteq Memory
      BY <1>0, <2>1, TypeStep DEF TypeOK
    <2> HIDE DEF new
    <2>4. /\ DOMAIN staged = 1 .. Len(staged) /\ DOMAIN staged' = 1 .. Len(staged) + 1
          /\ \A i \in DOMAIN staged : staged'[i] = staged[i]
          /\ staged'[Len(staged) + 1] = new
      BY <2>1, <2>2, <2>3
    <2>5. Agrees(new, staged')
      BY <1>0, <2>2, <2>3, <2>4 DEF Agrees
    <2>6. ASSUME NEW m \in kept[w] PROVE Agrees(m, staged')
      <3>1. Agrees(m, staged)
        BY <1>0, <2>1 DEF LockInv
      <3> QED BY <2>4, <3>1 DEF Agrees
    <2> QED BY <1>0, <2>1, <2>5, <2>6 DEF KeptInv
  <1>8. ASSUME NEW w \in Workers, Touch(w) PROVE KeptInv'
    <2>1. staged = rows
      BY <1>0, <1>8 DEF LockInv, Writing, Touch, Acquire, CanWrite, Pages, Creates
    <2>2. /\ kept' = [kept EXCEPT ![w] = kept[w] \cup {Accessed(m, stamp[w]) : m \in seen[w]}]
          /\ staged' = Touched(staged, {m.id : m \in seen[w]}, stamp[w])
          /\ writer' = w /\ rows' = rows /\ writer \in {NoWorker, w}
      BY <1>8 DEF Touch, Acquire, CanWrite
    <2>3. staged \in Seq(Memory) /\ stamp[w] \in Nat /\ seen[w] \subseteq Memory
      BY DEF IInv, TypeOK
    <2>4. staged' \in Seq(Memory) /\ Contract!Change(staged, staged')
      BY <2>2, <2>3, TouchAccesses
    <2>5. ASSUME NEW m \in kept[w] PROVE Agrees(m, staged')
      <3>1. Agrees(m, staged) /\ m \in Memory
        BY <1>0, <2>1, <2>2
      <3> QED BY <2>3, <2>4, <3>1, AgreesKept
    <2>6. ASSUME NEW m \in seen[w] PROVE Agrees(Accessed(m, stamp[w]), staged')
      <3>1. Agrees(m, staged) /\ m \in Memory
        BY <2>1, <2>3 DEF IInv, SeenInv
      <3>2. Agrees(m, staged')
        BY <2>3, <2>4, <3>1, AgreesKept
      <3> QED BY <2>3, <3>1, <3>2, AccessedType DEF Agrees
    <2> QED BY <1>0, <2>2, <2>5, <2>6 DEF KeptInv
  <1>9. ASSUME NEW w \in Workers, Write(w) PROVE KeptInv'
    <2>1. staged = rows
      BY <1>0, <1>9 DEF LockInv, Writing, Write, Acquire, CanWrite, Creates
    <2>2. writer' = w /\ rows' = rows /\ writer \in {NoWorker, w}
      BY <1>9 DEF Write, Acquire, CanWrite
    <2>3. CASE UNCHANGED staged /\ UNCHANGED kept
      BY <1>0, <2>1, <2>2, <2>3 DEF KeptInv
    <2>4. CASE ~(UNCHANGED staged /\ UNCHANGED kept)
      <3>1. PICK m \in seen[w] :
               /\ Unmoved(staged, m) /\ Storable(Written(m, m, req[w], stamp[w]).body)
               /\ staged' = Overwritten(staged, m, req[w], stamp[w])
               /\ kept' = [kept EXCEPT ![w] = {Written(m, m, req[w], stamp[w])}]
        BY <2>4, <1>9 DEF Write
      <3>2. Agrees(Written(m, m, req[w], stamp[w]), staged')
        BY <3>1, <1>9, WriteFacts
      <3> QED BY <1>0, <2>2, <3>1, <3>2 DEF KeptInv
    <2> QED BY <2>3, <2>4
  <1>10. ASSUME NEW w \in Workers, Conflict(w) PROVE KeptInv'
    <2>1. rows' = rows /\ kept' = [kept EXCEPT ![w] = {}]
      BY <1>10 DEF Conflict, Abandon, Reply
    <2>2. \/ writer = w /\ writer' = NoWorker
          \/ writer # w /\ UNCHANGED <<writer, staged>>
      BY <1>10 DEF Conflict, Abandon
    <2> QED BY <1>0, <2>1, <2>2 DEF KeptInv
  <1>11. ASSUME NEW w \in Workers, Constraint(w) PROVE KeptInv'
    <2>1. rows' = rows /\ kept' = [kept EXCEPT ![w] = {}]
      BY <1>11 DEF Constraint, Abandon, Reply
    <2>2. \/ writer = w /\ writer' = NoWorker
          \/ writer # w /\ UNCHANGED <<writer, staged>>
      BY <1>11 DEF Constraint, Abandon
    <2> QED BY <1>0, <2>1, <2>2 DEF KeptInv
  <1>12. ASSUME NEW w \in Workers, BeginCommit(w) PROVE KeptInv'
    <2>1. UNCHANGED <<rows, staged, writer, kept>>
      BY <1>12 DEF BeginCommit, store, locks, Fetch
    <2> QED BY <1>0, <2>1 DEF KeptInv
  <1>13. ASSUME NEW w \in Workers, Publish(w) PROVE KeptInv'
    <2>1. writer = w
      BY <1>0, <1>13 DEF LockInv, Publish
    <2>2. rows' = staged /\ writer' = NoWorker
      BY <1>13 DEF Publish
    <2>3. kept' = kept \/ kept' = [kept EXCEPT ![w] = {}] \/ kept' = [kept EXCEPT ![w] = kept[w]]
      BY <1>13 DEF Publish, Advance, Reply
    <2> QED BY <1>0, <2>1, <2>2, <2>3 DEF KeptInv
  <1>14. ASSUME NEW w \in Workers, BeginPage(w) PROVE KeptInv'
    <2>1. UNCHANGED <<rows, staged, writer, kept>>
      BY <1>14 DEF BeginPage, store, locks, Fetch
    <2> QED BY <1>0, <2>1 DEF KeptInv
  <1>15. ASSUME NEW w \in Workers, ReadPage(w) PROVE KeptInv'
    <2>1. UNCHANGED <<rows, staged, writer>>
      BY <1>15 DEF ReadPage
    <2>2. kept' = kept \/ kept' = [kept EXCEPT ![w] = {}] \/ kept' = [kept EXCEPT ![w] = kept[w]]
      BY <1>15 DEF ReadPage, Advance, Reply
    <2> QED BY <1>0, <2>1, <2>2 DEF KeptInv
  <1>16. ASSUME NEW w \in Workers, Timeout(w) PROVE KeptInv'
    <2>1. rows' = rows /\ kept' = [kept EXCEPT ![w] = {}]
      BY <1>16 DEF Timeout, Abandon, Reply
    <2>2. \/ writer = w /\ writer' = NoWorker
          \/ writer # w /\ UNCHANGED <<writer, staged>>
      BY <1>16 DEF Timeout, Abandon
    <2> QED BY <1>0, <2>1, <2>2 DEF KeptInv
  <1>17. ASSUME NEW P \in Processes, Crash(P) PROVE KeptInv'
    <2>1. \/ writer \in P /\ writer' = NoWorker
          \/ writer \notin P /\ UNCHANGED <<writer, staged>>
      BY <1>17 DEF Crash, Abandon
    <2>2. rows' = rows /\ \A v \in Workers : kept'[v] = {} \/ kept'[v] = kept[v]
      BY <1>17 DEF Crash, Abandon
    <2>3. \A v \in Workers : v \in P /\ writer = v => kept'[v] = {}
      BY <1>0, <1>17 DEF Crash, LockInv, Writing, Active
    <2> QED BY <1>0, <2>1, <2>2, <2>3 DEF KeptInv
  <1>18. CASE UNCHANGED vars
    <2>1. UNCHANGED <<rows, staged, writer, kept>>
      BY <1>18 DEF vars, store, locks, Fetch
    <2> QED BY <1>0, <2>1 DEF KeptInv
  <1> QED
    BY <1>1, <1>2, <1>3, <1>4, <1>5, <1>6, <1>7, <1>8, <1>9, <1>10, <1>11, <1>12, <1>13,
       <1>14, <1>15, <1>16, <1>17, <1>18
    DEF Next, Step, Terminating


\* Every step keeps timestamps at least as late as what was read before them.
LEMMA StampStep == IInv /\ [Next]_vars => StampInv'
  <1> SUFFICES ASSUME IInv, [Next]_vars PROVE StampInv'
    OBVIOUS
  <1>0. /\ StampInv /\ SeenInv /\ clock \in Nat /\ clock' \in Nat /\ clock <= clock'
        /\ pc \in [Workers -> PCs] /\ stamp \in [Workers -> Nat]
        /\ seen \in [Workers -> SUBSET Memory]
        /\ \A m \in Memory : m.updated_at \in Nat
    BY TypeStep, TableMoves DEF IInv, TypeOK, Memory
  <1>m. \A v \in Workers :
           (pc'[v] = "write" => pc[v] = "write") /\ stamp'[v] = stamp[v]
              /\ (seen'[v] = seen[v] \/ pc'[v] # "write")
           => (pc'[v] = "write" =>
                 stamp'[v] <= clock' /\ \A m \in seen'[v] : m.updated_at <= stamp'[v])
    BY <1>0 DEF StampInv
  <1>1. ASSUME NEW w \in Workers, NEW r \in Requests, Submit(w, r) PROVE StampInv'
    <2>1. /\ \A v \in Workers \ {w} : pc'[v] = pc[v] /\ seen'[v] = seen[v] /\ stamp'[v] = stamp[v]
          /\ pc'[w] = Entry(r)
      BY <1>0, <1>1 DEF Submit, Goto
    <2>2. Entry(r) # "write"
      <3>1. r.kind \in Kinds
        BY RequestType
      <3> QED BY <3>1 DEF Entry, Creates, Pages, Kinds
    <2> QED BY <1>m, <2>1, <2>2 DEF StampInv
  <1>2. ASSUME NEW w \in Workers, FetchMiss(w) PROVE StampInv'
    <2>1. stamp' = stamp /\ (\A v \in Workers \ {w} : pc'[v] = pc[v] /\ seen'[v] = seen[v])
          /\ pc'[w] # "write"
      BY <1>0, <1>2 DEF FetchMiss, Fetch, CanRead, Reply, Goto
    <2> QED BY <1>m, <2>1 DEF StampInv
  <1>3. ASSUME NEW w \in Workers, FetchForRead(w) PROVE StampInv'
    <2>1. stamp' = stamp /\ (\A v \in Workers \ {w} : pc'[v] = pc[v] /\ seen'[v] = seen[v])
          /\ pc'[w] # "write"
      BY <1>0, <1>3 DEF FetchForRead, Fetch, CanRead, Goto
    <2> QED BY <1>m, <2>1 DEF StampInv
  <1>4. ASSUME NEW w \in Workers, FetchForWrite(w) PROVE StampInv'
    <2>1. stamp' = stamp /\ (\A v \in Workers \ {w} : pc'[v] = pc[v] /\ seen'[v] = seen[v])
          /\ pc'[w] # "write"
      BY <1>0, <1>4 DEF FetchForWrite, Fetch, CanRead, Reply, Goto
    <2> QED BY <1>m, <2>1 DEF StampInv
  <1>5. ASSUME NEW w \in Workers, Stamp(w) PROVE StampInv'
    <2>1. /\ stamp' = [stamp EXCEPT ![w] = clock'] /\ seen' = seen
          /\ pc' = [pc EXCEPT ![w] = "write"]
      BY <1>5 DEF Stamp, Goto
    <2>2. \A m \in seen[w] : m.updated_at <= clock'
      BY <1>0 DEF SeenInv
    <2> QED BY <1>0, <1>m, <2>1, <2>2 DEF StampInv
  <1>6. ASSUME NEW w \in Workers, EmptyBatch(w) PROVE StampInv'
    <2>1. stamp' = stamp /\ (\A v \in Workers \ {w} : pc'[v] = pc[v] /\ seen'[v] = seen[v])
          /\ pc'[w] # "write"
      BY <1>0, <1>6 DEF EmptyBatch, Reply, Goto
    <2> QED BY <1>m, <2>1 DEF StampInv
  <1>7. ASSUME NEW w \in Workers, Insert(w) PROVE StampInv'
    <2>1. stamp' = stamp /\ (\A v \in Workers \ {w} : pc'[v] = pc[v] /\ seen'[v] = seen[v])
          /\ pc'[w] # "write"
      BY <1>0, <1>7 DEF Insert, Acquire, CanWrite, Goto
    <2> QED BY <1>m, <2>1 DEF StampInv
  <1>8. ASSUME NEW w \in Workers, Touch(w) PROVE StampInv'
    <2>1. stamp' = stamp /\ (\A v \in Workers \ {w} : pc'[v] = pc[v] /\ seen'[v] = seen[v])
          /\ pc'[w] # "write"
      BY <1>0, <1>8 DEF Touch, Acquire, CanWrite, Goto
    <2> QED BY <1>m, <2>1 DEF StampInv
  <1>9. ASSUME NEW w \in Workers, Write(w) PROVE StampInv'
    <2>1. stamp' = stamp /\ (\A v \in Workers \ {w} : pc'[v] = pc[v] /\ seen'[v] = seen[v])
          /\ pc'[w] # "write"
      BY <1>0, <1>9 DEF Write, Acquire, CanWrite, Goto
    <2> QED BY <1>m, <2>1 DEF StampInv
  <1>10. ASSUME NEW w \in Workers, Conflict(w) PROVE StampInv'
    <2>1. stamp' = stamp /\ (\A v \in Workers \ {w} : pc'[v] = pc[v] /\ seen'[v] = seen[v])
          /\ pc'[w] # "write"
      BY <1>0, <1>10 DEF Conflict, Abandon, Reply, Goto
    <2> QED BY <1>m, <2>1 DEF StampInv
  <1>11. ASSUME NEW w \in Workers, Constraint(w) PROVE StampInv'
    <2>1. stamp' = stamp /\ (\A v \in Workers \ {w} : pc'[v] = pc[v] /\ seen'[v] = seen[v])
          /\ pc'[w] # "write"
      BY <1>0, <1>11 DEF Constraint, Abandon, Reply, Goto
    <2> QED BY <1>m, <2>1 DEF StampInv
  <1>12. ASSUME NEW w \in Workers, BeginCommit(w) PROVE StampInv'
    <2>1. stamp' = stamp /\ (\A v \in Workers \ {w} : pc'[v] = pc[v] /\ seen'[v] = seen[v])
          /\ pc'[w] # "write"
      BY <1>0, <1>12 DEF BeginCommit, Goto
    <2> QED BY <1>m, <2>1 DEF StampInv
  <1>13. ASSUME NEW w \in Workers, Publish(w) PROVE StampInv'
    <2>1. stamp' = stamp /\ (\A v \in Workers \ {w} : pc'[v] = pc[v] /\ seen'[v] = seen[v])
          /\ pc'[w] # "write"
      BY <1>0, <1>13 DEF Publish, Advance, Reply, Goto
    <2> QED BY <1>m, <2>1 DEF StampInv
  <1>14. ASSUME NEW w \in Workers, BeginPage(w) PROVE StampInv'
    <2>1. stamp' = stamp /\ (\A v \in Workers \ {w} : pc'[v] = pc[v] /\ seen'[v] = seen[v])
          /\ pc'[w] # "write"
      BY <1>0, <1>14 DEF BeginPage, CanRead, Goto
    <2> QED BY <1>m, <2>1 DEF StampInv
  <1>15. ASSUME NEW w \in Workers, ReadPage(w) PROVE StampInv'
    <2>1. stamp' = stamp /\ (\A v \in Workers \ {w} : pc'[v] = pc[v] /\ seen'[v] = seen[v])
          /\ pc'[w] # "write"
      BY <1>0, <1>15 DEF ReadPage, Advance, Reply, Goto
    <2> QED BY <1>m, <2>1 DEF StampInv
  <1>16. ASSUME NEW w \in Workers, Timeout(w) PROVE StampInv'
    <2>1. stamp' = stamp /\ (\A v \in Workers \ {w} : pc'[v] = pc[v] /\ seen'[v] = seen[v])
          /\ pc'[w] # "write"
      BY <1>0, <1>16 DEF Timeout, Abandon, Reply, Goto
    <2> QED BY <1>m, <2>1 DEF StampInv
  <1>17. ASSUME NEW P \in Processes, Crash(P) PROVE StampInv'
    BY <1>m, <1>17 DEF StampInv, Crash
  <1>18. CASE UNCHANGED vars
    BY <1>m, <1>18 DEF StampInv, vars
  <1> QED
    BY <1>1, <1>2, <1>3, <1>4, <1>5, <1>6, <1>7, <1>8, <1>9, <1>10, <1>11, <1>12, <1>13,
       <1>14, <1>15, <1>16, <1>17, <1>18
    DEF Next, Step, Terminating

\* Every step keeps what is about to be revised live and really changing.
LEMMA IntentStep == IInv /\ [Next]_vars => IntentInv'
  <1> SUFFICES ASSUME IInv, [Next]_vars PROVE IntentInv'
    OBVIOUS
  <1>0. /\ IntentInv /\ FlowInv /\ pc \in [Workers -> PCs] /\ req \in [Workers -> Requests]
        /\ seen \in [Workers -> SUBSET Memory]
    BY DEF IInv, TypeOK
  <1>m. \A v \in Workers :
           /\ pc'[v] \in {"stamp", "write"} =>
                 \/ pc[v] \in {"stamp", "write"} /\ seen'[v] = seen[v]
                 \/ req[v].kind \notin {"update", "delete"}
                 \/ seen'[v] = {}
           /\ pc'[v] \in {"stamp", "write"} => req'[v] = req[v] \/ seen'[v] = {}
           => (pc'[v] \in {"stamp", "write"} /\ req'[v].kind \in {"update", "delete"} =>
                 \A m \in seen'[v] :
                    /\ Visible(m)
                    /\ req'[v].kind = "update" => Changes(m.body, req'[v].patch)
                    /\ \A n \in seen'[v] : n = m)
    BY <1>0 DEF IntentInv
  <1>1. ASSUME NEW w \in Workers, NEW r \in Requests, Submit(w, r) PROVE IntentInv'
    BY <1>0, <1>m, <1>1 DEF IntentInv, Submit, Goto
  <1>2. ASSUME NEW w \in Workers, FetchMiss(w) PROVE IntentInv'
    <2>1. /\ \A v \in Workers \ {w} : pc'[v] = pc[v] /\ seen'[v] = seen[v]
          /\ req' = req
          /\ \/ pc'[w] \notin {"stamp", "write"}
             \/ pc[w] \in {"stamp", "write"} /\ seen' = seen
             \/ req[w].kind \notin {"update", "delete"}
      BY <1>0, <1>2 DEF FlowInv, Pages, Creates, FetchMiss, Fetch, CanRead, Reply, Goto
    <2> QED BY <1>m, <2>1 DEF IntentInv
  <1>3. ASSUME NEW w \in Workers, FetchForRead(w) PROVE IntentInv'
    <2>1. /\ \A v \in Workers \ {w} : pc'[v] = pc[v] /\ seen'[v] = seen[v]
          /\ req' = req
          /\ \/ pc'[w] \notin {"stamp", "write"}
             \/ pc[w] \in {"stamp", "write"} /\ seen' = seen
             \/ req[w].kind \notin {"update", "delete"}
      BY <1>0, <1>3 DEF FlowInv, Pages, Creates, FetchForRead, Fetch, CanRead, Goto
    <2> QED BY <1>m, <2>1 DEF IntentInv
  <1>4. ASSUME NEW w \in Workers, FetchForWrite(w) PROVE IntentInv'
    <2>1. /\ \A v \in Workers \ {w} : pc'[v] = pc[v] /\ seen'[v] = seen[v]
          /\ req' = req /\ seen'[w] = Live(req[w].id)
      BY <1>0, <1>4 DEF FetchForWrite, Fetch, Reply, Goto
    <2>2. PICK m \in Live(req[w].id) :
             \/ pc' = [pc EXCEPT ![w] = "idle"]
             \/ req[w].kind = "update" => Changes(m.body, req[w].patch)
      BY <1>4 DEF FetchForWrite, Reply, Goto
    <2>3. \A n \in Live(req[w].id) : Visible(n) /\ n = m
      <3>1. \A i \in DOMAIN rows : rows[i].id = i
        BY DEF IInv, TableInv
      <3> QED BY <3>1 DEF Live
    <2> QED BY <1>0, <1>m, <2>1, <2>2, <2>3 DEF IntentInv
  <1>5. ASSUME NEW w \in Workers, Stamp(w) PROVE IntentInv'
    <2>1. /\ \A v \in Workers \ {w} : pc'[v] = pc[v] /\ seen'[v] = seen[v]
          /\ req' = req
          /\ \/ pc'[w] \notin {"stamp", "write"}
             \/ pc[w] \in {"stamp", "write"} /\ seen' = seen
             \/ req[w].kind \notin {"update", "delete"}
      BY <1>0, <1>5 DEF FlowInv, Pages, Creates, Stamp, Goto
    <2> QED BY <1>m, <2>1 DEF IntentInv
  <1>6. ASSUME NEW w \in Workers, EmptyBatch(w) PROVE IntentInv'
    <2>1. /\ \A v \in Workers \ {w} : pc'[v] = pc[v] /\ seen'[v] = seen[v]
          /\ req' = req
          /\ \/ pc'[w] \notin {"stamp", "write"}
             \/ pc[w] \in {"stamp", "write"} /\ seen' = seen
             \/ req[w].kind \notin {"update", "delete"}
      BY <1>0, <1>6 DEF FlowInv, Pages, Creates, EmptyBatch, Reply, Goto
    <2> QED BY <1>m, <2>1 DEF IntentInv
  <1>7. ASSUME NEW w \in Workers, Insert(w) PROVE IntentInv'
    <2>1. /\ \A v \in Workers \ {w} : pc'[v] = pc[v] /\ seen'[v] = seen[v]
          /\ req' = req
          /\ \/ pc'[w] \notin {"stamp", "write"}
             \/ pc[w] \in {"stamp", "write"} /\ seen' = seen
             \/ req[w].kind \notin {"update", "delete"}
      BY <1>0, <1>7 DEF FlowInv, Pages, Creates, Insert, Acquire, CanWrite, Goto
    <2> QED BY <1>m, <2>1 DEF IntentInv
  <1>8. ASSUME NEW w \in Workers, Touch(w) PROVE IntentInv'
    <2>1. /\ \A v \in Workers \ {w} : pc'[v] = pc[v] /\ seen'[v] = seen[v]
          /\ req' = req
          /\ \/ pc'[w] \notin {"stamp", "write"}
             \/ pc[w] \in {"stamp", "write"} /\ seen' = seen
             \/ req[w].kind \notin {"update", "delete"}
      BY <1>0, <1>8 DEF FlowInv, Pages, Creates, Touch, Acquire, CanWrite, Goto
    <2> QED BY <1>m, <2>1 DEF IntentInv
  <1>9. ASSUME NEW w \in Workers, Write(w) PROVE IntentInv'
    <2>1. /\ \A v \in Workers \ {w} : pc'[v] = pc[v] /\ seen'[v] = seen[v]
          /\ req' = req
          /\ \/ pc'[w] \notin {"stamp", "write"}
             \/ pc[w] \in {"stamp", "write"} /\ seen' = seen
             \/ req[w].kind \notin {"update", "delete"}
      BY <1>0, <1>9 DEF FlowInv, Pages, Creates, Write, Acquire, CanWrite, Goto
    <2> QED BY <1>m, <2>1 DEF IntentInv
  <1>10. ASSUME NEW w \in Workers, Conflict(w) PROVE IntentInv'
    <2>1. /\ \A v \in Workers \ {w} : pc'[v] = pc[v] /\ seen'[v] = seen[v]
          /\ req' = req
          /\ \/ pc'[w] \notin {"stamp", "write"}
             \/ pc[w] \in {"stamp", "write"} /\ seen' = seen
             \/ req[w].kind \notin {"update", "delete"}
      BY <1>0, <1>10 DEF FlowInv, Pages, Creates, Conflict, Abandon, Reply, Goto
    <2> QED BY <1>m, <2>1 DEF IntentInv
  <1>11. ASSUME NEW w \in Workers, Constraint(w) PROVE IntentInv'
    <2>1. /\ \A v \in Workers \ {w} : pc'[v] = pc[v] /\ seen'[v] = seen[v]
          /\ req' = req
          /\ \/ pc'[w] \notin {"stamp", "write"}
             \/ pc[w] \in {"stamp", "write"} /\ seen' = seen
             \/ req[w].kind \notin {"update", "delete"}
      BY <1>0, <1>11 DEF FlowInv, Pages, Creates, Constraint, Abandon, Reply, Goto
    <2> QED BY <1>m, <2>1 DEF IntentInv
  <1>12. ASSUME NEW w \in Workers, BeginCommit(w) PROVE IntentInv'
    <2>1. /\ \A v \in Workers \ {w} : pc'[v] = pc[v] /\ seen'[v] = seen[v]
          /\ req' = req
          /\ \/ pc'[w] \notin {"stamp", "write"}
             \/ pc[w] \in {"stamp", "write"} /\ seen' = seen
             \/ req[w].kind \notin {"update", "delete"}
      BY <1>0, <1>12 DEF FlowInv, Pages, Creates, BeginCommit, Goto
    <2> QED BY <1>m, <2>1 DEF IntentInv
  <1>13. ASSUME NEW w \in Workers, Publish(w) PROVE IntentInv'
    <2>1. /\ \A v \in Workers \ {w} : pc'[v] = pc[v] /\ seen'[v] = seen[v]
          /\ req' = req
          /\ \/ pc'[w] \notin {"stamp", "write"}
             \/ pc[w] \in {"stamp", "write"} /\ seen' = seen
             \/ req[w].kind \notin {"update", "delete"}
      BY <1>0, <1>13 DEF FlowInv, Pages, Creates, Publish, Advance, Reply, Goto
    <2> QED BY <1>m, <2>1 DEF IntentInv
  <1>14. ASSUME NEW w \in Workers, BeginPage(w) PROVE IntentInv'
    <2>1. /\ \A v \in Workers \ {w} : pc'[v] = pc[v] /\ seen'[v] = seen[v]
          /\ req' = req
          /\ \/ pc'[w] \notin {"stamp", "write"}
             \/ pc[w] \in {"stamp", "write"} /\ seen' = seen
             \/ req[w].kind \notin {"update", "delete"}
      BY <1>0, <1>14 DEF FlowInv, Pages, Creates, BeginPage, CanRead, Goto
    <2> QED BY <1>m, <2>1 DEF IntentInv
  <1>15. ASSUME NEW w \in Workers, ReadPage(w) PROVE IntentInv'
    <2>1. /\ \A v \in Workers \ {w} : pc'[v] = pc[v] /\ seen'[v] = seen[v]
          /\ req' = req
          /\ \/ pc'[w] \notin {"stamp", "write"}
             \/ pc[w] \in {"stamp", "write"} /\ seen' = seen
             \/ req[w].kind \notin {"update", "delete"}
      BY <1>0, <1>15 DEF FlowInv, Pages, Creates, ReadPage, Advance, Reply, Goto
    <2> QED BY <1>m, <2>1 DEF IntentInv
  <1>16. ASSUME NEW w \in Workers, Timeout(w) PROVE IntentInv'
    <2>1. /\ \A v \in Workers \ {w} : pc'[v] = pc[v] /\ seen'[v] = seen[v]
          /\ req' = req
          /\ \/ pc'[w] \notin {"stamp", "write"}
             \/ pc[w] \in {"stamp", "write"} /\ seen' = seen
             \/ req[w].kind \notin {"update", "delete"}
      BY <1>0, <1>16 DEF FlowInv, Pages, Creates, Timeout, Abandon, Reply, Goto
    <2> QED BY <1>m, <2>1 DEF IntentInv
  <1>17. ASSUME NEW P \in Processes, Crash(P) PROVE IntentInv'
    BY <1>m, <1>17 DEF IntentInv, Crash
  <1>18. CASE UNCHANGED vars
    BY <1>m, <1>18 DEF IntentInv, vars
  <1> QED
    BY <1>1, <1>2, <1>3, <1>4, <1>5, <1>6, <1>7, <1>8, <1>9, <1>10, <1>11, <1>12, <1>13,
       <1>14, <1>15, <1>16, <1>17, <1>18
    DEF Next, Step, Terminating


\* Every step keeps a lost race lost to a later version.
LEMMA LossStep == IInv /\ [Next]_vars => LossInv'
  <1> SUFFICES ASSUME IInv, [Next]_vars PROVE LossInv'
    OBVIOUS
  <1>0. LossInv /\ FlowInv /\ pc \in [Workers -> PCs] /\ code \in [Workers -> Codes]
    BY DEF IInv, TypeOK
  <1>m. ASSUME NEW v \in Workers, NEW m \in seen[v], rows[m.id].version > m.version
        PROVE  rows'[m.id].version > m.version
    <2>1. /\ rows \in Seq(Memory) /\ rows' \in Seq(Memory) /\ m \in Memory /\ Agrees(m, rows)
      BY TypeStep DEF IInv, TypeOK, SeenInv
    <2>2. rows[m.id].version <= rows'[m.id].version /\ Agrees(m, rows')
      BY <2>1, AgreesKept, TableChanges
    <2>3. /\ rows[m.id].version \in Nat /\ rows'[m.id].version \in Nat /\ m.version \in Nat
      <3>1. rows[m.id] \in Memory /\ rows'[m.id] \in Memory
        BY <2>1, <2>2 DEF Agrees
      <3> QED BY <2>1, <3>1 DEF Memory
    <2> QED BY <1>m, <2>2, <2>3
  <1>n. ASSUME NEW v \in Workers,
               pc'[v] = "conflict" \/ code'[v] = "conflict",
               \/ seen'[v] = {}
               \/ seen'[v] = seen[v] /\ (pc[v] = "conflict" \/ code[v] = "conflict")
        PROVE  \A m \in seen'[v] : rows'[m.id].version > m.version
    BY <1>0, <1>m, <1>n DEF LossInv
  <1>1. ASSUME NEW w \in Workers, NEW r \in Requests, Submit(w, r) PROVE LossInv'
    <2>1. /\ \A v \in Workers \ {w} :
                pc'[v] = pc[v] /\ code'[v] = code[v] /\ seen'[v] = seen[v]
          /\ seen'[w] = {}
      BY <1>0, <1>1 DEF Submit, Goto, IInv, TypeOK
    <2> QED BY <1>n, <2>1 DEF LossInv
  <1>2. ASSUME NEW w \in Workers, FetchMiss(w) PROVE LossInv'
    <2>1. /\ \A v \in Workers \ {w} :
                pc'[v] = pc[v] /\ code'[v] = code[v] /\ seen'[v] = seen[v]
          /\ \/ pc'[w] # "conflict" /\ code'[w] # "conflict"
             \/ seen'[w] = seen[w] /\ (pc[w] = "conflict" \/ code[w] = "conflict")
      BY <1>0, <1>2 DEF FlowInv, Active, FetchMiss, Fetch, CanRead, Reply, Goto
    <2> QED BY <1>n, <2>1 DEF LossInv
  <1>3. ASSUME NEW w \in Workers, FetchForRead(w) PROVE LossInv'
    <2>1. /\ \A v \in Workers \ {w} :
                pc'[v] = pc[v] /\ code'[v] = code[v] /\ seen'[v] = seen[v]
          /\ \/ pc'[w] # "conflict" /\ code'[w] # "conflict"
             \/ seen'[w] = seen[w] /\ (pc[w] = "conflict" \/ code[w] = "conflict")
      BY <1>0, <1>3 DEF FlowInv, Active, FetchForRead, Fetch, CanRead, Goto
    <2> QED BY <1>n, <2>1 DEF LossInv
  <1>4. ASSUME NEW w \in Workers, FetchForWrite(w) PROVE LossInv'
    <2>1. /\ \A v \in Workers \ {w} :
                pc'[v] = pc[v] /\ code'[v] = code[v] /\ seen'[v] = seen[v]
          /\ \/ pc'[w] # "conflict" /\ code'[w] # "conflict"
             \/ seen'[w] = seen[w] /\ (pc[w] = "conflict" \/ code[w] = "conflict")
      BY <1>0, <1>4 DEF FlowInv, Active, FetchForWrite, Fetch, CanRead, Reply, Goto
    <2> QED BY <1>n, <2>1 DEF LossInv
  <1>5. ASSUME NEW w \in Workers, Stamp(w) PROVE LossInv'
    <2>1. /\ \A v \in Workers \ {w} :
                pc'[v] = pc[v] /\ code'[v] = code[v] /\ seen'[v] = seen[v]
          /\ \/ pc'[w] # "conflict" /\ code'[w] # "conflict"
             \/ seen'[w] = seen[w] /\ (pc[w] = "conflict" \/ code[w] = "conflict")
      BY <1>0, <1>5 DEF FlowInv, Active, Stamp, Goto
    <2> QED BY <1>n, <2>1 DEF LossInv
  <1>6. ASSUME NEW w \in Workers, EmptyBatch(w) PROVE LossInv'
    <2>1. /\ \A v \in Workers \ {w} :
                pc'[v] = pc[v] /\ code'[v] = code[v] /\ seen'[v] = seen[v]
          /\ \/ pc'[w] # "conflict" /\ code'[w] # "conflict"
             \/ seen'[w] = seen[w] /\ (pc[w] = "conflict" \/ code[w] = "conflict")
      BY <1>0, <1>6 DEF FlowInv, Active, EmptyBatch, Reply, Goto
    <2> QED BY <1>n, <2>1 DEF LossInv
  <1>7. ASSUME NEW w \in Workers, Insert(w) PROVE LossInv'
    <2>1. /\ \A v \in Workers \ {w} :
                pc'[v] = pc[v] /\ code'[v] = code[v] /\ seen'[v] = seen[v]
          /\ \/ pc'[w] # "conflict" /\ code'[w] # "conflict"
             \/ seen'[w] = seen[w] /\ (pc[w] = "conflict" \/ code[w] = "conflict")
      BY <1>0, <1>7 DEF FlowInv, Active, Insert, Acquire, CanWrite, Goto
    <2> QED BY <1>n, <2>1 DEF LossInv
  <1>8. ASSUME NEW w \in Workers, Touch(w) PROVE LossInv'
    <2>1. /\ \A v \in Workers \ {w} :
                pc'[v] = pc[v] /\ code'[v] = code[v] /\ seen'[v] = seen[v]
          /\ \/ pc'[w] # "conflict" /\ code'[w] # "conflict"
             \/ seen'[w] = seen[w] /\ (pc[w] = "conflict" \/ code[w] = "conflict")
      BY <1>0, <1>8 DEF FlowInv, Active, Touch, Acquire, CanWrite, Goto
    <2> QED BY <1>n, <2>1 DEF LossInv
  <1>9. ASSUME NEW w \in Workers, Write(w) PROVE LossInv'
    <2>1. /\ \A v \in Workers \ {w} : pc'[v] = pc[v] /\ code'[v] = code[v]
          /\ seen' = seen /\ rows' = rows /\ code'[w] # "conflict"
      BY <1>0, <1>9 DEF FlowInv, Active, Write, Acquire, Goto
    <2>2. ASSUME pc'[w] = "conflict"
          PROVE  \A m \in seen[w] : rows[m.id].version > m.version
      <3>1. PICK m \in seen[w] : ~Unmoved(staged, m)
        BY <1>0, <2>2, <1>9 DEF Write, Acquire, Goto
      <3>2. staged = rows
        BY <1>9 DEF IInv, LockInv, Writing, Write, Acquire, CanWrite, Creates
      <3>3. Visible(m) /\ \A n \in seen[w] : n = m
        BY <1>9 DEF IInv, IntentInv, Write, Acquire
      <3>4. Agrees(m, rows) /\ rows \in Seq(Memory) /\ m \in Memory
        BY DEF IInv, TypeOK, SeenInv
      <3>5. rows[m.id].version # m.version
        BY <3>1, <3>2, <3>3, <3>4 DEF Agrees, Unmoved, Visible
      <3>6. rows[m.id].version \in Nat /\ m.version \in Nat
        <4>1. rows[m.id] \in Memory
          BY <3>4 DEF Agrees
        <4> QED BY <3>4, <4>1 DEF Memory
      <3> QED BY <3>3, <3>4, <3>5, <3>6 DEF Agrees
    <2> QED BY <1>n, <2>1, <2>2 DEF LossInv
  <1>10. ASSUME NEW w \in Workers, Conflict(w) PROVE LossInv'
    <2>1. /\ \A v \in Workers \ {w} :
                pc'[v] = pc[v] /\ code'[v] = code[v] /\ seen'[v] = seen[v]
          /\ \/ pc'[w] # "conflict" /\ code'[w] # "conflict"
             \/ seen'[w] = seen[w] /\ (pc[w] = "conflict" \/ code[w] = "conflict")
      BY <1>0, <1>10 DEF FlowInv, Active, Conflict, Abandon, Reply, Goto
    <2> QED BY <1>n, <2>1 DEF LossInv
  <1>11. ASSUME NEW w \in Workers, Constraint(w) PROVE LossInv'
    <2>1. /\ \A v \in Workers \ {w} :
                pc'[v] = pc[v] /\ code'[v] = code[v] /\ seen'[v] = seen[v]
          /\ \/ pc'[w] # "conflict" /\ code'[w] # "conflict"
             \/ seen'[w] = seen[w] /\ (pc[w] = "conflict" \/ code[w] = "conflict")
      BY <1>0, <1>11 DEF FlowInv, Active, Constraint, Abandon, Reply, Goto
    <2> QED BY <1>n, <2>1 DEF LossInv
  <1>12. ASSUME NEW w \in Workers, BeginCommit(w) PROVE LossInv'
    <2>1. /\ \A v \in Workers \ {w} :
                pc'[v] = pc[v] /\ code'[v] = code[v] /\ seen'[v] = seen[v]
          /\ \/ pc'[w] # "conflict" /\ code'[w] # "conflict"
             \/ seen'[w] = seen[w] /\ (pc[w] = "conflict" \/ code[w] = "conflict")
      BY <1>0, <1>12 DEF FlowInv, Active, BeginCommit, Goto
    <2> QED BY <1>n, <2>1 DEF LossInv
  <1>13. ASSUME NEW w \in Workers, Publish(w) PROVE LossInv'
    <2>1. code[w] = "none"
      BY <1>0, <1>13 DEF FlowInv, Active, Publish
    <2>2. \/ pc' = [pc EXCEPT ![w] = "idle"]
          \/ pc' = [pc EXCEPT ![w] = "count"]
          \/ pc' = [pc EXCEPT ![w] = "stamp"]
      BY <1>13 DEF Publish, Advance, Reply, Goto
    <2>3. \/ code' = [code EXCEPT ![w] = "ok"]
          \/ code' = [code EXCEPT ![w] = "failed"]
          \/ code' = code
      BY <1>13 DEF Publish, Advance, Reply
    <2>4. \A v \in Workers \ {w} : seen'[v] = seen[v]
      BY <1>13 DEF Publish, Advance, IInv, TypeOK
    <2> QED BY <1>0, <1>n, <2>1, <2>2, <2>3, <2>4 DEF LossInv
  <1>14. ASSUME NEW w \in Workers, BeginPage(w) PROVE LossInv'
    <2>1. /\ \A v \in Workers \ {w} :
                pc'[v] = pc[v] /\ code'[v] = code[v] /\ seen'[v] = seen[v]
          /\ \/ pc'[w] # "conflict" /\ code'[w] # "conflict"
             \/ seen'[w] = seen[w] /\ (pc[w] = "conflict" \/ code[w] = "conflict")
      BY <1>0, <1>14 DEF FlowInv, Active, BeginPage, CanRead, Goto
    <2> QED BY <1>n, <2>1 DEF LossInv
  <1>15. ASSUME NEW w \in Workers, ReadPage(w) PROVE LossInv'
    <2>1. code[w] = "none"
      BY <1>0, <1>15 DEF FlowInv, Active, ReadPage
    <2>2. \/ pc' = [pc EXCEPT ![w] = "idle"]
          \/ pc' = [pc EXCEPT ![w] = "count"]
          \/ pc' = [pc EXCEPT ![w] = "stamp"]
      BY <1>15 DEF ReadPage, Advance, Reply, Goto
    <2>3. \/ code' = [code EXCEPT ![w] = "ok"]
          \/ code' = [code EXCEPT ![w] = "failed"]
          \/ code' = code
      BY <1>15 DEF ReadPage, Advance, Reply
    <2>4. \A v \in Workers \ {w} : seen'[v] = seen[v]
      BY <1>15 DEF ReadPage, Advance, IInv, TypeOK
    <2> QED BY <1>0, <1>n, <2>1, <2>2, <2>3, <2>4 DEF LossInv
  <1>16. ASSUME NEW w \in Workers, Timeout(w) PROVE LossInv'
    <2>1. /\ \A v \in Workers \ {w} :
                pc'[v] = pc[v] /\ code'[v] = code[v] /\ seen'[v] = seen[v]
          /\ \/ pc'[w] # "conflict" /\ code'[w] # "conflict"
             \/ seen'[w] = seen[w] /\ (pc[w] = "conflict" \/ code[w] = "conflict")
      BY <1>0, <1>16 DEF FlowInv, Active, Timeout, Abandon, Reply, Goto
    <2> QED BY <1>n, <2>1 DEF LossInv
  <1>17. ASSUME NEW P \in Processes, Crash(P) PROVE LossInv'
    BY <1>n, <1>17 DEF LossInv, Crash
  <1>18. CASE UNCHANGED vars
    BY <1>n, <1>18 DEF LossInv, vars
  <1> QED
    BY <1>1, <1>2, <1>3, <1>4, <1>5, <1>6, <1>7, <1>8, <1>9, <1>10, <1>11, <1>12, <1>13,
       <1>14, <1>15, <1>16, <1>17, <1>18
    DEF Next, Step, Terminating

-----------------------------------------------------------------------------
(* Theorems.                                                               *)

\* The strengthened invariant is one: it holds in every state of every behaviour.
THEOREM Invariance == Spec => []IInv
  <1>1. IInv /\ [Next]_vars => IInv'
    BY TypeStep, LockStep, FlowStep, TableStep, SeenStep, KeptStep, StampStep,
       IntentStep, LossStep DEF IInv
  <1> QED BY <1>1, InitInvariant, PTL DEF Spec

\* Type correctness of the storage layer for every deployment and request mix.
THEOREM TypeCorrect == Spec => []TypeOK
  <1>1. IInv => TypeOK
    BY DEF IInv
  <1> QED BY <1>1, Invariance, PTL

\* No acknowledged write of storage.py is lost and no version number is handed out
\* for two contents, with any number of threads and processes, crashes included.
THEOREM VersionsIdentifyContents == Spec => []VersionIdentifiesContent
  <1>1. IInv => VersionIdentifiesContent
    <2> SUFFICES ASSUME IInv, NEW w \in Workers, NEW m \in seen[w] \cup Answered(w)
                 PROVE  Agrees(m, rows)
      BY DEF VersionIdentifiesContent
    <2>1. CASE m \in seen[w]
      BY <2>1 DEF IInv, SeenInv
    <2>2. CASE m \in Answered(w)
      <3>1. code[w] = "ok" /\ m \in kept[w]
        BY <2>2 DEF Answered
      <3>2. writer # w
        BY <3>1 DEF IInv, FlowInv, LockInv, Active, Writing
      <3> QED BY <3>1, <3>2 DEF IInv, KeptInv
    <2> QED BY <2>1, <2>2
  <1> QED BY <1>1, Invariance, PTL

\* A 409 of update_memory or delete_memory always has a committed write behind it.
THEOREM ConflictsAreReal == Spec => []ConflictIsReal
  <1>1. IInv => ConflictIsReal
    BY DEF IInv, LossInv, ConflictIsReal
  <1> QED BY <1>1, Invariance, PTL

\* The locks never make everybody wait: a wait for SHARED is a wait for a commit,
\* a commit waits for readers only, and a reader waits for nobody.
THEOREM DeadlockFree == Spec => []NoDeadlock
  <1>1. IInv => NoDeadlock
    <2> SUFFICES ASSUME IInv, NEW w \in Workers, Active(w)
                 PROVE  \E v \in Workers : Active(v) /\ ~Blocked(v)
      BY DEF NoDeadlock
    <2> USE DEF IInv, LockInv
    <2>1. CASE readers # {}
      BY <2>1 DEF Active, Blocked
    <2>2. CASE readers = {} /\ writer \in Workers
      BY <2>2 DEF Active, Blocked, Writing, CanRead, CanWrite
    <2>3. CASE readers = {} /\ writer \notin Workers
      <3>1. ~pending /\ CanWrite(w)
        BY <2>3 DEF TypeOK, CanWrite
      <3> QED BY <2>3, <3>1 DEF Blocked, CanRead
    <2> QED BY <2>1, <2>2, <2>3
  <1> QED BY <1>1, Invariance, PTL

\* The storage layer implements the contract: its initial tables are the contract's,
\* and each of its steps is a step of the contract or leaves the table alone.
THEOREM Refinement == Spec => RefinesContract
  <1>1. Init => Contract!Init
    BY DEF Init, Contract!Init
  <1>2. IInv /\ [Next]_vars => [Contract!Next]_rows
    BY TableChanges DEF Contract!Next
  <1> QED BY <1>1, <1>2, Invariance, PTL DEF Spec, RefinesContract, Contract!Spec

-----------------------------------------------------------------------------
(* Pages and batches.  Two more invariants, which rest on IInv: what a     *)
(* page request knows of its snapshot, and what a creating request has     *)
(* inserted so far.                                                        *)

\* What the handlers tell of a page of items rows out of n, at query q.
Consistent(items, n, q) ==
    /\ items <= q.limit
    /\ q.offset + items < n => items = q.limit
    /\ items > 0 => q.offset + items <= n

\* Nobody can commit between COUNT and SELECT, and a page is what SELECT made it
\* until the handler returns.
SnapshotOf(v) ==
    /\ pc[v] \in {"count", "page"} => seen[v] = {}
    /\ pc[v] = "page" => total[v] = Cardinality(Matching(rows, CurrentQuery(v)))
    /\ /\ Pages(req[v])
       /\ pc[v] \in {"stamp", "write", "commit", "publish"} \/ code[v] = "ok"
       => Consistent(Cardinality(seen[v]), total[v], CurrentQuery(v))

SnapshotInv == \A v \in Workers : SnapshotOf(v)

\* An open transaction has inserted the bodies before the cursor, or nothing; it
\* gets to its commit with all of them.
BatchOf(v) ==
    /\ Creates(req[v]) /\ pc[v] \in {"stamp", "write"} /\ writer # v => cursor[v] = 1
    /\ writer = v /\ ~Creates(req[v]) => Len(staged) = Len(rows)
    /\ writer = v /\ Creates(req[v]) =>
          /\ Len(staged) = Len(rows) + cursor[v] - 1
          /\ cursor[v] <= Len(req[v].bodies) + 1
          /\ pc[v] \in Writing => cursor[v] = Len(req[v].bodies) + 1
          /\ \A i \in 1 .. cursor[v] - 1 :
                staged[Len(rows) + i].body = req[v].bodies[i]

BatchInv == \A v \in Workers : BatchOf(v)

\* A step of one worker leaves alone what the others are doing.
LEMMA OthersUntouched ==
    ASSUME TypeOK, NEW w \in Workers, Step(w) \/ \E r \in Requests : Submit(w, r),
           NEW v \in Workers, v # w
    PROVE  /\ pc'[v] = pc[v] /\ req'[v] = req[v] /\ cursor'[v] = cursor[v]
           /\ seen'[v] = seen[v] /\ total'[v] = total[v] /\ code'[v] = code[v]
  <1> USE DEF TypeOK, Goto, Reply
  <1>1. ASSUME NEW r \in Requests, Submit(w, r)
        PROVE  /\ pc'[v] = pc[v] /\ req'[v] = req[v] /\ cursor'[v] = cursor[v]
               /\ seen'[v] = seen[v] /\ total'[v] = total[v] /\ code'[v] = code[v]
    BY <1>1 DEF Submit
  <1>2. FetchMiss(w) \/ FetchForRead(w) \/ FetchForWrite(w)
        => /\ pc'[v] = pc[v] /\ req'[v] = req[v] /\ cursor'[v] = cursor[v]
           /\ seen'[v] = seen[v] /\ total'[v] = total[v] /\ code'[v] = code[v]
    BY DEF FetchMiss, FetchForRead, FetchForWrite, Fetch
  <1>3. Stamp(w) \/ EmptyBatch(w) \/ Insert(w) \/ Touch(w) \/ Write(w) \/ BeginCommit(w)
        => /\ pc'[v] = pc[v] /\ req'[v] = req[v] /\ cursor'[v] = cursor[v]
           /\ seen'[v] = seen[v] /\ total'[v] = total[v] /\ code'[v] = code[v]
    BY DEF Stamp, EmptyBatch, Insert, Touch, Write, Acquire, BeginCommit
  <1>4. Conflict(w) \/ Constraint(w) \/ Timeout(w)
        => /\ pc'[v] = pc[v] /\ req'[v] = req[v] /\ cursor'[v] = cursor[v]
           /\ seen'[v] = seen[v] /\ total'[v] = total[v] /\ code'[v] = code[v]
    BY DEF Conflict, Constraint, Timeout
  <1>5. Publish(w) \/ BeginPage(w) \/ ReadPage(w)
        => /\ pc'[v] = pc[v] /\ req'[v] = req[v] /\ cursor'[v] = cursor[v]
           /\ seen'[v] = seen[v] /\ total'[v] = total[v] /\ code'[v] = code[v]
    BY DEF Publish, BeginPage, ReadPage, Advance
  <1> QED BY <1>1, <1>2, <1>3, <1>4, <1>5 DEF Step

\* The table stands still, except for a commit, which waits until nobody reads.
LEMMA CommitAlone ==
    ASSUME IInv, [Next]_vars
    PROVE  \/ rows' = rows
           \/ /\ \A v \in Workers : pc[v] # "page"
              /\ \E w \in Workers : Publish(w)
  <1> USE DEF IInv, LockInv
  <1>1. CASE UNCHANGED vars
    BY <1>1 DEF vars, store
  <1>2. ASSUME NEW w \in Workers, Step(w), ~Publish(w)
        PROVE  rows' = rows
    BY <1>2 DEF Step, FetchMiss, FetchForRead, FetchForWrite, Fetch, Stamp, EmptyBatch,
                Insert, Touch, Write, Acquire, Conflict, Constraint, BeginCommit,
                BeginPage, ReadPage, Timeout, Abandon, store
  <1>3. ASSUME NEW w \in Workers, Publish(w)
        PROVE  \A v \in Workers : pc[v] # "page"
    BY <1>3 DEF Publish
  <1>4. ASSUME NEW w \in Workers, NEW r \in Requests, Submit(w, r)
        PROVE  rows' = rows
    BY <1>4 DEF Submit, store
  <1>5. ASSUME NEW P \in Processes, Crash(P) PROVE rows' = rows
    BY <1>5 DEF Crash, Abandon
  <1> QED BY <1>1, <1>2, <1>3, <1>4, <1>5 DEF Next, Terminating

\* Advancing empties what was seen, or ends the request with it.
LEMMA SnapshotAdvance ==
    ASSUME TypeOK, NEW w \in Workers, Advance(w), req' = req, total' = total,
           code[w] = "none",
           Pages(req[w]) => Consistent(Cardinality(seen[w]), total[w], CurrentQuery(w))
    PROVE  SnapshotOf(w)'
  <1> USE DEF TypeOK
  <1>1. CASE Pages(req[w]) /\ cursor[w] < Len(req[w].queries)
    <2>1. pc'[w] = "count" /\ seen'[w] = {} /\ code'[w] = "none"
      BY <1>1 DEF Advance, Goto
    <2> QED BY <2>1 DEF SnapshotOf
  <1>2. CASE ~(Pages(req[w]) /\ cursor[w] < Len(req[w].queries))
    <2>1. pc'[w] = "idle" /\ UNCHANGED <<cursor, seen>>
      BY <1>2 DEF Advance, Reply, Goto
    <2> QED BY <2>1 DEF SnapshotOf, CurrentQuery, Pages
  <1> QED BY <1>1, <1>2

\* Every step keeps what page requests know consistent.
LEMMA SnapshotStep == IInv /\ SnapshotInv /\ [Next]_vars => SnapshotInv'
  <1> SUFFICES ASSUME IInv, SnapshotInv, [Next]_vars, NEW v \in Workers
               PROVE  SnapshotOf(v)'
    BY DEF SnapshotInv, SnapshotOf
  <1>0. /\ SnapshotOf(v) /\ TypeOK /\ FlowInv /\ LockInv
        /\ pc \in [Workers -> PCs] /\ req \in [Workers -> Requests]
        /\ code \in [Workers -> Codes] /\ seen \in [Workers -> SUBSET Memory]
        /\ total \in [Workers -> Nat] /\ cursor \in [Workers -> Nat \ {0}]
    BY DEF SnapshotInv, SnapshotOf, IInv, TypeOK
  <1>1. ASSUME pc'[v] = pc[v], req'[v] = req[v], cursor'[v] = cursor[v],
               seen'[v] = seen[v], total'[v] = total[v], code'[v] = code[v]
        PROVE  SnapshotOf(v)'
    <2>1. pc[v] = "page" => rows' = rows
      BY CommitAlone
    <2> QED BY <1>0, <1>1, <2>1 DEF SnapshotOf, CurrentQuery
  <1>2. ASSUME pc'[v] = "idle", code'[v] # "ok"
        PROVE  SnapshotOf(v)'
    BY <1>2 DEF SnapshotOf
  <1>3. ASSUME Pages(req[v]), pc[v] \in {"stamp", "write", "commit", "publish"},
               req' = req, total' = total, cursor' = cursor, seen' = seen,
               pc'[v] \notin {"count", "page"}
        PROVE  SnapshotOf(v)'
    BY <1>0, <1>3 DEF SnapshotOf, CurrentQuery
  <1>4. ASSUME ~Pages(req[v]), req' = req, pc'[v] \notin {"count", "page"}
        PROVE  SnapshotOf(v)'
    BY <1>0, <1>4 DEF SnapshotOf
  <1>5. ASSUME NEW r \in Requests, Submit(v, r)
        PROVE  SnapshotOf(v)'
    <2>1. /\ pc'[v] = Entry(r) /\ seen'[v] = {} /\ req'[v] = r /\ code'[v] = "none"
      BY <1>0, <1>5 DEF Submit, Goto
    <2>2. /\ r.kind \in Kinds
          /\ Pages(r) => Entry(r) = "count"
          /\ Entry(r) # "page"
      BY RequestType DEF Entry, Pages, Creates
    <2> QED BY <2>1, <2>2 DEF SnapshotOf
  <1>6. ASSUME FetchMiss(v) \/ FetchForRead(v) \/ FetchForWrite(v)
        PROVE  SnapshotOf(v)'
    <2>1. pc[v] = "fetch" /\ req' = req /\ ~Pages(req[v])
      BY <1>0, <1>6 DEF FetchMiss, FetchForRead, FetchForWrite, Fetch, FlowInv, Pages
    <2>2. pc'[v] \in {"idle", "stamp"}
      BY <1>0, <1>6 DEF FetchMiss, FetchForRead, FetchForWrite, Reply, Goto
    <2> QED BY <1>4, <2>1, <2>2
  <1>7. ASSUME Stamp(v) \/ BeginCommit(v)
        PROVE  SnapshotOf(v)'
    <2>1. /\ pc[v] \in {"stamp", "commit"} /\ UNCHANGED <<req, total, cursor, seen>>
          /\ pc'[v] \notin {"count", "page"}
      BY <1>0, <1>7 DEF Stamp, BeginCommit, Goto
    <2> QED BY <1>3, <1>4, <2>1
  <1>8. ASSUME EmptyBatch(v) \/ Insert(v) \/ Write(v)
        PROVE  SnapshotOf(v)'
    <2>1. /\ ~Pages(req[v]) /\ req' = req /\ pc'[v] \notin {"count", "page"}
      BY <1>0, <1>8 DEF EmptyBatch, Insert, Write, Acquire, Creates, Pages, Reply, Goto
    <2> QED BY <1>4, <2>1
  <1>9. ASSUME Touch(v)
        PROVE  SnapshotOf(v)'
    <2>1. /\ pc[v] = "write" /\ UNCHANGED <<req, total, cursor, seen>> /\ pc'[v] = "commit"
      BY <1>0, <1>9 DEF Touch, Acquire, Goto
    <2> QED BY <1>3, <1>4, <2>1
  <1>10. ASSUME Conflict(v) \/ Constraint(v) \/ Timeout(v)
         PROVE  SnapshotOf(v)'
    <2>1. pc'[v] = "idle" /\ code'[v] \in {"conflict", "failed"}
      BY <1>0, <1>10 DEF Conflict, Constraint, Timeout, Reply, Goto
    <2> QED BY <1>2, <2>1
  <1>11. ASSUME Publish(v)
         PROVE  SnapshotOf(v)'
    <2>1. pc[v] = "publish" /\ UNCHANGED <<req, total>> /\ code[v] = "none"
      BY <1>0, <1>11 DEF Publish, FlowInv, Active
    <2>2. CASE Advance(v)
      <3>1. Pages(req[v]) => Consistent(Cardinality(seen[v]), total[v], CurrentQuery(v))
        BY <1>0, <2>1 DEF SnapshotOf
      <3> QED BY <1>0, <2>1, <2>2, <3>1, SnapshotAdvance
    <2>3. CASE Reply(v, "failed", {})
      <3>1. pc'[v] = "idle" /\ code'[v] = "failed"
        BY <1>0, <2>3 DEF Reply, Goto
      <3> QED BY <1>2, <3>1
    <2> QED BY <1>11, <2>2, <2>3 DEF Publish
  <1>12. ASSUME BeginPage(v)
         PROVE  SnapshotOf(v)'
    <2>1. /\ pc[v] = "count" /\ pc'[v] = "page" /\ UNCHANGED <<rows, req, cursor, seen, code>>
          /\ total'[v] = Cardinality(Matching(rows, CurrentQuery(v)))
      BY <1>0, <1>12 DEF BeginPage, Goto
    <2>2. code[v] = "none"
      BY <1>0, <2>1 DEF FlowInv, Active
    <2> QED BY <1>0, <2>1, <2>2 DEF SnapshotOf, CurrentQuery
  <1>13. ASSUME ReadPage(v)
         PROVE  SnapshotOf(v)'
    <2> DEFINE q == CurrentQuery(v)
               page == Page(rows, q)
    <2>1. /\ pc[v] = "page" /\ UNCHANGED <<rows, req, total>> /\ code[v] = "none"
          /\ total[v] = Cardinality(Matching(rows, q)) /\ seen[v] = {}
          /\ Pages(req[v]) /\ cursor[v] <= Len(req[v].queries)
      BY <1>0, <1>13 DEF ReadPage, SnapshotOf, FlowInv, Active
    <2>2. q \in Query
      <3>1. req[v].queries \in Seq(Query) /\ cursor[v] \in 1 .. Len(req[v].queries)
        BY <1>0, <2>1, RequestType
      <3> QED BY <3>1 DEF CurrentQuery
    <2>3. rows \in Seq(Memory) /\ Numbered(rows)
      BY DEF IInv, TypeOK, TableInv, Numbered
    <2>4. Consistent(Cardinality(page), total[v], q)
      <3>1. /\ Cardinality(page) \in 0 .. q.limit
            /\ q.offset + Cardinality(page) < total[v] => Cardinality(page) = q.limit
            /\ Cardinality(page) > 0 => q.offset + Cardinality(page) <= total[v]
        BY <2>1, <2>2, <2>3, PageSize
      <3>2. q.limit \in Nat
        BY <2>2 DEF Query
      <3> HIDE DEF page, q
      <3> QED BY <3>1, <3>2 DEF Consistent
    <2>5. CASE /\ UNCHANGED cursor /\ seen' = [seen EXCEPT ![v] = page]
               /\ Reply(v, "failed", {}) \/ (Goto(v, "stamp") /\ UNCHANGED <<kept, code>>)
      <3>1. seen'[v] = page /\ cursor' = cursor /\ req' = req /\ total' = total
        BY <1>0, <2>1, <2>5
      <3>2. pc'[v] \in {"idle", "stamp"}
        BY <1>0, <2>5 DEF Reply, Goto
      <3> HIDE DEF page
      <3>3. Consistent(Cardinality(seen'[v]), total'[v], CurrentQuery(v)')
        BY <2>4, <3>1 DEF CurrentQuery
      <3> QED BY <3>2, <3>3 DEF SnapshotOf
    <2>6. CASE page = {} /\ Advance(v)
      <3>1. Consistent(Cardinality(seen[v]), total[v], CurrentQuery(v))
        BY <2>1, <2>4, <2>6
      <3> QED BY <1>0, <2>1, <2>6, <3>1, SnapshotAdvance
    <2> QED BY <1>13, <2>5, <2>6 DEF ReadPage
  <1>14. ASSUME NEW P \in Processes, Crash(P)
         PROVE  SnapshotOf(v)'
    <2>1. /\ UNCHANGED <<req, cursor, seen, total>>
          /\ pc'[v] = IF v \in P THEN "idle" ELSE pc[v]
          /\ code'[v] = IF v \in P /\ Active(v) THEN "lost" ELSE code[v]
      BY <1>14 DEF Crash
    <2>2. CASE v \in P /\ Active(v)
      BY <1>2, <2>1, <2>2
    <2>3. CASE ~(v \in P /\ Active(v))
      <3>1. pc'[v] = pc[v] /\ code'[v] = code[v]
        BY <2>1, <2>3 DEF Active
      <3> QED BY <1>1, <2>1, <3>1
    <2> QED BY <2>2, <2>3
  <1>15. CASE UNCHANGED vars
    BY <1>1, <1>15 DEF vars
  <1>16. ASSUME NEW w \in Workers, Step(w) \/ \E r \in Requests : Submit(w, r), v # w
         PROVE  SnapshotOf(v)'
    BY <1>0, <1>1, <1>16, OthersUntouched
  <1> QED
    BY <1>5, <1>6, <1>7, <1>8, <1>9, <1>10, <1>11, <1>12, <1>13, <1>14, <1>15, <1>16
    DEF Next, Step, Terminating

\* At the start no page is held and no transaction is open.
LEMMA SnapshotInit == Init => SnapshotInv /\ BatchInv
  <1> SUFFICES ASSUME Init, NEW v \in Workers
               PROVE  SnapshotOf(v) /\ BatchOf(v)
    BY DEF SnapshotInv, BatchInv
  <1>1. pc[v] = "idle" /\ code[v] = "none" /\ writer # v
    BY StoreAssumption DEF Init
  <1> QED BY <1>1 DEF SnapshotOf, BatchOf

\* An open transaction is its writer's: no step of another worker changes it, ends
\* it, or moves the table under it.
LEMMA WriterAlone ==
    ASSUME IInv, NEW w \in Workers, Step(w) \/ \E r \in Requests : Submit(w, r),
           NEW v \in Workers, v # w
    PROVE  /\ writer' = v <=> writer = v
           /\ writer = v => staged' = staged /\ rows' = rows
  <1> USE StoreAssumption
  <1> DEFINE Alone == /\ (writer' = v <=> writer = v)
                      /\ writer = v => staged' = staged /\ rows' = rows
  <1>1. ASSUME NEW r \in Requests, Submit(w, r) PROVE Alone
    BY <1>1 DEF Submit, store, locks
  <1>2. FetchMiss(w) \/ FetchForRead(w) \/ FetchForWrite(w) => Alone
    BY DEF FetchMiss, FetchForRead, FetchForWrite, Fetch, store, locks
  <1>3. Stamp(w) \/ EmptyBatch(w) \/ BeginCommit(w) => Alone
    BY DEF Stamp, EmptyBatch, BeginCommit, store, locks
  <1>4. Insert(w) \/ Touch(w) \/ Write(w) => Alone
    BY DEF Insert, Touch, Write, Acquire, CanWrite
  <1>5. Conflict(w) \/ Constraint(w) \/ Timeout(w) => Alone
    BY DEF Conflict, Constraint, Timeout, Abandon
  <1>6. Publish(w) => Alone
    BY DEF Publish, IInv, LockInv
  <1>7. BeginPage(w) \/ ReadPage(w) => Alone
    BY DEF BeginPage, ReadPage
  <1> QED BY <1>1, <1>2, <1>3, <1>4, <1>5, <1>6, <1>7 DEF Step

\* Every step keeps the count of what a creating request has inserted.
LEMMA BatchStep == IInv /\ BatchInv /\ [Next]_vars => BatchInv'
  <1> SUFFICES ASSUME IInv, BatchInv, [Next]_vars, NEW v \in Workers
               PROVE  BatchOf(v)'
    BY DEF BatchInv
  <1>0. /\ BatchOf(v) /\ TypeOK /\ FlowInv /\ LockInv /\ NoWorker # v
        /\ pc \in [Workers -> PCs] /\ req \in [Workers -> Requests]
        /\ cursor \in [Workers -> Nat \ {0}]
        /\ rows \in Seq(Memory) /\ staged \in Seq(Memory)
        /\ req[v].bodies \in Seq(NewBody) /\ Len(req[v].bodies) \in Nat
        /\ Len(rows) \in Nat /\ Len(staged) \in Nat
    BY StoreAssumption, RequestType DEF BatchInv, IInv, TypeOK
  <1>1. ASSUME pc'[v] = pc[v], req'[v] = req[v], cursor'[v] = cursor[v],
               writer' = v <=> writer = v,
               writer = v => staged' = staged /\ rows' = rows
        PROVE  BatchOf(v)'
    BY <1>0, <1>1 DEF BatchOf, Creates
  <1>2. ASSUME writer' # v, pc'[v] \notin {"stamp", "write"} \/ ~Creates(req'[v])
        PROVE  BatchOf(v)'
    BY <1>2 DEF BatchOf, Creates
  <1>3. ASSUME NEW r \in Requests, Submit(v, r)
        PROVE  BatchOf(v)'
    <2>1. pc[v] = "idle" /\ writer' = writer /\ cursor'[v] = 1
      BY <1>0, <1>3 DEF Submit, store, locks
    <2>2. writer # v
      BY <1>0, <2>1 DEF LockInv, Writing
    <2> QED BY <2>1, <2>2 DEF BatchOf
  <1>4. ASSUME FetchMiss(v) \/ FetchForRead(v) \/ FetchForWrite(v)
        PROVE  BatchOf(v)'
    <2>1. pc[v] = "fetch" /\ req' = req /\ ~Creates(req[v]) /\ writer' = writer
      BY <1>0, <1>4 DEF FetchMiss, FetchForRead, FetchForWrite, Fetch, FlowInv, Creates,
                        store, locks
    <2>2. writer # v
      BY <1>0, <2>1 DEF LockInv, Writing
    <2> QED BY <1>2, <2>1, <2>2
  <1>5. ASSUME Stamp(v)
        PROVE  BatchOf(v)'
    <2>1. /\ pc[v] = "stamp" /\ pc'[v] = "write"
          /\ UNCHANGED <<rows, staged, writer, req, cursor>>
      BY <1>0, <1>5 DEF Stamp, Goto, store, locks
    <2> QED BY <1>0, <2>1 DEF BatchOf, Creates, Writing
  <1>6. ASSUME EmptyBatch(v)
        PROVE  BatchOf(v)'
    <2>1. /\ pc[v] = "stamp" /\ pc'[v] = "idle" /\ writer' = writer
          /\ req[v].bodies = << >>
      BY <1>0, <1>6 DEF EmptyBatch, Reply, Goto, store, locks
    <2>2. writer # v
      <3>1. cursor[v] \in Nat \ {0} /\ Len(req[v].bodies) = 0
        BY <1>0, <2>1
      <3>2. ~(cursor[v] <= Len(req[v].bodies))
        BY <3>1
      <3> QED BY <1>0, <2>1, <3>2 DEF LockInv, Writing
    <2> QED BY <1>2, <2>1, <2>2
  <1>7. ASSUME Insert(v)
        PROVE  BatchOf(v)'
    <2> DEFINE c == cursor[v]
               bodies == req[v].bodies
               new == NewMemory(Len(staged) + 1, bodies[c], stamp[v])
    <2>1. /\ pc[v] = "write" /\ Creates(req[v]) /\ writer \in {NoWorker, v}
          /\ writer' = v /\ rows' = rows /\ req' = req
          /\ staged' = Append(staged, new) /\ cursor'[v] = c + 1
          /\ pc'[v] = IF c < Len(bodies) THEN "stamp" ELSE "commit"
      BY <1>0, <1>7 DEF Insert, Acquire, CanWrite, Goto
    <2>2. c <= Len(bodies) /\ c \in Nat \ {0}
      BY <1>0, <2>1 DEF FlowInv
    <2>3. /\ Len(staged) = Len(rows) + c - 1
          /\ \A i \in 1 .. c - 1 : staged[Len(rows) + i].body = bodies[i]
      <3>1. CASE writer = v
        BY <1>0, <2>1, <3>1 DEF BatchOf
      <3>2. CASE writer # v
        <4>1. staged = rows /\ c = 1
          BY <1>0, <2>1, <3>2 DEF LockInv, BatchOf
        <4> QED BY <1>0, <4>1
      <3> QED BY <3>1, <3>2
    <2>4. new.body = bodies[c]
      BY DEF NewMemory
    <2> HIDE DEF new, c, bodies
    <2>5. /\ Len(staged') = Len(rows') + (c + 1) - 1
          /\ \A i \in 1 .. (c + 1) - 1 : staged'[Len(rows') + i].body = bodies[i]
      <3>1. /\ Len(staged') = Len(staged) + 1 /\ staged'[Len(staged) + 1] = new
            /\ \A j \in 1 .. Len(staged) : staged'[j] = staged[j]
        BY <1>0, <2>1
      <3>2. ASSUME NEW i \in 1 .. c PROVE staged'[Len(rows) + i].body = bodies[i]
        <4>1. CASE i = c
          BY <1>0, <2>2, <2>3, <2>4, <3>1, <4>1
        <4>2. CASE i # c
          <5>1. i \in 1 .. c - 1 /\ Len(rows) + i \in 1 .. Len(staged)
            BY <1>0, <2>2, <2>3, <4>2
          <5> QED BY <2>3, <3>1, <5>1
        <4> QED BY <4>1, <4>2
      <3>3. (c + 1) - 1 = c /\ Len(rows) \in Nat
        BY <1>0, <2>2
      <3>4. Len(staged') = Len(rows) + (c + 1) - 1
        BY <2>2, <2>3, <3>1, <3>3
      <3> QED BY <2>1, <3>2, <3>3, <3>4
    <2>6. pc'[v] \in Writing => c + 1 = Len(bodies) + 1
      BY <1>0, <2>1, <2>2 DEF Writing, bodies
    <2>7. c + 1 <= Len(bodies) + 1
      BY <1>0, <2>2 DEF bodies
    <2> QED BY <2>1, <2>5, <2>6, <2>7 DEF BatchOf, bodies, Creates
  <1>8. ASSUME Touch(v)
        PROVE  BatchOf(v)'
    <2>1. /\ ~Creates(req[v]) /\ writer \in {NoWorker, v} /\ rows' = rows /\ req' = req
          /\ \E ids : staged' = Touched(staged, ids, stamp[v]) /\ writer' = v
      BY <1>0, <1>8 DEF Touch, Acquire, CanWrite, Creates, Pages
    <2>2. Len(staged) = Len(rows)
      BY <1>0, <2>1 DEF BatchOf, LockInv
    <2>3. Len(staged') = Len(staged)
      BY <1>0, <2>1, TouchAccesses DEF TypeOK
    <2> QED BY <2>1, <2>2, <2>3 DEF BatchOf, Creates
  <1>9. ASSUME Write(v)
        PROVE  BatchOf(v)'
    <2>1. /\ ~Creates(req[v]) /\ writer \in {NoWorker, v} /\ rows' = rows /\ req' = req
          /\ writer' = v
          /\ \/ staged' = staged
             \/ \E m : staged' = Overwritten(staged, m, req[v], stamp[v])
      BY <1>0, <1>9 DEF Write, Acquire, CanWrite, Creates
    <2>2. Len(staged) = Len(rows)
      BY <1>0, <2>1 DEF BatchOf, LockInv
    <2>3. Len(staged') = Len(staged)
      BY <1>0, <2>1 DEF Overwritten
    <2> QED BY <2>1, <2>2, <2>3 DEF BatchOf, Creates
  <1>10. ASSUME Conflict(v) \/ Constraint(v) \/ Timeout(v)
         PROVE  BatchOf(v)'
    <2>1. pc'[v] = "idle" /\ writer' # v
      BY <1>0, <1>10 DEF Conflict, Constraint, Timeout, Abandon, Reply, Goto
    <2> QED BY <1>2, <2>1
  <1>11. ASSUME BeginCommit(v)
         PROVE  BatchOf(v)'
    <2>1. /\ pc[v] = "commit" /\ pc'[v] = "publish"
          /\ UNCHANGED <<rows, staged, writer, req, cursor>>
      BY <1>0, <1>11 DEF BeginCommit, Goto
    <2> QED BY <1>0, <2>1 DEF BatchOf, Creates, Writing
  <1>12. ASSUME Publish(v)
         PROVE  BatchOf(v)'
    <2>1. writer' # v /\ pc'[v] \in {"count", "idle"}
      BY <1>0, <1>12 DEF Publish, Advance, Reply, Goto
    <2> QED BY <1>2, <2>1
  <1>13. ASSUME BeginPage(v) \/ ReadPage(v)
         PROVE  BatchOf(v)'
    <2>1. pc[v] \in {"count", "page"} /\ req' = req /\ writer' = writer
      BY <1>0, <1>13 DEF BeginPage, ReadPage
    <2>2. writer # v /\ ~Creates(req[v])
      BY <1>0, <2>1 DEF LockInv, FlowInv, Writing, Creates, Pages
    <2> QED BY <1>2, <2>1, <2>2
  <1>14. ASSUME NEW P \in Processes, Crash(P)
         PROVE  BatchOf(v)'
    <2>1. /\ UNCHANGED <<req, cursor>>
          /\ pc'[v] = IF v \in P THEN "idle" ELSE pc[v]
          /\ writer' = v => writer = v /\ v \notin P
          /\ writer = v /\ v \notin P => writer' = v /\ staged' = staged /\ rows' = rows
      BY <1>0, <1>14 DEF Crash, Abandon
    <2>2. CASE v \in P
      BY <1>2, <2>1, <2>2
    <2>3. CASE v \notin P
      BY <1>1, <2>1, <2>3
    <2> QED BY <2>2, <2>3
  <1>15. CASE UNCHANGED vars
    BY <1>1, <1>15 DEF vars, store, locks
  <1>16. ASSUME NEW w \in Workers, Step(w) \/ \E r \in Requests : Submit(w, r), v # w
         PROVE  BatchOf(v)'
    BY <1>0, <1>1, <1>16, OthersUntouched, WriterAlone
  <1> QED
    BY <1>3, <1>4, <1>5, <1>6, <1>7, <1>8, <1>9, <1>10, <1>11, <1>12, <1>13, <1>14,
       <1>15, <1>16
    DEF Next, Step, Terminating

\* The two invariants hold in every state of every behaviour.
LEMMA SnapshotsAndBatches == Spec => [](IInv /\ SnapshotInv /\ BatchInv)
  <1>1. IInv /\ SnapshotInv /\ BatchInv /\ [Next]_vars => (SnapshotInv /\ BatchInv)'
    BY SnapshotStep, BatchStep
  <1> QED BY <1>1, SnapshotInit, Invariance, PTL DEF Spec

\* The envelope of every page that main.py or mcp_server.py sends is consistent:
\* total and items are of one snapshot, for any table, query, limit and offset,
\* with any number of other workers committing, timing out or crashing.
THEOREM PagesMatchTotals == Spec => []PageMatchesTotal
  <1>1. SnapshotInv => PageMatchesTotal
    <2> SUFFICES ASSUME NEW w \in Workers, SnapshotOf(w), Pages(req[w]),
                        \/ pc[w] \in {"stamp", "write", "commit", "publish"}
                        \/ code[w] = "ok"
                 PROVE  Consistent(Cardinality(seen[w]), total[w], CurrentQuery(w))
      BY DEF SnapshotInv, Consistent, PageMatchesTotal
    <2> QED BY DEF SnapshotOf
  <1> QED BY <1>1, SnapshotsAndBatches, PTL

\* create_memory_batch is all or nothing for every list of bodies: the rows that a
\* step adds to the committed table are the whole list of one request, in order.
THEOREM BatchesAreWhole == Spec => WholeBatch
  <1> DEFINE Whole == Len(rows') > Len(rows) =>
                        \E w \in Workers :
                           /\ Creates(req[w])
                           /\ req[w].bodies =
                                [i \in 1 .. Len(rows') - Len(rows) |->
                                    rows'[Len(rows) + i].body]
  <1>1. IInv /\ BatchInv /\ [Next]_vars => [Whole]_rows
    <2> SUFFICES ASSUME IInv, BatchInv, [Next]_vars, Len(rows') > Len(rows)
                 PROVE  Whole
      OBVIOUS
    <2>1. rows \in Seq(Memory) /\ Len(rows) \in Nat
      BY DEF IInv, TypeOK
    <2>2. PICK w \in Workers : Publish(w)
      BY <2>1, CommitAlone
    <2>3. pc[w] = "publish" /\ rows' = staged /\ writer = w
      BY <2>2 DEF Publish, IInv, LockInv
    <2>4. BatchOf(w) /\ req[w] \in Requests
      BY DEF BatchInv, IInv, TypeOK
    <2> DEFINE bodies == req[w].bodies
    <2>5. Creates(req[w])
      BY <2>1, <2>3, <2>4 DEF BatchOf
    <2>6. /\ Len(rows') = Len(rows) + cursor[w] - 1 /\ cursor[w] = Len(bodies) + 1
          /\ \A i \in 1 .. cursor[w] - 1 : rows'[Len(rows) + i].body = bodies[i]
      BY <2>3, <2>4, <2>5 DEF BatchOf, Writing
    <2>7. bodies \in Seq(NewBody)
      BY <2>4, RequestType
    <2> HIDE DEF bodies
    <2>8. /\ Len(bodies) \in Nat /\ Len(rows') - Len(rows) = Len(bodies)
          /\ cursor[w] - 1 = Len(bodies)
      BY <2>1, <2>6, <2>7
    <2>9. bodies = [i \in 1 .. Len(bodies) |-> bodies[i]]
      BY <2>7
    <2>10. bodies = [i \in 1 .. Len(rows') - Len(rows) |-> rows'[Len(rows) + i].body]
      BY <2>6, <2>8, <2>9
    <2> QED BY <2>5, <2>10 DEF bodies
  <1> QED BY <1>1, SnapshotsAndBatches, PTL DEF Spec, WholeBatch

=============================================================================

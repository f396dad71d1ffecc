------------------------ MODULE StressHarness_proofs ------------------------
(***************************************************************************)
(* Proofs about StressHarness, for every profile, every suite and all      *)
(* limits.                                                                 *)
(*                                                                         *)
(* First what the script does to the service: steps of RateLimiter, whose  *)
(* theorems therefore hold beneath it.  Then the script's own books, kind  *)
(* of request by kind of request: what is still to be sent, what is on its *)
(* way, what the limiter has admitted and what has been counted.  Last how *)
(* much of a list is accepted: at least what one window holds (Covered),   *)
(* at most what all the windows since its scenario began hold (NearInv).   *)
(***************************************************************************)
EXTENDS StressHarness, RateLimiter_proofs, FiniteSetTheorems

-----------------------------------------------------------------------------
(* Clients, their requests and the limiter's keys.                         *)

\* Every kind of request has a bucket of its own (classify_rate_limit_bucket on the
\* paths of the request specs).
LEMMA KindBuckets ==
    /\ \A id, k : k \in Kinds => BucketOf(RequestOf(id, k)) = KindBucket[k]
    /\ KindBucket["read"] = "reads" /\ KindBucket["write"] = "writes"
    /\ KindBucket["batch"] = "batch" /\ KindBucket["mcp"] = "mcp"
    /\ \A k \in Kinds : KindBucket[k] \in BucketNames
    /\ \A k, l \in Kinds : KindBucket[k] = KindBucket[l] => k = l
<1>1. \A id : /\ BucketOf(RequestOf(id, "read")) = "reads"
              /\ BucketOf(RequestOf(id, "write")) = "writes"
              /\ BucketOf(RequestOf(id, "batch")) = "batch"
              /\ BucketOf(RequestOf(id, "mcp")) = "mcp"
  BY DEF BucketOf, RequestOf
<1>2. /\ KindBucket["read"] = "reads" /\ KindBucket["write"] = "writes"
      /\ KindBucket["batch"] = "batch" /\ KindBucket["mcp"] = "mcp"
  BY <1>1 DEF KindBucket, Kinds
<1> QED BY <1>1, <1>2 DEF Kinds, BucketNames

\* The key of a client's request is its name and the kind's bucket, and the limiter
\* has every such key.
LEMMA ClientKeys ==
    ASSUME NEW x \in Roles \X Surfaces, NEW k \in Kinds
    PROVE  /\ RequestOf(ClientId[x], k) \in Requests
           /\ BucketOf(RequestOf(ClientId[x], k)) # Exempt
           /\ KeyOf(RequestOf(ClientId[x], k)) = <<ClientId[x], KindBucket[k]>>
           /\ <<ClientId[x], KindBucket[k]>> \in Keys
<1>1. RequestOf(ClientId[x], k) \in Requests
  BY RequestsAssumption
<1>2. BucketOf(RequestOf(ClientId[x], k)) = KindBucket[k] /\ KindBucket[k] \in BucketNames
  BY KindBuckets
<1>3. IdentityOf(RequestOf(ClientId[x], k)) = ClientId[x]
  <2>1. Normal[ClientId[x]] = ClientId[x] /\ ClientId[x] # ""
    BY ClientAssumption
  <2>2. RequestOf(ClientId[x], k).header = ClientId[x]
    BY DEF RequestOf
  <2> QED BY <2>1, <2>2 DEF IdentityOf
<1>4. BucketOf(RequestOf(ClientId[x], k)) # Exempt
  BY <1>2, LimiterAssumption
<1>5. KeyOf(RequestOf(ClientId[x], k)) = <<ClientId[x], KindBucket[k]>>
  BY <1>2, <1>3 DEF KeyOf
<1> QED BY <1>1, <1>4, <1>5 DEF Keys

\* No two scenarios of a suite have a client in common (its name holds role and
\* surface).
LEMMA ClientsDiffer ==
    ASSUME NEW c \in Configs, NEW i \in DOMAIN Suite(c), NEW j \in DOMAIN Suite(c),
           NEW r \in RolesOf(Suite(c)[i].scenario), NEW q \in RolesOf(Suite(c)[j].scenario),
           ClientId[<<r, Suite(c)[i].surface>>] = ClientId[<<q, Suite(c)[j].surface>>]
    PROVE  i = j /\ r = q
<1>1. /\ Suite(c)[i] \in [scenario : Scenarios, surface : Surfaces]
      /\ Suite(c)[j] \in [scenario : Scenarios, surface : Surfaces]
  <2>1. Suite(c) \in Seq([scenario : Scenarios, surface : Surfaces])
    BY SuiteAssumption, Zenon
  <2>2. \A S, s : s \in Seq(S) => \A n \in DOMAIN s : s[n] \in S
    OBVIOUS
  <2> QED BY <2>1, <2>2, Zenon
<1>2. r \in Roles /\ q \in Roles
  BY <1>1 DEF RolesOf, Roles, Scenarios
<1>3. <<r, Suite(c)[i].surface>> = <<q, Suite(c)[j].surface>>
  <2>1. /\ <<r, Suite(c)[i].surface>> \in Roles \X Surfaces
        /\ <<q, Suite(c)[j].surface>> \in Roles \X Surfaces
    BY <1>1, <1>2
  <2> QED BY <2>1, ClientAssumption, Zenon
<1>4. Suite(c)[i].scenario = Suite(c)[j].scenario
  BY <1>1, <1>3 DEF RolesOf, Scenarios
<1>5. Suite(c)[i] = Suite(c)[j]
  BY <1>1, <1>3, <1>4
<1> QED BY <1>3, <1>5, SuiteAssumption

-----------------------------------------------------------------------------
(* Counting the requests of a list.                                        *)

\* A list falls into its kinds.
LEMMA NumbersAddUp ==
    ASSUME NEW s \in Seq(Kinds)
    PROVE  /\ \A k \in Kinds : Number(s, k) \in Nat
           /\ Number(s, "read") + Number(s, "write") + Number(s, "batch") + Number(s, "mcp")
                = Len(s)
<1> DEFINE Of(k) == {i \in DOMAIN s : s[i] = k}
<1>1. DOMAIN s = 1 .. Len(s) /\ Len(s) \in Nat
  OBVIOUS
<1>2. IsFiniteSet(DOMAIN s) /\ Cardinality(DOMAIN s) = Len(s)
  BY <1>1, FS_Interval
<1>3. \A k : IsFiniteSet(Of(k)) /\ Cardinality(Of(k)) \in Nat
  BY <1>2, FS_Subset, FS_CardinalityType
<1>4. \A k : Number(s, k) = Cardinality(Of(k))
  BY DEF Number
<1> HIDE DEF Of
<1>5. \A A, B : IsFiniteSet(A) /\ IsFiniteSet(B) /\ A \cap B = {} =>
        IsFiniteSet(A \cup B) /\ Cardinality(A \cup B) = Cardinality(A) + Cardinality(B)
  <2> SUFFICES ASSUME NEW A, NEW B, IsFiniteSet(A), IsFiniteSet(B), A \cap B = {}
               PROVE  IsFiniteSet(A \cup B)
                      /\ Cardinality(A \cup B) = Cardinality(A) + Cardinality(B)
    OBVIOUS
  <2>1. Cardinality(A \cap B) = 0
    BY FS_EmptySet, Zenon
  <2>2. Cardinality(A) \in Nat /\ Cardinality(B) \in Nat
    BY FS_CardinalityType
  <2>3. /\ IsFiniteSet(A \cup B)
        /\ Cardinality(A \cup B) = Cardinality(A) + Cardinality(B) - Cardinality(A \cap B)
    BY FS_Union, Zenon
  <2> QED BY <2>1, <2>2, <2>3
<1>6. Cardinality(Of("read") \cup Of("write"))
        = Cardinality(Of("read")) + Cardinality(Of("write"))
      /\ IsFiniteSet(Of("read") \cup Of("write"))
  <2>1. Of("read") \cap Of("write") = {}
    BY DEF Of
  <2> QED BY <2>1, <1>3, <1>5
<1>7. Cardinality(Of("batch") \cup Of("mcp"))
        = Cardinality(Of("batch")) + Cardinality(Of("mcp"))
      /\ IsFiniteSet(Of("batch") \cup Of("mcp"))
  <2>1. Of("batch") \cap Of("mcp") = {}
    BY DEF Of
  <2> QED BY <2>1, <1>3, <1>5
<1>8. /\ (Of("read") \cup Of("write")) \cap (Of("batch") \cup Of("mcp")) = {}
      /\ (Of("read") \cup Of("write")) \cup (Of("batch") \cup Of("mcp")) = DOMAIN s
  <2>1. \A i \in DOMAIN s : s[i] \in {"read", "write", "batch", "mcp"}
    BY DEF Kinds
  <2> QED BY <2>1 DEF Of
<1>9. Cardinality(DOMAIN s)
        = Cardinality(Of("read") \cup Of("write")) + Cardinality(Of("batch") \cup Of("mcp"))
  BY <1>5, <1>6, <1>7, <1>8
<1> QED BY <1>2, <1>3, <1>4, <1>6, <1>7, <1>9

\* Taking the first request off a list.
LEMMA NumberOfTail ==
    ASSUME NEW s \in Seq(Kinds), s # << >>
    PROVE  /\ Head(s) \in Kinds /\ Tail(s) \in Seq(Kinds) /\ Len(s) = Len(Tail(s)) + 1
           /\ \A k \in Kinds :
                 Number(s, k) = Number(Tail(s), k) + (IF k = Head(s) THEN 1 ELSE 0)
<1>1. Head(s) \in Kinds /\ Tail(s) \in Seq(Kinds) /\ Len(s) = Len(Tail(s)) + 1
  OBVIOUS
<1>2. ASSUME NEW k \in Kinds
      PROVE  Number(s, k) = Number(Tail(s), k) + (IF k = Head(s) THEN 1 ELSE 0)
  <2> DEFINE Here == {i \in DOMAIN s : s[i] = k}
             Later == {i \in DOMAIN Tail(s) : Tail(s)[i] = k}
             Moved == {i + 1 : i \in Later}
  <2>1. /\ DOMAIN s = 1 .. Len(s) /\ DOMAIN Tail(s) = 1 .. Len(Tail(s))
        /\ Len(s) \in Nat /\ Len(Tail(s)) \in Nat
        /\ \A i \in DOMAIN Tail(s) : Tail(s)[i] = s[i + 1]
    BY <1>1
  <2>2. IsFiniteSet(Later)
    <3>1. IsFiniteSet(DOMAIN Tail(s)) /\ Later \subseteq DOMAIN Tail(s)
      BY <2>1, FS_Interval
    <3> QED BY <3>1, FS_Subset
  <2>3. IsFiniteSet(Moved) /\ Cardinality(Moved) = Cardinality(Later)
    <3>1. (Later # {} \/ Later = {}) /\ Later \subseteq Int
      BY <2>1
    <3> DEFINE f == [i \in Later |-> i + 1]
    <3>2. f \in Bijection(Later, Moved)
      <4>1. f \in [Later -> Moved]
        OBVIOUS
      <4>2. \A a, b \in Later : f[a] = f[b] => a = b
        BY <3>1
      <4>3. \A m \in Moved : \E a \in Later : f[a] = m
        OBVIOUS
      <4> HIDE DEF f, Later, Moved
      <4> QED BY <4>1, <4>2, <4>3, Zenon DEF Bijection, Injection, Surjection, IsInjective
    <3>3. ExistsBijection(Later, Moved)
      BY <3>2 DEF ExistsBijection
    <3> QED BY <2>2, <3>3, FS_Bijection
  <2>4. 1 \notin Moved
    BY <2>1
  <2>5. Here = IF k = Head(s) THEN Moved \cup {1} ELSE Moved
    <3>1. \A i \in DOMAIN s : i = 1 \/ (i - 1 \in DOMAIN Tail(s) /\ i = (i - 1) + 1)
      BY <1>1, <2>1
    <3>2. Head(s) = s[1] /\ 1 \in DOMAIN s
      BY <1>1, <2>1
    <3>3. Moved \subseteq Here
      BY <1>1, <2>1
    <3>4. \A i \in Here : i = 1 \/ i \in Moved
      <4> SUFFICES ASSUME NEW i \in Here, i # 1 PROVE i \in Moved
        OBVIOUS
      <4>1. i - 1 \in Later
        BY <3>1, <2>1
      <4> QED BY <3>1, <4>1
    <3> QED BY <2>4, <3>2, <3>3, <3>4
  <2>6. Cardinality(Moved \cup {1}) = Cardinality(Moved) + 1
    BY <2>3, <2>4, FS_AddElement
  <2>7. Cardinality(Moved) \in Nat
    BY <2>3, FS_CardinalityType
  <2>8. Number(s, k) = Cardinality(Here) /\ Number(Tail(s), k) = Cardinality(Later)
    BY DEF Number
  <2> HIDE DEF Here, Later, Moved
  <2> QED BY <2>3, <2>5, <2>6, <2>7, <2>8
<1> QED BY <1>1, <1>2

\* Nothing is in an empty list.
LEMMA NumberOfNone == \A k : Number(<< >>, k) = 0
<1>1. \A k : {i \in DOMAIN << >> : << >>[i] = k} = {}
  OBVIOUS
<1> QED BY <1>1, FS_EmptySet DEF Number
-----------------------------------------------------------------------------
(* What the script is doing, and the limiter under it.                     *)

\* The books of one client of the running scenario.
JobType(role) ==
    /\ todo[role] \in Seq(Kinds)
    /\ flying[role] \in [Kinds -> Nat]
    /\ ready[role] \in Nat
    /\ counts[role] \in [Statuses -> Nat]
    /\ AtOnce(role) /\ todo[role] # << >> => flying[role] = NothingFlying

\* A scenario of the suite runs, or none does; results are those of the scenarios
\* before it.
ShapeInv ==
    /\ config \in Configs /\ now \in Nat /\ started \in Nat
    /\ outcome \in {"running", "aborted", "reported"}
    /\ step \in 0 .. Len(Suite(config))
    /\ Running # {} =>
          /\ outcome = "running" /\ step >= 1
          /\ Running = RolesOf(Scenario.scenario)
    /\ DOMAIN flying = Running /\ DOMAIN ready = Running /\ DOMAIN counts = Running
    /\ counts \in [Running -> [Statuses -> Nat]]
    /\ \A role \in Running : JobType(role)

\* What a suite consists of.
LEMMA SuiteType ==
    ASSUME NEW c \in Configs
    PROVE  /\ Len(Suite(c)) \in Nat /\ DOMAIN Suite(c) = 1 .. Len(Suite(c))
           /\ \A i \in DOMAIN Suite(c) :
                 /\ Suite(c)[i].scenario \in Scenarios /\ Suite(c)[i].surface \in Surfaces
                 /\ RolesOf(Suite(c)[i].scenario) \subseteq Roles
<1>1. Suite(c) \in Seq([scenario : Scenarios, surface : Surfaces])
  BY SuiteAssumption, Zenon
<1>2. \A S, s : s \in Seq(S) =>
        /\ Len(s) \in Nat /\ DOMAIN s = 1 .. Len(s)
        /\ \A n \in DOMAIN s : s[n] \in S
  OBVIOUS
<1>3. /\ Len(Suite(c)) \in Nat /\ DOMAIN Suite(c) = 1 .. Len(Suite(c))
      /\ \A n \in DOMAIN Suite(c) : Suite(c)[n] \in [scenario : Scenarios, surface : Surfaces]
  BY <1>1, <1>2, Zenon
<1>4. \A x \in Scenarios : RolesOf(x) \subseteq Roles
  BY DEF RolesOf, Scenarios, Roles
<1> QED BY <1>3, <1>4

\* A client that runs has a name.
LEMMA RunningClient ==
    ASSUME ShapeInv, NEW role \in Running
    PROVE  /\ step \in DOMAIN Suite(config)
           /\ role \in Roles /\ role \in RolesOf(Scenario.scenario)
           /\ <<role, Scenario.surface>> \in Roles \X Surfaces
<1>1. config \in Configs /\ step \in Nat /\ step >= 1 /\ step <= Len(Suite(config))
      /\ role \in RolesOf(Scenario.scenario)
  BY SuiteType DEF ShapeInv
<1>2. step \in DOMAIN Suite(config)
  BY <1>1, SuiteType
<1> QED BY <1>1, <1>2, SuiteType DEF Scenario

\* The shape of the state holds before the first scenario.
LEMMA InitShape == HarnessInit => ShapeInv
<1> SUFFICES ASSUME HarnessInit PROVE ShapeInv
  OBVIOUS
<1>1. Running = {} /\ now = 0
  BY DEF HarnessInit, Init, Running
<1>2. 0 \in 0 .. Len(Suite(config))
  BY SuiteType DEF HarnessInit
<1> QED BY <1>1, <1>2 DEF HarnessInit, ShapeInv, Running

\* An answer changes the books of its client.
LEMMA CountedShape ==
    ASSUME ShapeInv, NEW role \in Running, NEW kind \in Kinds, NEW status \in Statuses,
           Counted(role, kind, status), now' = now
    PROVE  ShapeInv'
<1>1. Running' = Running /\ Scenario' = Scenario
  BY DEF Counted, Running, Scenario
<1>2. flying[role] \in [Kinds -> Nat] /\ counts[role] \in [Statuses -> Nat] /\ now \in Nat
  BY DEF ShapeInv, JobType
<1>3. PauseOf(role) \in Nat
  BY ProfileAssumption DEF PauseOf
<1>4. ASSUME NEW r \in Running
      PROVE  JobType(r)'
  <2>1. JobType(r)
    BY DEF ShapeInv
  <2>2. CASE r # role
    <3>1. /\ flying'[r] = flying[r] /\ counts'[r] = counts[r] /\ ready'[r] = ready[r]
          /\ todo'[r] = todo[r]
      BY <2>2 DEF Counted, ShapeInv
    <3> QED BY <2>1, <3>1 DEF JobType
  <2>3. CASE r = role
    <3>1. /\ flying'[r] = [flying[r] EXCEPT ![kind] = @ - 1]
          /\ counts'[r] = [counts[r] EXCEPT ![status] = @ + 1]
          /\ ready'[r] = now + PauseOf(r) /\ todo'[r] = todo[r]
          /\ flying[r][kind] > 0
      BY <2>3 DEF Counted, ShapeInv
    <3>2. flying'[r] \in [Kinds -> Nat] /\ counts'[r] \in [Statuses -> Nat] /\ ready'[r] \in Nat
      BY <1>2, <1>3, <2>3, <3>1
    <3>3. flying[r] # NothingFlying
      BY <3>1 DEF NothingFlying
    <3> QED BY <2>1, <3>1, <3>2, <3>3 DEF JobType
  <2> QED BY <2>2, <2>3
<1>5. DOMAIN flying' = Running /\ DOMAIN ready' = Running /\ DOMAIN counts' = Running
  BY DEF Counted, ShapeInv
<1> QED BY <1>1, <1>4, <1>5 DEF ShapeInv, Counted

\* Every step of the script keeps its books in order.
LEMMA StepShape == ShapeInv /\ [HarnessNext]_allVars => ShapeInv'
<1> SUFFICES ASSUME ShapeInv, [HarnessNext]_allVars PROVE ShapeInv'
  OBVIOUS
<1>1. CASE BeginScenario
  <2> DEFINE begun == Suite(config)[step + 1]
  <2>1. /\ config \in Configs /\ step \in Nat /\ step + 1 \in 1 .. Len(Suite(config))
        /\ step' = step + 1 /\ config' = config /\ now' = now /\ outcome' = outcome
        /\ outcome = "running" /\ now \in Nat /\ started' = now
    BY <1>1, SuiteType DEF BeginScenario, ShapeInv, vars
  <2>2. begun.surface \in Surfaces /\ RolesOf(begun.scenario) \subseteq Roles
    BY <2>1, SuiteType
  <2>3. Scenario' = begun
    BY <2>1 DEF Scenario
  <2>4. /\ todo' = [r \in RolesOf(begun.scenario) |-> SpecsOf(r, begun.surface, Profile)]
        /\ flying' = [r \in RolesOf(begun.scenario) |-> NothingFlying]
        /\ ready' = [r \in RolesOf(begun.scenario) |-> now]
        /\ counts' = [r \in RolesOf(begun.scenario) |-> [s \in Statuses |-> 0]]
    BY <1>1 DEF BeginScenario
  <2>5. Running' = RolesOf(begun.scenario)
    BY <2>4 DEF Running
  <2>6. ASSUME NEW r \in Running'
        PROVE  JobType(r)'
    <3>1. SpecsOf(r, begun.surface, Profile) \in Seq(Kinds)
      BY <2>2, <2>5, ProfileAssumption
    <3>2. NothingFlying \in [Kinds -> Nat] /\ [s \in Statuses |-> 0] \in [Statuses -> Nat]
      BY DEF NothingFlying
    <3> QED BY <2>1, <2>4, <2>5, <3>1, <3>2 DEF JobType
  <2>7. step' \in 0 .. Len(Suite(config'))
    BY <2>1, SuiteType
  <2> HIDE DEF begun
  <2> QED BY <2>1, <2>3, <2>4, <2>5, <2>6, <2>7 DEF ShapeInv
<1>2. CASE EndScenario \/ \E role \in Running, kind \in Kinds : Fail(role, kind)
  <2>1. /\ config' = config /\ step' = step /\ now' = now
        /\ outcome' \in {"running", "aborted", "reported"}
        /\ todo' = << >> /\ flying' = << >> /\ ready' = << >> /\ counts' = << >>
        /\ started' = 0
    BY <1>2 DEF EndScenario, Fail, NoJob, vars, ShapeInv
  <2>2. Running' = {} /\ DOMAIN flying' = {} /\ DOMAIN ready' = {} /\ DOMAIN counts' = {}
    BY <2>1 DEF Running
  <2> QED BY <2>1, <2>2 DEF ShapeInv
<1>3. CASE Report
  <2>1. Running' = {} /\ Scenario' = Scenario
    BY <1>3 DEF Report, Running, job, Scenario
  <2> QED BY <1>3, <2>1 DEF Report, ShapeInv, job, vars, Running
<1>4. ASSUME NEW role \in Running, SendNext(role)
      PROVE  ShapeInv'
  <2>1. Running' = Running /\ Scenario' = Scenario /\ now' = now
    BY <1>4 DEF SendNext, Running, Scenario, vars, ShapeInv
  <2>2. ASSUME NEW r \in Running
        PROVE  JobType(r)'
    <3>1. JobType(r) /\ JobType(role)
      BY DEF ShapeInv
    <3>2. /\ Head(todo[role]) \in Kinds /\ Tail(todo[role]) \in Seq(Kinds)
          /\ [flying[role] EXCEPT ![Head(todo[role])] = 1] \in [Kinds -> Nat]
      BY <1>4, <3>1 DEF SendNext, JobType
    <3>3. CASE r = role
      <4>1. /\ todo'[r] = Tail(todo[role])
            /\ flying'[r] = [flying[role] EXCEPT ![Head(todo[role])] = 1]
            /\ ready'[r] = ready[r] /\ counts'[r] = counts[r] /\ ~AtOnce(r)
        BY <1>4, <3>3 DEF SendNext, ShapeInv, Running
      <4> QED BY <3>1, <3>2, <4>1 DEF JobType, AtOnce
    <3>4. CASE r # role
      <4>1. /\ todo'[r] = todo[r] /\ flying'[r] = flying[r]
            /\ ready'[r] = ready[r] /\ counts'[r] = counts[r]
        BY <1>4, <3>4 DEF SendNext, ShapeInv, Running
      <4> QED BY <3>1, <4>1 DEF JobType
    <3> QED BY <3>3, <3>4
  <2> QED BY <1>4, <2>1, <2>2 DEF ShapeInv, SendNext
<1>5. ASSUME NEW role \in Running, SendAll(role)
      PROVE  ShapeInv'
  <2>1. Running' = Running /\ Scenario' = Scenario /\ now' = now
    BY <1>5 DEF SendAll, Running, Scenario, vars, ShapeInv
  <2>2. ASSUME NEW r \in Running
        PROVE  JobType(r)'
    <3>1. JobType(r) /\ JobType(role)
      BY DEF ShapeInv
    <3>2. CASE r = role
      <4>1. /\ todo'[r] = << >> /\ flying'[r] = [k \in Kinds |-> Number(todo[role], k)]
            /\ ready'[r] = ready[r] /\ counts'[r] = counts[r]
        BY <1>5, <3>2 DEF SendAll, ShapeInv, Running
      <4>2. flying'[r] \in [Kinds -> Nat]
        BY <3>1, <4>1, NumbersAddUp DEF JobType
      <4> QED BY <3>1, <4>1, <4>2 DEF JobType
    <3>3. CASE r # role
      <4>1. /\ todo'[r] = todo[r] /\ flying'[r] = flying[r]
            /\ ready'[r] = ready[r] /\ counts'[r] = counts[r]
        BY <1>5, <3>3 DEF SendAll, ShapeInv, Running
      <4> QED BY <3>1, <4>1 DEF JobType
    <3> QED BY <3>2, <3>3
  <2> QED BY <1>5, <2>1, <2>2 DEF ShapeInv, SendAll
<1>6. ASSUME NEW role \in Running, NEW kind \in Kinds, Pass(role, kind) \/ Deny(role, kind)
      PROVE  ShapeInv'
  <2>1. now' = now /\ \E status \in Statuses : Counted(role, kind, status)
    BY <1>6 DEF Pass, Deny, Admit, Reject, Statuses
  <2> QED BY <2>1, CountedShape
<1>7. CASE Tick /\ UNCHANGED harness
  <2>1. now' \in Nat /\ Running' = Running /\ Scenario' = Scenario
    BY <1>7 DEF Tick, harness, job, Running, Scenario, ShapeInv
  <2>2. \A r \in Running : JobType(r)'
    BY <1>7 DEF harness, job, JobType, ShapeInv
  <2> QED BY <1>7, <2>1, <2>2 DEF ShapeInv, harness, job
<1>8. CASE UNCHANGED allVars
  <2>1. Running' = Running /\ Scenario' = Scenario /\ now' = now
    BY <1>8 DEF allVars, vars, harness, job, Running, Scenario
  <2>2. \A r \in Running : JobType(r)'
    BY <1>8 DEF allVars, harness, job, JobType, ShapeInv
  <2> QED BY <1>8, <2>1, <2>2 DEF ShapeInv, allVars, harness, job
<1> QED BY <1>1, <1>2, <1>3, <1>4, <1>5, <1>6, <1>7, <1>8 DEF HarnessNext

\* Every step of the script is a step of the limiter, or leaves it alone.
LEMMA StepUsesLimiter == ShapeInv /\ [HarnessNext]_allVars => [Next]_vars
<1> SUFFICES ASSUME ShapeInv, [HarnessNext]_allVars PROVE [Next]_vars
  OBVIOUS
<1>1. ASSUME NEW role \in Running, NEW kind \in Kinds, Pass(role, kind) \/ Deny(role, kind)
      PROVE  Next
  <2> DEFINE r == RequestOf(Id(role), kind)
  <2>1. r \in Requests /\ BucketOf(r) # Exempt
    BY RunningClient, ClientKeys DEF Id
  <2>2. Admit(KeyOf(r)) \/ Reject(KeyOf(r))
    BY <1>1 DEF Pass, Deny
  <2> HIDE DEF r
  <2> QED BY <2>1, <2>2 DEF Next, Handle
<1>2. ASSUME NEW role \in Running, SendNext(role) \/ SendAll(role)
      PROVE  UNCHANGED vars
  BY <1>2 DEF SendNext, SendAll
<1>3. CASE \E role \in Running, kind \in Kinds : Fail(role, kind)
  BY <1>3 DEF Fail
<1>4. CASE BeginScenario \/ EndScenario \/ Report
  BY <1>4 DEF BeginScenario, EndScenario, Report
<1>5. CASE Tick
  BY <1>5 DEF Next
<1>6. CASE UNCHANGED allVars
  BY <1>6 DEF allVars
<1> QED BY <1>1, <1>2, <1>3, <1>4, <1>5, <1>6 DEF HarnessNext

\* The script uses the service as RateLimiter describes: whatever it sends, when and
\* how much at once, is a sequence of calls of check (send_request,
\* reject_request_if_rate_limited).
THEOREM HarnessUsesLimiter == HarnessSpec => Spec
<1>1. HarnessInit => Init
  BY DEF HarnessInit
<1> QED BY <1>1, InitShape, StepShape, StepUsesLimiter, PTL DEF HarnessSpec, Spec

-----------------------------------------------------------------------------
(* The books.                                                              *)

Specs(role) == SpecsOf(role, Scenario.surface, Profile)

\* What the limiter has let through of a client.
Admissions(id) == Sum([b \in BucketNames |-> Len(admitted[<<id, b>>])])

\* Nothing is lost: requests are to be sent, on their way, or counted.
Balance(role) ==
    /\ Len(todo[role]) + Airborne(role) + TotalOf(counts[role]) = Len(Specs(role))
    /\ ~AtOnce(role) => Airborne(role) <= 1

\* What the limiter has admitted of a kind, and what may still come, is on the list.
Budget(role, kind) ==
    Len(admitted[<<Id(role), KindBucket[kind]>>]) + Number(todo[role], kind)
        + flying[role][kind] <= Number(Specs(role), kind)

\* The script and the limiter agree on what was accepted.
Agreement(role) == AcceptedBy(counts[role]) = Admissions(Id(role))

\* The limiter does not know the clients of later scenarios.
UntouchedInv ==
    \A i \in DOMAIN Suite(config) : i > step =>
        \A r \in RolesOf(Suite(config)[i].scenario), b \in BucketNames :
            admitted[<<ClientId[<<r, Suite(config)[i].surface>>], b>>] = << >>

Result == [scenario : [scenario : Scenarios, surface : Surfaces], duration : Int,
           counts : UNION {[R -> [Statuses -> Nat]] : R \in SUBSET Roles}]

\* The results of a scenario that is over.
Settled(i) ==
    /\ results[i].scenario = Suite(config)[i]
    /\ DOMAIN results[i].counts = RolesOf(Suite(config)[i].scenario)
    /\ \A role \in DOMAIN results[i].counts :
          LET c == results[i].counts[role]
              surface == Suite(config)[i].surface
          IN  /\ TotalOf(c) = Len(SpecsOf(role, surface, Profile))
              /\ AcceptedBy(c) = Admissions(ClientId[<<role, surface>>])

ResultsInv ==
    /\ results \in Seq(Result)
    /\ Len(results) = IF Running = {} /\ outcome # "aborted" THEN step ELSE step - 1
    /\ outcome = "reported" => Running = {} /\ step = Len(Suite(config))
    /\ \A i \in DOMAIN results : Settled(i)

BooksInv ==
    /\ \A role \in Running : Balance(role) /\ Agreement(role)
    /\ \A role \in Running, kind \in Kinds : Budget(role, kind)
    /\ UntouchedInv
    /\ ResultsInv
    /\ ModestNeverDenied

\* A kind has a bucket of its own, so its share of the bucket is all there is.
LEMMA ShareIsNumber ==
    ASSUME NEW s \in Seq(Kinds), NEW k \in Kinds
    PROVE  Share(s, KindBucket[k]) = Number(s, k)
<1>1. \A i \in DOMAIN s : s[i] \in Kinds
  OBVIOUS
<1>2. {i \in DOMAIN s : KindBucket[s[i]] = KindBucket[k]} = {i \in DOMAIN s : s[i] = k}
  BY <1>1, KindBuckets
<1> QED BY <1>2 DEF Share, Number

\* What one answer changes in the books of its client.
LEMMA CountedChanges ==
    ASSUME ShapeInv, NEW role \in Running, NEW kind \in Kinds, NEW status \in Statuses,
           Counted(role, kind, status)
    PROVE  /\ Running' = Running /\ Scenario' = Scenario /\ UNCHANGED todo
           /\ \A r \in Running \ {role} : flying'[r] = flying[r] /\ counts'[r] = counts[r]
           /\ flying[role][kind] >= 1
           /\ \A k \in Kinds : flying'[role][k] = IF k = kind THEN flying[role][k] - 1
                                                              ELSE flying[role][k]
           /\ Airborne(role)' = Airborne(role) - 1
           /\ TotalOf(counts[role])' = TotalOf(counts[role]) + 1
           /\ AcceptedBy(counts[role])'
                = AcceptedBy(counts[role]) + (IF status = "429" THEN 0 ELSE 1)
           /\ counts'[role]["429"] = counts[role]["429"] + (IF status = "429" THEN 1 ELSE 0)
<1>1. Running' = Running /\ Scenario' = Scenario /\ UNCHANGED todo
  BY DEF Counted, Running, Scenario
<1>2. flying[role] \in [Kinds -> Nat] /\ counts[role] \in [Statuses -> Nat]
  BY DEF ShapeInv, JobType
<1>3. DOMAIN flying = Running /\ DOMAIN counts = Running
  BY DEF ShapeInv
<1>4. /\ flying' = [flying EXCEPT ![role][kind] = @ - 1]
      /\ counts' = [counts EXCEPT ![role][status] = @ + 1]
      /\ flying[role][kind] > 0
  BY DEF Counted
<1>5. /\ flying'[role] = [flying[role] EXCEPT ![kind] = @ - 1]
      /\ counts'[role] = [counts[role] EXCEPT ![status] = @ + 1]
      /\ \A r \in Running \ {role} : flying'[r] = flying[r] /\ counts'[r] = counts[r]
  BY <1>3, <1>4
<1>6. \A k \in Kinds : flying'[role][k] = IF k = kind THEN flying[role][k] - 1
                                                      ELSE flying[role][k]
  BY <1>2, <1>5
<1>7. Airborne(role)' = Airborne(role) - 1
  <2>1. /\ flying[role]["read"] \in Nat /\ flying[role]["write"] \in Nat
        /\ flying[role]["batch"] \in Nat /\ flying[role]["mcp"] \in Nat
    BY <1>2 DEF Kinds
  <2> QED BY <1>6, <2>1 DEF Airborne, Kinds
<1>8. \A s \in Statuses : counts'[role][s] = IF s = status THEN counts[role][s] + 1
                                                           ELSE counts[role][s]
  BY <1>2, <1>5
<1>9. /\ counts[role]["passed"] \in Nat /\ counts[role]["failed"] \in Nat
      /\ counts[role]["429"] \in Nat
  BY <1>2 DEF Statuses
<1>10. /\ TotalOf(counts[role])' = TotalOf(counts[role]) + 1
       /\ AcceptedBy(counts[role])'
            = AcceptedBy(counts[role]) + (IF status = "429" THEN 0 ELSE 1)
       /\ counts'[role]["429"] = counts[role]["429"] + (IF status = "429" THEN 1 ELSE 0)
  BY <1>8, <1>9 DEF TotalOf, AcceptedBy, Statuses
<1>11. flying[role][kind] >= 1
  BY <1>2, <1>4
<1> QED BY <1>1, <1>5, <1>6, <1>7, <1>10, <1>11

\* What one admission changes in the limiter's log.
LEMMA AdmissionChanges ==
    ASSUME ShapeInv, TypeOK, NEW role \in Running, NEW kind \in Kinds,
           Admit(KeyOf(RequestOf(Id(role), kind))), NEW CONSTANT me, me = Id(role)
    PROVE  /\ Admissions(me)' = Admissions(me) + 1
           /\ \A id, b : <<id, b>> # <<me, KindBucket[kind]>> =>
                 admitted'[<<id, b>>] = admitted[<<id, b>>]
           /\ \A id : id # me => Admissions(id)' = Admissions(id)
           /\ Len(admitted'[<<me, KindBucket[kind]>>])
                = Len(admitted[<<me, KindBucket[kind]>>]) + 1
<1> DEFINE K == <<me, KindBucket[kind]>>
<1>1. KeyOf(RequestOf(Id(role), kind)) = K /\ \A k \in Kinds : <<me, KindBucket[k]>> \in Keys
  BY RunningClient, ClientKeys DEF Id
<1>2. admitted \in [Keys -> Seq(Nat)] /\ now \in Nat
  BY DEF TypeOK
<1>3. admitted' = [admitted EXCEPT ![K] = Append(@, now)]
  BY <1>1 DEF Admit
<1>4. \A id, b : <<id, b>> # K => admitted'[<<id, b>>] = admitted[<<id, b>>]
  BY <1>1, <1>2, <1>3
<1>5. Len(admitted'[K]) = Len(admitted[K]) + 1
  BY <1>1, <1>2, <1>3
<1>6. \A id : id # me => Admissions(id)' = Admissions(id)
  BY <1>4 DEF Admissions
<1>7. ASSUME NEW b \in BucketNames
      PROVE  /\ Len(admitted[<<me, b>>]) \in Nat
             /\ Len(admitted'[<<me, b>>]) = Len(admitted[<<me, b>>])
                                              + (IF b = KindBucket[kind] THEN 1 ELSE 0)
  <2>1. \E k \in Kinds : b = KindBucket[k]
    BY KindBuckets DEF BucketNames, Kinds
  <2>2. <<me, b>> \in Keys
    BY <1>1, <2>1
  <2>3. Len(admitted[<<me, b>>]) \in Nat
    BY <1>2, <2>2
  <2>4. CASE b = KindBucket[kind]
    BY <1>5, <2>3, <2>4
  <2>5. CASE b # KindBucket[kind]
    <3>1. admitted'[<<me, b>>] = admitted[<<me, b>>]
      BY <1>4, <2>5
    <3> QED BY <2>3, <2>5, <3>1
  <2> QED BY <2>4, <2>5
<1>8. Admissions(me)' = Admissions(me) + 1
  <2> DEFINE before(b) == Len(admitted[<<me, b>>])
             after(b) == Len(admitted'[<<me, b>>])
  <2>1. KindBucket[kind] \in BucketNames
    BY KindBuckets
  <2>2. /\ Admissions(me)' = after("reads") + after("writes") + after("batch") + after("mcp")
        /\ Admissions(me) = before("reads") + before("writes") + before("batch") + before("mcp")
    BY DEF Admissions, Sum, BucketNames
  <2>3. \A b \in BucketNames :
          before(b) \in Nat
          /\ after(b) = before(b) + (IF b = KindBucket[kind] THEN 1 ELSE 0)
    BY <1>7
  <2> HIDE DEF before, after
  <2> QED BY <2>1, <2>2, <2>3 DEF BucketNames
<1> QED BY <1>4, <1>5, <1>6, <1>8

\* The limiter has a log for every client that runs.
LEMMA AdmittedType ==
    ASSUME ShapeInv, TypeOK, NEW role \in Running, NEW k \in Kinds
    PROVE  Len(admitted[<<Id(role), KindBucket[k]>>]) \in Nat
<1>1. <<Id(role), KindBucket[k]>> \in Keys
  BY RunningClient, ClientKeys DEF Id
<1> QED BY <1>1 DEF TypeOK

\* No requests are on their way before the first is sent.
LEMMA NothingAirborne ==
    ASSUME NEW role, flying[role] = NothingFlying
    PROVE  Airborne(role) = 0 /\ \A k \in Kinds : flying[role][k] = 0
BY DEF Airborne, NothingFlying, Kinds

-----------------------------------------------------------------------------
(* How the books are kept.                                                 *)

\* The first books of a client.
LEMMA InitBooks == HarnessInit => BooksInv
<1> SUFFICES ASSUME HarnessInit PROVE BooksInv
  OBVIOUS
<1>1. Running = {} /\ config \in Configs /\ results = << >> /\ step = 0
      /\ outcome = "running"
  BY DEF HarnessInit, Running
<1>2. UntouchedInv
  <2> SUFFICES ASSUME NEW i \in DOMAIN Suite(config),
                      NEW r \in RolesOf(Suite(config)[i].scenario), NEW b \in BucketNames
               PROVE  admitted[<<ClientId[<<r, Suite(config)[i].surface>>], b>>] = << >>
    BY DEF UntouchedInv
  <2>1. <<r, Suite(config)[i].surface>> \in Roles \X Surfaces
    BY <1>1, SuiteType
  <2>2. \E k \in Kinds : b = KindBucket[k]
    BY KindBuckets DEF BucketNames, Kinds
  <2>3. <<ClientId[<<r, Suite(config)[i].surface>>], b>> \in Keys
    BY <2>1, <2>2, ClientKeys
  <2> QED BY <2>3 DEF HarnessInit, Init
<1>3. ResultsInv
  BY <1>1 DEF ResultsInv
<1> QED BY <1>1, <1>2, <1>3 DEF BooksInv, ModestNeverDenied

\* A scenario begins with clients the limiter has not met.
LEMMA BeginBooks ==
    ASSUME ShapeInv, BooksInv, BeginScenario
    PROVE  BooksInv'
<1> DEFINE begun == Suite(config)[step + 1]
<1>1. /\ config \in Configs /\ step \in Nat /\ step + 1 \in DOMAIN Suite(config)
      /\ step' = step + 1 /\ config' = config /\ outcome = "running" /\ Running = {}
      /\ outcome' = outcome /\ admitted' = admitted /\ results' = results
  BY SuiteType DEF BeginScenario, ShapeInv, vars
<1>2. /\ begun.surface \in Surfaces /\ RolesOf(begun.scenario) \subseteq Roles
      /\ RolesOf(begun.scenario) # {}
  BY <1>1, SuiteType DEF RolesOf
<1>3. Scenario' = begun
  BY <1>1 DEF Scenario
<1>4. /\ todo' = [r \in RolesOf(begun.scenario) |-> SpecsOf(r, begun.surface, Profile)]
      /\ flying' = [r \in RolesOf(begun.scenario) |-> NothingFlying]
      /\ counts' = [r \in RolesOf(begun.scenario) |-> [s \in Statuses |-> 0]]
  BY DEF BeginScenario
<1>5. Running' = RolesOf(begun.scenario)
  BY <1>4 DEF Running
<1> HIDE DEF begun
<1>6. ASSUME NEW r \in Running'
      PROVE  Balance(r)' /\ Agreement(r)' /\ counts'[r]["429"] = 0
             /\ \A k \in Kinds : Budget(r, k)'
  <2>1. /\ todo'[r] = SpecsOf(r, begun.surface, Profile) /\ flying'[r] = NothingFlying
        /\ counts'[r] = [s \in Statuses |-> 0] /\ todo'[r] \in Seq(Kinds)
    BY <1>2, <1>4, <1>5, ProfileAssumption
  <2>2. Specs(r)' = todo'[r]
    BY <1>3, <2>1 DEF Specs
  <2>3. Airborne(r)' = 0 /\ \A k \in Kinds : flying'[r][k] = 0
    BY <2>1 DEF Airborne, NothingFlying, Kinds
  <2>4. TotalOf(counts[r])' = 0 /\ AcceptedBy(counts[r])' = 0 /\ counts'[r]["429"] = 0
    BY <2>1 DEF TotalOf, AcceptedBy, Statuses
  <2>5. \A b \in BucketNames : admitted'[<<Id(r)', b>>] = << >>
    <3>1. \A b \in BucketNames :
            admitted[<<ClientId[<<r, Suite(config)[step + 1].surface>>], b>>] = << >>
      BY <1>1, <1>5 DEF BooksInv, UntouchedInv, begun
    <3> QED BY <1>1, <1>3, <3>1 DEF Id, begun
  <2>6. Admissions(Id(r))' = 0
    <3>1. \A b \in BucketNames : Len(admitted'[<<Id(r)', b>>]) = 0
      BY <2>5
    <3>2. Admissions(Id(r))' = Sum([b \in BucketNames |-> Len(admitted'[<<Id(r)', b>>])])
      BY DEF Admissions
    <3> DEFINE after == [b \in BucketNames |-> Len(admitted'[<<Id(r)', b>>])]
    <3>3. \A b \in BucketNames : after[b] = 0
      BY <3>1
    <3> HIDE DEF after
    <3>4. Sum(after) = 0
      BY <3>3 DEF Sum, BucketNames
    <3> QED BY <3>2, <3>4 DEF after
  <2>7. Balance(r)'
    BY <2>1, <2>2, <2>3, <2>4 DEF Balance
  <2>8. ASSUME NEW k \in Kinds
        PROVE  Budget(r, k)'
    <3>1. Len(admitted'[<<Id(r)', KindBucket[k]>>]) = 0
      BY <2>5, KindBuckets
    <3>2. Number(todo'[r], k) \in Nat
      BY <2>1, NumbersAddUp
    <3> QED BY <2>2, <2>3, <3>1, <3>2 DEF Budget
  <2> QED BY <2>4, <2>6, <2>7, <2>8 DEF Agreement
<1>7. UntouchedInv'
  <2>1. \A i \in DOMAIN Suite(config) : i > step' => i > step
    BY <1>1, SuiteType
  <2> QED BY <1>1, <2>1 DEF BooksInv, UntouchedInv
<1>8. ResultsInv'
  <2>1. \A i \in DOMAIN results : Settled(i)'
    BY <1>1 DEF BooksInv, ResultsInv, Settled, Admissions
  <2>2. Len(results) = step
    BY <1>1 DEF BooksInv, ResultsInv
  <2> QED BY <1>1, <1>2, <1>5, <2>1, <2>2 DEF BooksInv, ResultsInv
<1> QED BY <1>6, <1>7, <1>8 DEF BooksInv, ModestNeverDenied

\* What sending changes: as much as leaves the list goes on its way.
LEMMA SendChanges ==
    ASSUME ShapeInv, NEW role \in Running, SendNext(role) \/ SendAll(role)
    PROVE  /\ Len(todo'[role]) + Airborne(role)' = Len(todo[role]) + Airborne(role)
           /\ ~AtOnce(role) => Airborne(role)' = 1
           /\ \A k \in Kinds :
                 /\ Number(todo'[role], k) + flying'[role][k]
                      = Number(todo[role], k) + flying[role][k]
                 /\ Number(todo'[role], k) \in Nat /\ flying'[role][k] \in Nat
<1>1. JobType(role) /\ todo[role] \in Seq(Kinds) /\ flying[role] \in [Kinds -> Nat]
  BY DEF ShapeInv, JobType
<1>2. CASE SendNext(role)
  <2>1. /\ todo'[role] = Tail(todo[role]) /\ todo[role] # << >>
        /\ flying'[role] = [flying[role] EXCEPT ![Head(todo[role])] = 1]
        /\ flying[role] = NothingFlying
    BY <1>2 DEF SendNext, ShapeInv, Running
  <2>2. Head(todo[role]) \in Kinds /\ Len(todo[role]) = Len(Tail(todo[role])) + 1
        /\ Len(Tail(todo[role])) \in Nat
    BY <1>1, <2>1
  <2>3. \A k \in Kinds : flying'[role][k] = IF k = Head(todo[role]) THEN 1 ELSE 0
    BY <1>1, <2>1 DEF NothingFlying
  <2>4. Airborne(role) = 0 /\ \A k \in Kinds : flying[role][k] = 0
    BY <2>1, NothingAirborne
  <2>5. Airborne(role)' = 1
    BY <2>2, <2>3 DEF Airborne, Kinds
  <2>6. \A k \in Kinds :
          /\ Number(todo[role], k)
               = Number(Tail(todo[role]), k) + (IF k = Head(todo[role]) THEN 1 ELSE 0)
          /\ Number(Tail(todo[role]), k) \in Nat
    BY <1>1, <2>1, NumberOfTail, NumbersAddUp
  <2> QED BY <2>1, <2>2, <2>3, <2>4, <2>5, <2>6
<1>3. CASE SendAll(role)
  <2>1. /\ AtOnce(role) /\ todo[role] # << >> /\ todo'[role] = << >>
        /\ flying'[role] = [k \in Kinds |-> Number(todo[role], k)]
    BY <1>3 DEF SendAll, ShapeInv, Running
  <2>2. flying[role] = NothingFlying
    BY <1>1, <2>1 DEF JobType
  <2>3. Airborne(role) = 0 /\ \A k \in Kinds : flying[role][k] = 0
    BY <2>2, NothingAirborne
  <2>4. Airborne(role)' = Len(todo[role]) /\ \A k \in Kinds : Number(todo[role], k) \in Nat
    BY <1>1, <2>1, NumbersAddUp DEF Airborne, Kinds
  <2>5. Len(todo'[role]) = 0 /\ Len(todo[role]) \in Nat
    BY <1>1, <2>1
  <2>6. \A k \in Kinds : Number(todo'[role], k) = 0 /\ flying'[role][k] = Number(todo[role], k)
    BY <2>1, NumberOfNone
  <2> QED BY <2>1, <2>3, <2>4, <2>5, <2>6
<1> QED BY <1>2, <1>3

\* Sending takes a request off the list and puts it on its way.
LEMMA SendBooks ==
    ASSUME ShapeInv, TypeOK, BooksInv, NEW role \in Running, SendNext(role) \/ SendAll(role)
    PROVE  BooksInv'
<1>1. /\ Running' = Running /\ Scenario' = Scenario /\ admitted' = admitted
      /\ counts' = counts /\ config' = config /\ step' = step /\ outcome' = outcome
      /\ results' = results
      /\ \A r \in Running \ {role} : todo'[r] = todo[r] /\ flying'[r] = flying[r]
  BY DEF SendNext, SendAll, Running, Scenario, vars, ShapeInv
<1>2. JobType(role) /\ todo[role] \in Seq(Kinds) /\ flying[role] \in [Kinds -> Nat]
  BY DEF ShapeInv, JobType
<1>3. /\ Len(todo'[role]) + Airborne(role)' = Len(todo[role]) + Airborne(role)
      /\ ~AtOnce(role) => Airborne(role)' = 1
      /\ \A k \in Kinds :
            /\ Number(todo'[role], k) + flying'[role][k]
                 = Number(todo[role], k) + flying[role][k]
            /\ Number(todo'[role], k) \in Nat /\ flying'[role][k] \in Nat
  BY SendChanges
<1>4. ASSUME NEW r \in Running
      PROVE  /\ Balance(r)' /\ Agreement(r)'
             /\ \A k \in Kinds : Budget(r, k)'
  <2>1. Specs(r)' = Specs(r) /\ Id(r)' = Id(r)
    BY <1>1 DEF Specs, Id
  <2>2. Balance(r) /\ Agreement(r) /\ \A k \in Kinds : Budget(r, k)
    BY DEF BooksInv
  <2>3. Agreement(r)'
    BY <1>1, <2>1, <2>2 DEF Agreement, Admissions
  <2>4. CASE r # role
    <3>1. todo'[r] = todo[r] /\ flying'[r] = flying[r]
      BY <1>1, <2>4
    <3> QED BY <1>1, <2>1, <2>2, <2>3, <3>1 DEF Balance, Budget, Airborne
  <2>5. CASE r = role
    <3>1. TotalOf(counts[r])' = TotalOf(counts[r]) /\ TotalOf(counts[r]) \in Int
      BY <1>1 DEF TotalOf, AcceptedBy, ShapeInv, JobType, Statuses
    <3>2. Balance(r)'
      BY <1>3, <2>1, <2>2, <2>5, <3>1 DEF Balance
    <3>3. ASSUME NEW k \in Kinds
          PROVE  Budget(r, k)'
      <4>1. /\ Number(todo'[r], k) + flying'[r][k] = Number(todo[r], k) + flying[r][k]
            /\ Number(todo'[r], k) \in Nat /\ flying'[r][k] \in Nat
        BY <1>3, <2>5
      <4>2. Number(todo[r], k) \in Nat /\ flying[r][k] \in Nat
        BY <1>2, <2>5, NumbersAddUp
      <4>3. Budget(r, k)
        BY <2>2
      <4>4. Len(admitted[<<Id(r), KindBucket[k]>>]) \in Nat
        BY AdmittedType
      <4> QED BY <1>1, <2>1, <4>1, <4>2, <4>3, <4>4 DEF Budget
    <3> QED BY <2>3, <3>2, <3>3
  <2> QED BY <2>4, <2>5
<1>5. UntouchedInv' /\ ResultsInv'
  BY <1>1 DEF BooksInv, UntouchedInv, ResultsInv, Settled, Admissions
<1>6. ModestNeverDenied'
  BY <1>1 DEF BooksInv, ModestNeverDenied
<1> QED BY <1>1, <1>4, <1>5, <1>6 DEF BooksInv

\* A modest client is never denied: the limiter would have had to admit its whole
\* limit before, and then this request is one more than the list has.
LEMMA ModestIsAdmitted ==
    ASSUME ShapeInv, TypeOK, OverLimitOnly, BooksInv, NEW role \in Running,
           NEW kind \in Kinds, flying[role][kind] >= 1, Modest(Specs(role), Limits)
    PROVE  ~Reject(KeyOf(RequestOf(Id(role), kind)))
<1> DEFINE K == <<Id(role), KindBucket[kind]>>
<1>1. /\ KeyOf(RequestOf(Id(role), kind)) = K /\ K \in Keys
      /\ KindBucket[kind] \in BucketNames
  BY RunningClient, ClientKeys, KindBuckets DEF Id
<1>2. SUFFICES ASSUME Reject(K) PROVE FALSE
  BY <1>1
<1>3. ~WouldAdmit(K)
  BY <1>2 DEF Reject, WouldAdmit
<1>4. LimitOf(K) = Limits[KindBucket[kind]] /\ LimitOf(K) \in Nat
  BY <1>1, LimitType DEF LimitOf
<1>5. Len(admitted[K]) >= LimitOf(K)
  BY <1>1, <1>3 DEF OverLimitOnly
<1>6. Specs(role) \in Seq(Kinds)
  BY RunningClient, ProfileAssumption DEF Specs
<1>7. Number(Specs(role), kind) <= Limits[KindBucket[kind]]
  BY <1>1, <1>6, ShareIsNumber DEF Modest
<1>8. Len(admitted[K]) + Number(todo[role], kind) + flying[role][kind]
        <= Number(Specs(role), kind)
  BY DEF BooksInv, Budget
<1>9. /\ Len(admitted[K]) \in Nat /\ Number(todo[role], kind) \in Nat
      /\ flying[role][kind] \in Nat /\ Number(Specs(role), kind) \in Nat
  BY <1>6, AdmittedType, NumbersAddUp DEF ShapeInv, JobType
<1> HIDE DEF K
<1> QED BY <1>4, <1>5, <1>7, <1>8, <1>9

\* What an answer leaves as it is: the scenarios before and after this one.
LEMMA AnswerKeeps ==
    ASSUME ShapeInv, BooksInv, NEW role \in Running,
           UNCHANGED <<config, step, outcome, results>>, Running' = Running,
           \A id : id # Id(role) => Admissions(id)' = Admissions(id)
                                      /\ \A b : admitted'[<<id, b>>] = admitted[<<id, b>>]
    PROVE  UntouchedInv' /\ ResultsInv'
<1>1. config \in Configs /\ step \in DOMAIN Suite(config) /\ step \in Nat
      /\ role \in RolesOf(Suite(config)[step].scenario)
  BY RunningClient, SuiteType DEF Scenario, ShapeInv
<1>2. ASSUME NEW i \in DOMAIN Suite(config), i # step,
             NEW r \in RolesOf(Suite(config)[i].scenario)
      PROVE  ClientId[<<r, Suite(config)[i].surface>>] # Id(role)
  BY <1>1, <1>2, ClientsDiffer DEF Id, Scenario
<1>3. UntouchedInv'
  <2> SUFFICES ASSUME NEW i \in DOMAIN Suite(config), i > step,
                      NEW r \in RolesOf(Suite(config)[i].scenario), NEW b \in BucketNames
               PROVE  admitted'[<<ClientId[<<r, Suite(config)[i].surface>>], b>>] = << >>
    BY DEF UntouchedInv
  <2>1. i # step
    BY <1>1
  <2>2. admitted[<<ClientId[<<r, Suite(config)[i].surface>>], b>>] = << >>
    BY DEF BooksInv, UntouchedInv
  <2> QED BY <1>2, <2>1, <2>2
<1>4. ASSUME NEW i \in DOMAIN results
      PROVE  Settled(i)'
  <2>1. Settled(i) /\ i \in DOMAIN Suite(config) /\ i # step
    <3>1. Len(results) = step - 1 /\ DOMAIN results = 1 .. Len(results)
      BY DEF BooksInv, ResultsInv
    <3>2. DOMAIN Suite(config) = 1 .. Len(Suite(config)) /\ Len(Suite(config)) \in Nat
      BY <1>1, SuiteType
    <3> QED BY <1>1, <3>1, <3>2 DEF BooksInv, ResultsInv
  <2>2. \A r \in RolesOf(Suite(config)[i].scenario) :
          Admissions(ClientId[<<r, Suite(config)[i].surface>>])'
            = Admissions(ClientId[<<r, Suite(config)[i].surface>>])
    <3> SUFFICES ASSUME NEW CONSTANT r,
                        r \in RolesOf(Suite(config)[i].scenario)
                 PROVE  Admissions(ClientId[<<r, Suite(config)[i].surface>>])'
                          = Admissions(ClientId[<<r, Suite(config)[i].surface>>])
      OBVIOUS
    <3>1. PICK id : id = ClientId[<<r, Suite(config)[i].surface>>]
      OBVIOUS
    <3>2. id # Id(role)
      BY <1>2, <2>1, <3>1
    <3>3. \A b : admitted'[<<id, b>>] = admitted[<<id, b>>]
      BY <3>2
    <3>4. \A b : admitted'[<<ClientId[<<r, Suite(config')[i].surface>>], b>>]
                   = admitted[<<ClientId[<<r, Suite(config)[i].surface>>], b>>]
      BY <3>1, <3>3
    <3> QED BY <3>4 DEF Admissions
  <2> QED BY <2>1, <2>2 DEF Settled
<1>5. ResultsInv'
  BY <1>4 DEF BooksInv, ResultsInv
<1> QED BY <1>3, <1>5

\* An answer, be it an acceptance or a 429, is booked once on both sides.
LEMMA AnswerBooks ==
    ASSUME ShapeInv, TypeOK, OverLimitOnly, BooksInv, NEW role \in Running,
           NEW kind \in Kinds, Pass(role, kind) \/ Deny(role, kind)
    PROVE  BooksInv'
<1> DEFINE K == <<Id(role), KindBucket[kind]>>
<1>1. PICK status \in Statuses :
        /\ Counted(role, kind, status)
        /\ \/ status # "429" /\ Admit(KeyOf(RequestOf(Id(role), kind)))
           \/ status = "429" /\ Reject(KeyOf(RequestOf(Id(role), kind)))
  BY DEF Pass, Deny, Statuses
<1>2. /\ Running' = Running /\ Scenario' = Scenario /\ UNCHANGED todo
      /\ \A r \in Running \ {role} : flying'[r] = flying[r] /\ counts'[r] = counts[r]
      /\ flying[role][kind] >= 1
      /\ \A k \in Kinds : flying'[role][k] = IF k = kind THEN flying[role][k] - 1
                                                         ELSE flying[role][k]
      /\ Airborne(role)' = Airborne(role) - 1
      /\ TotalOf(counts[role])' = TotalOf(counts[role]) + 1
      /\ AcceptedBy(counts[role])'
           = AcceptedBy(counts[role]) + (IF status = "429" THEN 0 ELSE 1)
      /\ counts'[role]["429"] = counts[role]["429"] + (IF status = "429" THEN 1 ELSE 0)
  BY <1>1, CountedChanges
<1>3. UNCHANGED <<config, step, outcome, results>>
  BY <1>1 DEF Counted
<1>4. PICK me : me = Id(role)
  OBVIOUS
<1>5. /\ Admissions(me)' = Admissions(me) + (IF status = "429" THEN 0 ELSE 1)
      /\ \A id, b : <<id, b>> # <<me, KindBucket[kind]>> =>
            admitted'[<<id, b>>] = admitted[<<id, b>>]
      /\ \A id : id # me => Admissions(id)' = Admissions(id)
      /\ Len(admitted'[<<me, KindBucket[kind]>>])
           = Len(admitted[<<me, KindBucket[kind]>>]) + (IF status = "429" THEN 0 ELSE 1)
  <2>1. CASE status # "429"
    BY <1>1, <1>4, <2>1, AdmissionChanges
  <2>2. CASE status = "429"
    <3>1. admitted' = admitted
      BY <1>1, <2>2 DEF Reject
    <3>2. \A id : Admissions(id)' = Admissions(id)
      BY <3>1 DEF Admissions
    <3>3. Len(admitted[<<me, KindBucket[kind]>>]) \in Nat
      BY <1>4, AdmittedType
    <3>4. Admissions(me) \in Int
      <4>1. \A b \in BucketNames : Len(admitted[<<me, b>>]) \in Nat
        <5>1. \A b \in BucketNames : \E k \in Kinds : b = KindBucket[k]
          BY KindBuckets DEF BucketNames, Kinds
        <5> QED BY <1>4, <5>1, AdmittedType
      <4> QED BY <4>1 DEF Admissions, Sum, BucketNames
    <3> QED BY <2>2, <3>1, <3>2, <3>3, <3>4
  <2> QED BY <2>1, <2>2
<1>6. ASSUME NEW r \in Running
      PROVE  Specs(r)' = Specs(r) /\ Id(r)' = Id(r) /\ (r # role => Id(r) # me)
  <2>1. Specs(r)' = Specs(r) /\ Id(r)' = Id(r)
    BY <1>2 DEF Specs, Id
  <2>2. r # role => Id(r) # me
    BY <1>4, RunningClient, ClientAssumption DEF Id
  <2> QED BY <2>1, <2>2
<1>7. ASSUME NEW r \in Running
      PROVE  Balance(r)'
  <2>1. Balance(r) /\ Specs(r)' = Specs(r) /\ todo' = todo
    BY <1>2, <1>6 DEF BooksInv
  <2>2. CASE r = role
    <3>1. /\ flying[r] \in [Kinds -> Nat] /\ counts[r] \in [Statuses -> Nat]
          /\ todo[r] \in Seq(Kinds)
      BY DEF ShapeInv, JobType
    <3>2. Airborne(r) \in Nat /\ TotalOf(counts[r]) \in Nat /\ Len(todo[r]) \in Nat
      <4>1. \A k \in Kinds : flying[r][k] \in Nat
        BY <3>1
      <4>2. \A answered \in Statuses : counts[r][answered] \in Nat
        BY <3>1
      <4>3. Airborne(r) \in Nat
        BY <4>1 DEF Airborne, Kinds
      <4>4. TotalOf(counts[r]) \in Nat
        BY <4>2 DEF TotalOf, AcceptedBy, Statuses
      <4> QED BY <3>1, <4>3, <4>4
    <3> QED BY <1>2, <2>1, <2>2, <3>2 DEF Balance
  <2>3. CASE r # role
    <3>1. flying'[r] = flying[r] /\ counts'[r] = counts[r]
      BY <1>2, <2>3
    <3> QED BY <2>1, <3>1 DEF Balance, Airborne, TotalOf, AcceptedBy
  <2> QED BY <2>2, <2>3
<1>8. ASSUME NEW r \in Running
      PROVE  Agreement(r)'
  <2>1. Agreement(r) /\ Id(r)' = Id(r)
    BY <1>6 DEF BooksInv
  <2>2. PICK id : id = Id(r)
    OBVIOUS
  <2>3. Admissions(Id(r))' = Admissions(id)' /\ Admissions(Id(r)) = Admissions(id)
    BY <2>1, <2>2 DEF Admissions
  <2>4. CASE r = role
    BY <1>2, <1>4, <1>5, <2>1, <2>2, <2>3, <2>4 DEF Agreement
  <2>5. CASE r # role
    <3>1. counts'[r] = counts[r] /\ id # me
      BY <1>2, <1>6, <2>2, <2>5
    <3>2. AcceptedBy(counts[r])' = AcceptedBy(counts[r])
      BY <3>1 DEF AcceptedBy
    <3> QED BY <1>5, <2>1, <2>3, <3>1, <3>2 DEF Agreement
  <2> QED BY <2>4, <2>5
<1>9. ASSUME NEW r \in Running, NEW k \in Kinds
      PROVE  Budget(r, k)'
  <2>1. /\ Budget(r, k) /\ Specs(r)' = Specs(r) /\ Id(r)' = Id(r) /\ todo' = todo
        /\ Len(admitted[<<Id(r), KindBucket[k]>>]) \in Nat
        /\ Number(todo[r], k) \in Nat /\ flying[r][k] \in Nat
        /\ Number(Specs(r), k) \in Nat
    <3>1. Specs(r) \in Seq(Kinds)
      BY RunningClient, ProfileAssumption DEF Specs
    <3> QED BY <1>2, <1>6, <3>1, AdmittedType, NumbersAddUp DEF BooksInv, ShapeInv, JobType
  <2>2. CASE r = role /\ k = kind
    <3>1. /\ flying'[r][k] = flying[r][k] - 1
          /\ Len(admitted'[<<Id(r), KindBucket[k]>>])
               = Len(admitted[<<Id(r), KindBucket[k]>>]) + (IF status = "429" THEN 0 ELSE 1)
      BY <1>2, <1>4, <1>5, <2>2
    <3>2. Len(admitted[<<Id(r), KindBucket[k]>>]) + Number(todo[r], k) + flying[r][k]
            <= Number(Specs(r), k)
      BY <2>1 DEF Budget
    <3>3. Len(admitted'[<<Id(r), KindBucket[k]>>]) + Number(todo[r], k) + flying'[r][k]
            <= Number(Specs(r), k)
      <4> DEFINE log == Len(admitted[<<Id(r), KindBucket[k]>>])
                 longer == Len(admitted'[<<Id(r), KindBucket[k]>>])
      <4>1. log \in Nat /\ longer = log + (IF status = "429" THEN 0 ELSE 1)
        BY <2>1, <3>1, Zenon
      <4>2. log + Number(todo[r], k) + flying[r][k] <= Number(Specs(r), k)
        BY <3>2
      <4> HIDE DEF log, longer
      <4>3. longer + Number(todo[r], k) + (flying[r][k] - 1) <= Number(Specs(r), k)
        BY <2>1, <4>1, <4>2
      <4> QED BY <3>1, <4>3 DEF longer
    <3> QED BY <2>1, <3>3 DEF Budget
  <2>3. CASE r # role \/ k # kind
    <3>1. flying'[r][k] = flying[r][k]
      BY <1>2, <2>3
    <3>2. <<Id(r), KindBucket[k]>> # <<me, KindBucket[kind]>>
      BY <1>6, <2>3, KindBuckets
    <3>3. admitted'[<<Id(r), KindBucket[k]>>] = admitted[<<Id(r), KindBucket[k]>>]
      BY <1>5, <3>2
    <3> QED BY <2>1, <3>1, <3>3 DEF Budget
  <2> QED BY <2>2, <2>3
<1>10. ModestNeverDenied'
  <2> SUFFICES ASSUME NEW r \in Running, Modest(Specs(r), Limits)
               PROVE  counts'[r]["429"] = 0
    BY <1>2, <1>6 DEF ModestNeverDenied, Specs
  <2>1. counts[r]["429"] = 0
    BY DEF BooksInv, ModestNeverDenied, Specs
  <2>2. CASE r # role
    BY <1>2, <2>1, <2>2
  <2>3. CASE r = role
    <3>1. status # "429"
      BY <1>1, <1>2, <2>3, ModestIsAdmitted
    <3> QED BY <1>2, <2>1, <2>3, <3>1
  <2> QED BY <2>2, <2>3
<1>11. UntouchedInv' /\ ResultsInv'
  <2>1. \A id : id # Id(role) => Admissions(id)' = Admissions(id)
                                   /\ \A b : admitted'[<<id, b>>] = admitted[<<id, b>>]
    BY <1>4, <1>5
  <2> QED BY <1>2, <1>3, <2>1, AnswerKeeps
<1> QED BY <1>2, <1>7, <1>8, <1>9, <1>10, <1>11 DEF BooksInv

\* A scenario that is over is settled: everything was counted.
LEMMA EndBooks ==
    ASSUME ShapeInv, BooksInv, EndScenario
    PROVE  BooksInv'
<1> DEFINE row == [scenario |-> Scenario, duration |-> now - started, counts |-> counts]
<1>1. /\ Running # {} /\ Over /\ results' = Append(results, row)
      /\ todo' = << >> /\ UNCHANGED <<config, step, outcome>> /\ admitted' = admitted
  BY DEF EndScenario, NoJob, vars
<1>2. Running' = {}
  BY <1>1 DEF Running
<1>3. PICK one : one \in Running
  BY <1>1
<1>4. /\ config \in Configs /\ step \in DOMAIN Suite(config) /\ step \in Nat
      /\ Scenario = Suite(config)[step] /\ Running = RolesOf(Scenario.scenario)
      /\ Running \subseteq Roles /\ outcome = "running"
  BY <1>3, RunningClient, SuiteType DEF ShapeInv, Scenario
<1>5. row \in Result
  <2>1. Scenario \in [scenario : Scenarios, surface : Surfaces]
    <3>1. Suite(config) \in Seq([scenario : Scenarios, surface : Surfaces])
      BY <1>4, SuiteAssumption, Zenon
    <3>2. \A S, s : s \in Seq(S) => \A n \in DOMAIN s : s[n] \in S
      OBVIOUS
    <3> QED BY <1>4, <3>1, <3>2, Zenon
  <2>2. counts \in [Running -> [Statuses -> Nat]]
    BY DEF ShapeInv
  <2>3. now - started \in Int
    BY DEF ShapeInv
  <2> QED BY <1>4, <2>1, <2>2, <2>3 DEF Result
<1>6. results \in Seq(Result) /\ Len(results) = step - 1
  BY <1>1 DEF BooksInv, ResultsInv
<1>7. /\ results' \in Seq(Result) /\ Len(results') = step
      /\ DOMAIN results' = DOMAIN results \cup {step}
      /\ results'[step] = row /\ \A i \in DOMAIN results : results'[i] = results[i]
  <2> HIDE DEF row
  <2> QED BY <1>1, <1>4, <1>5, <1>6
<1>8. ASSUME NEW role \in Running
      PROVE  /\ TotalOf(counts[role]) = Len(Specs(role))
             /\ AcceptedBy(counts[role]) = Admissions(Id(role))
  <2>1. Len(todo[role]) = 0 /\ Airborne(role) = 0
    BY <1>1, NothingAirborne DEF Over
  <2>2. \A s \in Statuses : counts[role][s] \in Nat
    BY DEF ShapeInv, JobType
  <2>3. TotalOf(counts[role]) \in Nat
    BY <2>2 DEF TotalOf, AcceptedBy, Statuses
  <2> QED BY <2>1, <2>3 DEF BooksInv, Balance, Agreement
<1>9. ASSUME NEW i \in DOMAIN results'
      PROVE  Settled(i)'
  <2>1. CASE i \in DOMAIN results
    <3>1. Settled(i) /\ results'[i] = results[i]
      BY <1>7, <2>1 DEF BooksInv, ResultsInv
    <3> QED BY <1>1, <3>1 DEF Settled, Admissions
  <2>2. CASE i = step
    <3>1. /\ results'[i].scenario = Suite(config)[i]
          /\ results'[i].counts = counts /\ DOMAIN counts = RolesOf(Suite(config)[i].scenario)
      BY <1>4, <1>7, <2>2 DEF ShapeInv
    <3>2. ASSUME NEW role \in DOMAIN counts
          PROVE  /\ TotalOf(counts[role])
                      = Len(SpecsOf(role, Suite(config)[i].surface, Profile))
                 /\ AcceptedBy(counts[role])
                      = Admissions(ClientId[<<role, Suite(config)[i].surface>>])
      BY <1>4, <1>8, <2>2 DEF Specs, Id, ShapeInv
    <3> QED BY <1>1, <3>1, <3>2 DEF Settled, TotalOf, AcceptedBy, Admissions
  <2> QED BY <1>7, <2>1, <2>2
<1>10. ResultsInv'
  BY <1>1, <1>2, <1>4, <1>7, <1>9 DEF ResultsInv
<1>11. UntouchedInv'
  BY <1>1 DEF BooksInv, UntouchedInv
<1> QED BY <1>2, <1>10, <1>11 DEF BooksInv, ModestNeverDenied

\* Every step keeps the books.
LEMMA StepBooks ==
    ShapeInv /\ TypeOK /\ OverLimitOnly /\ BooksInv /\ [HarnessNext]_allVars => BooksInv'
<1> SUFFICES ASSUME ShapeInv, TypeOK, OverLimitOnly, BooksInv, [HarnessNext]_allVars
             PROVE  BooksInv'
  OBVIOUS
<1>1. CASE BeginScenario
  BY <1>1, BeginBooks
<1>2. CASE EndScenario
  BY <1>2, EndBooks
<1>3. ASSUME NEW role \in Running, SendNext(role) \/ SendAll(role)
      PROVE  BooksInv'
  BY <1>3, SendBooks
<1>4. ASSUME NEW role \in Running, NEW kind \in Kinds, Pass(role, kind) \/ Deny(role, kind)
      PROVE  BooksInv'
  BY <1>4, AnswerBooks
<1>5. ASSUME NEW role \in Running, NEW kind \in Kinds, Fail(role, kind)
      PROVE  BooksInv'
  <2>1. /\ outcome' = "aborted" /\ todo' = << >> /\ admitted' = admitted
        /\ UNCHANGED <<config, step, results>>
    BY <1>5 DEF Fail, NoJob, vars
  <2>2. Running' = {}
    BY <2>1 DEF Running
  <2>3. UntouchedInv'
    BY <2>1 DEF BooksInv, UntouchedInv
  <2>4. ResultsInv'
    <3>1. \A i \in DOMAIN results : Settled(i)'
      BY <2>1 DEF BooksInv, ResultsInv, Settled, Admissions
    <3>2. Len(results) = step - 1
      BY DEF BooksInv, ResultsInv
    <3> QED BY <2>1, <3>1, <3>2 DEF BooksInv, ResultsInv
  <2> QED BY <2>2, <2>3, <2>4 DEF BooksInv, ModestNeverDenied
<1>6. CASE Report
  <2>1. /\ outcome = "running" /\ outcome' = "reported" /\ Running = {} /\ Running' = {}
        /\ step = Len(Suite(config)) /\ admitted' = admitted
        /\ UNCHANGED <<config, step, results>>
    BY <1>6 DEF Report, job, Running, vars
  <2>2. UntouchedInv'
    BY <2>1 DEF BooksInv, UntouchedInv
  <2>3. ResultsInv'
    <3>1. \A i \in DOMAIN results : Settled(i)'
      BY <2>1 DEF BooksInv, ResultsInv, Settled, Admissions
    <3> QED BY <2>1, <3>1 DEF BooksInv, ResultsInv
  <2> QED BY <2>1, <2>2, <2>3 DEF BooksInv, ModestNeverDenied
<1>7. CASE (Tick /\ UNCHANGED harness) \/ UNCHANGED allVars
  <2>1. admitted' = admitted /\ UNCHANGED harness
    BY <1>7 DEF Tick, allVars, vars
  <2>2. /\ Running' = Running /\ Scenario' = Scenario
        /\ UNCHANGED <<config, step, outcome, todo, flying, counts, results>>
    BY <2>1 DEF harness, job, Running, Scenario
  <2>3. ASSUME NEW role \in Running
        PROVE  Balance(role)' /\ Agreement(role)' /\ \A kind \in Kinds : Budget(role, kind)'
    BY <2>1, <2>2 DEF BooksInv, Balance, Agreement, Budget, Specs, Id, Admissions, Airborne,
       TotalOf, AcceptedBy
  <2>4. UntouchedInv'
    BY <2>1, <2>2 DEF BooksInv, UntouchedInv
  <2>5. ResultsInv'
    <3>1. \A i \in DOMAIN results : Settled(i)'
      BY <2>1, <2>2 DEF BooksInv, ResultsInv, Settled, Admissions
    <3> QED BY <2>2, <3>1 DEF BooksInv, ResultsInv
  <2>6. ModestNeverDenied'
    BY <2>2 DEF BooksInv, ModestNeverDenied
  <2> QED BY <2>2, <2>3, <2>4, <2>5, <2>6 DEF BooksInv
<1> QED BY <1>1, <1>2, <1>3, <1>4, <1>5, <1>6, <1>7 DEF HarnessNext

-----------------------------------------------------------------------------
(* The theorems.                                                           *)

\* The limiter keeps its promises under everything the script does to it, so far as
\* the books rely on them.
LEMMA LimiterHolds == HarnessSpec => [](TypeOK /\ OverLimitOnly)
  BY HarnessUsesLimiter, LimiterTypeCorrect, RefusedOnlyOverLimit, PTL

\* The inductive invariant of the script.
THEOREM HarnessInvariance == HarnessSpec => [](ShapeInv /\ BooksInv)
  BY InitShape, StepShape, InitBooks, StepBooks, LimiterHolds, PTL DEF HarnessSpec

\* Type correctness and conservation: every request of a scenario is to be sent, on
\* its way, or counted (run_sequence, run_concurrent).
THEOREM NothingIsLost == HarnessSpec => []HarnessTypeOK
<1>1. TypeOK /\ ShapeInv /\ BooksInv => HarnessTypeOK
  <2> SUFFICES ASSUME TypeOK, ShapeInv, BooksInv PROVE HarnessTypeOK
    OBVIOUS
  <2>1. Len(results) \in {step, step - 1}
    BY DEF BooksInv, ResultsInv
  <2>2. ASSUME NEW role \in Running
        PROVE  /\ JobType(role) /\ Balance(role)
               /\ Specs(role) = SpecsOf(role, Scenario.surface, Profile)
    BY DEF ShapeInv, BooksInv, Specs
  <2> QED BY <2>1, <2>2 DEF HarnessTypeOK, ShapeInv, JobType, Balance
<1> QED BY <1>1, HarnessInvariance, LimiterHolds, PTL

\* A client that sends no more than its limits allow is never refused, whatever its
\* pace and whatever runs beside it (reject_request_if_rate_limited, X-Client-Id).
THEOREM ModestClientsAreServed == HarnessSpec => []ModestNeverDenied
<1>1. BooksInv => ModestNeverDenied
  BY DEF BooksInv
<1> QED BY <1>1, HarnessInvariance, PTL

\* A report that is written is about every request, and agrees with the limiter
\* (run_stress_suite, ScenarioResult).
THEOREM ReportIsTrue == HarnessSpec => []ReportAddsUp
<1>1. ShapeInv /\ BooksInv => ReportAddsUp
  <2> SUFFICES ASSUME ShapeInv, BooksInv, outcome = "reported"
               PROVE  /\ Len(results) = Len(Suite(config))
                      /\ \A i \in DOMAIN results : Settled(i)
    BY DEF ReportAddsUp, Settled, Admissions
  <2> QED BY DEF BooksInv, ResultsInv
<1> QED BY <1>1, HarnessInvariance, PTL

\* No flood gets more than twice its limit within a window's length.
THEOREM FloodsAreBounded == HarnessSpec => []BurstBound
  BY HarnessUsesLimiter, BurstsAreBounded, PTL

-----------------------------------------------------------------------------
(* Near the limit: how much of what a client sends is accepted.            *)

\* Either all that is on a client's list, of a kind, is still to be sent, on its
\* way, or admitted, or the limiter has admitted the whole limit.
Covered(role, kind) ==
    \/ Len(admitted[<<Id(role), KindBucket[kind]>>]) + Number(todo[role], kind)
          + flying[role][kind] = Number(Specs(role), kind)
    \/ Len(admitted[<<Id(role), KindBucket[kind]>>]) >= Limits[KindBucket[kind]]

NearInv ==
    /\ \A role \in Running, kind \in Kinds :
          Covered(role, kind) /\ Spaced(<<Id(role), KindBucket[kind]>>, started)
    /\ AcceptedNearLimit

\* The windows of a client that goes on are still those since its scenario began.
LEMMA SpacedKept ==
    ASSUME IInv, ShapeInv, [Next]_vars, NEW CONSTANT role, role \in Running,
           NEW CONSTANT kind \in Kinds, Scenario' = Scenario, started' = started,
           Spaced(<<Id(role), KindBucket[kind]>>, started)
    PROVE  Spaced(<<Id(role), KindBucket[kind]>>, started)'
<1>1. <<Id(role), KindBucket[kind]>> \in Keys
  BY RunningClient, ClientKeys DEF Id
<1>2. started \in Int
  BY DEF ShapeInv
<1>3. PICK k \in Keys : k = <<Id(role), KindBucket[kind]>>
  BY <1>1
<1>4. PICK begun \in Int : begun = started
  BY <1>2
<1>5. Spaced(k, begun)
  BY <1>3, <1>4
<1>6. Spaced(k, begun)'
  BY <1>5, SpacedStep
<1>7. k = <<Id(role)', KindBucket[kind]>> /\ begun = started'
  BY <1>3, <1>4 DEF Id
<1> QED BY <1>6, <1>7 DEF Spaced, After, LimitOf

\* Sending leaves what is covered covered.
LEMMA SendCovered ==
    ASSUME ShapeInv, TypeOK, NEW role \in Running, SendNext(role) \/ SendAll(role),
           NEW r \in Running, NEW k \in Kinds, Covered(r, k)
    PROVE  Covered(r, k)'
<1>1. /\ Scenario' = Scenario /\ admitted' = admitted
      /\ \A q \in Running \ {role} : todo'[q] = todo[q] /\ flying'[q] = flying[q]
  BY DEF SendNext, SendAll, Running, Scenario, vars, ShapeInv
<1>2. Specs(r)' = Specs(r) /\ Id(r)' = Id(r)
  BY <1>1 DEF Specs, Id
<1>3. Number(todo'[r], k) + flying'[r][k] = Number(todo[r], k) + flying[r][k]
  BY <1>1, SendChanges
<1>4. /\ Number(todo'[r], k) \in Nat /\ flying'[r][k] \in Nat
      /\ Number(todo[r], k) \in Nat /\ flying[r][k] \in Nat
  <2>1. Number(todo[r], k) \in Nat /\ flying[r][k] \in Nat
    BY NumbersAddUp DEF ShapeInv, JobType
  <2> QED BY <1>1, <2>1, SendChanges
<1>5. Len(admitted[<<Id(r), KindBucket[k]>>]) \in Nat
  BY AdmittedType
<1>6. Len(admitted'[<<Id(r)', KindBucket[k]>>]) = Len(admitted[<<Id(r), KindBucket[k]>>])
  BY <1>1, <1>2
<1> DEFINE log == Len(admitted[<<Id(r), KindBucket[k]>>])
           longer == Len(admitted'[<<Id(r)', KindBucket[k]>>])
           all == Number(Specs(r), k)
<1>7. log + Number(todo[r], k) + flying[r][k] = all \/ log >= Limits[KindBucket[k]]
  BY DEF Covered
<1>8. longer = log /\ log \in Nat
  BY <1>5, <1>6
<1> HIDE DEF log, longer, all
<1>9. longer + Number(todo'[r], k) + flying'[r][k] = all \/ longer >= Limits[KindBucket[k]]
  BY <1>3, <1>4, <1>7, <1>8
<1> QED BY <1>2, <1>9 DEF Covered, longer, all

\* So does an answer: an acceptance moves a request to the limiter's log, and a 429
\* means that the log is full (check).
LEMMA AnswerCovered ==
    ASSUME ShapeInv, TypeOK, OverLimitOnly, NEW role \in Running, NEW kind \in Kinds,
           Pass(role, kind) \/ Deny(role, kind),
           NEW r \in Running, NEW k \in Kinds, Covered(r, k)
    PROVE  Covered(r, k)'
<1>1. PICK status \in Statuses :
        /\ Counted(role, kind, status)
        /\ \/ status # "429" /\ Admit(KeyOf(RequestOf(Id(role), kind)))
           \/ status = "429" /\ Reject(KeyOf(RequestOf(Id(role), kind)))
  BY DEF Pass, Deny, Statuses
<1>2. /\ Scenario' = Scenario /\ UNCHANGED todo
      /\ \A q \in Running \ {role} : flying'[q] = flying[q]
      /\ flying[role][kind] >= 1
      /\ \A l \in Kinds : flying'[role][l] = IF l = kind THEN flying[role][l] - 1
                                                         ELSE flying[role][l]
  BY <1>1, CountedChanges
<1>3. Specs(r)' = Specs(r) /\ Id(r)' = Id(r)
  BY <1>2 DEF Specs, Id
<1>4. PICK me : me = Id(role)
  OBVIOUS
<1>5. /\ Number(todo[r], k) \in Nat /\ flying[r][k] \in Nat
      /\ Len(admitted[<<Id(r), KindBucket[k]>>]) \in Nat
  BY NumbersAddUp, AdmittedType DEF ShapeInv, JobType
<1>6. Limits[KindBucket[k]] \in Nat
  BY KindBuckets, LimiterAssumption
<1>7. CASE r = role /\ k = kind
  <2> DEFINE log == Len(admitted[<<Id(r), KindBucket[k]>>])
             longer == Len(admitted'[<<Id(r), KindBucket[k]>>])
             limit == Limits[KindBucket[k]]
             all == Number(Specs(r), k)
  <2>1. /\ log \in Nat /\ limit \in Nat /\ flying'[r][k] = flying[r][k] - 1
        /\ \/ log + Number(todo[r], k) + flying[r][k] = all
           \/ log >= limit
    BY <1>2, <1>5, <1>6, <1>7 DEF Covered
  <2>2. CASE status # "429"
    <3>1. longer = log + 1
      BY <1>1, <1>4, <1>7, <2>2, AdmissionChanges
    <3> HIDE DEF log, longer, limit, all
    <3>2. \/ longer + Number(todo[r], k) + flying'[r][k] = all
          \/ longer >= limit
      BY <1>5, <2>1, <3>1
    <3> QED BY <1>2, <1>3, <3>2 DEF Covered, longer, limit, all
  <2>3. CASE status = "429"
    <3>1. KeyOf(RequestOf(Id(r), k)) = <<Id(r), KindBucket[k]>>
          /\ <<Id(r), KindBucket[k]>> \in Keys
      BY RunningClient, ClientKeys DEF Id
    <3>2. Reject(<<Id(r), KindBucket[k]>>)
      BY <1>1, <1>7, <2>3, <3>1
    <3>3. ~WouldAdmit(<<Id(r), KindBucket[k]>>) /\ admitted' = admitted
      BY <3>2 DEF Reject, WouldAdmit
    <3>4. LimitOf(<<Id(r), KindBucket[k]>>) = limit
      BY DEF LimitOf
    <3>5. log >= limit
      BY <3>1, <3>3, <3>4 DEF OverLimitOnly
    <3> QED BY <1>3, <3>3, <3>5 DEF Covered
  <2> QED BY <2>2, <2>3
<1>8. CASE r # role \/ k # kind
  <2>1. flying'[r][k] = flying[r][k]
    BY <1>2, <1>8
  <2>2. <<Id(r), KindBucket[k]>> # <<me, KindBucket[kind]>>
    <3>1. r # role => Id(r) # me
      BY <1>4, RunningClient, ClientAssumption DEF Id
    <3> QED BY <1>8, <3>1, KindBuckets
  <2>3. admitted'[<<Id(r), KindBucket[k]>>] = admitted[<<Id(r), KindBucket[k]>>]
    <3>1. CASE status = "429"
      BY <1>1, <3>1 DEF Reject
    <3>2. CASE status # "429"
      <4>1. /\ KeyOf(RequestOf(Id(role), kind)) = <<me, KindBucket[kind]>>
            /\ <<Id(r), KindBucket[k]>> \in Keys
        BY <1>4, RunningClient, ClientKeys DEF Id
      <4>2. admitted' = [admitted EXCEPT ![<<me, KindBucket[kind]>>] = Append(@, now)]
        BY <1>1, <3>2, <4>1 DEF Admit
      <4> QED BY <2>2, <4>1, <4>2 DEF TypeOK
    <3> QED BY <3>1, <3>2
  <2> QED BY <1>2, <1>3, <2>1, <2>3 DEF Covered
<1> QED BY <1>7, <1>8

\* A new client's list is still to be sent, and the limiter has not met the client.
LEMMA BeginNear ==
    ASSUME IInv, UsedInv, ShapeInv, BooksInv, BeginScenario,
           NEW CONSTANT r, r \in Running', NEW CONSTANT k \in Kinds
    PROVE  Covered(r, k)' /\ Spaced(<<Id(r), KindBucket[k]>>, started)'
<1> DEFINE begun == Suite(config)[step + 1]
<1>1. /\ config \in Configs /\ step \in Nat /\ step + 1 \in DOMAIN Suite(config)
      /\ step' = step + 1 /\ config' = config
      /\ UNCHANGED vars /\ started' = now /\ now \in Nat
  BY SuiteType DEF BeginScenario, ShapeInv
<1>2. begun.surface \in Surfaces /\ RolesOf(begun.scenario) \subseteq Roles
  BY <1>1, SuiteType
<1>3. Scenario' = begun
  BY <1>1 DEF Scenario
<1>4. /\ todo' = [q \in RolesOf(begun.scenario) |-> SpecsOf(q, begun.surface, Profile)]
      /\ flying' = [q \in RolesOf(begun.scenario) |-> NothingFlying]
  BY DEF BeginScenario
<1>5. r \in RolesOf(begun.scenario)
  BY <1>4 DEF Running
<1>6. PICK key : key = <<Id(r)', KindBucket[k]>>
  OBVIOUS
<1>7. key \in Keys /\ admitted[key] = << >>
  <2>1. Id(r)' = ClientId[<<r, begun.surface>>]
    BY <1>3 DEF Id
  <2>2. <<r, begun.surface>> \in Roles \X Surfaces
    BY <1>2, <1>5
  <2>3. key \in Keys
    BY <1>6, <2>1, <2>2, ClientKeys
  <2>4. admitted[<<ClientId[<<r, begun.surface>>], KindBucket[k]>>] = << >>
    BY <1>1, <1>5, KindBuckets DEF BooksInv, UntouchedInv
  <2> QED BY <1>6, <2>1, <2>3, <2>4
<1>8. Spaced(<<Id(r), KindBucket[k]>>, started)'
  <2>1. Spaced(key, now)
    BY <1>7, FreshIsSpaced
  <2> QED BY <1>1, <1>6, <2>1 DEF Spaced, After, LimitOf, vars
<1>9. Covered(r, k)'
  <2>1. /\ todo'[r] = SpecsOf(r, begun.surface, Profile) /\ flying'[r] = NothingFlying
        /\ todo'[r] \in Seq(Kinds)
    BY <1>2, <1>4, <1>5, ProfileAssumption
  <2> HIDE DEF begun
  <2>2. Specs(r)' = todo'[r]
    BY <1>3, <2>1 DEF Specs
  <2>3. flying'[r][k] = 0
    BY <2>1 DEF NothingFlying
  <2>4. Len(admitted'[<<Id(r)', KindBucket[k]>>]) = 0
    BY <1>1, <1>6, <1>7 DEF vars
  <2>5. Number(todo'[r], k) \in Nat
    BY <2>1, NumbersAddUp
  <2> QED BY <2>2, <2>3, <2>4, <2>5 DEF Covered
<1> QED BY <1>8, <1>9

\* What a list could get of n windows.
Within(specs, n) == Sum([b \in BucketNames |-> Smaller(Share(specs, b), n * Limits[b])])

\* A client whose requests have all been answered got at least one window's worth of
\* what it sent, and at most that of every window since its scenario began.
LEMMA ClientNear ==
    ASSUME IInv, ShapeInv, BooksInv, NearInv, NEW role \in Running,
           todo[role] = << >>, flying[role] = NothingFlying
    PROVE  AcceptedBy(counts[role])
             \in Within(Specs(role), 1) .. Within(Specs(role), (now - started) \div Window + 1)
<1> DEFINE n == (now - started) \div Window + 1
           log(b) == Len(admitted[<<Id(role), b>>])
           least(b) == Smaller(Share(Specs(role), b), 1 * Limits[b])
           most(b) == Smaller(Share(Specs(role), b), n * Limits[b])
<1>1. n \in Int /\ started \in Int
  BY LimiterAssumption DEF ShapeInv
<1>2. TypeOK
  BY DEF IInv
<1>3. Specs(role) \in Seq(Kinds)
  BY RunningClient, ProfileAssumption DEF Specs
<1>4. ASSUME NEW k \in Kinds
      PROVE  LET b == KindBucket[k]
             IN  /\ log(b) \in Int /\ least(b) \in Int /\ most(b) \in Int
                 /\ least(b) <= log(b) /\ log(b) <= most(b)
  <2> DEFINE L == Limits[KindBucket[k]]
             S == Share(Specs(role), KindBucket[k])
             K == <<Id(role), KindBucket[k]>>
             a == Len(admitted[K])
  <2>1. S = Number(Specs(role), k) /\ S \in Nat
    BY <1>3, ShareIsNumber, NumbersAddUp
  <2>2. L \in Nat
    BY KindBuckets, LimiterAssumption
  <2>3. a \in Nat
    BY <1>2, AdmittedType
  <2>4. Number(todo[role], k) = 0 /\ flying[role][k] = 0
    BY NumberOfNone, NothingAirborne
  <2>5. a <= S
    <3>1. Budget(role, k)
      BY DEF BooksInv
    <3> QED BY <2>1, <2>3, <2>4, <3>1 DEF Budget
  <2>6. a = S \/ a >= L
    <3>1. Covered(role, k)
      BY DEF NearInv
    <3> QED BY <2>1, <2>3, <2>4, <3>1 DEF Covered
  <2>7. a <= n * L
    <3>1. K \in Keys
      BY RunningClient, ClientKeys DEF Id
    <3>2. Spaced(K, started)
      BY DEF NearInv
    <3>3. LimitOf(K) = L
      BY DEF LimitOf
    <3> QED BY <1>1, <3>1, <3>2, <3>3, AdmittedSince
  <2>8. n * L \in Int /\ 1 * L = L
    BY <1>1, <2>2
  <2>9. /\ log(KindBucket[k]) = a /\ least(KindBucket[k]) = Smaller(S, 1 * L)
        /\ most(KindBucket[k]) = Smaller(S, n * L)
    OBVIOUS
  <2> DEFINE P == n * L
  <2>10. P \in Int /\ a <= P /\ most(KindBucket[k]) = Smaller(S, P)
         /\ least(KindBucket[k]) = Smaller(S, L)
    BY <2>7, <2>8, <2>9
  <2>11. log(KindBucket[k]) = a
    BY <2>9
  <2> HIDE DEF L, S, K, a, P, n, log, least, most
  <2> QED BY <2>1, <2>2, <2>3, <2>5, <2>6, <2>10, <2>11 DEF Smaller
<1>5. /\ AcceptedBy(counts[role]) = log("reads") + log("writes") + log("batch") + log("mcp")
      /\ Within(Specs(role), 1)
           = least("reads") + least("writes") + least("batch") + least("mcp")
      /\ Within(Specs(role), n) = most("reads") + most("writes") + most("batch") + most("mcp")
  <2>1. AcceptedBy(counts[role]) = Admissions(Id(role))
    BY DEF BooksInv, Agreement
  <2>2. Admissions(Id(role)) = log("reads") + log("writes") + log("batch") + log("mcp")
    BY DEF Admissions, Sum, BucketNames
  <2>3. \A m : Within(Specs(role), m)
                 = Smaller(Share(Specs(role), "reads"), m * Limits["reads"])
                   + Smaller(Share(Specs(role), "writes"), m * Limits["writes"])
                   + Smaller(Share(Specs(role), "batch"), m * Limits["batch"])
                   + Smaller(Share(Specs(role), "mcp"), m * Limits["mcp"])
    BY DEF Within, Sum, BucketNames
  <2> QED BY <2>1, <2>2, <2>3
<1> HIDE DEF n, log, least, most
<1>6. \A b \in {"reads", "writes", "batch", "mcp"} :
        /\ log(b) \in Int /\ least(b) \in Int /\ most(b) \in Int
        /\ least(b) <= log(b) /\ log(b) <= most(b)
  <2>1. \A b \in {"reads", "writes", "batch", "mcp"} : \E k \in Kinds : b = KindBucket[k]
    BY KindBuckets DEF Kinds
  <2> QED BY <1>4, <2>1
<1> DEFINE l1 == log("reads")    l2 == log("writes")    l3 == log("batch")    l4 == log("mcp")
           a1 == least("reads")  a2 == least("writes")  a3 == least("batch")  a4 == least("mcp")
           z1 == most("reads")   z2 == most("writes")   z3 == most("batch")   z4 == most("mcp")
<1>7. /\ l1 \in Int /\ a1 \in Int /\ z1 \in Int /\ a1 <= l1 /\ l1 <= z1
      /\ l2 \in Int /\ a2 \in Int /\ z2 \in Int /\ a2 <= l2 /\ l2 <= z2
      /\ l3 \in Int /\ a3 \in Int /\ z3 \in Int /\ a3 <= l3 /\ l3 <= z3
      /\ l4 \in Int /\ a4 \in Int /\ z4 \in Int /\ a4 <= l4 /\ l4 <= z4
  BY <1>6
<1>8. /\ AcceptedBy(counts[role]) = l1 + l2 + l3 + l4
      /\ Within(Specs(role), 1) = a1 + a2 + a3 + a4
      /\ Within(Specs(role), n) = z1 + z2 + z3 + z4
  BY <1>5
<1> HIDE DEF l1, l2, l3, l4, a1, a2, a3, a4, z1, z2, z3, z4
<1>9. AcceptedBy(counts[role]) \in Within(Specs(role), 1) .. Within(Specs(role), n)
  <2>1. /\ AcceptedBy(counts[role]) \in Int
        /\ Within(Specs(role), 1) \in Int /\ Within(Specs(role), n) \in Int
    BY <1>7, <1>8
  <2>2. Within(Specs(role), 1) <= AcceptedBy(counts[role])
    BY <1>7, <1>8
  <2>3. AcceptedBy(counts[role]) <= Within(Specs(role), n)
    BY <1>7, <1>8
  <2> QED BY <2>1, <2>2, <2>3
<1> QED BY <1>9 DEF n

\* A scenario's results are near the limit when it ends.
LEMMA EndNear ==
    ASSUME IInv, ShapeInv, BooksInv, NearInv, EndScenario
    PROVE  NearInv'
<1> DEFINE row == [scenario |-> Scenario, duration |-> now - started, counts |-> counts]
<1>1. /\ Over /\ results' = Append(results, row) /\ todo' = << >>
  BY DEF EndScenario, NoJob
<1>2. Running' = {}
  BY <1>1 DEF Running
<1>3. DOMAIN counts = Running
  BY DEF ShapeInv
<1>4. \A role \in DOMAIN row.counts :
        AcceptedBy(row.counts[role])
          \in Within(SpecsOf(role, row.scenario.surface, Profile), 1)
              .. Within(SpecsOf(role, row.scenario.surface, Profile),
                        row.duration \div Window + 1)
  <2>1. \A role \in Running :
          AcceptedBy(counts[role])
            \in Within(Specs(role), 1) .. Within(Specs(role), (now - started) \div Window + 1)
    BY <1>1, ClientNear DEF Over
  <2> QED BY <1>3, <2>1 DEF Specs
<1> HIDE DEF row
<1>5. results \in Seq(Result)
  BY DEF BooksInv, ResultsInv
<1>6. \A i \in DOMAIN results' : results'[i] = row \/ (i \in DOMAIN results
                                                        /\ results'[i] = results[i])
  <2>1. PICK all : all = Append(results, row)
    OBVIOUS
  <2>2. \A i \in DOMAIN all : all[i] = row \/ (i \in DOMAIN results /\ all[i] = results[i])
    BY <1>5, <2>1
  <2> QED BY <1>1, <2>1, <2>2
<1>7. AcceptedNearLimit'
  <2> SUFFICES ASSUME NEW i \in DOMAIN results', NEW role \in DOMAIN results'[i].counts
               PROVE  AcceptedBy(results'[i].counts[role])
                        \in Within(SpecsOf(role, results'[i].scenario.surface, Profile), 1)
                            .. Within(SpecsOf(role, results'[i].scenario.surface, Profile),
                                      results'[i].duration \div Window + 1)
    BY DEF AcceptedNearLimit, Within, AcceptedBy
  <2>1. CASE results'[i] = row
    BY <1>4, <2>1
  <2>2. CASE i \in DOMAIN results /\ results'[i] = results[i]
    BY <2>2 DEF NearInv, AcceptedNearLimit, Within
  <2> QED BY <1>6, <2>1, <2>2
<1> QED BY <1>2, <1>7 DEF NearInv

\* Every step keeps the results near the limit, and the clients on their way there.
LEMMA StepNear ==
    IInv /\ UsedInv /\ OverLimitOnly /\ ShapeInv /\ BooksInv /\ NearInv
        /\ [HarnessNext]_allVars => NearInv'
<1> SUFFICES ASSUME IInv, UsedInv, OverLimitOnly, ShapeInv, BooksInv, NearInv,
                    [HarnessNext]_allVars
             PROVE  NearInv'
  OBVIOUS
<1>1. [Next]_vars /\ TypeOK
  BY StepUsesLimiter DEF IInv
<1>2. results' = results => AcceptedNearLimit'
  BY DEF NearInv, AcceptedNearLimit, AcceptedBy
<1>3. CASE BeginScenario
  <2>1. results' = results
    BY <1>3 DEF BeginScenario
  <2> QED BY <1>2, <1>3, <2>1, BeginNear DEF NearInv
<1>4. CASE EndScenario
  BY <1>4, EndNear
<1>5. ASSUME NEW role \in Running, SendNext(role) \/ SendAll(role)
      PROVE  NearInv'
  <2>1. /\ Running' = Running /\ Scenario' = Scenario /\ started' = started
        /\ results' = results
    BY <1>5 DEF SendNext, SendAll, Running, Scenario, ShapeInv
  <2>2. ASSUME NEW r \in Running, NEW k \in Kinds
        PROVE  Covered(r, k)' /\ Spaced(<<Id(r), KindBucket[k]>>, started)'
    BY <1>1, <1>5, <2>1, SendCovered, SpacedKept DEF NearInv
  <2> QED BY <1>2, <2>1, <2>2 DEF NearInv
<1>6. ASSUME NEW role \in Running, NEW kind \in Kinds, Pass(role, kind) \/ Deny(role, kind)
      PROVE  NearInv'
  <2>1. /\ Running' = Running /\ Scenario' = Scenario /\ started' = started
        /\ results' = results
    BY <1>6 DEF Pass, Deny, Counted, Running, Scenario
  <2>2. ASSUME NEW r \in Running, NEW k \in Kinds
        PROVE  Covered(r, k)' /\ Spaced(<<Id(r), KindBucket[k]>>, started)'
    BY <1>1, <1>6, <2>1, AnswerCovered, SpacedKept DEF NearInv
  <2> QED BY <1>2, <2>1, <2>2 DEF NearInv
<1>7. CASE Report \/ \E role \in Running, kind \in Kinds : Fail(role, kind)
  <2>1. results' = results /\ Running' = {}
    BY <1>7 DEF Report, Fail, NoJob, Running, job
  <2> QED BY <1>2, <2>1 DEF NearInv
<1>8. CASE (Tick /\ UNCHANGED harness) \/ UNCHANGED allVars
  <2>1. admitted' = admitted /\ UNCHANGED harness
    BY <1>8 DEF Tick, allVars, vars
  <2>2. /\ Running' = Running /\ Scenario' = Scenario
        /\ UNCHANGED <<todo, flying, started, results>>
    BY <2>1 DEF harness, job, Running, Scenario
  <2>3. ASSUME NEW r \in Running, NEW k \in Kinds
        PROVE  Covered(r, k)' /\ Spaced(<<Id(r), KindBucket[k]>>, started)'
    <3>1. Covered(r, k)'
      BY <2>1, <2>2 DEF NearInv, Covered, Specs, Id
    <3>2. Spaced(<<Id(r), KindBucket[k]>>, started)'
      BY <1>1, <2>2, SpacedKept DEF NearInv
    <3> QED BY <3>1, <3>2
  <2> QED BY <1>2, <2>2, <2>3 DEF NearInv
<1> QED BY <1>3, <1>4, <1>5, <1>6, <1>7, <1>8 DEF HarnessNext

\* What the report calls accepted is near the limit: all that was sent or at least
\* the limit, and no more than the limit for every window the scenario can have
\* touched (scripts/README.md:108).
THEOREM AcceptanceIsNearLimit == HarnessSpec => []AcceptedNearLimit
<1>1. HarnessInit => NearInv
  <2> SUFFICES ASSUME HarnessInit PROVE NearInv
    OBVIOUS
  <2>1. Running = {} /\ results = << >>
    BY DEF HarnessInit, Running
  <2> QED BY <2>1 DEF NearInv, AcceptedNearLimit
<1>2. NearInv => AcceptedNearLimit
  BY DEF NearInv
<1> QED BY <1>1, <1>2, StepNear, HarnessUsesLimiter, WindowsAreUsed, LimiterHolds,
           HarnessInvariance, PTL DEF HarnessSpec

=============================================================================

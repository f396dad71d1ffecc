--------------------------- MODULE Inputs_proofs ---------------------------
(***************************************************************************)
(* Proofs about what the service makes of what people write: the file and  *)
(* the environment of its operator (ConfigLoad), and the filters of its    *)
(* clients (Retrieval, over TextFilter).                                   *)
(*                                                                         *)
(* ConfigLoad: its type invariant, that the origins a process allows are   *)
(* those of one version of its file, that nothing in it is dropped in      *)
(* silence, and that what it works with once it has read its environment   *)
(* is what the operator asked for or a safe default.                       *)
(*                                                                         *)
(* Retrieval: for texts of any length, a search finds what has its term in *)
(* it, and a tag with no blank at its ends selects itself.                 *)
(*                                                                         *)
(* Both are about loops over sequences: the entries of the file that are   *)
(* kept, the characters that are escaped, the places a pattern can match.  *)
(* Each is shown by induction, over a set of numbers (UpTo), and each      *)
(* recursive definition is shown to be one that can be satisfied           *)
(* (Recursion).                                                            *)
(***************************************************************************)
EXTENDS ConfigLoad, Retrieval, FiniteSetTheorems, SequenceTheorems,
        WellFoundedInduction, TLAPS

-----------------------------------------------------------------------------
(* Induction.                                                              *)

\* A set of numbers that is not empty has a least one: the intervals 0 .. m are
\* ordered by inclusion.
LEMMA LeastNumber ==
    ASSUME NEW S \in SUBSET Nat, S # {}
    PROVE  \E m \in S : \A i \in S : m <= i
<1> DEFINE T == {0 .. m : m \in S}
<1>1. T \subseteq FiniteSubsetsOf(Nat)
  <2>1. \A m \in S : 0 .. m \subseteq Nat /\ m \in Int
    OBVIOUS
  <2>2. \A m \in S : IsFiniteSet(0 .. m)
    BY <2>1, FS_Interval
  <2> QED BY <2>1, <2>2 DEF FiniteSubsetsOf
<1>2. T # {}
  OBVIOUS
<1>3. PICK I \in T : \A J \in T : <<J, I>> \notin StrictSubsetOrdering(Nat)
  <2> HIDE DEF T
  <2> QED BY <1>1, <1>2, FS_StrictSubsetOrderingWellFounded, WFMin, Zenon
<1>4. PICK m \in S : I = 0 .. m
  BY <1>3
<1>5. ASSUME NEW i \in S, i < m
      PROVE  FALSE
  <2>1. 0 .. i \in T /\ 0 .. i \subseteq 0 .. m /\ m \notin 0 .. i /\ m \in 0 .. m
    BY <1>5
  <2>2. <<0 .. i, I>> \in StrictSubsetOrdering(Nat)
    BY <2>1, <1>4 DEF StrictSubsetOrdering
  <2> QED BY <1>3, <2>1, <2>2
<1> QED BY <1>4, <1>5

\* Induction up to N, over a set of numbers.
LEMMA UpTo ==
    ASSUME NEW N \in Nat, NEW S, 0 \in S, \A k \in 0 .. N - 1 : k \in S => k + 1 \in S
    PROVE  \A k \in 0 .. N : k \in S
<1> DEFINE Missing == {k \in 0 .. N : k \notin S}
<1>1. SUFFICES ASSUME Missing # {} PROVE FALSE
  OBVIOUS
<1>2. PICK m \in Missing : \A i \in Missing : m <= i
  <2>1. Missing \in SUBSET Nat
    OBVIOUS
  <2> HIDE DEF Missing
  <2> QED BY <1>1, <2>1, LeastNumber
<1>3. m # 0 /\ m \in 0 .. N
  BY <1>2
<1>4. m - 1 \in 0 .. N - 1 /\ m - 1 \notin Missing /\ (m - 1) + 1 = m
  BY <1>2, <1>3
<1> QED BY <1>2, <1>3, <1>4

\* A sequence of steps, each a function of what the one before has made, can be taken.
LEMMA Recursion ==
    ASSUME NEW V, NEW v \in V, NEW N \in Nat, NEW h \in [1 .. N -> [V -> V]]
    PROVE  \E f \in [0 .. N -> V] : f[0] = v /\ \A k \in 1 .. N : f[k] = h[k][f[k - 1]]
<1> DEFINE Run(f, n) == f[0] = v /\ \A k \in 1 .. n : f[k] = h[k][f[k - 1]]
           S == {n \in 0 .. N : \E f \in [0 .. n -> V] : Run(f, n)}
<1>1. 0 \in S
  <2> DEFINE f == [k \in 0 .. 0 |-> v]
  <2>1. f \in [0 .. 0 -> V] /\ f[0] = v /\ 1 .. 0 = {}
    OBVIOUS
  <2>2. Run(f, 0)
    BY <2>1
  <2> HIDE DEF f, Run
  <2> QED BY <2>1, <2>2
<1>2. ASSUME NEW n \in 0 .. N - 1, n \in S
      PROVE  n + 1 \in S
  <2>1. PICK f \in [0 .. n -> V] : Run(f, n)
    BY <1>2
  <2> DEFINE last == h[n + 1][f[n]]
             g == [k \in 0 .. n + 1 |-> IF k = n + 1 THEN last ELSE f[k]]
  <2>2. last \in V
    OBVIOUS
  <2>3. g \in [0 .. n + 1 -> V]
    <3>1. \A k \in 0 .. n + 1 : k # n + 1 => k \in 0 .. n
      OBVIOUS
    <3> HIDE DEF last
    <3> QED BY <2>2, <3>1
  <2>4. (\A k \in 0 .. n : g[k] = f[k]) /\ g[n + 1] = last
    <3>1. (\A k \in 0 .. n : k \in 0 .. n + 1 /\ k # n + 1) /\ n + 1 \in 0 .. n + 1
      OBVIOUS
    <3> HIDE DEF last
    <3> QED BY <3>1
  <2>5. ASSUME NEW k \in 1 .. n + 1
        PROVE  g[k] = h[k][g[k - 1]]
    <3> HIDE DEF g
    <3>1. CASE k = n + 1
      <4>1. k - 1 = n /\ n \in 0 .. n
        BY <3>1
      <4> QED BY <2>4, <3>1, <4>1
    <3>2. CASE k # n + 1
      <4>1. k \in 1 .. n /\ k \in 0 .. n /\ k - 1 \in 0 .. n
        BY <3>2
      <4> QED BY <2>1, <2>4, <4>1
    <3> QED BY <3>1, <3>2
  <2>6. g[0] = v
    <3>1. 0 \in 0 .. n
      OBVIOUS
    <3> HIDE DEF g
    <3> QED BY <2>1, <2>4, <3>1
  <2>7. n + 1 \in 0 .. N
    OBVIOUS
  <2> HIDE DEF g
  <2> QED BY <2>3, <2>5, <2>6, <2>7
<1>3. N \in S
  <2> HIDE DEF S
  <2>1. \A n \in 0 .. N - 1 : n \in S => n + 1 \in S
    BY <1>2
  <2>2. \A n \in 0 .. N : n \in S
    BY <1>1, <2>1, UpTo, Zenon
  <2> QED BY <2>2
<1> QED BY <1>3

-----------------------------------------------------------------------------
(* Configuration: the environment.                                         *)

\* The names that load_safety_config warns of.
Refused == {n \in Names : env[n] # NotSet /\ ~Usable(n, env[n])}

\* The settings are the reading of the environment the process has, from the moment
\* they are read.
SafetyInv ==
    phase \in {"lifespan", "serving"} =>
        /\ settings = [n \in Names |-> Setting(n)]
        /\ refused = Refused

\* Nothing is allowed and nobody is warned before the file is read; afterwards, without
\* a warning, everything is allowed that the file listed when it was read.
SilenceInv ==
    /\ phase \in {"exists", "read"} => origins = << >>
    /\ phase \in {"safety", "lifespan", "serving"} /\ ignored = {} =>
          \E f \in offered : f.state \in {"missing", "list"} /\ origins = f.entries

IInv == TypeOK /\ SafetyInv /\ SilenceInv

\* What one text is made into (_parse_bool_env, _parse_positive_int_env): limits are
\* off only for a word that means no, a number is positive, and a usable text is
\* obeyed.
LEMMA SettingIsSafe ==
    ASSUME IsEnvironment(env)
    PROVE  /\ Setting("enabled") \/ env["enabled"] = "no"
           /\ \A n \in Numbers : Setting(n) \in Nat \ {0}
           /\ \A n \in Names \ Refused :
                 env[n] = NotSet
                   \/ Setting(n) = (IF n = "enabled" THEN env[n] = "yes" ELSE env[n])
<1>1. Setting("enabled") \/ env["enabled"] = "no"
  <2>1. CASE env["enabled"] \in {"yes", "no"}
    BY <2>1 DEF Setting, Usable
  <2>2. CASE env["enabled"] \notin {"yes", "no"}
    BY <2>2, ConfigAssumption DEF Setting, Usable
  <2> QED BY <2>1, <2>2
<1>2. ASSUME NEW n \in Numbers
      PROVE  Setting(n) \in Nat \ {0}
  <2>1. n # "enabled"
    BY DEF Numbers, Buckets
  <2>2. CASE Usable(n, env[n])
    BY <2>1, <2>2 DEF Setting, Usable
  <2>3. CASE ~Usable(n, env[n])
    BY <2>3, ConfigAssumption DEF Setting
  <2> QED BY <2>2, <2>3
<1>3. ASSUME NEW n \in Names \ Refused, env[n] # NotSet
      PROVE  Setting(n) = (IF n = "enabled" THEN env[n] = "yes" ELSE env[n])
  <2>1. Usable(n, env[n])
    BY <1>3 DEF Refused
  <2>2. CASE n = "enabled"
    BY <2>1, <2>2 DEF Setting
  <2>3. CASE n # "enabled"
    BY <2>1, <2>3 DEF Setting
  <2> QED BY <2>2, <2>3
<1> QED BY <1>1, <1>2, <1>3

-----------------------------------------------------------------------------
(* What the loop over the entries keeps.                                   *)

\* What the loop has kept after k entries, from what it had before the k-th.
Keep(entries, kept, k) ==
    IF entries[k] \in Origins THEN Append(kept[k - 1], entries[k]) ELSE kept[k - 1]

\* kept records the first n turns of the loop.
Turns(entries, kept, n) ==
    kept[0] = << >> /\ \A k \in 1 .. n : kept[k] = Keep(entries, kept, k)

\* A recursive definition needs something that satisfies it: the loop can be run.
LEMMA LoopRuns ==
    ASSUME NEW e \in Seq(Entries)
    PROVE  \E kept : kept = [k \in 0 .. Len(e) |->
                                IF k = 0 THEN << >>
                                ELSE IF e[k] \in Origins THEN Append(kept[k - 1], e[k])
                                ELSE kept[k - 1]]
<1> DEFINE N == Len(e)
           V == Seq(Origins)
           v == << >>
           h == [k \in 1 .. N |-> [s \in V |-> IF e[k] \in Origins THEN Append(s, e[k]) ELSE s]]
<1>1. v \in V /\ N \in Nat /\ h \in [1 .. N -> [V -> V]]
  <2>1. \A s \in V, o \in Origins : Append(s, o) \in V
    OBVIOUS
  <2> QED BY <2>1
<1>2. PICK f \in [0 .. N -> V] : f[0] = v /\ \A k \in 1 .. N : f[k] = h[k][f[k - 1]]
  <2> HIDE DEF h, N, V, v
  <2>1. v \in V /\ N \in Nat /\ h \in [1 .. N -> [V -> V]]
    BY <1>1
  <2>2. \E f \in [0 .. N -> V] : f[0] = v /\ \A k \in 1 .. N : f[k] = h[k][f[k - 1]]
    BY <2>1, Recursion
  <2> QED BY <2>2
<1>3. ASSUME NEW k \in 0 .. N
      PROVE  f[k] = IF k = 0 THEN << >>
                    ELSE IF e[k] \in Origins THEN Append(f[k - 1], e[k])
                    ELSE f[k - 1]
  <2>1. CASE k = 0
    BY <2>1, <1>2
  <2>2. CASE k # 0
    <3>1. k \in 1 .. N /\ k - 1 \in 0 .. N
      BY <2>2
    <3> HIDE DEF V, N
    <3>2. f[k - 1] \in V /\ f[k] = h[k][f[k - 1]]
      BY <3>1, <1>2
    <3> QED BY <2>2, <3>1, <3>2
  <2> QED BY <2>1, <2>2
<1>4. f = [k \in 0 .. Len(e) |-> f[k]]
  OBVIOUS
<1> QED BY <1>3, <1>4

\* Good is what the loop has kept after its last turn.
LEMMA GoodIsTheLoop ==
    ASSUME NEW e \in Seq(Entries), NEW N \in Nat, N = Len(e)
    PROVE  \E kept : Turns(e, kept, N) /\ Good(e) = kept[N]
<1> DEFINE K == CHOOSE kept : kept = [k \in 0 .. Len(e) |->
                                IF k = 0 THEN << >>
                                ELSE IF e[k] \in Origins THEN Append(kept[k - 1], e[k])
                                ELSE kept[k - 1]]
<1>1. Good(e) = K[Len(e)]
  BY Zenon DEF Good
<1>2. K = [k \in 0 .. Len(e) |-> IF k = 0 THEN << >>
                                ELSE IF e[k] \in Origins THEN Append(K[k - 1], e[k])
                                ELSE K[k - 1]]
  BY LoopRuns, Zenon
<1> HIDE DEF K
<1>3. \A k \in 0 .. N : K[k] = IF k = 0 THEN << >>
                                ELSE IF e[k] \in Origins THEN Append(K[k - 1], e[k])
                                ELSE K[k - 1]
  BY <1>2, Zenon
<1>4. K[0] = << >>
  BY <1>3
<1>5. \A k \in 1 .. N : K[k] = Keep(e, K, k)
  BY <1>3 DEF Keep
<1> QED BY <1>1, <1>4, <1>5, Zenon DEF Turns

\* The loop keeps the origins among the entries, all of them and nothing else; a list
\* of origins it keeps as it is (load_browser_client_config).
LEMMA GoodKeeps ==
    ASSUME NEW e \in Seq(Entries)
    PROVE  /\ RangeOf(Good(e)) = RangeOf(e) \cap Origins
           /\ Bad(e) = {} => Good(e) = e
<1> DEFINE N == Len(e)
<1>1. N \in Nat /\ DOMAIN e = 1 .. N
  OBVIOUS
<1>2. PICK kept : Turns(e, kept, N) /\ Good(e) = kept[N]
  BY <1>1, GoodIsTheLoop
<1> DEFINE S == {k \in 0 .. N :
                   /\ kept[k] \in Seq(Origins)
                   /\ RangeOf(kept[k]) = {e[i] : i \in 1 .. k} \cap Origins
                   /\ (\A i \in 1 .. k : e[i] \in Origins) =>
                         Len(kept[k]) = k /\ \A i \in 1 .. k : kept[k][i] = e[i]}
<1>3. 0 \in S
  <2>1. kept[0] = << >>
    BY <1>2 DEF Turns
  <2>2. kept[0] \in Seq(Origins) /\ Len(kept[0]) = 0 /\ 1 .. 0 = {}
    BY <2>1
  <2>3. RangeOf(kept[0]) = {}
    BY <2>1 DEF RangeOf
  <2> QED BY <1>1, <2>2, <2>3
<1>4. ASSUME NEW k \in 0 .. N - 1, k \in S
      PROVE  k + 1 \in S
  <2>1. kept[k + 1] = IF e[k + 1] \in Origins THEN Append(kept[k], e[k + 1]) ELSE kept[k]
    BY <1>2 DEF Turns, Keep
  <2>2. {e[i] : i \in 1 .. k + 1} = {e[i] : i \in 1 .. k} \cup {e[k + 1]}
    OBVIOUS
  <2>3. CASE e[k + 1] \notin Origins
    BY <2>1, <2>2, <2>3, <1>4
  <2>4. CASE e[k + 1] \in Origins
    <3> DEFINE s == kept[k]
               u == kept[k + 1]
    <3>1. u = Append(s, e[k + 1]) /\ s \in Seq(Origins)
      BY <2>1, <2>4, <1>4
    <3>2. /\ u \in Seq(Origins) /\ Len(u) = Len(s) + 1
          /\ \A i \in 1 .. Len(s) : u[i] = s[i]
          /\ u[Len(s) + 1] = e[k + 1]
      <4> HIDE DEF s, u
      <4> QED BY <3>1, <2>4
    <3>3. RangeOf(u) = RangeOf(s) \cup {e[k + 1]}
      <4>1. DOMAIN u = 1 .. Len(s) + 1 /\ DOMAIN s = 1 .. Len(s) /\ Len(s) \in Nat
        BY <3>1, <3>2
      <4> HIDE DEF s, u
      <4> QED BY <4>1, <3>2 DEF RangeOf
    <3>4. RangeOf(u) = {e[i] : i \in 1 .. k + 1} \cap Origins
      BY <3>3, <2>2, <2>4, <1>4
    <3>5. (\A i \in 1 .. k + 1 : e[i] \in Origins) =>
             Len(u) = k + 1 /\ \A i \in 1 .. k + 1 : u[i] = e[i]
      BY <3>2, <1>4
    <3> QED BY <3>2, <3>4, <3>5
  <2> QED BY <2>3, <2>4
<1>5. N \in S
  <2> HIDE DEF S, N
  <2> QED BY <1>1, <1>3, <1>4, UpTo
<1>6. RangeOf(Good(e)) = RangeOf(e) \cap Origins
  BY <1>5, <1>2, <1>1 DEF RangeOf
<1>7. ASSUME Bad(e) = {}
      PROVE  Good(e) = e
  <2>1. \A i \in 1 .. N : e[i] \in Origins
    BY <1>7, <1>1 DEF Bad
  <2>2. Good(e) \in Seq(Origins) /\ Len(Good(e)) = N /\ \A i \in 1 .. N : Good(e)[i] = e[i]
    BY <2>1, <1>5, <1>2
  <2> HIDE DEF N
  <2> QED BY <2>2, <1>1
<1> QED BY <1>6, <1>7

-----------------------------------------------------------------------------
\* The invariant holds before the process looks for its file.
LEMMA InitInv == Init => IInv
<1> SUFFICES ASSUME Init PROVE IInv
  OBVIOUS
<1>1. TypeOK
  BY ConfigAssumption DEF Init, TypeOK
<1>2. SafetyInv
  BY DEF Init, SafetyInv
<1>3. SilenceInv
  BY DEF Init, SilenceInv
<1> QED BY <1>1, <1>2, <1>3 DEF IInv

\* Every step of a start, and everything the operator does, keeps it.
LEMMA StepInv == IInv /\ [Next]_vars => IInv'
<1> SUFFICES ASSUME IInv, [Next]_vars PROVE IInv'
  OBVIOUS
<1> USE DEF IInv
<1>1. CASE NoFile
  <2>1. file.entries = << >>
    BY <1>1 DEF NoFile, TypeOK, File
  <2>2. SilenceInv'
    BY <1>1, <2>1 DEF NoFile, TypeOK, SilenceInv
  <2> QED BY <1>1, <2>2 DEF NoFile, TypeOK, SafetyInv
<1>2. CASE FindFile
  BY <1>2 DEF FindFile, TypeOK, SafetyInv, SilenceInv
<1>3. CASE ReadUseless
  BY <1>3 DEF ReadUseless, TypeOK, SafetyInv, SilenceInv
<1>4. CASE ReadEntries
  <2>0. file.entries \in Seq(Entries)
    BY <1>4 DEF ReadEntries, TypeOK, File, Broken, Unexpected
  <2>1. Bad(file.entries) \subseteq Nat
    <3>1. DOMAIN file.entries = 1 .. Len(file.entries) /\ Len(file.entries) \in Nat
      BY <2>0
    <3> QED BY <3>1 DEF Bad
  <2>2. \E f \in offered : origins' = Good(f.entries)
    BY <1>4 DEF ReadEntries, TypeOK
  <2>3. TypeOK'
    BY <1>4, <2>1, <2>2 DEF ReadEntries, TypeOK
  <2>4. SafetyInv'
    BY <1>4 DEF ReadEntries, SafetyInv
  <2>5. Bad(file.entries) = {} => Good(file.entries) = file.entries
    BY <2>0, GoodKeeps
  <2>6. SilenceInv'
    BY <1>4, <2>5 DEF ReadEntries, TypeOK, SilenceInv
  <2> QED BY <2>3, <2>4, <2>6
<1>5. CASE ReadUnexpected
  BY <1>5 DEF ReadUnexpected, TypeOK, SafetyInv, SilenceInv
<1>6. CASE LoadSafety
  <2>1. TypeOK'
    BY <1>6 DEF LoadSafety, TypeOK
  <2>2. settings' = [n \in Names |-> Setting(n)'] /\ refused' = Refused'
    BY <1>6 DEF LoadSafety, Setting, Refused
  <2>3. SilenceInv'
    BY <1>6 DEF LoadSafety, SilenceInv
  <2> QED BY <2>1, <2>2, <2>3 DEF SafetyInv
<1>7. CASE Serve
  <2>1. TypeOK'
    BY <1>7 DEF Serve, TypeOK
  <2>2. SafetyInv'
    BY <1>7 DEF Serve, SafetyInv, Setting, Refused
  <2>3. SilenceInv'
    BY <1>7 DEF Serve, SilenceInv
  <2> QED BY <2>1, <2>2, <2>3
<1>8. CASE GiveUp
  BY <1>8 DEF GiveUp, TypeOK, SafetyInv, SilenceInv
<1>9. ASSUME NEW f \in Files, Edit(f)
      PROVE  IInv'
  <2>1. TypeOK'
    BY <1>9, ConfigAssumption DEF Edit, TypeOK
  <2>2. SafetyInv'
    BY <1>9 DEF Edit, SafetyInv, Setting, Refused
  <2>3. SilenceInv'
    BY <1>9 DEF Edit, SilenceInv
  <2> QED BY <2>1, <2>2, <2>3
<1>10. ASSUME NEW e \in Environments, Restart(e)
      PROVE  IInv'
  <2>1. TypeOK'
    BY <1>10, ConfigAssumption DEF Restart, TypeOK
  <2>2. SafetyInv'
    BY <1>10 DEF Restart, SafetyInv
  <2>3. SilenceInv'
    BY <1>10 DEF Restart, SilenceInv
  <2> QED BY <2>1, <2>2, <2>3
<1>11. CASE UNCHANGED vars
  BY <1>11 DEF vars, TypeOK, SafetyInv, SilenceInv, Setting, Refused
<1> QED
  BY <1>1, <1>2, <1>3, <1>4, <1>5, <1>6, <1>7, <1>8, <1>9, <1>10, <1>11
     DEF Next, Startup, Operator

\* The invariant, for every environment, file and number of edits.
THEOREM InvariantHolds == Spec => []IInv
  BY InitInv, StepInv, PTL DEF Spec

\* Type correctness: what a process allows is what it made of some version of its
\* file since its start (load_browser_client_config), or nothing.
THEOREM TypeCorrect == Spec => []TypeOK
<1>1. IInv => TypeOK
  BY DEF IInv
<1> QED BY <1>1, InvariantHolds, PTL

\* load_safety_config never yields a setting that a mistyped variable made unsafe.
THEOREM LimitsAreSafe == Spec => []LimitsSurviveTypos
<1>1. IInv => LimitsSurviveTypos
  <2> SUFFICES ASSUME IInv, phase \in {"lifespan", "serving"}
               PROVE  /\ ~settings["enabled"] => env["enabled"] = "no"
                      /\ \A n \in Numbers : settings[n] \in Nat \ {0}
                      /\ \A n \in Names \ refused :
                            env[n] = NotSet
                              \/ settings[n] = (IF n = "enabled" THEN env[n] = "yes"
                                                                 ELSE env[n])
    BY DEF LimitsSurviveTypos
  <2>1. \A n \in Names : settings[n] = Setting(n)
    BY DEF IInv, SafetyInv
  <2>2. refused = Refused /\ IsEnvironment(env)
    BY DEF IInv, SafetyInv, TypeOK
  <2>3. "enabled" \in Names /\ Numbers \subseteq Names
    BY DEF Names
  <2> QED BY <2>1, <2>2, <2>3, SettingIsSafe
<1> QED BY <1>1, InvariantHolds, PTL

\* Whatever happens to the file while a process starts, the origins it allows are all
\* those of one version of it, or none (load_browser_client_config).
THEOREM OriginsAreOneVersions == Spec => []OneVersionOfTheFile
<1>1. IInv => OneVersionOfTheFile
  <2> SUFFICES ASSUME IInv, origins # << >>
               PROVE  \E f \in offered : RangeOf(origins) = RangeOf(f.entries) \cap Origins
    BY DEF OneVersionOfTheFile
  <2>1. PICK f \in offered : origins = Good(f.entries)
    BY DEF IInv, TypeOK
  <2>2. f \in File
    BY DEF IInv, TypeOK
  <2>3. f.entries \in Seq(Entries)
    <3>1. << >> \in Seq(Entries)
      OBVIOUS
    <3> QED BY <2>2, <3>1 DEF File
  <2> QED BY <2>1, <2>3, GoodKeeps
<1> QED BY <1>1, InvariantHolds, PTL

\* A service that has warned of nothing allows what the file lists, entry by entry.
THEOREM SilenceMeansObedience == Spec => []SilenceIsObedience
<1>1. IInv => SilenceIsObedience
  BY DEF IInv, SilenceInv, SilenceIsObedience
<1> QED BY <1>1, InvariantHolds, PTL

-----------------------------------------------------------------------------
(* Searches: str.replace, character by character.                          *)

\* FlattenSeq appends one sequence after the other.
LEMMA FlattenSteps ==
    ASSUME NEW C, NEW seqs \in Seq(Seq(C))
    PROVE  \E flat \in [0 .. Len(seqs) -> Seq(C)] :
              /\ flat[0] = << >>
              /\ \A k \in 1 .. Len(seqs) : flat[k] = flat[k - 1] \o seqs[k]
              /\ Seqs!FlattenSeq(seqs) = flat[Len(seqs)]
<1> DEFINE N == Len(seqs)
<1>0. N \in Nat /\ \A k \in 1 .. N : seqs[k] \in Seq(C)
  OBVIOUS
<1>1. \E f \in [0 .. N -> Seq(C)] : f[0] = << >> /\ \A k \in 1 .. N : f[k] = f[k - 1] \o seqs[k]
  <2> DEFINE h == [k \in 1 .. N |-> [s \in Seq(C) |-> s \o seqs[k]]]
  <2>1. h \in [1 .. N -> [Seq(C) -> Seq(C)]]
    BY <1>0
  <2>2. << >> \in Seq(C)
    OBVIOUS
  <2>3. PICK f \in [0 .. N -> Seq(C)] :
           f[0] = << >> /\ \A k \in 1 .. N : f[k] = h[k][f[k - 1]]
    <3> DEFINE V == Seq(C)
               v == << >>
    <3>1. v \in V /\ N \in Nat /\ h \in [1 .. N -> [V -> V]]
      BY <1>0, <2>1, <2>2
    <3> HIDE DEF h, N, V, v
    <3>2. \E f \in [0 .. N -> V] : f[0] = v /\ \A k \in 1 .. N : f[k] = h[k][f[k - 1]]
      BY <3>1, Recursion
    <3> QED BY <3>2 DEF v, V
  <2>4. \A k \in 1 .. N : f[k - 1] \in Seq(C)
    <3>1. \A k \in 1 .. N : k - 1 \in 0 .. N
      BY <1>0
    <3> HIDE DEF N
    <3> QED BY <3>1
  <2>5. \A k \in 1 .. N : f[k] = f[k - 1] \o seqs[k]
    BY <2>3, <2>4
  <2> HIDE DEF N
  <2> QED BY <2>3, <2>5
<1>2. PICK f \in [0 .. N -> Seq(C)] :
         f[0] = << >> /\ \A k \in 1 .. N : f[k] = f[k - 1] \o seqs[k]
  BY <1>1
<1>3. CASE N = 0
  BY <1>2, <1>3 DEF Seqs!FlattenSeq
<1>4. CASE N # 0
  <2> DEFINE G == [i \in 1 .. Len(seqs) |-> f[i]]
  <2>1. G = [i \in 1 .. Len(seqs) |-> IF i = 1 THEN seqs[i] ELSE G[i - 1] \o seqs[i]]
    <3>1. ASSUME NEW i \in 1 .. Len(seqs)
          PROVE  f[i] = IF i = 1 THEN seqs[i] ELSE G[i - 1] \o seqs[i]
      <4>1. CASE i = 1
        <5>1. f[1] = f[0] \o seqs[1]
          <6>1. 1 \in 1 .. N /\ 1 - 1 = 0
            BY <1>0, <4>1
          <6> HIDE DEF N
          <6> QED BY <1>2, <6>1
        <5>2. seqs[1] \in Seq(C) /\ f[0] = << >>
          BY <1>0, <1>2, <4>1
        <5> QED BY <4>1, <5>1, <5>2
      <4>2. CASE i # 1
        <5>1. G[i - 1] = f[i - 1]
          BY <4>2, <1>0
        <5> HIDE DEF G
        <5> QED BY <5>1, <4>2, <1>2
      <4> QED BY <4>1, <4>2
    <3> QED BY <3>1, Zenon
  <2> DEFINE K == CHOOSE flatten : flatten = [i \in 1 .. Len(seqs) |->
                      IF i = 1 THEN seqs[i] ELSE flatten[i - 1] \o seqs[i]]
  <2>2. K = [i \in 1 .. Len(seqs) |-> IF i = 1 THEN seqs[i] ELSE K[i - 1] \o seqs[i]]
    <3> HIDE DEF G
    <3> QED BY <2>1, Zenon
  <2>3. Seqs!FlattenSeq(seqs) = K[Len(seqs)]
    BY <1>4, Zenon DEF Seqs!FlattenSeq
  <2> HIDE DEF K
  <2>4. \A i \in 1 .. N : K[i] = IF i = 1 THEN seqs[i] ELSE K[i - 1] \o seqs[i]
    BY <2>2, Zenon
  <2>5. \A i \in 1 .. N : f[i] = IF i = 1 THEN seqs[i] ELSE f[i - 1] \o seqs[i]
    <3>1. ASSUME NEW i \in 1 .. N
          PROVE  f[i] = IF i = 1 THEN seqs[i] ELSE f[i - 1] \o seqs[i]
      <4>1. CASE i # 1
        BY <4>1, <1>2
      <4>2. CASE i = 1
        <5>1. f[1] = G[1]
          BY <4>2
        <5>2. G[1] = seqs[1]
          <6> HIDE DEF G, N
          <6> QED BY <2>1, <4>2
        <5> QED BY <4>2, <5>1, <5>2
      <4> QED BY <4>1, <4>2
    <3> QED BY <3>1
  <2> DEFINE S == {i \in 0 .. N : i # 0 => K[i] = f[i]}
  <2>6. 0 \in S
    BY <1>0
  <2>7. ASSUME NEW i \in 0 .. N - 1, i \in S
        PROVE  i + 1 \in S
    <3>1. i + 1 \in 1 .. N /\ i + 1 \in 0 .. N /\ (i + 1) - 1 = i /\ (i + 1 = 1 <=> i = 0)
      BY <1>0
    <3>2. K[i + 1] = f[i + 1]
      <4> HIDE DEF N
      <4> QED BY <2>4, <2>5, <2>7, <3>1
    <3> QED BY <3>1, <3>2
  <2>8. N \in S
    <3> HIDE DEF S, N
    <3>1. \A i \in 0 .. N - 1 : i \in S => i + 1 \in S
      BY <2>7
    <3>2. \A i \in 0 .. N : i \in S
      BY <1>0, <2>6, <3>1, UpTo, Zenon
    <3> QED BY <1>0, <3>2
  <2>9. K[N] = f[N]
    BY <2>8, <1>4
  <2> HIDE DEF G
  <2> QED BY <1>2, <2>3, <2>9
<1> QED BY <1>3, <1>4

\* One sequence more, and its elements follow the others.
LEMMA FlattenAppend ==
    ASSUME NEW C, NEW seqs \in Seq(Seq(C)), NEW s \in Seq(C)
    PROVE  /\ Seqs!FlattenSeq(seqs) \in Seq(C)
           /\ Seqs!FlattenSeq(Append(seqs, s)) = Seqs!FlattenSeq(seqs) \o s
<1> DEFINE more == Append(seqs, s)
           N == Len(seqs)
<1>1. /\ N \in Nat /\ more \in Seq(Seq(C)) /\ Len(more) = N + 1
      /\ more[N + 1] = s /\ \A k \in 1 .. N : more[k] = seqs[k]
  OBVIOUS
<1> HIDE DEF more
<1>2. PICK f \in [0 .. N -> Seq(C)] :
         /\ f[0] = << >>
         /\ \A k \in 1 .. N : f[k] = f[k - 1] \o seqs[k]
         /\ Seqs!FlattenSeq(seqs) = f[N]
  BY FlattenSteps
<1>3. PICK g \in [0 .. N + 1 -> Seq(C)] :
         /\ g[0] = << >>
         /\ \A k \in 1 .. N + 1 : g[k] = g[k - 1] \o more[k]
         /\ Seqs!FlattenSeq(more) = g[N + 1]
  <2>1. \E g \in [0 .. Len(more) -> Seq(C)] :
           /\ g[0] = << >>
           /\ \A k \in 1 .. Len(more) : g[k] = g[k - 1] \o more[k]
           /\ Seqs!FlattenSeq(more) = g[Len(more)]
    BY <1>1, FlattenSteps
  <2>2. Len(more) = N + 1
    BY <1>1
  <2> HIDE DEF N
  <2> QED BY <2>1, <2>2, Zenon
<1> DEFINE S == {k \in 0 .. N : g[k] = f[k]}
<1> HIDE DEF N
<1>4. 0 \in S
  BY <1>1, <1>2, <1>3
<1>5. \A k \in 0 .. N - 1 : k \in S => k + 1 \in S
  <2> SUFFICES ASSUME NEW k \in 0 .. N - 1, k \in S PROVE k + 1 \in S
    OBVIOUS
  <2>1. k + 1 \in 1 .. N /\ k + 1 \in 1 .. N + 1 /\ (k + 1) - 1 = k /\ k + 1 \in 0 .. N
    BY <1>1
  <2> QED BY <1>1, <1>2, <1>3, <2>1
<1>6. N \in S
  <2> HIDE DEF S
  <2>1. \A k \in 0 .. N : k \in S
    BY <1>1, <1>4, <1>5, UpTo, Zenon
  <2> QED BY <1>1, <2>1
<1>7. g[N + 1] = g[N] \o s /\ f[N] \in Seq(C)
  <2>1. N + 1 \in 1 .. N + 1 /\ (N + 1) - 1 = N /\ N \in 0 .. N
    BY <1>1
  <2> QED BY <1>1, <1>3, <2>1
<1>8. Seqs!FlattenSeq(seqs) \in Seq(C) /\ Seqs!FlattenSeq(more) = Seqs!FlattenSeq(seqs) \o s
  BY <1>2, <1>3, <1>6, <1>7
<1> QED BY <1>8 DEF more

\* There is nothing to replace in an empty text.
LEMMA ReplacedNothing ==
    ASSUME NEW c, NEW by
    PROVE  Replaced(<< >>, c, by) = << >>
<1>1. [i \in DOMAIN << >> |-> IF << >>[i] = c THEN by ELSE << <<>>[i] >>] = << >>
  OBVIOUS
<1>2. Seqs!FlattenSeq(<< >>) = << >>
  BY DEF Seqs!FlattenSeq
<1> QED BY <1>1, <1>2 DEF Replaced

\* str.replace works character by character.
LEMMA ReplacedAppend ==
    ASSUME NEW t \in Seq(Alphabet), NEW x \in Alphabet, NEW c, NEW by \in Seq(Alphabet)
    PROVE  /\ Replaced(t, c, by) \in Seq(Alphabet)
           /\ x = c => Replaced(Append(t, x), c, by) = Replaced(t, c, by) \o by
           /\ x # c => Replaced(Append(t, x), c, by) = Append(Replaced(t, c, by), x)
<1> DEFINE C == Alphabet
<1> DEFINE One(y) == IF y = c THEN by ELSE <<y>>
           parts == [i \in DOMAIN t |-> One(t[i])]
           more == [i \in DOMAIN Append(t, x) |-> One(Append(t, x)[i])]
<1>1. \A y \in C : One(y) \in Seq(C)
  OBVIOUS
<1>2. parts \in Seq(Seq(C)) /\ Len(parts) = Len(t) /\ \A i \in 1 .. Len(t) : parts[i] = One(t[i])
  <2>1. DOMAIN t = 1 .. Len(t) /\ Len(t) \in Nat /\ \A i \in DOMAIN t : t[i] \in C
    OBVIOUS
  <2> HIDE DEF One
  <2> QED BY <1>1, <2>1
<1>3. more = Append(parts, One(x))
  <2>1. /\ Append(t, x) \in Seq(C) /\ Len(Append(t, x)) = Len(t) + 1
        /\ DOMAIN Append(t, x) = 1 .. Len(t) + 1 /\ Len(t) \in Nat
        /\ Append(t, x)[Len(t) + 1] = x
        /\ \A i \in 1 .. Len(t) : Append(t, x)[i] = t[i]
    OBVIOUS
  <2> DEFINE u == Append(t, x)
  <2> HIDE DEF u, One, parts
  <2>2. \A i \in 1 .. Len(t) + 1 : u[i] \in C
    BY <2>1 DEF u
  <2>3. /\ more \in Seq(Seq(C)) /\ Len(more) = Len(t) + 1
        /\ \A i \in 1 .. Len(t) + 1 : more[i] = One(u[i])
    <3>1. more = [i \in 1 .. Len(t) + 1 |-> One(u[i])]
      BY <2>1 DEF u
    <3>2. Len(t) + 1 \in Nat
      BY <2>1
    <3> HIDE DEF more
    <3> QED BY <1>1, <2>2, <3>1, <3>2
  <2> DEFINE other == Append(parts, One(x))
  <2>4. /\ other \in Seq(Seq(C)) /\ Len(other) = Len(t) + 1
        /\ other[Len(t) + 1] = One(x)
        /\ \A i \in 1 .. Len(t) : other[i] = One(t[i])
    <3> HIDE DEF more
    <3>1. One(x) \in Seq(C)
      BY <1>1
    <3> QED BY <1>2, <2>1, <3>1
  <2> HIDE DEF more, other
  <2>5. \A i \in 1 .. Len(t) + 1 : more[i] = other[i]
    <3>1. Len(t) \in Nat /\ u[Len(t) + 1] = x /\ \A i \in 1 .. Len(t) : u[i] = t[i]
      BY <2>1 DEF u
    <3>2. \A i \in 1 .. Len(t) : more[i] = other[i]
      <4>1. \A i \in 1 .. Len(t) : more[i] = One(u[i]) /\ u[i] = t[i] /\ other[i] = One(t[i])
        BY <2>3, <2>4, <3>1
      <4> QED BY <4>1, Zenon
    <3>3. more[Len(t) + 1] = other[Len(t) + 1]
      <4>1. more[Len(t) + 1] = One(u[Len(t) + 1])
        BY <2>3, <3>1
      <4> QED BY <2>4, <3>1, <4>1
    <3> QED BY <3>1, <3>2, <3>3
  <2>6. more = other
    BY <2>3, <2>4, <2>5
  <2> QED BY <2>6 DEF other
<1>4. Replaced(t, c, by) = Seqs!FlattenSeq(parts)
  BY DEF Replaced
<1>5. Replaced(Append(t, x), c, by) = Seqs!FlattenSeq(more)
  BY DEF Replaced
<1> HIDE DEF parts, more
<1>7. One(x) \in Seq(C)
  BY <1>1
<1> HIDE DEF One
<1>8. /\ Seqs!FlattenSeq(parts) \in Seq(C)
      /\ Seqs!FlattenSeq(Append(parts, One(x))) = Seqs!FlattenSeq(parts) \o One(x)
  BY <1>2, <1>7, FlattenAppend
<1>9. Replaced(Append(t, x), c, by) = Replaced(t, c, by) \o One(x)
  BY <1>3, <1>4, <1>5, <1>8
<1>10. Replaced(t, c, by) \o <<x>> = Append(Replaced(t, c, by), x)
  BY <1>4, <1>8
<1> QED BY <1>4, <1>8, <1>9, <1>10 DEF One

\* Putting a backslash before a character, wherever it is.
LEMMA Guarded ==
    ASSUME NEW t \in Seq(Alphabet), NEW x \in Alphabet, NEW c \in Alphabet
    PROVE  LET R(s) == Replaced(s, c, <<"\\", c>>)
           IN  /\ R(<< >>) = << >>
               /\ R(t) \in Seq(Alphabet)
               /\ x # c => R(Append(t, x)) = Append(R(t), x)
               /\ x = c => R(Append(t, x)) = Append(Append(R(t), "\\"), x)
<1> DEFINE by == <<"\\", c>>
           r == Replaced(t, c, by)
<1>1. "\\" \in Alphabet
  BY DEF Alphabet, Marks
<1>2. by \in Seq(Alphabet) /\ Len(by) = 2 /\ by[1] = "\\" /\ by[2] = c
  BY <1>1
<1> HIDE DEF by
<1>3. /\ r \in Seq(Alphabet)
      /\ x = c => Replaced(Append(t, x), c, by) = r \o by
      /\ x # c => Replaced(Append(t, x), c, by) = Append(r, x)
  <2>1. by \in Seq(Alphabet)
    BY <1>2
  <2> QED BY <2>1, ReplacedAppend
<1>4. Replaced(<< >>, c, by) = << >>
  BY ReplacedNothing
<1> HIDE DEF r
<1>5. r \o by = Append(Append(r, "\\"), c)
  <2> DEFINE u == r \o by
             v == Append(Append(r, "\\"), c)
  <2>1. /\ u \in Seq(Alphabet) /\ Len(u) = Len(r) + 2 /\ Len(r) \in Nat
        /\ \A i \in 1 .. Len(r) + 2 : u[i] = IF i <= Len(r) THEN r[i] ELSE by[i - Len(r)]
    <3>1. r \in Seq(Alphabet) /\ by \in Seq(Alphabet) /\ Len(by) = 2 /\ Len(r) \in Nat
      BY <1>2, <1>3
    <3>2. /\ u \in Seq(Alphabet) /\ Len(u) = Len(r) + Len(by)
          /\ \A i \in 1 .. Len(r) + Len(by) : u[i] = IF i <= Len(r) THEN r[i] ELSE by[i - Len(r)]
      BY <3>1, ConcatProperties, Zenon
    <3> QED BY <3>1, <3>2
  <2>2. /\ v \in Seq(Alphabet) /\ Len(v) = Len(r) + 2
        /\ v[Len(r) + 1] = "\\" /\ v[Len(r) + 2] = c
        /\ \A i \in 1 .. Len(r) : v[i] = r[i]
    BY <1>1, <1>3
  <2> HIDE DEF u, v
  <2>3. \A i \in 1 .. Len(r) + 2 : u[i] = v[i]
    <3>1. u[Len(r) + 1] = by[1] /\ u[Len(r) + 2] = by[2]
      BY <2>1
    <3>2. \A i \in 1 .. Len(r) : u[i] = r[i]
      BY <2>1
    <3> QED BY <1>2, <2>1, <2>2, <3>1, <3>2
  <2>4. u = v
    BY <2>1, <2>2, <2>3
  <2> QED BY <2>4 DEF u, v
<1> QED BY <1>3, <1>4, <1>5 DEF r, by

\* The characters that mean something in a pattern.
Special == {"\\", "%", "_"}

\* _escape_like_pattern puts a backslash before these, and nothing else happens.
LEMMA EscapedAppend ==
    ASSUME NEW t \in Seq(Alphabet), NEW x \in Alphabet
    PROVE  /\ Escaped(<< >>) = << >>
           /\ Escaped(t) \in Seq(Alphabet)
           /\ x \notin Special => Escaped(Append(t, x)) = Append(Escaped(t), x)
           /\ x \in Special => Escaped(Append(t, x)) = Append(Append(Escaped(t), "\\"), x)
<1> DEFINE A(s) == Replaced(s, "\\", <<"\\", "\\">>)
           B(s) == Replaced(s, "%", <<"\\", "%">>)
           C(s) == Replaced(s, "_", <<"\\", "_">>)
<1>1. "\\" \in Alphabet /\ "%" \in Alphabet /\ "_" \in Alphabet
  BY DEF Alphabet, Marks
<1>2. \A s \in Seq(Alphabet), y \in Alphabet :
         /\ A(<< >>) = << >> /\ A(s) \in Seq(Alphabet)
         /\ y # "\\" => A(Append(s, y)) = Append(A(s), y)
         /\ y = "\\" => A(Append(s, y)) = Append(Append(A(s), "\\"), y)
  BY <1>1, Guarded
<1>3. \A s \in Seq(Alphabet), y \in Alphabet :
         /\ B(<< >>) = << >> /\ B(s) \in Seq(Alphabet)
         /\ y # "%" => B(Append(s, y)) = Append(B(s), y)
         /\ y = "%" => B(Append(s, y)) = Append(Append(B(s), "\\"), y)
  BY <1>1, Guarded
<1>4. \A s \in Seq(Alphabet), y \in Alphabet :
         /\ C(<< >>) = << >> /\ C(s) \in Seq(Alphabet)
         /\ y # "_" => C(Append(s, y)) = Append(C(s), y)
         /\ y = "_" => C(Append(s, y)) = Append(Append(C(s), "\\"), y)
  BY <1>1, Guarded
<1>5. \A s : Escaped(s) = C(B(A(s)))
  BY DEF Escaped
<1> HIDE DEF A, B, C
<1>6. Escaped(<< >>) = << >>
  BY <1>2, <1>3, <1>4, <1>5
<1>7. A(t) \in Seq(Alphabet) /\ B(A(t)) \in Seq(Alphabet) /\ C(B(A(t))) \in Seq(Alphabet)
  BY <1>2, <1>3, <1>4
<1>8. \A s \in Seq(Alphabet), y \in Alphabet : Append(s, y) \in Seq(Alphabet)
  OBVIOUS
<1>9. CASE x \notin Special
  <2>1. A(Append(t, x)) = Append(A(t), x)
    BY <1>2, <1>9 DEF Special
  <2>2. B(A(Append(t, x))) = Append(B(A(t)), x)
    BY <1>3, <1>7, <1>9, <2>1 DEF Special
  <2>3. C(B(A(Append(t, x)))) = Append(C(B(A(t))), x)
    BY <1>4, <1>7, <1>9, <2>2 DEF Special
  <2> QED BY <1>5, <1>6, <1>7, <1>9, <2>3
<1>10. CASE x = "\\"
  <2>1. A(Append(t, x)) = Append(Append(A(t), "\\"), x)
    BY <1>2, <1>10
  <2>2. B(A(Append(t, x))) = Append(Append(B(A(t)), "\\"), x)
    <3>1. Append(A(t), "\\") \in Seq(Alphabet)
      BY <1>1, <1>7, <1>8
    <3>2. B(Append(Append(A(t), "\\"), x)) = Append(B(Append(A(t), "\\")), x)
      BY <1>3, <1>10, <3>1
    <3>3. B(Append(A(t), "\\")) = Append(B(A(t)), "\\")
      BY <1>1, <1>3, <1>7
    <3> QED BY <2>1, <3>2, <3>3
  <2>3. C(B(A(Append(t, x)))) = Append(Append(C(B(A(t))), "\\"), x)
    <3>1. Append(B(A(t)), "\\") \in Seq(Alphabet)
      BY <1>1, <1>7, <1>8
    <3>2. C(Append(Append(B(A(t)), "\\"), x)) = Append(C(Append(B(A(t)), "\\")), x)
      BY <1>4, <1>10, <3>1
    <3>3. C(Append(B(A(t)), "\\")) = Append(C(B(A(t))), "\\")
      BY <1>1, <1>4, <1>7
    <3> QED BY <2>2, <3>2, <3>3
  <2> QED BY <1>5, <1>6, <1>7, <1>10, <2>3 DEF Special
<1>11. CASE x = "%"
  <2>1. A(Append(t, x)) = Append(A(t), x)
    BY <1>2, <1>11
  <2>2. B(A(Append(t, x))) = Append(Append(B(A(t)), "\\"), x)
    <3>1. B(Append(A(t), x)) = Append(Append(B(A(t)), "\\"), x)
      BY <1>3, <1>7, <1>11
    <3> QED BY <2>1, <3>1
  <2>3. C(B(A(Append(t, x)))) = Append(Append(C(B(A(t))), "\\"), x)
    <3>1. Append(B(A(t)), "\\") \in Seq(Alphabet)
      BY <1>1, <1>7, <1>8
    <3>2. C(Append(Append(B(A(t)), "\\"), x)) = Append(C(Append(B(A(t)), "\\")), x)
      BY <1>4, <1>11, <3>1
    <3>3. C(Append(B(A(t)), "\\")) = Append(C(B(A(t))), "\\")
      BY <1>1, <1>4, <1>7
    <3> QED BY <2>2, <3>2, <3>3
  <2> QED BY <1>5, <1>6, <1>7, <1>11, <2>3 DEF Special
<1>12. CASE x = "_"
  <2>1. A(Append(t, x)) = Append(A(t), x)
    BY <1>2, <1>12
  <2>2. B(A(Append(t, x))) = Append(B(A(t)), x)
    <3>1. x # "%"
      BY <1>12
    <3> QED BY <1>3, <1>7, <2>1, <3>1
  <2>3. C(B(A(Append(t, x)))) = Append(Append(C(B(A(t))), "\\"), x)
    BY <1>4, <1>7, <1>12, <2>2
  <2> QED BY <1>5, <1>6, <1>7, <1>12, <2>3 DEF Special
<1> QED BY <1>9, <1>10, <1>11, <1>12 DEF Special

\* Where in the escaped text what stands for the k-th character ends.
At(w, k) == Len(Escaped(SubSeq(w, 1, k)))

\* e, which may go on, has there what stands for the k-th character.
Unit(w, e, k) ==
    /\ w[k] \notin Special => /\ At(w, k) = At(w, k - 1) + 1
                              /\ e[At(w, k - 1) + 1] = w[k]
    /\ w[k] \in Special => /\ At(w, k) = At(w, k - 1) + 2
                           /\ e[At(w, k - 1) + 1] = "\\"
                           /\ e[At(w, k - 1) + 2] = w[k]

\* The escaped text is one unit after the other.
LEMMA Units ==
    ASSUME NEW w \in Seq(Alphabet)
    PROVE  /\ At(w, 0) = 0 /\ At(w, Len(w)) = Len(Escaped(w))
           /\ Escaped(w) \in Seq(Alphabet)
           /\ \A k \in 0 .. Len(w) : At(w, k) \in Nat /\ At(w, k) <= Len(Escaped(w))
           /\ \A k \in 1 .. Len(w) : Unit(w, Escaped(w), k)
<1> DEFINE N == Len(w)
           P(k) == Escaped(SubSeq(w, 1, k))
<1>1. /\ N \in Nat /\ SubSeq(w, 1, 0) = << >> /\ SubSeq(w, 1, N) = w
      /\ \A k \in 0 .. N : SubSeq(w, 1, k) \in Seq(Alphabet)
      /\ \A k \in 1 .. N : w[k] \in Alphabet
  <2>1. N \in Nat /\ \A k \in 1 .. N : w[k] \in Alphabet
    OBVIOUS
  <2>2. SubSeq(w, 1, 0) = << >>
    OBVIOUS
  <2>3. SubSeq(w, 1, N) = w
    BY SubSeqFull
  <2>4. \A k \in 0 .. N : SubSeq(w, 1, k) \in Seq(Alphabet)
    <3> SUFFICES ASSUME NEW k \in 0 .. N PROVE SubSeq(w, 1, k) \in Seq(Alphabet)
      OBVIOUS
    <3>1. \A i \in 1 .. k : w[i] \in Alphabet
      BY <2>1
    <3>2. 1 \in Int /\ k \in Int
      BY <2>1
    <3> QED BY <3>1, <3>2, SubSeqProperties
  <2> QED BY <2>1, <2>2, <2>3, <2>4
<1>2. \A k \in 0 .. N - 1 : SubSeq(w, 1, k + 1) = Append(SubSeq(w, 1, k), w[k + 1])
  <2> SUFFICES ASSUME NEW k \in 0 .. N - 1
               PROVE  SubSeq(w, 1, k + 1) = Append(SubSeq(w, 1, k), w[k + 1])
    OBVIOUS
  <2>1. 1 \in 1 .. N /\ k + 1 \in 1 .. N /\ (k + 1) - 1 = k /\ k \in 0 .. N
    BY <1>1
  <2>2. SubSeq(w, 1, k + 1) = SubSeq(w, 1, (k + 1) - 1) \o <<w[k + 1]>>
    BY <2>1, SubSeqRecursiveSecond
  <2>3. SubSeq(w, 1, k) \in Seq(Alphabet) /\ w[k + 1] \in Alphabet
    BY <1>1, <2>1
  <2> DEFINE s == SubSeq(w, 1, k)
             x == w[k + 1]
  <2>4. SubSeq(w, 1, k + 1) = s \o <<x>>
    BY <2>1, <2>2
  <2> HIDE DEF s, x
  <2>5. s \o <<x>> = Append(s, x)
    BY <2>3 DEF s, x
  <2> QED BY <2>4, <2>5 DEF s, x
<1>3. P(0) = << >> /\ P(N) = Escaped(w) /\ \A k \in 0 .. N : P(k) \in Seq(Alphabet)
  <2>1. "\\" \in Alphabet
    BY DEF Alphabet, Marks
  <2>2. Escaped(<< >>) = << >> /\ \A s \in Seq(Alphabet) : Escaped(s) \in Seq(Alphabet)
    <3>1. << >> \in Seq(Alphabet)
      OBVIOUS
    <3> QED BY <2>1, <3>1, EscapedAppend
  <2>3. P(0) = << >>
    BY <1>1, <2>2
  <2>4. P(N) = Escaped(w)
    BY <1>1
  <2>5. \A k \in 0 .. N : P(k) \in Seq(Alphabet)
    BY <1>1, <2>2
  <2> QED BY <2>3, <2>4, <2>5
<1>4. \A k \in 0 .. N - 1 :
         /\ w[k + 1] \notin Special => P(k + 1) = Append(P(k), w[k + 1])
         /\ w[k + 1] \in Special => P(k + 1) = Append(Append(P(k), "\\"), w[k + 1])
  <2> SUFFICES ASSUME NEW k \in 0 .. N - 1
               PROVE  /\ w[k + 1] \notin Special => P(k + 1) = Append(P(k), w[k + 1])
                      /\ w[k + 1] \in Special => P(k + 1) = Append(Append(P(k), "\\"), w[k + 1])
    OBVIOUS
  <2> DEFINE s == SubSeq(w, 1, k)
             x == w[k + 1]
  <2>1. s \in Seq(Alphabet) /\ x \in Alphabet
    BY <1>1
  <2>2. P(k) = Escaped(s) /\ P(k + 1) = Escaped(Append(s, x))
    BY <1>2
  <2> HIDE DEF s, x, P
  <2>3. /\ x \notin Special => P(k + 1) = Append(P(k), x)
        /\ x \in Special => P(k + 1) = Append(Append(P(k), "\\"), x)
    BY <2>1, <2>2, EscapedAppend
  <2> QED BY <2>3 DEF x
<1>5. \A k : At(w, k) = Len(P(k))
  BY DEF At
<1>6. "\\" \in Alphabet
  BY DEF Alphabet, Marks
<1> DEFINE S == {n \in 0 .. N : \A k \in 1 .. n : At(w, k) <= At(w, n) /\ Unit(w, P(n), k)}
<1> HIDE DEF N, P
<1>7. 0 \in S
  BY <1>1
<1>8. \A n \in 0 .. N - 1 : n \in S => n + 1 \in S
  <2> SUFFICES ASSUME NEW n \in 0 .. N - 1, n \in S PROVE n + 1 \in S
    OBVIOUS
  <2> DEFINE x == w[n + 1]
             p == P(n)
             q == P(n + 1)
  <2>1. n \in 0 .. N /\ n + 1 \in 0 .. N /\ n + 1 \in 1 .. N /\ (n + 1) - 1 = n /\ n \in Nat
    BY <1>1
  <2>2. p \in Seq(Alphabet) /\ q \in Seq(Alphabet) /\ x \in Alphabet
    BY <1>1, <1>3, <2>1
  <2>3. /\ x \notin Special => q = Append(p, x)
        /\ x \in Special => q = Append(Append(p, "\\"), x)
    BY <1>4
  <2>4. At(w, n) = Len(p) /\ At(w, n + 1) = Len(q)
    BY <1>5
  <2> HIDE DEF x, p, q
  <2>5. /\ Len(p) \in Nat /\ Len(q) \in Nat /\ Len(p) <= Len(q)
        /\ \A i \in 1 .. Len(p) : q[i] = p[i]
        /\ x \notin Special => Len(q) = Len(p) + 1 /\ q[Len(p) + 1] = x
        /\ x \in Special => Len(q) = Len(p) + 2 /\ q[Len(p) + 1] = "\\" /\ q[Len(p) + 2] = x
    <3>1. CASE x \notin Special
      BY <2>2, <2>3, <3>1
    <3>2. CASE x \in Special
      <4> DEFINE m == Append(p, "\\")
      <4>1. /\ m \in Seq(Alphabet) /\ Len(m) = Len(p) + 1 /\ Len(p) \in Nat
            /\ m[Len(p) + 1] = "\\" /\ \A i \in 1 .. Len(p) : m[i] = p[i]
        BY <1>6, <2>2
      <4>2. q = Append(m, x)
        BY <2>3, <3>2
      <4> HIDE DEF m
      <4>3. /\ Len(q) = Len(m) + 1 /\ q[Len(m) + 1] = x
            /\ \A i \in 1 .. Len(m) : q[i] = m[i]
        BY <2>2, <4>1, <4>2
      <4> QED BY <3>2, <4>1, <4>3
    <3> QED BY <3>1, <3>2
  <2>6. Unit(w, q, n + 1)
    BY <2>1, <2>4, <2>5 DEF Unit, x
  <2>7. ASSUME NEW k \in 1 .. n
        PROVE  At(w, k) <= Len(q) /\ Unit(w, q, k)
    <3>1. At(w, k) <= Len(p) /\ Unit(w, p, k)
      BY <2>4 DEF p
    <3>2. k - 1 \in 0 .. N /\ k \in 0 .. N
      BY <2>1, <1>1
    <3>3. At(w, k) \in Nat /\ At(w, k - 1) \in Nat
      BY <1>3, <1>5, <3>2
    <3>4. CASE w[k] \notin Special
      <4>1. At(w, k - 1) + 1 \in 1 .. Len(p)
        BY <3>1, <3>3, <3>4, <2>5 DEF Unit
      <4> QED BY <3>1, <3>3, <3>4, <2>5, <4>1 DEF Unit
    <3>5. CASE w[k] \in Special
      <4>1. At(w, k - 1) + 1 \in 1 .. Len(p) /\ At(w, k - 1) + 2 \in 1 .. Len(p)
        BY <3>1, <3>3, <3>5, <2>5 DEF Unit
      <4> QED BY <3>1, <3>3, <3>5, <2>5, <4>1 DEF Unit
    <3> QED BY <3>4, <3>5
  <2>8. \A k \in 1 .. n + 1 : At(w, k) <= At(w, n + 1) /\ Unit(w, P(n + 1), k)
    <3> SUFFICES ASSUME NEW k \in 1 .. n + 1
                 PROVE  At(w, k) <= At(w, n + 1) /\ Unit(w, P(n + 1), k)
      OBVIOUS
    <3>1. CASE k = n + 1
      BY <3>1, <2>4, <2>5, <2>6 DEF q
    <3>2. CASE k # n + 1
      <4>1. k \in 1 .. n
        BY <3>2, <2>1
      <4> QED BY <4>1, <2>4, <2>7 DEF q
    <3> QED BY <3>1, <3>2
  <2> QED BY <2>1, <2>8
<1>9. N \in S
  <2> HIDE DEF S
  <2>1. \A n \in 0 .. N : n \in S
    BY <1>1, <1>7, <1>8, UpTo, Zenon
  <2> QED BY <1>1, <2>1
<1>10. At(w, 0) = 0 /\ At(w, N) = Len(Escaped(w))
  BY <1>3, <1>5
<1>11. \A k \in 0 .. N : At(w, k) \in Nat /\ At(w, k) <= Len(Escaped(w))
  <2> SUFFICES ASSUME NEW k \in 0 .. N
               PROVE  At(w, k) \in Nat /\ At(w, k) <= Len(Escaped(w))
    OBVIOUS
  <2>1. At(w, k) \in Nat
    BY <1>3, <1>5
  <2>2. CASE k = 0
    BY <2>1, <2>2, <1>1, <1>3, <1>10
  <2>3. CASE k # 0
    <3>1. k \in 1 .. N
      BY <2>3, <1>1
    <3> QED BY <2>1, <3>1, <1>9, <1>10
  <2> QED BY <2>2, <2>3
<1> QED BY <1>1, <1>3, <1>9, <1>10, <1>11 DEF N

-----------------------------------------------------------------------------
(* Searches: LIKE, from the end of the pattern to its beginning.           *)

\* Where c fits, with the rest of the pattern after it.
Before(s, c, ends) ==
    {j \in 0 .. Len(s) - 1 : FoldSql(c) = FoldSql(s[j + 1]) /\ j + 1 \in ends}

\* Where the last r characters of p fit, from where fewer of them do.
Fit(s, p, fits, r) ==
    LET c == p[Len(p) - r + 1]
    IN  CASE r = 0 -> {Len(s)}
          [] r > 0 /\ c = "%" -> {j \in 0 .. Len(s) : \E k \in j .. Len(s) : k \in fits[r - 1]}
          [] r > 0 /\ c = "_" -> {j \in 0 .. Len(s) - 1 : j + 1 \in fits[r - 1]}
          [] r = 1 /\ c = "\\" -> {}
          [] r > 1 /\ c = "\\" -> Before(s, p[Len(p) - r + 2], fits[r - 2])
          [] OTHER -> Before(s, c, fits[r - 1])

\* What a step of LIKE depends on.
LEMMA FitLooksBack ==
    ASSUME NEW s, NEW p, NEW f, NEW g, NEW r \in Nat,
           r > 0 => f[r - 1] = g[r - 1], r > 1 => f[r - 2] = g[r - 2]
    PROVE  Fit(s, p, f, r) = Fit(s, p, g, r)
<1> DEFINE c == p[Len(p) - r + 1]
<1>1. CASE r = 0
  BY <1>1 DEF Fit
<1>2. CASE r = 1
  <2>1. f[r - 1] = g[r - 1] /\ r > 0 /\ ~(r > 1) /\ r # 0
    BY <1>2
  <2>2. CASE c = "%"
    BY <1>2, <2>1, <2>2 DEF Fit
  <2>3. CASE c = "_"
    BY <1>2, <2>1, <2>3 DEF Fit
  <2>4. CASE c = "\\"
    BY <1>2, <2>1, <2>4 DEF Fit
  <2>5. CASE c \notin {"%", "_", "\\"}
    <3>1. Fit(s, p, f, r) = Before(s, c, f[r - 1]) /\ Fit(s, p, g, r) = Before(s, c, g[r - 1])
      BY <1>2, <2>1, <2>5 DEF Fit
    <3> QED BY <2>1, <3>1, Zenon
  <2> QED BY <2>2, <2>3, <2>4, <2>5
<1>3. CASE r > 1
  <2>1. f[r - 1] = g[r - 1] /\ f[r - 2] = g[r - 2] /\ r > 0 /\ r # 0 /\ r # 1
    BY <1>3
  <2>2. CASE c = "%"
    BY <1>3, <2>1, <2>2 DEF Fit
  <2>3. CASE c = "_"
    BY <1>3, <2>1, <2>3 DEF Fit
  <2>4. CASE c = "\\"
    <3> DEFINE d == p[Len(p) - r + 2]
    <3>1. /\ Fit(s, p, f, r) = Before(s, d, f[r - 2])
          /\ Fit(s, p, g, r) = Before(s, d, g[r - 2])
      BY <1>3, <2>1, <2>4 DEF Fit
    <3> QED BY <2>1, <3>1, Zenon
  <2>5. CASE c \notin {"%", "_", "\\"}
    <3>1. Fit(s, p, f, r) = Before(s, c, f[r - 1]) /\ Fit(s, p, g, r) = Before(s, c, g[r - 1])
      BY <1>3, <2>1, <2>5 DEF Fit
    <3> QED BY <2>1, <3>1, Zenon
  <2> QED BY <2>2, <2>3, <2>4, <2>5
<1> QED BY <1>1, <1>2, <1>3

\* LIKE can be computed step by step.
LEMMA LikeRuns ==
    ASSUME NEW s, NEW p, NEW N \in Nat, N = Len(p)
    PROVE  \E fits : fits = [r \in 0 .. Len(p) |-> Fit(s, p, fits, r)]
<1> DEFINE Run(f, n) == f = [r \in 0 .. n |-> Fit(s, p, f, r)]
           S == {n \in 0 .. N : \E f : Run(f, n)}
<1>1. 0 \in S
  <2> DEFINE any == << >>
             f == [r \in 0 .. 0 |-> Fit(s, p, any, r)]
  <2>1. \A r \in 0 .. 0 : r = 0 /\ r \in Nat
    OBVIOUS
  <2>2. \A r \in 0 .. 0 : Fit(s, p, any, r) = Fit(s, p, f, r)
    <3> HIDE DEF f, any
    <3> QED BY <2>1, FitLooksBack
  <2>3. Run(f, 0)
    BY <2>2, Zenon
  <2>4. 0 \in 0 .. N
    OBVIOUS
  <2> HIDE DEF f, Run
  <2> QED BY <2>3, <2>4
<1>2. \A n \in 0 .. N - 1 : n \in S => n + 1 \in S
  <2> SUFFICES ASSUME NEW n \in 0 .. N - 1, n \in S PROVE n + 1 \in S
    OBVIOUS
  <2>1. PICK f : Run(f, n)
    OBVIOUS
  <2> DEFINE last == Fit(s, p, f, n + 1)
             g == [r \in 0 .. n + 1 |-> IF r = n + 1 THEN last ELSE f[r]]
  <2>2. (\A r \in 0 .. n : g[r] = f[r]) /\ g[n + 1] = last
    <3>1. (\A r \in 0 .. n : r \in 0 .. n + 1 /\ r # n + 1) /\ n + 1 \in 0 .. n + 1
      OBVIOUS
    <3> HIDE DEF last
    <3> QED BY <3>1
  <2>3. \A r \in 0 .. n + 1 : g[r] = Fit(s, p, f, r)
    <3>1. \A r \in 0 .. n : f[r] = Fit(s, p, f, r)
      BY <2>1, Zenon
    <3> HIDE DEF g
    <3>2. \A r \in 0 .. n + 1 : r = n + 1 \/ r \in 0 .. n
      OBVIOUS
    <3> QED BY <2>2, <3>1, <3>2, Zenon DEF last
  <2>4. \A r \in 0 .. n + 1 : Fit(s, p, f, r) = Fit(s, p, g, r)
    <3> SUFFICES ASSUME NEW r \in 0 .. n + 1 PROVE Fit(s, p, f, r) = Fit(s, p, g, r)
      OBVIOUS
    <3>1. r \in Nat /\ (r > 0 => r - 1 \in 0 .. n) /\ (r > 1 => r - 2 \in 0 .. n)
      OBVIOUS
    <3> HIDE DEF g
    <3>2. (r > 0 => f[r - 1] = g[r - 1]) /\ (r > 1 => f[r - 2] = g[r - 2])
      BY <2>2, <3>1
    <3> QED BY <3>1, <3>2, FitLooksBack
  <2>5. Run(g, n + 1)
    <3>1. g = [r \in 0 .. n + 1 |-> g[r]]
      BY Zenon
    <3>2. \A r \in 0 .. n + 1 : g[r] = Fit(s, p, g, r)
      <4> HIDE DEF g
      <4> QED BY <2>3, <2>4, Zenon
    <3> HIDE DEF g
    <3> QED BY <3>1, <3>2, Zenon
  <2>6. n + 1 \in 0 .. N
    OBVIOUS
  <2> HIDE DEF g, Run
  <2> QED BY <2>5, <2>6
<1>3. N \in S
  <2> HIDE DEF S
  <2>1. \A n \in 0 .. N : n \in S
    BY <1>1, <1>2, UpTo, Zenon
  <2> QED BY <2>1
<1> QED BY <1>3

\* What LIKE finds out, one character of the pattern after the other, from its end.
LEMMA LikeFits ==
    ASSUME NEW s, NEW p, Len(p) \in Nat
    PROVE  \E fits : /\ Like(s, p) <=> 0 \in fits[Len(p)]
                     /\ \A r \in 0 .. Len(p) : fits[r] = Fit(s, p, fits, r)
<1> DEFINE K == CHOOSE fits : fits = [r \in 0 .. Len(p) |-> Fit(s, p, fits, r)]
<1>1. Like(s, p) = (0 \in K[Len(p)])
  BY Zenon DEF Like, Fit, Before
<1>2. \E fits : fits = [r \in 0 .. Len(p) |-> Fit(s, p, fits, r)]
  BY LikeRuns
<1>3. K = [r \in 0 .. Len(p) |-> Fit(s, p, K, r)]
  BY <1>2, Zenon
<1> HIDE DEF K
<1>4. \A r \in 0 .. Len(p) : K[r] = Fit(s, p, K, r)
  BY <1>3, Zenon
<1>5. Like(s, p) <=> 0 \in K[Len(p)]
  BY <1>1
<1> QED BY <1>4, <1>5, Zenon

\* Where in s all of w but its first k characters can be found.
Ends(s, w, k) ==
    {j \in 0 .. Len(s) : /\ j + (Len(w) - k) <= Len(s)
                         /\ \A l \in k + 1 .. Len(w) : FoldSql(w[l]) = FoldSql(s[j + l - k])}

\* One character more in front.
LEMMA EndsBefore ==
    ASSUME NEW s, NEW w, Len(s) \in Nat, Len(w) \in Nat, NEW k \in 1 .. Len(w)
    PROVE  Before(s, w[k], Ends(s, w, k)) = Ends(s, w, k - 1)
<1> DEFINE N == Len(w)
           n == Len(s)
<1>1. ASSUME NEW j \in Before(s, w[k], Ends(s, w, k))
      PROVE  j \in Ends(s, w, k - 1)
  <2>1. /\ j \in 0 .. n - 1 /\ FoldSql(w[k]) = FoldSql(s[j + 1])
        /\ (j + 1) + (N - k) <= n
        /\ \A l \in k + 1 .. N : FoldSql(w[l]) = FoldSql(s[(j + 1) + l - k])
    BY <1>1 DEF Before, Ends
  <2>2. ASSUME NEW l \in (k - 1) + 1 .. N
        PROVE  FoldSql(w[l]) = FoldSql(s[j + l - (k - 1)])
    <3>1. CASE l = k
      <4>1. j + l - (k - 1) = j + 1
        BY <3>1, <2>1
      <4> QED BY <2>1, <3>1, <4>1
    <3>2. CASE l # k
      <4>1. l \in k + 1 .. N
        BY <3>2
      <4>2. j \in Int /\ k \in Int /\ l \in Int
        BY <2>1
      <4>3. j + l - (k - 1) = (j + 1) + l - k
        BY <4>2
      <4> QED BY <2>1, <4>1, <4>3
    <3> QED BY <3>1, <3>2
  <2>3. j \in 0 .. n /\ j + (N - (k - 1)) <= n
    BY <2>1
  <2> QED BY <2>2, <2>3 DEF Ends
<1>2. ASSUME NEW j \in Ends(s, w, k - 1)
      PROVE  j \in Before(s, w[k], Ends(s, w, k))
  <2>1. /\ j \in 0 .. n /\ j + (N - (k - 1)) <= n
        /\ \A l \in (k - 1) + 1 .. N : FoldSql(w[l]) = FoldSql(s[j + l - (k - 1)])
    BY <1>2 DEF Ends
  <2>2. FoldSql(w[k]) = FoldSql(s[j + 1])
    <3>1. k \in (k - 1) + 1 .. N /\ j + k - (k - 1) = j + 1
      BY <2>1
    <3> QED BY <2>1, <3>1
  <2>3. ASSUME NEW l \in k + 1 .. N
        PROVE  FoldSql(w[l]) = FoldSql(s[(j + 1) + l - k])
    <3>1. l \in (k - 1) + 1 .. N /\ j + l - (k - 1) = (j + 1) + l - k
      BY <2>1
    <3> QED BY <2>1, <3>1
  <2>4. j \in 0 .. n - 1 /\ j + 1 \in 0 .. n /\ (j + 1) + (N - k) <= n
    BY <2>1
  <2>5. j + 1 \in Ends(s, w, k)
    BY <2>3, <2>4 DEF Ends
  <2> QED BY <2>2, <2>4, <2>5 DEF Before
<1> QED BY <1>1, <1>2

\* The pattern of a search: a wildcard, the escaped term, a wildcard.
LEMMA PatternParts ==
    ASSUME NEW e \in Seq(Alphabet)
    PROVE  LET p == <<"%">> \o e \o <<"%">>
           IN  /\ Len(p) = Len(e) + 2
               /\ p[1] = "%" /\ p[Len(e) + 2] = "%"
               /\ \A i \in 1 .. Len(e) : p[i + 1] = e[i]
<1> DEFINE one == <<"%">>
           a == one \o e
           p == a \o one
<1>1. "%" \in Alphabet
  BY DEF Alphabet, Marks
<1>2. one \in Seq(Alphabet) /\ Len(one) = 1 /\ one[1] = "%" /\ Len(e) \in Nat
  BY <1>1
<1> HIDE DEF one
<1>3. /\ a \in Seq(Alphabet) /\ Len(a) = Len(one) + Len(e)
      /\ \A i \in 1 .. Len(one) + Len(e) : a[i] = IF i <= Len(one) THEN one[i] ELSE e[i - Len(one)]
  <2>1. one \in Seq(Alphabet)
    BY <1>2
  <2> QED BY <2>1, ConcatProperties, Zenon
<1>4. /\ Len(a) = Len(e) + 1 /\ a[1] = "%" /\ \A i \in 1 .. Len(e) : a[i + 1] = e[i]
  <2> HIDE DEF a
  <2>1. Len(a) = Len(e) + 1 /\ a[1] = "%"
    BY <1>2, <1>3
  <2>2. ASSUME NEW i \in 1 .. Len(e)
        PROVE  a[i + 1] = e[i]
    <3>1. i + 1 \in 1 .. Len(one) + Len(e) /\ ~(i + 1 <= Len(one)) /\ (i + 1) - Len(one) = i
      BY <1>2
    <3> QED BY <1>3, <3>1
  <2> QED BY <2>1, <2>2
<1> HIDE DEF a
<1>5. /\ Len(p) = Len(a) + Len(one)
      /\ \A i \in 1 .. Len(a) + Len(one) : p[i] = IF i <= Len(a) THEN a[i] ELSE one[i - Len(a)]
  <2>1. one \in Seq(Alphabet) /\ a \in Seq(Alphabet)
    BY <1>2, <1>3
  <2> QED BY <2>1, ConcatProperties, Zenon
<1> HIDE DEF p
<1>6. Len(p) = Len(e) + 2
  BY <1>2, <1>4, <1>5
<1>7. \A i \in 1 .. Len(e) + 1 : p[i] = a[i]
  BY <1>2, <1>4, <1>5
<1>8. p[Len(e) + 2] = "%"
  <2>1. /\ Len(e) + 2 \in 1 .. Len(a) + Len(one) /\ ~(Len(e) + 2 <= Len(a))
        /\ (Len(e) + 2) - Len(a) = 1
    BY <1>2, <1>4
  <2> QED BY <1>2, <1>5, <2>1
<1>9. p[1] = "%" /\ \A i \in 1 .. Len(e) : p[i + 1] = e[i]
  BY <1>2, <1>4, <1>7
<1> QED BY <1>6, <1>8, <1>9 DEF p, a, one

\* The cases of a step.
LEMMA FitCases ==
    ASSUME NEW s, NEW p, NEW f, NEW r \in Nat, NEW c, c = p[Len(p) - r + 1]
    PROVE  /\ r = 0 => Fit(s, p, f, r) = {Len(s)}
           /\ r > 0 /\ c = "%" =>
                Fit(s, p, f, r) = {j \in 0 .. Len(s) : \E k \in j .. Len(s) : k \in f[r - 1]}
           /\ r > 1 /\ c = "\\" => Fit(s, p, f, r) = Before(s, p[Len(p) - r + 2], f[r - 2])
           /\ r > 0 /\ c \notin Special => Fit(s, p, f, r) = Before(s, c, f[r - 1])
<1>1. r = 0 => Fit(s, p, f, r) = {Len(s)}
  BY DEF Fit
<1>2. ASSUME r > 0, c = "%"
      PROVE Fit(s, p, f, r) = {j \in 0 .. Len(s) : \E k \in j .. Len(s) : k \in f[r - 1]}
  BY <1>2 DEF Fit
<1>3. ASSUME r > 1, c = "\\"
      PROVE Fit(s, p, f, r) = Before(s, p[Len(p) - r + 2], f[r - 2])
  BY <1>3 DEF Fit
<1>4. ASSUME r > 0, c \notin Special
      PROVE  Fit(s, p, f, r) = Before(s, c, f[r - 1])
  <2>1. c # "%" /\ c # "_" /\ c # "\\"
    BY <1>4 DEF Special
  <2>2. r # 0 /\ r > 0
    BY <1>4
  <2> QED BY <2>1, <2>2 DEF Fit
<1> QED BY <1>1, <1>2, <1>3, <1>4

\* A text is LIKE a pattern made of a term if and only if the term occurs in it, as
\* SQLite folds characters: the escaped term stands for itself, and the wildcards at
\* its ends for anything.
LEMMA LikeContains ==
    ASSUME NEW w \in Seq(Alphabet), NEW s, Len(s) \in Nat
    PROVE  Like(s, <<"%">> \o Escaped(w) \o <<"%">>) <=> Ends(s, w, 0) # {}
<1> DEFINE e == Escaped(w)
           p == <<"%">> \o e \o <<"%">>
           N == Len(w)
           n == Len(s)
           L == Len(e)
           Rest(k) == 1 + L - At(w, k)
<1>1. /\ At(w, 0) = 0 /\ At(w, N) = L /\ e \in Seq(Alphabet) /\ N \in Nat /\ L \in Nat
      /\ \A k \in 0 .. N : At(w, k) \in Nat /\ At(w, k) <= L
      /\ \A k \in 1 .. N : Unit(w, e, k)
  BY Units
<1> HIDE DEF e
<1>2. Len(p) = L + 2 /\ p[1] = "%" /\ p[L + 2] = "%" /\ \A i \in 1 .. L : p[i + 1] = e[i]
  BY <1>1, PatternParts
<1> HIDE DEF p
<1>3. PICK f : /\ Like(s, p) <=> 0 \in f[Len(p)]
               /\ \A r \in 0 .. Len(p) : f[r] = Fit(s, p, f, r)
  BY <1>1, <1>2, LikeFits
<1>4. \A r \in 0 .. L + 2 : f[r] = Fit(s, p, f, r)
  BY <1>2, <1>3
<1> HIDE DEF N, L
<1> DEFINE S == {d \in 0 .. N : f[Rest(N - d)] = Ends(s, w, N - d)}
<1>5. 0 \in S
  <2>1. N - 0 = N /\ Rest(N) = 1 /\ 0 \in 0 .. N
    BY <1>1
  <2>2. f[0] = {n}
    <3>1. 0 \in 0 .. L + 2
      BY <1>1
    <3> QED BY <1>4, <3>1, FitCases
  <2>3. f[1] = {j \in 0 .. n : \E k \in j .. n : k \in f[0]}
    <3>1. 1 \in 0 .. L + 2 /\ Len(p) - 1 + 1 = L + 2
      BY <1>1, <1>2
    <3>2. f[1] = Fit(s, p, f, 1)
      BY <1>4, <3>1
    <3>3. p[Len(p) - 1 + 1] = "%" /\ 1 \in Nat /\ 1 > 0 /\ 1 - 1 = 0
      BY <1>2, <3>1
    <3>4. Fit(s, p, f, 1) = {j \in 0 .. n : \E k \in j .. n : k \in f[1 - 1]}
      BY <3>3, FitCases
    <3> QED BY <3>2, <3>3, <3>4
  <2>4. f[1] = 0 .. n
    BY <2>2, <2>3
  <2>5. Ends(s, w, N) = 0 .. n
    BY <1>1 DEF Ends, N
  <2> QED BY <2>1, <2>4, <2>5
<1>6. \A d \in 0 .. N - 1 : d \in S => d + 1 \in S
  <2> SUFFICES ASSUME NEW d \in 0 .. N - 1, d \in S PROVE d + 1 \in S
    OBVIOUS
  <2> DEFINE k == N - d
             r == Rest(k - 1)
             c == p[Len(p) - r + 1]
  <2>1. /\ k \in 1 .. N /\ k \in 0 .. N /\ k - 1 \in 0 .. N /\ N - (d + 1) = k - 1
        /\ d + 1 \in 0 .. N
    BY <1>1
  <2> HIDE DEF k
  <2>2. f[Rest(k)] = Ends(s, w, k)
    BY DEF k
  <2>3. Unit(w, e, k) /\ At(w, k) \in Nat /\ At(w, k) <= L /\ At(w, k - 1) \in Nat
    BY <1>1, <2>1
  <2>4. Len(p) - r + 1 = At(w, k - 1) + 2 /\ Len(p) - r + 2 = At(w, k - 1) + 3
    <3> DEFINE a == At(w, k - 1)
    <3>1. a \in Nat /\ r = 1 + L - a
      BY <2>3
    <3> HIDE DEF a, r
    <3>2. Len(p) - r + 1 = a + 2 /\ Len(p) - r + 2 = a + 3
      BY <1>1, <1>2, <3>1
    <3> QED BY <3>2 DEF a
  <2>5. Before(s, w[k], Ends(s, w, k)) = Ends(s, w, k - 1)
    BY <1>1, <2>1, EndsBefore DEF N
  <2>6. f[r] = Before(s, w[k], Ends(s, w, k))
    <3>1. CASE w[k] \notin Special
      <4>1. At(w, k) = At(w, k - 1) + 1 /\ e[At(w, k - 1) + 1] = w[k]
        BY <2>3, <3>1 DEF Unit
      <4>2. r \in 0 .. L + 2 /\ r > 1 /\ r - 1 = Rest(k) /\ At(w, k - 1) + 1 \in 1 .. L
        <5> DEFINE a == At(w, k - 1)
                   z == At(w, k)
        <5>1. /\ a \in Nat /\ z \in Nat /\ z <= L /\ z = a + 1
              /\ r = 1 + L - a /\ Rest(k) = 1 + L - z
          BY <2>3, <4>1
        <5> HIDE DEF a, z, r, Rest
        <5>2. r \in 0 .. L + 2 /\ r > 1 /\ r - 1 = Rest(k) /\ a + 1 \in 1 .. L
          BY <1>1, <5>1
        <5> QED BY <5>2 DEF a
      <4>3. c = w[k]
        <5>1. p[(At(w, k - 1) + 1) + 1] = e[At(w, k - 1) + 1]
          BY <1>2, <4>2
        <5>2. (At(w, k - 1) + 1) + 1 = At(w, k - 1) + 2
          BY <2>3
        <5> QED BY <2>4, <4>1, <5>1, <5>2
      <4>4. f[r] = Fit(s, p, f, r)
        BY <1>4, <4>2
      <4> HIDE DEF r
      <4>5. Fit(s, p, f, r) = Before(s, c, f[r - 1])
        BY <3>1, <4>2, <4>3, FitCases
      <4> HIDE DEF c
      <4> QED BY <2>2, <4>2, <4>3, <4>4, <4>5
    <3>2. CASE w[k] \in Special
      <4>1. /\ At(w, k) = At(w, k - 1) + 2 /\ e[At(w, k - 1) + 1] = "\\"
            /\ e[At(w, k - 1) + 2] = w[k]
        BY <2>3, <3>2 DEF Unit
      <4>2. /\ r \in 0 .. L + 2 /\ r > 1 /\ r - 2 = Rest(k)
            /\ At(w, k - 1) + 1 \in 1 .. L /\ At(w, k - 1) + 2 \in 1 .. L
        <5> DEFINE a == At(w, k - 1)
                   z == At(w, k)
        <5>1. /\ a \in Nat /\ z \in Nat /\ z <= L /\ z = a + 2
              /\ r = 1 + L - a /\ Rest(k) = 1 + L - z
          BY <2>3, <4>1
        <5> HIDE DEF a, z, r, Rest
        <5>2. /\ r \in 0 .. L + 2 /\ r > 1 /\ r - 2 = Rest(k)
              /\ a + 1 \in 1 .. L /\ a + 2 \in 1 .. L
          BY <1>1, <5>1
        <5> QED BY <5>2 DEF a
      <4> DEFINE b == p[Len(p) - r + 2]
      <4>3. c = "\\" /\ b = w[k]
        <5>1. /\ p[(At(w, k - 1) + 1) + 1] = e[At(w, k - 1) + 1]
              /\ p[(At(w, k - 1) + 2) + 1] = e[At(w, k - 1) + 2]
          BY <1>2, <4>2
        <5>2. /\ (At(w, k - 1) + 1) + 1 = At(w, k - 1) + 2
              /\ (At(w, k - 1) + 2) + 1 = At(w, k - 1) + 3
          BY <2>3
        <5> QED BY <2>4, <4>1, <5>1, <5>2
      <4>4. f[r] = Fit(s, p, f, r)
        BY <1>4, <4>2
      <4> HIDE DEF r
      <4>5. Fit(s, p, f, r) = Before(s, b, f[r - 2])
        BY <4>2, <4>3, FitCases
      <4> HIDE DEF c, b
      <4> QED BY <2>2, <4>2, <4>3, <4>4, <4>5
    <3> QED BY <3>1, <3>2
  <2>7. f[Rest(N - (d + 1))] = Ends(s, w, N - (d + 1))
    BY <2>1, <2>5, <2>6
  <2> QED BY <2>1, <2>7
<1>7. f[1 + L] = Ends(s, w, 0)
  <2>1. N \in S
    <3> HIDE DEF S
    <3>1. \A d \in 0 .. N : d \in S
      BY <1>1, <1>5, <1>6, UpTo, Zenon
    <3> QED BY <1>1, <3>1
  <2>2. N - N = 0 /\ Rest(0) = 1 + L
    BY <1>1
  <2> QED BY <2>1, <2>2
<1>8. f[L + 2] = {j \in 0 .. n : \E k \in j .. n : k \in f[1 + L]}
  <2>1. L + 2 \in 0 .. L + 2 /\ L + 2 > 0 /\ Len(p) - (L + 2) + 1 = 1 /\ (L + 2) - 1 = 1 + L
    BY <1>1, <1>2
  <2>2. f[L + 2] = Fit(s, p, f, L + 2)
    BY <1>4, <2>1
  <2> DEFINE r == L + 2
  <2>3. p[Len(p) - r + 1] = "%" /\ r \in Nat /\ r > 0 /\ r - 1 = 1 + L
    BY <1>1, <1>2, <2>1
  <2> HIDE DEF r
  <2>4. Fit(s, p, f, r) = {j \in 0 .. n : \E k \in j .. n : k \in f[r - 1]}
    BY <2>3, FitCases
  <2> QED BY <2>2, <2>3, <2>4 DEF r
<1>9. 0 \in f[L + 2] <=> Ends(s, w, 0) # {}
  <2>1. Ends(s, w, 0) \subseteq 0 .. n
    BY DEF Ends
  <2>2. \A k \in 0 .. n : 0 \in 0 .. n
    OBVIOUS
  <2> HIDE DEF n
  <2> QED BY <1>7, <1>8, <2>1, <2>2
<1> QED BY <1>2, <1>3, <1>9 DEF p, e

-----------------------------------------------------------------------------
(* Searches: str.strip, and the two ways to fold case.                     *)

\* The first and the last of finitely many places.
LEMMA FirstAndLast ==
    ASSUME NEW N \in Nat, NEW S \in SUBSET (1 .. N), S # {}
    PROVE  /\ Sets!Min(S) \in S /\ \A i \in S : Sets!Min(S) <= i
           /\ Sets!Max(S) \in S /\ \A i \in S : i <= Sets!Max(S)
<1>1. \E m \in S : \A i \in S : m <= i
  <2>1. S \in SUBSET Nat
    OBVIOUS
  <2> QED BY <2>1, LeastNumber
<1>2. \E m \in S : \A i \in S : m >= i
  <2> DEFINE T == {N - i : i \in S}
  <2>1. T \in SUBSET Nat /\ T # {}
    <3>1. \A i \in S : N - i \in Nat
      OBVIOUS
    <3> QED BY <3>1
  <2>2. PICK d \in T : \A e \in T : d <= e
    <3> HIDE DEF T
    <3> QED BY <2>1, LeastNumber
  <2>3. PICK m \in S : d = N - m
    BY <2>2
  <2>4. \A i \in S : N - m <= N - i
    BY <2>2, <2>3
  <2>5. \A i \in S : m >= i
    BY <2>4
  <2> QED BY <2>5
<1>3. Sets!Min(S) \in S /\ \A i \in S : Sets!Min(S) <= i
  BY <1>1, Zenon DEF Sets!Min
<1>4. Sets!Max(S) \in S /\ \A i \in S : Sets!Max(S) >= i
  BY <1>2, Zenon DEF Sets!Max
<1>5. \A i \in S : i <= Sets!Max(S)
  BY <1>4
<1> QED BY <1>3, <1>4, <1>5

\* What str.strip leaves: a text, and all of it if both its ends are solid.
LEMMA Stripped ==
    ASSUME NEW t \in Seq(Alphabet)
    PROVE  /\ Strip(t) \in Seq(Alphabet)
           /\ Accepted(t) => (Strip(t) = t <=> t[1] # " " /\ t[Len(t)] # " ")
<1> DEFINE solid == {i \in DOMAIN t : t[i] # " "}
           a == Sets!Min(solid)
           z == Sets!Max(solid)
           N == Len(t)
<1>1. DOMAIN t = 1 .. N /\ N \in Nat /\ \A i \in 1 .. N : t[i] \in Alphabet
  OBVIOUS
<1>2. CASE solid = {}
  <2>1. Strip(t) = << >>
    BY <1>2 DEF Strip
  <2> QED BY <2>1 DEF Accepted
<1>3. CASE solid # {}
  <2>1. /\ a \in 1 .. N /\ z \in 1 .. N /\ a <= z /\ t[a] # " " /\ t[z] # " "
        /\ \A i \in solid : a <= i /\ i <= z
    <3>1. solid \in SUBSET (1 .. N)
      BY <1>1
    <3>2. a \in solid /\ z \in solid /\ \A i \in solid : a <= i /\ i <= z
      <4> HIDE DEF solid, N
      <4> QED BY <1>1, <1>3, <3>1, FirstAndLast
    <3> HIDE DEF a, z
    <3> QED BY <1>1, <3>2
  <2>2. Strip(t) = SubSeq(t, a, z)
    BY <1>3 DEF Strip
  <2> HIDE DEF a, z, N
  <2>6. N \in Nat /\ a \in 1 .. N /\ z \in 1 .. N /\ a <= z
    BY <1>1, <2>1, Zenon
  <2>3. Strip(t) \in Seq(Alphabet) /\ Len(Strip(t)) = z - a + 1
    <3>1. a \in Int /\ z \in Int /\ a .. z \subseteq 1 .. N
      BY <2>6
    <3>3. \A i \in a .. z : t[i] \in Alphabet
      BY <1>1, <3>1
    <3>2. /\ SubSeq(t, a, z) \in Seq(Alphabet)
          /\ Len(SubSeq(t, a, z)) = IF a <= z THEN z - a + 1 ELSE 0
      BY <3>1, <3>3, SubSeqProperties
    <3> QED BY <2>1, <2>2, <3>2
  <2>4. ASSUME Strip(t) = t
        PROVE  t[1] # " " /\ t[N] # " "
    <3>1. z - a + 1 = N
      BY <2>3, <2>4 DEF N
    <3>2. a = 1 /\ z = N
      BY <2>6, <3>1
    <3> QED BY <2>1, <3>2
  <2>5. ASSUME t[1] # " ", t[N] # " "
        PROVE  Strip(t) = t
    <3>0. 1 \in 1 .. N /\ N \in 1 .. N
      BY <2>6
    <3>1. 1 \in solid /\ N \in solid
      BY <1>1, <2>5, <3>0
    <3>2. a <= 1 /\ N <= z
      <4> HIDE DEF solid
      <4> QED BY <2>1, <3>1, Zenon
    <3>4. a = 1 /\ z = N
      <4> HIDE DEF solid
      <4> QED BY <2>6, <3>2
    <3>3. SubSeq(t, 1, Len(t)) = t
      BY SubSeqFull
    <3> QED BY <2>2, <3>3, <3>4, Zenon DEF N
  <2> QED BY <2>3, <2>4, <2>5 DEF N
<1> QED BY <1>2, <1>3

\* How the two ways of folding case agree.
LEMMA Folding ==
    /\ \A c \in Alphabet : FoldPython(c) \in Alphabet
    /\ \A c, d \in Alphabet : /\ FoldSql(FoldPython(c)) = FoldPython(c)
                              /\ FoldSql(FoldSql(c)) = FoldSql(c)
                              /\ FoldPython(c) = FoldSql(d) => FoldPython(d) = FoldPython(c)
                              /\ d # "E-acute" => FoldSql(d) = FoldPython(d)
  BY DEF Alphabet, Letters, Marks, Accented, FoldPython, FoldSql

\* The filter q finds a text if and only if its term, as Python folds it, occurs in
\* the text as SQLite folds that.
LEMMA FindsTerm ==
    ASSUME NEW q \in Seq(Alphabet), NEW t \in Seq(Alphabet)
    PROVE  Finds(q, t) <=>
             \E j \in 0 .. Len(t) - Len(Strip(q)) :
                \A l \in DOMAIN Strip(q) : FoldPython(Strip(q)[l]) = FoldSql(t[j + l])
<1> DEFINE term == Strip(q)
           w == LowerPython(term)
           s == LowerSql(t)
           K == Len(term)
           n == Len(t)
<1>1. term \in Seq(Alphabet) /\ DOMAIN term = 1 .. K /\ K \in Nat
      /\ \A l \in 1 .. K : term[l] \in Alphabet
  <2>1. term \in Seq(Alphabet)
    BY Stripped
  <2> HIDE DEF term
  <2> QED BY <2>1
<1>2. n \in Nat /\ DOMAIN t = 1 .. n /\ \A i \in 1 .. n : t[i] \in Alphabet
  OBVIOUS
<1> HIDE DEF term
<1>3. w \in Seq(Alphabet) /\ Len(w) = K /\ \A l \in 1 .. K : w[l] = FoldPython(term[l])
  <2>1. w = [l \in 1 .. K |-> FoldPython(term[l])]
    BY <1>1 DEF LowerPython
  <2>2. \A l \in 1 .. K : FoldPython(term[l]) \in Alphabet
    BY <1>1, Folding
  <2> HIDE DEF w, K
  <2> QED BY <1>1, <2>1, <2>2
<1>4. Len(s) = n /\ \A i \in 1 .. n : s[i] = FoldSql(t[i])
  <2>1. s = [i \in 1 .. n |-> FoldSql(t[i])]
    BY <1>2 DEF LowerSql
  <2> HIDE DEF s, n
  <2> QED BY <1>2, <2>1
<1>5. Finds(q, t) <=> Like(s, <<"%">> \o Escaped(w) \o <<"%">>)
  BY DEF Finds, Pattern, term
<1> HIDE DEF w, s, K, n
<1>6. Finds(q, t) <=> Ends(s, w, 0) # {}
  <2>1. Len(s) \in Nat
    BY <1>2, <1>4
  <2> QED BY <1>3, <1>5, <2>1, LikeContains
<1>7. \A j \in 0 .. n : j + K <= n =>
         ((\A l \in 1 .. K : FoldSql(w[l]) = FoldSql(s[j + l]))
            <=> \A l \in 1 .. K : FoldPython(term[l]) = FoldSql(t[j + l]))
  <2> SUFFICES ASSUME NEW j \in 0 .. n, j + K <= n, NEW l \in 1 .. K
               PROVE  FoldSql(w[l]) = FoldPython(term[l]) /\ FoldSql(s[j + l]) = FoldSql(t[j + l])
    BY Zenon
  <2>1. j + l \in 1 .. n
    BY <1>1, <1>2
  <2> QED BY <1>1, <1>2, <1>3, <1>4, <2>1, Folding
<1>8. Ends(s, w, 0) = {j \in 0 .. n : j + K <= n /\ \A l \in 1 .. K : FoldSql(w[l]) = FoldSql(s[j + l])}
  <2>1. Ends(s, w, 0) = {j \in 0 .. n : j + (K - 0) <= n
                            /\ \A l \in 0 + 1 .. K : FoldSql(w[l]) = FoldSql(s[j + l - 0])}
    BY <1>3, <1>4 DEF Ends
  <2>2. K - 0 = K /\ 0 + 1 = 1 /\ \A j \in 0 .. n, l \in 1 .. K : j + l - 0 = j + l
    BY <1>1, <1>2
  <2> QED BY <2>1, <2>2
<1>9. \A j : j \in 0 .. n - K <=> j \in 0 .. n /\ j + K <= n
  BY <1>1, <1>2
<1>10. Ends(s, w, 0) # {} <=>
         \E j \in 0 .. n - K : \A l \in 1 .. K : FoldPython(term[l]) = FoldSql(t[j + l])
  BY <1>7, <1>8, <1>9
<1> QED BY <1>1, <1>6, <1>10 DEF term, K, n

-----------------------------------------------------------------------------
(* Searches: the model of them.                                            *)

\* The texts are texts, what is stored is not blank, and the answer is what the text and
\* the filter make it.
AnswerInv ==
    /\ text \in Seq(Alphabet) /\ filter \in Seq(Alphabet) /\ Accepted(text)
    /\ answer \in {"found", "missed"} => (answer = "found" <=> Finds(filter, text))
    /\ answer \in {"tagged", "untagged"} => (answer = "tagged" <=> TagMatches(filter, text))

\* What is stored is not blank, and nothing is answered yet.
LEMMA AnswerInit == SearchInit => AnswerInv
<1> SUFFICES ASSUME SearchInit PROVE AnswerInv
  OBVIOUS
<1>1. ASSUME NEW n \in Nat, NEW t \in TextsUpTo(n)
      PROVE  t \in Seq(Alphabet)
  <2>1. PICK k \in 1 .. n : t \in [1 .. k -> Alphabet]
    BY <1>1 DEF TextsUpTo
  <2> QED BY <2>1
<1>2. text \in Seq(Alphabet) /\ filter \in Seq(Alphabet)
  BY <1>1, RetrievalAssumption DEF SearchInit
<1>3. Accepted(text) /\ answer = "none"
  BY DEF SearchInit
<1> QED BY <1>2, <1>3 DEF AnswerInv

\* A filter is refused, or an answer is made of it; neither text changes.
LEMMA AnswerStep == AnswerInv /\ [SearchNext]_searchVars => AnswerInv'
<1> SUFFICES ASSUME AnswerInv, [SearchNext]_searchVars PROVE AnswerInv'
  OBVIOUS
<1> USE DEF AnswerInv
<1>1. CASE UNCHANGED searchVars
  BY <1>1 DEF searchVars
<1>2. CASE SearchNext
  <2>1. text' = text /\ filter' = filter
    BY <1>2 DEF SearchNext
  <2>2. CASE Refuse
    BY <2>1, <2>2 DEF Refuse
  <2>3. CASE Search
    <3>1. answer' = IF Finds(filter, text) THEN "found" ELSE "missed"
      BY <2>3 DEF Search
    <3> QED BY <2>1, <3>1
  <2>4. CASE Select
    <3>1. answer' = IF TagMatches(filter, text) THEN "tagged" ELSE "untagged"
      BY <2>4 DEF Select
    <3> QED BY <2>1, <3>1
  <2> QED BY <1>2, <2>2, <2>3, <2>4 DEF SearchNext
<1> QED BY <1>1, <1>2

\* The invariant, for texts and filters of any length.
LEMMA AnswerHolds == SearchSpec => []AnswerInv
  BY AnswerInit, AnswerStep, PTL DEF SearchSpec

\* The places a term of K characters can begin at, and its characters there.
LEMMA Places ==
    ASSUME NEW q \in Seq(Alphabet), NEW t \in Seq(Alphabet),
           NEW j \in 0 .. Len(t) - Len(Strip(q)), NEW l \in DOMAIN Strip(q)
    PROVE  j + l \in DOMAIN t /\ t[j + l] \in Alphabet /\ Strip(q)[l] \in Alphabet
<1> DEFINE u == Strip(q)
           K == Len(u)
           n == Len(t)
<1>1. u \in Seq(Alphabet)
  BY Stripped
<1> HIDE DEF u
<1>2. K \in Nat /\ l \in 1 .. K /\ u[l] \in Alphabet
  BY <1>1 DEF u
<1>3. n \in Nat /\ j \in 0 .. n - K
  BY DEF u
<1>4. j + l \in 1 .. n
  <2> HIDE DEF K, n
  <2> QED BY <1>2, <1>3
<1>5. j + l \in DOMAIN t /\ t[j + l] \in Alphabet
  BY <1>4
<1> QED BY <1>2, <1>5 DEF u

\* Whatever its letters, a text that a search finds has the stripped term in it, whatever
\* the case (_escape_like_pattern, _build_memory_filters): no wildcard survives.
THEOREM NothingIsMadeUp == SearchSpec => []NothingSpurious
<1>1. AnswerInv => NothingSpurious
  <2> SUFFICES ASSUME AnswerInv, answer = "found"
               PROVE  HasTerm(text, Strip(filter))
    BY DEF NothingSpurious
  <2> DEFINE u == Strip(filter)
  <2>1. text \in Seq(Alphabet) /\ filter \in Seq(Alphabet) /\ Finds(filter, text)
    BY DEF AnswerInv
  <2>2. PICK j \in 0 .. Len(text) - Len(u) :
               \A l \in DOMAIN u : FoldPython(u[l]) = FoldSql(text[j + l])
    BY <2>1, FindsTerm
  <2>3. \A l \in DOMAIN u : text[j + l] \in Alphabet /\ u[l] \in Alphabet
    BY <2>1, Places
  <2> HIDE DEF u
  <2>4. \A l \in DOMAIN u : FoldPython(text[j + l]) = FoldPython(u[l])
    BY <2>2, <2>3, Folding
  <2> QED BY <2>4, Zenon DEF HasTerm, u
<1> QED BY <1>1, AnswerHolds, PTL

\* A text without a capital that SQLite cannot fold is found if and only if it has the
\* term in it: %, _ and \ stand for themselves (_escape_like_pattern).
THEOREM SearchesAreLiteral == SearchSpec => []SearchIsLiteral
<1>1. AnswerInv => SearchIsLiteral
  <2> SUFFICES ASSUME AnswerInv, answer \in {"found", "missed"},
                      \A i \in DOMAIN text : text[i] # "E-acute"
               PROVE  answer = "found" <=> HasTerm(text, Strip(filter))
    BY DEF SearchIsLiteral
  <2> DEFINE u == Strip(filter)
  <2>1. text \in Seq(Alphabet) /\ filter \in Seq(Alphabet)
        /\ (answer = "found" <=> Finds(filter, text))
    BY DEF AnswerInv
  <2>2. ASSUME NEW j \in 0 .. Len(text) - Len(u), NEW l \in DOMAIN u
        PROVE  FoldSql(text[j + l]) = FoldPython(text[j + l])
    <3>1. j + l \in DOMAIN text /\ text[j + l] \in Alphabet
      BY <2>1, Places
    <3> QED BY <3>1, Folding
  <2>3. Finds(filter, text) <=>
          \E j \in 0 .. Len(text) - Len(u) :
             \A l \in DOMAIN u : FoldPython(u[l]) = FoldSql(text[j + l])
    BY <2>1, FindsTerm
  <2>4. HasTerm(text, Strip(filter)) <=>
          \E j \in 0 .. Len(text) - Len(u) :
             \A l \in DOMAIN u : FoldPython(text[j + l]) = FoldPython(u[l])
    BY Zenon DEF HasTerm
  <2> HIDE DEF u
  <2> QED BY <2>1, <2>2, <2>3, <2>4
<1> QED BY <1>1, AnswerHolds, PTL

\* How far the documentation of the filter tag is right (TagSelectsItself, which the
\* service does not keep): a stored tag without a blank at its ends, sent as a filter,
\* selects itself (validate_optional_text_filter, _build_memory_filters).
THEOREM TagsSelectThemselves ==
    SearchSpec => [](text[1] # " " /\ text[Len(text)] # " " => TagSelectsItself)
<1> DEFINE Solid == text[1] # " " /\ text[Len(text)] # " "
<1>1. AnswerInv => (Solid => TagSelectsItself)
  <2> SUFFICES ASSUME AnswerInv, answer \in {"tagged", "untagged"}, filter = text, Solid
               PROVE  answer = "tagged"
    BY DEF TagSelectsItself
  <2>1. answer = "tagged" <=> Strip(text) = text
    BY DEF AnswerInv, TagMatches
  <2>2. text \in Seq(Alphabet) /\ Accepted(text)
    BY DEF AnswerInv
  <2> QED BY <2>1, <2>2, Stripped
<1> HIDE DEF Solid
<1>2. SearchSpec => [](Solid => TagSelectsItself)
  BY <1>1, AnswerHolds, PTL
<1> QED BY <1>2 DEF Solid
=============================================================================

--------------------------- MODULE DbInit_proofs ---------------------------
(***************************************************************************)
(* Proofs about DbInit, for every set of threads and processes and every   *)
(* bound on calls, removals and crashes.                                   *)
(*                                                                         *)
(* IInv adds to the types: the lock excludes the threads of a process from *)
(* one another (LockInv); a connection has a file, and after the DDL that  *)
(* file has the table (ConnInv); while nothing was removed there is one    *)
(* file, and whoever may use it finds the table (IntactInv); and a thread  *)
(* past its last look at the path has a file there, or lost it in the      *)
(* middle of its call (LookInv).                                           *)
(***************************************************************************)
EXTENDS DbInit, TLAPS

Critical == {"recheck", "open", "schema", "register"}

LockInv ==
    /\ \A t \in Threads : pc[t] \in Critical <=> lock[ProcessOf[t]] = t
    /\ \A p \in Processes : lock[p] # Nobody => ProcessOf[lock[p]] = p

ConnInv ==
    \A t \in Threads :
        /\ pc[t] \in {"schema", "register", "use"} => conn[t] # NoFile
        /\ pc[t] = "register" => HasTable(conn[t])
        /\ pc[t] = "idle" => conn[t] = NoFile

IntactInv ==
    removals = 0 =>
        /\ \A t \in Threads : conn[t] \in {NoFile, path}
        /\ \A t \in Threads : pc[t] \in {"connect", "use"} => HasTable(path)
        /\ known # {} => HasTable(path)

LookInv ==
    \A t \in Threads :
        pc[t] \in {"schema", "register", "connect"} => Exists \/ t \in gone

IInv ==
    /\ TypeOK /\ LockInv /\ ConnInv /\ IntactInv /\ LookInv
    /\ TableUnlessRemoved /\ InitializedOnce /\ EmptyFileExplained

-----------------------------------------------------------------------------
\* sqlite3.connect leaves the path naming a file, the connection's; if it creates
\* that file, no connection and no record knew it.
LEMMA ConnectedFile ==
    ASSUME TypeOK, NEW t \in Threads, Connected(t)
    PROVE  /\ created' \in Nat /\ created <= created'
           /\ path' \in 1 .. created' /\ path' # NoFile
           /\ conn' = [conn EXCEPT ![t] = path']
           /\ conn' \in [Threads -> 0 .. created']
           /\ tabled' = tabled
           /\ Exists => path' = path
           /\ ~Exists => path' \notin Files
  BY DEF TypeOK, Connected, Exists, Files, NoFile, files

\* Initially nothing exists and nobody is at work.
LEMMA InitiallyNothing == ASSUME Init PROVE IInv
  <1> USE InitAssumption DEF Init
  <1>1. TypeOK
    BY DEF TypeOK, Files, PCs, Kinds, Outcomes, NoFile
  <1>2. LockInv /\ ConnInv /\ IntactInv /\ LookInv
    BY DEF LockInv, ConnInv, IntactInv, LookInv, Critical, NoFile
  <1>3. TableUnlessRemoved /\ InitializedOnce /\ EmptyFileExplained
    BY DEF TableUnlessRemoved, InitializedOnce, EmptyFileExplained, Exists
  <1> QED BY <1>1, <1>2, <1>3 DEF IInv

-----------------------------------------------------------------------------
(* The steps that open no connection.                                      *)

\* Every such step of a thread keeps the types.
LEMMA QuietTypes ==
    ASSUME TypeOK, ConnInv, NEW t \in Threads,
           FastPath(t) \/ Lock(t) \/ Recheck(t) \/ Schema(t) \/ Register(t) \/ Use(t)
              \/ Fail(t) \/ Raise(t) \/ \E k \in Kinds : Call(t, k)
    PROVE  TypeOK'
  <1> USE InitAssumption DEF TypeOK, PCs, Outcomes, Kinds, Files, bounds, Goto, files
  <1>1. CASE FastPath(t)
    <2>1. pc' \in [Threads -> PCs]
      BY <1>1 DEF FastPath
    <2> QED BY <1>1, <2>1 DEF FastPath
  <1>2. CASE Lock(t)
    BY <1>2 DEF Lock
  <1>3. CASE Recheck(t)
    BY <1>3 DEF Recheck, Release
  <1>4. CASE Schema(t)
    BY <1>4 DEF Schema, ConnInv, NoFile
  <1>5. CASE Register(t)
    <2>1. pc' \in [Threads -> PCs] /\ outcome' \in [Threads -> Outcomes]
      BY <1>5 DEF Register, Finish
    <2>2. conn' \in [Threads -> 0 .. created] /\ gone' \subseteq Threads
      BY <1>5 DEF Register, Finish, NoFile
    <2>3. lock' \in [Processes -> Threads \cup {Nobody}] /\ known' \subseteq Processes
      BY <1>5 DEF Register, Release
    <2> QED BY <1>5, <2>1, <2>2, <2>3 DEF Register
  <1>6. CASE Use(t)
    BY <1>6 DEF Use, Finish, NoFile
  <1>7. CASE Fail(t)
    <2>1. pc' \in [Threads -> PCs] /\ outcome' \in [Threads -> Outcomes]
      BY <1>7 DEF Fail, Finish
    <2>2. conn' \in [Threads -> 0 .. created] /\ gone' \subseteq Threads
      BY <1>7 DEF Fail, Finish, NoFile
    <2>3. lock' \in [Processes -> Threads \cup {Nobody}] /\ spoilt' \subseteq 0 .. created
      BY <1>7 DEF Fail, Release
    <2> QED BY <1>7, <2>1, <2>2, <2>3 DEF Fail
  <1>8. CASE Raise(t)
    BY <1>8 DEF Raise, Finish, NoFile
  <1>9. ASSUME NEW k \in Kinds, Call(t, k) PROVE TypeOK'
    BY <1>9 DEF Call
  <1> QED BY <1>1, <1>2, <1>3, <1>4, <1>5, <1>6, <1>7, <1>8, <1>9

\* So do the steps that open one.
LEMMA ConnectingTypes ==
    ASSUME TypeOK, NEW t \in Threads, Open(t) \/ Connect(t)
    PROVE  TypeOK'
  <1>1. Connected(t)
    BY DEF Open, Connect
  <1>2. /\ created' \in Nat /\ created <= created' /\ path' \in 1 .. created'
        /\ conn' \in [Threads -> 0 .. created'] /\ tabled' = tabled
    BY <1>1, ConnectedFile
  <1>3. /\ spoilt' \subseteq spoilt \cup {path'} /\ UNCHANGED <<known, lock, kind, outcome, bounds, gone>>
        /\ pc' \in [Threads -> PCs]
    BY DEF Open, Connect, Goto, TypeOK, PCs
  <1>4. spoilt' \subseteq 0 .. created' /\ tabled' \subseteq (0 .. created') \ {NoFile}
    BY <1>2, <1>3 DEF TypeOK, Files, NoFile
  <1> QED BY <1>2, <1>3, <1>4 DEF TypeOK, Files, bounds

\* And so does what happens to the file and to the processes.
LEMMA AccidentTypes ==
    ASSUME TypeOK, Remove \/ \E p \in Processes : Crash(p)
    PROVE  TypeOK'
  <1> USE InitAssumption DEF TypeOK, PCs, Outcomes, Files, NoFile
  <1>1. CASE Remove
    BY <1>1 DEF Remove
  <1>2. ASSUME NEW p \in Processes, Crash(p) PROVE TypeOK'
    <2>1. pc' \in [Threads -> PCs] /\ conn' \in [Threads -> 0 .. created]
      BY <1>2 DEF Crash
    <2>2. outcome' \in [Threads -> Outcomes]
      BY <1>2 DEF Crash
    <2>3. lock' \in [Processes -> Threads \cup {Nobody}]
      BY <1>2 DEF Crash
    <2>5. spoilt' \subseteq 0 .. created
      <3>1. ASSUME NEW f \in spoilt' PROVE f \in 0 .. created
        <4>1. f \in spoilt \/ \E u \in Threads : f = conn[u]
          BY <1>2, <3>1 DEF Crash
        <4> QED BY <4>1
      <3> QED BY <3>1
    <2>4. gone' \subseteq Threads /\ known' \subseteq Processes /\ crashes' \in Nat
      BY <1>2 DEF Crash
    <2> QED BY <1>2, <2>1, <2>2, <2>3, <2>4, <2>5 DEF Crash, files
  <1> QED BY <1>1, <1>2

-----------------------------------------------------------------------------
(* Every step preserves the lock's discipline.                             *)

\* Between Lock and Register the threads of a process exclude one another.
LEMMA LockKept ==
    ASSUME TypeOK, LockInv, Next
    PROVE  LockInv'
  <1> USE InitAssumption DEF TypeOK, LockInv, Critical, Goto
  <1>1. ASSUME NEW t \in Threads, FastPath(t) \/ Open(t) \/ Schema(t) \/ Connect(t) \/ Use(t)
                                   \/ Raise(t)
        PROVE  LockInv'
    BY <1>1 DEF FastPath, Open, Schema, Connect, Use, Raise, Finish
  <1>2. ASSUME NEW t \in Threads, Lock(t)
        PROVE  LockInv'
    BY <1>2 DEF Lock
  <1>3. ASSUME NEW t \in Threads, Recheck(t) \/ Register(t) \/ Fail(t)
        PROVE  LockInv'
    BY <1>3 DEF Recheck, Register, Fail, Finish, Release
  <1>4. ASSUME NEW t \in Threads, NEW k \in Kinds, Call(t, k)
        PROVE  LockInv'
    BY <1>4 DEF Call
  <1>5. CASE Remove
    BY <1>5 DEF Remove
  <1>6. ASSUME NEW p \in Processes, Crash(p)
        PROVE  LockInv'
    BY <1>6 DEF Crash
  <1>7. CASE Terminating
    BY <1>7 DEF Terminating, vars
  <1> QED BY <1>1, <1>2, <1>3, <1>4, <1>5, <1>6, <1>7 DEF Next, Step

-----------------------------------------------------------------------------
(* Every step preserves what relates connections, files and memory.         *)

\* Types, whatever the step.
LEMMA TypesKept == ASSUME TypeOK, ConnInv, Next PROVE TypeOK'
  <1>1. CASE Terminating
    BY <1>1 DEF Terminating, vars, files, TypeOK, Files
  <1> QED BY <1>1, QuietTypes, ConnectingTypes, AccidentTypes DEF Next, Step

\* A connection keeps its file until the call is over, and DDL gives it the table.
LEMMA ConnKept ==
    ASSUME TypeOK, ConnInv, Next
    PROVE  ConnInv'
  <1> USE DEF TypeOK, ConnInv, HasTable, Goto, files
  <1>1. ASSUME NEW t \in Threads, FastPath(t) \/ Lock(t) \/ Recheck(t)
        PROVE  ConnInv'
    BY <1>1 DEF FastPath, Lock, Recheck
  <1>2. ASSUME NEW t \in Threads, Open(t) \/ Connect(t)
        PROVE  ConnInv'
    <2>1. Connected(t)
      BY <1>2 DEF Open, Connect
    <2>2. path' # NoFile /\ conn' = [conn EXCEPT ![t] = path'] /\ tabled' = tabled
      BY <2>1, ConnectedFile
    <2>3. \A u \in Threads \ {t} : pc'[u] = pc[u]
      BY <1>2 DEF Open, Connect
    <2>4. pc'[t] \in {"schema", "use"}
      BY <1>2 DEF Open, Connect
    <2> QED BY <2>2, <2>3, <2>4
  <1>3. ASSUME NEW t \in Threads, Schema(t)
        PROVE  ConnInv'
    BY <1>3 DEF Schema
  <1>4. ASSUME NEW t \in Threads, Register(t) \/ Use(t) \/ Fail(t) \/ Raise(t)
        PROVE  ConnInv'
    BY <1>4 DEF Register, Use, Fail, Raise, Finish
  <1>5. ASSUME NEW t \in Threads, NEW k \in Kinds, Call(t, k)
        PROVE  ConnInv'
    BY <1>5 DEF Call
  <1>6. CASE Remove
    BY <1>6 DEF Remove
  <1>7. ASSUME NEW p \in Processes, Crash(p)
        PROVE  ConnInv'
    BY <1>7 DEF Crash
  <1>8. CASE Terminating
    BY <1>8 DEF Terminating, vars
  <1> QED BY <1>1, <1>2, <1>3, <1>4, <1>5, <1>6, <1>7, <1>8 DEF Next, Step

\* While nothing is removed, one file is all there is: whoever remembers it, or is
\* past the initialisation, finds its table.
LEMMA IntactKept ==
    ASSUME TypeOK, ConnInv, IntactInv, Next
    PROVE  IntactInv'
  <1> USE DEF TypeOK, IntactInv, HasTable, Goto, files, bounds
  <1>1. ASSUME NEW t \in Threads, FastPath(t) \/ Lock(t) \/ Recheck(t)
        PROVE  IntactInv'
    BY <1>1 DEF FastPath, Lock, Recheck, Initialized
  <1>2. ASSUME NEW t \in Threads, Open(t) \/ Connect(t)
        PROVE  IntactInv'
    <2>1. Connected(t)
      BY <1>2 DEF Open, Connect
    <2>2. /\ conn' = [conn EXCEPT ![t] = path'] /\ tabled' = tabled
          /\ path # NoFile => path' = path
      BY <2>1, ConnectedFile DEF Exists
    <2>3. \A u \in Threads \ {t} : pc'[u] = pc[u]
      BY <1>2 DEF Open, Connect
    <2>4. /\ UNCHANGED <<known, removals>>
          /\ pc'[t] \in {"connect", "use"} => pc[t] = "connect"
      BY <1>2 DEF Open, Connect
    <2>5. ASSUME removals = 0, HasTable(path) PROVE HasTable(path)' /\ path' = path
      BY <2>2, <2>5
    <2> QED BY <2>2, <2>3, <2>4, <2>5
  <1>3. ASSUME NEW t \in Threads, Schema(t)
        PROVE  IntactInv'
    BY <1>3 DEF Schema
  <1>4. ASSUME NEW t \in Threads, Register(t)
        PROVE  IntactInv'
    <2>1. removals = 0 => HasTable(path)
      BY <1>4 DEF Register, ConnInv
    <2> QED BY <1>4, <2>1 DEF Register, Finish
  <1>5. ASSUME NEW t \in Threads, Use(t) \/ Fail(t) \/ Raise(t)
        PROVE  IntactInv'
    BY <1>5 DEF Use, Fail, Raise, Finish
  <1>6. ASSUME NEW t \in Threads, NEW k \in Kinds, Call(t, k)
        PROVE  IntactInv'
    BY <1>6 DEF Call
  <1>7. CASE Remove
    BY <1>7 DEF Remove
  <1>8. ASSUME NEW p \in Processes, Crash(p)
        PROVE  IntactInv'
    BY <1>8 DEF Crash
  <1>9. CASE Terminating
    BY <1>9 DEF Terminating, vars
  <1> QED BY <1>1, <1>2, <1>3, <1>4, <1>5, <1>6, <1>7, <1>8, <1>9 DEF Next, Step

\* A thread past its last look lost the file during its call, if it lost it.
LEMMA LookKept ==
    ASSUME TypeOK, LookInv, Next
    PROVE  LookInv'
  <1> USE DEF TypeOK, LookInv, Exists, Goto, files
  <1>1. ASSUME NEW t \in Threads, FastPath(t) \/ Lock(t) \/ Recheck(t) \/ Schema(t)
        PROVE  LookInv'
    BY <1>1 DEF FastPath, Lock, Recheck, Schema, Initialized
  <1>2. ASSUME NEW t \in Threads, Open(t) \/ Connect(t)
        PROVE  LookInv'
    <2>1. Connected(t)
      BY <1>2 DEF Open, Connect
    <2> QED BY <2>1, ConnectedFile
  <1>3. ASSUME NEW t \in Threads, Register(t) \/ Use(t) \/ Fail(t) \/ Raise(t)
        PROVE  LookInv'
    BY <1>3 DEF Register, Use, Fail, Raise, Finish
  <1>4. ASSUME NEW t \in Threads, NEW k \in Kinds, Call(t, k)
        PROVE  LookInv'
    BY <1>4 DEF Call
  <1>5. CASE Remove
    BY <1>5 DEF Remove
  <1>6. ASSUME NEW p \in Processes, Crash(p)
        PROVE  LookInv'
    BY <1>6 DEF Crash
  <1>7. CASE Terminating
    BY <1>7 DEF Terminating, vars
  <1> QED BY <1>1, <1>2, <1>3, <1>4, <1>5, <1>6, <1>7 DEF Next, Step

-----------------------------------------------------------------------------
(* ... and the properties.                                                  *)

\* Use is the only step that can meet a missing table.
LEMMA TableKept ==
    ASSUME TypeOK, ConnInv, IntactInv, TableUnlessRemoved, Next
    PROVE  TableUnlessRemoved'
  <1> USE DEF TypeOK, TableUnlessRemoved, bounds
  <1>1. ASSUME NEW t \in Threads,
               FastPath(t) \/ Lock(t) \/ Recheck(t) \/ Open(t) \/ Schema(t) \/ Connect(t)
        PROVE  TableUnlessRemoved'
    BY <1>1 DEF FastPath, Lock, Recheck, Open, Schema, Connect
  <1>2. ASSUME NEW t \in Threads, Register(t) \/ Fail(t) \/ Raise(t)
        PROVE  TableUnlessRemoved'
    BY <1>2 DEF Register, Fail, Raise, Finish
  <1>3. ASSUME NEW t \in Threads, Use(t)
        PROVE  TableUnlessRemoved'
    <2>1. removals = 0 => HasTable(conn[t])
      BY <1>3 DEF Use, ConnInv, IntactInv
    <2> QED BY <1>3, <2>1 DEF Use, Finish
  <1>4. ASSUME NEW t \in Threads, NEW k \in Kinds, Call(t, k)
        PROVE  TableUnlessRemoved'
    BY <1>4 DEF Call
  <1>5. CASE Remove
    BY <1>5 DEF Remove
  <1>6. ASSUME NEW p \in Processes, Crash(p)
        PROVE  TableUnlessRemoved'
    BY <1>6 DEF Crash
  <1>7. CASE Terminating
    BY <1>7 DEF Terminating, vars
  <1> QED BY <1>1, <1>2, <1>3, <1>4, <1>5, <1>6, <1>7 DEF Next, Step

\* Only the thread that holds the lock makes its process remember the file, and it
\* is the only one there that initialises.
LEMMA OnceKept ==
    ASSUME TypeOK, LockInv, IntactInv, InitializedOnce, Next
    PROVE  InitializedOnce'
  <1> USE InitAssumption DEF TypeOK, InitializedOnce, Goto, bounds
  <1>1. ASSUME NEW t \in Threads,
               FastPath(t) \/ Lock(t) \/ Open(t) \/ Schema(t) \/ Connect(t)
        PROVE  InitializedOnce'
    BY <1>1 DEF FastPath, Lock, Open, Schema, Connect
  <1>2. ASSUME NEW t \in Threads, Use(t) \/ Fail(t) \/ Raise(t)
        PROVE  InitializedOnce'
    BY <1>2 DEF Use, Fail, Raise, Finish
  <1>3. ASSUME NEW t \in Threads, Recheck(t)
        PROVE  InitializedOnce'
    <2>1. removals = 0 /\ known # {} => Exists
      BY DEF IntactInv, HasTable, Exists
    <2> QED BY <1>3, <2>1 DEF Recheck, Initialized
  <1>4. ASSUME NEW t \in Threads, Register(t)
        PROVE  InitializedOnce'
    <2>1. ASSUME NEW u \in Threads \ {t}, pc[u] \in {"open", "schema", "register"}
          PROVE  ProcessOf[u] # ProcessOf[t]
      BY <1>4, <2>1 DEF Register, LockInv, Critical
    <2>2. /\ pc'[t] \in {"idle", "connect"} /\ \A u \in Threads \ {t} : pc'[u] = pc[u]
          /\ known' = known \cup {ProcessOf[t]} /\ UNCHANGED <<kind, removals>>
      BY <1>4 DEF Register, Finish
    <2> QED BY <2>1, <2>2
  <1>5. ASSUME NEW t \in Threads, NEW k \in Kinds, Call(t, k)
        PROVE  InitializedOnce'
    BY <1>5 DEF Call
  <1>6. CASE Remove
    BY <1>6 DEF Remove
  <1>7. ASSUME NEW p \in Processes, Crash(p)
        PROVE  InitializedOnce'
    BY <1>7 DEF Crash
  <1>8. CASE Terminating
    BY <1>8 DEF Terminating, vars
  <1> QED BY <1>1, <1>2, <1>3, <1>4, <1>5, <1>6, <1>7, <1>8 DEF Next, Step

\* A file without a table is about to get it, or is left empty by something that
\* spoilt names.
LEMMA EmptyKept ==
    ASSUME TypeOK, LookInv, EmptyFileExplained, Next
    PROVE  EmptyFileExplained'
  <1> USE DEF TypeOK, EmptyFileExplained, Exists, HasTable, Goto, files
  <1>1. ASSUME NEW t \in Threads, FastPath(t) \/ Lock(t) \/ Recheck(t) \/ Schema(t)
        PROVE  EmptyFileExplained'
    BY <1>1 DEF FastPath, Lock, Recheck, Schema
  <1>2. ASSUME NEW t \in Threads, Open(t)
        PROVE  EmptyFileExplained'
    <2>1. /\ conn' = [conn EXCEPT ![t] = path'] /\ tabled' = tabled
          /\ path # NoFile => path' = path
      BY <1>2, ConnectedFile DEF Open
    <2> QED BY <1>2, <2>1 DEF Open
  <1>3. ASSUME NEW t \in Threads, Connect(t)
        PROVE  EmptyFileExplained'
    <2>1. /\ conn' = [conn EXCEPT ![t] = path'] /\ tabled' = tabled
          /\ path # NoFile => path' = path
      BY <1>3, ConnectedFile DEF Connect
    <2>2. CASE Exists
      BY <1>3, <2>1, <2>2 DEF Connect
    <2>3. CASE ~Exists
      BY <1>3, <2>3 DEF Connect, LookInv
    <2> QED BY <2>2, <2>3
  <1>4. ASSUME NEW t \in Threads, Register(t) \/ Use(t) \/ Fail(t) \/ Raise(t)
        PROVE  EmptyFileExplained'
    BY <1>4 DEF Register, Use, Fail, Raise, Finish
  <1>5. ASSUME NEW t \in Threads, NEW k \in Kinds, Call(t, k)
        PROVE  EmptyFileExplained'
    BY <1>5 DEF Call
  <1>6. CASE Remove
    BY <1>6 DEF Remove
  <1>7. ASSUME NEW p \in Processes, Crash(p)
        PROVE  EmptyFileExplained'
    BY <1>7 DEF Crash
  <1>8. CASE Terminating
    BY <1>8 DEF Terminating, vars
  <1> QED BY <1>1, <1>2, <1>3, <1>4, <1>5, <1>6, <1>7, <1>8 DEF Next, Step

-----------------------------------------------------------------------------
(* The theorems.                                                           *)

\* The inductive invariant holds of get_connection, init_db and the readiness check
\* (db.py:63-117), for all threads and processes.
THEOREM InitInvariance == Spec => []IInv
  <1>1. Init => IInv
    BY InitiallyNothing
  <1>2. IInv /\ [Next]_vars => IInv'
    <2>1. CASE Next
      BY <2>1, TypesKept, LockKept, ConnKept, IntactKept, LookKept, TableKept, OnceKept,
         EmptyKept DEF IInv
    <2>2. CASE UNCHANGED vars
      BY <2>2 DEF vars, files, IInv, TypeOK, Files, LockInv, Critical, ConnInv, HasTable,
         IntactInv, LookInv, Exists, TableUnlessRemoved, InitializedOnce, EmptyFileExplained
    <2> QED BY <2>1, <2>2
  <1> QED BY <1>1, <1>2, PTL DEF Spec

\* Type correctness of the model of db.py's bookkeeping.
THEOREM InitTypeCorrect == Spec => []TypeOK
  BY InitInvariance, PTL DEF IInv

\* However many threads and processes meet a missing file, and whatever failed or
\* died before, get_connection (db.py:108-117) never hands out a database without
\* the table while nobody removes the file.
THEOREM TableIsThere == Spec => []TableUnlessRemoved
  BY InitInvariance, PTL DEF IInv

\* The second look under the lock (db.py:101-103) keeps a process from initialising
\* a file it knows.
THEOREM OneInitialisation == Spec => []InitializedOnce
  BY InitInvariance, PTL DEF IInv

\* The exists() in both looks (db.py:98 and 102) makes a removed file come back with
\* its table, except for the races that spoilt names.
THEOREM RemovedFileComesBack == Spec => []EmptyFileExplained
  BY InitInvariance, PTL DEF IInv
=============================================================================

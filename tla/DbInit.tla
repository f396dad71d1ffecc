------------------------------- MODULE DbInit -------------------------------
(***************************************************************************)
(* First use of the database file (app/db.py): every connection is         *)
(* preceded by _ensure_db_initialized, which creates the table unless the  *)
(* process remembers having done so and the file is still there.           *)
(*                                                                         *)
(* A file is a number, given out when something creates it; the path       *)
(* names the current one, or NoFile.  Somebody may remove the file while   *)
(* the service runs: connections that have it open keep using it, and the  *)
(* next connect creates another, empty one (sqlite3.connect creates what   *)
(* it opens).  Each DDL statement commits by itself.                       *)
(*                                                                         *)
(* The variables removed, gone and spoilt are history.                     *)
(***************************************************************************)
EXTENDS Naturals

CONSTANTS Threads, Processes,
          ProcessOf,   \* thread -> its process
          Nobody,      \* the lock is free
          MaxCalls,    \* bound: calls in a behaviour
          MaxRemovals, \* bound: times the file is removed
          MaxCrashes   \* bound: times a process dies

NoFile == 0

ASSUME InitAssumption ==
    /\ ProcessOf \in [Threads -> Processes]
    /\ Nobody \notin Threads
    /\ MaxCalls \in Nat /\ MaxRemovals \in Nat /\ MaxCrashes \in Nat

VARIABLES path,     \* the file that database_file names now
          created,  \* files created so far
          tabled,   \* the files that have the table memories
          known,    \* processes with the file in _INITIALIZED_DATABASE_FILES
          lock,     \* per process: who holds _INITIALIZED_DATABASE_FILES_LOCK
          pc,       \* per thread: the next step of its call
          kind,     \* per thread: what it calls
          conn,     \* per thread: the file its connection has open
          outcome,  \* per thread: how its last call ended
          calls, crashes, removals, \* counters of the bounds
          gone,     \* history: threads during whose call the file was removed
          spoilt    \* history: files left empty by a crash, a failure or a removal

files == <<path, created, tabled>>
vars == <<files, known, lock, pc, kind, conn, outcome, calls, crashes,
          removals, gone, spoilt>>
bounds == <<calls, crashes, removals>>

\* init_db at start-up; get_connection by a storage operation or by GET /ready,
\* which reports as a failed check what makes the operation raise.
Kinds == {"init_db", "get_connection"}
Outcomes == {"none", "ok", "no_table", "error", "lost"}
PCs == {"idle", "check", "lock", "recheck", "open", "schema", "register",
        "connect", "use"}

Files == 0 .. created
Exists == path # NoFile
HasTable(f) == f \in tabled

Init ==
    /\ path = NoFile
    /\ created = 0
    /\ tabled = {}
    /\ known = {}
    /\ lock = [p \in Processes |-> Nobody]
    /\ pc = [t \in Threads |-> "idle"]
    /\ kind = [t \in Threads |-> "get_connection"]
    /\ conn = [t \in Threads |-> NoFile]
    /\ outcome = [t \in Threads |-> "none"]
    /\ calls = 0 /\ crashes = 0 /\ removals = 0
    /\ gone = {}
    /\ spoilt = {}

-----------------------------------------------------------------------------
Goto(t, label) == pc' = [pc EXCEPT ![t] = label]

\* The call returns or raises, and its connection is closed.
Finish(t, result) ==
    /\ Goto(t, "idle")
    /\ outcome' = [outcome EXCEPT ![t] = result]
    /\ conn' = [conn EXCEPT ![t] = NoFile]
    /\ gone' = gone \ {t}

\* sqlite3.connect: opens the file the path names, creating it if there is none.
Connected(t) ==
    IF Exists
    THEN /\ conn' = [conn EXCEPT ![t] = path]
         /\ UNCHANGED files
    ELSE /\ created' = created + 1
         /\ path' = created + 1
         /\ conn' = [conn EXCEPT ![t] = path']
         /\ UNCHANGED tabled

Release(t) == lock' = [lock EXCEPT ![ProcessOf[t]] = Nobody]

Call(t, k) ==
    /\ pc[t] = "idle"
    /\ calls < MaxCalls
    /\ calls' = calls + 1
    /\ kind' = [kind EXCEPT ![t] = k]
    /\ Goto(t, IF k = "init_db" THEN "lock" ELSE "check")
    /\ outcome' = [outcome EXCEPT ![t] = "none"]
    /\ UNCHANGED <<files, known, lock, conn, crashes, removals, gone, spoilt>>

\* Faulty: what the process remembers is taken for the file's state.
InitializedByMemory(t) == ProcessOf[t] \in known

\* "database_key in _INITIALIZED_DATABASE_FILES and database_file.exists()"
Initialized(t) == ProcessOf[t] \in known /\ Exists

\* Without the lock.
FastPath(t) ==
    /\ pc[t] = "check"
    /\ Goto(t, IF Initialized(t) THEN "connect" ELSE "lock")
    /\ UNCHANGED <<files, known, lock, kind, conn, outcome, bounds, gone, spoilt>>

\* init_db initialises unconditionally; the others look again.
Lock(t) ==
    /\ pc[t] = "lock"
    /\ lock[ProcessOf[t]] = Nobody
    /\ lock' = [lock EXCEPT ![ProcessOf[t]] = t]
    /\ Goto(t, IF kind[t] = "init_db" THEN "open" ELSE "recheck")
    /\ UNCHANGED <<files, known, kind, conn, outcome, bounds, gone, spoilt>>

\* Faulty: the second look is missing.
RecheckNever(t) ==
    /\ pc[t] = "recheck"
    /\ Goto(t, "open")
    /\ UNCHANGED <<files, known, lock, kind, conn, outcome, bounds, gone, spoilt>>

Recheck(t) ==
    /\ pc[t] = "recheck"
    /\ IF Initialized(t)
       THEN Goto(t, "connect") /\ Release(t)
       ELSE Goto(t, "open") /\ UNCHANGED lock
    /\ UNCHANGED <<files, known, kind, conn, outcome, bounds, gone, spoilt>>

\* Faulty: the file is remembered before it has been initialised.
OpenAndRegister(t) ==
    /\ pc[t] = "open"
    /\ Connected(t)
    /\ known' = known \cup {ProcessOf[t]}
    /\ Goto(t, "schema")
    /\ UNCHANGED <<lock, kind, outcome, bounds, gone, spoilt>>

\* _initialize_database: connect ...
Open(t) ==
    /\ pc[t] = "open"
    /\ Connected(t)
    /\ Goto(t, "schema")
    /\ UNCHANGED <<known, lock, kind, outcome, bounds, gone, spoilt>>

\* ... and CREATE TABLE IF NOT EXISTS (the indexes that follow change no result).
Schema(t) ==
    /\ pc[t] = "schema"
    /\ tabled' = tabled \cup {conn[t]}
    /\ Goto(t, "register")
    /\ UNCHANGED <<path, created, known, lock, kind, conn, outcome, bounds, gone, spoilt>>

Register(t) ==
    /\ pc[t] = "register"
    /\ known' = known \cup {ProcessOf[t]}
    /\ Release(t)
    /\ IF kind[t] = "init_db"
       THEN Finish(t, "ok")
       ELSE Goto(t, "connect") /\ UNCHANGED <<outcome, conn, gone>>
    /\ UNCHANGED <<files, kind, bounds, spoilt>>

\* get_connection: the connection the caller will use.
Connect(t) ==
    /\ pc[t] = "connect"
    /\ Connected(t)
    /\ Goto(t, "use")
    /\ spoilt' = spoilt \cup (IF ~Exists /\ t \in gone THEN {path'} ELSE {})
    /\ UNCHANGED <<known, lock, kind, outcome, bounds, gone>>

\* The caller's statement meets the table, or "no such table: memories".
Use(t) ==
    /\ pc[t] = "use"
    /\ Finish(t, IF HasTable(conn[t]) THEN "ok" ELSE "no_table")
    /\ UNCHANGED <<files, known, lock, kind, bounds, spoilt>>

-----------------------------------------------------------------------------
(* What goes wrong.                                                        *)

\* Faulty: the exception leaves the lock taken.
FailHoldingLock(t) ==
    /\ pc[t] \in {"open", "schema", "register"}
    /\ Finish(t, "error")
    /\ spoilt' = spoilt \cup (IF pc[t] = "schema" THEN {conn[t]} ELSE {})
    /\ UNCHANGED <<files, known, lock, kind, bounds>>

\* sqlite3 raises while the file is initialised, at the connect, the table or an
\* index: the with-statement releases the lock and the caller gets the exception.
Fail(t) ==
    /\ pc[t] \in {"open", "schema", "register"}
    /\ Finish(t, "error")
    /\ Release(t)
    /\ spoilt' = spoilt \cup (IF pc[t] = "schema" THEN {conn[t]} ELSE {})
    /\ UNCHANGED <<files, known, kind, bounds>>

\* The connect of get_connection raises, or the caller's statement does.
Raise(t) ==
    /\ pc[t] \in {"connect", "use"}
    /\ Finish(t, "error")
    /\ UNCHANGED <<files, known, lock, kind, bounds, spoilt>>

\* Somebody removes the file.
Remove ==
    /\ Exists
    /\ removals < MaxRemovals
    /\ removals' = removals + 1
    /\ path' = NoFile
    /\ gone' = gone \cup {t \in Threads : pc[t] # "idle"}
    /\ UNCHANGED <<created, tabled, known, lock, pc, kind, conn, outcome, calls, crashes,
                   spoilt>>

\* A process dies; what it remembered and locked was in its memory.
Crash(p) ==
    LET dead == {t \in Threads : ProcessOf[t] = p /\ pc[t] # "idle"}
    IN  /\ crashes < MaxCrashes
        /\ crashes' = crashes + 1
        /\ known' = known \ {p}
        /\ lock' = [lock EXCEPT ![p] = Nobody]
        /\ pc' = [t \in Threads |-> IF t \in dead THEN "idle" ELSE pc[t]]
        /\ outcome' = [t \in Threads |-> IF t \in dead THEN "lost" ELSE outcome[t]]
        /\ conn' = [t \in Threads |-> IF t \in dead THEN NoFile ELSE conn[t]]
        /\ gone' = gone \ dead
        /\ spoilt' = spoilt \cup {conn[t] : t \in {u \in dead : pc[u] = "schema"}}
        /\ UNCHANGED <<files, kind, calls, removals>>

Terminating ==
    /\ calls = MaxCalls
    /\ \A t \in Threads : pc[t] = "idle"
    /\ UNCHANGED vars

-----------------------------------------------------------------------------
Step(t) ==
    \/ FastPath(t) \/ Lock(t) \/ Recheck(t)
    \/ Open(t) \/ Schema(t) \/ Register(t)
    \/ Connect(t) \/ Use(t)
    \/ Fail(t) \/ Raise(t)

Next ==
    \/ \E t \in Threads : Step(t) \/ \E k \in Kinds : Call(t, k)
    \/ \E p \in Processes : Crash(p)
    \/ Remove
    \/ Terminating

Spec == Init /\ [][Next]_vars

\* Threads are scheduled, and threading.Lock is granted to somebody who waits.  A
\* thread that waits may be passed over, but only by calls, which are bounded.
Fairness == \A t \in Threads : WF_vars(Step(t))

FairSpec == Spec /\ Fairness

-----------------------------------------------------------------------------
(* Properties.                                                             *)

\* Type correctness.
TypeOK ==
    /\ created \in Nat /\ path \in Files /\ tabled \subseteq Files \ {NoFile}
    /\ known \subseteq Processes
    /\ lock \in [Processes -> Threads \cup {Nobody}]
    /\ pc \in [Threads -> PCs]
    /\ kind \in [Threads -> Kinds]
    /\ conn \in [Threads -> Files]
    /\ outcome \in [Threads -> Outcomes]
    /\ calls \in Nat /\ crashes \in Nat /\ removals \in Nat
    /\ gone \subseteq Threads /\ spoilt \subseteq Files

\* No caller of get_connection meets a database without its table while nobody
\* removes the file: not when several threads or processes meet a file that is not
\* there yet, nor after an initialisation that failed or died half way.
TableUnlessRemoved ==
    removals = 0 => \A t \in Threads : outcome[t] # "no_table"

\* The two looks at the set of initialised files save every process the DDL, which
\* would make every writer wait, while it knows the file: an initialisation runs only
\* if the process has not finished one since it started, unless the file was removed
\* or init_db asked for it.
InitializedOnce ==
    \A t \in Threads :
        pc[t] \in {"open", "schema", "register"} /\ kind[t] # "init_db" /\ removals = 0
            => ProcessOf[t] \notin known

\* A removed file comes back with its table.  If the path names a file without one,
\* then somebody is about to create it, or the initialisation of that very file
\* failed or died, or the file was removed in the middle of the call that created
\* this one: exists() recognises every removal between calls.
EmptyFileExplained ==
    Exists /\ ~HasTable(path) =>
        \/ path \in spoilt
        \/ \E t \in Threads : pc[t] = "schema" /\ conn[t] = path

\* Every call returns, raises, or dies with its process: a failing initialisation
\* does not keep the lock.
EveryCallReturns ==
    \A t \in Threads : pc[t] # "idle" ~> pc[t] = "idle"
=============================================================================

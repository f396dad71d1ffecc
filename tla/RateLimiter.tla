---------------------------- MODULE RateLimiter ----------------------------
(***************************************************************************)
(* The fixed-window rate limiter of app/request_limits.py, as the HTTP     *)
(* middleware consults it: once per request, before the body is read.      *)
(*                                                                         *)
(* FixedWindowRateLimiter.check runs on the event loop without an await,   *)
(* so one call is one step.  Time is counted in ticks of the monotonic     *)
(* clock, TicksPerSecond to the second; the wall clock runs alongside,     *)
(* WallOffset ahead.  The limiter opens a key's window at the key's first  *)
(* request and forgets it when the window has run out.                     *)
(*                                                                         *)
(* One process has one limiter; the model is of one process.               *)
(*                                                                         *)
(* The variables admitted, retryAt and resetAt are history: the admissions *)
(* of every key, and what the headers of its last 429 promised.            *)
(***************************************************************************)
EXTENDS Integers, Sequences

CONSTANTS Requests,        \* what clients send: header, host, method and path
          Normal,          \* X-Client-Id, stripped and cut to 128 characters
          Limits,          \* bucket name -> requests allowed per window
          Exempt,          \* the bucket of a request that is not limited
          TicksPerSecond,
          Window,          \* RATE_LIMIT_WINDOW_SECONDS, in ticks
          WallOffset,      \* wall clock minus monotonic clock, in ticks
          Never,           \* no promise was made
          MaxTime          \* bound: the last instant of a behaviour

BucketNames == {"mcp", "reads", "writes", "batch"}

\* Faulty: clients are told apart by their address alone.
IdentityOfPeer(r) == IF r.host # "" THEN r.host ELSE "unknown"

\* rate_limit_identity: the header if there is one and it is not blank, else the
\* peer's address, else one identity for everybody without either.
IdentityOf(r) ==
    CASE Normal[r.header] # "" -> Normal[r.header]
      [] Normal[r.header] = "" /\ r.host # "" -> r.host
      [] OTHER -> "unknown"

\* classify_rate_limit_bucket, on the paths it tells apart
BucketOf(r) ==
    CASE r.method \in {"HEAD", "OPTIONS"} -> Exempt
      [] r.method \notin {"HEAD", "OPTIONS"} /\ r.path = "/mcp" -> "mcp"
      [] r.method = "GET" /\ r.path \in {"/memories", "/memories/batch", "/memories/id"} -> "reads"
      [] r.method = "POST" /\ r.path = "/memories/batch" -> "batch"
      [] r.method = "POST" /\ r.path = "/memories" -> "writes"
      [] r.method \in {"PATCH", "DELETE"} /\ r.path \in {"/memories/batch", "/memories/id"} -> "writes"
      [] OTHER -> Exempt

KeyOf(r) == <<IdentityOf(r), BucketOf(r)>>
Keys == {KeyOf(r) : r \in {x \in Requests : BucketOf(x) # Exempt}}
LimitOf(k) == Limits[k[2]]

ASSUME LimiterAssumption ==
    /\ Limits \in [BucketNames -> Nat \ {0}]
    /\ Exempt \notin BucketNames
    /\ TicksPerSecond \in Nat \ {0}
    /\ Window \in Nat \ {0}
    /\ WallOffset \in Nat
    /\ Never \notin Int
    /\ MaxTime \in Nat

VARIABLES now,      \* time.monotonic()
          windows,  \* the limiter's dictionary: key -> its window
          admitted, \* history: per key, the instants it was admitted at
          retryAt,  \* history: per key, when Retry-After said to come back
          resetAt   \* history: per key, when X-RateLimit-Reset said

vars == <<now, windows, admitted, retryAt, resetAt>>

Init ==
    /\ now = 0
    /\ windows = << >>
    /\ admitted = [k \in Keys |-> << >>]
    /\ retryAt = [k \in Keys |-> Never]
    /\ resetAt = [k \in Keys |-> Never]

-----------------------------------------------------------------------------
\* math.ceil of a number of ticks, in seconds
Seconds(ticks) == (ticks + TicksPerSecond - 1) \div TicksPerSecond

AtLeastOne(n) == IF n < 1 THEN 1 ELSE n

\* Faulty: a window is kept at the very instant it runs out.
ExpiredLate(window) == window.reset < now

\* Faulty: a window is dropped an instant before it runs out.
ExpiredEarly(window) == window.reset <= now + 1

Expired(window) == window.reset <= now

\* _prune_expired_windows
Live == {k \in DOMAIN windows : ~Expired(windows[k])}

\* The window check() works on: the live one, or a new one.
NewWindow == [count |-> 0, reset |-> now + Window,
              epoch |-> Seconds(now + WallOffset + Window)]
WindowOf(k) == IF k \in Live THEN windows[k] ELSE NewWindow

\* Faulty: the comparison lets one request too many through.
ExhaustedLate(k, window) == window.count > LimitOf(k)

Exhausted(k, window) == window.count >= LimitOf(k)

\* Faulty: the wait is rounded down.
RetryAfterRoundedDown(window) == AtLeastOne((window.reset - now) \div TicksPerSecond)

\* Faulty: a client is always sent away for a whole window.
RetryAfterWindow(window) == Seconds(Window)

RetryAfter(window) == AtLeastOne(Seconds(window.reset - now))

\* What the dictionary holds after check(): live windows, and this one.
Updated(k, window) ==
    [j \in Live \cup {k} |-> IF j = k THEN window ELSE windows[j]]

\* check() lets the request through.
Admit(k) ==
    LET window == WindowOf(k)
    IN  /\ ~Exhausted(k, window)
        /\ windows' = Updated(k, [window EXCEPT !.count = @ + 1])
        /\ admitted' = [admitted EXCEPT ![k] = Append(@, now)]
        /\ retryAt' = [retryAt EXCEPT ![k] = Never]
        /\ resetAt' = [resetAt EXCEPT ![k] = Never]
        /\ UNCHANGED now

\* check() answers 429; its headers say when to come back.
Reject(k) ==
    LET window == WindowOf(k)
    IN  /\ Exhausted(k, window)
        /\ windows' = Updated(k, window)
        /\ retryAt' = [retryAt EXCEPT ![k] = now + RetryAfter(window) * TicksPerSecond]
        /\ resetAt' = [resetAt EXCEPT ![k] = window.epoch * TicksPerSecond - WallOffset]
        /\ UNCHANGED <<now, admitted>>

\* reject_request_if_rate_limited: an exempt request never reaches the limiter.
Handle(r) ==
    /\ BucketOf(r) # Exempt
    /\ Admit(KeyOf(r)) \/ Reject(KeyOf(r))

Tick ==
    /\ now < MaxTime
    /\ now' = now + 1
    /\ UNCHANGED <<windows, admitted, retryAt, resetAt>>

Next ==
    \/ \E r \in Requests : Handle(r)
    \/ Tick

Spec == Init /\ [][Next]_vars

-----------------------------------------------------------------------------
(* Properties.                                                             *)

WindowType(k) == [count : 0 .. LimitOf(k), reset : Nat, epoch : Nat]

\* Type correctness; a window never counts past its key's limit.
TypeOK ==
    /\ now \in 0 .. MaxTime
    /\ DOMAIN windows \subseteq Keys
    /\ \A k \in DOMAIN windows : windows[k] \in WindowType(k)
    /\ admitted \in [Keys -> Seq(Nat)]
    /\ retryAt \in [Keys -> Int \cup {Never}]
    /\ resetAt \in [Keys -> Int \cup {Never}]

\* The most a client can get: however it times its requests around the windows,
\* no more than twice its limit is admitted within any stretch of time as long as
\* a window (README.md:191: limits "protect [...] from runaway agents").
BurstBound ==
    \A k \in Keys : \A i \in DOMAIN admitted[k] :
        i + 2 * LimitOf(k) \in DOMAIN admitted[k] =>
            admitted[k][i + 2 * LimitOf(k)] - admitted[k][i] > Window

\* Would a request under key k be let through now?
WouldAdmit(k) == ~Exhausted(k, WindowOf(k))

\* Nobody pays for somebody else's requests, or for requests that were refused: a
\* key that would get a 429 has itself been admitted its whole limit within the
\* last window's length (check's key is identity and bucket).
OverLimitOnly ==
    \A k \in Keys : ~WouldAdmit(k) =>
        LET n == Len(admitted[k])
        IN  /\ n >= LimitOf(k)
            /\ admitted[k][n - LimitOf(k) + 1] > now - Window

\* The headers of a 429 can be relied on: a client that stays away until the
\* instant either of them names, by whatever clock, is let in when it returns.
RetryIsEnough ==
    \A k \in Keys :
        (retryAt[k] # Never /\ retryAt[k] <= now) \/ (resetAt[k] # Never /\ resetAt[k] <= now)
            => WouldAdmit(k)

\* And Retry-After wastes less than a second: up to a second before the instant it
\* names the client would still have been refused.
RetryIsTight ==
    \A k \in Keys : retryAt[k] # Never /\ now + TicksPerSecond <= retryAt[k] => ~WouldAdmit(k)
=============================================================================

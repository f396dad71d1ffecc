------------------------ MODULE RateLimiter_proofs ------------------------
(***************************************************************************)
(* Proofs about RateLimiter, for every set of requests, every limit and    *)
(* window length, every resolution of the clock and every bound on time.   *)
(*                                                                         *)
(* The induction follows one key.  HistoryInv says where its admissions    *)
(* lie: those its open window counted lie inside the window, the others    *)
(* before it, and all but a limit's worth of the others more than a        *)
(* window's length before it.  PromiseInv ties what the last 429 said to   *)
(* the window that caused it.  Spaced counts the windows a client can have *)
(* had since its first admission.                                          *)
(***************************************************************************)
EXTENDS RateLimiter, TLAPS

-----------------------------------------------------------------------------
(* Rounding up.                                                            *)

\* Seconds(x) is the least number of whole seconds that is not below x ticks.
LEMMA RoundsUp ==
    ASSUME NEW x \in Int
    PROVE  /\ Seconds(x) \in Int
           /\ Seconds(x) * TicksPerSecond >= x
           /\ Seconds(x) * TicksPerSecond < x + TicksPerSecond
           /\ x >= 0 => Seconds(x) \in Nat
           /\ x >= 1 => Seconds(x) >= 1
  <1>1. TicksPerSecond \in Int /\ TicksPerSecond > 0 /\ x + TicksPerSecond - 1 \in Int
    BY LimiterAssumption
  <1>2. \A y, t \in Int : t > 0 =>
           /\ y \div t \in Int
           /\ (y \div t) * t <= y /\ y < (y \div t) * t + t
    BY SMT
  <1>3. /\ Seconds(x) \in Int
        /\ Seconds(x) * TicksPerSecond >= x
        /\ Seconds(x) * TicksPerSecond < x + TicksPerSecond
    BY <1>1, <1>2 DEF Seconds
  <1>4. \A q, t \in Int : t > 0 /\ q <= 0 => q * t <= 0
    BY SMT
  <1>5. \A q, t \in Int : t > 0 /\ q < 0 => q * t <= -t
    BY SMT
  <1> QED BY <1>1, <1>3, <1>4, <1>5

\* The wait a 429 asks for reaches the end of the window, and not a second past it.
LEMMA RetryAfterReaches ==
    ASSUME NEW window, window.reset \in Int, now \in Int, window.reset > now
    PROVE  /\ RetryAfter(window) \in Int
           /\ now + RetryAfter(window) * TicksPerSecond >= window.reset
           /\ now + RetryAfter(window) * TicksPerSecond < window.reset + TicksPerSecond
  <1> DEFINE x == window.reset - now
  <1>1. x \in Int /\ x >= 1 OBVIOUS
  <1>2. RetryAfter(window) = Seconds(x)
    BY <1>1, RoundsUp DEF RetryAfter, AtLeastOne
  <1>3. /\ Seconds(x) * TicksPerSecond >= x
        /\ Seconds(x) * TicksPerSecond < x + TicksPerSecond
        /\ Seconds(x) * TicksPerSecond \in Int
        /\ Seconds(x) \in Int
    BY <1>1, RoundsUp, LimiterAssumption
  <1> HIDE DEF x
  <1>4. x = window.reset - now BY DEF x
  <1> QED BY <1>2, <1>3, <1>4, LimiterAssumption

\* Every key has a positive limit.
LEMMA LimitType == ASSUME NEW k \in Keys PROVE LimitOf(k) \in Nat \ {0}
  <1>1. PICK r \in Requests : BucketOf(r) # Exempt /\ k = KeyOf(r)
    BY DEF Keys
  <1>2. BucketOf(r) \in BucketNames
    BY <1>1 DEF BucketOf, BucketNames
  <1>3. k[2] = BucketOf(r)
    BY <1>1 DEF KeyOf
  <1> QED BY <1>2, <1>3, LimiterAssumption DEF LimitOf

-----------------------------------------------------------------------------
(* The inductive invariant.                                                *)

\* The first m admissions lie before t, all but the last limit of them by more
\* than a window.
Past(log, m, t, limit) ==
    /\ \A i \in 1 .. m : log[i] < t
    /\ \A i \in 1 .. m - limit : log[i] + Window < t

\* A window of k that counted the last count admissions of the key.
Fits(k, window) ==
    LET n == Len(admitted[k])
        opened == window.reset - Window
    IN  /\ window \in WindowType(k)
        /\ opened <= now
        /\ window.count <= n
        /\ \A i \in n - window.count + 1 .. n :
              opened <= admitted[k][i] /\ admitted[k][i] < window.reset
        /\ Past(admitted[k], n - window.count, opened, LimitOf(k))
        /\ window.epoch * TicksPerSecond - WallOffset >= window.reset

Closed(k) == Past(admitted[k], Len(admitted[k]), now, LimitOf(k))

HistoryInv ==
    \A k \in Keys : IF k \in DOMAIN windows THEN Fits(k, windows[k]) ELSE Closed(k)

\* The window that made Retry-After promise retryAt[k] is exhausted, and ends less
\* than a second before the promised instant.
Retries(k) ==
    IF k \in DOMAIN windows
    THEN /\ windows[k].count >= LimitOf(k)
         /\ windows[k].reset <= retryAt[k]
         /\ retryAt[k] < windows[k].reset + TicksPerSecond
    ELSE retryAt[k] < now + TicksPerSecond

PromiseInv ==
    \A k \in Keys :
        /\ retryAt[k] # Never => Retries(k)
        /\ resetAt[k] # Never /\ k \in DOMAIN windows => windows[k].reset <= resetAt[k]

IInv == TypeOK /\ HistoryInv /\ PromiseInv /\ BurstBound

-----------------------------------------------------------------------------
(* What the invariant says of the window that check() works on.            *)

\* A key without a live window has all its admissions behind it.
LEMMA NotLiveIsClosed ==
    ASSUME IInv, NEW k \in Keys, k \notin Live
    PROVE  Closed(k)
  <1>1. CASE k \notin DOMAIN windows
    BY <1>1 DEF IInv, HistoryInv
  <1>2. CASE k \in DOMAIN windows
    <2> DEFINE n == Len(admitted[k])
               w == windows[k]
               log == admitted[k]
    <2>1. Fits(k, w) /\ w.reset <= now
      BY <1>2 DEF IInv, HistoryInv, Live, Expired
    <2>2. /\ n \in Nat /\ now \in Int /\ log \in Seq(Nat) /\ LimitOf(k) \in Nat
          /\ w.count \in 0 .. LimitOf(k) /\ w.reset \in Nat /\ Window \in Nat
      BY <1>2, LimitType, LimiterAssumption DEF IInv, TypeOK, WindowType
    <2>3. \A i \in 1 .. n : log[i] \in Nat
      BY <2>2
    <2>4. /\ \A i \in n - w.count + 1 .. n : log[i] < w.reset
          /\ \A i \in 1 .. n - w.count : log[i] < w.reset - Window
      BY <2>1 DEF Fits, Past
    <2> HIDE DEF n, w, log
    <2>5. \A i \in 1 .. n : log[i] < now
      <3> SUFFICES ASSUME NEW i \in 1 .. n PROVE log[i] < now
        OBVIOUS
      <3>1. i \in n - w.count + 1 .. n \/ i \in 1 .. n - w.count
        BY <2>2
      <3>2. log[i] < w.reset
        BY <2>2, <2>3, <2>4, <3>1
      <3> QED BY <2>1, <2>2, <2>3, <3>2
    <2>6. \A i \in 1 .. n - LimitOf(k) : log[i] + Window < now
      <3> SUFFICES ASSUME NEW i \in 1 .. n - LimitOf(k) PROVE log[i] + Window < now
        OBVIOUS
      <3>1. i \in 1 .. n - w.count /\ i \in 1 .. n
        BY <2>2
      <3>2. log[i] < w.reset - Window
        BY <2>4, <3>1
      <3> QED BY <2>1, <2>2, <2>3, <3>1, <3>2
    <2> QED BY <2>5, <2>6 DEF Closed, Past, n, log
  <1> QED BY <1>1, <1>2

\* The window check() works on fits the key's history and has not run out.
LEMMA WindowFits ==
    ASSUME IInv, NEW k \in Keys
    PROVE  Fits(k, WindowOf(k)) /\ WindowOf(k).reset > now
  <1>1. CASE k \in Live
    <2>1. k \in DOMAIN windows /\ ~Expired(windows[k])
      BY <1>1 DEF Live
    <2>2. windows[k].reset \in Int /\ now \in Int
      BY <2>1 DEF IInv, TypeOK, WindowType
    <2> QED BY <1>1, <2>1, <2>2 DEF WindowOf, Expired, IInv, HistoryInv
  <1>2. CASE k \notin Live
    <2> DEFINE n == Len(admitted[k])
               w == NewWindow
               x == now + WallOffset + Window
    <2>1. Closed(k) /\ WindowOf(k) = w
      BY <1>2, NotLiveIsClosed DEF WindowOf
    <2>2. /\ now \in Nat /\ n \in Nat /\ LimitOf(k) \in Nat
          /\ Window \in Nat \ {0} /\ WallOffset \in Nat
      BY LimitType, LimiterAssumption DEF IInv, TypeOK
    <2>3. x \in Int /\ x >= 0
      BY <2>2
    <2>4. Seconds(x) \in Nat /\ Seconds(x) * TicksPerSecond >= x
      BY <2>3, RoundsUp
    <2>5. w.count = 0 /\ w.reset = now + Window /\ w.epoch = Seconds(x)
      BY DEF NewWindow
    <2>6. w \in WindowType(k)
      BY <2>2, <2>4 DEF NewWindow, WindowType
    <2>7. Seconds(x) * TicksPerSecond \in Int
      BY <2>4, LimiterAssumption
    <2>8. w.epoch * TicksPerSecond - WallOffset >= w.reset
      BY <2>2, <2>4, <2>5, <2>7
    <2>9. w.reset - Window = now
      BY <2>2, <2>5
    <2>10. Fits(k, w)
      <3> HIDE DEF w
      <3>1. n - w.count = n
        BY <2>2, <2>5
      <3>2. Past(admitted[k], n - w.count, w.reset - Window, LimitOf(k))
        BY <2>1, <2>9, <3>1 DEF Closed
      <3>3. n - w.count + 1 .. n = {}
        BY <2>2, <3>1
      <3> QED BY <2>2, <2>5, <2>6, <2>8, <2>9, <3>2, <3>3 DEF Fits
    <2> QED BY <2>1, <2>2, <2>5, <2>10
  <1> QED BY <1>1, <1>2

-----------------------------------------------------------------------------
(* Every step preserves it.                                                *)

\* What check() for one key leaves of all the others: their windows if live, and
\* their history and promises as they were.
LEMMA OthersKept ==
    ASSUME IInv, NEW k \in Keys, NEW j \in Keys, j # k, NEW window,
           windows' = Updated(k, window), now' = now,
           admitted'[j] = admitted[j], retryAt'[j] = retryAt[j], resetAt'[j] = resetAt[j]
    PROVE  /\ IF j \in DOMAIN windows' THEN Fits(j, windows[j])' ELSE Closed(j)'
           /\ retryAt'[j] # Never => Retries(j)'
           /\ resetAt'[j] # Never /\ j \in DOMAIN windows' => windows'[j].reset <= resetAt'[j]
  <1>1. DOMAIN windows' = Live \cup {k}
    BY DEF Updated
  <1>2. CASE j \in Live
    <2>1. windows'[j] = windows[j] /\ j \in DOMAIN windows /\ j \in DOMAIN windows'
      BY <1>1, <1>2 DEF Updated, Live
    <2>2. Fits(j, windows[j])
      BY <2>1 DEF IInv, HistoryInv
    <2>3. Fits(j, windows[j])'
      BY <2>1, <2>2 DEF Fits, WindowType, LimitOf
    <2>4. retryAt'[j] # Never => Retries(j)'
      BY <2>1 DEF IInv, PromiseInv, Retries
    <2> QED BY <2>1, <2>3, <2>4 DEF IInv, PromiseInv
  <1>3. CASE j \notin Live
    <2>1. j \notin DOMAIN windows'
      BY <1>1, <1>3
    <2>2. Closed(j)'
      BY <1>3, NotLiveIsClosed DEF Closed
    <2>3. ASSUME retryAt[j] # Never PROVE retryAt[j] < now + TicksPerSecond
      <3>1. Retries(j)
        BY <2>3 DEF IInv, PromiseInv
      <3>2. CASE j \notin DOMAIN windows
        BY <3>1, <3>2 DEF Retries
      <3>3. CASE j \in DOMAIN windows
        <4>1. windows[j].reset <= now /\ retryAt[j] < windows[j].reset + TicksPerSecond
          BY <1>3, <3>1, <3>3 DEF Retries, Live, Expired
        <4>2. windows[j].reset \in Int /\ now \in Int /\ retryAt[j] \in Int
          BY <2>3, <3>3 DEF IInv, TypeOK, WindowType
        <4> QED BY <4>1, <4>2, LimiterAssumption
      <3> QED BY <3>2, <3>3
    <2> QED BY <2>1, <2>2, <2>3 DEF Retries
  <1> QED BY <1>2, <1>3

\* Counting a request changes nothing else of its window.
LEMMA CountUp ==
    ASSUME NEW k \in Keys, NEW w \in WindowType(k), w.count < LimitOf(k)
    PROVE  LET v == [w EXCEPT !.count = @ + 1]
           IN  /\ v \in WindowType(k)
               /\ v.count = w.count + 1 /\ v.reset = w.reset /\ v.epoch = w.epoch
  BY LimitType DEF WindowType

\* An admitted request fits its window: it comes last, inside the window, and the
\* earlier admissions keep their place.
LEMMA AdmissionFits ==
    ASSUME IInv, NEW k \in Keys, Admit(k)
    PROVE  /\ k \in DOMAIN windows'
           /\ Fits(k, windows[k])'
  <1> DEFINE w == WindowOf(k)
             v == [w EXCEPT !.count = @ + 1]
             log == admitted[k]
             n == Len(log)
             opened == w.reset - Window
  <1>1. Fits(k, w) /\ w.reset > now
    BY WindowFits
  <1>2. /\ windows' = Updated(k, v) /\ ~Exhausted(k, w) /\ now' = now
        /\ admitted' = [admitted EXCEPT ![k] = Append(@, now)]
    BY DEF Admit
  <1>3. k \in DOMAIN windows' /\ windows'[k] = v
    BY <1>2 DEF Updated
  <1>4. /\ log \in Seq(Nat) /\ n \in Nat /\ now \in Nat /\ w \in WindowType(k)
        /\ LimitOf(k) \in Nat /\ Window \in Nat
    BY <1>1, LimitType, LimiterAssumption DEF IInv, TypeOK, Fits
  <1>5. admitted'[k] = Append(log, now)
    BY <1>2 DEF IInv, TypeOK
  <1>6. Len(admitted'[k]) = n + 1 /\ admitted'[k][n + 1] = now
        /\ \A i \in 1 .. n : admitted'[k][i] = log[i]
    BY <1>4, <1>5
  <1>7. /\ w.count \in 0 .. LimitOf(k) /\ w.count < LimitOf(k) /\ w.count <= n
        /\ w.reset \in Nat /\ w.epoch \in Nat
    BY <1>1, <1>2, <1>4 DEF Fits, Exhausted, WindowType
  <1>8. v \in WindowType(k) /\ v.count = w.count + 1 /\ v.reset = w.reset /\ v.epoch = w.epoch
    BY <1>4, <1>7, CountUp
  <1>9. /\ opened <= now
        /\ \A i \in n - w.count + 1 .. n : opened <= log[i] /\ log[i] < w.reset
        /\ \A i \in 1 .. n - w.count : log[i] < opened
        /\ \A i \in 1 .. n - w.count - LimitOf(k) : log[i] + Window < opened
        /\ w.epoch * TicksPerSecond - WallOffset >= w.reset
    BY <1>1 DEF Fits, Past
  <1> HIDE DEF w, v, log, n
  <1>10. Len(admitted'[k]) - v.count = n - w.count
    <2>1. \A a, b \in Int : (a + 1) - (b + 1) = a - b
      OBVIOUS
    <2>2. w.count \in Int /\ n \in Int
      BY <1>4, <1>7
    <2> QED BY <1>6, <1>8, <2>1, <2>2
  <1>11. ASSUME NEW i \in Len(admitted'[k]) - v.count + 1 .. Len(admitted'[k])
         PROVE  v.reset - Window <= admitted'[k][i] /\ admitted'[k][i] < v.reset
    <2>1. i \in n - w.count + 1 .. n \/ i = n + 1
      BY <1>4, <1>6, <1>7, <1>10
    <2>2. CASE i = n + 1
      BY <1>1, <1>4, <1>6, <1>7, <1>8, <1>9, <2>2
    <2>3. CASE i \in n - w.count + 1 .. n
      <3>1. i \in 1 .. n
        BY <1>4, <1>7, <2>3
      <3> QED BY <1>6, <1>8, <1>9, <2>3, <3>1
    <2> QED BY <2>1, <2>2, <2>3
  <1>12. Past(admitted'[k], n - w.count, opened, LimitOf(k))
    <2>1. \A i \in 1 .. n - w.count : i \in 1 .. n
      BY <1>4, <1>7
    <2>2. \A i \in 1 .. n - w.count - LimitOf(k) : i \in 1 .. n
      BY <1>4, <1>7
    <2> QED BY <1>6, <1>9, <2>1, <2>2 DEF Past
  <1>13. Fits(k, windows[k])'
    <2>1. v.count <= Len(admitted'[k])
      BY <1>4, <1>6, <1>7, <1>8
    <2>2. Past(admitted'[k], Len(admitted'[k]) - v.count, v.reset - Window, LimitOf(k))
      BY <1>8, <1>10, <1>12
    <2>3. v.reset - Window <= now'
      BY <1>2, <1>8, <1>9
    <2>4. v.epoch * TicksPerSecond - WallOffset >= v.reset
      BY <1>8, <1>9
    <2> QED BY <1>3, <1>8, <1>11, <2>1, <2>2, <2>3, <2>4 DEF Fits, WindowType, LimitOf
  <1> QED BY <1>3, <1>13

\* A request refused leaves a window that fits and is exhausted, and promises that
\* reach its end.
LEMMA RejectionFits ==
    ASSUME IInv, NEW k \in Keys, Reject(k)
    PROVE  /\ k \in DOMAIN windows'
           /\ Fits(k, windows[k])'
           /\ Retries(k)'
           /\ windows'[k].reset <= resetAt'[k]
           /\ retryAt'[k] \in Int /\ resetAt'[k] \in Int
  <1> DEFINE w == WindowOf(k)
  <1>1. Fits(k, w) /\ w.reset > now
    BY WindowFits
  <1>2. /\ windows' = Updated(k, w) /\ Exhausted(k, w)
        /\ now' = now /\ admitted' = admitted
        /\ retryAt'[k] = now + RetryAfter(w) * TicksPerSecond
        /\ resetAt'[k] = w.epoch * TicksPerSecond - WallOffset
    BY DEF Reject, IInv, TypeOK
  <1>3. k \in DOMAIN windows' /\ windows'[k] = w
    BY <1>2 DEF Updated
  <1>4. w.reset \in Int /\ w.epoch \in Nat /\ now \in Int /\ TicksPerSecond \in Nat
        /\ WallOffset \in Nat
    BY <1>1, LimiterAssumption DEF IInv, TypeOK, Fits, WindowType
  <1> HIDE DEF w
  <1>5. /\ RetryAfter(w) \in Int
        /\ retryAt'[k] >= w.reset
        /\ retryAt'[k] < w.reset + TicksPerSecond
    BY <1>1, <1>2, <1>4, RetryAfterReaches
  <1>6. RetryAfter(w) * TicksPerSecond \in Int /\ w.epoch * TicksPerSecond \in Int
    BY <1>4, <1>5
  <1>7. retryAt'[k] \in Int /\ resetAt'[k] \in Int
    BY <1>2, <1>4, <1>6
  <1>8. Fits(k, windows[k])'
    BY <1>1, <1>2, <1>3 DEF Fits, WindowType, LimitOf
  <1>9. Retries(k)'
    BY <1>2, <1>3, <1>5 DEF Retries, Exhausted, LimitOf
  <1>10. windows'[k].reset <= resetAt'[k]
    BY <1>1, <1>2, <1>3 DEF Fits
  <1> QED BY <1>3, <1>7, <1>8, <1>9, <1>10

\* The burst bound survives an admission: the window that is being filled is the
\* last of its key, and at most a limit's worth of older admissions is close to it.
LEMMA AdmissionBounded ==
    ASSUME IInv, NEW k \in Keys, Admit(k)
    PROVE  BurstBound'
  <1> DEFINE w == WindowOf(k)
             log == admitted[k]
             n == Len(log)
             L == LimitOf(k)
  <1>1. Fits(k, w)
    BY WindowFits
  <1>2. admitted' = [admitted EXCEPT ![k] = Append(@, now)] /\ ~Exhausted(k, w)
    BY DEF Admit
  <1>3. log \in Seq(Nat) /\ n \in Nat /\ now \in Nat /\ L \in Nat \ {0} /\ Window \in Nat
    BY LimitType, LimiterAssumption DEF IInv, TypeOK
  <1>4. /\ w.count \in 0 .. L /\ w.count < L /\ w.count <= n /\ w.reset \in Nat
        /\ w.reset - Window <= now
        /\ \A i \in 1 .. n - w.count - L : log[i] + Window < w.reset - Window
    BY <1>1, <1>2, <1>3 DEF Fits, Past, Exhausted, WindowType
  <1>5. /\ Len(admitted'[k]) = n + 1 /\ admitted'[k][n + 1] = now
        /\ \A i \in 1 .. n : admitted'[k][i] = log[i]
        /\ DOMAIN admitted'[k] = 1 .. n + 1 /\ DOMAIN log = 1 .. n
    BY <1>2, <1>3 DEF IInv, TypeOK
  <1>6. \A i \in 1 .. n : i + 2 * L \in 1 .. n => log[i + 2 * L] - log[i] > Window
    BY <1>5 DEF IInv, BurstBound
  <1>7. \A i \in 1 .. n : log[i] \in Nat
    BY <1>3
  <1>8. ASSUME NEW j \in Keys, NEW i \in DOMAIN admitted'[j],
               i + 2 * LimitOf(j) \in DOMAIN admitted'[j]
        PROVE  admitted'[j][i + 2 * LimitOf(j)] - admitted'[j][i] > Window
    <2>1. CASE j # k
      <3>1. admitted'[j] = admitted[j]
        BY <1>2, <2>1 DEF IInv, TypeOK
      <3> QED BY <1>8, <3>1 DEF IInv, BurstBound
    <2>2. CASE j = k
      <3> HIDE DEF w, log, n, L
      <3>1. i \in 1 .. n + 1 /\ i + 2 * L \in 1 .. n + 1
        BY <1>5, <1>8, <2>2 DEF L
      <3>2. CASE i + 2 * L \in 1 .. n
        <4>1. i \in 1 .. n
          BY <1>3, <3>1, <3>2
        <4> QED BY <1>5, <1>6, <2>2, <3>2, <4>1 DEF L
      <3>3. CASE i + 2 * L = n + 1
        <4>1. i \in 1 .. n /\ i \in 1 .. n - w.count - L
          BY <1>3, <1>4, <3>1, <3>3
        <4>2. log[i] + Window < w.reset - Window
          BY <1>4, <4>1
        <4>3. now - log[i] > Window
          BY <1>3, <1>4, <1>7, <4>1, <4>2
        <4>4. admitted'[j][i] = log[i] /\ admitted'[j][i + 2 * LimitOf(j)] = now
          BY <1>5, <2>2, <3>3, <4>1 DEF L
        <4> QED BY <4>3, <4>4
      <3> QED BY <1>3, <3>1, <3>2, <3>3
    <2> QED BY <2>1, <2>2
  <1> QED BY <1>8 DEF BurstBound, LimitOf

\* One call of check(), admitting or refusing.
LEMMA CheckStep ==
    ASSUME IInv, NEW k \in Keys, Admit(k) \/ Reject(k)
    PROVE  IInv'
  <1> USE DEF IInv
  <1> DEFINE here(j) == /\ IF j \in DOMAIN windows' THEN Fits(j, windows[j])' ELSE Closed(j)'
                        /\ retryAt'[j] # Never => Retries(j)'
                        /\ resetAt'[j] # Never /\ j \in DOMAIN windows'
                              => windows'[j].reset <= resetAt'[j]
  <1>1. PICK window : windows' = Updated(k, window)
    BY DEF Admit, Reject
  <1>2. now' = now /\ DOMAIN windows' = Live \cup {k} /\ DOMAIN windows' \subseteq Keys
    BY <1>1 DEF Admit, Reject, Updated, Live, TypeOK
  <1>3. \A j \in Keys : j # k =>
           admitted'[j] = admitted[j] /\ retryAt'[j] = retryAt[j] /\ resetAt'[j] = resetAt[j]
    BY DEF Admit, Reject, TypeOK
  <1>4. ASSUME NEW j \in Keys, j # k PROVE here(j)
    BY <1>1, <1>2, <1>3, <1>4, OthersKept
  <1>5. here(k)
    <2>1. CASE Admit(k)
      <3>1. retryAt'[k] = Never /\ resetAt'[k] = Never
        BY <2>1 DEF Admit, TypeOK
      <3> QED BY <2>1, <3>1, AdmissionFits
    <2>2. CASE Reject(k)
      BY <2>2, RejectionFits
    <2> QED BY <2>1, <2>2
  <1>6. HistoryInv' /\ PromiseInv'
    BY <1>4, <1>5 DEF HistoryInv, PromiseInv
  <1>7. admitted' \in [Keys -> Seq(Nat)]
    <2>1. CASE Admit(k)
      <3>1. Append(admitted[k], now) \in Seq(Nat)
        BY LimiterAssumption DEF TypeOK
      <3> QED BY <2>1, <3>1 DEF Admit, TypeOK
    <2>2. CASE Reject(k)
      BY <2>2 DEF Reject, TypeOK
    <2> QED BY <2>1, <2>2
  <1>8. retryAt' \in [Keys -> Int \cup {Never}] /\ resetAt' \in [Keys -> Int \cup {Never}]
    <2>1. CASE Admit(k)
      BY <2>1 DEF Admit, TypeOK
    <2>2. CASE Reject(k)
      <3>1. retryAt'[k] \in Int /\ resetAt'[k] \in Int
        BY <2>2, RejectionFits
      <3> QED BY <2>2, <3>1 DEF Reject, TypeOK
    <2> QED BY <2>1, <2>2
  <1>9. \A j \in DOMAIN windows' : windows'[j] \in WindowType(j)
    <2>1. \A j \in DOMAIN windows' : Fits(j, windows[j])'
      BY <1>2, <1>4, <1>5
    <2> QED BY <2>1 DEF Fits, WindowType, LimitOf
  <1>10. TypeOK'
    BY <1>2, <1>7, <1>8, <1>9 DEF TypeOK, WindowType, LimitOf
  <1>11. BurstBound'
    <2>1. CASE Admit(k)
      BY <2>1, AdmissionBounded
    <2>2. CASE Reject(k)
      BY <2>2 DEF Reject, BurstBound
    <2> QED BY <2>1, <2>2
  <1> QED BY <1>6, <1>10, <1>11

\* Time passing: what lay before now still does, and no window changes.
LEMMA TickStep ==
    ASSUME IInv, Tick
    PROVE  IInv'
  <1> USE DEF IInv
  <1>1. /\ now' = now + 1 /\ now \in Nat /\ now' \in 0 .. MaxTime
        /\ windows' = windows /\ admitted' = admitted
        /\ retryAt' = retryAt /\ resetAt' = resetAt
    BY LimiterAssumption DEF Tick, TypeOK
  <1>2. TypeOK' /\ BurstBound'
    BY <1>1 DEF TypeOK, BurstBound, WindowType, LimitOf
  <1>3. ASSUME NEW k \in DOMAIN windows, Fits(k, windows[k]) PROVE Fits(k, windows[k])'
    <2>1. windows[k].reset \in Nat /\ Window \in Nat
      BY LimiterAssumption DEF TypeOK, WindowType
    <2>2. windows[k].reset - Window <= now'
      BY <1>1, <1>3, <2>1 DEF Fits
    <2> QED BY <1>1, <1>3, <2>2 DEF Fits, WindowType, LimitOf
  <1>4. ASSUME NEW k \in Keys, Closed(k) PROVE Closed(k)'
    <2>1. /\ admitted[k] \in Seq(Nat) /\ LimitOf(k) \in Nat /\ Window \in Nat
          /\ \A i \in 1 .. Len(admitted[k]) : admitted[k][i] \in Nat
      BY LimitType, LimiterAssumption DEF TypeOK
    <2>2. \A i \in 1 .. Len(admitted[k]) : admitted[k][i] < now'
      BY <1>1, <1>4, <2>1 DEF Closed, Past
    <2>3. \A i \in 1 .. Len(admitted[k]) - LimitOf(k) : admitted[k][i] + Window < now'
      BY <1>1, <1>4, <2>1 DEF Closed, Past
    <2> QED BY <1>1, <2>2, <2>3 DEF Closed, Past, LimitOf
  <1>5. HistoryInv'
    BY <1>1, <1>3, <1>4 DEF HistoryInv
  <1>6. ASSUME NEW k \in Keys, retryAt[k] # Never PROVE Retries(k)'
    <2>1. Retries(k) /\ retryAt[k] \in Int
      BY <1>6 DEF PromiseInv, TypeOK
    <2> QED BY <1>1, <2>1, LimiterAssumption DEF Retries, LimitOf
  <1>7. PromiseInv'
    BY <1>1, <1>6 DEF PromiseInv
  <1> QED BY <1>2, <1>5, <1>7

\* The invariant holds of a limiter that nobody has used.
LEMMA InitiallyEmpty == ASSUME Init PROVE IInv
  <1>1. DOMAIN windows = {}
    BY DEF Init
  <1>2. TypeOK
    BY <1>1, LimiterAssumption DEF Init, TypeOK
  <1>3. \A k \in Keys : admitted[k] = << >> /\ retryAt[k] = Never /\ resetAt[k] = Never
    BY DEF Init
  <1>4. HistoryInv
    <2> SUFFICES ASSUME NEW k \in Keys PROVE Closed(k)
      BY <1>1 DEF HistoryInv
    <2>1. Len(admitted[k]) = 0 /\ LimitOf(k) \in Nat
      BY <1>3, LimitType
    <2> QED BY <2>1 DEF Closed, Past
  <1>5. PromiseInv
    BY <1>3 DEF PromiseInv
  <1>6. BurstBound
    BY <1>3 DEF BurstBound
  <1> QED BY <1>2, <1>4, <1>5, <1>6 DEF IInv

\* The inductive invariant holds in every reachable state.
THEOREM LimiterInvariance == Spec => []IInv
  <1>1. Init => IInv
    BY InitiallyEmpty
  <1>2. IInv /\ [Next]_vars => IInv'
    <2> SUFFICES ASSUME IInv, [Next]_vars PROVE IInv'
      OBVIOUS
    <2>1. ASSUME NEW r \in Requests, Handle(r) PROVE IInv'
      <3>1. KeyOf(r) \in Keys
        BY <2>1 DEF Handle, Keys
      <3> QED BY <2>1, <3>1, CheckStep DEF Handle
    <2>2. CASE Tick
      BY <2>2, TickStep
    <2>3. CASE UNCHANGED vars
      BY <2>3 DEF vars, IInv, TypeOK, HistoryInv, PromiseInv, BurstBound, Fits, Closed,
                  Retries, WindowType, LimitOf, Past
    <2> QED BY <2>1, <2>2, <2>3 DEF Next
  <1> QED BY <1>1, <1>2, PTL DEF Spec

-----------------------------------------------------------------------------
(* What follows from it.                                                   *)

\* FixedWindowRateLimiter keeps its dictionary well formed: live counts never pass
\* the limit.
THEOREM LimiterTypeCorrect == Spec => []TypeOK
  <1>1. IInv => TypeOK
    BY DEF IInv
  <1> QED BY <1>1, LimiterInvariance, PTL

\* check() never admits more than twice the limit within a window's length.
THEOREM BurstsAreBounded == Spec => []BurstBound
  <1>1. IInv => BurstBound
    BY DEF IInv
  <1> QED BY <1>1, LimiterInvariance, PTL

\* check() refuses only a key that was admitted its whole limit a moment ago.
THEOREM RefusedOnlyOverLimit == Spec => []OverLimitOnly
  <1>1. ASSUME IInv, NEW k \in Keys, ~WouldAdmit(k)
        PROVE  LET n == Len(admitted[k])
               IN  /\ n >= LimitOf(k)
                   /\ admitted[k][n - LimitOf(k) + 1] > now - Window
    <2> DEFINE w == WindowOf(k)
               n == Len(admitted[k])
    <2>1. Fits(k, w) /\ w.reset > now
      BY <1>1, WindowFits
    <2>2. /\ n \in Nat /\ LimitOf(k) \in Nat \ {0} /\ now \in Nat /\ Window \in Nat
          /\ \A i \in 1 .. n : admitted[k][i] \in Nat
      BY <1>1, LimitType, LimiterAssumption DEF IInv, TypeOK
    <2>3. w.count = LimitOf(k) /\ w.count <= n /\ w.reset \in Nat
      BY <1>1, <2>1, <2>2 DEF WouldAdmit, Exhausted, Fits, WindowType
    <2>4. n - w.count + 1 \in n - w.count + 1 .. n
      BY <2>2, <2>3
    <2>5. \A i \in n - w.count + 1 .. n : w.reset - Window <= admitted[k][i]
      BY <2>1 DEF Fits
    <2>6. w.reset - Window <= admitted[k][n - w.count + 1]
      BY <2>4, <2>5
    <2> HIDE DEF w, n
    <2>7. n - LimitOf(k) + 1 \in 1 .. n /\ n - LimitOf(k) + 1 = n - w.count + 1
      BY <2>2, <2>3
    <2> QED BY <2>1, <2>2, <2>3, <2>6, <2>7 DEF n
  <1>2. IInv => OverLimitOnly
    BY <1>1 DEF OverLimitOnly
  <1> QED BY <1>2, LimiterInvariance, PTL

\* Coming back when Retry-After or X-RateLimit-Reset says is enough.
THEOREM RetryHeadersHold == Spec => []RetryIsEnough
  <1>1. ASSUME IInv, NEW k \in Keys,
               (retryAt[k] # Never /\ retryAt[k] <= now)
                  \/ (resetAt[k] # Never /\ resetAt[k] <= now)
        PROVE  WouldAdmit(k)
    <2>1. k \notin Live
      <3> SUFFICES ASSUME k \in Live PROVE FALSE
        OBVIOUS
      <3>1. k \in DOMAIN windows /\ ~(windows[k].reset <= now)
        BY DEF Live, Expired
      <3>2. /\ windows[k].reset \in Int /\ now \in Int
            /\ retryAt[k] \in Int \cup {Never} /\ resetAt[k] \in Int \cup {Never}
        BY <1>1, <3>1 DEF IInv, TypeOK, WindowType
      <3>3. CASE retryAt[k] # Never /\ retryAt[k] <= now
        <4>1. windows[k].reset <= retryAt[k]
          BY <1>1, <3>1, <3>3 DEF IInv, PromiseInv, Retries
        <4> QED BY <3>1, <3>2, <3>3, <4>1
      <3>4. CASE resetAt[k] # Never /\ resetAt[k] <= now
        <4>1. windows[k].reset <= resetAt[k]
          BY <1>1, <3>1, <3>4 DEF IInv, PromiseInv
        <4> QED BY <3>1, <3>2, <3>4, <4>1
      <3> QED BY <1>1, <3>3, <3>4
    <2>2. WindowOf(k).count = 0
      BY <2>1 DEF WindowOf, NewWindow
    <2> QED BY <2>2, LimitType DEF WouldAdmit, Exhausted
  <1>2. IInv => RetryIsEnough
    BY <1>1 DEF RetryIsEnough
  <1> QED BY <1>2, LimiterInvariance, PTL

\* Retry-After names an instant less than a second after the window's end.
THEOREM RetryAfterIsTight == Spec => []RetryIsTight
  <1>1. ASSUME IInv, NEW k \in Keys, retryAt[k] # Never, now + TicksPerSecond <= retryAt[k]
        PROVE  ~WouldAdmit(k)
    <2>1. Retries(k) /\ retryAt[k] \in Int /\ now \in Int /\ TicksPerSecond \in Int
      BY <1>1, LimiterAssumption DEF IInv, PromiseInv, TypeOK
    <2>2. k \in DOMAIN windows
      BY <1>1, <2>1 DEF Retries
    <2>3. windows[k].reset \in Int /\ windows[k].count \in Int /\ LimitOf(k) \in Int
      BY <1>1, <2>2, LimitType DEF IInv, TypeOK, WindowType
    <2>4. windows[k].reset > now /\ windows[k].count >= LimitOf(k)
      BY <1>1, <2>1, <2>2, <2>3 DEF Retries
    <2>5. WindowOf(k) = windows[k]
      BY <2>2, <2>3, <2>4, <2>1 DEF WindowOf, Live, Expired
    <2> QED BY <2>4, <2>5 DEF WouldAdmit, Exhausted
  <1>2. IInv => RetryIsTight
    BY <1>1 DEF RetryIsTight
  <1> QED BY <1>2, LimiterInvariance, PTL

-----------------------------------------------------------------------------
(* How many windows there can have been.  A client whose first request is  *)
(* admitted at begun or later has had at most one window for every         *)
(* Window ticks since, and no window counts more than its limit.           *)

\* A window is opened by the request it admits.
UsedInv == \A k \in DOMAIN windows : windows[k].count >= 1

\* All but the last window's admissions of k were in j windows, which were over
\* when that one was opened; without a window, all were, and they are over.
After(k, begun, j) ==
    IF k \in DOMAIN windows
    THEN /\ Len(admitted[k]) - windows[k].count <= j * LimitOf(k)
         /\ begun + j * Window <= windows[k].reset - Window
    ELSE /\ Len(admitted[k]) <= j * LimitOf(k)
         /\ begun + j * Window <= now

Spaced(k, begun) == \E j \in Nat : After(k, begun, j)

\* Multiplication by a positive number, and division by it.
LEMMA Multiples ==
    /\ \A j, a \in Int : (j + 1) * a = j * a + a /\ j * a \in Int
    /\ \A i, j, a \in Nat : i <= j => i * a <= j * a
    /\ \A j, x \in Int, a \in Nat \ {0} : j * a <= x => j <= x \div a
  <1>1. \A j, a \in Int : (j + 1) * a = j * a + a /\ j * a \in Int
    OBVIOUS
  <1>2. \A i, j, a \in Nat : i <= j => i * a <= j * a
    OBVIOUS
  <1>3. ASSUME NEW j \in Int, NEW x \in Int, NEW a \in Nat \ {0}, j * a <= x
        PROVE  j <= x \div a
    <2>1. /\ x \div a \in Int
          /\ x < (x \div a) * a + a
      OBVIOUS
    <2> DEFINE q == x \div a
    <2>2. q \in Int /\ j * a < (q + 1) * a
      BY <1>1, <1>3, <2>1
    <2> HIDE DEF q
    <2>3. \A m, n \in Int : m * a < n * a => m < n
      BY SMT
    <2>4. j < q + 1
      BY <2>2, <2>3
    <2> QED BY <2>2, <2>4 DEF q
  <1> QED BY <1>1, <1>2, <1>3

\* When the window of a key is over, it counts among the windows behind.
LEMMA NotLiveSpaced ==
    ASSUME IInv, NEW k \in Keys, k \notin Live, NEW begun \in Int, Spaced(k, begun)
    PROVE  \E j \in Nat : /\ Len(admitted[k]) <= j * LimitOf(k)
                          /\ begun + j * Window <= now
  <1>1. PICK j \in Nat : After(k, begun, j)
    BY DEF Spaced
  <1>2. CASE k \notin DOMAIN windows
    BY <1>1, <1>2 DEF After
  <1>3. CASE k \in DOMAIN windows
    <2> DEFINE n == Len(admitted[k])
               w == windows[k]
               L == LimitOf(k)
    <2>1. /\ w \in WindowType(k) /\ w.reset <= now /\ now \in Int
          /\ n \in Nat /\ L \in Nat /\ Window \in Nat
      BY <1>3, LimitType, LimiterAssumption DEF IInv, TypeOK, Live, Expired
    <2>2. w.count \in 0 .. L /\ w.reset \in Nat
      BY <2>1 DEF WindowType
    <2>3. n - w.count <= j * L /\ begun + j * Window <= w.reset - Window
      BY <1>1, <1>3 DEF After
    <2>4. /\ (j + 1) * L = j * L + L /\ j * L \in Int
          /\ (j + 1) * Window = j * Window + Window /\ j * Window \in Int
      BY <2>1, Multiples
    <2> HIDE DEF n, w, L
    <2>5. n <= (j + 1) * L /\ begun + (j + 1) * Window <= now
      BY <2>1, <2>2, <2>3, <2>4
    <2>6. j + 1 \in Nat
      OBVIOUS
    <2> QED BY <2>5, <2>6 DEF n, L
  <1> QED BY <1>2, <1>3

\* The window that check() works on has all earlier ones behind it.
LEMMA WindowSpaced ==
    ASSUME IInv, NEW k \in Keys, NEW begun \in Int, Spaced(k, begun)
    PROVE  \E j \in Nat : /\ Len(admitted[k]) - WindowOf(k).count <= j * LimitOf(k)
                          /\ begun + j * Window <= WindowOf(k).reset - Window
  <1>1. CASE k \in Live
    <2>1. k \in DOMAIN windows /\ WindowOf(k) = windows[k]
      BY <1>1 DEF Live, WindowOf
    <2> QED BY <2>1 DEF Spaced, After
  <1>2. CASE k \notin Live
    <2>1. PICK j \in Nat : Len(admitted[k]) <= j * LimitOf(k) /\ begun + j * Window <= now
      BY <1>2, NotLiveSpaced
    <2>2. /\ WindowOf(k).count = 0 /\ WindowOf(k).reset = now + Window
          /\ now \in Int /\ Window \in Int /\ Len(admitted[k]) \in Nat
      BY <1>2, LimiterAssumption DEF WindowOf, NewWindow, IInv, TypeOK
    <2>3. /\ Len(admitted[k]) - WindowOf(k).count = Len(admitted[k])
          /\ WindowOf(k).reset - Window = now
      BY <2>2
    <2> QED BY <2>1, <2>3
  <1> QED BY <1>1, <1>2

\* Every step keeps the windows apart, whosever request it handles.
LEMMA SpacedStep ==
    ASSUME IInv, [Next]_vars, NEW CONSTANT k \in Keys, NEW CONSTANT begun \in Int,
           Spaced(k, begun)
    PROVE  Spaced(k, begun)'
  <1> DEFINE L == LimitOf(k)
             n == Len(admitted[k])
             w == WindowOf(k)
  <1>0. /\ n \in Nat /\ L \in Nat /\ now \in Int /\ admitted[k] \in Seq(Nat)
        /\ L' = L
    BY LimitType, LimiterAssumption DEF IInv, TypeOK, LimitOf
  <1>1. ASSUME NEW r \in Requests, Handle(r), KeyOf(r) # k
        PROVE  Spaced(k, begun)'
    <2> DEFINE other == KeyOf(r)
    <2>1. /\ now' = now /\ admitted'[k] = admitted[k]
          /\ \E window : windows' = Updated(other, window)
      BY <1>1 DEF Handle, Admit, Reject, IInv, TypeOK
    <2>2. CASE k \in Live
      <3>1. k \in DOMAIN windows /\ k \in DOMAIN windows' /\ windows'[k] = windows[k]
        BY <1>1, <2>1, <2>2 DEF Updated, Live
      <3> QED BY <2>1, <3>1 DEF Spaced, After, LimitOf
    <2>3. CASE k \notin Live
      <3>1. k \notin DOMAIN windows'
        BY <1>1, <2>1, <2>3 DEF Updated
      <3> QED BY <2>1, <2>3, <3>1, NotLiveSpaced DEF Spaced, After, LimitOf
    <2> QED BY <2>2, <2>3
  <1>2. ASSUME Admit(k) \/ Reject(k)
        PROVE  Spaced(k, begun)'
    <2>1. PICK j \in Nat : n - w.count <= j * L /\ begun + j * Window <= w.reset - Window
      BY WindowSpaced
    <2>2. w \in WindowType(k)
      BY WindowFits DEF Fits
    <2>3. /\ k \in DOMAIN windows' /\ windows'[k].reset = w.reset
          /\ Len(admitted'[k]) - windows'[k].count = n - w.count
      <3>1. CASE Admit(k)
        <4>1. /\ windows' = Updated(k, [w EXCEPT !.count = @ + 1])
              /\ admitted'[k] = Append(admitted[k], now) /\ ~Exhausted(k, w)
          BY <3>1 DEF Admit, IInv, TypeOK
        <4>2. Len(admitted'[k]) = n + 1
          BY <1>0, <4>1
        <4>3. w.count \in Int /\ w.count < L
          BY <1>0, <2>2, <4>1 DEF WindowType, Exhausted
        <4> HIDE DEF w, n
        <4>4. k \in DOMAIN windows' /\ windows'[k] = [w EXCEPT !.count = @ + 1]
          BY <4>1 DEF Updated
        <4>5. windows'[k].count = w.count + 1 /\ windows'[k].reset = w.reset
          BY <2>2, <4>3, <4>4, CountUp
        <4> QED BY <1>0, <4>2, <4>3, <4>4, <4>5
      <3>2. CASE Reject(k)
        <4>1. windows' = Updated(k, w) /\ admitted' = admitted
          BY <3>2 DEF Reject
        <4> QED BY <4>1 DEF Updated
      <3> QED BY <1>2, <3>1, <3>2
    <2> HIDE DEF w, n
    <2> QED BY <1>0, <2>1, <2>3 DEF Spaced, After
  <1>3. CASE Tick
    <2>1. windows' = windows /\ admitted' = admitted /\ now' = now + 1
      BY <1>3 DEF Tick
    <2>2. PICK j \in Nat : After(k, begun, j)
      BY DEF Spaced
    <2>3. j * Window \in Int
      BY LimiterAssumption
    <2>4. begun + j * Window <= now => begun + j * Window <= now'
      BY <1>0, <2>1, <2>3
    <2>5. After(k, begun, j)'
      BY <2>1, <2>2, <2>4 DEF After, LimitOf
    <2> QED BY <2>5 DEF Spaced
  <1>4. CASE UNCHANGED vars
    BY <1>4 DEF vars, Spaced, After, LimitOf
  <1> QED BY <1>1, <1>2, <1>3, <1>4 DEF Next, Handle

\* So the admissions since begun are bounded by the windows there was time for.
LEMMA AdmittedSince ==
    ASSUME IInv, NEW k \in Keys, NEW begun \in Int, Spaced(k, begun)
    PROVE  Len(admitted[k]) <= ((now - begun) \div Window + 1) * LimitOf(k)
  <1> DEFINE n == Len(admitted[k])
             L == LimitOf(k)
             time == now - begun
  <1>0. n \in Nat /\ L \in Nat /\ now \in Int /\ Window \in Nat \ {0} /\ time \in Int
    BY LimitType, LimiterAssumption DEF IInv, TypeOK
  <1>1. PICK j \in Nat : n <= (j + 1) * L /\ j * Window <= time
    <2>1. PICK i \in Nat : After(k, begun, i)
      BY DEF Spaced
    <2>2. /\ (i + 1) * L = i * L + L /\ i * L \in Int /\ i * Window \in Int
      BY <1>0, Multiples
    <2>3. CASE k \in DOMAIN windows
      <3>1. /\ n - windows[k].count <= i * L
            /\ begun + i * Window <= windows[k].reset - Window
        BY <2>1, <2>3 DEF After
      <3>2. windows[k].count \in 0 .. L /\ windows[k].reset \in Nat
        BY <2>3 DEF IInv, TypeOK, WindowType
      <3>3. windows[k].reset - Window <= now
        BY <2>3 DEF IInv, HistoryInv, Fits
      <3> HIDE DEF n, L
      <3>4. n <= (i + 1) * L
        BY <1>0, <2>2, <3>1, <3>2
      <3>5. i * Window <= time
        BY <1>0, <2>2, <3>1, <3>2, <3>3
      <3> QED BY <3>4, <3>5
    <2>4. CASE k \notin DOMAIN windows
      <3>1. n <= i * L /\ begun + i * Window <= now
        BY <2>1, <2>4 DEF After
      <3> HIDE DEF n, L
      <3>2. n <= (i + 1) * L
        BY <1>0, <2>2, <3>1
      <3>3. i * Window <= time
        BY <1>0, <2>2, <3>1
      <3> QED BY <3>2, <3>3
    <2> QED BY <2>3, <2>4
  <1> HIDE DEF n, L, time
  <1>2. j <= time \div Window
    BY <1>0, <1>1, Multiples
  <1>3. time \div Window + 1 \in Nat /\ j + 1 <= time \div Window + 1
    BY <1>0, <1>2
  <1>4. (j + 1) * L <= (time \div Window + 1) * L
    BY <1>0, <1>3, Multiples
  <1>5. (j + 1) * L \in Int /\ (time \div Window + 1) * L \in Int
    BY <1>0, <1>3, Multiples
  <1>6. n <= (time \div Window + 1) * L
    BY <1>0, <1>1, <1>4, <1>5
  <1> QED BY <1>6 DEF n, L, time

\* Every step leaves only windows that have counted a request.
LEMMA UsedStep ==
    ASSUME IInv, UsedInv, [Next]_vars
    PROVE  UsedInv'
  <1>1. ASSUME NEW r \in Requests, Handle(r)
        PROVE  UsedInv'
    <2> DEFINE k == KeyOf(r)
    <2>1. k \in Keys
      BY <1>1 DEF Handle, Keys
    <2>2. /\ k \in DOMAIN windows' /\ windows'[k].count >= 1
      <3>1. WindowOf(k) \in WindowType(k) /\ LimitOf(k) \in Nat \ {0}
        BY <2>1, WindowFits, LimitType DEF Fits
      <3>2. WindowOf(k).count \in Nat
        BY <3>1 DEF WindowType
      <3>3. CASE Admit(k)
        <4>1. /\ k \in DOMAIN windows' /\ windows'[k] = [WindowOf(k) EXCEPT !.count = @ + 1]
              /\ WindowOf(k).count < LimitOf(k)
          BY <3>1, <3>2, <3>3 DEF Admit, Updated, Exhausted
        <4>2. windows'[k].count = WindowOf(k).count + 1
          BY <2>1, <3>1, <4>1, CountUp
        <4> QED BY <3>2, <4>1, <4>2
      <3>4. CASE Reject(k)
        <4>1. /\ k \in DOMAIN windows' /\ windows'[k] = WindowOf(k)
              /\ WindowOf(k).count >= LimitOf(k)
          BY <3>4 DEF Reject, Updated, Exhausted
        <4> QED BY <3>1, <3>2, <4>1
      <3> QED BY <1>1, <3>3, <3>4 DEF Handle
    <2>3. ASSUME NEW j \in DOMAIN windows', j # k
          PROVE  windows'[j].count >= 1
      <3>1. j \in Live /\ windows'[j] = windows[j]
        BY <1>1, <2>3 DEF Handle, Admit, Reject, Updated
      <3> QED BY <3>1 DEF UsedInv, Live
    <2> QED BY <2>2, <2>3 DEF UsedInv
  <1>2. CASE Tick \/ UNCHANGED vars
    BY <1>2 DEF Tick, vars, UsedInv
  <1> QED BY <1>1, <1>2 DEF Next

\* No behaviour of the limiter has an unused window.
LEMMA WindowsAreUsed == Spec => [](IInv /\ UsedInv)
  <1>1. Init => UsedInv
    BY DEF Init, UsedInv
  <1> QED BY <1>1, UsedStep, LimiterInvariance, PTL DEF Spec

\* A key that was never admitted has no window, so its count begins with now.
LEMMA FreshIsSpaced ==
    ASSUME IInv, UsedInv, NEW k \in Keys, admitted[k] = << >>
    PROVE  Spaced(k, now)
  <1>1. k \notin DOMAIN windows
    <2> SUFFICES ASSUME k \in DOMAIN windows PROVE FALSE
      OBVIOUS
    <2>1. windows[k].count <= Len(admitted[k]) /\ windows[k].count >= 1
      BY DEF IInv, HistoryInv, Fits, UsedInv
    <2>2. windows[k].count \in Nat
      BY DEF IInv, TypeOK, WindowType
    <2> QED BY <2>1, <2>2
  <1>2. Len(admitted[k]) <= 0 * LimitOf(k) /\ now + 0 * Window <= now
    BY LimitType, LimiterAssumption DEF IInv, TypeOK
  <1> QED BY <1>1, <1>2 DEF Spaced, After

=============================================================================

--------------------------- MODULE FixedWindowProofs ---------------------------
(***************************************************************************)
(* Theorems about FixedWindowRateLimiter for any threads, limit and number *)
(* of windows.                                                             *)
(***************************************************************************)
EXTENDS FixedWindowRateLimiter, FiniteSetTheorems, TLAPS

\* The bucket never counts a request that was not let through for its window.
CountIsGranted == bucket.count <= granted[bucket.window_start]

LimiterInv == LimiterTypeOK /\ CountIsGranted

\* The bucket a thread tests is a bucket, and counts no more than was granted.
LEMMA CurrentBucket ==
  ASSUME LimiterInv, NEW w \in Window
  PROVE  /\ Current(w) \in [window_start : {w}, count : 0 .. Limit]
         /\ Current(w).count <= granted[w]
<1> USE LimiterAssumption DEF LimiterInv, LimiterTypeOK
<1>1. CASE bucket.window_start = w
  <2>1. Current(w) = bucket BY <1>1 DEF Current
  <2> QED BY <2>1, <1>1 DEF CountIsGranted
<1>2. CASE bucket.window_start # w
  <2>1. Current(w) = [window_start |-> w, count |-> 0] BY <1>2 DEF Current
  <2>2. granted[w] \in Nat OBVIOUS
  <2> QED BY <2>1, <2>2
<1> QED BY <1>1, <1>2

\* An empty bucket counts nothing.
LEMMA InvInit == LimiterInit => LimiterInv
BY LimiterAssumption
   DEF LimiterInit, LimiterInv, LimiterTypeOK, CountIsGranted, Window, Idle

\* Reading the clock and the passing of time leave the bucket alone; a thread
\* under the mutex counts exactly the requests it lets through.
LEMMA InvStep == LimiterInv /\ [LimiterNext]_limiterVars => LimiterInv'
<1> SUFFICES ASSUME LimiterInv, [LimiterNext]_limiterVars
             PROVE  LimiterInv'
  OBVIOUS
<1> USE LimiterAssumption
<1>1. CASE Tick
  BY <1>1 DEF Tick, LimiterInv, LimiterTypeOK, CountIsGranted, Window, Idle
<1>2. ASSUME NEW t \in Thread, ReadClock(t)
      PROVE  LimiterInv'
  BY <1>2 DEF ReadClock, LimiterInv, LimiterTypeOK, CountIsGranted, Window, Idle
<1>3. ASSUME NEW t \in Thread, Allow(t)
      PROVE  LimiterInv'
  <2> DEFINE w == check[t]
  <2>1. w \in Window /\ w <= clock
    BY <1>3 DEF Allow, LimiterInv, LimiterTypeOK
  <2>2. /\ Current(w) \in [window_start : {w}, count : 0 .. Limit]
        /\ Current(w).count <= granted[w]
    BY <2>1, CurrentBucket
  <2>3. /\ Current(w).count < Limit
        /\ bucket' = [window_start |-> w, count |-> Current(w).count + 1]
        /\ granted' = [granted EXCEPT ![w] = granted[w] + 1]
        /\ check' = [check EXCEPT ![t] = Idle]
        /\ clock' = clock
    BY <1>3 DEF Allow
  <2> HIDE DEF w
  <2>4. bucket' \in [window_start : Window, count : 0 .. Limit]
    BY <2>1, <2>2, <2>3
  <2>5. granted' \in [Window -> Nat] /\ granted'[w] = granted[w] + 1
    BY <2>1, <2>3 DEF LimiterInv, LimiterTypeOK
  <2>6. CountIsGranted'
    <3>1. bucket'.window_start = w /\ bucket'.count = Current(w).count + 1
      BY <2>3
    <3>2. Current(w).count \in Nat /\ granted[w] \in Nat
      BY <2>1, <2>2 DEF LimiterInv, LimiterTypeOK
    <3> QED BY <2>2, <2>5, <3>1, <3>2 DEF CountIsGranted
  <2>7. /\ check' \in [Thread -> Window \cup {Idle}]
        /\ \A s \in Thread : check'[s] <= clock'
    BY <2>3 DEF LimiterInv, LimiterTypeOK, Window, Idle
  <2> QED
    BY <2>1, <2>3, <2>4, <2>5, <2>6, <2>7 DEF LimiterInv, LimiterTypeOK
<1>4. ASSUME NEW t \in Thread, Refuse(t)
      PROVE  LimiterInv'
  <2> DEFINE w == check[t]
  <2>1. w \in Window /\ w <= clock
    BY <1>4 DEF Refuse, LimiterInv, LimiterTypeOK
  <2>2. /\ Current(w) \in [window_start : {w}, count : 0 .. Limit]
        /\ Current(w).count <= granted[w]
    BY <2>1, CurrentBucket
  <2>3. /\ bucket' = Current(w)
        /\ check' = [check EXCEPT ![t] = Idle]
        /\ clock' = clock /\ granted' = granted
    BY <1>4 DEF Refuse
  <2> HIDE DEF w
  <2>4. bucket' \in [window_start : Window, count : 0 .. Limit] /\ CountIsGranted'
    BY <2>1, <2>2, <2>3 DEF CountIsGranted
  <2>5. /\ check' \in [Thread -> Window \cup {Idle}]
        /\ \A s \in Thread : check'[s] <= clock'
    BY <2>3 DEF LimiterInv, LimiterTypeOK, Window, Idle
  <2> QED
    BY <2>1, <2>2, <2>3, <2>4, <2>5 DEF LimiterInv, LimiterTypeOK
<1>5. CASE UNCHANGED limiterVars
  BY <1>5 DEF limiterVars, LimiterInv, LimiterTypeOK, CountIsGranted
<1> QED
  BY <1>1, <1>2, <1>3, <1>4, <1>5 DEF LimiterNext

\* The counters of simple_performance.hpp keep their bounds: the count never
\* passes the limit, and no bucket is ahead of the clock.
THEOREM LimiterTypeCorrect == LimiterSpec => []LimiterTypeOK
<1>1. LimiterInv => LimiterTypeOK
  BY DEF LimiterInv
<1> QED
  BY <1>1, InvInit, InvStep, PTL DEF LimiterSpec

\* A request is answered with 429 only if the limit was used up by requests of
\* its own window, for any number of threads that alternate between windows.
THEOREM RefusalsAreEarned == LimiterSpec => RefusedOnlyWhenUsedUp
<1>1. ASSUME LimiterInv, [LimiterNext]_limiterVars, NEW t \in Thread,
             check[t] # Idle, check'[t] = Idle, granted' = granted
      PROVE  granted[check[t]] >= Limit
  <2> DEFINE w == check[t]
  <2> USE LimiterAssumption
  <2>1. w \in Window
    BY <1>1 DEF LimiterInv, LimiterTypeOK
  <2>2. granted[w] \in Nat
    BY <1>1, <2>1 DEF LimiterInv, LimiterTypeOK
  <2>3. Refuse(t)
    <3>1. ~UNCHANGED limiterVars /\ ~Tick
      BY <1>1 DEF limiterVars, Tick
    <3>2. \A s \in Thread : ~ReadClock(s)
      BY <1>1 DEF ReadClock, LimiterInv, LimiterTypeOK, Idle, Window
    <3>3. ASSUME NEW s \in Thread, Allow(s) PROVE FALSE
      <4>1. check[s] \in Window /\ granted'[check[s]] = granted[check[s]] + 1
        BY <1>1, <3>3 DEF Allow, LimiterInv, LimiterTypeOK
      <4> QED BY <1>1, <4>1 DEF LimiterInv, LimiterTypeOK
    <3>4. ASSUME NEW s \in Thread, Refuse(s), s # t PROVE FALSE
      BY <1>1, <3>4 DEF Refuse, LimiterInv, LimiterTypeOK
    <3> QED BY <1>1, <3>1, <3>2, <3>3, <3>4 DEF LimiterNext
  <2>4. Current(w).count >= Limit
    BY <2>3 DEF Refuse
  <2>5. /\ Current(w) \in [window_start : {w}, count : 0 .. Limit]
        /\ Current(w).count <= granted[w]
    BY <1>1, <2>1, CurrentBucket
  <2> HIDE DEF w
  <2>6. granted[w] >= Limit
    BY <2>2, <2>4, <2>5
  <2> QED BY <2>6 DEF w
<1>2. LimiterInv /\ [LimiterNext]_limiterVars
        => [\A t \in Thread :
              check[t] # Idle /\ check'[t] = Idle /\ granted' = granted
                => granted[check[t]] >= Limit]_limiterVars
  BY <1>1
<1> QED
  BY <1>2, InvInit, InvStep, PTL DEF LimiterSpec, RefusedOnlyWhenUsedUp

-----------------------------------------------------------------------------
(***************************************************************************)
(* The bound on the excess.  While a window is current, every thread that  *)
(* is not late stands for one limit that has been used or may be used;     *)
(* once it is past, each thread still on its way for it stands for one     *)
(* more request.                                                           *)
(***************************************************************************)

N == Cardinality(Thread)

At(w, ch) == {t \in Thread : ch[t] = w}
Late(c, ch) == {t \in Thread : ch[t] # Idle /\ ch[t] < c}

M(w, ch) == Cardinality(At(w, ch))
K(c, ch) == Cardinality(Late(c, ch))

FutureUntouched == \A w \in Window : w > clock => granted[w] = 0

CurrentBudget ==
  /\ bucket.window_start = clock =>
       granted[clock] + (Limit - bucket.count) <= Limit * (N - K(clock, check))
  /\ bucket.window_start # clock =>
       \/ granted[clock] = 0
       \/ granted[clock] <= Limit * (N - K(clock, check) - 1)

\* The exception: all threads come for w, and find its bucket full.
PastBudgetOf(w) ==
  \/ granted[w] + M(w, check) <= (Limit + 1) * N - 1
  \/ /\ At(w, check) = Thread
     /\ bucket.window_start = w /\ bucket.count = Limit
     /\ granted[w] <= Limit * N

PastBudget == \A w \in Window : w < clock => PastBudgetOf(w)

BudgetInv == LimiterInv /\ FutureUntouched /\ CurrentBudget /\ PastBudget

\* There is at least one thread.
LEMMA ThreadCount == N \in Nat /\ N >= 1
BY LimiterAssumption, FS_CardinalityType, FS_EmptySet DEF N

\* Late threads and threads of the current or a later window are different ones.
LEMMA Counts ==
  ASSUME NEW c \in Window, NEW ch \in [Thread -> Window \cup {Idle}],
         NEW w \in Window
  PROVE  /\ M(w, ch) \in Nat /\ K(c, ch) \in Nat
         /\ M(w, ch) <= N /\ K(c, ch) <= N
         /\ w >= c => M(w, ch) + K(c, ch) <= N
         /\ M(w, ch) = N => At(w, ch) = Thread
         /\ \A t \in Thread : ch[t] = c => K(c, ch) <= N - 1
<1> USE LimiterAssumption
<1>1. /\ At(w, ch) \in SUBSET Thread /\ Late(c, ch) \in SUBSET Thread
      /\ At(w, ch) \cup Late(c, ch) \in SUBSET Thread
  BY DEF At, Late
<1>2. /\ IsFiniteSet(At(w, ch)) /\ IsFiniteSet(Late(c, ch))
      /\ M(w, ch) <= N /\ K(c, ch) <= N
      /\ M(w, ch) = N => At(w, ch) = Thread
      /\ Cardinality(At(w, ch) \cup Late(c, ch)) <= N
  BY <1>1, FS_Subset DEF M, K, N
<1>3. M(w, ch) \in Nat /\ K(c, ch) \in Nat
  BY <1>2, FS_CardinalityType DEF M, K
<1>4. ASSUME w >= c PROVE M(w, ch) + K(c, ch) <= N
  <2>1. At(w, ch) \cap Late(c, ch) = {}
    BY <1>4 DEF At, Late, Window
  <2>2. Cardinality(At(w, ch) \cup Late(c, ch)) = M(w, ch) + K(c, ch) - 0
    BY <1>2, <2>1, FS_Union, FS_EmptySet DEF M, K
  <2> QED BY <1>2, <1>3, <2>2
<1>5. ASSUME NEW t \in Thread, ch[t] = c PROVE K(c, ch) <= N - 1
  <2>1. t \notin Late(c, ch)
    BY <1>5 DEF Late, Window
  <2>2. Cardinality(Late(c, ch) \cup {t}) = K(c, ch) + 1
    BY <1>2, <2>1, FS_AddElement DEF K
  <2>3. Late(c, ch) \cup {t} \in SUBSET Thread
    BY <1>1
  <2>4. Cardinality(Late(c, ch) \cup {t}) <= N
    BY <2>3, FS_Subset DEF N
  <2> QED BY <1>3, <2>2, <2>4, ThreadCount
<1> QED BY <1>2, <1>3, <1>4, <1>5

\* A thread that leaves Check is one less on its way for its window.
LEMMA Leaving ==
  \A c \in Window, ch \in [Thread -> Window \cup {Idle}], t \in Thread :
    ch[t] \in Window =>
      /\ M(ch[t], [ch EXCEPT ![t] = Idle]) = M(ch[t], ch) - 1
      /\ \A v \in Window : v # ch[t] => M(v, [ch EXCEPT ![t] = Idle]) = M(v, ch)
      /\ ch[t] < c => K(c, [ch EXCEPT ![t] = Idle]) = K(c, ch) - 1
      /\ ch[t] >= c => K(c, [ch EXCEPT ![t] = Idle]) = K(c, ch)
<1> SUFFICES ASSUME NEW c \in Window, NEW ch \in [Thread -> Window \cup {Idle}],
                    NEW t \in Thread, ch[t] \in Window
             PROVE  LET ch2 == [ch EXCEPT ![t] = Idle] IN
                    /\ M(ch[t], ch2) = M(ch[t], ch) - 1
                    /\ \A v \in Window : v # ch[t] => M(v, ch2) = M(v, ch)
                    /\ ch[t] < c => K(c, ch2) = K(c, ch) - 1
                    /\ ch[t] >= c => K(c, ch2) = K(c, ch)
  OBVIOUS
<1> DEFINE ch2 == [ch EXCEPT ![t] = Idle]
<1> USE LimiterAssumption
<1>1. /\ IsFiniteSet(At(ch[t], ch)) /\ IsFiniteSet(Late(c, ch))
  BY FS_Subset DEF At, Late
<1>2. At(ch[t], ch2) = At(ch[t], ch) \ {t} /\ t \in At(ch[t], ch)
  BY DEF At, Window, Idle
<1>3. ASSUME NEW v \in Window, v # ch[t] PROVE At(v, ch2) = At(v, ch)
  BY <1>3 DEF At, Window, Idle
<1>4. Late(c, ch2) = Late(c, ch) \ {t}
  BY DEF Late
<1>5. t \in Late(c, ch) <=> ch[t] < c
  BY DEF Late, Window, Idle
<1>6. M(ch[t], ch2) = M(ch[t], ch) - 1
  <2>1. Cardinality(At(ch[t], ch) \ {t}) = Cardinality(At(ch[t], ch)) - 1
    BY <1>1, <1>2, FS_RemoveElement
  <2>2. Cardinality(At(ch[t], ch2)) = Cardinality(At(ch[t], ch) \ {t})
    BY <1>2
  <2> QED BY <2>1, <2>2 DEF M
<1>7. K(c, ch2) = IF t \in Late(c, ch) THEN K(c, ch) - 1 ELSE K(c, ch)
  BY <1>1, <1>4, FS_RemoveElement DEF K
<1>8. ch[t] >= c => ~(ch[t] < c)
  BY DEF Window
<1>9. \A v \in Window : v # ch[t] => M(v, ch2) = M(v, ch)
  BY <1>3 DEF M
<1>10. /\ ch[t] < c => K(c, ch2) = K(c, ch) - 1
       /\ ch[t] >= c => K(c, ch2) = K(c, ch)
  BY <1>5, <1>7, <1>8
<1> QED BY <1>6, <1>9, <1>10

\* A thread that reads the clock is not late, nor on its way for a past window.
LEMMA Entering ==
  \A c \in Window, ch \in [Thread -> Window \cup {Idle}], t \in Thread :
    ch[t] = Idle =>
      /\ K(c, [ch EXCEPT ![t] = c]) = K(c, ch)
      /\ \A v \in Window : v < c => At(v, [ch EXCEPT ![t] = c]) = At(v, ch)
<1> SUFFICES ASSUME NEW c \in Window, NEW ch \in [Thread -> Window \cup {Idle}],
                    NEW t \in Thread, ch[t] = Idle
             PROVE  /\ K(c, [ch EXCEPT ![t] = c]) = K(c, ch)
                    /\ \A v \in Window :
                         v < c => At(v, [ch EXCEPT ![t] = c]) = At(v, ch)
  OBVIOUS
<1>1. Late(c, [ch EXCEPT ![t] = c]) = Late(c, ch)
  BY DEF Late, Window, Idle
<1>2. \A v \in Window : v < c => At(v, [ch EXCEPT ![t] = c]) = At(v, ch)
  BY DEF At, Window, Idle
<1> QED BY <1>1, <1>2 DEF K

\* What the bounds come to in numbers: l for Limit, n and k for the threads and
\* the late ones, m for those on their way, g for granted, q for the count.
LEMMA BoundAtTick ==
  ASSUME NEW l \in Nat, l >= 1, NEW n \in Nat, n >= 1, NEW k \in Nat,
         NEW m \in Nat, m + k <= n, NEW g \in Nat, NEW q \in 0 .. l
  PROVE  /\ g + (l - q) <= l * (n - k) =>
              g + m <= (l + 1) * n - 1 \/ (m = n /\ q = l /\ g <= l * n)
         /\ g = 0 \/ g <= l * (n - k - 1) => g + m <= (l + 1) * n - 1
<1>1. /\ l * (n - k) = l * n - l * k
      /\ l * (n - k - 1) = l * n - l * k - l
      /\ (l + 1) * n = l * n + n
  OBVIOUS
<1>2. l * k \in Nat /\ l * n \in Nat /\ l * k >= k /\ l * n >= n
  OBVIOUS
<1> QED BY <1>1, <1>2

\* More late threads, less budget: k and j are numbers of late threads.
LEMMA OneLimitLess ==
  ASSUME NEW l \in Nat, NEW n \in Nat, NEW k \in Nat, NEW j \in Nat, k <= j, j <= n
  PROVE  /\ l * (n - k) \in Int
         /\ l * (n - k - 1) = l * (n - k) - l
         /\ l * (n - j) <= l * (n - k)
         /\ l * (n - j - 1) <= l * (n - k - 1)
         /\ k <= n - 1 => l <= l * (n - k)
         /\ 0 <= l * (n - k)
<1>1. /\ l * (n - k) = l * n - l * k
      /\ l * (n - j) = l * n - l * j
      /\ l * (n - k - 1) = l * n - l * k - l
      /\ l * (n - j - 1) = l * n - l * j - l
  OBVIOUS
<1>2. /\ l * k \in Nat /\ l * n \in Nat /\ l * j \in Nat
      /\ l * k <= l * j /\ l * j <= l * n
  OBVIOUS
<1>3. ASSUME k <= n - 1 PROVE l * k <= l * n - l
  <2>1. l * (n - 1) = l * n - l OBVIOUS
  <2>2. l * k <= l * (n - 1) BY <1>3
  <2> QED BY <2>1, <2>2
<1> QED BY <1>1, <1>2, <1>3

\* With no thread inside Check the whole budget is unused.
LEMMA BudgetInit == LimiterInit => BudgetInv
<1> SUFFICES ASSUME LimiterInit PROVE BudgetInv
  OBVIOUS
<1> USE LimiterAssumption
<1>1. LimiterInv
  BY InvInit
<1>2. FutureUntouched /\ \A w \in Window : granted[w] = 0
  BY DEF LimiterInit, FutureUntouched
<1>3. Late(clock, check) = {} /\ \A w \in Window : At(w, check) = {}
  BY DEF LimiterInit, Late, At, Window, Idle
<1>4. K(clock, check) = 0 /\ \A w \in Window : M(w, check) = 0
  BY <1>3, FS_EmptySet DEF K, M
<1>5. Limit <= Limit * (N - 0)
  BY ThreadCount, OneLimitLess
<1>6. CurrentBudget
  BY <1>2, <1>4, <1>5 DEF CurrentBudget, LimiterInit
<1>7. 0 <= (Limit + 1) * N - 1
  BY ThreadCount
<1>8. PastBudget
  BY <1>2, <1>4, <1>7 DEF PastBudget, PastBudgetOf
<1> QED BY <1>1, <1>2, <1>6, <1>8 DEF BudgetInv

\* When its window ends, what was budgeted for a thread becomes one request for
\* each that is still on its way.
LEMMA BudgetTick ==
  ASSUME BudgetInv, Tick
  PROVE  FutureUntouched' /\ CurrentBudget' /\ PastBudget'
<1> USE LimiterAssumption
<1>1. /\ clock' = clock + 1 /\ clock' \in Window /\ clock \in Window
      /\ check' = check /\ bucket' = bucket /\ granted' = granted
  BY DEF Tick, BudgetInv, LimiterInv, LimiterTypeOK, Window
<1>2. FutureUntouched'
  BY <1>1 DEF BudgetInv, FutureUntouched, Window
<1>3. granted'[clock'] = 0 /\ bucket'.window_start # clock'
  BY <1>1 DEF BudgetInv, FutureUntouched, LimiterInv, LimiterTypeOK, Window
<1>4. CurrentBudget'
  BY <1>3 DEF CurrentBudget
<1>5. PastBudgetOf(clock)
  <2> DEFINE g == granted[clock]  m == M(clock, check)
             k == K(clock, check)  q == bucket.count
  <2>1. /\ check \in [Thread -> Window \cup {Idle}]
        /\ g \in Nat /\ q \in 0 .. Limit
    BY <1>1 DEF BudgetInv, LimiterInv, LimiterTypeOK
  <2>2. /\ m \in Nat /\ k \in Nat /\ m + k <= N
        /\ m = N => At(clock, check) = Thread
    BY <1>1, <2>1, Counts DEF Window
  <2>3. /\ bucket.window_start = clock => g + (Limit - q) <= Limit * (N - k)
        /\ bucket.window_start # clock => g = 0 \/ g <= Limit * (N - k - 1)
    BY DEF BudgetInv, CurrentBudget
  <2>4. /\ g + (Limit - q) <= Limit * (N - k) =>
             \/ g + m <= (Limit + 1) * N - 1
             \/ m = N /\ q = Limit /\ g <= Limit * N
        /\ g = 0 \/ g <= Limit * (N - k - 1) => g + m <= (Limit + 1) * N - 1
    <3> HIDE DEF g, m, k, q
    <3> QED BY <2>1, <2>2, ThreadCount, BoundAtTick
  <2> QED BY <2>2, <2>3, <2>4 DEF PastBudgetOf
<1>6. \A w \in Window : w < clock' => w < clock \/ w = clock
  BY <1>1 DEF Window
<1>7. PastBudget'
  BY <1>1, <1>5, <1>6 DEF BudgetInv, PastBudget, PastBudgetOf
<1> QED BY <1>2, <1>4, <1>7

\* A thread that enters belongs to the current window and is not late.
LEMMA BudgetReadClock ==
  ASSUME BudgetInv, NEW t \in Thread, ReadClock(t)
  PROVE  FutureUntouched' /\ CurrentBudget' /\ PastBudget'
<1>1. /\ clock' = clock /\ bucket' = bucket /\ granted' = granted
      /\ check' = [check EXCEPT ![t] = clock] /\ check[t] = Idle
      /\ clock \in Window /\ check \in [Thread -> Window \cup {Idle}]
  BY DEF ReadClock, BudgetInv, LimiterInv, LimiterTypeOK
<1>2. /\ K(clock, check') = K(clock, check)
      /\ \A v \in Window : v < clock => At(v, check') = At(v, check)
  BY <1>1, Entering
<1>3. FutureUntouched' /\ CurrentBudget'
  BY <1>1, <1>2 DEF BudgetInv, FutureUntouched, CurrentBudget
<1>4. PastBudget'
  BY <1>1, <1>2 DEF BudgetInv, PastBudget, PastBudgetOf, M
<1> QED BY <1>3, <1>4

\* A thread that has taken the mutex: its window is the current one or an
\* earlier one, and afterwards it is on its way no more.
LEMMA UnderMutex ==
  ASSUME BudgetInv, NEW t \in Thread, check[t] # Idle,
         check' = [check EXCEPT ![t] = Idle]
  PROVE  /\ check[t] \in Window /\ check[t] <= clock /\ clock \in Window
         /\ M(check[t], check') = M(check[t], check) - 1
         /\ \A v \in Window : v # check[t] => M(v, check') = M(v, check)
         /\ check[t] < clock => K(clock, check') = K(clock, check) - 1
         /\ check[t] = clock => /\ K(clock, check') = K(clock, check)
                                /\ K(clock, check) <= N - 1
         /\ K(clock, check) \in Nat /\ K(clock, check) <= N
         /\ K(clock, check') \in Nat
         /\ \A v \in Window : M(v, check) \in Nat
         /\ \A v \in Window : At(v, check) = Thread => v = check[t]
<1>1. /\ check \in [Thread -> Window \cup {Idle}]
      /\ check[t] \in Window /\ check[t] <= clock /\ clock \in Window
  BY DEF BudgetInv, LimiterInv, LimiterTypeOK
<1>2. check' \in [Thread -> Window \cup {Idle}]
  BY <1>1
<1>3. /\ M(check[t], check') = M(check[t], check) - 1
      /\ \A v \in Window : v # check[t] => M(v, check') = M(v, check)
      /\ check[t] < clock => K(clock, check') = K(clock, check) - 1
      /\ check[t] >= clock => K(clock, check') = K(clock, check)
  BY <1>1, Leaving
<1>4. /\ K(clock, check) \in Nat /\ K(clock, check) <= N
      /\ \A v \in Window : M(v, check) \in Nat
      /\ check[t] = clock => K(clock, check) <= N - 1
  BY <1>1, Counts
<1>5. K(clock, check') \in Nat
  BY <1>1, <1>2, Counts
<1>6. \A v \in Window : At(v, check) = Thread => v = check[t]
  BY DEF At
<1>7. check[t] = clock => check[t] >= clock
  BY <1>1 DEF Window
<1> QED BY <1>1, <1>3, <1>4, <1>5, <1>6, <1>7

\* A late thread that throws the current bucket away pays with its own limit: it
\* is not late again for this window.
LEMMA BudgetAllow ==
  ASSUME BudgetInv, NEW t \in Thread, Allow(t)
  PROVE  FutureUntouched' /\ CurrentBudget' /\ PastBudget'
<1> DEFINE w == check[t]  k == K(clock, check)  g == granted[clock]
<1> USE LimiterAssumption
<1>1. /\ clock' = clock /\ check[t] # Idle
      /\ check' = [check EXCEPT ![t] = Idle]
      /\ granted' = [granted EXCEPT ![w] = granted[w] + 1]
      /\ Current(w).count < Limit
      /\ bucket' = [window_start |-> w, count |-> Current(w).count + 1]
  BY DEF Allow
<1>2. /\ w \in Window /\ w <= clock /\ clock \in Window
      /\ M(w, check') = M(w, check) - 1
      /\ \A v \in Window : v # w => M(v, check') = M(v, check)
      /\ w < clock => K(clock, check') = k - 1
      /\ w = clock => K(clock, check') = k /\ k <= N - 1
      /\ k \in Nat /\ k <= N /\ K(clock, check') \in Nat
      /\ \A v \in Window : M(v, check) \in Nat
      /\ \A v \in Window : At(v, check) = Thread => v = w
  BY <1>1, UnderMutex
<1>3. granted \in [Window -> Nat] /\ bucket.count \in 0 .. Limit
  BY DEF BudgetInv, LimiterInv, LimiterTypeOK
<1>4. /\ granted'[w] = granted[w] + 1
      /\ \A v \in Window : v # w => granted'[v] = granted[v]
      /\ bucket'.window_start = w /\ bucket'.count = Current(w).count + 1
  BY <1>1, <1>2, <1>3
<1>5. FutureUntouched'
  BY <1>1, <1>2, <1>4 DEF BudgetInv, FutureUntouched, Window
<1>6. CurrentBudget'
  <2>1. /\ bucket.window_start = clock =>
             g + (Limit - bucket.count) <= Limit * (N - k)
        /\ bucket.window_start # clock => g = 0 \/ g <= Limit * (N - k - 1)
    BY DEF BudgetInv, CurrentBudget
  <2>2. /\ Limit * (N - k) \in Int
        /\ Limit * (N - k - 1) = Limit * (N - k) - Limit
        /\ 0 <= Limit * (N - k)
        /\ k <= N - 1 => Limit <= Limit * (N - k)
    BY <1>2, ThreadCount, OneLimitLess
  <2>3. CASE w = clock
    <3>1. g + 1 + (Limit - (Current(w).count + 1)) <= Limit * (N - k)
      <4>1. CASE bucket.window_start = clock
        <5>1. Current(w).count = bucket.count
          BY <2>3, <4>1 DEF Current
        <5> QED BY <1>2, <1>3, <2>1, <2>2, <4>1, <5>1
      <4>2. CASE bucket.window_start # clock
        <5>1. Current(w).count = 0
          BY <2>3, <4>2 DEF Current
        <5>2. g \in Nat
          BY <1>2, <1>3
        <5> QED BY <1>2, <2>1, <2>2, <2>3, <4>2, <5>1, <5>2
      <4> QED BY <4>1, <4>2
    <3> QED BY <1>1, <1>2, <1>4, <2>3, <3>1 DEF CurrentBudget
  <2>4. CASE w < clock
    <3>1. w # clock /\ K(clock, check') = k - 1 /\ granted'[clock] = g
      BY <1>2, <1>4, <2>4 DEF Window
    <3>2. g = 0 \/ g <= Limit * (N - k)
      BY <1>2, <1>3, <2>1, <2>2
    <3>3. N - K(clock, check') - 1 = N - k
      BY <1>2, <3>1, ThreadCount
    <3> QED BY <1>1, <1>4, <3>1, <3>2, <3>3 DEF CurrentBudget
  <2> QED BY <1>2, <2>3, <2>4 DEF Window
<1>7. PastBudget'
  <2> SUFFICES ASSUME NEW v \in Window, v < clock
               PROVE  granted'[v] + M(v, check') <= (Limit + 1) * N - 1
    BY <1>1 DEF PastBudget, PastBudgetOf
  <2>1. PastBudgetOf(v)
    BY DEF BudgetInv, PastBudget
  <2>2. granted[v] + M(v, check) <= (Limit + 1) * N - 1
    <3>1. ASSUME At(v, check) = Thread, bucket.window_start = v, bucket.count = Limit
          PROVE  FALSE
      <4>1. v = w BY <1>2, <3>1
      <4>2. Current(w) = bucket BY <3>1, <4>1 DEF Current
      <4> QED BY <1>1, <3>1, <4>2
    <3> QED BY <2>1, <3>1 DEF PastBudgetOf
  <2>3. granted'[v] + M(v, check') = granted[v] + M(v, check)
    <3>1. granted[v] \in Nat /\ M(v, check) \in Nat
      BY <1>2, <1>3
    <3> HIDE DEF w
    <3>2. CASE v = w BY <1>2, <1>4, <3>1, <3>2
    <3>3. CASE v # w BY <1>2, <1>4, <3>1, <3>3
    <3> QED BY <3>2, <3>3
  <2> QED BY <2>2, <2>3
<1> QED BY <1>5, <1>6, <1>7

\* A refused thread found the bucket of its window, and leaves it as it was.
LEMMA BudgetRefuse ==
  ASSUME BudgetInv, NEW t \in Thread, Refuse(t)
  PROVE  FutureUntouched' /\ CurrentBudget' /\ PastBudget'
<1> DEFINE w == check[t]  k == K(clock, check)  g == granted[clock]
<1> USE LimiterAssumption
<1>1. /\ clock' = clock /\ check[t] # Idle /\ granted' = granted
      /\ check' = [check EXCEPT ![t] = Idle]
      /\ Current(w).count >= Limit /\ bucket' = Current(w)
  BY DEF Refuse
<1>2. /\ w \in Window /\ w <= clock /\ clock \in Window
      /\ M(w, check') = M(w, check) - 1
      /\ \A v \in Window : v # w => M(v, check') = M(v, check)
      /\ w < clock => K(clock, check') = k - 1
      /\ w = clock => K(clock, check') = k
      /\ k \in Nat /\ k <= N /\ K(clock, check') \in Nat
      /\ \A v \in Window : M(v, check) \in Nat
      /\ \A v \in Window : At(v, check) = Thread => v = w
  BY <1>1, UnderMutex
<1>3. granted \in [Window -> Nat] /\ bucket.count \in 0 .. Limit
  BY DEF BudgetInv, LimiterInv, LimiterTypeOK
\* A bucket that is full for w is the bucket of w.
<1>4. bucket.window_start = w /\ bucket' = bucket
  <2>1. ASSUME bucket.window_start # w PROVE FALSE
    <3>1. Current(w).count = 0
      BY <2>1 DEF Current
    <3> QED BY <1>1, <3>1
  <2> QED BY <1>1, <2>1 DEF Current
<1>5. FutureUntouched'
  BY <1>1 DEF BudgetInv, FutureUntouched
<1>6. CurrentBudget'
  <2>1. /\ bucket.window_start = clock =>
             g + (Limit - bucket.count) <= Limit * (N - k)
        /\ bucket.window_start # clock => g = 0 \/ g <= Limit * (N - k - 1)
    BY DEF BudgetInv, CurrentBudget
  <2>2. CASE w = clock
    BY <1>1, <1>2, <1>4, <2>1, <2>2 DEF CurrentBudget
  <2>3. CASE w < clock
    <3>1. w # clock /\ K(clock, check') = k - 1
      BY <1>2, <2>3 DEF Window
    <3>2. g = 0 \/ g <= Limit * (N - k - 1)
      BY <1>4, <2>1, <3>1
    <3>3. /\ Limit * (N - k - 1) <= Limit * (N - (k - 1) - 1)
          /\ Limit * (N - k - 1) \in Int /\ Limit * (N - (k - 1) - 1) \in Int
      <4>1. k - 1 \in Nat /\ k - 1 <= k
        BY <1>2, <3>1
      <4> HIDE DEF k
      <4> QED BY <1>2, <4>1, ThreadCount, OneLimitLess
    <3>4. g = 0 \/ g <= Limit * (N - K(clock, check') - 1)
      <4>1. g \in Nat BY <1>2, <1>3
      <4> QED BY <3>1, <3>2, <3>3, <4>1
    <3> QED BY <1>1, <1>4, <3>1, <3>4 DEF CurrentBudget
  <2> QED BY <1>2, <2>2, <2>3 DEF Window
<1>7. PastBudget'
  <2> SUFFICES ASSUME NEW v \in Window, v < clock
               PROVE  granted[v] + M(v, check') <= (Limit + 1) * N - 1
    BY <1>1 DEF PastBudget, PastBudgetOf
  <2>1. PastBudgetOf(v)
    BY DEF BudgetInv, PastBudget
  <2>2. /\ granted[v] \in Nat /\ M(v, check) \in Nat
        /\ v # w => M(v, check') = M(v, check)
        /\ v = w => M(v, check') = M(v, check) - 1
    BY <1>2, <1>3
  <2>3. CASE granted[v] + M(v, check) <= (Limit + 1) * N - 1
    <3> DEFINE b == (Limit + 1) * N - 1
    <3>1. b \in Int BY ThreadCount
    <3> HIDE DEF b, w
    <3>2. granted[v] + M(v, check) <= b BY <2>3 DEF b
    <3>3. granted[v] + M(v, check') <= b BY <2>2, <3>1, <3>2
    <3> QED BY <3>3 DEF b
  <2>4. CASE At(v, check) = Thread /\ granted[v] <= Limit * N
    <3>1. v = w /\ M(v, check) = N
      BY <1>2, <2>4 DEF M, N
    <3>2. M(v, check') = N - 1
      BY <2>2, <3>1
    <3>3. (Limit + 1) * N - 1 = Limit * N + (N - 1) /\ Limit * N \in Nat
      BY ThreadCount
    <3> QED BY <2>2, <2>4, <3>2, <3>3, ThreadCount
  <2> QED BY <2>1, <2>3, <2>4 DEF PastBudgetOf
<1> QED BY <1>5, <1>6, <1>7

\* The budget is kept by every step.
LEMMA BudgetStep == BudgetInv /\ [LimiterNext]_limiterVars => BudgetInv'
<1> SUFFICES ASSUME BudgetInv, [LimiterNext]_limiterVars
             PROVE  BudgetInv'
  OBVIOUS
<1>1. LimiterInv'
  BY InvStep DEF BudgetInv
<1>2. FutureUntouched' /\ CurrentBudget' /\ PastBudget'
  <2>1. CASE Tick
    BY <2>1, BudgetTick
  <2>2. ASSUME NEW t \in Thread, ReadClock(t)
        PROVE  FutureUntouched' /\ CurrentBudget' /\ PastBudget'
    BY <2>2, BudgetReadClock
  <2>3. ASSUME NEW t \in Thread, Allow(t)
        PROVE  FutureUntouched' /\ CurrentBudget' /\ PastBudget'
    BY <2>3, BudgetAllow
  <2>4. ASSUME NEW t \in Thread, Refuse(t)
        PROVE  FutureUntouched' /\ CurrentBudget' /\ PastBudget'
    BY <2>4, BudgetRefuse
  <2>5. CASE UNCHANGED limiterVars
    BY <2>5 DEF limiterVars, BudgetInv, FutureUntouched, CurrentBudget,
                PastBudget, PastBudgetOf
  <2> QED BY <2>1, <2>2, <2>3, <2>4, <2>5 DEF LimiterNext
<1> QED BY <1>1, <1>2 DEF BudgetInv

\* Whoever keeps the budget keeps the bounds.
LEMMA BudgetBounds == BudgetInv => BoundedExcess
<1> SUFFICES ASSUME BudgetInv PROVE BoundedExcess
  OBVIOUS
<1> USE LimiterAssumption
<1> DEFINE k == K(clock, check)
<1>1. /\ clock \in Window /\ check \in [Thread -> Window \cup {Idle}]
      /\ granted \in [Window -> Nat] /\ bucket.count \in 0 .. Limit
  BY DEF BudgetInv, LimiterInv, LimiterTypeOK
<1>2. k \in Nat /\ k <= N /\ \A w \in Window : M(w, check) \in Nat
  BY <1>1, Counts
<1>3. N \in Nat /\ N >= 1
  BY ThreadCount
<1>4. /\ Limit * (N - k) <= Limit * (N - 0)
      /\ Limit * (N - k - 1) = Limit * (N - k) - Limit
      /\ Limit * (N - k) \in Int
      /\ 0 <= Limit * (N - 0)
  <2> HIDE DEF k
  <2> QED BY <1>2, <1>3, OneLimitLess
<1>5. N - 0 = N
  BY <1>3
<1>6. granted[clock] <= Limit * N
  <2>1. /\ bucket.window_start = clock =>
             granted[clock] + (Limit - bucket.count) <= Limit * (N - k)
        /\ bucket.window_start # clock =>
             granted[clock] = 0 \/ granted[clock] <= Limit * (N - k - 1)
    BY DEF BudgetInv, CurrentBudget
  <2>2. granted[clock] \in Nat /\ Limit * N \in Nat
    BY <1>1, <1>3
  <2> HIDE DEF k
  <2> QED BY <1>1, <1>4, <1>5, <2>1, <2>2
<1>7. (Limit + 1) * N = Limit * N + N /\ Limit * N \in Nat
  BY <1>3
<1>8. ASSUME NEW w \in Window PROVE granted[w] < (Limit + 1) * N
  <2>1. granted[w] \in Nat /\ M(w, check) \in Nat
    BY <1>1, <1>2
  <2>2. CASE w = clock
    BY <1>3, <1>6, <1>7, <2>1, <2>2
  <2>3. CASE w > clock
    BY <1>3, <1>7, <2>3 DEF BudgetInv, FutureUntouched
  <2>4. CASE w < clock
    <3>1. PastBudgetOf(w)
      BY <2>4 DEF BudgetInv, PastBudget
    <3>2. CASE granted[w] + M(w, check) <= (Limit + 1) * N - 1
      BY <1>3, <1>7, <2>1, <3>2
    <3>3. CASE granted[w] <= Limit * N
      BY <1>3, <1>7, <2>1, <3>3
    <3> QED BY <3>1, <3>2, <3>3 DEF PastBudgetOf
  <2> QED BY <1>1, <2>2, <2>3, <2>4 DEF Window
<1> QED BY <1>6, <1>8 DEF BoundedExcess, N

\* However the threads interleave with each other and with the clock, a window
\* lets through at most Limit requests for each thread while it is current, and
\* fewer than one more for each thread in all.
THEOREM ExcessIsBounded == LimiterSpec => []BoundedExcess
BY BudgetInit, BudgetStep, BudgetBounds, PTL DEF LimiterSpec
=============================================================================

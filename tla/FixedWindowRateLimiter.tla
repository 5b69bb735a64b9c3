------------------------- MODULE FixedWindowRateLimiter -------------------------
(***************************************************************************)
(* FixedWindowRateLimiter::Check of src/src/performance/                   *)
(* simple_performance.hpp, as RidesGet calls it: one key, one bucket.      *)
(* A thread reads the clock, computes its window, and only then waits for  *)
(* the mutex; between the two the other threads, and the clock, go on.     *)
(*                                                                         *)
(* Time is the number of the current window.  The clock (system_clock) is  *)
(* not set back here.                                                      *)
(***************************************************************************)
EXTENDS Integers, FiniteSets

CONSTANTS Thread,        \* worker threads of the service
          Limit,         \* kActiveRidesLimitPerMinute
          LastWindow     \* bound of the model: the clock stops here

VARIABLES clock,         \* the current window
          check,         \* check[t]: the window_start thread t computed
          bucket,        \* window_start and count, guarded by the mutex
          granted        \* history: requests let through for each window

limiterVars == <<clock, check, bucket, granted>>

ASSUME LimiterAssumption ==
  /\ Limit \in Nat \ {0}
  /\ LastWindow \in Nat
  /\ IsFiniteSet(Thread) /\ Thread # {}

Window == 0 .. LastWindow

Idle == -1               \* a thread outside Check

\* buckets_[key] makes {window_start = 0, count = 0} at the first call.
LimiterInit ==
  /\ clock \in Window
  /\ check = [t \in Thread |-> Idle]
  /\ bucket = [window_start |-> 0, count |-> 0]
  /\ granted = [w \in Window |-> 0]

Tick ==
  /\ clock < LastWindow
  /\ clock' = clock + 1
  /\ UNCHANGED <<check, bucket, granted>>

ReadClock(t) ==
  /\ check[t] = Idle
  /\ check' = [check EXCEPT ![t] = clock]
  /\ UNCHANGED <<clock, bucket, granted>>

\* The new window keeps the old count.
Current_KeepsCount(w) == [window_start |-> w, count |-> bucket.count]

\* The bucket a thread of window w tests: its own, or a new one.
Current(w) ==
  IF bucket.window_start = w THEN bucket ELSE [window_start |-> w, count |-> 0]

\* The limit is tested with <=; the new window_start is not stored.
Allow_OneTooMany(t) ==
  LET w == check[t] IN
  /\ w # Idle
  /\ Current(w).count <= Limit
  /\ bucket' = [window_start |-> w, count |-> Current(w).count + 1]
  /\ granted' = [granted EXCEPT ![w] = granted[w] + 1]
  /\ check' = [check EXCEPT ![t] = Idle]
  /\ UNCHANGED clock

Allow_KeepsWindow(t) ==
  LET w == check[t] IN
  /\ w # Idle
  /\ Current(w).count < Limit
  /\ bucket' = [bucket EXCEPT !.count = Current(w).count + 1]
  /\ granted' = [granted EXCEPT ![w] = granted[w] + 1]
  /\ check' = [check EXCEPT ![t] = Idle]
  /\ UNCHANGED clock

\* Under the mutex: the request is let through.
Allow(t) ==
  LET w == check[t] IN
  /\ w # Idle
  /\ Current(w).count < Limit
  /\ bucket' = [window_start |-> w, count |-> Current(w).count + 1]
  /\ granted' = [granted EXCEPT ![w] = granted[w] + 1]
  /\ check' = [check EXCEPT ![t] = Idle]
  /\ UNCHANGED clock

\* Under the mutex: the answer is 429.
Refuse(t) ==
  LET w == check[t] IN
  /\ w # Idle
  /\ Current(w).count >= Limit
  /\ bucket' = Current(w)
  /\ check' = [check EXCEPT ![t] = Idle]
  /\ UNCHANGED <<clock, granted>>

LimiterNext ==
  \/ Tick
  \/ \E t \in Thread : ReadClock(t) \/ Allow(t) \/ Refuse(t)

LimiterSpec == LimiterInit /\ [][LimiterNext]_limiterVars

-----------------------------------------------------------------------------
(***************************************************************************)
(* Properties                                                              *)
(***************************************************************************)

\* The counters are numbers within their bounds, and no thread is ahead of the
\* clock.
LimiterTypeOK ==
  /\ clock \in Window
  /\ check \in [Thread -> Window \cup {Idle}]
  /\ bucket \in [window_start : Window, count : 0 .. Limit]
  /\ granted \in [Window -> Nat]
  /\ \A t \in Thread : check[t] <= clock
  /\ bucket.window_start <= clock

\* A request gets 429 only if its window has really used up the limit; that a
\* late thread throws a bucket away never costs anybody a request.
RefusedOnlyWhenUsedUp ==
  [][\A t \in Thread :
       check[t] # Idle /\ check'[t] = Idle /\ granted' = granted
         => granted[check[t]] >= Limit]_limiterVars

\* A thread that comes late from an earlier window starts the current one over,
\* once; and a thread that is late itself is let through at most once more.  So
\* the excess is bounded by the threads: one thread keeps the limit exactly.
BoundedExcess ==
  /\ granted[clock] <= Limit * Cardinality(Thread)
  /\ \A w \in Window : granted[w] < (Limit + 1) * Cardinality(Thread)

\* openapi.yaml:42 says X-RateLimit-Limit is the "Maximum number of requests
\* allowed in the current fixed window", and performance_design.md:118 "100
\* requests a minute".
LimitPerWindow == granted[clock] <= Limit
=============================================================================

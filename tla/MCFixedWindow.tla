---------------------------- MODULE MCFixedWindow ----------------------------
(* A small limit, few threads and few windows for FixedWindowRateLimiter. *)
EXTENDS FixedWindowRateLimiter

CONSTANTS t1, t2, t3
=============================================================================

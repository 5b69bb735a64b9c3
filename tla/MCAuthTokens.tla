----------------------------- MODULE MCAuthTokens -----------------------------
(* Two users, two tasks, an int of two bits, one restart. *)
EXTENDS AuthTokens

CONSTANTS u1, u2, t1, t2
=============================================================================

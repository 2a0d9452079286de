---------------------------- MODULE MCRateLimiter -----------------------------
(* Small instances of RateLimiter: a limit of two, a window of three ticks    *)
(* and a counter that can pass the limit by two.                              *)
EXTENDS RateLimiter, TLC
===============================================================================

---------------------------- MODULE MCRateLimiter ----------------------------
(* TLC instances of RateLimiter.                                           *)
EXTENDS RateLimiter
=============================================================================

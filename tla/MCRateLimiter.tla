---- MODULE MCRateLimiter ----
(* Instance of RateLimiter for TLC; every value is in the .cfg files. *)
EXTENDS RateLimiter
=============================================================================

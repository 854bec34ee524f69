---------------------------- MODULE MCRateLimiter ----------------------------
(***************************************************************************)
(* A small instance of RateLimiter for TLC; MCLimiter.cfg gives the        *)
(* constants their values.                                                 *)
(***************************************************************************)
EXTENDS RateLimiter

=============================================================================

---------------------------- MODULE MCRateLimiter -----------------------------
(***************************************************************************)
(* Instance of RateLimiter for TLC.                                        *)
(***************************************************************************)
EXTENDS RateLimiter, TLC

\* Keys are interchangeable.
AnyKey == Permutations(Keys)
==============================================================================

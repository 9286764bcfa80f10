---------------------------- MODULE MCRateLimiter ----------------------------
(***************************************************************************)
(* Symmetries of the runs of RateLimiter.                                  *)
(***************************************************************************)
EXTENDS RateLimiter, TLC

Symmetry == Permutations(Calls) \cup Permutations(Instances) \cup Permutations(Ids)
=============================================================================

---------------------------- MODULE MCRateLimiter ----------------------------
(* Instances of RateLimiter for TLC *)
EXTENDS RateLimiter, TLC

Symmetry == Permutations(Handler) \cup Permutations(User)
=============================================================================

----------------------------- MODULE MCRateLimit -----------------------------
(* A small instance of RateLimit for TLC. *)
EXTENDS RateLimit, TLC

Sym == Permutations(Callers) \cup Permutations(Addresses)
==============================================================================

-------------------------- MODULE MCWachuneedRequests --------------------------
(* Small shops. *)
EXTENDS WachuneedRequests, TLC

ShopSymmetry == Permutations(Buyers) \cup Permutations(Threads)
================================================================================

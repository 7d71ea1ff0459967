------------------------------- MODULE MCKommons -------------------------------
(* Small instances of Kommons. *)
EXTENDS Kommons, TLC

\* Proposals differ in nothing but their name.
ProposalSymmetry == Permutations(Proposals)
================================================================================

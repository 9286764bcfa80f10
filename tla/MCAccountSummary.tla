--------------------------- MODULE MCAccountSummary ---------------------------
(***************************************************************************)
(* Symmetry for the runs of AccountSummary.                                *)
(***************************************************************************)
EXTENDS AccountSummary, TLC

Symmetry == Permutations(Readers) \cup Permutations(Batches)
===============================================================================

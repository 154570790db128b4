------------------------------- MODULE MCMmu -------------------------------
EXTENDS Mmu, TLC

(* Processes, and the two testing pages, are treated alike.                *)
Symmetry == Permutations(Pids) \cup Permutations(Testing)
=============================================================================

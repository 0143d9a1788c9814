------------------------------ MODULE MCProcesses ------------------------------
EXTENDS Processes, TLC

(* Addresses, pieces of memory and children are interchangeable. *)
Symmetry ==
  Permutations(Procs \ {Master}) \cup Permutations(Addresses) \cup Permutations(Mmaps)
================================================================================

------------------------------ MODULE MCMprotectMP ------------------------------
EXTENDS MprotectMP, TLC

(* The processes but for the master are interchangeable. *)
Children == Permutations(Procs \ {Master})
================================================================================

------------------------------ MODULE MCVGCMalloc ------------------------------
EXTENDS VGCMalloc, TLC

OneCalloc   == {<<1, 3>>}
NoCalloc    == {}

(* mmap may return any place: the Mmaps are interchangeable. *)
Places == Permutations(Mmaps)
================================================================================

-------------------------- MODULE MC_LinkedRuntime --------------------------
(* Two threads, two families, three instances, up to two handles of a     *)
(* family per thread.                                                     *)
EXTENDS LinkedRuntime, TLC

MC_Families == 1 .. 2
MC_Instances == 1 .. 3
MC_Symmetry == Permutations(Threads)
=============================================================================

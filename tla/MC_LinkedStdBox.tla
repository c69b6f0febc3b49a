--------------------------- MODULE MC_LinkedStdBox ---------------------------
(* Instantiation of LinkedStdBox for TLC: three workers, two increments   *)
(* each, and room for one family and one instance per actor.             *)
EXTENDS LinkedStdBox

MC_Families == 1 .. ThreadCount + 1
MC_Instances == 1 .. ThreadCount + 1
=============================================================================

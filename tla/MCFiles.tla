------------------------------ MODULE MCFiles --------------------------------
(* The instance of Files for TLC: threads, files and inodes are               *)
(* interchangeable.                                                           *)
EXTENDS Files, TLC

Symmetry == Permutations(Threads) \cup Permutations(Pool) \cup Permutations(Inodes)
==============================================================================

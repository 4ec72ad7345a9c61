------------------------------- MODULE MCSlab --------------------------------
(* The instance of Slab for TLC: slabs are interchangeable. *)
EXTENDS Slab, TLC

Symmetry == Permutations(Slabs)
==============================================================================

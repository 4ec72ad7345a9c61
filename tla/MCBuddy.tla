------------------------------- MODULE MCBuddy -------------------------------
(* Instances of Buddy for TLC: two blobs of four pages.                      *)
EXTENDS Buddy

MCSize == [o \in 0..(MaxOrder + 1) |-> 2 ^ o]
==============================================================================

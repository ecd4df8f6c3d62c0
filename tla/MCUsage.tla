------------------------------ MODULE MCUsage ------------------------------
(* Instances of DataUsage: two directions, up to three sessions. *)
EXTENDS DataUsage, TLC

MCBounds == [bytes |-> 2, sessions |-> 3, crashes |-> 2, failures |-> 1]

\* Paths are only compared with one another.
PathSymmetry == Permutations(Paths)
=============================================================================

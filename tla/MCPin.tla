------------------------------- MODULE MCPin --------------------------------
(* Instances of SimPin: two PINs, SIMs that grant three tries and five. *)
EXTENDS SimPin

MCBounds == [swaps |-> 1, restarts |-> 2, failures |-> 3, settings |-> 2]
=============================================================================

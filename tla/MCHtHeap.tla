------------------------------ MODULE MCHtHeap ------------------------------
(* A heap of up to six URLs whose hop counts are 0 to 2, two of them alike. *)
EXTENDS HtHeap, TLC

CONSTANTS i0, i1, j1, i2

MCItems == {i0, i1, j1, i2}
MCHop == i0 :> 0 @@ i1 :> 1 @@ j1 :> 1 @@ i2 :> 2
=============================================================================

--------------------------------- MODULE MCMem ---------------------------------
(* A heap of up to four blocks; the smaller request is below the smallest block. *)
EXTENDS Mem

MCSizes == {1, 4}
=============================================================================

------------------------------ MODULE MCMalloc ------------------------------
(* Malloc on a pool of a few blocks, with requests of none, of part of a      *)
(* block, of whole blocks, of the whole pool and of more than the pool.       *)
EXTENDS Malloc

MCSizes == {0, 1, 4, 5, 12, 24, 28}
=============================================================================

------------------------------- MODULE MCEthTx -------------------------------
(* Three descriptors (the code has five): a full ring, a ring with one left    *)
(* and the wrap from the last descriptor to the first all occur.  Two frames   *)
(* are enough to tell a frame from its neighbour in the ring; MCEthTxPreempt,  *)
(* which only asks whether descriptors come back, needs one.                   *)
EXTENDS EthTx
=============================================================================

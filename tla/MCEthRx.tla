------------------------------- MODULE MCEthRx -------------------------------
(* Three descriptors (the code has five) and enough different frames that     *)
(* frames in the ring and in the handler's hands cannot be confused.          *)
EXTENDS EthRx
=============================================================================

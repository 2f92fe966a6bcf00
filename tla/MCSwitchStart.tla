----------------------------- MODULE MCSwitchStart -----------------------------
(* PHY_BCR and another register; a third value tells what was there before from *)
(* what ETH_Init writes.                                                         *)
EXTENDS SwitchStart
=============================================================================

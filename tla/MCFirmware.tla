------------------------------ MODULE MCFirmware ------------------------------
(* The real sizes: 32-byte blocks, 5 descriptors of 32 bytes and 5 buffers   *)
(* of 1524 bytes in each direction, memp_get_memorysize() = 7371 bytes and a  *)
(* 10268-byte ram heap.  MEM1_MAX_SIZE is 40 KB, 1280 blocks; of the other    *)
(* pools two are too small for the stack's regions, one is exactly enough,    *)
(* and the last two are enough for two and for three attempts.                *)
(*                                                                           *)
(* A tick of 2, an interval of 6 and a counter that wraps at 15: as in the    *)
(* code the interval is a multiple of the tick and the wrap is not, and the   *)
(* counter takes every value and wraps in every phase of the interval.        *)
EXTENDS Firmware

MCNeed == [b \in EthBuffers \cup LwipBuffers |->
             CASE b \in {"DMARxDscrTab", "DMATxDscrTab"} -> 5
               [] b \in {"Rx_Buff", "Tx_Buff"} -> 239
               [] b = "memp_memory" -> 231
               [] b = "ram_heap" -> 321]

MCPoolSizes == {700, 1000, 1040, 1280, 2080, 3200}
=============================================================================

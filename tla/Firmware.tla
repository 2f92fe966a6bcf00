------------------------------- MODULE Firmware -------------------------------
(***************************************************************************)
(* main() as a whole: timer 3 is started first and ticks through every     *)
(* attempt of lwip_comm_init (Boot), however often it fails; once one has  *)
(* succeeded the main loop calls lwip_periodic_handle for ever (LocalTime).*)
(* Timer 3's interrupt preempts the start-up as it preempts the loop; the  *)
(* Ethernet interrupt comes only after ETH_Start, which is in netif_add.   *)
(*                                                                         *)
(* qdStart, between the two, is SwitchStart's part and takes no step here. *)
(***************************************************************************)
EXTENDS Boot, LocalTime

firmwarevars == <<vars, timevars>>

FirmwareInit == Init /\ TimeInit

(* main's loop around lwip_comm_init. *)
Start == MainRuns /\ Main /\ UNCHANGED timevars

(* The main loop. *)
Loop == pc = "run" /\ lwip_periodic_handle /\ UNCHANGED vars

Interrupts ==
    /\ Overflow \/ Tim3 \/ EthLeave \/ (pc = "run" /\ EthEnter)
    /\ UNCHANGED vars

FirmwareNext == Start \/ Loop \/ Interrupts \/ (Cable /\ UNCHANGED timevars)

(* The timer runs, the Ethernet interrupt returns, and what it preempts goes on in *)
(* between, as in LocalTime; so does the start-up between timer 3's interrupts.    *)
FirmwareSpec ==
    /\ FirmwareInit /\ [][FirmwareNext]_firmwarevars
    /\ WF_firmwarevars(Overflow /\ UNCHANGED vars)
    /\ WF_firmwarevars(EthLeave /\ UNCHANGED vars)
    /\ SF_firmwarevars(Tim3 /\ UNCHANGED vars)
    /\ SF_firmwarevars(Loop)
    /\ SF_firmwarevars(Start)
-----------------------------------------------------------------------------
(* Once the start-up has succeeded the ARP table is aged for ever, across the wrap *)
(* of the counter and however long the start-up took.                              *)
AgesOnceUp == <>(pc = "run") => KeepsAging
=============================================================================

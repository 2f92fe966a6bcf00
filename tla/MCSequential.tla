----------------------------- MODULE MCSequential -----------------------------
(* The block allocator and the PHY accesses of the main thread, the serial line *)
(* of USART3's interrupt and the IP reassembly of the Ethernet interrupt: each  *)
(* used by one context of the program only.  They share no state and no         *)
(* property speaks of two, so what they do together is what each does alone:    *)
(* each is explored with the other three at a start of theirs.                  *)
EXTENDS MCMalloc, MCUsart, MCIpReass, MCPhySmi

MallocStart == Init /\ memmap = Cleared

SmiStart ==
    /\ SmiInit
    /\ data = CHOOSE v \in Values : TRUE
    /\ phy = [r \in Regs |-> data]

SequentialInit ==
    /\ Init /\ UsartInit /\ ReassInit /\ SmiInit
    /\ MallocStart \/ SmiStart

SequentialNext ==
    \/ /\ UsartInit /\ ReassInit /\ SmiStart
       /\ Next /\ UNCHANGED <<usartvars, reassvars, smivars>>
    \/ /\ MallocStart /\ ReassInit /\ SmiStart
       /\ UsartNext /\ UNCHANGED <<vars, reassvars, smivars>>
    \/ /\ MallocStart /\ UsartInit /\ SmiStart
       /\ ReassNext /\ UNCHANGED <<vars, usartvars, smivars>>
    \/ /\ MallocStart /\ UsartInit /\ ReassInit
       /\ SmiNext /\ UNCHANGED <<vars, usartvars, reassvars>>

SequentialSpec ==
    SequentialInit /\ [][SequentialNext]_<<vars, usartvars, reassvars, smivars>>
=============================================================================

-------------------------------- MODULE EthRx --------------------------------
(***************************************************************************)
(* Reception: the DMA's ring of receive descriptors and ETH_IRQHandler,    *)
(* which empties it into lwIP.                                             *)
(*                                                                         *)
(* Two processes run concurrently.  The DMA (external) writes a frame into *)
(* the buffer of the descriptor it is at, closes the descriptor by         *)
(* clearing OWN, raises the receive interrupt and goes on to the next      *)
(* descriptor of the chain; a frame that finds its descriptor owned by the *)
(* CPU is lost and sets RBUS.  The interrupt handler runs one register or  *)
(* descriptor access per step: it checks the descriptor at DMARxDescToGet, *)
(* takes it, copies the frame into a pbuf (or finds no pbuf), gives the    *)
(* descriptor back, resumes the DMA, passes the pbuf to the stack, and     *)
(* checks again; when there is nothing left it clears the interrupt.       *)
(*                                                                         *)
(* The MAC is configured to drop frames with errors and frames longer than *)
(* a buffer (mv88e6xx.c:104-109), so a closed descriptor always holds one  *)
(* whole frame: OWN is the only status bit that varies.  The handler runs  *)
(* at the highest priority and nothing interrupts it (mv88e6xx.c:253).     *)
(***************************************************************************)
EXTENDS Integers, Sequences

CONSTANTS NDesc,      \* ETH_RXBUFNB
          Frames,     \* frame contents; consecutive frames on the wire differ
          WindowMax,  \* frames that can be closed between the last check of the
                      \* ring and the clearing of the interrupt
          NoFrame, Torn

ASSUME RxAssumption == /\ NDesc \in Nat /\ NDesc > 1
                       /\ WindowMax \in Nat
                       /\ NoFrame \notin Frames /\ Torn \notin Frames /\ Torn # NoFrame

Desc == 0 .. NDesc - 1

VARIABLES own,             \* own[d]: "dma" when the OWN bit is set, else "cpu"
          buf,             \* contents of each buffer
          dmaAt,           \* descriptor the DMA is at
          writing,         \* the frame it is writing there, or NoFrame
          wire,            \* the frame last seen on the wire
          itR,             \* DMASR.RS, the pending receive interrupt
          rbus,            \* DMASR.RBUS
          DMARxDescToGet,
          pc, cur, p,      \* the handler: where it is, frame.descriptor, the pbuf
          window,          \* frames closed since the handler's last check
          handed           \* history: the frame handed to the stack last

dmaVars == <<dmaAt, writing, wire>>
isrVars == <<DMARxDescToGet, pc, cur, p>>
vars == <<own, buf, dmaVars, itR, rbus, isrVars, window, handed>>

(* Buffer2NextDescAddr, as chained by ETH_DMARxDescChainInit. *)
Succ(d) == IF d = NDesc - 1 THEN 0 ELSE d + 1

\* Mutation: the loop tests the interrupt's flag and not the descriptor.
PktFlagged == itR

(* ETH_GetRxPktSize(DMARxDescToGet) # 0. *)
PktWaiting == own[DMARxDescToGet] = "cpu"

(* low_level_init and ETH_Start: every descriptor belongs to the DMA. *)
Init ==
    /\ own = [d \in Desc |-> "dma"]
    /\ buf = [d \in Desc |-> NoFrame]
    /\ dmaAt = 0 /\ writing = NoFrame /\ wire = NoFrame
    /\ itR = FALSE /\ rbus = FALSE
    /\ DMARxDescToGet = 0
    /\ pc = "idle" /\ cur = 0 /\ p = NoFrame
    /\ window = 0
    /\ handed = NoFrame
-----------------------------------------------------------------------------
(* The DMA. *)

(* A frame arrives: the DMA starts to write it, or has no descriptor for it. *)
FrameArrives(f) ==
    /\ writing = NoFrame
    /\ f # wire
    /\ wire' = f
    /\ IF own[dmaAt] = "dma"
       THEN /\ writing' = f
            /\ buf' = [buf EXCEPT ![dmaAt] = Torn]
            /\ UNCHANGED rbus
       ELSE rbus' = TRUE /\ UNCHANGED <<writing, buf>>
    /\ UNCHANGED <<own, dmaAt, itR, isrVars, window, handed>>

(* The frame is complete: the descriptor is closed and the interrupt raised. *)
FrameDone ==
    /\ writing # NoFrame
    /\ pc = "clear" => window < WindowMax
    /\ buf' = [buf EXCEPT ![dmaAt] = writing]
    /\ own' = [own EXCEPT ![dmaAt] = "cpu"]
    /\ dmaAt' = Succ(dmaAt)
    /\ writing' = NoFrame
    /\ itR' = TRUE
    /\ window' = IF pc = "clear" THEN window + 1 ELSE window
    /\ UNCHANGED <<wire, rbus, isrVars, handed>>
-----------------------------------------------------------------------------
(* ETH_IRQHandler. *)

Enter ==
    /\ pc = "idle"
    /\ itR
    /\ pc' = "check"
    /\ UNCHANGED <<own, buf, dmaVars, itR, rbus, DMARxDescToGet, cur, p, window, handed>>

(* while (ETH_GetRxPktSize(DMARxDescToGet) != 0) *)
Check ==
    /\ pc = "check"
    /\ pc' = IF PktWaiting THEN "take" ELSE "clear"
    /\ window' = 0
    /\ UNCHANGED <<own, buf, dmaVars, itR, rbus, DMARxDescToGet, cur, p, handed>>

\* Mutation: the global pointer does not move to the next descriptor.
ETH_Rx_PacketStays ==
    /\ pc = "take"
    /\ cur' = DMARxDescToGet
    /\ pc' = "copy"
    /\ UNCHANGED <<own, buf, dmaVars, itR, rbus, p, window, handed, DMARxDescToGet>>

\* Mutation: the descriptor is given back before its frame is copied.
ETH_Rx_PacketGivesBack ==
    /\ pc = "take"
    /\ cur' = DMARxDescToGet
    /\ own' = [own EXCEPT ![DMARxDescToGet] = "dma"]
    /\ DMARxDescToGet' = Succ(DMARxDescToGet)
    /\ pc' = "copy"
    /\ UNCHANGED <<buf, dmaVars, itR, rbus, p, window, handed>>

(* ETH_Rx_Packet: with OWN set there is no frame, RBUS is reset, and the NULL   *)
(* descriptor it returns is written through by low_level_input: "fault".       *)
ETH_Rx_Packet ==
    /\ pc = "take"
    /\ IF own[DMARxDescToGet] = "dma"
       THEN /\ rbus' = FALSE
            /\ pc' = "fault"
            /\ UNCHANGED <<DMARxDescToGet, cur>>
       ELSE /\ cur' = DMARxDescToGet
            /\ DMARxDescToGet' = Succ(DMARxDescToGet)
            /\ pc' = "copy"
            /\ UNCHANGED rbus
    /\ UNCHANGED <<own, buf, dmaVars, itR, p, window, handed>>

(* pbuf_alloc fails, or the frame is copied out of the buffer. *)
CopyFrame ==
    /\ pc = "copy"
    /\ p' \in {NoFrame, buf[cur]}
    /\ pc' = "give"
    /\ UNCHANGED <<own, buf, dmaVars, itR, rbus, DMARxDescToGet, cur, window, handed>>

\* Mutation: a descriptor is only given back when there was a pbuf for its frame.
GiveBackOnSuccess ==
    /\ pc = "give"
    /\ own' = IF p = NoFrame THEN own ELSE [own EXCEPT ![cur] = "dma"]
    /\ pc' = "poll"
    /\ UNCHANGED <<buf, dmaVars, itR, rbus, DMARxDescToGet, cur, p, window, handed>>

\* Mutation: OWN is set on the descriptor at the global pointer.
GiveBackNext ==
    /\ pc = "give"
    /\ own' = [own EXCEPT ![DMARxDescToGet] = "dma"]
    /\ pc' = "poll"
    /\ UNCHANGED <<buf, dmaVars, itR, rbus, DMARxDescToGet, cur, p, window, handed>>

(* frame.descriptor->Status = OWN, with or without a pbuf. *)
GiveBack ==
    /\ pc = "give"
    /\ own' = [own EXCEPT ![cur] = "dma"]
    /\ pc' = "poll"
    /\ UNCHANGED <<buf, dmaVars, itR, rbus, DMARxDescToGet, cur, p, window, handed>>

(* RBUS is reset and the receive poll demand issued; without a pbuf            *)
(* ethernetif_input returns ERR_MEM and the frame is dropped.                  *)
ResumeDma ==
    /\ pc = "poll"
    /\ rbus' = FALSE
    /\ pc' = IF p = NoFrame THEN "check" ELSE "input"
    /\ UNCHANGED <<own, buf, dmaVars, itR, DMARxDescToGet, cur, p, window, handed>>

(* netif->input: the stack consumes the pbuf, or ethernetif_input frees it. *)
Input ==
    /\ pc = "input"
    /\ handed' = p
    /\ p' = NoFrame
    /\ pc' = "check"
    /\ UNCHANGED <<own, buf, dmaVars, itR, rbus, DMARxDescToGet, cur, window>>

(* ETH_DMAClearITPendingBit of R, whatever has happened since the last check.  *)
(* The interrupt line is taken to follow R, so that the write that clears NIS  *)
(* after it has no effect here and no step of its own.                         *)
ClearIT ==
    /\ pc = "clear"
    /\ itR' = FALSE
    /\ pc' = "idle"
    /\ UNCHANGED <<own, buf, dmaVars, rbus, DMARxDescToGet, cur, p, window, handed>>

Handler ==
    \/ Enter
    \/ Check
    \/ ETH_Rx_Packet
    \/ CopyFrame
    \/ GiveBack
    \/ ResumeDma
    \/ Input
    \/ ClearIT

Arrives == \E f \in Frames : FrameArrives(f)

Next == Handler \/ Arrives \/ FrameDone

(* The handler runs when it is pending and the DMA finishes what it started. *)
Fairness == WF_vars(Handler) /\ WF_vars(FrameDone)

Spec == Init /\ [][Next]_vars /\ Fairness

(* Frames keep arriving, and never so fast that they fill the ring between the *)
(* last check and the clearing of the interrupt, a few instructions apart.     *)
SteadyTraffic == WF_vars(Arrives) /\ [](window < NDesc)
-----------------------------------------------------------------------------
TypeOK ==
    /\ own \in [Desc -> {"dma", "cpu"}]
    /\ buf \in [Desc -> Frames \cup {NoFrame, Torn}]
    /\ dmaAt \in Desc /\ DMARxDescToGet \in Desc /\ cur \in Desc
    /\ writing \in Frames \cup {NoFrame}
    /\ wire \in Frames \cup {NoFrame}
    /\ itR \in BOOLEAN /\ rbus \in BOOLEAN
    /\ pc \in {"idle", "check", "take", "copy", "give", "poll", "input", "clear", "fault"}
    /\ p \in Frames \cup {NoFrame, Torn}
    /\ handed \in Frames \cup {NoFrame, Torn}
    /\ window \in Nat

InHand == pc \in {"copy", "give"}

(* Oldest descriptor that the CPU has not given back. *)
Oldest == IF InHand THEN cur ELSE DMARxDescToGet

Between(d) ==
    IF Oldest < dmaAt THEN Oldest <= d /\ d < dmaAt ELSE Oldest <= d \/ d < dmaAt

(* The descriptors of the CPU are one contiguous stretch of the ring, from the  *)
(* oldest not given back to where the DMA is; a handler that took, gave back or *)
(* advanced out of turn would break the stretch and the ring would stall.       *)
CpuStretch ==
    /\ InHand => own[cur] = "cpu" /\ DMARxDescToGet = Succ(cur)
    /\ Oldest # dmaAt => \A d \in Desc : own[d] = "cpu" <=> Between(d)
    /\ Oldest = dmaAt => \A d \in Desc : own[d] = own[dmaAt]

(* ETH_Rx_Packet is only called on a descriptor that was seen closed and the    *)
(* DMA has not taken back since; low_level_input writes through its descriptor  *)
(* without a test, so anything else writes through NULL.                        *)
NoNullDescriptor == pc # "fault"

(* The CPU never copies from a buffer the DMA is writing. *)
NoSharedBuffer == ~(pc = "copy" /\ writing # NoFrame /\ cur = dmaAt)

(* The frames between the DMA's closing a descriptor and the stack: those in    *)
(* the ring from DMARxDescToGet on, after the one in the handler's hands.       *)
Waiting ==
    LET ahead(d) == IF DMARxDescToGet <= d THEN d - DMARxDescToGet ELSE d + NDesc - DMARxDescToGet
        n == IF \A d \in Desc : own[d] = "cpu" THEN NDesc - (IF InHand THEN 1 ELSE 0)
             ELSE ahead(dmaAt)
        at(i) == CHOOSE d \in Desc : ahead(d) = i - 1
    IN  [i \in 1 .. n |-> buf[at(i)]]

InHandler ==
    CASE pc = "copy" -> <<buf[cur]>>
      [] pc \in {"give", "poll", "input"} /\ p # NoFrame -> <<p>>
      [] OTHER -> <<>>

(* Reception implements a frame queue: every frame the DMA accepts reaches the  *)
(* stack whole, once and in order, or is dropped for want of a pbuf.            *)
RxQueue == INSTANCE FrameQueue WITH queue <- InHandler \o Waiting, Capacity <- NDesc + 1

ImplementsFrameQueue == RxQueue!Spec

Returned == \A d \in Desc : own[d] = "cpu" ~> own[d] = "dma"

(* No closed descriptor is forgotten: each is given back to the DMA, whether or *)
(* not there was memory for its frame.  R is cleared after the last look at the *)
(* ring, and with it the interrupt of a frame that is closed in between: what   *)
(* takes care of that frame is the interrupt of a later one.  So either frames  *)
(* keep arriving, or none is closed in that window.                             *)
DescriptorsReturn == (SteadyTraffic \/ [](window = 0)) => Returned
=============================================================================

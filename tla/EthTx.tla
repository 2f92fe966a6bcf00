-------------------------------- MODULE EthTx --------------------------------
(***************************************************************************)
(* Transmission: low_level_output and ETH_Tx_Packet fill the ring of       *)
(* transmit descriptors, the DMA empties it.                               *)
(*                                                                         *)
(* Two contexts call low_level_output.  The Ethernet interrupt sends every *)
(* reply of the stack; the main thread sends the gratuitous ARP request of *)
(* netif_set_up, when the interrupt is already enabled.  The interrupt     *)
(* preempts the main thread between any two steps and runs to its end.     *)
(* Each statement that touches a descriptor or the global DMATxDescToSet   *)
(* is a step, and reads the global anew (the project is built with -O0).   *)
(*                                                                         *)
(* The DMA (external) fetches the descriptor it is at: with OWN set it     *)
(* reads the buffer, transmits, clears OWN and goes on; with OWN clear it  *)
(* sets TBUS and stays suspended there until a poll demand.  Fetching and  *)
(* suspending is one step.  Underflow and other errors of the wire are     *)
(* left out.                                                               *)
(***************************************************************************)
EXTENDS Integers, Sequences

CONSTANTS NDesc,       \* ETH_TXBUFNB
          Frames,      \* frames, each a content with its length
          MainSends,   \* frames that the main thread sends: 1 in the program
          NoFrame, Torn

ASSUME TxAssumption == /\ NDesc \in Nat /\ NDesc > 1
                       /\ MainSends \in Nat
                       /\ NoFrame \notin Frames /\ Torn \notin Frames /\ Torn # NoFrame

Desc == 0 .. NDesc - 1
Contexts == {"main", "isr"}

VARIABLES own,             \* own[d]: "dma" when the OWN bit is set, else "cpu"
          buf,             \* contents of each buffer
          size,            \* ControlBufferSize, as the frame whose length it is
          dmaAt, dma,      \* the DMA: its descriptor, "run", "read" or "suspended"
          got,             \* what the DMA found in the buffer when it began to read
          DMATxDescToSet,
          pc, frame, buffer,   \* low_level_output, in each context
          mainLeft,        \* frames that the main thread may still send
          sent,            \* history: the last frame transmitted whole
          damaged          \* history: the last frame to leave had other bytes than its own

dmaVars == <<dmaAt, dma, got, sent, damaged>>
callVars == <<frame, buffer, mainLeft>>
vars == <<own, buf, size, dmaVars, DMATxDescToSet, pc, callVars>>

(* Buffer2NextDescAddr, as chained by ETH_DMATxDescChainInit. *)
Succ(d) == IF d = NDesc - 1 THEN 0 ELSE d + 1

(* ETH_DMATxDescChainInit leaves every descriptor to the CPU; ETH_Start. *)
Init ==
    /\ own = [d \in Desc |-> "cpu"]
    /\ buf = [d \in Desc |-> NoFrame]
    /\ size = [d \in Desc |-> NoFrame]
    /\ dmaAt = 0 /\ dma = "run" /\ got = NoFrame
    /\ DMATxDescToSet = 0
    /\ pc = [c \in Contexts |-> "idle"]
    /\ frame = [c \in Contexts |-> NoFrame]
    /\ buffer = [c \in Contexts |-> 0]
    /\ mainLeft = MainSends
    /\ sent = NoFrame /\ damaged = FALSE
-----------------------------------------------------------------------------
(* The DMA. *)

Fetch ==
    /\ dma = "run"
    /\ IF own[dmaAt] = "dma"
       THEN /\ dma' = "read"
            /\ got' = IF buf[dmaAt] = size[dmaAt] THEN buf[dmaAt] ELSE Torn
       ELSE dma' = "suspended" /\ UNCHANGED got
    /\ UNCHANGED <<own, buf, size, dmaAt, sent, damaged, DMATxDescToSet, pc, callVars>>

(* The frame is whole when the buffer did not change while it was read. *)
Transmit ==
    /\ dma = "read"
    /\ IF got # Torn /\ buf[dmaAt] = got
       THEN sent' = got /\ damaged' = FALSE
       ELSE damaged' = TRUE /\ UNCHANGED sent
    /\ own' = [own EXCEPT ![dmaAt] = "cpu"]
    /\ dmaAt' = Succ(dmaAt)
    /\ dma' = "run"
    /\ got' = NoFrame
    /\ UNCHANGED <<buf, size, DMATxDescToSet, pc, callVars>>

Dma == Fetch \/ Transmit
-----------------------------------------------------------------------------
(* low_level_output, in context c. *)

(* The main thread only moves while the interrupt is not running. *)
Runs(c) == c = "main" => pc["isr"] = "idle"

At(c, here, there) ==
    /\ Runs(c)
    /\ pc[c] = here
    /\ pc' = [pc EXCEPT ![c] = there]

\* Mutation: the buffer is that of the descriptor after the current one.
CallNext(c, f) ==
    /\ At(c, "idle", "copying")
    /\ frame' = [frame EXCEPT ![c] = f]
    /\ buffer' = [buffer EXCEPT ![c] = Succ(DMATxDescToSet)]
    /\ IF c = "main" THEN mainLeft > 0 /\ mainLeft' = mainLeft - 1 ELSE UNCHANGED mainLeft
    /\ UNCHANGED <<own, buf, size, dmaVars, DMATxDescToSet>>

(* low_level_output is called, and ETH_GetCurrentTxBuffer. *)
Call(c, f) ==
    /\ At(c, "idle", "copying")
    /\ frame' = [frame EXCEPT ![c] = f]
    /\ buffer' = [buffer EXCEPT ![c] = DMATxDescToSet]
    /\ IF c = "main" THEN mainLeft > 0 /\ mainLeft' = mainLeft - 1 ELSE UNCHANGED mainLeft
    /\ UNCHANGED <<own, buf, size, dmaVars, DMATxDescToSet>>

(* The copy of the pbuf chain, from its first byte ... *)
BeginCopy(c) ==
    /\ At(c, "copying", "copied")
    /\ buf' = [buf EXCEPT ![buffer[c]] = Torn]
    /\ UNCHANGED <<own, size, dmaVars, DMATxDescToSet, callVars>>

(* ... to its last; if the buffer was written in between, the two are mixed. *)
EndCopy(c) ==
    /\ At(c, "copied", "check")
    /\ buf' = [buf EXCEPT ![buffer[c]] = IF @ = Torn THEN frame[c] ELSE Torn]
    /\ UNCHANGED <<own, size, dmaVars, DMATxDescToSet, callVars>>

\* Mutation: OWN is not tested.
CheckOwnNever(c) ==
    /\ Runs(c)
    /\ pc[c] = "check"
    /\ pc' = [pc EXCEPT ![c] = "size"]
    /\ UNCHANGED <<own, buf, size, dmaVars, DMATxDescToSet, callVars>>

(* ETH_Tx_Packet: with OWN set it returns ETH_ERROR, and low_level_output ERR_MEM. *)
CheckOwn(c) ==
    /\ At(c, "check", IF own[DMATxDescToSet] = "dma" THEN "idle" ELSE "size")
    /\ UNCHANGED <<own, buf, size, dmaVars, DMATxDescToSet, callVars>>

(* The frame's length, and the FS and LS bits. *)
SetSize(c) ==
    /\ At(c, "size", "own")
    /\ size' = [size EXCEPT ![DMATxDescToSet] = frame[c]]
    /\ UNCHANGED <<own, buf, dmaVars, DMATxDescToSet, callVars>>

SetOwn(c) ==
    /\ At(c, "own", "resume")
    /\ own' = [own EXCEPT ![DMATxDescToSet] = "dma"]
    /\ UNCHANGED <<buf, size, dmaVars, DMATxDescToSet, callVars>>

\* Mutation: the poll demand is left out.
ResumeNever(c) ==
    /\ At(c, "resume", "advance")
    /\ UNCHANGED <<own, buf, size, dmaVars, DMATxDescToSet, callVars>>

(* TBUS, set while the DMA is suspended, is cleared and a poll demand issued. *)
Resume(c) ==
    /\ At(c, "resume", "advance")
    /\ dma' = IF dma = "suspended" THEN "run" ELSE dma
    /\ UNCHANGED <<own, buf, size, dmaAt, got, sent, damaged, DMATxDescToSet, callVars>>

(* DMATxDescToSet moves to the descriptor after the one it points to now; *)
(* ETH_SUCCESS, ERR_OK.                                                   *)
Advance(c) ==
    /\ At(c, "advance", "idle")
    /\ DMATxDescToSet' = Succ(DMATxDescToSet)
    /\ UNCHANGED <<own, buf, size, dmaVars, callVars>>

low_level_output(c) ==
    \/ BeginCopy(c)
    \/ EndCopy(c)
    \/ CheckOwn(c)
    \/ SetSize(c)
    \/ SetOwn(c)
    \/ Resume(c)
    \/ Advance(c)

Calls(c) == \E f \in Frames : Call(c, f)

Next == Dma \/ \E c \in Contexts : low_level_output(c) \/ Calls(c)

(* The DMA and the interrupt go on; the main thread goes on between interrupts. *)
Fairness ==
    /\ WF_vars(Dma)
    /\ WF_vars(low_level_output("isr"))
    /\ SF_vars(low_level_output("main"))

Spec == Init /\ [][Next]_vars /\ Fairness

(* The stack never stops sending. *)
SteadyTraffic == Spec /\ WF_vars(Calls("isr"))
-----------------------------------------------------------------------------
TypeOK ==
    /\ own \in [Desc -> {"dma", "cpu"}]
    /\ buf \in [Desc -> Frames \cup {NoFrame, Torn}]
    /\ size \in [Desc -> Frames \cup {NoFrame}]
    /\ dmaAt \in Desc /\ dma \in {"run", "read", "suspended"}
    /\ got \in Frames \cup {NoFrame, Torn}
    /\ DMATxDescToSet \in Desc
    /\ pc \in [Contexts -> {"idle", "copying", "copied", "check", "size", "own", "resume", "advance"}]
    /\ frame \in [Contexts -> Frames \cup {NoFrame}]
    /\ buffer \in [Contexts -> Desc]
    /\ mainLeft \in 0 .. MainSends
    /\ sent \in Frames \cup {NoFrame} /\ damaged \in BOOLEAN

Ahead(d) == IF dmaAt <= d THEN d - dmaAt ELSE d + NDesc - dmaAt

(* Queued frames, when the interrupt is the only sender. *)
Outstanding ==
    IF \A d \in Desc : own[d] = "dma" THEN NDesc
    ELSE Ahead(IF pc["isr"] \in {"resume", "advance"} THEN Succ(DMATxDescToSet) ELSE DMATxDescToSet)

(* The descriptors of the DMA are one contiguous stretch, from the one it is at *)
(* to the last one queued: whatever order replies, failures and transmissions   *)
(* come in, the DMA is never suspended short of a frame it has been given.      *)
DmaStretch == \A d \in Desc : own[d] = "dma" <=> Ahead(d) < Outstanding

(* With the interrupt as the only sender transmission implements a frame queue: *)
(* frames leave in the order they were queued, once each; one whose bytes were  *)
(* damaged counts as dropped.                                                   *)
TxQueue == INSTANCE FrameQueue
    WITH queue <- [i \in 1 .. Outstanding |->
                     size[CHOOSE d \in Desc : Ahead(d) = i - 1]],
         handed <- sent, Capacity <- NDesc

ImplementsFrameQueue == TxQueue!Spec

(* A frame for which ETH_SUCCESS was returned leaves: its descriptor comes back. *)
QueuedIsSent == \A d \in Desc : own[d] = "dma" ~> own[d] = "cpu"

(* low_level_output copies before ETH_Tx_Packet tests OWN: a send that finds    *)
(* the ring full overwrites the frame that is to leave next, and is refused.    *)
(* That is the only damage it does: a frame leaves with bytes that are not its  *)
(* own only from a full ring, the one behind it is whole.                       *)
OverrunExact == [][dmaAt' # dmaAt /\ damaged' => \A d \in Desc : own[d] = "dma"]_vars
=============================================================================

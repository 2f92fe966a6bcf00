-------------------------------- MODULE Boot --------------------------------
(***************************************************************************)
(* The start of the firmware: main()'s loop around lwip_comm_init(), which *)
(* allocates the Ethernet driver's and the stack's memory, brings the PHY  *)
(* up and attaches the network interface, and is called again 1.2 s after  *)
(* every failure.                                                          *)
(*                                                                         *)
(* The allocator is the one of Malloc.tla, one call per step: a request    *)
(* gets the highest run of blocks that has room (theorem GrantsHighest of  *)
(* Malloc_proofs), or NULL when there is none, and a free releases the     *)
(* region that starts at the pointer.  Interrupts do not allocate from     *)
(* this pool, so the main thread is the only process; the network cable is *)
(* the environment.                                                        *)
(***************************************************************************)
EXTENDS Integers, FiniteSetsExt

CONSTANTS PoolSizes,   \* pool sizes in blocks, one of which is built in
          Need,        \* Need[b]: blocks that buffer b takes
          NULL

(* The six buffers, in the order they are allocated: four by ETH_Mem_Malloc, *)
(* two by lwip_comm_mem_malloc.                                              *)
Buffers == <<"DMARxDscrTab", "DMATxDscrTab", "Rx_Buff", "Tx_Buff", "memp_memory", "ram_heap">>
EthBuffers  == {Buffers[i] : i \in 1 .. 4}
LwipBuffers == {Buffers[i] : i \in 5 .. 6}

ASSUME NeedAssumption == /\ Need \in [EthBuffers \cup LwipBuffers -> Nat \ {0}]
                         /\ PoolSizes \subseteq Nat
                         /\ NULL \notin Int

VARIABLES size,      \* blocks in the pool
          pool,      \* the granted regions: <<base, length>>
          ptr,       \* the six global pointers
          next,      \* index of the next buffer to allocate
          pc,        \* where the main thread is
          link,      \* the PHY reports link and finishes auto-negotiation
          lost       \* history: failed attempts that left memory behind, by code

vars == <<size, pool, ptr, next, pc, link, lost>>

Fits(b, n) == \A r \in pool : b + n <= r[1] \/ r[1] + r[2] <= b

(* Bases that have room for n blocks, among those where the highest one must be: *)
(* a free run that cannot be moved up ends at the end of the pool or at a region. *)
Room(n) == {b \in {size - n} \cup {r[1] - n : r \in pool} : b >= 0 /\ Fits(b, n)}

Released(bufs) == {r \in pool : r[1] \notin {ptr[b] : b \in bufs}}

Init ==
    /\ size \in PoolSizes
    /\ pool = {}
    /\ ptr = [b \in EthBuffers \cup LwipBuffers |-> NULL]
    /\ next = 1
    /\ pc = "alloc"
    /\ link \in BOOLEAN
    /\ lost = [mem |-> 0, phy |-> 0]

\* Mutation: a pointer is only stored when the allocation succeeded.
AllocateKeepsOld ==
    /\ pc = "alloc"
    /\ LET b == Buffers[next]
           n == Need[b]
       IN  IF Room(n) = {}
           THEN UNCHANGED <<ptr, pool>>
           ELSE /\ ptr' = [ptr EXCEPT ![b] = Max(Room(n))]
                /\ pool' = pool \cup {<<Max(Room(n)), n>>}
    /\ next' = next + 1
    /\ pc' = CASE next = 4 -> "ethCheck" [] next = 6 -> "lwipCheck" [] OTHER -> "alloc"
    /\ UNCHANGED <<size, link, lost>>

(* One mymalloc: its result is stored whether or not it is NULL. *)
Allocate ==
    /\ pc = "alloc"
    /\ LET b == Buffers[next]
           n == Need[b]
       IN  IF Room(n) = {}
           THEN ptr' = [ptr EXCEPT ![b] = NULL] /\ UNCHANGED pool
           ELSE /\ ptr' = [ptr EXCEPT ![b] = Max(Room(n))]
                /\ pool' = pool \cup {<<Max(Room(n)), n>>}
    /\ next' = next + 1
    /\ pc' = CASE next = 4 -> "ethCheck" [] next = 6 -> "lwipCheck" [] OTHER -> "alloc"
    /\ UNCHANGED <<size, link, lost>>

\* Mutation: a failure does not give back what was allocated.
ETH_Mem_MallocKeep ==
    /\ pc = "ethCheck"
    /\ pc' = IF \E b \in EthBuffers : ptr[b] = NULL THEN "delay" ELSE "alloc"
    /\ UNCHANGED <<size, pool, ptr, next, link, lost>>

(* The end of ETH_Mem_Malloc: one failure frees all four (myfree ignores NULL) *)
(* and lwip_comm_init returns 1; the pointers keep their values.               *)
ETH_Mem_Malloc ==
    /\ pc = "ethCheck"
    /\ IF \E b \in EthBuffers : ptr[b] = NULL
       THEN pool' = Released(EthBuffers) /\ pc' = "delay"
       ELSE pc' = "alloc" /\ UNCHANGED pool
    /\ UNCHANGED <<size, ptr, next, link, lost>>

\* Mutation: && instead of || between the tests of the pointers.
lwip_comm_mem_mallocAnd ==
    /\ pc = "lwipCheck"
    /\ IF \A b \in LwipBuffers : ptr[b] = NULL
       THEN /\ pool' = Released(LwipBuffers)
            /\ pc' = "delay"
            /\ lost' = [lost EXCEPT !.mem = @ + 1]
       ELSE pc' = "phy" /\ UNCHANGED <<pool, lost>>
    /\ UNCHANGED <<size, ptr, next, link>>

(* The end of lwip_comm_mem_malloc: a failure frees its own two buffers and    *)
(* lwip_comm_init returns 1 with the driver's four still allocated.            *)
lwip_comm_mem_malloc ==
    /\ pc = "lwipCheck"
    /\ IF \E b \in LwipBuffers : ptr[b] = NULL
       THEN /\ pool' = Released(LwipBuffers)
            /\ pc' = "delay"
            /\ lost' = [lost EXCEPT !.mem = @ + 1]
       ELSE pc' = "phy" /\ UNCHANGED <<pool, lost>>
    /\ UNCHANGED <<size, ptr, next, link>>

(* mv88e6xx_init: ETH_Init polls the PHY for link and for the end of auto-     *)
(* negotiation; when either poll times out lwip_comm_init returns 2.           *)
mv88e6xx_init ==
    /\ pc = "phy"
    /\ IF link
       THEN pc' = "netif" /\ UNCHANGED lost
       ELSE pc' = "delay" /\ lost' = [lost EXCEPT !.phy = @ + 1]
    /\ UNCHANGED <<size, pool, ptr, next, link>>

\* Mutation: the result of netif_add is tested the wrong way round.
netif_addInverted ==
    /\ pc = "netif"
    /\ pc' = "delay"
    /\ UNCHANGED <<size, pool, ptr, next, link, lost>>

(* lwip_init and netif_add carve the pools out of memp_memory and ram_heap and *)
(* hand the rings to the DMA; ethernetif_init returns ERR_OK on every path, so *)
(* netif_add does not fail.                                                    *)
netif_add ==
    /\ pc = "netif"
    /\ pc' = "run"
    /\ UNCHANGED <<size, pool, ptr, next, link, lost>>

(* delay_ms(1200), "Retrying...", and lwip_comm_init from its first line. *)
Retry ==
    /\ pc = "delay"
    /\ pc' = "alloc"
    /\ next' = 1
    /\ UNCHANGED <<size, pool, ptr, link, lost>>

(* The cable is plugged or pulled. *)
Cable ==
    /\ link' = ~link
    /\ UNCHANGED <<size, pool, ptr, next, pc, lost>>

Main == Allocate \/ ETH_Mem_Malloc \/ lwip_comm_mem_malloc \/ mv88e6xx_init \/ netif_add \/ Retry

Next == Main \/ Cable

(* The main thread keeps running; the cable owes nothing. *)
Spec == Init /\ [][Next]_vars /\ WF_vars(Main)
-----------------------------------------------------------------------------
TypeOK ==
    /\ size \in PoolSizes
    /\ \A r \in pool : r[1] \in 0 .. size - 1 /\ r[1] + r[2] <= size
    /\ \A b \in DOMAIN ptr : ptr[b] \in 0 .. size - 1 \cup {NULL}
    /\ next \in 1 .. 7
    /\ pc \in {"alloc", "ethCheck", "lwipCheck", "phy", "netif", "delay", "run"}
    /\ link \in BOOLEAN

Granted(b) == <<ptr[b], Need[b]>> \in pool

(* Once the PHY is touched, and above all once the DMA is given the rings, all  *)
(* six pointers are regions of the pool, of the size asked for, and no two are  *)
(* the same or overlap, however many attempts failed before.                    *)
BuffersReady ==
    pc \in {"phy", "netif", "run"} =>
        /\ \A b \in DOMAIN ptr : Granted(b)
        /\ \A b, c \in DOMAIN ptr : b # c => ptr[b] + Need[b] <= ptr[c] \/ ptr[c] + Need[c] <= ptr[b]

(* The free functions do not reset the pointers they free, and the next attempt *)
(* frees them again when it fails: every pointer that a failing attempt hands   *)
(* to myfree is NULL or a region that is allocated at that moment.              *)
FreesOnlyGranted ==
    /\ pc = "ethCheck"  => \A b \in EthBuffers  : ptr[b] = NULL \/ Granted(b)
    /\ pc = "lwipCheck" => \A b \in LwipBuffers : ptr[b] = NULL \/ Granted(b)

Total(bufs) == MapThenSumSet(LAMBDA b : Need[b], bufs)

(* What a failed attempt leaves behind is exactly: all six buffers when the PHY *)
(* failed, the driver's four when the stack's memory did not fit, nothing when  *)
(* the driver's did not.  The pool holds no other region between attempts.      *)
LeakExact ==
    pc = "delay" =>
        MapThenSumSet(LAMBDA r : r[2], pool)
            = lost.phy * Total(DOMAIN ptr) + lost.mem * Total(EthBuffers)

(* As long as no more attempts have failed than the pool can pay for, the       *)
(* system comes up once the link stays up.                                      *)
BootsWhilePoolLasts ==
    ([]((lost.phy + 1) * Total(DOMAIN ptr) <= size) /\ <>[]link) => <>(pc = "run")
=============================================================================

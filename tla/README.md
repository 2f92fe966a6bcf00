# Verification of the STM32F407 / 88E6321 switch firmware

TLA+ models of the firmware's own logic and of the parts of lwIP it runs
concurrently, the TLC runs that check them on small instances, and TLAPS proofs of
what holds for every instance. Paths are relative to the repository (`src/`);
`PROJECT.json` maps every definition to its lines, every property to a mutant of
the code that breaks it, and every hazard to the properties that would notice it.

## 1. The system

The firmware runs on one STM32F407 without an operating system (lwIP 1.4.1 with
`NO_SYS=1`) and drives a Marvell 88E6321 switch through the MAC's MDIO interface
and its Ethernet port. Three kinds of activity run concurrently:

* the **main thread**: start-up, then `while (1) lwip_periodic_handle()`;
* **interrupts**: Ethernet (`ETH_IRQHandler`, preemption priority 0, the highest:
  nothing preempts it), timer 3 every 10 ms, USART3 per byte. An interrupt
  preempts the main thread between any two instructions;
* **hardware**: the Ethernet DMA, which reads and writes descriptors and buffers
  in memory at any moment, and the switch, which executes PHY commands when it
  pleases.

Nothing is locked: `SYS_LIGHTWEIGHT_PROT` is 0, the driver's semaphores are stubs, and
no code disables interrupts. TCP, UDP, DHCP and the sequential API are compiled
out; the whole input path of the stack (Ethernet, ARP, IP, reassembly, ICMP) runs
inside `ETH_IRQHandler`.

### Inventory

| component | code | state | operations | what is hard | what makes it correct |
|---|---|---|---|---|---|
| block allocator | `USER/MALLOC/malloc.c` | table of blocks, ready flag | `mymalloc`, `myrealloc`, `myfree`, `my_mem_init`, `my_mem_perused` | long mixes of calls; the run one block too short; the ends of the pool | owners disjoint, table agrees with owners, refuses only when nothing fits |
| start-up and retry | `main.c:63-68`, `lwip_comm.c:38-58,106-146`, `mv88e6xx.c:31-51,330-353`, `stm32f4x7_eth.c:391-429` | six buffer pointers, the pool | six allocations, two partial frees, PHY wait, retry for ever | failure between two steps, freeing stale pointers, what a failure leaves behind | buffers all granted before the DMA sees them; the retry works |
| reception | `mv88e6xx.c:261-300`, `ethernetif.c:62-109`, `stm32f4x7_eth.c:1311-1349,1811-1824` | ring of 5 descriptors, `DMARxDescToGet`, interrupt flags | interrupt handler, take, copy, give back, resume | DMA and handler interleave; ring full; no pbuf; lost interrupt | frames whole, in order, once; no descriptor lost |
| transmission | `ethernetif.c:45-59`, `mv88e6xx.c:305-330` | ring of 5 descriptors, `DMATxDescToSet` | `low_level_output` from two contexts | ring full; preemption between the steps of one send; suspend/resume race | queued frames leave, whole and in order |
| PHY access | `stm32f4x7_eth.c:2903-2976`, `ev96122mii.c:191-330`, `gtHwCntl.c:2743-2976` | switch's command and data register | six functions: read and write with a timeout | three protocols over one pair of registers, timeouts, stale data | a read returns what was read for it; a write that succeeds has written its value |
| PHY start-up | `stm32f4x7_eth.c:376-436`, `gtMiiSmiIf.c:71-205`, `gtHwCntl.c:2226-2420` | where the start-up is, its timeout | reset, waits, auto-negotiation, search for the switch, driver's accesses | one function's leftovers under the next one's access | no command on a busy switch; the driver's writes arrive; the start-up ends |
| serial line | `usart.c:66-167` | 16-bit status word, line buffer | one byte received | flags and count share a word; overflow; broken CR LF | a complete line is what was received |
| time | `timer.c`, `lwip_comm.c:156-172`, `main.c:86-89` | `lwip_localtime`, `ARPTimer` | tick, periodic check | lost ticks, wrap, two reads of one counter | ageing never early, and for ever |
| ARP table | `netif/etharp.c` | 10 entries with a queued packet each | input and output in the interrupt, `etharp_tmr` in main | main and interrupt change entries without exclusion | an address has one entry and its host's MAC; a packet is freed once and waits for a bounded time |
| lwIP heap | `core/mem.c` | list of blocks, `lfree` | `mem_malloc`, `mem_free`, `mem_trim` in the interrupt, `mem_free` in main | a half-done free seen by the interrupt; `lfree` moved in five places | list whole both ways, owners disjoint, no two free neighbours, `lfree` the lowest free block |
| lwIP pools and pbufs | `core/memp.c`, `core/pbuf.c` | free lists, reference counts | alloc, free | | only the interrupt uses them once the system is up |
| IP reassembly | `core/ipv4/ip_frag.c` | datagrams in progress, count of pbufs | one fragment | every order of fragments, limits, eviction, no timer | count exact, what is delivered is whole, oldest goes first |
| IP, ICMP | `core/ipv4/` | none between packets | input, echo reply | | header checks, checksums |
| Ethernet MAC set-up, switch defaults | `mv88e6xx.c:60-130,355-`, `stm32f4x7_eth.c:200-560` | registers | fixed sequences | | |
| switch driver | `USER/switch/src` (vendor, about 95 000 lines) | none but registers | `qdStart` and a few calls are used | BUSY protocols | its PHY access, above |
| delays, GPIO helpers | `Common/common.c` | SysTick | busy waits | SysTick's clock changes under them | length of the delay |
| TCP, UDP, DHCP, sockets; peripheral library; samples | | | | | not built, or vendor code |

### How the components interact

`main` calls `lwip_comm_init`, which allocates four buffers for the driver and two
for the stack (**allocator**), brings up the PHY over **PHY access**, then
initialises lwIP and starts the DMA. From then on **reception** calls the stack
(**ARP table**, **reassembly**, **heap**), which replies through **transmission** in the
same interrupt, and `main` calls `etharp_tmr` when **time** says so, which frees
heap blocks while the interrupt allocates and frees others. `netif_set_up` sends one
gratuitous ARP request from the main thread while the interrupt is already
enabled: the only frame that is not sent by the interrupt. The shared state is the
two rings (CPU and DMA), `DMATxDescToSet` (main and interrupt), `lwip_localtime` (timer
and main), the ARP table and the heap (main and interrupt), and the switch's PHY
registers (six functions, all in main, and the switch itself).

## 2. Modules

| module | stands for | status |
|---|---|---|
| `Heap` | what an allocator promises: a free run, or a refusal when there is none | abstract specification |
| `Malloc`, `MCMalloc`, `Malloc_proofs` | `malloc.c`, one table entry of the scan per step | checked, proved to implement `Heap` |
| `Boot`, `Boot_proofs` | `main`'s loop around `lwip_comm_init` | checked in `Firmware`, safety proved |
| `FrameQueue` | what a descriptor ring promises: a bounded queue | abstract specification |
| `EthRx`, `MCEthRx`, `EthRx_proofs` | the interrupt handler against the DMA | checked, safety and refinement proved |
| `EthTx`, `MCEthTx`, `EthTx_proofs` | two senders against the DMA | checked, safety and refinement with one sender proved |
| `PhySmi`, `MCPhySmi` | PHY registers through the switch, six functions in any order | checked, safety proved |
| `SwitchStart`, `MCSwitchStart` | `PhySmi` composed with `ETH_Init`, `miiSmiIfInit` and the driver: the accesses in the program's order | checked, safety proved |
| `Usart`, `MCUsart` | the receive handler | checked, all proved |
| `LocalTime` | tick, wrap and the main loop's period | checked in `Firmware`, safety proved |
| `Firmware`, `MCFirmware` | `main` as a whole: `Boot` and then the main loop of `LocalTime`, under the interrupts of both | checked, safety proved |
| `MCSequential` | `MCMalloc`, `MCUsart`, `MCIpReass` and `MCPhySmi` side by side, for one run | |
| `Board_proofs` | the theorems about `SwitchStart`, `PhySmi`, `Usart` and `LocalTime` | |
| `ArpTable`, `MCArpTable` | `etharp.c`: the stack against `etharp_tmr` | checked, safety proved |
| `Mem`, `MCMem`, `Mem_proofs` | `mem.c`: the interrupt against main's `mem_free` | checked, what holds of it proved |
| `IpReass`, `MCIpReass` | `ip_reass` | checked, what holds of it proved |
| `Stack_proofs` | the theorems about `ArpTable` and `IpReass` | |
| `SetLemmas` | sums over finite sets and sequences, for the proofs | |

In every module an operation of the code has the code's name, variables have the
code's names where there is one, and variables marked "history" are not in the
code: they remember what a property needs. Operators preceded by a comment
`\* Mutation:` are not part of the specification; they are plausible bugs that a
property of the run must notice. Definitions marked external in `PROJECT.json` are
hardware.

### Malloc

`memmap` is the management table, `memrdy` the ready flag; the table starts with
arbitrary words (`Junk`), as the RAM does. A call (`mymalloc`, `myrealloc`) computes
the number of blocks, then `ScanUsed`/`ScanFree` look at one entry per step, exactly
as the `for` loop does, and `Found`, `NotFound` or `ReturnEmpty` end it. `myfree` is a
step. `held` (history) is who owns what. The bytes `myrealloc` copies are left out.
A request so large that its block count wraps in 16 bits (`malloc.c:78`) is excluded by
`SizesAssumption`; the program makes none (its requests are fixed buffer sizes), as
it makes no call of `myrealloc`, whose copy can read beyond a shorter old region
(`malloc.c:151`). Calls do not overlap: every caller is in the main thread, during
start-up.

### Boot

`pool` is the set of regions that are granted, `ptr` the six global pointers. Each
`mymalloc` is one step that takes the highest run that fits, which is what
`Malloc_proofs!GrantsHighest` shows of the allocator. `ETH_Mem_Malloc` and
`lwip_comm_mem_malloc` are the tests after the allocations, with the frees of the
failure paths. `mv88e6xx_init` succeeds or fails as `link` says; the cable (`Cable`) may
change at any moment. What `ETH_Init` writes into registers is left out, and the
delay has no duration. `Firmware` puts it under timer 3's interrupt and lets the main loop
follow.

### EthRx

`own`, `buf` are the descriptors' OWN bits and buffers, `dmaAt` and `writing` the DMA,
the rest is `ETH_IRQHandler` with `ethernetif_input`, `low_level_input`,
`ETH_Rx_Packet` and `ETH_GetRxPktSize` inlined: `Check`, `ETH_Rx_Packet`, `CopyFrame`,
`GiveBack`, `ResumeDma`, `Input`, `ClearIT`, one shared access each; the write that clears NIS after
R (`mv88e6xx.c:268`) has no effect on this model and no step. A buffer that is being
written is `Torn`. `CopyFrame` finds a pbuf or does not. `rbus` follows DMASR.RBUS.
Assumptions about the hardware: errors and giants are dropped by the MAC as
configured (`mv88e6xx.c:104-109`), so OWN is the only status bit that varies; the
interrupt line follows the R bit; the handler is never preempted.

### EthTx

`pc`, `frame` and `buffer` are kept per context (`"main"`, `"isr"`); `Runs` lets the main
thread move only while the interrupt is idle. Every statement that reads or writes
a descriptor or `DMATxDescToSet` is a step and reads the global again, as the built
code (-O0) does. The copy into the buffer comes before the test of OWN
(`ethernetif.c:50-55`), in two steps. The DMA fetches a descriptor and, finding OWN
clear, suspends in one step; a poll demand wakes it. Underflow and wire errors are
left out. `MainSends` is 1 in the program (`netif.c:468`); the run about the interrupt
alone uses 0.

### PhySmi and SwitchStart

`busy`, `cmd`, `data` are the switch's two registers, `phy` the registers behind it. The six
functions are combinations of the same parts: `Command` (the Ethernet driver and the
board support give the command at once), `Begin`, `Wait` and `Give` (the switch driver waits
for BUSY first and has the value in place before the command), `Poll` with its
different loops (`PollRead`: bounded, the count and not BUSY decides; `PollWrite`: unbounded,
an error only when the count is exactly the limit; `Look`: one look, then a `do` loop
whose count runs out whatever BUSY is), and `Data`. A loop of the driver that runs out
returns `GT_FALSE`, which is the value of `GT_OK` (`gtHwCntl.c:2842,2948`): a false success, with
nothing read or written, and the model has it. The switch (external) executes a
command at any later moment with the data register as it is then. One MDIO transfer is
one step and completes. All callers are in the main thread.

`PhySmi` has the calls in any order. `SwitchStart` EXTENDS it and has them in the
program's: `ETH_Init` resets the PHY, waits for its link, enables auto-negotiation,
waits for its end; `miiSmiIfInit` reads an identity at 8, 9, 0 and 1, which go through the command
register (those between, from 0x10 up, do not), until one is known or a read fails; then the driver reads and writes any PHY registers, always through
`phyRegReadPPUEn`/`phyRegWritePPUEn`, for the 88E6321 has `DEV_PPU_READ_ONLY` and not
`DEV_SERDES_ACCESS_CONFIG`. `Read_PHY_SMI` and the indirect branch of `gtBspWriteMii` have no
caller in the program and are only in `PhySmi`. A failed `ETH_Init` ends the model: the
repetition never gets here again for want of memory (`Boot`).

### Usart

`USART_RX_STA` is the 16-bit word as a number, with `GotLine`, `GotCR` and `Count` for
its three fields; `AfterCR`, `CarriageReturn` and `Store` are the branches of
`USART3_IRQHandler`. Nothing in the program clears bit 15, so the first complete
line stays. `recent` (history) keeps the last bytes received.

### LocalTime

`uif` is timer 3's flag, `isr` the place in `TIM3_IRQHandler`, `main` the place in
`lwip_periodic_handle`; the test and the assignment of `ARPTimer` read
`lwip_localtime` separately, as the code does. `eth` says that the Ethernet interrupt
is running, which stops both. An overflow that finds the flag set is lost. The
body of `etharp_tmr` is one step here; `ArpTable` has it in full. `KeepsAging` is what
`ArpTable` assumes as fairness of `etharp_tmr`; composing the two in one run would
multiply two state spaces that touch only there.

### Firmware

`main` calls `TIM3_Int_Init` before its loop around `lwip_comm_init`, so the clock runs through
every failed attempt. `Firmware` EXTENDS `Boot` and `LocalTime` and has both at once: `Start` is a step
of the start-up, which timer 3's interrupt preempts as it preempts the main loop; `Loop` is
`lwip_periodic_handle`, from `pc = "run"` on; `Interrupts` are timer 3's at any time and the Ethernet's
from `ETH_Start` on. `AgesOnceUp` relates the two: once an attempt has succeeded ageing
never stops, wherever the counter was by then. Neither touches the other's variables, which is what
carries the theorems over. The switch's start-up, between the two, is `SwitchStart`'s part and
takes no step here.

### ArpTable

`arp_table` is the array of entries; `live` the pbufs allocated for packets that wait.
Each call of the stack (`etharp_update_arp_entry`, `etharp_output_to_arp_index`,
`etharp_query`, with `Found`/`Recycle`/`Fresh` for `etharp_find_entry`) is one step, for nothing
preempts it. `etharp_tmr` is one access to the table per step: it reads the state, reads
and writes back `ctime`, tests, frees the packet, unlinks it, empties the entry and
clears it field by field (`LWIP_DEBUG` is defined, as 0, which compiles the clearing
in). What is read twice in one expression may be the copy or read anew.

Most of these steps tolerate anything the stack does in between; some do not, and
`Window` names exactly those: from the free of the packet to the last cleared field, and
the reset of STABLE_REREQUESTING. If the stack takes the very entry in one of them
(`clash`), what the code can do is a packet freed twice or sent after it was freed,
one lost, an emptied entry in use, or an entry stable with another host's
MAC; nothing more is said of such a behaviour. Everything else is shown to be
harmless: the properties hold for all interleavings that do not clash.

### Mem

`heap` is the record of `next`, `prev`, `used` for every offset and `lfree`; `blocks` (history) are
the offsets that hold a struct, `asked` (history) what was asked for. A statement of
the code is an operator from heaps to heaps (`MarkFree`, `Lower`, `MergeLfree`, `MergeNext`,
`MergePrev`, `Insert`, `MoveNext`, `SplitOff`), so that the interrupt's `mem_free`, one step, and
the main thread's, in pieces, are made of the same parts. The main thread's stores are a step
each, and its three tests of `lfree` are a step before the store they decide (`MainLower` and
`JoinLfree`, then `StoreLfree`), so that the interrupt may move `lfree` in between. `lost` (history)
says that the store has then raised `lfree` over a block the interrupt freed below: mem.c:192,
"pointer to the lowest free block", is false then, and `mem_malloc` does not see that block.
`mem_malloc`'s scan looks at one block per step so that what it has ruled out can be stated; main does
not run meanwhile. A clash is a change the interrupt makes to the block main
is freeing or to one of the two beside it (`Near`); after one nothing more is said.
Requests for nothing and for more than the heap return NULL at once and are left
out, as is main's only `mem_malloc`, the gratuitous ARP of start-up. The heap's pbufs are
never trimmed by this program; `mem_trim` is modelled all the same, as part of `mem.c`.

### IpReass

One call of `ip_reass` is one step, made of the code's functions as operators on the
state of the call: room by pbufs, room by datagrams, then chain, validate and hand
up, or keep. `timer` is the same for every datagram, because nothing counts it down:
`ip_reass_tmr` is called by `timers.c` alone, which is not run here. So an incomplete
datagram stays until others need its room: with ten of the twelve pbufs of the pool
held for ever, a full-size frame, which needs three, is not received. Two faults
of the code are in the model as they are, each with a run that shows it: the joint in front
of a fragment that was inserted last is not looked at (`ip_frag.c:369`, against the comment at
568), and the `prev` that is remembered when the oldest is given up is not always the one
before it (248, against the assertion at 167), which leaves a freed struct linked; after that
(`broken`) nothing more is said.

### MCSequential

The allocator and the PHY accesses (main thread), the serial line (USART3's interrupt) and
reassembly (Ethernet interrupt) are each used by one context, share no state, and have no
property that speaks of two. Their specifications are run as a sum: one moves while the
others are at their start. That explores exactly what four separate runs would.

## 3. What the runs show

| run | states | result |
|---|---|---|
| `sequential` | 218 213 | *Allocator:* on six blocks, with every sequence of requests for nothing, part of a block, whole blocks, the whole pool and more: regions never overlap (`RegionsDisjoint`), the table agrees with the owners (`MapAgrees`), `my_mem_perused` is exact, grants are highest-fit, and the allocator implements `Heap`. *Serial line:* with every byte sequence the count never leaves the buffer or reaches the flags, and a complete line is exactly what was received last. *Reassembly:* with the program's limits (ten pbufs, five datagrams) and fragments of six datagrams in any order and number, the count of pbufs is exact (`ListInv`), what is handed up begins with its first fragment, is in order and ends with its last if it was cut in one way (`DeliveredInOrder`), and eviction is by age (`GivesUpOldest`). *PHY accesses:* however late the switch is and in whatever order the six functions are called, the switch is left busy only by a timeout or by the driver's write (`CommandWhenIdle`), and a read that gets to the data register returns what the switch read for it (`ReadIsFresh`). |
| `firmware` | 198 448 | `main` as a whole. For six pool sizes and any history of failures: nothing is handed to the DMA unless all six buffers are granted and apart (`BuffersReady`), stale pointers are never freed into somebody else's region (`FreesOnlyGranted`), a failure leaks exactly what `LeakExact` says, and the system boots as long as the pool can pay for the failures. With the built pool it cannot pay for one: an attempt takes 1040 of 1280 blocks, and a failed `ETH_Init` leaves them, so `main.c:63-68` never succeeds later. With lost ticks, interrupts anywhere and the wrap in every phase, ageing is never more than a tick early (`NeverEarly`), and once up it never stops (`AgesOnceUp`). |
| `ethrx` | 61 795 | Every interleaving of handler and DMA on three descriptors, with and without pbufs: the ring keeps its shape (`CpuStretch`), `ETH_Rx_Packet` never returns the NULL that is written through, no buffer is read while written, reception implements `FrameQueue`. Every descriptor returns (`DescriptorsReturn`) as long as frames keep arriving, or none is closed between the last look at the ring and the clearing of R (`mv88e6xx.c:263,267`): a frame that is waits for a later one. |
| `ethtx` | 9 124 | With the interrupt as the only sender: the DMA's descriptors stay one stretch (`DmaStretch`), transmission implements `FrameQueue`, queued frames leave (`QueuedIsSent`). The one frame that leaves damaged is the oldest of a full ring, over which a frame was copied that is then refused (`OverrunExact`). |
| `switch_start` | 52 362 | In the program's order: no command falls on a busy switch (`NeverOverrun`), the driver's writes arrive as given although nothing waits for them (`DriverWritesArrive`), and the start-up ends (`StartReturns`), provided the switch ends every command. |
| `arp` | 156 519 | Three hosts for two entries, every call of the stack between any two accesses of `etharp_tmr`: no address has two entries (`TableInv`), a stable entry has its host's MAC and no packet (`RightHost`), every waiting packet is on one entry and allocated (`HeldOnce`), is given up for another host only when every entry holds one and then as the oldest (`GivenUpLast`), and does not wait for ever, even if its host is asked for again and again (`NoneWaitsForEver`). |
| `mem` | 3 508 283 | A heap of up to four blocks, used by the interrupt and freed by main in pieces: the list covers the heap both ways, used blocks are those handed out and each holds what was asked for, no two free blocks follow each other, and `lfree` is a free block of the list (`HeapIntact`). It is the lowest, and NULL is returned only when nothing fits (`FirstFit`), as long as no update of it was lost; after that `FirstFit` still holds of the blocks from `lfree` on. |

Five runs are expected to find a violation, of what a comment or an assertion of the
repository says; each is a finding in `PROJECT.json`, with the lines.

| run | property | what it finds |
|---|---|---|
| `ethtx_preempt` | `QueuedIsSent` | The gratuitous ARP request, preempted between setting OWN and advancing, leaves the DMA suspended one descriptor beyond a queued frame. |
| `written` | `SuccessIsWritten` | `Write_PHY_SMI` gives the command before the value is in the data register, returns `ETH_SUCCESS`, and the PHY has got what was in that register before. So `ETH_Init`'s writes arrive one access late: the first puts there whatever the register held, the second resets the PHY instead of enabling auto-negotiation. |
| `reass_whole` | `DeliveredWhole` | Fragments 0-1, 3-4 and 2-3 of a datagram of four arrive in this order; the third is inserted before the second, nothing looks at the joint in front of it, and the datagram is handed up without 1-2. |
| `reass_unlinked` | `FreedIsUnlinked` | The datagram of the fragment is the oldest, behind two newer ones: what is given up is `prev` itself and stays linked. |
| `mem_lfree` | `LfreeLowest` | Main frees a block and has found it below `lfree`; the interrupt frees a lower one and lowers `lfree`; main's store raises it again, and the lower block is no longer found. |

`LeakExact` and `OverrunExact` state what the code does where that is less than one would hope and
no text of the repository denies it, so that the extent of it is checked.

### Bounds, and why they are enough

* `sequential`, allocator: six blocks hold up to six regions and every fragmentation of them; sizes
  hit the boundaries of a block and of the pool. The theorems cover every pool.
* `firmware`, start-up: real sizes in 32-byte blocks. The pools are: smaller than the driver's and stack's
  parts, exactly enough, the built one, enough for two and three attempts.
* `ethrx`, `ethtx`: three descriptors have an empty, a partly and a completely full ring and
  a wrap; the code has five. `WindowMax` bounds the frames closed between `Check`
  and `ClearIT`; three is the whole ring. Frame contents only have to differ from their
  neighbours. The invariants of both are proved for every ring.
* `sequential`, PHY accesses, and `switch_start`: a limit of two polls has the answer before, at and after it; the
  real limits are larger constants of the same loops. `PollMax + 1` stands for every
  count above the limit of the unbounded loop. Two registers and two or three values
  are enough to tell one access's value from another's.
* `sequential`, serial line: a buffer of four instead of 200; the theorems cover every size up to 2^14.
* `firmware`, clock: tick 2, interval 6, wrap 15 for 10, 5000 and 2^32; as there, the interval is a
  multiple of the tick and the wrap is not, so the wrap occurs in every phase.
  `LateMax` caps the history of real time beyond which nothing depends on it.
* `arp`: two entries for three hosts, so that recycling happens in all its four kinds; one
  pbuf more than entries, so that there is always a name for a new packet. Ages 4, 3 and 2
  for 240, 228 and 2 keep the order `ArpAssumption` states. Proved for every size.
* `mem`: twelve units, structs of one, blocks of two: up to four blocks, with splits
  that just fit and just do not, and both neighbours of a freed block free.
  Proved for every size.
* `sequential`, reassembly, and its two findings: the program's own limits; six datagrams reach that of five; fragments overlap, repeat,
  are the last, and cut the same datagram in two ways. With three datagrams instead of five the
  list breaks only for the oldest of all, which is not so with more: the limits matter.

`CHECK_DEADLOCK FALSE` is used for reception only: a ring that is full with no interrupt
pending and no frame on the wire really stands still.

### Fairness

* `EthRx`: weak fairness of the handler (highest priority, runs when pending) and of the DMA
  finishing a frame it began. That frames keep arriving is a premise of
  `DescriptorsReturn`, not fairness of the system.
* `EthTx`: weak fairness of the DMA and of the interrupt; strong fairness of the main thread,
  which runs whenever the interrupt returns, again and again. `SteadyTraffic` also has
  the stack send for ever; it makes the counterexample of `ethtx_preempt` one in which
  nothing simply stopped.
* `SwitchStart`: the caller goes on; the switch executes a command it was given. The second is a premise
  of `StartReturns` that the code does not secure: `Write_PHY_SMI` waits for it without a limit
  (`stm32f4x7_eth.c:2962`).
* `Firmware`: the timer runs, the Ethernet interrupt returns, and what it preempts (timer
  handler, start-up, main loop) goes on in between, hence strong fairness of each. That leaves out a
  flood of frames that never lets the main thread run. The cable owes nothing.
* `ArpTable`: weak fairness of `etharp_tmr`, which is `KeepsAging` of `LocalTime` (`AgesOnceUp`). The stack owes
  nothing: no host need answer.
* `Malloc`, `Usart`, `PhySmi`, `Mem`, `IpReass`: safety only.

## 4. What is proved

Every theorem is `Spec => ...`, for all values of the constants allowed by the
named assumptions of the module. Each proof module has an inductive invariant (most
are called `IInv`; TLC confirmed them on the instances of the runs first), a lemma per
action that it is kept, and the theorems as consequences.

* `Malloc_proofs` (a pool of at least one block, no wrapped block count).
  Types, `RegionsDisjoint`, `MapAgrees`, "nothing is held before initialisation", and
  `ScanInv`. Disjointness alone is not inductive: a grant is safe only because the table
  shows every owner (`MapAgrees`) and the free run counted by the scan is really there
  (`ScanInv`). Theorems: `TypeCorrect`, `DisjointRegions`, `TableAgrees`, `GrantsHighest` (an action
  property), and `Refinement`: `Malloc` implements `Heap`, each scan step a stutter, `Found` a
  `Grant`, `NotFound` a `Refuse` because `ScanInv` has ruled out every base. `UsageReported`
  (`PerusedExact`): the used entries are the disjoint union of the granted runs (`OwnedBelow`
  adds one base after the other), so their number is the sum of the lengths.
* `Boot_proofs` (any pools, any six sizes). The invariant: granted regions lie in the
  pool and apart, and the pointers *of this attempt* are NULL or granted regions, no two
  the same; pointers of earlier attempts may be stale, and the proof is that each is
  overwritten before a failure path reads it. Theorems: `TypeCorrect`, `Ready`
  (`BuffersReady`), `NoStaleFree` (`FreesOnlyGranted`), and `LeaksExplained` (`LeakExact`) from
  `LeakInv`: at every moment the lengths in the pool add up to what the failures left and what
  this attempt has been granted; a partial free takes off exactly what it returns because
  the granted pointers of an attempt are distinct regions. They are theorems of `FirmwareSpec`, the whole
  program: `FirmwareBoots` shows that no interrupt and no step of the main loop touches the start-up's
  variables, so that the whole behaves as `Boot`'s `Init /\ [][Next]_vars`, and `FirmwareKeepsTime` the
  same of the clock.
* `SetLemmas`. The sums of the two theorems above are folds of the community modules, which take
  elements in an order that CHOOSE decides. The lemmas show by well-founded induction over
  finite sets that the recursion has one solution, whatever the order, and that an element can
  be split off, added or mapped (`SumRemove`, `SumAdd`, `SumWithout`, `SumSplit`), and what
  leaving out or replacing one element of a sequence does to the sum over it (`SumWithoutOne`,
  `SumReplaceOne`).
* `EthRx_proofs` (at least two descriptors). Types, `CpuStretch` and the facts that tie the
  handler's place to the descriptor it holds. `NeverNull` and `BuffersApart` follow: the
  descriptor seen closed by `Check` is still the CPU's when it is taken, since only
  `GiveBack` hands descriptors to the DMA, and the DMA writes only in descriptors outside
  the stretch. `Refinement`: `EthRx` implements `FrameQueue`. `Lists` says, without a choice,
  which buffers the queue consists of; the shape of the ring makes `FrameDone` append to that
  list, `ETH_Rx_Packet` move its head into the handler's hands and `GiveBack` leave it alone. So
  `FrameDone` is an `Accept`, `Input` a `Hand`, `CopyFrame` without a pbuf a `Drop`, and every other
  step a stutter. It needs one more invariant (`FramesInv`): the CPU's descriptors hold whole
  frames.
* `EthTx_proofs` (any ring; `TypeCorrect` with both senders). `RingKeepsShape` and
  `OverrunOnlyWhenFull` assume `MainSends = 0`, without which `ethtx_preempt` refutes them. The
  invariant measures descriptors by their distance from the DMA (`Ahead`): the DMA's
  are those nearer than the one that is filled next (`Trail`); a full and an empty ring,
  in which the two coincide, are told apart by the OWN bit there. `Refinement`, under the same
  assumption: `EthTx` implements `FrameQueue`, `SetOwn` an `Accept`, `Transmit` a `Hand` of the frame at
  the head, or a `Drop` if it was damaged, all else a stutter.
* `Board_proofs`, PHY access (any registers, values and limit). `AccessInv`, for the calls in any
  order: from its command on the command register is the caller's own, BUSY is clear
  once the poll was left by an answer, and what the switch read is still in the data
  register; `IdleBetweenCalls` and `FreshRead` follow. `StartInv` adds, for the program's order,
  that the switch is idle whenever a function that does not look gives a command, and
  that the data register holds the driver's value while its write waits for the switch; `CommandsApart` and
  `WrittenValues` (`DriverWritesArrive`) follow.
* `Board_proofs`, serial line (buffer of 1 to 2^14 bytes). The word is a count below the buffer's size with
  no flag, bit 14, or both flags (`SerialTypes`, `CountAndFlags`); and the line so far is the last
  bytes received, none of them CR, that many places back (`CompleteLine`: `LineExact`).
* `Board_proofs`, clock (any tick, interval, and wrap larger than both together). `NeverEarly` alone is
  not inductive: it needs how far the counter can be ahead. `NotAhead`: its distance from `ARPTimer`,
  modulo the wrap, and the tick that is pending are at most the time that passed and one tick, as
  long as the history of time is not full. `Advanced` is the step of that distance in modular
  arithmetic. Theorem: `NotBeforeItsTime`.
* `Stack_proofs`, ARP table (any table, hosts, and more pbufs than entries; `ArpAssumption` orders the
  ages). Beside types and uniqueness, which hold whatever clashes: what an entry holds
  while `etharp_tmr` stands at each of its places (`PlaceInv`), that only the entry it looks at
  can have reached `ARP_MAXAGE` (`AgeInv`), that a stable entry is its host's (`StableInv`) and that
  pbufs and entries that hold one correspond (`HeldInv`). Theorems: `TableKept`, `RightAddress`,
  `PacketsHeld`, `OldestGivenUp`.
* `Stack_proofs`, reassembly (any fragments that are not empty, any limits with
  `MaxPbufs < PoolSize`, as in this program). `ReassInv`: the list
  is `Orderly`, that is, no datagram is in it twice and each is a `Chain`, sorted by strictly
  increasing offset, with the header of its first fragment and, once a last fragment was seen,
  its end; that fragment is in the chain if the datagram is cut in one way, even when a
  duplicate of it was thrown away (`ThrownAwayIsThere`). Sorted chains make `Place`, which counts, the
  length of a prefix (`PlaceIsPassed`), and so the joint that the validation leaves out the one
  in front of the new fragment. The count is a sum over sequences; it stays exact even when a
  freed datagram stays linked. Making room is a fold of turns over a state: `RemovalKeeps`
  says that what every turn keeps the fold keeps, and what the turns keep is `Shrunk`: what
  is left are the first `c` datagrams and, if it was further back, the fragment's own one
  (`Kept`). From the same description follow `ReassGivesUpOldest` and `ReassBreaksOnlyForOldest`, which says
  exactly when what `reass_unlinked` finds can happen; `ReassDelivers` is `DeliveredInOrder`.
  The latter holds for lists of any length only as it is stated now: that the broken list has
  just two datagrams left, as one would say of three structs, is false from four on.
* `Mem_proofs` (any heap, struct and least block). The invariant is the shape of the heap up to
  what main has not finished: one block's `prev` may be unset (`Unset`), the freed block
  and the one before it may both be free next to each other (`Exempt`), and `lfree` may be above
  the block just freed or, once an update of it was lost, above any but the one it was last compared for
  (`Late`, `Low`); `Place` says which, for each of the places of `mem_free`; and
  `Scanning` says what `mem_malloc` has ruled out. Lemmas about the heap operators alone
  (`MarkGood`, `MergeGood`, `SplitGood`, `MoveGood`, ...) say what each does to that shape, so that
  the interrupt's one-step `mem_free` and main's are proved from the same ones; `Away` shows
  that a block the interrupt may touch without a clash is none of the unfinished.
  Theorems: `HeapKept`, `FindsTheFirst`; both say of `lfree` and of a refusal what is true: that it is the
  lowest, and that nothing fits, unless an update was lost (`mem_lfree`), and what is left of it then.

Only model-checked: all liveness, which needs fairness and ENABLED, out of TLAPS's reach; and
the five findings, which are counterexamples. What a fold computes is proved where it is a sum or
keeps an invariant; an induction over lists as such cannot be instantiated for the
installed provers, so it is done over finite sets of their places.

## 5. What is not modelled, and why

* **IP and ICMP** check headers and checksums and answer echoes; they keep no state between
  packets. Seen here as a consumer of frames.
* **Pools and pbufs** (`memp.c`, `pbuf.c`): once the system is up only the interrupt uses them, and
  nothing interrupts it; that an allocation may fail is in `EthRx`, `EthTx` and `ArpTable`.
* **TCP, UDP, DHCP and the sequential API** are compiled out.
* **`ETH_Init`'s MAC registers, `ETH_MACDMA_Config`, `switch_default_config` and the GPIO helpers** are
  fixed sequences of register writes whose results are ignored. That
  `RegValue & PHY_SPEED_STATUS == 0` (`stm32f4x7_eth.c:447`) is always 0 is a precedence error a model
  would only repeat.
* **The vendor's switch driver**, two thirds of the repository, is used in a handful of calls,
  of which the accesses to PHY registers and the search for the switch are modelled. The
  rest sets fields of switch registers through single MDIO transfers and keeps no
  state. Most of it has no caller in this program. Together with the peripheral library
  and lwIP's unused parts this is why the map covers a small share of the
  repository's lines.
* **`delay_ms`** is arithmetic on SysTick counts; that its clock changes under it (`mv88e6xx.c:43`)
  is listed as a hazard.
* **What happens after a clash** (`ArpTable`, `Mem`) or after the list broke (`IpReass`): the
  code's own structures are damaged then, and the models stop. The interleavings that clash are hazards
  that no property covers, and are listed so (`mem.c:343`, `etharp.c:185,231`).
* **How long an ARP entry stays**: the model has the update of `ctime` that is lost between its read and its
  write (`etharp.c:218`), but no property speaks of an entry that expires early for it.
* **A switch that never ends a command** (`stm32f4x7_eth.c:2962`) is excluded by the fairness of
  `SwitchStart`, and a driver's access that runs out and is taken for a success (`gtHwCntl.c:2842`) is in
  `PhySmi` without a property against it.

Hazards that no property covers carry a note in `PROJECT.json`.

## 6. Plan

1. The BUSY protocols of the address and VLAN tables (`gtBrgFdb.c`, `gtBrgVtu.c`), once the program
   calls them after start-up.

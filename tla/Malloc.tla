------------------------------- MODULE Malloc -------------------------------
(***************************************************************************)
(* The block allocator of USER/MALLOC/malloc.c, one pool.                  *)
(*                                                                         *)
(* memmap is the management table: memmap[i] is 0 for a free block and the *)
(* length of its region for every block of a granted one.  A request scans *)
(* the table from its last entry down, counting consecutive free blocks,   *)
(* and takes the first run that is long enough; the scan is modelled one   *)
(* table entry per step, so that its invariant can be stated and proved.   *)
(*                                                                         *)
(* A pointer is the number of the block it points to (the code's           *)
(* (ptr - membase) / memblksize), NULL, or a block number past the pool    *)
(* for a pointer outside it.  held is a history variable: the regions the  *)
(* callers own.  The pool is only used from the main thread (lwip_comm.c   *)
(* and mv88e6xx.c at boot), so calls do not overlap.                       *)
(*                                                                         *)
(* The table is in RAM that nothing clears before my_mem_init (pool SRAMEX *)
(* lives in external SRAM), so its first contents are any words of Junk.   *)
(***************************************************************************)
EXTENDS Integers, FiniteSetsExt

CONSTANTS NBlocks,  \* memtblsize: entries of the management table
          BlkSize,  \* memblksize: bytes in a block
          Sizes,    \* sizes in bytes the callers ask for
          Junk,     \* words the table may hold before it is initialised
          NULL

ASSUME PoolAssumption == NBlocks \in Nat \ {0} /\ BlkSize \in Nat \ {0}
ASSUME JunkAssumption == Junk \subseteq Nat
ASSUME NULLAssumption == NULL \notin Int

U16 == 65536

Blocks == 0 .. NBlocks - 1

VARIABLES memmap, memrdy,   \* the pool's table and its ready flag
          held,             \* history: the regions granted and not yet freed
          op, nmemb, old,   \* the call in progress: which, blocks needed, old region
          offset, cmemb     \* the scan: next entry to look at, free run above it

callVars == <<op, nmemb, old>>
scanVars == <<offset, cmemb>>
vars == <<memmap, memrdy, held, op, nmemb, old, offset, cmemb>>
-----------------------------------------------------------------------------
(* Blocks a request of size bytes needs: rounded up, kept in a u16. *)
NMemb(size) == ((size \div BlkSize) + (IF size % BlkSize # 0 THEN 1 ELSE 0)) % U16

(* No caller asks for so much that the u16 block count wraps to 0: the pools *)
(* hold at most 6144 blocks and every request is a fixed buffer size.        *)
ASSUME SizesAssumption ==
    /\ Sizes \subseteq Nat
    /\ \A s \in Sizes : s > 0 => NMemb(s) > 0

Cleared == [b \in Blocks |-> 0]

\* Mutation: the marking loop stops one block early.
MarkShort(map, b, n) == [x \in Blocks |-> IF b <= x /\ x < b + n - 1 THEN n ELSE map[x]]

Mark(map, b, n) == [x \in Blocks |-> IF b <= x /\ x < b + n THEN n ELSE map[x]]

\* Mutation: the clearing loop stops one block early.
UnmarkShort(map, b) == [x \in Blocks |-> IF b <= x /\ x < b + map[b] - 1 THEN 0 ELSE map[x]]

(* my_mem_free's loop: the length is read from the table entry of the block. *)
Unmark(map, b) == [x \in Blocks |-> IF b <= x /\ x < b + map[b] THEN 0 ELSE map[x]]

my_mem_perused == (Cardinality({b \in Blocks : memmap[b] # 0}) * 100) \div NBlocks
-----------------------------------------------------------------------------
Init ==
    /\ memmap \in [Blocks -> Junk]
    /\ memrdy = FALSE
    /\ held = [b \in Blocks |-> 0]
    /\ op = "none"
    /\ nmemb = 0
    /\ old = NULL
    /\ offset = -1
    /\ cmemb = 0

(* main() initialises the internal pool once; the external one is left to   *)
(* the first call that needs it.                                            *)
my_mem_init ==
    /\ op = "none"
    /\ ~memrdy
    /\ memmap' = Cleared
    /\ memrdy' = TRUE
    /\ UNCHANGED <<held, callVars, scanVars>>

\* Mutation: the table is not initialised on demand.
EnterNoInit(o, size, p) ==
    /\ op = "none"
    /\ op' = o
    /\ nmemb' = NMemb(size)
    /\ old' = p
    /\ offset' = NBlocks - 1
    /\ cmemb' = 0
    /\ memrdy' = TRUE
    /\ UNCHANGED <<memmap, held>>

\* Mutation: the scan misses the last entry of the table.
EnterBelowTop(o, size, p) ==
    /\ op = "none"
    /\ memmap' = IF memrdy THEN memmap ELSE Cleared
    /\ memrdy' = TRUE
    /\ op' = o
    /\ nmemb' = NMemb(size)
    /\ old' = p
    /\ offset' = NBlocks - (IF NBlocks > 1 THEN 2 ELSE 1)
    /\ cmemb' = 0
    /\ UNCHANGED held

(* my_mem_malloc up to its loop, with the initialisation it makes on demand. *)
Enter(o, size, p) ==
    /\ op = "none"
    /\ memmap' = IF memrdy THEN memmap ELSE Cleared
    /\ memrdy' = TRUE
    /\ op' = o
    /\ nmemb' = NMemb(size)
    /\ old' = p
    /\ offset' = NBlocks - 1
    /\ cmemb' = 0
    /\ UNCHANGED held

mymalloc(size) == Enter("malloc", size, NULL)

myrealloc(p, size) ==
    /\ p = NULL \/ (p \in Blocks /\ held[p] # 0)
    /\ Enter("realloc", size, p)

(* size == 0: nothing is allocated, and a reallocation keeps the old region. *)
ReturnEmpty ==
    /\ op # "none"
    /\ nmemb = 0
    /\ op' = "none"
    /\ UNCHANGED <<memmap, memrdy, held, nmemb, old, scanVars>>

Scanning == op # "none" /\ nmemb > 0 /\ offset >= 0

ScanUsed ==
    /\ Scanning
    /\ memmap[offset] # 0
    /\ cmemb' = 0
    /\ offset' = offset - 1
    /\ UNCHANGED <<memmap, memrdy, held, callVars>>

ScanFree ==
    /\ Scanning
    /\ memmap[offset] = 0
    /\ cmemb + 1 # nmemb
    /\ cmemb' = cmemb + 1
    /\ offset' = offset - 1
    /\ UNCHANGED <<memmap, memrdy, held, callVars>>

(* The run is long enough: its blocks are marked and its first block is the  *)
(* result.  myrealloc then copies the data and frees the old region.         *)
Found ==
    /\ Scanning
    /\ memmap[offset] = 0
    /\ cmemb + 1 = nmemb
    /\ LET marked == Mark(memmap, offset, nmemb)
           granted == [held EXCEPT ![offset] = nmemb]
       IN  /\ memmap' = IF old = NULL THEN marked ELSE Unmark(marked, old)
           /\ held' = IF old = NULL THEN granted ELSE [granted EXCEPT ![old] = 0]
    /\ op' = "none"
    /\ UNCHANGED <<memrdy, nmemb, old, scanVars>>

\* Mutation: the loop's condition is offset > 0.
NotFoundEarly ==
    /\ op # "none"
    /\ nmemb > 0
    /\ offset <= 0
    /\ op' = "none"
    /\ UNCHANGED <<memmap, memrdy, held, nmemb, old, scanVars>>

(* The table is exhausted: 0XFFFFFFFF, and a reallocation keeps the old region. *)
NotFound ==
    /\ op # "none"
    /\ nmemb > 0
    /\ offset < 0
    /\ op' = "none"
    /\ UNCHANGED <<memmap, memrdy, held, nmemb, old, scanVars>>

(* myfree(ptr) by an owner, with NULL, or with a pointer outside the pool;   *)
(* before the pool is ready the code initialises it and frees nothing.       *)
myfree(p) ==
    /\ op = "none"
    /\ IF p = NULL
       THEN UNCHANGED <<memmap, memrdy, held>>
       ELSE IF ~memrdy
       THEN memmap' = Cleared /\ memrdy' = TRUE /\ UNCHANGED held
       ELSE IF p < NBlocks
       THEN /\ memmap' = Unmark(memmap, p)
            /\ held' = [held EXCEPT ![p] = 0]
            /\ UNCHANGED memrdy
       ELSE UNCHANGED <<memmap, memrdy, held>>
    /\ UNCHANGED <<callVars, scanVars>>

(* Pointers a caller may pass to myfree: what it owns, NULL, one past the pool. *)
Freeable == {b \in Blocks : held[b] # 0} \cup {NULL, NBlocks}

Next ==
    \/ my_mem_init
    \/ \E s \in Sizes : mymalloc(s)
    \/ \E s \in Sizes, p \in Blocks \cup {NULL} : myrealloc(p, s)
    \/ ReturnEmpty
    \/ ScanUsed
    \/ ScanFree
    \/ Found
    \/ NotFound
    \/ \E p \in Freeable : myfree(p)

Spec == Init /\ [][Next]_vars
-----------------------------------------------------------------------------
TypeOK ==
    /\ memmap \in [Blocks -> Nat]
    /\ memrdy \in BOOLEAN
    /\ held \in [Blocks -> 0 .. NBlocks]
    /\ op \in {"none", "malloc", "realloc"}
    /\ nmemb \in Nat
    /\ old \in Blocks \cup {NULL}
    /\ offset \in -1 .. NBlocks - 1
    /\ cmemb \in Nat

Disjoint(h) ==
    /\ \A b \in Blocks : b + h[b] <= NBlocks
    /\ \A a, b \in Blocks : a < b /\ h[a] # 0 /\ h[b] # 0 => a + h[a] <= b

(* x is a block of the region that h records at b. *)
In(h, b, x) == h[b] # 0 /\ b <= x /\ x < b + h[b]

Agree(map, h) ==
    /\ \A b, x \in Blocks : In(h, b, x) => map[x] = h[b]
    /\ \A x \in Blocks : map[x] # 0 => \E b \in Blocks : In(h, b, x)

(* No two callers ever own a common block and no region leaves the pool,     *)
(* whatever sequence of allocations, reallocations and frees led here        *)
(* (malloc.c promises nothing in words; every user of a buffer relies on it). *)
RegionsDisjoint == Disjoint(held)

(* The table and the owners agree: a block's entry is the length of the one  *)
(* region it belongs to, and 0 exactly when nobody owns it.  A leaked or a    *)
(* half-freed region shows as a disagreement.                                *)
MapAgrees == memrdy => Agree(memmap, held)

(* my_mem_perused reports exactly the share of the pool the callers own: what *)
(* a caller lost track of, or what was freed twice, would show here.          *)
PerusedExact ==
    memrdy => my_mem_perused
                = (MapThenSumSet(LAMBDA b : held[b], Blocks) * 100) \div NBlocks

NotReadyEmpty == ~memrdy => op = "none" /\ \A b \in Blocks : held[b] = 0

FreeRun(b, n) == b + n <= NBlocks /\ \A x \in Blocks : b <= x /\ x < b + n => memmap[x] = 0

(* The scan: above offset there is a free run of cmemb blocks, it ends at a   *)
(* used block or at the end of the pool, and no base above offset would do.   *)
ScanInv ==
    op # "none" =>
        /\ memrdy
        /\ old # NULL => held[old] # 0
        /\ nmemb > 0 =>
             /\ cmemb < nmemb
             /\ offset + cmemb < NBlocks
             /\ \A x \in Blocks : offset < x /\ x <= offset + cmemb => memmap[x] = 0
             /\ \A x \in Blocks : x = offset + cmemb + 1 => memmap[x] # 0
             /\ \A b \in Blocks : b > offset => ~FreeRun(b, nmemb)

(* What is proved inductive in Malloc_proofs. *)
IInv == TypeOK /\ RegionsDisjoint /\ MapAgrees /\ NotReadyEmpty /\ ScanInv

(* A request is granted at the highest base that has room, judged by the      *)
(* table the call started with: the low end of the pool is kept in one piece. *)
HighestFit ==
    [][\A b \in Blocks : held[b] = 0 /\ held'[b] # 0
          => FreeRun(b, nmemb) /\ \A c \in Blocks : c > b => ~FreeRun(c, nmemb)]_vars

(* The allocator implements the abstract heap: it grants only free runs, it   *)
(* refuses only when no run fits, a failed reallocation keeps the old region. *)
AbstractHeap == INSTANCE Heap WITH want <- nmemb, Wants <- {NMemb(s) : s \in Sizes}

ImplementsHeap == AbstractHeap!Spec
=============================================================================

---------------------------------- MODULE Mem ----------------------------------
(***************************************************************************)
(* lwIP's heap (mem.c): a list of struct mem in one array, each with the   *)
(* offset of the next and of the previous one and a used flag, ended by    *)
(* ram_end; the user data of a block lies between its struct and the next. *)
(* lfree is meant to be the lowest free block.  Offsets and sizes are in   *)
(* units of MEM_ALIGNMENT, and the heap is the record "heap", so that a    *)
(* statement of the code is an operator on it.                             *)
(*                                                                         *)
(* Two contexts use it, and nothing is locked.  The Ethernet interrupt     *)
(* allocates and frees as it likes; nothing preempts it, so its mem_free   *)
(* and mem_trim are one step, and its mem_malloc looks at one block per    *)
(* step only so that the scan can be proved about.  The main thread frees  *)
(* (etharp_tmr, a packet that waited for an address), with interrupts      *)
(* between any two of its accesses that the interrupt could come between   *)
(* to some effect: a store has a step of its own, and so has each load of  *)
(* lfree, which is compared before it is set.  What it reads of mem and of *)
(* the blocks beside it in one condition is one step: a change of those is *)
(* a clash.  Its one allocation, the ARP request of netif_set_up, is left  *)
(* out.                                                                    *)
(*                                                                         *)
(* mem_init runs once, in lwip_init.  That a pointer lies in the heap and  *)
(* is one that was handed out is the callers' part.                        *)
(***************************************************************************)
EXTENDS Integers

CONSTANTS MEM_SIZE,   \* size of the heap
          SIZEOF,     \* of a struct mem
          MIN_SIZE,   \* the smallest block
          Sizes       \* what is asked for

ASSUME MemAssumption ==
    /\ MEM_SIZE \in Nat /\ SIZEOF \in Nat \ {0} /\ MIN_SIZE \in Nat \ {0}
    /\ SIZEOF + MIN_SIZE <= MEM_SIZE
    /\ Sizes \subseteq 1 .. MEM_SIZE

Offsets == 0 .. MEM_SIZE
ram_end == MEM_SIZE

VARIABLES heap,       \* next, prev, used of the struct at each offset, and lfree;
                      \* history: blocks, the offsets that hold a struct
          asked,      \* history: asked[b] is the size asked for the region at b, or 0
          pc,         \* mem_malloc: "idle", "scan" or "adjust"
          size, ptr,  \* its size, and the block it looks at (ptr, then cur)
          main,       \* the main thread's mem_free: where it is,
          mem, other, \* its mem, and its nmem or pmem
          clash,      \* history: the interrupt changed a struct next to mem meanwhile
          lost        \* history: the main thread has raised lfree, over a block that
                      \* the interrupt freed since it was compared

callVars == <<pc, size, ptr>>
mainVars == <<main, mem, other, clash, lost>>
vars == <<heap, asked, callVars, mainVars>>

Aligned(s) == IF s < MIN_SIZE THEN MIN_SIZE ELSE s

Init ==
    /\ heap = [next |-> [b \in Offsets |-> MEM_SIZE],
               prev |-> [b \in Offsets |-> IF b = ram_end THEN MEM_SIZE ELSE 0],
               used |-> [b \in Offsets |-> b = ram_end],
               lfree |-> 0,
               blocks |-> {0, ram_end}]
    /\ asked = [b \in Offsets |-> 0]
    /\ pc = "idle" /\ size = MIN_SIZE /\ ptr = 0
    /\ main = "idle" /\ mem = 0 /\ other = 0
    /\ clash = FALSE /\ lost = FALSE
-----------------------------------------------------------------------------
(* The interrupt. *)

Struct(h, b) == <<h.next[b], h.prev[b], h.used[b], b \in h.blocks>>

Near == {mem, heap.next[mem], heap.prev[mem]}

(* The part of every step of the interrupt: it changes the heap to h. *)
Becomes(h) ==
    /\ ~clash
    /\ heap' = h
    /\ clash' = (main # "idle" /\ \E b \in Near : Struct(h, b) # Struct(heap, b))
    /\ UNCHANGED <<main, mem, other, lost>>

(* The statements of mem_free and plug_holes, on a heap h. *)

MarkFree(h, m) == [h EXCEPT !.used[m] = FALSE]

\* Mutation: lfree is not lowered.
LowerNever(h, m) == h

Lower(h, m) == [h EXCEPT !.lfree = IF m < @ THEN m ELSE @]

(* Block b is joined to the block a before it. *)
MergeLfree(h, a, b) == [h EXCEPT !.lfree = IF @ = b THEN a ELSE @]
MergeNext(h, a, b)  == [h EXCEPT !.next[a] = h.next[b], !.blocks = @ \ {b}]

\* Mutation: the block after b is not told.
MergePrevNever(h, a, b) == h

MergePrev(h, a, b)  == [h EXCEPT !.prev[h.next[b]] = a]

Merge(h, a, b) == MergePrev(MergeNext(MergeLfree(h, a, b), a, b), a, b)

NextFree(h, m) == h.next[m] # m /\ ~h.used[h.next[m]] /\ h.next[m] # ram_end
PrevFree(h, m) == h.prev[m] # m /\ ~h.used[h.prev[m]]

PlugForward(h, m)  == IF NextFree(h, m) THEN Merge(h, m, h.next[m]) ELSE h
PlugBackward(h, m) == IF PrevFree(h, m) THEN Merge(h, h.prev[m], m) ELSE h

plug_holes(h, m) == PlugBackward(PlugForward(h, m), m)

mem_free(b) ==
    /\ pc = "idle"
    /\ asked[b] > 0
    /\ Becomes(plug_holes(Lower(MarkFree(heap, b), b), b))
    /\ asked' = [asked EXCEPT ![b] = 0]
    /\ UNCHANGED callVars
-----------------------------------------------------------------------------
(* A new free struct at b2 between b and the block n; prev of ram_end is not set. *)
Insert(h, b, b2, n) ==
    [next   |-> [h.next EXCEPT ![b2] = n, ![b] = b2],
     prev   |-> [h.prev EXCEPT ![b2] = b, ![n] = IF n = ram_end THEN h.prev[n] ELSE b2],
     used   |-> [h.used EXCEPT ![b2] = FALSE],
     lfree  |-> h.lfree,
     blocks |-> h.blocks \cup {b2}]

Room(h, b) == h.next[b] - (b + SIZEOF)

(* mem_malloc with the loop at its first block. *)
mem_malloc(s) ==
    /\ pc = "idle"
    /\ pc' = "scan"
    /\ size' = Aligned(s)
    /\ ptr' = heap.lfree
    /\ Becomes(heap)
    /\ UNCHANGED asked

InLoop == pc = "scan" /\ ptr < MEM_SIZE - size

\* Mutation: a block counts as large enough without room for its struct.
FitsUnheaded == ~heap.used[ptr] /\ heap.next[ptr] - ptr >= size

Fits == ~heap.used[ptr] /\ Room(heap, ptr) >= size

Skip ==
    /\ InLoop /\ ~Fits
    /\ ptr' = heap.next[ptr]
    /\ Becomes(heap)
    /\ UNCHANGED <<asked, pc, size>>

(* The block is used, whole or split; lfree moves if it was the one. *)
Take ==
    /\ InLoop /\ Fits
    /\ LET h == IF Room(heap, ptr) >= size + SIZEOF + MIN_SIZE
                THEN Insert(heap, ptr, ptr + SIZEOF + size, heap.next[ptr])
                ELSE heap
       IN  Becomes([h EXCEPT !.used[ptr] = TRUE])
    /\ asked' = [asked EXCEPT ![ptr] = size]
    /\ pc' = IF ptr = heap.lfree THEN "adjust" ELSE "idle"
    /\ UNCHANGED <<size, ptr>>

(* NULL is returned. *)
Fail ==
    /\ pc = "scan" /\ ~InLoop
    /\ pc' = "idle"
    /\ Becomes(heap)
    /\ UNCHANGED <<asked, size, ptr>>

(* lfree moves on to the next block that is free, or to ram_end. *)
Adjust ==
    /\ pc = "adjust"
    /\ IF heap.used[ptr] /\ ptr # ram_end
       THEN Becomes(heap) /\ ptr' = heap.next[ptr] /\ UNCHANGED pc
       ELSE Becomes([heap EXCEPT !.lfree = ptr]) /\ pc' = "idle" /\ UNCHANGED ptr
    /\ UNCHANGED <<asked, size>>
-----------------------------------------------------------------------------
\* Mutation: lfree is left on the struct that was moved.
MoveNextStale(h, b, b2, n) ==
    [Insert(h, b, b2, h.next[n]) EXCEPT !.blocks = @ \ {n}]

(* The free struct n after b moves down to b2. *)
MoveNext(h, b, b2, n) ==
    [Insert(h, b, b2, h.next[n]) EXCEPT !.blocks = @ \ {n},
                                        !.lfree = IF @ = n THEN b2 ELSE @]

SplitOff(h, b, b2) ==
    [Insert(h, b, b2, h.next[b]) EXCEPT !.lfree = IF b2 < @ THEN b2 ELSE @]

(* mem_trim: the rest of the block goes to the free block after it, or becomes one *)
(* of its own when it is large enough.                                             *)
mem_trim(b, s) ==
    /\ pc = "idle"
    /\ asked[b] > 0 /\ Aligned(s) < Room(heap, b)
    /\ LET n == heap.next[b]
           b2 == b + SIZEOF + Aligned(s)
       IN  Becomes(IF ~heap.used[n] THEN MoveNext(heap, b, b2, n)
                   ELSE IF Aligned(s) + SIZEOF + MIN_SIZE <= Room(heap, b)
                   THEN SplitOff(heap, b, b2)
                   ELSE heap)
    /\ asked' = [asked EXCEPT ![b] = Aligned(s)]
    /\ UNCHANGED callVars
-----------------------------------------------------------------------------
Interrupt ==
    \/ \E s \in Sizes : mem_malloc(s)
    \/ Skip
    \/ Take
    \/ Fail
    \/ Adjust
    \/ \E b \in Offsets : mem_free(b)
    \/ \E b \in Offsets, s \in Sizes : mem_trim(b, s)
-----------------------------------------------------------------------------
(* The main thread's mem_free, while the interrupt is not running. *)

Step(here, there, h) ==
    /\ pc = "idle" /\ ~clash
    /\ main = here
    /\ main' = there
    /\ heap' = h
    /\ UNCHANGED <<callVars, clash>>

MainFree(b) ==
    /\ asked[b] > 0
    /\ Step("idle", "lower", MarkFree(heap, b))
    /\ mem' = b
    /\ asked' = [asked EXCEPT ![b] = 0]
    /\ UNCHANGED <<other, lost>>

(* The three places that compare lfree and set it in a step of its own: mem may be *)
(* the lowest; the block other after it is, or mem is, and is joined to another.   *)
MainLower ==
    /\ Step("lower", IF mem < heap.lfree THEN "lower_store" ELSE "forward", heap)
    /\ UNCHANGED <<mem, other, asked, lost>>

JoinLfree ==
    /\ \/ Step("f_lfree", IF heap.lfree = other THEN "f_store" ELSE "f_next", heap)
       \/ Step("b_lfree", IF heap.lfree = mem THEN "b_store" ELSE "b_next", heap)
    /\ UNCHANGED <<mem, other, asked, lost>>

Stored == IF main = "b_store" THEN other ELSE mem
Stores == [lower_store |-> "forward", f_store |-> "f_next", b_store |-> "b_next"]

StoreLfree ==
    /\ main \in DOMAIN Stores
    /\ Step(main, Stores[main], [heap EXCEPT !.lfree = Stored])
    /\ lost' = (lost \/ heap.lfree < Stored)
    /\ UNCHANGED <<mem, other, asked>>

(* plug_holes looks at the next block, then at the previous one ... *)
Forward ==
    /\ Step("forward", IF NextFree(heap, mem) THEN "f_lfree" ELSE "backward", heap)
    /\ other' = heap.next[mem]
    /\ UNCHANGED <<mem, asked, lost>>

Backward ==
    /\ Step("backward", IF PrevFree(heap, mem) THEN "b_lfree" ELSE "idle", heap)
    /\ other' = heap.prev[mem]
    /\ UNCHANGED <<mem, asked, lost>>

(* ... and joins the two, after JoinLfree, in two statements. *)
Join ==
    /\ \/ Step("f_next", "f_prev", MergeNext(heap, mem, other))
       \/ Step("f_prev", "backward", MergePrev(heap, mem, other))
       \/ Step("b_next", "b_prev", MergeNext(heap, other, mem))
       \/ Step("b_prev", "idle", MergePrev(heap, other, mem))
    /\ UNCHANGED <<mem, other, asked, lost>>

Main ==
    \/ \E b \in Offsets : MainFree(b)
    \/ MainLower
    \/ JoinLfree
    \/ StoreLfree
    \/ Forward
    \/ Backward
    \/ Join

(* After a clash nothing more is said. *)
Clashed == clash /\ UNCHANGED vars

Next == Interrupt \/ Main \/ Clashed

Spec == Init /\ [][Next]_vars

(* The interrupt as the only user. *)
InterruptSpec == Init /\ [][Interrupt]_vars
-----------------------------------------------------------------------------
MainPlaces == {"idle", "lower", "lower_store", "forward", "f_lfree", "f_store", "f_next",
               "f_prev", "backward", "b_lfree", "b_store", "b_next", "b_prev"}

TypeOK ==
    /\ heap \in [next : [Offsets -> Offsets], prev : [Offsets -> Offsets],
                 used : [Offsets -> BOOLEAN], lfree : Offsets, blocks : SUBSET Offsets]
    /\ asked \in [Offsets -> Offsets]
    /\ pc \in {"idle", "scan", "adjust"} /\ size \in MIN_SIZE .. MEM_SIZE /\ ptr \in Offsets
    /\ main \in MainPlaces /\ mem \in Offsets /\ other \in Offsets
    /\ clash \in BOOLEAN /\ lost \in BOOLEAN

Real == heap.blocks \ {ram_end}

(* No mem_free of the main thread is under way or was disturbed: the interrupt *)
(* allocated and freed in between, but not the block being freed nor the two   *)
(* blocks beside it.                                                           *)
Quiet == main = "idle" /\ ~clash

(* The list covers the heap without a gap, forwards and backwards, and no block is *)
(* too small for its struct and the least data.                                    *)
ListIntact ==
    Quiet =>
       /\ {0, ram_end} \subseteq heap.blocks
       /\ heap.used[ram_end] /\ heap.prev[0] = 0
       /\ \A b \in Real :
             /\ heap.next[b] \in heap.blocks /\ Room(heap, b) >= MIN_SIZE
             /\ \A c \in heap.blocks : ~(b < c /\ c < heap.next[b])
             /\ heap.next[b] # ram_end => heap.prev[heap.next[b]] = b

(* The used blocks are those handed out and not yet freed, and each holds what was *)
(* asked for; with ListIntact, no two callers' regions overlap.                    *)
HeldExact ==
    ~clash =>
       \A b \in Offsets :
          /\ asked[b] > 0 <=> b \in Real /\ heap.used[b]
          /\ asked[b] > 0 => asked[b] <= Room(heap, b)

(* mem.c:228-229, "there should not exist one empty struct mem pointing to another *)
(* empty struct mem", whatever is freed or trimmed in whatever order.              *)
NoTwoFree ==
    Quiet => \A b \in Real : ~heap.used[b] => heap.used[heap.next[b]]

(* lfree is a block of the list, and a free one but for the time it takes to move  *)
(* it on (LWIP_ASSERT("mem_malloc: !lfree->used"), mem.c:612).                     *)
LfreeValid ==
    Quiet =>
       /\ heap.lfree \in heap.blocks
       /\ pc # "adjust" => heap.lfree = ram_end \/ ~heap.used[heap.lfree]

(* mem.c:192, "pointer to the lowest free block": false once the interrupt has     *)
(* freed a block below between the main thread's compare and its store.            *)
LfreeLowest ==
    Quiet => \A b \in Real : ~heap.used[b] => heap.lfree <= b

(* Allocating, freeing, splitting and joining in any order, and the main thread's *)
(* frees in pieces between them, keep the heap in shape; and lfree is the lowest  *)
(* free block for as long as no update of it was lost.                            *)
HeapIntact ==
    TypeOK /\ ListIntact /\ HeldExact /\ NoTwoFree /\ LfreeValid /\ (lost \/ LfreeLowest)

(* Of the blocks from lfree on, and of all of them while no update of lfree was *)
(* lost, NULL is only returned when none is free and large enough, and a block  *)
(* taken is the lowest that is.                                                 *)
TooSmall(b) == heap.used[b] \/ Room(heap, b) < size
Searched == {b \in Real : lost => heap.lfree <= b}

FirstFit ==
    [][Quiet => /\ Fail => \A b \in Searched : TooSmall(b)
                /\ Take => \A b \in Searched : b < ptr => TooSmall(b)]_vars
=============================================================================

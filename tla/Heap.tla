-------------------------------- MODULE Heap --------------------------------
(***************************************************************************)
(* What a block allocator promises its callers, without saying where it    *)
(* looks: one call at a time is outstanding; a grant is a run of blocks    *)
(* that nobody holds; a call is refused only when nothing was asked for or *)
(* no free run of that length exists; a reallocation gives the old region  *)
(* up only when the new one is granted.                                    *)
(*                                                                         *)
(* Malloc.tla, the model of USER/MALLOC/malloc.c, implements it.           *)
(***************************************************************************)
EXTENDS Integers

CONSTANTS NBlocks,  \* blocks in the pool
          Wants,    \* lengths the callers ask for, in blocks
          NULL      \* the null pointer

VARIABLES held,     \* held[b]: length of the region granted at block b, 0 if none
          op,       \* the outstanding call: "none", "malloc" or "realloc"
          want,     \* its length in blocks
          old       \* the region a reallocation replaces, or NULL

vars == <<held, op, want, old>>

Blocks == 0 .. NBlocks - 1

Owns(b, x) == held[b] # 0 /\ b <= x /\ x < b + held[b]

Fits(b, n) ==
    /\ b + n <= NBlocks
    /\ \A x \in Blocks : b <= x /\ x < b + n => \A c \in Blocks : ~Owns(c, x)

Init ==
    /\ held = [b \in Blocks |-> 0]
    /\ op = "none"
    /\ want = 0
    /\ old = NULL

Request(o, n, p) ==
    /\ op = "none"
    /\ p = NULL \/ (o = "realloc" /\ p \in Blocks /\ held[p] # 0)
    /\ op' = o
    /\ want' = n
    /\ old' = p
    /\ UNCHANGED held

Grant(b) ==
    /\ op # "none"
    /\ want > 0
    /\ Fits(b, want)
    /\ held' = [c \in Blocks |-> IF c = b THEN want
                                 ELSE IF c = old THEN 0 ELSE held[c]]
    /\ op' = "none"
    /\ UNCHANGED <<want, old>>

Refuse ==
    /\ op # "none"
    /\ want = 0 \/ \A b \in Blocks : ~Fits(b, want)
    /\ op' = "none"
    /\ UNCHANGED <<held, want, old>>

Free(b) ==
    /\ op = "none"
    /\ held[b] # 0
    /\ held' = [held EXCEPT ![b] = 0]
    /\ UNCHANGED <<op, want, old>>

Next ==
    \/ \E o \in {"malloc", "realloc"}, n \in Wants, p \in Blocks \cup {NULL} : Request(o, n, p)
    \/ \E b \in Blocks : Grant(b)
    \/ Refuse
    \/ \E b \in Blocks : Free(b)

Spec == Init /\ [][Next]_vars
=============================================================================

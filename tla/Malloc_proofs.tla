---------------------------- MODULE Malloc_proofs ----------------------------
(***************************************************************************)
(* Proofs about the block allocator, for every pool size, block size, set  *)
(* of request sizes and initial contents of the table: the inductive       *)
(* invariant IInv, highest fit, the refinement of Heap, and the usage that *)
(* is reported, which is a sum over the grants.                            *)
(***************************************************************************)
EXTENDS Malloc, SetLemmas

(* The block count of a request is a natural number. *)
LEMMA NMembType == \A s \in Sizes : NMemb(s) \in Nat
<1>1. SUFFICES ASSUME NEW s \in Sizes PROVE NMemb(s) \in Nat
  OBVIOUS
<1>2. s \in Int /\ BlkSize \in Int /\ BlkSize > 0
  BY PoolAssumption, SizesAssumption
<1>3. s \div BlkSize \in Int
  BY <1>2
<1>4. (IF s % BlkSize # 0 THEN 1 ELSE 0) \in Int
  OBVIOUS
<1> QED BY <1>3, <1>4 DEF NMemb, U16

(* The null pointer is no block and the table is well-typed once cleared. *)
LEMMA NULLNotBlock == NULL \notin Blocks /\ Cleared \in [Blocks -> Nat]
  BY NULLAssumption, PoolAssumption DEF Blocks, Cleared

(* The table is empty and agrees with no grant when the pool is initialised. *)
LEMMA InitInv == Init => IInv
<1> USE PoolAssumption, JunkAssumption, NULLNotBlock
<1> SUFFICES ASSUME Init PROVE IInv
  OBVIOUS
<1>1. TypeOK
  <2>1. memmap \in [Blocks -> Nat]
    BY DEF Init
  <2>2. held \in [Blocks -> 0 .. NBlocks]
    BY DEF Init
  <2>3. offset \in -1 .. NBlocks - 1
    BY DEF Init
  <2> QED BY <2>1, <2>2, <2>3 DEF Init, TypeOK
<1>2. RegionsDisjoint /\ MapAgrees /\ NotReadyEmpty /\ ScanInv
  BY DEF Init, RegionsDisjoint, Disjoint, MapAgrees, NotReadyEmpty, ScanInv, Blocks
<1> QED BY <1>1, <1>2 DEF IInv

(* Clearing the table before the first use establishes the agreement. *)
LEMMA my_mem_initInv == IInv /\ my_mem_init => IInv'
<1> USE PoolAssumption, NULLNotBlock
<1> SUFFICES ASSUME IInv, my_mem_init PROVE IInv'
  OBVIOUS
<1> USE DEF IInv, my_mem_init, callVars, scanVars
<1>1. TypeOK'
  BY DEF TypeOK
<1>2. RegionsDisjoint'
  BY DEF RegionsDisjoint
<1>3. MapAgrees'
  BY DEF MapAgrees, NotReadyEmpty, Cleared, Agree, In
<1>4. NotReadyEmpty' /\ ScanInv'
  BY DEF NotReadyEmpty, ScanInv
<1> QED BY <1>1, <1>2, <1>3, <1>4

(* Entering a call starts the scan at the top of the pool with an empty run. *)
LEMMA EnterInv ==
  ASSUME NEW o \in {"malloc", "realloc"}, NEW s \in Sizes, NEW p \in Blocks \cup {NULL},
         p # NULL => held[p] # 0, IInv, Enter(o, s, p)
  PROVE  IInv'
<1> USE PoolAssumption, NULLNotBlock
<1> USE DEF IInv, Enter
<1>0. NMemb(s) \in Nat
  BY NMembType
<1>1. TypeOK'
  <2>1. memmap' \in [Blocks -> Nat]
    BY DEF TypeOK
  <2>2. offset' \in -1 .. NBlocks - 1 /\ cmemb' \in Nat
    OBVIOUS
  <2> QED BY <1>0, <2>1, <2>2 DEF TypeOK
<1>2. RegionsDisjoint'
  BY DEF RegionsDisjoint
<1>3. MapAgrees'
  BY DEF MapAgrees, NotReadyEmpty, Cleared, Agree, In
<1>4. NotReadyEmpty'
  BY DEF NotReadyEmpty
<1>5. ScanInv'
  BY <1>0, <1>1 DEF ScanInv, TypeOK, Blocks, FreeRun
<1> QED BY <1>1, <1>2, <1>3, <1>4, <1>5

(* An allocation that ends with NULL leaves the table and the grants alone. *)
LEMMA ReturnInv == IInv /\ (ReturnEmpty \/ NotFound) => IInv'
<1> SUFFICES ASSUME IInv, ReturnEmpty \/ NotFound PROVE IInv'
  OBVIOUS
<1> USE DEF IInv, ReturnEmpty, NotFound, scanVars
<1>1. TypeOK'
  BY DEF TypeOK
<1>2. RegionsDisjoint' /\ MapAgrees'
  BY DEF RegionsDisjoint, MapAgrees
<1>3. NotReadyEmpty' /\ ScanInv'
  BY DEF NotReadyEmpty, ScanInv
<1> QED BY <1>1, <1>2, <1>3

(* A used block ends the run: no base at offset can hold the request. *)
LEMMA ScanUsedInv == IInv /\ ScanUsed => IInv'
<1> USE PoolAssumption, NULLNotBlock
<1> SUFFICES ASSUME IInv, ScanUsed PROVE IInv'
  OBVIOUS
<1> USE DEF IInv, ScanUsed, Scanning, callVars
<1>1. TypeOK'
  BY DEF TypeOK, Blocks
<1>2. RegionsDisjoint' /\ MapAgrees' /\ NotReadyEmpty'
  BY DEF RegionsDisjoint, MapAgrees, NotReadyEmpty
<1>3. ScanInv'
  <2>1. ~FreeRun(offset, nmemb)
    BY DEF ScanInv, TypeOK, Blocks, FreeRun
  <2>2. offset' = offset - 1 /\ offset \in Int /\ cmemb' = 0
    BY DEF TypeOK
  <2>3. \A b \in Blocks : b > offset' => ~FreeRun(b, nmemb)'
    BY <2>1, <2>2 DEF ScanInv, Blocks, FreeRun
  <2> QED BY <2>2, <2>3 DEF ScanInv, TypeOK, Blocks
<1> QED BY <1>1, <1>2, <1>3

(* A free block lengthens the run; the run is still too short, and it ends    *)
(* at a used block or at the end of the pool, so no base at offset will do.    *)
LEMMA ScanFreeInv == IInv /\ ScanFree => IInv'
<1> USE PoolAssumption, NULLNotBlock
<1> SUFFICES ASSUME IInv, ScanFree PROVE IInv'
  OBVIOUS
<1> USE DEF IInv, ScanFree, Scanning, callVars
<1>1. TypeOK'
  BY DEF TypeOK, Blocks
<1>2. RegionsDisjoint' /\ MapAgrees' /\ NotReadyEmpty'
  BY DEF RegionsDisjoint, MapAgrees, NotReadyEmpty
<1>3. ScanInv'
  <2>1. ~FreeRun(offset, nmemb)
    <3>1. CASE offset + cmemb + 1 \in Blocks
      BY <3>1 DEF ScanInv, TypeOK, Blocks, FreeRun
    <3>2. CASE offset + cmemb + 1 \notin Blocks
      BY <3>2 DEF ScanInv, TypeOK, Blocks, FreeRun
    <3> QED BY <3>1, <3>2
  <2>2. /\ offset' = offset - 1 /\ offset \in Int
        /\ cmemb' = cmemb + 1 /\ cmemb \in Nat /\ nmemb \in Nat
    BY DEF TypeOK
  <2>3. \A b \in Blocks : b > offset' => ~FreeRun(b, nmemb)'
    <3>1. \A b \in Blocks : b > offset => ~FreeRun(b, nmemb)
      BY DEF ScanInv
    <3>2. \A b \in Blocks : b > offset' => b > offset \/ b = offset
      BY <2>2 DEF Blocks
    <3>3. \A b \in Blocks : FreeRun(b, nmemb)' = FreeRun(b, nmemb)
      BY DEF FreeRun
    <3> QED BY <2>1, <3>1, <3>2, <3>3
  <2>4. cmemb' < nmemb' /\ offset' + cmemb' < NBlocks
    BY <2>2 DEF ScanInv
  <2>5. \A x \in Blocks : offset' < x /\ x <= offset' + cmemb' => memmap'[x] = 0
    BY <2>2 DEF ScanInv, Blocks
  <2>6. \A x \in Blocks : x = offset' + cmemb' + 1 => memmap'[x] # 0
    BY <2>2 DEF ScanInv, Blocks
  <2> QED BY <2>3, <2>4, <2>5, <2>6 DEF ScanInv
<1> QED BY <1>1, <1>2, <1>3

(* Where the scan stops, the whole run of nmemb blocks is free and unowned. *)
LEMMA FoundRun ==
  ASSUME IInv, Found
  PROVE  /\ offset \in Blocks /\ nmemb \in Nat /\ nmemb > 0
         /\ FreeRun(offset, nmemb)
         /\ \A b \in Blocks : b > offset => ~FreeRun(b, nmemb)
         /\ \A x, c \in Blocks : offset <= x /\ x < offset + nmemb => ~In(held, c, x)
<1> USE PoolAssumption DEF IInv, Found, Scanning
<1>1. offset \in Blocks /\ nmemb \in Nat /\ nmemb > 0 /\ offset + nmemb <= NBlocks
  BY DEF TypeOK, ScanInv, Blocks
<1>2. \A x \in Blocks : offset <= x /\ x < offset + nmemb => memmap[x] = 0
  <2>1. cmemb \in Nat /\ nmemb = cmemb + 1 /\ memmap[offset] = 0
    BY DEF TypeOK
  <2>2. \A x \in Blocks : offset < x /\ x <= offset + cmemb => memmap[x] = 0
    BY DEF ScanInv
  <2>3. \A x \in Blocks : offset <= x /\ x < offset + nmemb
           => x = offset \/ (offset < x /\ x <= offset + cmemb)
    BY <1>1, <2>1 DEF Blocks
  <2> QED BY <2>1, <2>2, <2>3
<1>3. FreeRun(offset, nmemb)
  BY <1>1, <1>2 DEF FreeRun
<1>4. \A x, c \in Blocks : offset <= x /\ x < offset + nmemb => ~In(held, c, x)
  BY <1>2 DEF MapAgrees, Agree, In, ScanInv
<1>5. \A b \in Blocks : b > offset => ~FreeRun(b, nmemb)
  BY DEF ScanInv
<1> QED BY <1>1, <1>3, <1>4, <1>5

(* Marking a free run as the region of its first block keeps table and owners *)
(* in agreement.                                                              *)
LEMMA MarkAgrees ==
  ASSUME NEW map \in [Blocks -> Nat], NEW h \in [Blocks -> 0 .. NBlocks],
         Disjoint(h), Agree(map, h),
         NEW b \in Blocks, NEW n \in Nat, n > 0, b + n <= NBlocks,
         \A x \in Blocks : b <= x /\ x < b + n => map[x] = 0
  PROVE  /\ Mark(map, b, n) \in [Blocks -> Nat]
         /\ [h EXCEPT ![b] = n] \in [Blocks -> 0 .. NBlocks]
         /\ Disjoint([h EXCEPT ![b] = n])
         /\ Agree(Mark(map, b, n), [h EXCEPT ![b] = n])
<1> USE PoolAssumption
<1> DEFINE m2 == Mark(map, b, n)
           h2 == [h EXCEPT ![b] = n]
<1>1. m2 \in [Blocks -> Nat] /\ \A x \in Blocks : m2[x] = IF b <= x /\ x < b + n THEN n ELSE map[x]
  BY DEF Mark
<1>2. h2 \in [Blocks -> 0 .. NBlocks] /\ h2[b] = n /\ \A c \in Blocks : c # b => h2[c] = h[c]
  BY DEF Blocks
<1>3. \A c, x \in Blocks : In(h, c, x) => ~(b <= x /\ x < b + n)
  BY DEF Agree, In
<1>4. Disjoint(h2)
  <2>1. \A c \in Blocks : c + h2[c] <= NBlocks
    BY <1>2 DEF Disjoint
  <2>2. ASSUME NEW c \in Blocks, NEW d \in Blocks, c < d, h2[c] # 0, h2[d] # 0
        PROVE  c + h2[c] <= d
    <3>1. CASE c # b /\ d # b
      BY <1>2, <2>2, <3>1 DEF Disjoint
    <3>2. CASE c = b
      <4>1. In(h, d, d)
        BY <1>2, <2>2, <3>2 DEF In, Blocks
      <4> QED BY <1>2, <1>3, <2>2, <3>2, <4>1 DEF Blocks
    <3>3. CASE d = b
      <4>1. ~In(h, c, b)
        BY <1>3 DEF Blocks
      <4> QED BY <1>2, <2>2, <3>3, <4>1 DEF In, Blocks
    <3> QED BY <3>1, <3>2, <3>3
  <2> QED BY <2>1, <2>2 DEF Disjoint
<1>5. Agree(m2, h2)
  <2>1. ASSUME NEW c \in Blocks, NEW x \in Blocks, In(h2, c, x) PROVE m2[x] = h2[c]
    <3>1. CASE c = b
      BY <1>1, <1>2, <2>1, <3>1 DEF In
    <3>2. CASE c # b
      BY <1>1, <1>2, <1>3, <2>1, <3>2 DEF In, Agree
    <3> QED BY <3>1, <3>2
  <2>2. ASSUME NEW x \in Blocks, m2[x] # 0 PROVE \E c \in Blocks : In(h2, c, x)
    <3>1. CASE b <= x /\ x < b + n
      BY <1>2, <3>1 DEF In
    <3>2. CASE ~(b <= x /\ x < b + n)
      <4>1. map[x] # 0
        BY <1>1, <2>2, <3>2
      <4>2. PICK c \in Blocks : In(h, c, x)
        BY <4>1 DEF Agree
      <4>3. c # b
        <5>1. SUFFICES ASSUME c = b PROVE FALSE
          OBVIOUS
        <5>2. In(h, b, b)
          BY <4>2, <5>1 DEF In, Blocks
        <5> QED BY <1>3, <5>2 DEF Blocks
      <4> QED BY <1>2, <4>2, <4>3 DEF In
    <3> QED BY <3>1, <3>2
  <2> QED BY <2>1, <2>2 DEF Agree
<1> QED BY <1>1, <1>2, <1>4, <1>5

(* Unmarking a region by the length stored in the table frees exactly it. *)
LEMMA UnmarkAgrees ==
  ASSUME NEW map \in [Blocks -> Nat], NEW h \in [Blocks -> 0 .. NBlocks],
         Disjoint(h), Agree(map, h), NEW p \in Blocks, h[p] # 0
  PROVE  /\ Unmark(map, p) \in [Blocks -> Nat]
         /\ [h EXCEPT ![p] = 0] \in [Blocks -> 0 .. NBlocks]
         /\ Disjoint([h EXCEPT ![p] = 0])
         /\ Agree(Unmark(map, p), [h EXCEPT ![p] = 0])
<1> USE PoolAssumption
<1> DEFINE m2 == Unmark(map, p)
           h2 == [h EXCEPT ![p] = 0]
<1>1. map[p] = h[p]
  BY DEF Agree, In, Blocks
<1>2. m2 \in [Blocks -> Nat] /\ \A x \in Blocks : m2[x] = IF p <= x /\ x < p + h[p] THEN 0 ELSE map[x]
  BY <1>1 DEF Unmark
<1>3. h2 \in [Blocks -> 0 .. NBlocks] /\ h2[p] = 0 /\ \A c \in Blocks : c # p => h2[c] = h[c]
  BY DEF Blocks
<1> HIDE DEF m2, h2
<1>0. /\ \A c \in Blocks : c + h[c] <= NBlocks
      /\ \A c, d \in Blocks : c < d /\ h[c] # 0 /\ h[d] # 0 => c + h[c] <= d
  BY DEF Disjoint
<1>4. Disjoint(h2)
  <2>1. ASSUME NEW c \in Blocks PROVE c + h2[c] <= NBlocks
    <3>1. CASE c = p
      BY <1>3, <3>1 DEF Blocks
    <3>2. CASE c # p
      BY <1>0, <1>3, <3>2
    <3> QED BY <3>1, <3>2
  <2>2. ASSUME NEW c \in Blocks, NEW d \in Blocks, c < d, h2[c] # 0, h2[d] # 0
        PROVE  c + h2[c] <= d
    BY <1>0, <1>3, <2>2
  <2> QED BY <2>1, <2>2 DEF Disjoint
<1>5. ASSUME NEW c \in Blocks, NEW x \in Blocks, In(h2, c, x) PROVE m2[x] = h2[c]
  <2>1. c # p /\ In(h, c, x)
    BY <1>3, <1>5 DEF In
  <2>2. ~(p <= x /\ x < p + h[p])
    <3>1. h[c] # 0 /\ c <= x /\ x < c + h[c]
      BY <2>1 DEF In
    <3>2. c \in Int /\ p \in Int /\ x \in Int /\ h[c] \in Int /\ h[p] \in Int
      BY DEF Blocks
    <3>3. CASE c < p
      <4>1. c + h[c] <= p
        BY <1>0, <3>1, <3>3
      <4> QED BY <3>1, <3>2, <4>1
    <3>4. CASE p < c
      <4>1. p + h[p] <= c
        BY <1>0, <3>1, <3>4
      <4> QED BY <3>1, <3>2, <4>1
    <3> QED BY <2>1, <3>2, <3>3, <3>4
  <2> QED BY <1>2, <1>3, <2>1, <2>2 DEF Agree
<1>6. ASSUME NEW x \in Blocks, m2[x] # 0 PROVE \E c \in Blocks : In(h2, c, x)
  <2>1. map[x] # 0 /\ ~(p <= x /\ x < p + h[p])
    BY <1>2, <1>6
  <2>2. PICK c \in Blocks : In(h, c, x)
    BY <2>1 DEF Agree
  <2> QED BY <1>3, <2>1, <2>2 DEF In
<1>7. Agree(m2, h2)
  BY <1>5, <1>6 DEF Agree
<1> QED BY <1>2, <1>3, <1>4, <1>7 DEF m2, h2

(* Granting: the free run found is marked, and a reallocation then frees the  *)
(* region it replaces, which is another one.                                  *)
LEMMA FoundInv == IInv /\ Found => IInv'
<1> SUFFICES ASSUME IInv, Found PROVE IInv'
  OBVIOUS
<1> DEFINE marked  == Mark(memmap, offset, nmemb)
           granted == [held EXCEPT ![offset] = nmemb]
<1>1. /\ memmap \in [Blocks -> Nat] /\ held \in [Blocks -> 0 .. NBlocks]
      /\ Disjoint(held) /\ Agree(memmap, held) /\ memrdy = TRUE
      /\ old \in Blocks \cup {NULL} /\ (old # NULL => held[old] # 0)
  BY DEF IInv, TypeOK, RegionsDisjoint, MapAgrees, ScanInv, Found, Scanning
<1>2. /\ offset \in Blocks /\ nmemb \in Nat /\ nmemb > 0 /\ offset + nmemb <= NBlocks
      /\ \A x \in Blocks : offset <= x /\ x < offset + nmemb => memmap[x] = 0
  BY FoundRun DEF FreeRun
<1>3. /\ marked \in [Blocks -> Nat] /\ granted \in [Blocks -> 0 .. NBlocks]
      /\ Disjoint(granted) /\ Agree(marked, granted)
  BY <1>1, <1>2, MarkAgrees
<1>4. /\ memmap' \in [Blocks -> Nat] /\ held' \in [Blocks -> 0 .. NBlocks]
      /\ Disjoint(held') /\ Agree(memmap', held')
  <2>1. CASE old = NULL
    BY <1>3, <2>1 DEF Found
  <2>2. CASE old # NULL
    <3>1. old \in Blocks /\ old # offset
      <4>1. old \in Blocks /\ In(held, old, old)
        BY <1>1, <2>2 DEF In, Blocks
      <4>2. memmap[old] # 0
        BY <1>1, <4>1 DEF Agree, In
      <4> QED BY <4>1, <4>2 DEF Found
    <3>2. granted[old] # 0
      BY <1>1, <2>2, <3>1
    <3>3. memmap' = Unmark(marked, old) /\ held' = [granted EXCEPT ![old] = 0]
      BY <2>2 DEF Found
    <3> HIDE DEF marked, granted
    <3> QED BY <1>3, <3>1, <3>2, <3>3, UnmarkAgrees
  <2> QED BY <2>1, <2>2
<1>5. TypeOK'
  BY <1>4 DEF IInv, TypeOK, Found, scanVars
<1>6. RegionsDisjoint' /\ MapAgrees'
  BY <1>4 DEF RegionsDisjoint, MapAgrees
<1>7. NotReadyEmpty' /\ ScanInv'
  BY <1>1 DEF Found, NotReadyEmpty, ScanInv
<1> QED BY <1>5, <1>6, <1>7 DEF IInv

(* Freeing an owned region, and the frees that change nothing. *)
LEMMA myfreeInv ==
  ASSUME NEW p \in Freeable, IInv, myfree(p)
  PROVE  IInv'
<1> USE PoolAssumption
<1>1. CASE p = NULL
  <2> UNCHANGED vars
    BY <1>1 DEF myfree, vars, callVars, scanVars
  <2> QED BY DEF IInv, TypeOK, RegionsDisjoint, MapAgrees, NotReadyEmpty, ScanInv, FreeRun, vars
<1>2. CASE p # NULL /\ ~memrdy
  <2>1. my_mem_init
    BY <1>2 DEF myfree, my_mem_init
  <2> QED BY <2>1, my_mem_initInv
<1>3. CASE p # NULL /\ memrdy /\ p = NBlocks
  <2>1. ~(p < NBlocks)
    BY <1>3
  <2> UNCHANGED vars
    BY <1>3, <2>1, Zenon DEF myfree, vars, callVars, scanVars
  <2> QED BY DEF IInv, TypeOK, RegionsDisjoint, MapAgrees, NotReadyEmpty, ScanInv, FreeRun, vars
<1>4. CASE p # NULL /\ memrdy /\ p \in Blocks /\ held[p] # 0
  <2>1. /\ memmap' = Unmark(memmap, p) /\ held' = [held EXCEPT ![p] = 0]
        /\ UNCHANGED <<memrdy, op, nmemb, old, offset, cmemb>> /\ op = "none"
    <3>1. p < NBlocks
      BY <1>4 DEF Blocks
    <3> QED BY <1>4, <3>1, Zenon DEF myfree, callVars, scanVars
  <2>2. /\ memmap \in [Blocks -> Nat] /\ held \in [Blocks -> 0 .. NBlocks]
        /\ Disjoint(held) /\ Agree(memmap, held)
    BY <1>4 DEF IInv, TypeOK, RegionsDisjoint, MapAgrees
  <2>3. /\ memmap' \in [Blocks -> Nat] /\ held' \in [Blocks -> 0 .. NBlocks]
        /\ Disjoint(held') /\ Agree(memmap', held')
    BY <1>4, <2>1, <2>2, UnmarkAgrees
  <2>4. TypeOK'
    BY <2>1, <2>3 DEF IInv, TypeOK
  <2> QED BY <1>4, <2>1, <2>3, <2>4
          DEF IInv, RegionsDisjoint, MapAgrees, NotReadyEmpty, ScanInv
<1> QED BY <1>1, <1>2, <1>3, <1>4 DEF Freeable

(* Every step keeps the invariant: one case per action. *)
LEMMA NextInv == IInv /\ [Next]_vars => IInv'
<1> SUFFICES ASSUME IInv, [Next]_vars PROVE IInv'
  OBVIOUS
<1>1. CASE my_mem_init
  BY <1>1, my_mem_initInv
<1>2. ASSUME NEW s \in Sizes, mymalloc(s) PROVE IInv'
  BY <1>2, EnterInv DEF mymalloc
<1>3. ASSUME NEW s \in Sizes, NEW p \in Blocks \cup {NULL}, myrealloc(p, s) PROVE IInv'
  BY <1>3, EnterInv DEF myrealloc
<1>4. CASE ReturnEmpty \/ NotFound
  BY <1>4, ReturnInv
<1>5. CASE ScanUsed
  BY <1>5, ScanUsedInv
<1>6. CASE ScanFree
  BY <1>6, ScanFreeInv
<1>7. CASE Found
  BY <1>7, FoundInv
<1>8. ASSUME NEW p \in Freeable, myfree(p) PROVE IInv'
  BY <1>8, myfreeInv
<1>9. CASE UNCHANGED vars
  BY <1>9 DEF IInv, TypeOK, RegionsDisjoint, MapAgrees, NotReadyEmpty, ScanInv, FreeRun, vars
<1> QED BY <1>1, <1>2, <1>3, <1>4, <1>5, <1>6, <1>7, <1>8, <1>9 DEF Next

(* The conjunction of the type invariant, the disjointness of the regions,    *)
(* their agreement with the table and the scan's invariant always holds.      *)
THEOREM Invariance == Spec => []IInv
<1> QED BY InitInv, NextInv, PTL DEF Spec

(* malloc.c's variables keep their types for every pool. *)
THEOREM TypeCorrect == Spec => []TypeOK
<1>1. IInv => TypeOK
  BY DEF IInv
<1> QED BY <1>1, Invariance, PTL

(* No two callers of mymalloc/myrealloc ever own a common block. *)
THEOREM DisjointRegions == Spec => []RegionsDisjoint
<1>1. IInv => RegionsDisjoint
  BY DEF IInv
<1> QED BY <1>1, Invariance, PTL

(* The management table records exactly the regions the callers own. *)
THEOREM TableAgrees == Spec => []MapAgrees
<1>1. IInv => MapAgrees
  BY DEF IInv
<1> QED BY <1>1, Invariance, PTL

(* The blocks of the regions that start below k. *)
OwnedBelow(h, k) == {x \in Blocks : \E b \in Blocks : b < k /\ In(h, b, x)}

(* One more base adds the blocks of its region, which nobody below it owns. *)
LEMMA OwnedNext ==
    ASSUME NEW h \in [Blocks -> 0 .. NBlocks], Disjoint(h), NEW k \in Blocks, NEW n, n = k + 1
    PROVE  /\ IsFiniteSet(OwnedBelow(h, k))
           /\ Cardinality(OwnedBelow(h, n)) = Cardinality(OwnedBelow(h, k)) + h[k]
<1> DEFINE Old == OwnedBelow(h, k)
           New == k .. k + h[k] - 1
<1>1. k \in Nat /\ h[k] \in Nat /\ k + h[k] <= NBlocks /\ NBlocks \in Nat
  BY PoolAssumption DEF Blocks, Disjoint
<1>2. IsFiniteSet(Blocks) /\ Old \subseteq Blocks
  BY <1>1, FS_Interval DEF Blocks, OwnedBelow
<1>3. IsFiniteSet(Old)
  BY <1>2, FS_Subset
<1>4. IsFiniteSet(New) /\ Cardinality(New) = h[k]
  <2>1. k \in Int /\ k + h[k] - 1 \in Int
    BY <1>1
  <2>2. IsFiniteSet(New) /\ Cardinality(New) = IF k > k + h[k] - 1 THEN 0 ELSE (k + h[k] - 1) - k + 1
    BY <2>1, FS_Interval
  <2> QED BY <1>1, <2>2
<1>5. Old \cap New = {}
  <2> SUFFICES ASSUME NEW x \in Old, x \in New PROVE FALSE
    OBVIOUS
  <2>1. PICK b \in Blocks : b < k /\ h[b] # 0 /\ b <= x /\ x < b + h[b]
    BY DEF OwnedBelow, In
  <2>2. h[k] # 0 /\ k <= x
    BY <1>1
  <2>3. b + h[b] <= k
    BY <2>1, <2>2 DEF Disjoint
  <2>4. b \in Int /\ h[b] \in Int /\ x \in Int
    BY <2>1 DEF Blocks, OwnedBelow
  <2> QED BY <1>1, <2>1, <2>2, <2>3, <2>4
<1>6. OwnedBelow(h, n) = Old \cup New
  <2>1. ASSUME NEW x \in OwnedBelow(h, n) PROVE x \in Old \cup New
    <3>1. PICK b \in Blocks : b < n /\ In(h, b, x)
      BY DEF OwnedBelow
    <3>2. x \in Blocks /\ b \in Int /\ x \in Int
      BY DEF OwnedBelow, Blocks
    <3>3. CASE b = k
      BY <1>1, <3>1, <3>2, <3>3 DEF In
    <3>4. CASE b # k
      <4>1. b < k
        BY <1>1, <3>1, <3>2, <3>4
      <4> QED BY <3>1, <3>2, <4>1 DEF OwnedBelow
    <3> QED BY <3>3, <3>4
  <2>2. ASSUME NEW x \in Old PROVE x \in OwnedBelow(h, n)
    <3>1. PICK b \in Blocks : b < k /\ In(h, b, x)
      BY DEF OwnedBelow
    <3>2. x \in Blocks /\ b < n
      BY <1>1, <3>1 DEF OwnedBelow, Blocks
    <3> QED BY <3>1, <3>2 DEF OwnedBelow
  <2>3. ASSUME NEW x \in New PROVE x \in OwnedBelow(h, n)
    <3>1. x \in Blocks /\ In(h, k, x) /\ k < n
      BY <1>1 DEF In, Blocks
    <3> QED BY <3>1 DEF OwnedBelow
  <2> QED BY <2>1, <2>2, <2>3
<1>7. Cardinality(Old \cup New) = Cardinality(Old) + Cardinality(New) - Cardinality(Old \cap New)
  BY <1>3, <1>4, FS_Union
<1>8. Cardinality(Old) \in Nat /\ Cardinality(Old \cap New) = 0
  BY <1>3, <1>5, FS_CardinalityType, FS_EmptySet
<1> HIDE DEF Old, New
<1> QED BY <1>1, <1>3, <1>4, <1>6, <1>7, <1>8 DEF Old

(* The lengths of disjoint regions add up to the blocks in them. *)
LEMMA LengthsAddUp ==
    ASSUME NEW h \in [Blocks -> 0 .. NBlocks], Disjoint(h)
    PROVE  SumOf(h, Blocks) = Cardinality(OwnedBelow(h, NBlocks))
<1> DEFINE P == {k \in Nat : k <= NBlocks => SumOf(h, 0 .. k - 1) = Cardinality(OwnedBelow(h, k))}
<1>1. NBlocks \in Nat
  BY PoolAssumption
<1>2. 0 \in P
  <2>1. 0 .. 0 - 1 = {} /\ OwnedBelow(h, 0) = {}
    BY <1>1 DEF OwnedBelow, Blocks
  <2>2. SumOf(h, 0 .. 0 - 1) = 0 /\ Cardinality(OwnedBelow(h, 0)) = 0
    BY <2>1, SumEmpty, FS_EmptySet
  <2> QED BY <2>2
<1>3. ASSUME NEW k \in P PROVE k + 1 \in P
  <2>1. PICK n : n = k + 1
    OBVIOUS
  <2>2. SUFFICES ASSUME n <= NBlocks PROVE SumOf(h, 0 .. n - 1) = Cardinality(OwnedBelow(h, n))
    BY <2>1
  <2>3. k \in Nat /\ k \in Blocks /\ k <= NBlocks
    BY <1>1, <2>1, <2>2 DEF Blocks
  <2>4. SumOf(h, 0 .. k - 1) = Cardinality(OwnedBelow(h, k))
    BY <2>3
  <2>5. Cardinality(OwnedBelow(h, n)) = Cardinality(OwnedBelow(h, k)) + h[k]
    BY <2>1, <2>3, OwnedNext
  <2>6. SplitsOff(h, 0 .. n - 1, k, 0 .. k - 1)
    <3>1. NatOn(h, 0 .. k)
      BY <1>1, <2>3 DEF Blocks, NatOn
    <3> QED BY <2>1, <2>3, <3>1, SumPrefix
  <2>7. PICK a, b : a = SumOf(h, 0 .. n - 1) /\ b = SumOf(h, 0 .. k - 1)
    OBVIOUS
  <2>8. h[k] \in Nat /\ Cardinality(OwnedBelow(h, k)) \in Nat
    <3>1. IsFiniteSet(OwnedBelow(h, k))
      BY <2>1, <2>3, OwnedNext
    <3> QED BY <1>1, <2>3, <3>1, FS_CardinalityType
  <2>9. a = h[k] + Cardinality(OwnedBelow(h, k))
    BY <2>4, <2>6, <2>7 DEF SplitsOff
  <2>10. a = Cardinality(OwnedBelow(h, n))
    BY <2>5, <2>8, <2>9
  <2> QED BY <2>7, <2>10
<1> HIDE DEF P
<1>4. NBlocks \in P
  <2>1. P \in SUBSET Nat
    BY DEF P
  <2> QED BY <1>1, <1>2, <1>3, <2>1, AllNats
<1> QED BY <1>1, <1>4 DEF P, Blocks

(* What my_mem_perused reports is the share of the pool that the callers own. *)
THEOREM UsageReported == Spec => []PerusedExact
<1>1. IInv => PerusedExact
  <2> SUFFICES ASSUME IInv, memrdy
               PROVE  my_mem_perused = (MapThenSumSet(LAMBDA b : held[b], Blocks) * 100) \div NBlocks
    BY DEF PerusedExact
  <2>1. held \in [Blocks -> 0 .. NBlocks] /\ Disjoint(held) /\ Agree(memmap, held)
    BY DEF IInv, TypeOK, RegionsDisjoint, MapAgrees
  <2>2. OwnedBelow(held, NBlocks) = {b \in Blocks : memmap[b] # 0}
    <3>1. ASSUME NEW x \in Blocks, memmap[x] # 0 PROVE x \in OwnedBelow(held, NBlocks)
      <4>1. PICK b \in Blocks : In(held, b, x)
        BY <2>1, <3>1 DEF Agree
      <4>2. b < NBlocks
        BY PoolAssumption DEF Blocks
      <4> QED BY <4>1, <4>2 DEF OwnedBelow
    <3>2. ASSUME NEW x \in OwnedBelow(held, NBlocks) PROVE x \in Blocks /\ memmap[x] # 0
      <4>1. PICK b \in Blocks : In(held, b, x)
        BY DEF OwnedBelow
      <4>2. x \in Blocks /\ held[b] # 0
        BY <4>1 DEF OwnedBelow, In
      <4> QED BY <2>1, <4>1, <4>2 DEF Agree
    <3> QED BY <3>1, <3>2
  <2>3. MapThenSumSet(LAMBDA b : held[b], Blocks) = SumOf(held, Blocks)
    BY FoldIsSum
  <2>4. SumOf(held, Blocks) = Cardinality({b \in Blocks : memmap[b] # 0})
    BY <2>1, <2>2, LengthsAddUp
  <2> QED BY <2>3, <2>4 DEF my_mem_perused
<1> QED BY <1>1, Invariance, PTL

(* Every grant is at the highest base with room: nothing but the end of a     *)
(* scan makes a base owned, and the scan has ruled out every base above.      *)
THEOREM GrantsHighest == Spec => HighestFit
<1> DEFINE Granting == \A b \in Blocks : held[b] = 0 /\ held'[b] # 0
             => FreeRun(b, nmemb) /\ \A c \in Blocks : c > b => ~FreeRun(c, nmemb)
<1>1. IInv /\ [Next]_vars => [Granting]_vars
  <2> SUFFICES ASSUME IInv, Next, NEW b \in Blocks, held[b] = 0, held'[b] # 0
               PROVE  FreeRun(b, nmemb) /\ \A c \in Blocks : c > b => ~FreeRun(c, nmemb)
    OBVIOUS
  <2>1. held \in [Blocks -> 0 .. NBlocks]
    BY DEF IInv, TypeOK
  <2>2. Found
    <3>1. UNCHANGED held => FALSE
      OBVIOUS
    <3>2. ASSUME NEW p \in Freeable, myfree(p) PROVE FALSE
      <4>1. held' = held \/ held' = [held EXCEPT ![p] = 0]
        BY <3>2 DEF myfree
      <4> QED BY <2>1, <4>1
    <3> QED BY <3>1, <3>2 DEF Next, my_mem_init, mymalloc, myrealloc, Enter, ReturnEmpty,
                              ScanUsed, ScanFree, NotFound
  <2>3. b = offset
    BY <2>1, <2>2 DEF Found
  <2> QED BY <2>2, <2>3, FoundRun
<1> QED BY <1>1, Invariance, PTL DEF Spec, HighestFit

(* A base the table leaves no room at is a base the heap has no room at, and  *)
(* conversely.                                                                *)
LEMMA SameFits ==
  ASSUME IInv, memrdy, NEW b \in Blocks, NEW n \in Nat
  PROVE  FreeRun(b, n) <=> AbstractHeap!Fits(b, n)
<1>1. Agree(memmap, held)
  BY DEF IInv, MapAgrees
<1>2. held \in [Blocks -> 0 .. NBlocks]
  BY DEF IInv, TypeOK
<1>3. \A c, x \in Blocks : In(held, c, x) <=> AbstractHeap!Owns(c, x)
  BY DEF In, AbstractHeap!Owns
<1>4. \A x \in Blocks : memmap[x] = 0 <=> \A c \in Blocks : ~In(held, c, x)
  <2>1. \A c, x \in Blocks : In(held, c, x) => memmap[x] = held[c] /\ held[c] # 0
    BY <1>1 DEF Agree, In
  <2> QED BY <1>1, <2>1 DEF Agree
<1> QED BY <1>3, <1>4 DEF FreeRun, AbstractHeap!Fits, AbstractHeap!Blocks, Blocks

(* malloc.c implements the abstract heap: each step of the code is a step of  *)
(* the heap or changes nothing the callers can see.                           *)
THEOREM Refinement == Spec => ImplementsHeap
<1> USE NULLNotBlock
<1>1. Init => AbstractHeap!Init
  BY DEF Init, AbstractHeap!Init, AbstractHeap!Blocks, Blocks
<1>2. IInv /\ [Next]_vars => [AbstractHeap!Next]_AbstractHeap!vars
  <2> SUFFICES ASSUME IInv, [Next]_vars
               PROVE  AbstractHeap!Next \/ UNCHANGED AbstractHeap!vars
    OBVIOUS
  <2> USE DEF AbstractHeap!Blocks, Blocks
  <2>1. ASSUME NEW s \in Sizes, mymalloc(s) PROVE AbstractHeap!Next
    <3>1. AbstractHeap!Request("malloc", NMemb(s), NULL)
      BY <2>1 DEF mymalloc, Enter, AbstractHeap!Request
    <3> QED BY <3>1 DEF AbstractHeap!Next
  <2>2. ASSUME NEW s \in Sizes, NEW p \in Blocks \cup {NULL}, myrealloc(p, s)
        PROVE  AbstractHeap!Next
    <3>1. AbstractHeap!Request("realloc", NMemb(s), p)
      BY <2>2 DEF myrealloc, Enter, AbstractHeap!Request
    <3> QED BY <2>2, <3>1 DEF AbstractHeap!Next
  <2>3. CASE ReturnEmpty
    BY <2>3 DEF ReturnEmpty, AbstractHeap!Next, AbstractHeap!Refuse
  <2>4. CASE NotFound
    <3>1. memrdy /\ nmemb \in Nat /\ \A b \in Blocks : ~FreeRun(b, nmemb)
      BY <2>4 DEF NotFound, IInv, TypeOK, ScanInv
    <3>2. \A b \in Blocks : ~AbstractHeap!Fits(b, nmemb)
      BY <3>1, SameFits
    <3> QED BY <2>4, <3>2 DEF NotFound, AbstractHeap!Next, AbstractHeap!Refuse
  <2>5. CASE Found
    <3>1. offset \in Blocks /\ nmemb \in Nat /\ nmemb > 0 /\ FreeRun(offset, nmemb)
      BY <2>5, FoundRun
    <3>2. memrdy /\ held \in [Blocks -> 0 .. NBlocks] /\ old \in Blocks \cup {NULL}
      BY <2>5 DEF Found, Scanning, IInv, TypeOK, ScanInv
    <3>3. AbstractHeap!Fits(offset, nmemb)
      BY <3>1, <3>2, SameFits
    <3>4. old # offset
      BY <2>5 DEF Found, Scanning, IInv, TypeOK, ScanInv, MapAgrees, Agree, In
    <3>5. held' = [c \in Blocks |-> IF c = offset THEN nmemb ELSE IF c = old THEN 0 ELSE held[c]]
      BY <2>5, <3>1, <3>2, <3>4 DEF Found
    <3>6. AbstractHeap!Grant(offset)
      BY <2>5, <3>1, <3>3, <3>5 DEF Found, Scanning, AbstractHeap!Grant
    <3> QED BY <3>1, <3>6 DEF AbstractHeap!Next
  <2>6. ASSUME NEW p \in Freeable, myfree(p)
        PROVE  AbstractHeap!Next \/ UNCHANGED AbstractHeap!vars
    <3>1. CASE held' = held
      BY <2>6, <3>1 DEF myfree, callVars, AbstractHeap!vars
    <3>2. CASE held' # held
      <4>1. p \in Blocks /\ held[p] # 0
        BY <2>6, <3>2, PoolAssumption DEF Freeable, myfree
      <4>2. AbstractHeap!Free(p)
        BY <2>6, <3>2, <4>1 DEF myfree, callVars, AbstractHeap!Free
      <4> QED BY <4>1, <4>2 DEF AbstractHeap!Next
    <3> QED BY <3>1, <3>2
  <2>7. CASE my_mem_init \/ ScanUsed \/ ScanFree \/ UNCHANGED vars
    BY <2>7 DEF my_mem_init, ScanUsed, ScanFree, callVars, vars, AbstractHeap!vars
  <2> QED BY <2>1, <2>2, <2>3, <2>4, <2>5, <2>6, <2>7 DEF Next
<1> QED BY <1>1, <1>2, Invariance, PTL DEF Spec, ImplementsHeap, AbstractHeap!Spec
=============================================================================

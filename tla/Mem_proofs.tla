------------------------------- MODULE Mem_proofs -------------------------------
(***************************************************************************)
(* The heap stays in shape for every size of it and of its structs, and    *)
(* whatever is asked for: with the interrupt allocating, freeing and       *)
(* trimming, and the main thread's mem_free in pieces between, as long as  *)
(* the interrupt leaves alone the block that is freed and the two beside   *)
(* it.                                                                     *)
(***************************************************************************)
EXTENDS Mem, TLAPS

LEMMA Consts ==
    /\ MEM_SIZE \in Nat /\ SIZEOF \in Nat /\ MIN_SIZE \in Nat
    /\ SIZEOF >= 1 /\ MIN_SIZE >= 1 /\ SIZEOF + MIN_SIZE <= MEM_SIZE
    /\ \A s \in Sizes : s \in Nat /\ s >= 1 /\ s <= MEM_SIZE
BY MemAssumption

LEMMA AlignedSize ==
    ASSUME NEW s \in Sizes
    PROVE  Aligned(s) \in MIN_SIZE .. MEM_SIZE /\ Aligned(s) >= s
BY Consts DEF Aligned
-----------------------------------------------------------------------------
(* The shape of a heap, in terms of its arrays.  While the main thread joins *)
(* two blocks the block behind them has a prev that is not yet set; x is     *)
(* that block, or ram_end, of which prev means nothing.                      *)

List(next, prev, used, blocks, x) ==
    /\ next \in [Offsets -> Offsets] /\ prev \in [Offsets -> Offsets]
    /\ used \in [Offsets -> BOOLEAN] /\ blocks \subseteq Offsets
    /\ 0 \in blocks /\ ram_end \in blocks /\ used[ram_end] /\ prev[0] = 0
    /\ \A b \in blocks \ {ram_end} : next[b] \in blocks /\ b + SIZEOF + MIN_SIZE <= next[b]
    /\ \A b \in blocks \ {ram_end}, c \in blocks : c <= b \/ next[b] <= c
    /\ \A b \in blocks \ {ram_end} :
          b # 0 /\ b # x => prev[b] \in blocks \ {ram_end} /\ next[prev[b]] = b

LEMMA OffsetType ==
    /\ \A b \in Offsets : b \in Nat /\ b <= ram_end
    /\ 0 \in Offsets /\ ram_end \in Offsets /\ ram_end = MEM_SIZE /\ ram_end # 0 /\ ram_end \in Nat
    /\ \A b \in Nat : b <= ram_end => b \in Offsets
BY Consts DEF Offsets, ram_end

(* Every block ends above its beginning. *)
LEMMA Ahead ==
    ASSUME NEW next, NEW prev, NEW used, NEW blocks, NEW x, List(next, prev, used, blocks, x),
           NEW b \in blocks \ {ram_end}
    PROVE  /\ b \in Nat /\ b \in Offsets /\ b < ram_end /\ b \in blocks
           /\ next[b] \in Nat /\ next[b] \in Offsets /\ next[b] \in blocks
           /\ b + SIZEOF + MIN_SIZE <= next[b] /\ b < next[b] /\ next[b] <= ram_end
<1>1. b \in Offsets /\ b # ram_end /\ b \in blocks
  BY DEF List
<1>2. next[b] \in blocks /\ b + SIZEOF + MIN_SIZE <= next[b] /\ next[b] \in Offsets
  BY DEF List
<1>3. b \in Nat /\ b <= ram_end /\ next[b] \in Nat /\ next[b] <= ram_end /\ ram_end \in Nat
  BY <1>1, <1>2, OffsetType
<1>4. b < next[b] /\ b < ram_end
  BY <1>1, <1>2, <1>3, Consts
<1> QED BY <1>1, <1>2, <1>3, <1>4

(* What a block knows of the next and of the previous one. *)
LEMMA Neighbours ==
    ASSUME NEW next, NEW prev, NEW used, NEW blocks, NEW x, List(next, prev, used, blocks, x),
           NEW b \in blocks \ {ram_end}
    PROVE  /\ \A c \in blocks \ {ram_end} : next[c] = next[b] => c = b
           /\ next[b] # ram_end /\ next[b] # x => prev[next[b]] = b
           /\ b # 0 /\ b # x => /\ prev[b] \in blocks \ {ram_end} /\ prev[b] < b
                                /\ next[prev[b]] = b
<1>1. ASSUME NEW c \in blocks \ {ram_end}, next[c] = next[b] PROVE c = b
  <2>1. b \in blocks /\ c \in blocks
    OBVIOUS
  <2>2. /\ c <= b \/ next[b] <= c
        /\ b <= c \/ next[c] <= b
    BY <2>1 DEF List
  <2>3. b \in Nat /\ c \in Nat /\ b < next[b] /\ c < next[c] /\ next[b] \in Nat
    BY Ahead
  <2> QED BY <1>1, <2>2, <2>3
<1>2. ASSUME b # 0, b # x PROVE prev[b] \in blocks \ {ram_end} /\ prev[b] < b /\ next[prev[b]] = b
  <2>1. prev[b] \in blocks \ {ram_end} /\ next[prev[b]] = b
    BY <1>2 DEF List
  <2>2. prev[b] < next[prev[b]]
    BY <2>1, Ahead
  <2> QED BY <2>1, <2>2
<1>3. ASSUME next[b] # ram_end, next[b] # x PROVE prev[next[b]] = b
  <2>1. b \in Nat /\ next[b] \in blocks /\ next[b] \in Nat /\ b < next[b]
    BY Ahead
  <2>2. next[b] \in blocks \ {ram_end} /\ next[b] # 0
    BY <1>3, <2>1
  <2>3. prev[next[b]] \in blocks \ {ram_end} /\ next[prev[next[b]]] = next[b]
    BY <1>3, <2>2 DEF List
  <2> QED BY <1>1, <2>3
<1> QED BY <1>1, <1>2, <1>3

(* Two blocks joined: the list is one without the second, but for prev of the block behind. *)
LEMMA JoinList ==
    ASSUME NEW next, NEW prev, NEW used, NEW blocks, NEW x, List(next, prev, used, blocks, x),
           NEW a \in blocks \ {ram_end}, next[a] # ram_end
    PROVE  /\ next[a] \in blocks \ {ram_end} /\ next[next[a]] \in blocks /\ next[a] < next[next[a]]
           /\ x \in {next[a], next[next[a]], ram_end} =>
                 List([next EXCEPT ![a] = next[next[a]]], prev, used, blocks \ {next[a]}, next[next[a]])
           /\ x # next[a] =>
                 List([next EXCEPT ![a] = next[next[a]]], [prev EXCEPT ![next[next[a]]] = a],
                      used, blocks \ {next[a]}, x)
<1>1. PICK b \in blocks \ {ram_end} : b = next[a]
  BY Ahead
<1>2. PICK n \in Offsets : n = next[b]
  BY Ahead
<1>3. /\ a \in Nat /\ b \in Nat /\ n \in Nat /\ a < b /\ b < n /\ n \in blocks
      /\ a + SIZEOF + MIN_SIZE <= b /\ a \in Offsets /\ b \in Offsets
  BY <1>1, <1>2, Ahead
<1>4. PICK nx \in [Offsets -> Offsets] : nx = [next EXCEPT ![a] = n]
  BY <1>3 DEF List
<1>5. /\ next \in [Offsets -> Offsets] /\ prev \in [Offsets -> Offsets]
      /\ used \in [Offsets -> BOOLEAN] /\ blocks \subseteq Offsets
      /\ 0 \in blocks /\ ram_end \in blocks /\ used[ram_end] /\ prev[0] = 0
  BY DEF List
<1>6. nx[a] = n /\ \A c \in Offsets : c # a => nx[c] = next[c]
  BY <1>3, <1>4, <1>5
<1> DEFINE bl == blocks \ {b}
<1>7. 0 \in bl /\ ram_end \in bl /\ bl \subseteq Offsets
  BY <1>3, <1>5
<1>8. ASSUME NEW c \in bl \ {ram_end} PROVE nx[c] \in bl /\ c + SIZEOF + MIN_SIZE <= nx[c]
  <2>1. CASE c = a
    BY <1>3, <1>6, <2>1, Consts
  <2>2. CASE c # a
    <3>1. c \in blocks \ {ram_end} /\ c # b /\ c \in Offsets
      BY <1>5
    <3>2. next[c] # b
      BY <1>1, <2>2, <3>1, Neighbours
    <3>3. next[c] \in blocks /\ c + SIZEOF + MIN_SIZE <= next[c]
      BY <3>1, Ahead
    <3> QED BY <1>6, <2>2, <3>1, <3>2, <3>3
  <2> QED BY <2>1, <2>2
<1>9. ASSUME NEW c \in bl \ {ram_end}, NEW d \in bl PROVE d <= c \/ nx[c] <= d
  <2>1. c \in blocks \ {ram_end} /\ d \in blocks /\ d # b /\ c \in Offsets /\ d \in Nat
    BY <1>5, OffsetType
  <2>2. CASE c = a
    <3>1. d <= a \/ b <= d
      BY <1>1, <2>1 DEF List
    <3>2. d <= b \/ n <= d
      BY <1>2, <2>1 DEF List
    <3> QED BY <1>3, <1>6, <2>1, <2>2, <3>1, <3>2
  <2>3. CASE c # a
    <3>1. d <= c \/ next[c] <= d
      BY <2>1 DEF List
    <3> QED BY <1>6, <2>1, <2>3, <3>1
  <2> QED BY <2>2, <2>3
<1>10. ASSUME NEW c \in bl \ {ram_end}, c # 0, c # x, c # n
       PROVE  prev[c] \in bl \ {ram_end} /\ nx[prev[c]] = c
  <2>1. prev[c] \in blocks \ {ram_end} /\ next[prev[c]] = c
    BY <1>10 DEF List
  <2>2. prev[c] # b /\ prev[c] # a
    BY <1>1, <1>2, <1>10, <2>1
  <2> QED BY <1>5, <1>6, <2>1, <2>2
<1>11. ASSUME x \in {b, n, ram_end} PROVE List(nx, prev, used, bl, n)
  BY <1>4, <1>5, <1>7, <1>8, <1>9, <1>10, <1>11 DEF List
<1>12. ASSUME x # b PROVE List(nx, [prev EXCEPT ![n] = a], used, bl, x)
  <2>1. PICK pv \in [Offsets -> Offsets] : pv = [prev EXCEPT ![n] = a]
    BY <1>3, <1>5
  <2>2. pv[n] = a /\ \A c \in Offsets : c # n => pv[c] = prev[c]
    BY <1>3, <1>5, <2>1
  <2>3. pv[0] = 0
    BY <1>3, <1>5, <2>2
  <2>4. ASSUME NEW c \in bl \ {ram_end}, c # 0, c # x
        PROVE  pv[c] \in bl \ {ram_end} /\ nx[pv[c]] = c
    <3>1. CASE c = n
      BY <1>3, <1>6, <2>2, <3>1
    <3>2. CASE c # n
      BY <1>5, <1>10, <2>2, <2>4, <3>2
    <3> QED BY <3>1, <3>2
  <2>5. List(nx, pv, used, bl, x)
    BY <1>4, <1>5, <1>7, <1>8, <1>9, <2>1, <2>3, <2>4 DEF List
  <2> QED BY <2>1, <2>5
<1> QED BY <1>1, <1>2, <1>3, <1>4, <1>11, <1>12

(* nx and pv are next and prev with b2 linked in between b and n. *)
Spliced(next, prev, nx, pv, b, b2, n) ==
    /\ \A c \in Offsets : nx[c] = IF c = b THEN b2 ELSE IF c = b2 THEN n ELSE next[c]
    /\ \A c \in Offsets \ {ram_end} : pv[c] = IF c = n THEN b2 ELSE IF c = b2 THEN b ELSE prev[c]

(* A new block b2 in b: it lies between b and the block that was behind b. *)
LEMMA InsertList ==
    ASSUME NEW next, NEW prev, NEW used, NEW blocks, NEW x, List(next, prev, used, blocks, x),
           NEW b \in blocks \ {ram_end}, NEW b2 \in Nat,
           b + SIZEOF + MIN_SIZE <= b2, b2 + SIZEOF + MIN_SIZE <= next[b],
           NEW us \in [Offsets -> BOOLEAN], us[ram_end],
           NEW nx \in [Offsets -> Offsets], NEW pv \in [Offsets -> Offsets],
           Spliced(next, prev, nx, pv, b, b2, next[b])
    PROVE  List(nx, pv, us, blocks \cup {b2}, x) /\ b2 \in Offsets \ {ram_end} /\ b2 \notin blocks
<1>1. PICK n \in Offsets : n = next[b]
  BY Ahead
<1>2. /\ b \in Nat /\ n \in Nat /\ b < b2 /\ b2 < n /\ n \in blocks /\ n <= ram_end /\ b \in Offsets
      /\ ram_end \in Nat /\ b2 \in Offsets /\ b2 # ram_end /\ b2 # 0
  <2>1. b \in Nat /\ n \in Nat /\ n \in blocks /\ n <= ram_end /\ b \in Offsets
    BY <1>1, Ahead
  <2>2. b < b2 /\ b2 < n /\ ram_end \in Nat
    BY <1>1, <2>1, Consts, OffsetType
  <2> QED BY <2>1, <2>2, OffsetType
<1>3. /\ next \in [Offsets -> Offsets] /\ prev \in [Offsets -> Offsets] /\ blocks \subseteq Offsets
      /\ 0 \in blocks /\ ram_end \in blocks /\ prev[0] = 0
  BY DEF List
<1>4. b2 \notin blocks
  <2>1. \A c \in blocks : c <= b \/ n <= c
    BY <1>1 DEF List
  <2> QED BY <1>2, <2>1
<1>5. /\ \A c \in Offsets : nx[c] = IF c = b THEN b2 ELSE IF c = b2 THEN n ELSE next[c]
      /\ \A c \in Offsets \ {ram_end} : pv[c] = IF c = n THEN b2 ELSE IF c = b2 THEN b ELSE prev[c]
  <2>1. Spliced(next, prev, nx, pv, b, b2, n)
    BY <1>1
  <2> QED BY <2>1 DEF Spliced
<1>6. nx[b] = b2 /\ nx[b2] = n /\ \A c \in blocks : c # b => nx[c] = next[c]
  BY <1>2, <1>3, <1>4, <1>5
<1>7. pv[0] = 0 /\ pv[b2] = b /\ \A c \in blocks \ {ram_end} : pv[c] = IF c = n THEN b2 ELSE prev[c]
  BY <1>2, <1>3, <1>4, <1>5, OffsetType
<1> DEFINE bl == blocks \cup {b2}
<1>8. ASSUME NEW c \in bl \ {ram_end} PROVE nx[c] \in bl /\ c + SIZEOF + MIN_SIZE <= nx[c]
  <2>1. CASE c = b
    BY <1>6, <2>1
  <2>2. CASE c = b2
    BY <1>1, <1>2, <1>6, <2>2
  <2>3. CASE c # b /\ c # b2
    BY <1>6, <2>3, Ahead
  <2> QED BY <2>1, <2>2, <2>3
<1>9. ASSUME NEW c \in bl \ {ram_end}, NEW d \in bl PROVE d <= c \/ nx[c] <= d
  <2>1. c \in Nat /\ d \in Nat
    BY <1>2, <1>3, OffsetType
  <2>2. \A e \in blocks : e <= b \/ n <= e
    BY <1>1 DEF List
  <2>3. CASE c = b
    BY <1>2, <1>6, <2>1, <2>2, <2>3
  <2>4. CASE c = b2
    BY <1>2, <1>6, <2>1, <2>2, <2>4
  <2>5. CASE c # b /\ c # b2 /\ d # b2
    <3>1. d <= c \/ next[c] <= d
      BY <2>5 DEF List
    <3> QED BY <1>6, <2>5, <3>1
  <2>6. CASE c # b /\ c # b2 /\ d = b2
    <3>1. c \in blocks \ {ram_end} /\ next[c] \in Nat
      BY <2>6, Ahead
    <3>2. b <= c \/ next[c] <= b
      BY <3>1 DEF List
    <3>3. c <= b \/ n <= c
      BY <2>2, <3>1
    <3> QED BY <1>2, <1>6, <2>1, <2>6, <3>1, <3>2, <3>3
  <2> QED BY <2>3, <2>4, <2>5, <2>6
<1>10. ASSUME NEW c \in bl \ {ram_end}, c # 0, c # x PROVE pv[c] \in bl \ {ram_end} /\ nx[pv[c]] = c
  <2>1. CASE c = b2
    BY <1>2, <1>6, <1>7, <2>1
  <2>2. CASE c = n
    BY <1>2, <1>6, <1>7, <1>10, <2>2
  <2>3. CASE c # b2 /\ c # n
    <3>1. c \in blocks \ {ram_end} /\ prev[c] \in blocks \ {ram_end} /\ next[prev[c]] = c
      BY <1>10, <2>3 DEF List
    <3>2. prev[c] # b /\ pv[c] = prev[c]
      BY <1>1, <1>7, <2>3, <3>1
    <3> QED BY <1>6, <3>1, <3>2
  <2> QED BY <2>1, <2>2, <2>3
<1>11. bl \subseteq Offsets /\ 0 \in bl /\ ram_end \in bl
  BY <1>2, <1>3
<1>12. List(nx, pv, us, bl, x)
  BY <1>7, <1>8, <1>9, <1>10, <1>11, <1>5 DEF List
<1> QED BY <1>2, <1>4, <1>12

(* A free block that moves down to b2: joined to b, and split off again. *)
LEMMA MoveList ==
    ASSUME NEW next, NEW prev, NEW used, NEW blocks, NEW x, List(next, prev, used, blocks, x),
           NEW b \in blocks \ {ram_end}, NEW b2 \in Nat, next[b] # ram_end, next[b] # x,
           b + SIZEOF + MIN_SIZE <= b2, b2 < next[b],
           NEW us \in [Offsets -> BOOLEAN], us[ram_end],
           NEW nx \in [Offsets -> Offsets], NEW pv \in [Offsets -> Offsets],
           Spliced(next, prev, nx, pv, b, b2, next[next[b]])
    PROVE  /\ List(nx, pv, us, (blocks \ {next[b]}) \cup {b2}, x)
           /\ b2 \in Offsets \ {ram_end} /\ b2 \notin blocks
<1>1. PICK n \in blocks \ {ram_end} : n = next[b]
  BY Ahead
<1>2. PICK m \in Offsets : m = next[n]
  BY Ahead
<1>3. /\ b \in Nat /\ n \in Nat /\ m \in Nat /\ b < b2 /\ b2 < n /\ n < m /\ m <= ram_end
      /\ n + SIZEOF + MIN_SIZE <= m /\ b \in Offsets /\ n \in Offsets
  <2>1. /\ b \in Nat /\ n \in Nat /\ m \in Nat /\ n < m /\ m <= ram_end
        /\ n + SIZEOF + MIN_SIZE <= m /\ b \in Offsets /\ n \in Offsets
    BY <1>1, <1>2, Ahead
  <2> QED BY <1>1, <2>1, Consts
<1>4. PICK nj \in [Offsets -> Offsets] : nj = [next EXCEPT ![b] = m]
  BY <1>3 DEF List
<1>5. PICK pj \in [Offsets -> Offsets] : pj = [prev EXCEPT ![m] = b]
  BY <1>3 DEF List
<1>6. List(nj, pj, used, blocks \ {n}, x)
  BY <1>1, <1>2, <1>4, <1>5, JoinList
<1>7. /\ nj[b] = m /\ \A c \in Offsets : c # b => nj[c] = next[c]
      /\ \A c \in Offsets : pj[c] = IF c = m THEN b ELSE prev[c]
  BY <1>3, <1>4, <1>5 DEF List
<1>8. b2 + SIZEOF + MIN_SIZE <= nj[b] /\ b \in (blocks \ {n}) \ {ram_end}
  BY <1>3, <1>7, Consts
<1>9. Spliced(nj, pj, nx, pv, b, b2, nj[b])
  BY <1>1, <1>2, <1>7 DEF Spliced
<1>10. List(nx, pv, us, (blocks \ {n}) \cup {b2}, x) /\ b2 \in Offsets \ {ram_end}
  BY <1>6, <1>8, <1>9, InsertList
<1>11. b2 \notin blocks
  <2>1. \A c \in blocks : c <= b \/ n <= c
    BY <1>1 DEF List
  <2> QED BY <1>3, <2>1
<1> QED BY <1>1, <1>10, <1>11

(* Marking blocks does not change the list. *)
LEMMA MarkList ==
    ASSUME NEW next, NEW prev, NEW used, NEW blocks, NEW x, List(next, prev, used, blocks, x),
           NEW us \in [Offsets -> BOOLEAN], us[ram_end]
    PROVE  List(next, prev, us, blocks, x)
BY DEF List
-----------------------------------------------------------------------------
(* The statements of mem_free and mem_malloc on a heap, array by array.      *)

Heaps == [next : [Offsets -> Offsets], prev : [Offsets -> Offsets],
          used : [Offsets -> BOOLEAN], lfree : Offsets, blocks : SUBSET Offsets]

LEMMA HeapType ==
    ASSUME NEW h \in Heaps
    PROVE  /\ h.next \in [Offsets -> Offsets] /\ h.prev \in [Offsets -> Offsets]
           /\ h.used \in [Offsets -> BOOLEAN] /\ h.lfree \in Offsets /\ h.blocks \subseteq Offsets
           /\ h = [next |-> h.next, prev |-> h.prev, used |-> h.used, lfree |-> h.lfree,
                   blocks |-> h.blocks]
BY DEF Heaps

LEMMA HeapMade ==
    ASSUME NEW next \in [Offsets -> Offsets], NEW prev \in [Offsets -> Offsets],
           NEW used \in [Offsets -> BOOLEAN], NEW lfree \in Offsets, NEW blocks \in SUBSET Offsets
    PROVE  [next |-> next, prev |-> prev, used |-> used, lfree |-> lfree, blocks |-> blocks] \in Heaps
BY DEF Heaps

LEMMA MarkFreeFields ==
    ASSUME NEW h \in Heaps, NEW m \in Offsets
    PROVE  /\ MarkFree(h, m) \in Heaps
           /\ MarkFree(h, m).next = h.next /\ MarkFree(h, m).prev = h.prev
           /\ MarkFree(h, m).blocks = h.blocks /\ MarkFree(h, m).lfree = h.lfree
           /\ MarkFree(h, m).used = [h.used EXCEPT ![m] = FALSE]
BY DEF MarkFree, Heaps

LEMMA LowerFields ==
    ASSUME NEW h \in Heaps, NEW m \in Offsets
    PROVE  /\ Lower(h, m) \in Heaps
           /\ Lower(h, m).next = h.next /\ Lower(h, m).prev = h.prev
           /\ Lower(h, m).blocks = h.blocks /\ Lower(h, m).used = h.used
           /\ Lower(h, m).lfree = IF m < h.lfree THEN m ELSE h.lfree
BY DEF Lower, Heaps

LEMMA MergeLfreeFields ==
    ASSUME NEW h \in Heaps, NEW a \in Offsets, NEW b \in Offsets
    PROVE  /\ MergeLfree(h, a, b) \in Heaps
           /\ MergeLfree(h, a, b).next = h.next /\ MergeLfree(h, a, b).prev = h.prev
           /\ MergeLfree(h, a, b).blocks = h.blocks /\ MergeLfree(h, a, b).used = h.used
           /\ MergeLfree(h, a, b).lfree = IF h.lfree = b THEN a ELSE h.lfree
BY DEF MergeLfree, Heaps

LEMMA MergeNextFields ==
    ASSUME NEW h \in Heaps, NEW a \in Offsets, NEW b \in Offsets
    PROVE  /\ MergeNext(h, a, b) \in Heaps
           /\ MergeNext(h, a, b).prev = h.prev /\ MergeNext(h, a, b).used = h.used
           /\ MergeNext(h, a, b).lfree = h.lfree /\ MergeNext(h, a, b).blocks = h.blocks \ {b}
           /\ MergeNext(h, a, b).next = [h.next EXCEPT ![a] = h.next[b]]
<1>1. h.next[b] \in Offsets
  BY HeapType
<1> QED BY <1>1 DEF MergeNext, Heaps

LEMMA MergePrevFields ==
    ASSUME NEW h \in Heaps, NEW a \in Offsets, NEW b \in Offsets
    PROVE  /\ MergePrev(h, a, b) \in Heaps
           /\ MergePrev(h, a, b).next = h.next /\ MergePrev(h, a, b).used = h.used
           /\ MergePrev(h, a, b).lfree = h.lfree /\ MergePrev(h, a, b).blocks = h.blocks
           /\ MergePrev(h, a, b).prev = [h.prev EXCEPT ![h.next[b]] = a]
<1>1. h.next[b] \in Offsets
  BY HeapType
<1> QED BY <1>1 DEF MergePrev, Heaps

LEMMA MergeFields ==
    ASSUME NEW h \in Heaps, NEW a \in Offsets, NEW b \in Offsets, a # b
    PROVE  /\ Merge(h, a, b) \in Heaps
           /\ Merge(h, a, b).used = h.used /\ Merge(h, a, b).blocks = h.blocks \ {b}
           /\ Merge(h, a, b).lfree = IF h.lfree = b THEN a ELSE h.lfree
           /\ Merge(h, a, b).next = [h.next EXCEPT ![a] = h.next[b]]
           /\ Merge(h, a, b).prev = [h.prev EXCEPT ![h.next[b]] = a]
<1>1. PICK h1 \in Heaps : h1 = MergeLfree(h, a, b)
  BY MergeLfreeFields
<1>2. /\ h1.next = h.next /\ h1.prev = h.prev /\ h1.blocks = h.blocks
      /\ h1.used = h.used /\ h1.lfree = IF h.lfree = b THEN a ELSE h.lfree
  BY <1>1, MergeLfreeFields
<1>3. PICK h2 \in Heaps : h2 = MergeNext(h1, a, b)
  BY MergeNextFields
<1>4. /\ h2.prev = h1.prev /\ h2.used = h1.used /\ h2.lfree = h1.lfree
      /\ h2.blocks = h1.blocks \ {b} /\ h2.next = [h1.next EXCEPT ![a] = h1.next[b]]
  BY <1>3, MergeNextFields
<1>5. PICK h3 \in Heaps : h3 = MergePrev(h2, a, b)
  BY MergePrevFields
<1>6. /\ h3.next = h2.next /\ h3.used = h2.used /\ h3.lfree = h2.lfree
      /\ h3.blocks = h2.blocks /\ h3.prev = [h2.prev EXCEPT ![h2.next[b]] = a]
  BY <1>5, MergePrevFields
<1>7. Merge(h, a, b) = h3
  BY <1>1, <1>3, <1>5 DEF Merge
<1>8. h2.next[b] = h.next[b]
  BY <1>2, <1>4, HeapType
<1>9. /\ h3.used = h.used /\ h3.blocks = h.blocks \ {b}
      /\ h3.lfree = IF h.lfree = b THEN a ELSE h.lfree
  BY <1>2, <1>4, <1>6
<1>10. h3.next = [h.next EXCEPT ![a] = h.next[b]] /\ h3.prev = [h.prev EXCEPT ![h.next[b]] = a]
  BY <1>2, <1>4, <1>6, <1>8
<1> QED BY <1>7, <1>9, <1>10
-----------------------------------------------------------------------------
(* A heap in shape but for what is under way: x is the block of which prev *)
(* is not yet set, two free blocks may follow each other from a block of E *)
(* on, and lfree may lie above a free block of L.                          *)

Good(h, x, E, L) ==
    /\ h \in Heaps
    /\ List(h.next, h.prev, h.used, h.blocks, x)
    /\ \A b \in h.blocks \ {ram_end} : b \notin E /\ ~h.used[b] => h.used[h.next[b]]
    /\ h.lfree \in h.blocks
    /\ \A b \in h.blocks \ {ram_end} : b \notin L /\ ~h.used[b] => h.lfree <= b

LEMMA GoodType ==
    ASSUME NEW h, NEW x, NEW E, NEW L, Good(h, x, E, L)
    PROVE  /\ h \in Heaps /\ List(h.next, h.prev, h.used, h.blocks, x)
           /\ h.lfree \in h.blocks /\ h.lfree \in Nat /\ h.lfree \in Offsets /\ h.lfree <= ram_end
           /\ h.blocks \subseteq Offsets
           /\ \A b \in h.blocks : b \in Nat /\ b \in Offsets /\ b <= ram_end
<1>1. /\ h \in Heaps /\ List(h.next, h.prev, h.used, h.blocks, x) /\ h.lfree \in h.blocks
      /\ h.blocks \subseteq Offsets
  BY DEF Good, List
<1> QED BY <1>1, OffsetType

LEMMA GoodWeaker ==
    ASSUME NEW h, NEW x, NEW E, NEW F, NEW L, Good(h, x, E, L),
           \A b \in E \ F : b \notin h.blocks \ {ram_end} \/ h.used[b] \/ h.used[h.next[b]]
    PROVE  Good(h, x, F, L)
BY DEF Good

LEMMA GoodLower ==
    ASSUME NEW h, NEW x, NEW E, NEW L, NEW M, Good(h, x, E, L),
           \A b \in L \ M : b \in h.blocks \ {ram_end} /\ ~h.used[b] => h.lfree <= b
    PROVE  Good(h, x, E, M)
BY DEF Good

LEMMA MarkGood ==
    ASSUME NEW h, NEW x, NEW E, NEW L, Good(h, x, E, L), NEW m \in h.blocks \ {ram_end}, m # x
    PROVE  Good(MarkFree(h, m), x, E \cup {m, h.prev[m]}, L \cup {m})
<1>1. h \in Heaps /\ List(h.next, h.prev, h.used, h.blocks, x) /\ m \in Offsets /\ h.lfree \in h.blocks
  BY DEF Good, List
<1>2. PICK g \in Heaps : g = MarkFree(h, m)
  BY <1>1, MarkFreeFields
<1>3. /\ g.next = h.next /\ g.prev = h.prev /\ g.blocks = h.blocks /\ g.lfree = h.lfree
      /\ g.used = [h.used EXCEPT ![m] = FALSE]
  BY <1>1, <1>2, MarkFreeFields
<1>4. h.used \in [Offsets -> BOOLEAN] /\ h.used[ram_end] /\ ram_end \in Offsets
  BY <1>1 DEF List
<1>5. /\ g.used \in [Offsets -> BOOLEAN] /\ g.used[ram_end]
      /\ \A c \in Offsets : g.used[c] = IF c = m THEN FALSE ELSE h.used[c]
  BY <1>1, <1>3, <1>4
<1>6. List(g.next, g.prev, g.used, g.blocks, x)
  BY <1>1, <1>3, <1>5, MarkList
<1>7. ASSUME NEW b \in g.blocks \ {ram_end}, b \notin E \cup {m, h.prev[m]}, ~g.used[b]
      PROVE  g.used[g.next[b]]
  <2>1. b \in h.blocks \ {ram_end} /\ b \in Offsets /\ h.next[b] \in Offsets
    BY <1>1, <1>3, Ahead
  <2>2. h.used[h.next[b]]
    BY <1>5, <1>7, <2>1 DEF Good
  <2>3. h.next[b] # m
    BY <1>1, <1>7, <2>1, Neighbours
  <2> QED BY <1>3, <1>5, <2>1, <2>2, <2>3
<1>8. ASSUME NEW b \in g.blocks \ {ram_end}, b \notin L \cup {m}, ~g.used[b] PROVE g.lfree <= b
  <2>1. b \in h.blocks \ {ram_end} /\ b \in Offsets
    BY <1>1, <1>3, Ahead
  <2> QED BY <1>3, <1>5, <1>8, <2>1 DEF Good
<1>9. Good(g, x, E \cup {m, h.prev[m]}, L \cup {m})
  BY <1>1, <1>3, <1>6, <1>7, <1>8 DEF Good
<1> QED BY <1>2, <1>9

LEMMA LowerGood ==
    ASSUME NEW h, NEW x, NEW E, NEW L, NEW m \in h.blocks, Good(h, x, E, L \cup {m})
    PROVE  Good(Lower(h, m), x, E, L) /\ Lower(h, m).lfree <= m
<1>1. h \in Heaps /\ m \in Offsets /\ h.lfree \in h.blocks /\ h.blocks \subseteq Offsets
  BY DEF Good, List
<1>2. PICK g \in Heaps : g = Lower(h, m)
  BY <1>1, LowerFields
<1>3. /\ g.next = h.next /\ g.prev = h.prev /\ g.blocks = h.blocks /\ g.used = h.used
      /\ g.lfree = IF m < h.lfree THEN m ELSE h.lfree
  BY <1>1, <1>2, LowerFields
<1>4. m \in Nat /\ h.lfree \in Nat
  BY <1>1, OffsetType
<1>5. g.lfree <= m /\ g.lfree <= h.lfree /\ g.lfree \in h.blocks /\ g.lfree \in Nat
  BY <1>1, <1>3, <1>4
<1>6. ASSUME NEW b \in g.blocks \ {ram_end}, b \notin L, ~g.used[b] PROVE g.lfree <= b
  <2>1. b \in Nat
    BY <1>1, <1>3, OffsetType
  <2>2. b = m \/ h.lfree <= b
    BY <1>3, <1>6 DEF Good
  <2> QED BY <1>4, <1>5, <2>1, <2>2
<1>7. Good(g, x, E, L)
  BY <1>3, <1>5, <1>6 DEF Good
<1> QED BY <1>2, <1>5, <1>7

(* Two free blocks joined; the second is not one from which two may follow. *)
LEMMA MergeGood ==
    ASSUME NEW h, NEW x, NEW E, NEW L, Good(h, x, E, L), NEW a \in h.blocks \ {ram_end},
           h.next[a] # ram_end, h.next[a] # x, h.next[a] \notin E, ~h.used[h.next[a]]
    PROVE  Good(Merge(h, a, h.next[a]), x, E \ {a}, L)
<1>1. /\ h \in Heaps /\ List(h.next, h.prev, h.used, h.blocks, x) /\ h.lfree \in h.blocks
      /\ h.blocks \subseteq Offsets
  BY DEF Good, List
<1>2. PICK b \in h.blocks \ {ram_end} : b = h.next[a]
  BY <1>1, Ahead
<1>3. a \in Offsets /\ b \in Offsets /\ a # b
  BY <1>1, <1>2, Ahead
<1>4. PICK g \in Heaps : g = Merge(h, a, b)
  BY <1>1, <1>3, MergeFields
<1>5. /\ g.used = h.used /\ g.blocks = h.blocks \ {b} /\ g.lfree = IF h.lfree = b THEN a ELSE h.lfree
      /\ g.next = [h.next EXCEPT ![a] = h.next[b]] /\ g.prev = [h.prev EXCEPT ![h.next[b]] = a]
  BY <1>1, <1>3, <1>4, MergeFields
<1>6. List(g.next, g.prev, g.used, g.blocks, x)
  <2>1. List([h.next EXCEPT ![a] = h.next[h.next[a]]], [h.prev EXCEPT ![h.next[h.next[a]]] = a],
             h.used, h.blocks \ {h.next[a]}, x)
    BY <1>1, JoinList
  <2> QED BY <1>2, <1>5, <2>1
<1>7. h.next \in [Offsets -> Offsets]
  BY <1>1, HeapType
<1>8. g.next[a] = h.next[b] /\ \A c \in Offsets : c # a => g.next[c] = h.next[c]
  BY <1>3, <1>5, <1>7
<1>9. ASSUME NEW c \in g.blocks \ {ram_end}, c \notin E \ {a}, ~g.used[c] PROVE g.used[g.next[c]]
  <2>1. c \in h.blocks \ {ram_end} /\ c \in Offsets
    BY <1>1, <1>5
  <2>2. CASE c = a
    BY <1>2, <1>5, <1>8, <2>2 DEF Good
  <2>3. CASE c # a
    BY <1>5, <1>8, <1>9, <2>1, <2>3 DEF Good
  <2> QED BY <2>2, <2>3
<1>10. g.lfree <= h.lfree /\ g.lfree \in g.blocks /\ g.lfree \in Nat /\ h.lfree \in Nat
  <2>1. a \in Nat /\ b \in Nat /\ a < b /\ h.lfree \in Nat
    BY <1>1, <1>2, Ahead, GoodType
  <2>2. g.lfree \in g.blocks
    BY <1>1, <1>3, <1>5
  <2>3. CASE h.lfree = b
    <3>1. g.lfree = a
      BY <1>5, <2>3
    <3> QED BY <2>1, <2>2, <2>3, <3>1
  <2>4. CASE h.lfree # b
    <3>1. g.lfree = h.lfree
      BY <1>5, <2>4
    <3> QED BY <2>1, <2>2, <3>1
  <2> QED BY <2>3, <2>4
<1>11. ASSUME NEW c \in g.blocks \ {ram_end}, c \notin L, ~g.used[c] PROVE g.lfree <= c
  <2>1. c \in h.blocks \ {ram_end} /\ c \in Nat
    BY <1>1, <1>5, OffsetType
  <2>2. h.lfree <= c
    BY <1>5, <1>11, <2>1 DEF Good
  <2> QED BY <1>10, <2>1, <2>2
<1>12. Good(g, x, E \ {a}, L)
  BY <1>6, <1>9, <1>10, <1>11 DEF Good
<1> QED BY <1>2, <1>4, <1>12
-----------------------------------------------------------------------------
(* mem_free as a whole.                                                     *)

Freed(h, m) == plug_holes(Lower(MarkFree(h, m), m), m)

LEMMA ForwardHeap == ASSUME NEW h \in Heaps, NEW m \in Offsets PROVE PlugForward(h, m) \in Heaps
<1>1. CASE NextFree(h, m)
  <2>1. PICK b \in Offsets : b = h.next[m]
    BY HeapType
  <2>2. Merge(h, m, b) \in Heaps
    BY <1>1, <2>1, MergeFields DEF NextFree
  <2> QED BY <1>1, <2>1, <2>2 DEF PlugForward
<1>2. CASE ~NextFree(h, m)
  BY <1>2 DEF PlugForward
<1> QED BY <1>1, <1>2

LEMMA BackwardHeap == ASSUME NEW h \in Heaps, NEW m \in Offsets PROVE PlugBackward(h, m) \in Heaps
<1>1. CASE PrevFree(h, m)
  <2>1. PICK a \in Offsets : a = h.prev[m]
    BY HeapType
  <2>2. Merge(h, a, m) \in Heaps
    BY <1>1, <2>1, MergeFields DEF PrevFree
  <2> QED BY <1>1, <2>1, <2>2 DEF PlugBackward
<1>2. CASE ~PrevFree(h, m)
  BY <1>2 DEF PlugBackward
<1> QED BY <1>1, <1>2

(* What joining changes of the arrays. *)
LEMMA ForwardFields ==
    ASSUME NEW h \in Heaps, NEW m \in Offsets
    PROVE  /\ PlugForward(h, m).used = h.used
           /\ PlugForward(h, m).blocks = IF NextFree(h, m) THEN h.blocks \ {h.next[m]} ELSE h.blocks
           /\ \A c \in Offsets : c # m => PlugForward(h, m).next[c] = h.next[c]
           /\ PlugForward(h, m).lfree \in {h.lfree, m}
           /\ h.next[h.next[m]] # m => PlugForward(h, m).prev[m] = h.prev[m]
<1>1. CASE NextFree(h, m)
  <2>1. PICK b \in Offsets : b = h.next[m]
    BY HeapType
  <2>2. PlugForward(h, m) = Merge(h, m, b)
    BY <1>1, <2>1 DEF PlugForward
  <2>5. m # b
    BY <1>1, <2>1 DEF NextFree
  <2>3. PICK g \in Heaps : g = Merge(h, m, b)
    BY <2>5, MergeFields
  <2>4. /\ g.used = h.used /\ g.blocks = h.blocks \ {b}
        /\ g.lfree = IF h.lfree = b THEN m ELSE h.lfree
        /\ g.next = [h.next EXCEPT ![m] = h.next[b]] /\ g.prev = [h.prev EXCEPT ![h.next[b]] = m]
    BY <2>3, <2>5, MergeFields
  <2>6. \A c \in Offsets : c # m => g.next[c] = h.next[c]
    BY <2>4, HeapType
  <2>7. h.next[b] # m => g.prev[m] = h.prev[m]
    BY <2>4, HeapType
  <2> QED BY <1>1, <2>1, <2>2, <2>3, <2>4, <2>6, <2>7
<1>2. CASE ~NextFree(h, m)
  BY <1>2 DEF PlugForward
<1> QED BY <1>1, <1>2

LEMMA BackwardFields ==
    ASSUME NEW h \in Heaps, NEW m \in Offsets
    PROVE  /\ PlugBackward(h, m).used = h.used
           /\ PlugBackward(h, m).blocks = IF PrevFree(h, m) THEN h.blocks \ {m} ELSE h.blocks
           /\ \A c \in Offsets : PlugBackward(h, m).next[c] = h.next[c] \/ (c = h.prev[m] /\ PrevFree(h, m))
           /\ PlugBackward(h, m).lfree = h.lfree
              \/ (PlugBackward(h, m).lfree = h.prev[m] /\ PrevFree(h, m))
<1>1. CASE PrevFree(h, m)
  <2>1. PICK a \in Offsets : a = h.prev[m]
    BY HeapType
  <2>2. PlugBackward(h, m) = Merge(h, a, m)
    BY <1>1, <2>1 DEF PlugBackward
  <2>5. a # m
    BY <1>1, <2>1 DEF PrevFree
  <2>3. PICK g \in Heaps : g = Merge(h, a, m)
    BY <2>5, MergeFields
  <2>4. /\ g.used = h.used /\ g.blocks = h.blocks \ {m}
        /\ g.lfree = IF h.lfree = m THEN a ELSE h.lfree
        /\ g.next = [h.next EXCEPT ![a] = h.next[m]] /\ g.prev = [h.prev EXCEPT ![h.next[m]] = a]
    BY <2>3, <2>5, MergeFields
  <2>6. \A c \in Offsets : c # a => g.next[c] = h.next[c]
    BY <2>4, HeapType
  <2> QED BY <1>1, <2>1, <2>2, <2>3, <2>4, <2>6
<1>2. CASE ~PrevFree(h, m)
  BY <1>2 DEF PlugBackward
<1> QED BY <1>1, <1>2

(* A block joined to the next: the last free block of its kind, as far as the next goes. *)
LEMMA ForwardGood ==
    ASSUME NEW h, NEW x, NEW E, NEW L, Good(h, x, E, L), NEW m \in h.blocks \ {ram_end},
           ~h.used[m],
           NextFree(h, m) => h.next[m] # x /\ h.next[m] \notin E
    PROVE  Good(PlugForward(h, m), x, E \ {m}, L)
<1>1. h \in Heaps /\ List(h.next, h.prev, h.used, h.blocks, x)
  BY DEF Good
<1>2. m \in Nat /\ h.next[m] \in Nat /\ m < h.next[m]
  BY <1>1, Ahead
<1>3. CASE NextFree(h, m)
  <2>1. h.next[m] # ram_end /\ ~h.used[h.next[m]]
    BY <1>3 DEF NextFree
  <2>2. Good(Merge(h, m, h.next[m]), x, E \ {m}, L)
    BY <1>3, <2>1, MergeGood
  <2> QED BY <1>3, <2>2 DEF PlugForward
<1>4. CASE ~NextFree(h, m)
  <2>1. h.used[h.next[m]]
    BY <1>1, <1>2, <1>4 DEF NextFree, List
  <2>2. Good(h, x, E \ {m}, L)
    BY <2>1, GoodWeaker
  <2> QED BY <1>4, <2>2 DEF PlugForward
<1> QED BY <1>3, <1>4

LEMMA BackwardGood ==
    ASSUME NEW h, NEW x, NEW E, NEW L, Good(h, x, E, L), NEW m \in h.blocks \ {ram_end},
           ~h.used[m], m # x, m \notin E
    PROVE  Good(PlugBackward(h, m), x, E \ {h.prev[m]}, L)
<1>1. h \in Heaps /\ List(h.next, h.prev, h.used, h.blocks, x) /\ h.lfree \in h.blocks
  BY DEF Good
<1>2. m # 0 => h.prev[m] \in h.blocks \ {ram_end} /\ h.prev[m] < m /\ h.next[h.prev[m]] = m
  BY <1>1, Neighbours
<1>3. CASE PrevFree(h, m)
  <2>1. m # 0 /\ ~h.used[h.prev[m]]
    BY <1>1, <1>3 DEF PrevFree, List
  <2>3. Good(Merge(h, h.prev[m], h.next[h.prev[m]]), x, E \ {h.prev[m]}, L)
    BY <1>2, <2>1, MergeGood
  <2> QED BY <1>2, <1>3, <2>1, <2>3 DEF PlugBackward
<1>4. CASE ~PrevFree(h, m)
  <2>1. h.used[h.prev[m]] \/ h.prev[m] = m
    BY <1>4 DEF PrevFree
  <2>2. Good(h, x, E \ {h.prev[m]}, L)
    BY <2>1, GoodWeaker
  <2> QED BY <1>4, <2>2 DEF PlugBackward
<1> QED BY <1>3, <1>4

LfreeFree(h) == h.lfree = ram_end \/ ~h.used[h.lfree]

(* A block freed that is beside nothing the main thread is at. *)
LEMMA FreeGood ==
    ASSUME NEW h, NEW x, NEW E, NEW L, Good(h, x, E, L), NEW m \in h.blocks \ {ram_end},
           m # x, m \notin E,
           NextFree(h, m) => h.next[m] # x /\ h.next[m] \notin E
    PROVE  /\ Good(Freed(h, m), x, E, L)
           /\ LfreeFree(h) => LfreeFree(Freed(h, m))
           /\ Freed(h, m).used = [h.used EXCEPT ![m] = FALSE]
           /\ Freed(h, m).blocks \subseteq h.blocks
           /\ \A b \in h.blocks : b \notin Freed(h, m).blocks
                 <=> (b = h.next[m] /\ NextFree(h, m)) \/ (b = m /\ PrevFree(h, m))
           /\ \A c \in Offsets : \/ Freed(h, m).next[c] = h.next[c] \/ c = m
                                 \/ c \in h.blocks \ {ram_end} /\ ~h.used[c]
<1>1. /\ h \in Heaps /\ List(h.next, h.prev, h.used, h.blocks, x) /\ m \in Offsets /\ m \in Nat
      /\ \A c \in h.blocks : c \in Offsets
  BY GoodType
<1>2. PICK F : F = E \cup {m, h.prev[m]}
  OBVIOUS
<1>3. PICK h1 \in Heaps : h1 = MarkFree(h, m)
  BY <1>1, MarkFreeFields
<1>4. /\ h1.next = h.next /\ h1.prev = h.prev /\ h1.blocks = h.blocks /\ h1.lfree = h.lfree
      /\ h1.used = [h.used EXCEPT ![m] = FALSE]
  BY <1>1, <1>3, MarkFreeFields
<1>5. Good(h1, x, F, L \cup {m})
  BY <1>2, <1>3, MarkGood
<1>6. PICK h2 \in Heaps : h2 = Lower(h1, m)
  BY <1>1, <1>3, LowerFields
<1>7. /\ h2.next = h.next /\ h2.prev = h.prev /\ h2.blocks = h.blocks /\ h2.used = h1.used
      /\ h2.lfree = IF m < h1.lfree THEN m ELSE h1.lfree
  BY <1>1, <1>4, <1>6, LowerFields
<1>8. Good(h2, x, F, L)
  BY <1>4, <1>5, <1>6, LowerGood
<1>9. /\ \A c \in Offsets : h1.used[c] = IF c = m THEN FALSE ELSE h.used[c]
      /\ h.next[m] \in Offsets /\ h.prev[m] \in Offsets /\ h.next[m] \in Nat /\ m < h.next[m]
  <2>1. \A c \in Offsets : h1.used[c] = IF c = m THEN FALSE ELSE h.used[c]
    <3>1. h.used \in [Offsets -> BOOLEAN]
      BY <1>1, HeapType
    <3> QED BY <1>4, <3>1
  <2>2. h.next[m] \in Offsets /\ h.prev[m] \in Offsets
    BY <1>1, HeapType
  <2>3. h.next[m] \in Nat /\ m < h.next[m]
    BY <1>1, Ahead
  <2> QED BY <2>1, <2>2, <2>3
<1>10. NextFree(h2, m) <=> NextFree(h, m)
  BY <1>7, <1>9 DEF NextFree
<1>11. h.next[m] # m /\ h.prev[m] # h.next[m]
  <2>1. m # 0 => h.prev[m] \in h.blocks \ {ram_end} /\ h.prev[m] < m
    BY <1>1, Neighbours
  <2>2. m = 0 => h.prev[m] = 0
    BY <1>1 DEF List
  <2> QED BY <1>1, <1>9, <2>1, <2>2
<1>12. m \in h2.blocks \ {ram_end} /\ ~h2.used[m]
  BY <1>1, <1>7, <1>9
<1>13. NextFree(h2, m) => h2.next[m] # x /\ h2.next[m] \notin F
  BY <1>2, <1>7, <1>10, <1>11
<1>14. PICK h3 \in Heaps : h3 = PlugForward(h2, m)
  BY <1>1, ForwardHeap
<1>15. Good(h3, x, F \ {m}, L)
  BY <1>8, <1>12, <1>13, <1>14, ForwardGood
<1>16. /\ h3.used = h2.used /\ h3.lfree \in {h2.lfree, m}
       /\ h3.blocks = IF NextFree(h2, m) THEN h2.blocks \ {h2.next[m]} ELSE h2.blocks
       /\ \A c \in Offsets : c # m => h3.next[c] = h2.next[c]
       /\ h2.next[h2.next[m]] # m => h3.prev[m] = h2.prev[m]
  BY <1>1, <1>14, ForwardFields
<1>17. h3.prev[m] = h.prev[m]
  <2>1. h.next[m] # ram_end => m < h.next[h.next[m]]
    BY <1>1, <1>9, Ahead
  <2>2. CASE h.next[m] # ram_end
    BY <1>1, <1>7, <1>9, <1>16, <2>1, <2>2
  <2>3. CASE h.next[m] = ram_end
    BY <1>7, <1>10, <1>14, <2>3 DEF NextFree, PlugForward
  <2> QED BY <2>2, <2>3
<1>18. m \in h3.blocks \ {ram_end} /\ ~h3.used[m]
  BY <1>7, <1>11, <1>12, <1>16
<1>19. PrevFree(h3, m) <=> PrevFree(h, m)
  <2>1. \A c \in Offsets : c # m => h3.used[c] = h.used[c]
    <3>1. h3.used = h1.used
      BY <1>7, <1>16
    <3> QED BY <1>9, <3>1
  <2>2. h.prev[m] \in Offsets
    BY <1>9
  <2> QED BY <1>17, <2>1, <2>2 DEF PrevFree
<1>20. PICK h4 \in Heaps : h4 = PlugBackward(h3, m)
  BY <1>1, BackwardHeap
<1>21. Good(h4, x, (F \ {m}) \ {h.prev[m]}, L)
  BY <1>15, <1>17, <1>18, <1>19, <1>20, BackwardGood
<1>22. Good(h4, x, E, L)
  BY <1>2, <1>21, GoodWeaker
<1>23. /\ h4.used = h3.used
       /\ h4.blocks = IF PrevFree(h3, m) THEN h3.blocks \ {m} ELSE h3.blocks
       /\ \A c \in Offsets : h4.next[c] = h3.next[c] \/ (c = h3.prev[m] /\ PrevFree(h3, m))
       /\ h4.lfree = h3.lfree \/ (h4.lfree = h3.prev[m] /\ PrevFree(h3, m))
  BY <1>1, <1>20, BackwardFields
<1>24. Freed(h, m) = h4
  BY <1>3, <1>6, <1>14, <1>20 DEF Freed, plug_holes
<1>25. LfreeFree(h) => LfreeFree(h4)
  <2>1. h.lfree \in Offsets
    BY GoodType
  <2>2. LfreeFree(h) => LfreeFree(h2)
    <3>1. \A c \in Offsets : h2.used[c] = IF c = m THEN FALSE ELSE h.used[c]
      BY <1>7, <1>9
    <3>2. h2.lfree = m \/ h2.lfree = h.lfree
      BY <1>4, <1>7
    <3> QED BY <1>1, <2>1, <3>1, <3>2 DEF LfreeFree
  <2>3. LfreeFree(h2) => LfreeFree(h3)
    BY <1>12, <1>16 DEF LfreeFree
  <2>4. LfreeFree(h3) => LfreeFree(h4)
    BY <1>23 DEF LfreeFree, PrevFree
  <2> QED BY <2>2, <2>3, <2>4
<1>26. h4.used = [h.used EXCEPT ![m] = FALSE]
  BY <1>4, <1>7, <1>16, <1>23
<1>27. /\ h4.blocks \subseteq h.blocks
       /\ \A b \in h.blocks : b \notin h4.blocks
             <=> (b = h.next[m] /\ NextFree(h, m)) \/ (b = m /\ PrevFree(h, m))
  BY <1>7, <1>10, <1>16, <1>19, <1>23
<1>28. ASSUME NEW c \in Offsets
       PROVE  h4.next[c] = h.next[c] \/ c = m \/ (c \in h.blocks \ {ram_end} /\ ~h.used[c])
  <2>1. CASE PrevFree(h, m)
    <3>1. m # 0 /\ ~h.used[h.prev[m]]
      BY <1>1, <2>1 DEF PrevFree, List
    <3>2. h.prev[m] \in h.blocks \ {ram_end}
      BY <1>1, <3>1, Neighbours
    <3> QED BY <1>7, <1>16, <1>17, <1>23, <3>1, <3>2
  <2>2. CASE ~PrevFree(h, m)
    BY <1>7, <1>16, <1>19, <1>23, <2>2
  <2> QED BY <2>1, <2>2
<1> QED BY <1>22, <1>24, <1>25, <1>26, <1>27, <1>28
-----------------------------------------------------------------------------
(* mem_malloc takes a block, whole or split; mem_trim shortens one.         *)

MarkUsed(h, b) == [h EXCEPT !.used[b] = TRUE]

LEMMA MarkUsedFields ==
    ASSUME NEW h \in Heaps, NEW b \in Offsets
    PROVE  /\ MarkUsed(h, b) \in Heaps
           /\ MarkUsed(h, b).next = h.next /\ MarkUsed(h, b).prev = h.prev
           /\ MarkUsed(h, b).blocks = h.blocks /\ MarkUsed(h, b).lfree = h.lfree
           /\ MarkUsed(h, b).used = [h.used EXCEPT ![b] = TRUE]
BY DEF MarkUsed, Heaps

LEMMA MarkUsedGood ==
    ASSUME NEW h, NEW x, NEW E, NEW L, Good(h, x, E, L), NEW b \in h.blocks \ {ram_end}
    PROVE  Good(MarkUsed(h, b), x, E, L)
<1>1. /\ h \in Heaps /\ List(h.next, h.prev, h.used, h.blocks, x) /\ b \in Offsets
      /\ h.blocks \subseteq Offsets
  BY GoodType
<1>2. PICK g \in Heaps : g = MarkUsed(h, b)
  BY <1>1, MarkUsedFields
<1>3. /\ g.next = h.next /\ g.prev = h.prev /\ g.blocks = h.blocks /\ g.lfree = h.lfree
      /\ g.used = [h.used EXCEPT ![b] = TRUE]
  BY <1>1, <1>2, MarkUsedFields
<1>4. h.used \in [Offsets -> BOOLEAN] /\ h.used[ram_end] /\ ram_end \in Offsets
  BY <1>1 DEF List
<1>5. /\ g.used \in [Offsets -> BOOLEAN] /\ g.used[ram_end]
      /\ \A c \in Offsets : g.used[c] = IF c = b THEN TRUE ELSE h.used[c]
  BY <1>1, <1>3, <1>4
<1>6. List(g.next, g.prev, g.used, g.blocks, x)
  BY <1>1, <1>3, <1>5, MarkList
<1>7. ASSUME NEW c \in g.blocks \ {ram_end}, c \notin E, ~g.used[c] PROVE g.used[g.next[c]]
  <2>1. c \in h.blocks \ {ram_end} /\ c \in Offsets /\ h.next[c] \in Offsets
    BY <1>1, <1>3, Ahead
  <2> QED BY <1>3, <1>5, <1>7, <2>1 DEF Good
<1>8. ASSUME NEW c \in g.blocks \ {ram_end}, c \notin L, ~g.used[c] PROVE g.lfree <= c
  <2>1. c \in h.blocks \ {ram_end} /\ c \in Offsets
    BY <1>1, <1>3
  <2> QED BY <1>3, <1>5, <1>8, <2>1 DEF Good
<1>9. Good(g, x, E, L)
  BY <1>3, <1>6, <1>7, <1>8 DEF Good
<1> QED BY <1>2, <1>9

(* What Insert makes of a heap h, offset by offset: g. *)
Inserted(h, g, b, b2, n) ==
    /\ g \in Heaps /\ g.lfree = h.lfree /\ g.blocks = h.blocks \cup {b2}
    /\ g.next \in [Offsets -> Offsets] /\ g.prev \in [Offsets -> Offsets]
    /\ g.used \in [Offsets -> BOOLEAN]
    /\ \A c \in Offsets : g.next[c] = IF c = b THEN b2 ELSE IF c = b2 THEN n ELSE h.next[c]
    /\ \A c \in Offsets \ {ram_end} : g.prev[c] = IF c = n THEN b2 ELSE IF c = b2 THEN b ELSE h.prev[c]
    /\ \A c \in Offsets : g.used[c] = IF c = b2 THEN FALSE ELSE h.used[c]

LEMMA InsertAt ==
    ASSUME NEW h \in Heaps, NEW b \in Offsets, NEW b2 \in Offsets, NEW n \in Offsets, n # b2, b # b2
    PROVE  Inserted(h, Insert(h, b, b2, n), b, b2, n)
<1>1. PICK g : g = Insert(h, b, b2, n)
  OBVIOUS
<1>2. /\ g.lfree = h.lfree /\ g.blocks = h.blocks \cup {b2}
      /\ g.used = [h.used EXCEPT ![b2] = FALSE]
      /\ g.next = [h.next EXCEPT ![b2] = n, ![b] = b2]
      /\ g.prev = [h.prev EXCEPT ![b2] = b, ![n] = IF n = ram_end THEN h.prev[n] ELSE b2]
      /\ g = [next |-> g.next, prev |-> g.prev, used |-> g.used, lfree |-> g.lfree, blocks |-> g.blocks]
  BY <1>1 DEF Insert
<1>3. /\ h.next \in [Offsets -> Offsets] /\ h.prev \in [Offsets -> Offsets]
      /\ h.used \in [Offsets -> BOOLEAN] /\ h.lfree \in Offsets /\ h.blocks \subseteq Offsets
  BY HeapType
<1>4. /\ g.next \in [Offsets -> Offsets] /\ g.prev \in [Offsets -> Offsets]
      /\ g.used \in [Offsets -> BOOLEAN] /\ g.lfree \in Offsets /\ g.blocks \in SUBSET Offsets
  BY <1>2, <1>3
<1>9. g \in Heaps
  BY <1>2, <1>4 DEF Heaps
<1>5. \A c \in Offsets : g.next[c] = IF c = b THEN b2 ELSE IF c = b2 THEN n ELSE h.next[c]
  BY <1>2, <1>3
<1>6. \A c \in Offsets \ {ram_end} : g.prev[c] = IF c = n THEN b2 ELSE IF c = b2 THEN b ELSE h.prev[c]
  BY <1>2, <1>3
<1>7. \A c \in Offsets : g.used[c] = IF c = b2 THEN FALSE ELSE h.used[c]
  BY <1>2, <1>3
<1>8. Inserted(h, g, b, b2, n)
  BY <1>2, <1>4, <1>5, <1>6, <1>7, <1>9 DEF Inserted
<1> QED BY <1>1, <1>8

(* A block split: b is used afterwards, or was. *)
LEMMA SplitGood ==
    ASSUME NEW h, NEW x, NEW E, NEW L, Good(h, x, E, L), NEW b \in h.blocks \ {ram_end},
           NEW b2 \in Nat, b + SIZEOF + MIN_SIZE <= b2, b2 + SIZEOF + MIN_SIZE <= h.next[b],
           h.used[h.next[b]]
    PROVE  /\ b2 \in Offsets \ {ram_end} /\ b2 \notin h.blocks /\ b < b2 /\ b2 < h.next[b]
           /\ Good(Insert(h, b, b2, h.next[b]), x, E \cup {b}, L \cup {b2})
<1>1. /\ h \in Heaps /\ List(h.next, h.prev, h.used, h.blocks, x) /\ b \in Offsets /\ b \in Nat
      /\ h.blocks \subseteq Offsets
  BY GoodType
<1>2. PICK n \in Offsets : n = h.next[b]
  BY <1>1, Ahead
<1>3. n \in Nat /\ n <= ram_end /\ ram_end \in Nat /\ n \in h.blocks /\ b < n
  BY <1>1, <1>2, Ahead, OffsetType
<1>4. b < b2 /\ b2 < n /\ b2 \in Offsets
  <2>1. b < b2 /\ b2 < n
    BY <1>1, <1>2, <1>3, Consts
  <2> QED BY <1>3, <2>1, OffsetType
<1>5. PICK g : g = Insert(h, b, b2, n)
  OBVIOUS
<1>6. Inserted(h, g, b, b2, n)
  <2>1. n # b2 /\ b # b2
    BY <1>1, <1>3, <1>4
  <2> QED BY <1>1, <1>4, <1>5, <2>1, InsertAt
<1>7. /\ g \in Heaps /\ g.lfree = h.lfree /\ g.blocks = h.blocks \cup {b2}
      /\ g.next \in [Offsets -> Offsets] /\ g.prev \in [Offsets -> Offsets]
      /\ g.used \in [Offsets -> BOOLEAN]
      /\ \A c \in Offsets : g.next[c] = IF c = b THEN b2 ELSE IF c = b2 THEN n ELSE h.next[c]
      /\ \A c \in Offsets \ {ram_end} : g.prev[c] = IF c = n THEN b2 ELSE IF c = b2 THEN b ELSE h.prev[c]
      /\ \A c \in Offsets : g.used[c] = IF c = b2 THEN FALSE ELSE h.used[c]
  BY <1>6 DEF Inserted
<1>8. b2 # ram_end /\ ram_end \in Offsets /\ h.used[ram_end]
  BY <1>1, <1>3, <1>4 DEF List
<1>9. List(g.next, g.prev, g.used, g.blocks, x) /\ b2 \notin h.blocks
  <2>1. /\ g.used \in [Offsets -> BOOLEAN] /\ g.used[ram_end]
        /\ g.next \in [Offsets -> Offsets] /\ g.prev \in [Offsets -> Offsets]
    BY <1>7, <1>8
  <2>2. Spliced(h.next, h.prev, g.next, g.prev, b, b2, h.next[b])
    BY <1>2, <1>7 DEF Spliced
  <2>3. List(g.next, g.prev, g.used, h.blocks \cup {b2}, x) /\ b2 \notin h.blocks
    BY <1>1, <2>1, <2>2, InsertList
  <2> QED BY <1>7, <2>3
<1>10. ASSUME NEW c \in g.blocks \ {ram_end}, c \notin E \cup {b}, ~g.used[c] PROVE g.used[g.next[c]]
  <2>1. CASE c = b2
    <3>1. g.next[b2] = n
      BY <1>1, <1>4, <1>7
    <3>2. h.used[n] /\ n # b2
      BY <1>2, <1>3, <1>4
    <3>3. g.used[n] = h.used[n]
      BY <1>7, <3>2
    <3> QED BY <2>1, <3>1, <3>2, <3>3
  <2>2. CASE c # b2
    <3>1. c \in h.blocks \ {ram_end} /\ c \in Offsets /\ h.next[c] \in h.blocks /\ h.next[c] \in Offsets
      BY <1>1, <1>7, <2>2, Ahead
    <3> QED BY <1>7, <1>9, <1>10, <2>2, <3>1 DEF Good
  <2> QED BY <2>1, <2>2
<1>11. ASSUME NEW c \in g.blocks \ {ram_end}, c \notin L \cup {b2}, ~g.used[c] PROVE g.lfree <= c
  <2>1. c \in h.blocks \ {ram_end} /\ c \in Offsets
    BY <1>1, <1>7, <1>11
  <2> QED BY <1>7, <1>7, <1>11, <2>1 DEF Good
<1>12. Good(g, x, E \cup {b}, L \cup {b2})
  <2>1. g.lfree \in g.blocks
    BY <1>7, GoodType
  <2> QED BY <1>7, <1>9, <1>10, <1>11, <2>1 DEF Good
<1> QED BY <1>2, <1>4, <1>5, <1>8, <1>9, <1>12

(* The block mem_malloc takes, and what the heap is afterwards. *)
Taken(h, p, s) ==
    MarkUsed(IF Room(h, p) >= s + SIZEOF + MIN_SIZE THEN Insert(h, p, p + SIZEOF + s, h.next[p]) ELSE h, p)

(* Of the blocks of h, g differs in b and, when it is free, in the next; it may have *)
(* a free one that h has not, and writes no next but within b.                       *)
Changed(h, g, b) ==
    /\ b \in g.blocks /\ g.used[b]
    /\ \A c \in h.blocks : /\ c \in g.blocks \/ (c = h.next[b] /\ ~h.used[c])
                           /\ c # b => g.next[c] = h.next[c] /\ g.used[c] = h.used[c]
    /\ \A c \in g.blocks \ h.blocks : ~g.used[c] /\ c # ram_end /\ b < c
    /\ \A c \in Offsets : g.next[c] = h.next[c] \/ (b <= c /\ c < h.next[b])

LEMMA TakeGood ==
    ASSUME NEW h, NEW x, NEW E, NEW L, Good(h, x, E, L), NEW p \in h.blocks \ {ram_end},
           ~h.used[p], p \notin E, h.lfree <= p, NEW s \in Nat, MIN_SIZE <= s, s <= Room(h, p)
    PROVE  /\ Good(Taken(h, p, s), x, E, L) /\ Changed(h, Taken(h, p, s), p)
           /\ s <= Room(Taken(h, p, s), p)
           /\ p # h.lfree /\ LfreeFree(h) => LfreeFree(Taken(h, p, s))
           /\ Taken(h, p, s).lfree = h.lfree
<1>1. /\ h \in Heaps /\ List(h.next, h.prev, h.used, h.blocks, x) /\ p \in Offsets /\ p \in Nat
      /\ h.blocks \subseteq Offsets /\ h.lfree \in h.blocks /\ h.lfree \in Nat /\ h.lfree \in Offsets
      /\ h.lfree <= ram_end
  BY GoodType
<1>2. PICK n \in Offsets : n = h.next[p]
  BY <1>1, Ahead
<1>3. n \in Nat /\ n <= ram_end /\ ram_end \in Nat /\ n \in h.blocks /\ p < n /\ h.used[n]
  BY <1>1, <1>2, Ahead, OffsetType DEF Good
<1>4. h.lfree <= p
  OBVIOUS
<1>5. Room(h, p) = n - (p + SIZEOF) /\ SIZEOF \in Nat /\ MIN_SIZE \in Nat
  BY <1>2, Consts DEF Room
<1>6. CASE Room(h, p) >= s + SIZEOF + MIN_SIZE
  <2>1. PICK b2 \in Nat : b2 = p + SIZEOF + s
    BY <1>1, <1>5
  <2>2. p + SIZEOF + MIN_SIZE <= b2 /\ b2 + SIZEOF + MIN_SIZE <= n /\ h.used[h.next[p]]
    BY <1>1, <1>2, <1>3, <1>5, <1>6, <2>1
  <2>3. PICK g : g = Insert(h, p, b2, n)
    OBVIOUS
  <2>4. /\ b2 \in Offsets \ {ram_end} /\ b2 \notin h.blocks /\ p < b2 /\ b2 < n
        /\ Good(g, x, E \cup {p}, L \cup {b2})
    BY <1>2, <2>2, <2>3, SplitGood
  <2>5. Inserted(h, g, p, b2, n)
    <3>1. n # b2 /\ p # b2
      BY <1>1, <1>3, <2>4
    <3> QED BY <1>1, <2>3, <2>4, <3>1, InsertAt
  <2>6. /\ g \in Heaps /\ g.lfree = h.lfree /\ g.blocks = h.blocks \cup {b2}
        /\ \A c \in Offsets : g.next[c] = IF c = p THEN b2 ELSE IF c = b2 THEN n ELSE h.next[c]
        /\ \A c \in Offsets : g.used[c] = IF c = b2 THEN FALSE ELSE h.used[c]
    BY <2>5 DEF Inserted
  <2>7. PICK f \in Heaps : f = MarkUsed(g, p)
    BY <1>1, <2>6, MarkUsedFields
  <2>8. /\ f.next = g.next /\ f.prev = g.prev /\ f.blocks = g.blocks /\ f.lfree = g.lfree
        /\ f.used = [g.used EXCEPT ![p] = TRUE]
    BY <1>1, <2>6, <2>7, MarkUsedFields
  <2>9. \A c \in Offsets : f.used[c] = IF c = p THEN TRUE ELSE g.used[c]
    <3>1. g.used \in [Offsets -> BOOLEAN]
      BY <2>6, HeapType
    <3> QED BY <2>8, <3>1
  <2>10. Taken(h, p, s) = f
    BY <1>2, <1>6, <2>1, <2>3, <2>7 DEF Taken
  <2>11. Good(f, x, E \cup {p}, L \cup {b2})
    <3>1. p \in g.blocks \ {ram_end}
      BY <2>6
    <3> QED BY <2>4, <2>7, <3>1, MarkUsedGood
  <2>12. Good(f, x, E, L)
    <3>1. Good(f, x, E, L \cup {b2})
      <4>1. f.used[p]
        BY <1>1, <2>9
      <4>2. \A c \in (E \cup {p}) \ E : c \notin f.blocks \ {ram_end} \/ f.used[c] \/ f.used[f.next[c]]
        BY <4>1
      <4> QED BY <2>11, <4>2, GoodWeaker
    <3>2. f.lfree <= b2
      BY <1>1, <1>4, <2>4, <2>6, <2>8
    <3> QED BY <3>1, <3>2 DEF Good
  <2>13. Changed(h, f, p)
    <3>1. p \in f.blocks /\ f.used[p]
      BY <1>1, <2>6, <2>8, <2>9
    <3>2. ASSUME NEW c \in h.blocks
          PROVE  c \in f.blocks /\ (c # p => f.next[c] = h.next[c] /\ f.used[c] = h.used[c])
      <4>1. c \in Offsets /\ c # b2
        BY <1>1, <2>4
      <4> QED BY <2>6, <2>8, <2>9, <4>1
    <3>3. ASSUME NEW c \in f.blocks \ h.blocks PROVE ~f.used[c] /\ c # ram_end /\ p < c
      <4>1. c = b2
        BY <2>6, <2>8
      <4>2. p # b2
        BY <1>1, <2>4
      <4>3. ~f.used[b2]
        BY <2>4, <2>6, <2>9, <4>2
      <4> QED BY <2>4, <4>1, <4>3
    <3>4. ASSUME NEW c \in Offsets PROVE f.next[c] = h.next[c] \/ (p <= c /\ c < h.next[p])
      BY <1>1, <1>2, <1>3, <2>4, <2>6, <2>8
    <3> QED BY <3>1, <3>2, <3>3, <3>4 DEF Changed
  <2>14. s <= Room(f, p)
    <3>1. f.next[p] = p + SIZEOF + s
      BY <1>1, <2>1, <2>6, <2>8
    <3> QED BY <1>1, <1>5, <3>1 DEF Room
  <2>15. p # h.lfree /\ LfreeFree(h) => LfreeFree(f)
    <3>1. f.lfree = h.lfree /\ h.lfree # b2
      BY <1>1, <2>4, <2>6, <2>8
    <3>2. p # h.lfree => f.used[h.lfree] = h.used[h.lfree]
      BY <1>1, <2>6, <2>9, <3>1
    <3> QED BY <3>1, <3>2 DEF LfreeFree
  <2> QED BY <1>4, <2>6, <2>8, <2>10, <2>12, <2>13, <2>14, <2>15
<1>7. CASE ~(Room(h, p) >= s + SIZEOF + MIN_SIZE)
  <2>1. PICK f \in Heaps : f = MarkUsed(h, p)
    BY <1>1, MarkUsedFields
  <2>2. /\ f.next = h.next /\ f.prev = h.prev /\ f.blocks = h.blocks /\ f.lfree = h.lfree
        /\ f.used = [h.used EXCEPT ![p] = TRUE]
    BY <1>1, <2>1, MarkUsedFields
  <2>3. \A c \in Offsets : f.used[c] = IF c = p THEN TRUE ELSE h.used[c]
    <3>1. h.used \in [Offsets -> BOOLEAN]
      BY <1>1, HeapType
    <3> QED BY <2>2, <3>1
  <2>4. Taken(h, p, s) = f
    BY <1>7, <2>1 DEF Taken
  <2>5. Good(f, x, E, L)
    BY <2>1, MarkUsedGood
  <2>6. Changed(h, f, p)
    BY <1>1, <2>2, <2>3 DEF Changed
  <2>7. Room(f, p) = Room(h, p)
    BY <2>2 DEF Room
  <2>8. p # h.lfree /\ LfreeFree(h) => LfreeFree(f)
    BY <1>1, <2>2, <2>3 DEF LfreeFree
  <2> QED BY <1>4, <2>2, <2>4, <2>5, <2>6, <2>7, <2>8
<1> QED BY <1>6, <1>7

(* The heap after mem_trim. *)
Trimmed(h, b, s) ==
    LET n == h.next[b]
        b2 == b + SIZEOF + s
    IN  IF ~h.used[n] THEN MoveNext(h, b, b2, n)
        ELSE IF s + SIZEOF + MIN_SIZE <= Room(h, b) THEN SplitOff(h, b, b2) ELSE h

LEMMA MoveAt ==
    ASSUME NEW h \in Heaps, NEW b \in Offsets, NEW b2 \in Offsets, NEW n \in Offsets, h.next[n] # b2, b # b2
    PROVE  /\ MoveNext(h, b, b2, n) \in Heaps
           /\ MoveNext(h, b, b2, n).lfree = IF h.lfree = n THEN b2 ELSE h.lfree
           /\ MoveNext(h, b, b2, n).blocks = (h.blocks \cup {b2}) \ {n}
           /\ Inserted(h, Insert(h, b, b2, h.next[n]), b, b2, h.next[n])
           /\ MoveNext(h, b, b2, n).next = Insert(h, b, b2, h.next[n]).next
           /\ MoveNext(h, b, b2, n).prev = Insert(h, b, b2, h.next[n]).prev
           /\ MoveNext(h, b, b2, n).used = Insert(h, b, b2, h.next[n]).used
<1>1. h.next[n] \in Offsets
  BY HeapType
<1>2. PICK g : g = Insert(h, b, b2, h.next[n])
  OBVIOUS
<1>3. Inserted(h, g, b, b2, h.next[n])
  BY <1>1, <1>2, InsertAt
<1>4. g \in Heaps /\ g.lfree = h.lfree /\ g.blocks = h.blocks \cup {b2}
  BY <1>3 DEF Inserted
<1>5. PICK f : f = [g EXCEPT !.blocks = g.blocks \ {n}, !.lfree = IF g.lfree = n THEN b2 ELSE g.lfree]
  OBVIOUS
<1>6. /\ f.next = g.next /\ f.prev = g.prev /\ f.used = g.used /\ f.blocks = g.blocks \ {n}
      /\ f.lfree = (IF g.lfree = n THEN b2 ELSE g.lfree) /\ f \in Heaps
  BY <1>4, <1>5 DEF Heaps
<1>7. MoveNext(h, b, b2, n) = f
  BY <1>2, <1>5 DEF MoveNext
<1> QED BY <1>2, <1>3, <1>4, <1>6, <1>7

LEMMA MoveGood ==
    ASSUME NEW h, NEW x, NEW E, NEW L, Good(h, x, E, L), NEW b \in h.blocks \ {ram_end}, h.used[b],
           NEW s \in Nat, MIN_SIZE <= s, s < Room(h, b), ~h.used[h.next[b]],
           h.next[b] # x, h.next[b] \notin E,
           h.next[b] \in L => \A c \in Offsets : c \notin h.blocks => c \in L,
           NEW f, f = MoveNext(h, b, b + SIZEOF + s, h.next[b])
    PROVE  /\ Good(f, x, E, L) /\ Changed(h, f, b)
           /\ s <= Room(f, b) /\ (LfreeFree(h) => LfreeFree(f))
<1>1. /\ h \in Heaps /\ List(h.next, h.prev, h.used, h.blocks, x) /\ b \in Offsets /\ b \in Nat
      /\ h.blocks \subseteq Offsets /\ h.lfree \in h.blocks /\ h.lfree \in Nat /\ h.lfree \in Offsets
      /\ h.lfree <= ram_end
  BY GoodType
<1>2. PICK n \in Offsets : n = h.next[b]
  BY <1>1, Ahead
<1>3. n \in Nat /\ ram_end \in Nat /\ n \in h.blocks /\ b < n /\ n # ram_end /\ ~h.used[n]
  <2>1. n \in Nat /\ ram_end \in Nat /\ n \in h.blocks /\ b < n
    BY <1>1, <1>2, Ahead, OffsetType
  <2>2. ~h.used[n]
    BY <1>2
  <2>3. h.used[ram_end]
    BY <1>1 DEF List
  <2> QED BY <2>1, <2>2, <2>3
<1>4. PICK m \in Offsets : m = h.next[n]
  BY <1>1, <1>3, Ahead
<1>5. m \in Nat /\ n < m /\ n < ram_end /\ m \in h.blocks /\ h.used[m]
  BY <1>1, <1>2, <1>3, <1>4, Ahead DEF Good
<1>6. Room(h, b) = n - (b + SIZEOF) /\ SIZEOF \in Nat /\ MIN_SIZE \in Nat /\ SIZEOF >= 1
  BY <1>2, Consts DEF Room
<1>7. PICK b2 \in Nat : b2 = b + SIZEOF + s
  BY <1>1, <1>6
<1>8. b + SIZEOF + MIN_SIZE <= b2 /\ b < b2 /\ b2 < n
  BY <1>1, <1>3, <1>6, <1>7
<1>9. b2 \in Offsets /\ m # b2 /\ b # b2 /\ n # b2
  BY <1>1, <1>3, <1>5, <1>8, OffsetType
<1>10. PICK g : g = Insert(h, b, b2, m)
  OBVIOUS
<1>11. f = MoveNext(h, b, b2, n)
  BY <1>2, <1>7
<1>12. /\ f \in Heaps /\ f.lfree = (IF h.lfree = n THEN b2 ELSE h.lfree)
       /\ f.blocks = (h.blocks \cup {b2}) \ {n} /\ Inserted(h, g, b, b2, m)
       /\ f.next = g.next /\ f.prev = g.prev /\ f.used = g.used
  BY <1>1, <1>4, <1>9, <1>10, <1>11, MoveAt
<1>13. /\ f.next \in [Offsets -> Offsets] /\ f.prev \in [Offsets -> Offsets]
       /\ f.used \in [Offsets -> BOOLEAN]
       /\ \A c \in Offsets : f.next[c] = IF c = b THEN b2 ELSE IF c = b2 THEN m ELSE h.next[c]
       /\ \A c \in Offsets \ {ram_end} : f.prev[c] = IF c = m THEN b2 ELSE IF c = b2 THEN b ELSE h.prev[c]
       /\ \A c \in Offsets : f.used[c] = IF c = b2 THEN FALSE ELSE h.used[c]
  <2>1. Inserted(h, g, b, b2, m) /\ f.next = g.next /\ f.prev = g.prev /\ f.used = g.used
    BY <1>12
  <2>2. /\ g.next \in [Offsets -> Offsets] /\ g.prev \in [Offsets -> Offsets]
        /\ g.used \in [Offsets -> BOOLEAN]
    BY <2>1 DEF Inserted
  <2>3. \A c \in Offsets : g.next[c] = IF c = b THEN b2 ELSE IF c = b2 THEN m ELSE h.next[c]
    BY <2>1 DEF Inserted
  <2>4. \A c \in Offsets \ {ram_end} : g.prev[c] = IF c = m THEN b2 ELSE IF c = b2 THEN b ELSE h.prev[c]
    BY <2>1 DEF Inserted
  <2>5. \A c \in Offsets : g.used[c] = IF c = b2 THEN FALSE ELSE h.used[c]
    BY <2>1 DEF Inserted
  <2> QED BY <2>1, <2>2, <2>3, <2>4, <2>5
<1>14. f.blocks = (h.blocks \ {n}) \cup {b2}
  BY <1>9, <1>12
<1>15. List(f.next, f.prev, f.used, f.blocks, x) /\ b2 # ram_end /\ b2 \notin h.blocks
  <2>1. Spliced(h.next, h.prev, f.next, f.prev, b, b2, h.next[h.next[b]])
    BY <1>2, <1>4, <1>13 DEF Spliced
  <2>2. f.used[ram_end]
    <3>1. ram_end # b2 /\ ram_end \in Offsets /\ h.used[ram_end]
      BY <1>1, <1>5, <1>8, OffsetType DEF List
    <3> QED BY <1>13, <3>1
  <2>3. h.next[b] # ram_end /\ b2 < h.next[b]
    BY <1>2, <1>3, <1>8
  <2>4. /\ List(f.next, f.prev, f.used, (h.blocks \ {h.next[b]}) \cup {b2}, x)
        /\ b2 \in Offsets \ {ram_end} /\ b2 \notin h.blocks
    <3>1. List(h.next, h.prev, h.used, h.blocks, x)
      BY <1>1
    <3>2. /\ f.next \in [Offsets -> Offsets] /\ f.prev \in [Offsets -> Offsets]
          /\ f.used \in [Offsets -> BOOLEAN]
      BY <1>13
    <3>3. PICK hn, hp, hu, nx, pv, us :
             /\ hn = h.next /\ hp = h.prev /\ hu = h.used
             /\ nx = f.next /\ pv = f.prev /\ us = f.used
      OBVIOUS
    <3>4. /\ List(nx, pv, us, (h.blocks \ {hn[b]}) \cup {b2}, x)
          /\ b2 \in Offsets \ {ram_end} /\ b2 \notin h.blocks
      <4>1. /\ List(hn, hp, hu, h.blocks, x) /\ hn[b] # ram_end /\ hn[b] # x /\ b2 < hn[b]
            /\ us \in [Offsets -> BOOLEAN] /\ us[ram_end]
            /\ nx \in [Offsets -> Offsets] /\ pv \in [Offsets -> Offsets]
            /\ Spliced(hn, hp, nx, pv, b, b2, hn[hn[b]])
        BY <2>1, <2>2, <2>3, <3>1, <3>2, <3>3
      <4> QED BY ONLY <1>8, <4>1, MoveList, b \in h.blocks \ {ram_end}, b2 \in Nat
    <3> QED BY <3>3, <3>4
  <2> QED BY <1>2, <1>14, <2>4
<1>16. ASSUME NEW c \in f.blocks \ {ram_end}, c \notin E, ~f.used[c] PROVE f.used[f.next[c]]
  <2>1. CASE c = b2
    <3>1. f.next[b2] = m
      BY <1>9, <1>13
    <3>2. f.used[m] = h.used[m]
      BY <1>9, <1>13
    <3> QED BY <1>5, <2>1, <3>1, <3>2
  <2>2. CASE c # b2
    <3>1. c \in h.blocks \ {ram_end} /\ c \in Offsets /\ h.next[c] \in h.blocks /\ h.next[c] \in Offsets
      BY <1>1, <1>14, <2>2, Ahead
    <3>2. f.used[c] = h.used[c] /\ c # b
      BY <1>1, <1>9, <1>13, <1>16, <2>2, <3>1
    <3>3. f.next[c] = h.next[c] /\ h.used[h.next[c]] /\ h.next[c] # b2
      BY <1>13, <1>15, <1>16, <2>2, <3>1, <3>2 DEF Good
    <3> QED BY <1>13, <3>1, <3>3
  <2> QED BY <2>1, <2>2
<1>17. f.lfree \in f.blocks
  BY <1>1, <1>12, <1>14
<1>18. n \notin L => h.lfree <= n /\ (h.lfree = n \/ h.lfree <= b)
  <2>1. n \notin L => h.lfree <= n
    BY <1>2, <1>3 DEF Good
  <2>2. \A c \in h.blocks : c <= b \/ n <= c
    BY <1>1, <1>2 DEF List
  <2> QED BY <1>1, <1>3, <2>1, <2>2
<1>19. ASSUME NEW c \in f.blocks \ {ram_end}, c \notin L, ~f.used[c] PROVE f.lfree <= c
  <2>1. CASE c = b2
    <3>1. n \notin L
      BY <1>2, <1>9, <1>15, <1>19, <2>1
    <3> QED BY <1>1, <1>8, <1>12, <1>18, <2>1, <3>1
  <2>2. CASE c # b2
    <3>1. c \in h.blocks \ {ram_end} /\ c \in Offsets /\ c \in Nat
      BY <1>1, <1>14, <2>2, OffsetType
    <3>2. ~h.used[c] /\ h.lfree <= c
      BY <1>13, <1>19, <2>2, <3>1 DEF Good
    <3> QED BY <1>3, <1>8, <1>12, <3>1, <3>2
  <2> QED BY <2>1, <2>2
<1>20. Good(f, x, E, L)
  BY <1>12, <1>15, <1>16, <1>17, <1>19 DEF Good
<1>21. Changed(h, f, b)
  <2>1. b \in f.blocks /\ f.used[b]
    BY <1>1, <1>3, <1>9, <1>13, <1>14
  <2>2. ASSUME NEW c \in h.blocks
        PROVE  /\ c \in f.blocks \/ (c = h.next[b] /\ ~h.used[c])
               /\ c # b => f.next[c] = h.next[c] /\ f.used[c] = h.used[c]
    <3>1. c \in Offsets /\ c # b2
      BY <1>1, <1>15
    <3> QED BY <1>2, <1>3, <1>13, <1>14, <3>1
  <2>3. ASSUME NEW c \in f.blocks \ h.blocks PROVE ~f.used[c] /\ c # ram_end /\ b < c
    BY <1>8, <1>9, <1>13, <1>14, <1>15
  <2>4. ASSUME NEW c \in Offsets PROVE f.next[c] = h.next[c] \/ (b <= c /\ c < h.next[b])
    BY <1>1, <1>2, <1>3, <1>8, <1>13
  <2> QED BY <2>1, <2>2, <2>3, <2>4 DEF Changed
<1>22. s <= Room(f, b)
  <2>1. f.next[b] = b + SIZEOF + s
    BY <1>1, <1>7, <1>13
  <2> QED BY <1>1, <1>6, <2>1 DEF Room
<1>23. LfreeFree(h) => LfreeFree(f)
  <2>1. CASE h.lfree = n
    <3>1. f.lfree = b2 /\ ~f.used[b2]
      BY <1>9, <1>12, <1>13, <2>1
    <3> QED BY <3>1 DEF LfreeFree
  <2>2. CASE h.lfree # n
    <3>1. f.lfree = h.lfree /\ h.lfree # b2
      BY <1>1, <1>12, <1>15, <2>2
    <3>2. f.used[h.lfree] = h.used[h.lfree]
      BY <1>1, <1>13, <3>1
    <3> QED BY <3>1, <3>2 DEF LfreeFree
  <2> QED BY <2>1, <2>2
<1> QED BY <1>20, <1>21, <1>22, <1>23

LEMMA SplitOffGood ==
    ASSUME NEW h, NEW x, NEW E, NEW L, Good(h, x, E, L), NEW b \in h.blocks \ {ram_end}, h.used[b],
           NEW s \in Nat, MIN_SIZE <= s, s + SIZEOF + MIN_SIZE <= Room(h, b), h.used[h.next[b]],
           NEW f, f = SplitOff(h, b, b + SIZEOF + s)
    PROVE  /\ Good(f, x, E, L) /\ Changed(h, f, b)
           /\ s <= Room(f, b) /\ (LfreeFree(h) => LfreeFree(f))
<1>1. /\ h \in Heaps /\ List(h.next, h.prev, h.used, h.blocks, x) /\ b \in Offsets /\ b \in Nat
      /\ h.blocks \subseteq Offsets /\ h.lfree \in h.blocks /\ h.lfree \in Nat /\ h.lfree \in Offsets
      /\ h.lfree <= ram_end
  BY GoodType
<1>2. PICK n \in Offsets : n = h.next[b]
  BY <1>1, Ahead
<1>3. n \in Nat /\ n <= ram_end /\ ram_end \in Nat /\ n \in h.blocks /\ b < n /\ h.used[n]
  BY <1>1, <1>2, Ahead, OffsetType
<1>4. Room(h, b) = n - (b + SIZEOF) /\ SIZEOF \in Nat /\ MIN_SIZE \in Nat
  BY <1>2, Consts DEF Room
<1>5. PICK b2 \in Nat : b2 = b + SIZEOF + s
  BY <1>1, <1>4
<1>6. b + SIZEOF + MIN_SIZE <= b2 /\ b2 + SIZEOF + MIN_SIZE <= n /\ h.used[h.next[b]]
  BY <1>1, <1>2, <1>3, <1>4, <1>5
<1>7. PICK g : g = Insert(h, b, b2, n)
  OBVIOUS
<1>8. /\ b2 \in Offsets \ {ram_end} /\ b2 \notin h.blocks /\ b < b2 /\ b2 < n
      /\ Good(g, x, E \cup {b}, L \cup {b2})
  BY <1>2, <1>6, <1>7, SplitGood
<1>9. Inserted(h, g, b, b2, n)
  <2>1. n # b2 /\ b # b2
    BY <1>1, <1>3, <1>8
  <2> QED BY <1>1, <1>7, <1>8, <2>1, InsertAt
<1>10. /\ g \in Heaps /\ g.lfree = h.lfree /\ g.blocks = h.blocks \cup {b2}
       /\ \A c \in Offsets : g.next[c] = IF c = b THEN b2 ELSE IF c = b2 THEN n ELSE h.next[c]
       /\ \A c \in Offsets : g.used[c] = IF c = b2 THEN FALSE ELSE h.used[c]
  BY <1>9 DEF Inserted
<1>11. f = Lower(g, b2)
  BY <1>2, <1>5, <1>7 DEF SplitOff, Lower
<1>12. /\ f \in Heaps /\ f.next = g.next /\ f.blocks = g.blocks /\ f.used = g.used
       /\ f.lfree = (IF b2 < g.lfree THEN b2 ELSE g.lfree)
  BY <1>8, <1>10, <1>11, LowerFields
<1>13. Good(f, x, E, L)
  <2>1. Good(f, x, E \cup {b}, L)
    <3>1. b2 \in g.blocks
      BY <1>10
    <3> QED BY <1>8, <1>11, <3>1, LowerGood
  <2>2. f.used[b]
    BY <1>1, <1>8, <1>10, <1>12
  <2>3. \A c \in (E \cup {b}) \ E : c \notin f.blocks \ {ram_end} \/ f.used[c] \/ f.used[f.next[c]]
    BY <2>2
  <2> QED BY <2>1, <2>3, GoodWeaker
<1>14. Changed(h, f, b)
  <2>1. b \in f.blocks /\ f.used[b]
    BY <1>1, <1>8, <1>10, <1>12
  <2>2. ASSUME NEW c \in h.blocks
        PROVE  c \in f.blocks /\ (c # b => f.next[c] = h.next[c] /\ f.used[c] = h.used[c])
    <3>1. c \in Offsets /\ c # b2
      BY <1>1, <1>8
    <3> QED BY <1>10, <1>12, <3>1
  <2>3. ASSUME NEW c \in f.blocks \ h.blocks PROVE ~f.used[c] /\ c # ram_end /\ b < c
    <3>1. c = b2
      BY <1>10, <1>12
    <3> QED BY <1>8, <1>10, <1>12, <3>1
  <2>4. ASSUME NEW c \in Offsets PROVE f.next[c] = h.next[c] \/ (b <= c /\ c < h.next[b])
    BY <1>1, <1>2, <1>3, <1>8, <1>10, <1>12
  <2> QED BY <2>1, <2>2, <2>3, <2>4 DEF Changed
<1>15. s <= Room(f, b)
  <2>1. f.next[b] = b + SIZEOF + s
    BY <1>1, <1>5, <1>10, <1>12
  <2> QED BY <1>1, <1>4, <2>1 DEF Room
<1>16. LfreeFree(h) => LfreeFree(f)
  <2>1. CASE b2 < g.lfree
    <3>1. f.lfree = b2 /\ ~f.used[b2]
      BY <1>8, <1>10, <1>12, <2>1
    <3> QED BY <3>1 DEF LfreeFree
  <2>2. CASE ~(b2 < g.lfree)
    <3>1. f.lfree = h.lfree /\ h.lfree # b2
      BY <1>1, <1>8, <1>10, <1>12, <2>2
    <3>2. f.used[h.lfree] = h.used[h.lfree]
      BY <1>1, <1>10, <1>12, <3>1
    <3> QED BY <3>1, <3>2 DEF LfreeFree
  <2> QED BY <2>1, <2>2
<1> QED BY <1>13, <1>14, <1>15, <1>16

HalfJoined(g, h, a, b, E, L) ==
    /\ Good(g, h.next[b], E \ {a}, L)
    /\ b \in h.blocks \ {ram_end} /\ a < b /\ b < h.next[b] /\ h.next[b] \in h.blocks
    /\ g.used = h.used /\ g.prev = h.prev /\ g.lfree = h.lfree /\ g.blocks = h.blocks \ {b}
    /\ g.next[a] = h.next[b] /\ \A c \in Offsets : c # a => g.next[c] = h.next[c]

LEMMA TrimGood ==
    ASSUME NEW h, NEW x, NEW E, NEW L, Good(h, x, E, L), NEW b \in h.blocks \ {ram_end}, h.used[b],
           NEW s \in Nat, MIN_SIZE <= s, s < Room(h, b),
           ~h.used[h.next[b]] =>
              /\ h.next[b] # x /\ h.next[b] \notin E
              /\ h.next[b] \in L => \A c \in Offsets : c \notin h.blocks => c \in L
    PROVE  /\ Good(Trimmed(h, b, s), x, E, L) /\ Changed(h, Trimmed(h, b, s), b)
           /\ s <= Room(Trimmed(h, b, s), b)
           /\ LfreeFree(h) => LfreeFree(Trimmed(h, b, s))
<1>1. CASE ~h.used[h.next[b]]
  <2>1. Trimmed(h, b, s) = MoveNext(h, b, b + SIZEOF + s, h.next[b])
    BY <1>1 DEF Trimmed
  <2> QED BY <1>1, <2>1, MoveGood
<1>2. CASE h.used[h.next[b]] /\ s + SIZEOF + MIN_SIZE <= Room(h, b)
  <2>1. Trimmed(h, b, s) = SplitOff(h, b, b + SIZEOF + s)
    BY <1>2 DEF Trimmed
  <2> QED BY <1>2, <2>1, SplitOffGood
<1>3. CASE h.used[h.next[b]] /\ ~(s + SIZEOF + MIN_SIZE <= Room(h, b))
  <2>1. Trimmed(h, b, s) = h
    BY <1>3 DEF Trimmed
  <2>2. Changed(h, h, b)
    BY DEF Changed
  <2>3. s \in Nat /\ Room(h, b) \in Int
    <3>1. h.next[b] \in Nat /\ b \in Nat
      BY GoodType, Ahead
    <3> QED BY <3>1, Consts DEF Room
  <2> QED BY <2>1, <2>2, <2>3
<1> QED BY <1>1, <1>2, <1>3
-----------------------------------------------------------------------------
(* The main thread joins two blocks statement by statement.                 *)

LEMMA HalfJoinGood ==
    ASSUME NEW h, NEW E, NEW L, Good(h, ram_end, E, L), NEW a \in h.blocks \ {ram_end},
           NEW b, b = h.next[a], b # ram_end, b \notin E, ~h.used[b], h.lfree # b,
           NEW g, g = MergeNext(h, a, b)
    PROVE  HalfJoined(g, h, a, b, E, L)
<1>1. /\ h \in Heaps /\ List(h.next, h.prev, h.used, h.blocks, ram_end) /\ h.lfree \in h.blocks
      /\ h.blocks \subseteq Offsets /\ a \in Offsets
  BY GoodType
<1>2. b \in h.blocks \ {ram_end} /\ b \in Offsets /\ a < b
  BY <1>1, Ahead
<1>3. g \in Heaps
  BY <1>1, <1>2, MergeNextFields
<1>4. /\ g.prev = h.prev /\ g.used = h.used /\ g.lfree = h.lfree /\ g.blocks = h.blocks \ {b}
      /\ g.next = [h.next EXCEPT ![a] = h.next[b]]
  BY <1>1, <1>2, MergeNextFields
<1>5. h.next \in [Offsets -> Offsets] /\ b < h.next[b] /\ h.next[b] \in h.blocks
  BY <1>1, <1>2, HeapType, Ahead
<1>6. g.next[a] = h.next[b] /\ \A c \in Offsets : c # a => g.next[c] = h.next[c]
  BY <1>1, <1>4, <1>5
<1>7. List(g.next, g.prev, g.used, g.blocks, h.next[b])
  <2>1. h.next[a] # ram_end /\ ram_end \in {h.next[a], h.next[h.next[a]], ram_end}
    OBVIOUS
  <2>2. List([h.next EXCEPT ![a] = h.next[h.next[a]]], h.prev, h.used, h.blocks \ {h.next[a]},
             h.next[h.next[a]])
    BY <1>1, <2>1, JoinList
  <2> QED BY <1>4, <2>2
<1>8. ASSUME NEW c \in g.blocks \ {ram_end}, c \notin E \ {a}, ~g.used[c] PROVE g.used[g.next[c]]
  <2>1. c \in h.blocks \ {ram_end} /\ c \in Offsets
    BY <1>1, <1>4
  <2>2. CASE c = a
    BY <1>2, <1>4, <1>6, <2>2 DEF Good
  <2>3. CASE c # a
    BY <1>4, <1>6, <1>8, <2>1, <2>3 DEF Good
  <2> QED BY <2>2, <2>3
<1>9. ASSUME NEW c \in g.blocks \ {ram_end}, c \notin L, ~g.used[c] PROVE g.lfree <= c
  BY <1>4, <1>9 DEF Good
<1>10. Good(g, h.next[b], E \ {a}, L)
  BY <1>1, <1>3, <1>4, <1>7, <1>8, <1>9 DEF Good
<1> QED BY <1>2, <1>4, <1>5, <1>6, <1>10 DEF HalfJoined

LEMMA SetPrevGood ==
    ASSUME NEW h, NEW E, NEW L, NEW a \in h.blocks \ {ram_end}, NEW b \in Offsets,
           Good(h, h.next[a], E, L), h.next[b] = h.next[a],
           NEW g, g = MergePrev(h, a, b)
    PROVE  /\ Good(g, ram_end, E, L)
           /\ g.used = h.used /\ g.next = h.next /\ g.lfree = h.lfree /\ g.blocks = h.blocks
           /\ \A c \in Offsets : c # h.next[a] => g.prev[c] = h.prev[c]
<1>1. /\ h \in Heaps /\ List(h.next, h.prev, h.used, h.blocks, h.next[a]) /\ h.lfree \in h.blocks
      /\ h.blocks \subseteq Offsets /\ a \in Offsets /\ a \in Nat
  BY GoodType
<1>2. PICK n \in Offsets : n = h.next[a]
  BY <1>1, Ahead
<1>3. g \in Heaps
  BY <1>1, MergePrevFields
<1>4. /\ g.next = h.next /\ g.used = h.used /\ g.lfree = h.lfree /\ g.blocks = h.blocks
      /\ g.prev = [h.prev EXCEPT ![h.next[b]] = a]
  BY <1>1, MergePrevFields
<1>5. h.prev \in [Offsets -> Offsets] /\ g.prev \in [Offsets -> Offsets]
  BY <1>1, <1>3, HeapType
<1>6. g.prev[n] = a /\ \A c \in Offsets : c # n => g.prev[c] = h.prev[c]
  BY <1>1, <1>2, <1>4, <1>5
<1>7. n # 0 /\ n \in h.blocks
  <2>1. a < n /\ n \in Nat /\ n \in h.blocks
    BY <1>1, <1>2, Ahead
  <2> QED BY <1>1, <2>1
<1>8. ASSUME NEW c \in h.blocks \ {ram_end}, c # 0, c # ram_end
      PROVE  g.prev[c] \in h.blocks \ {ram_end} /\ h.next[g.prev[c]] = c
  <2>1. CASE c = n
    BY <1>2, <1>6, <2>1
  <2>2. CASE c # n
    <3>1. c \in Offsets /\ h.prev[c] \in h.blocks \ {ram_end} /\ h.next[h.prev[c]] = c
      BY <1>1, <1>2, <1>8, <2>2 DEF List
    <3> QED BY <1>6, <2>2, <3>1
  <2> QED BY <2>1, <2>2
<1>9. g.prev[0] = 0
  BY <1>1, <1>6, <1>7 DEF List
<1>10. List(h.next, g.prev, h.used, h.blocks, ram_end)
  BY <1>1, <1>5, <1>8, <1>9 DEF List
<1>11. Good(g, ram_end, E, L)
  BY <1>3, <1>4, <1>10 DEF Good
<1> QED BY <1>2, <1>4, <1>6, <1>11
-----------------------------------------------------------------------------
(* The regions handed out are the used blocks.                               *)

Held(h, a) ==
    \A b \in Offsets : /\ a[b] > 0 <=> b \in h.blocks \ {ram_end} /\ h.used[b]
                       /\ a[b] > 0 => a[b] <= Room(h, b)

(* Still so when m, a block freed or never used, and other free ones are changed. *)
LEMMA HeldLess ==
    ASSUME NEW h, NEW g, NEW a \in [Offsets -> Offsets], Held(h, a), NEW m \in Offsets,
           \A c \in Offsets : g.used[c] <=> h.used[c] /\ c # m,
           \A c \in Offsets : c \in g.blocks => c \in h.blocks,
           \A c \in h.blocks : c # m /\ h.used[c] => c \in g.blocks /\ g.next[c] = h.next[c]
    PROVE  Held(g, [a EXCEPT ![m] = 0])
<1>1. PICK f \in [Offsets -> Offsets] : f = [a EXCEPT ![m] = 0]
  BY OffsetType
<1>2. f[m] = 0 /\ \A c \in Offsets : c # m => f[c] = a[c]
  BY <1>1
<1>3. ASSUME NEW b \in Offsets
      PROVE  /\ f[b] > 0 <=> b \in g.blocks \ {ram_end} /\ g.used[b]
             /\ f[b] > 0 => f[b] <= Room(g, b)
  <2>1. CASE b = m
    BY <1>2, <2>1
  <2>2. CASE b # m
    <3>1. f[b] = a[b] /\ (g.used[b] <=> h.used[b])
      BY <1>2, <2>2
    <3>2. a[b] > 0 <=> b \in h.blocks \ {ram_end} /\ h.used[b]
      BY DEF Held
    <3>3. a[b] > 0 => Room(g, b) = Room(h, b) /\ a[b] <= Room(h, b)
      BY <2>2, <3>2 DEF Held, Room
    <3> QED BY <2>2, <3>1, <3>2, <3>3
  <2> QED BY <2>1, <2>2
<1> QED BY <1>1, <1>3 DEF Held

LEMMA HeldChanged ==
    ASSUME NEW h, NEW g, NEW a \in [Offsets -> Offsets], Held(h, a), NEW b \in h.blocks \ {ram_end},
           b \in Offsets, Changed(h, g, b), NEW s \in Offsets, s > 0, s <= Room(g, b)
    PROVE  Held(g, [a EXCEPT ![b] = s])
<1>1. PICK f \in [Offsets -> Offsets] : f = [a EXCEPT ![b] = s]
  OBVIOUS
<1>2. f[b] = s /\ \A c \in Offsets : c # b => f[c] = a[c]
  BY <1>1
<1>3. ASSUME NEW c \in Offsets
      PROVE  /\ f[c] > 0 <=> c \in g.blocks \ {ram_end} /\ g.used[c]
             /\ f[c] > 0 => f[c] <= Room(g, c)
  <2>1. CASE c = b
    BY <1>2, <2>1 DEF Changed
  <2>2. CASE c # b
    <3>1. f[c] = a[c]
      BY <1>2, <2>2
    <3>2. /\ a[c] > 0 <=> c \in h.blocks \ {ram_end} /\ h.used[c]
          /\ a[c] > 0 => a[c] <= Room(h, c)
      BY DEF Held
    <3>3. CASE c \in h.blocks
      <4>1. (c \in g.blocks \/ ~h.used[c]) /\ g.next[c] = h.next[c] /\ g.used[c] = h.used[c]
        BY <2>2, <3>3 DEF Changed
      <4>2. Room(g, c) = Room(h, c)
        BY <4>1 DEF Room
      <4> QED BY <3>1, <3>2, <3>3, <4>1, <4>2
    <3>4. CASE c \notin h.blocks
      <4>1. c \in g.blocks => ~g.used[c]
        BY <3>4 DEF Changed
      <4> QED BY <3>1, <3>2, <3>4, <4>1
    <3> QED BY <3>3, <3>4
  <2> QED BY <2>1, <2>2
<1> QED BY <1>1, <1>3 DEF Held
-----------------------------------------------------------------------------
(* What is true of the heap even when the interrupt disturbs the main thread. *)

LEMMA FreeHeap ==
    ASSUME NEW h \in Heaps, NEW m \in Offsets
    PROVE  /\ Freed(h, m) \in Heaps /\ ~Freed(h, m).used[m]
           /\ NextFree(h, m) => h.next[m] \notin Freed(h, m).blocks
<1>1. PICK h1 \in Heaps : h1 = MarkFree(h, m)
  BY MarkFreeFields
<1>2. /\ h1.next = h.next /\ h1.blocks = h.blocks /\ h1.used = [h.used EXCEPT ![m] = FALSE]
      /\ h1.prev = h.prev /\ h1.lfree = h.lfree
  BY <1>1, MarkFreeFields
<1>3. PICK h2 \in Heaps : h2 = Lower(h1, m)
  BY LowerFields
<1>4. /\ h2.next = h1.next /\ h2.blocks = h1.blocks /\ h2.used = h1.used
      /\ h2.prev = h1.prev /\ h2.lfree = IF m < h1.lfree THEN m ELSE h1.lfree
  BY <1>3, LowerFields
<1>5. PICK h3 \in Heaps : h3 = PlugForward(h2, m)
  BY ForwardHeap
<1>6. /\ h3.used = h2.used
      /\ h3.blocks = IF NextFree(h2, m) THEN h2.blocks \ {h2.next[m]} ELSE h2.blocks
  BY <1>5, ForwardFields
<1>7. PICK h4 \in Heaps : h4 = PlugBackward(h3, m)
  BY BackwardHeap
<1>8. h4.used = h3.used /\ h4.blocks = IF PrevFree(h3, m) THEN h3.blocks \ {m} ELSE h3.blocks
  BY <1>7, BackwardFields
<1>9. Freed(h, m) = h4
  BY <1>1, <1>3, <1>5, <1>7 DEF Freed, plug_holes
<1>10. ~h4.used[m]
  <2>1. h.used \in [Offsets -> BOOLEAN]
    BY HeapType
  <2> QED BY <1>2, <1>4, <1>6, <1>8, <2>1
<1>11. NextFree(h, m) => h.next[m] \notin h4.blocks
  <2>1. ASSUME NextFree(h, m) PROVE NextFree(h2, m)
    <3>1. h.next[m] # m /\ ~h.used[h.next[m]] /\ h.next[m] # ram_end /\ h.next[m] \in Offsets
      BY <2>1, HeapType DEF NextFree
    <3>2. h.used \in [Offsets -> BOOLEAN]
      BY HeapType
    <3>3. ~h2.used[h.next[m]]
      BY <1>2, <1>4, <3>1, <3>2
    <3> QED BY <1>2, <1>4, <3>1, <3>3 DEF NextFree
  <2> QED BY <1>2, <1>4, <1>6, <1>8, <2>1
<1> QED BY <1>9, <1>10, <1>11

LEMMA TakeHeap ==
    ASSUME NEW h, NEW x, NEW E, NEW L, Good(h, x, E, L), NEW p \in h.blocks \ {ram_end},
           NEW s \in Nat, s <= Room(h, p)
    PROVE  Taken(h, p, s) \in Heaps /\ Taken(h, p, s).used[p]
<1>1. /\ h \in Heaps /\ List(h.next, h.prev, h.used, h.blocks, x) /\ p \in Offsets /\ p \in Nat
  BY GoodType
<1>2. PICK n \in Offsets : n = h.next[p]
  BY <1>1, Ahead
<1>3. n \in Nat /\ n <= ram_end /\ ram_end \in Nat
  BY <1>1, <1>2, Ahead, OffsetType
<1>4. Room(h, p) = n - (p + SIZEOF) /\ SIZEOF \in Nat /\ MIN_SIZE \in Nat /\ SIZEOF >= 1
  BY <1>2, Consts DEF Room
<1>5. \A g \in Heaps : MarkUsed(g, p) \in Heaps /\ MarkUsed(g, p).used[p]
  <2>1. ASSUME NEW g \in Heaps PROVE MarkUsed(g, p) \in Heaps /\ MarkUsed(g, p).used[p]
    <3>1. MarkUsed(g, p) \in Heaps /\ MarkUsed(g, p).used = [g.used EXCEPT ![p] = TRUE]
      BY <1>1, MarkUsedFields
    <3>2. g.used \in [Offsets -> BOOLEAN]
      BY HeapType
    <3> QED BY <1>1, <3>1, <3>2
  <2> QED BY <2>1
<1>6. CASE Room(h, p) >= s + SIZEOF + MIN_SIZE
  <2>1. PICK b2 \in Nat : b2 = p + SIZEOF + s
    BY <1>1, <1>4
  <2>2. b2 \in Offsets /\ n # b2 /\ p # b2
    <3>1. b2 < n /\ p < b2
      BY <1>1, <1>3, <1>4, <1>6, <2>1
    <3> QED BY <1>1, <1>3, <3>1, OffsetType
  <2>3. Inserted(h, Insert(h, p, b2, n), p, b2, n)
    BY <1>1, <2>2, InsertAt
  <2>4. Insert(h, p, b2, n) \in Heaps
    BY <2>3 DEF Inserted
  <2> QED BY <1>2, <1>5, <1>6, <2>1, <2>4 DEF Taken
<1>7. CASE ~(Room(h, p) >= s + SIZEOF + MIN_SIZE)
  BY <1>1, <1>5, <1>7 DEF Taken
<1> QED BY <1>6, <1>7

LEMMA TrimHeap ==
    ASSUME NEW h, NEW x, NEW E, NEW L, Good(h, x, E, L), NEW b \in h.blocks \ {ram_end},
           NEW s \in Nat, s < Room(h, b)
    PROVE  /\ Trimmed(h, b, s) \in Heaps
           /\ ~h.used[h.next[b]] => h.next[b] \notin Trimmed(h, b, s).blocks
<1>1. h \in Heaps /\ List(h.next, h.prev, h.used, h.blocks, x) /\ b \in Offsets /\ b \in Nat
  BY GoodType
<1>2. PICK n \in Offsets : n = h.next[b]
  BY <1>1, Ahead
<1>3. n \in Nat /\ n <= ram_end /\ ram_end \in Nat /\ n \in h.blocks
  BY <1>1, <1>2, Ahead, OffsetType
<1>4. Room(h, b) = n - (b + SIZEOF) /\ SIZEOF \in Nat /\ MIN_SIZE \in Nat /\ SIZEOF >= 1
  BY <1>2, Consts DEF Room
<1>5. PICK b2 \in Nat : b2 = b + SIZEOF + s
  BY <1>1, <1>4
<1>6. b2 < n /\ b < b2
  BY <1>1, <1>3, <1>4, <1>5
<1>7. b2 \in Offsets /\ n # b2 /\ b # b2
  BY <1>1, <1>3, <1>6, OffsetType
<1>8. CASE ~h.used[n]
  <2>1. n # ram_end
    BY <1>1, <1>8 DEF List
  <2>2. n < h.next[n] /\ h.next[n] \in Nat
    BY <1>1, <1>3, <2>1, Ahead
  <2>3. h.next[n] # b2
    BY <1>3, <1>6, <2>2
  <2>4. PICK g : g = MoveNext(h, b, b2, n)
    OBVIOUS
  <2>5. g \in Heaps /\ g.blocks = (h.blocks \cup {b2}) \ {n}
    BY <1>1, <1>7, <2>3, <2>4, MoveAt
  <2>6. Trimmed(h, b, s) = g
    BY <1>2, <1>5, <1>8, <2>4 DEF Trimmed
  <2> QED BY <1>2, <2>5, <2>6
<1>9. CASE h.used[n] /\ s + SIZEOF + MIN_SIZE <= Room(h, b)
  <2>1. Inserted(h, Insert(h, b, b2, n), b, b2, n)
    BY <1>1, <1>7, InsertAt
  <2>2. PICK g \in Heaps : g = Insert(h, b, b2, n)
    BY <2>1 DEF Inserted
  <2>3. Lower(g, b2) \in Heaps
    BY <1>7, LowerFields
  <2>4. Trimmed(h, b, s) = Lower(g, b2)
    BY <1>2, <1>5, <1>9, <2>2 DEF Trimmed, SplitOff, Lower
  <2> QED BY <1>2, <1>9, <2>3, <2>4
<1>10. CASE h.used[n] /\ ~(s + SIZEOF + MIN_SIZE <= Room(h, b))
  BY <1>1, <1>2, <1>10 DEF Trimmed
<1> QED BY <1>8, <1>9, <1>10
-----------------------------------------------------------------------------
(* The inductive invariant.  Where the main thread is in its mem_free says *)
(* what of the heap is not yet in shape; where mem_malloc is, which blocks *)
(* it has ruled out.                                                       *)

Unset  == IF main \in {"f_prev", "b_prev"} THEN heap.next[mem] ELSE ram_end
Exempt == IF main \in {"lower", "lower_store", "forward", "f_lfree", "f_store", "f_next"}
          THEN {mem, heap.prev[mem]}
          ELSE IF main \in {"f_prev", "backward", "b_lfree", "b_store", "b_next"}
          THEN {heap.prev[mem]} \ {mem}
          ELSE {}

(* The block that lfree does not lie above even if an update of it was lost: the one *)
(* for which it was compared.                                                        *)
Low  == IF main \in {"forward", "f_lfree", "f_store", "f_next", "f_prev",
                     "backward", "b_lfree", "b_store"} THEN {mem}
        ELSE IF main \in {"b_next", "b_prev"} THEN {other} ELSE {}
Late == IF lost THEN Offsets \ Low ELSE IF main \in {"lower", "lower_store"} THEN {mem} ELSE {}

Place ==
    /\ main \notin {"idle", "b_prev"} => mem \in Real /\ ~heap.used[mem]
    /\ main \in {"f_lfree", "f_store", "f_next"} =>
          other = heap.next[mem] /\ other \in Real /\ ~heap.used[other]
    /\ main = "f_prev" =>
          heap.next[other] = heap.next[mem] /\ mem < other /\ other < heap.next[mem]
    /\ main \in {"b_lfree", "b_store", "b_next"} =>
          other = heap.prev[mem] /\ ~heap.used[other] /\ mem # other
    /\ main = "b_prev" =>
          /\ mem \notin heap.blocks /\ other = heap.prev[mem] /\ other \in Real /\ ~heap.used[other]
          /\ heap.next[other] = heap.next[mem] /\ other < mem /\ mem < heap.next[mem]

Scanning ==
    /\ pc # "idle" => ptr \in heap.blocks
    /\ pc = "scan" =>
          /\ heap.lfree <= ptr
          /\ \A b \in Real : heap.lfree <= b /\ ~heap.used[b] /\ b < ptr => Room(heap, b) < size
    /\ pc = "adjust" => \A b \in Real : b \notin Late /\ ~heap.used[b] => ptr <= b

Shape ==
    /\ Good(heap, Unset, Exempt, Late) /\ Held(heap, asked)
    /\ pc # "adjust" => LfreeFree(heap)
    /\ Place /\ Scanning

IInv == TypeOK /\ (~clash => Shape)

LEMMA TypeHeaps == TypeOK => /\ heap \in Heaps /\ asked \in [Offsets -> Offsets]
                             /\ mem \in Offsets /\ other \in Offsets /\ ptr \in Offsets
                             /\ main \in MainPlaces /\ pc \in {"idle", "scan", "adjust"}
                             /\ size \in MIN_SIZE .. MEM_SIZE /\ clash \in BOOLEAN /\ lost \in BOOLEAN
BY DEF TypeOK, Heaps

(* A block the interrupt may touch is none the main thread has left unfinished. *)
LEMMA Away ==
    ASSUME TypeOK, Shape
    PROVE  /\ heap.used[Unset]
           /\ \A b \in Real : main = "idle" \/ b \notin Near =>
                 b # Unset /\ b \notin Exempt /\ (lost \/ b \notin Late)
<1>1. heap.used[ram_end]
  BY DEF Shape, Good, List
<1>2. CASE main = "f_prev"
  <2>1. mem \in Real /\ ~heap.used[mem] /\ mem \notin Exempt /\ Unset = heap.next[mem]
    BY <1>2 DEF Shape, Place, Exempt, Unset
  <2>2. heap.used[heap.next[mem]]
    BY <2>1 DEF Shape, Good, Real
  <2> QED BY <1>2, <2>1, <2>2 DEF Near, Exempt, Late
<1>3. CASE main = "b_prev"
  <2>1. /\ other \in Real /\ ~heap.used[other] /\ heap.next[other] = heap.next[mem]
        /\ Exempt = {} /\ Unset = heap.next[mem] /\ (lost \/ Late = {})
    BY <1>3 DEF Shape, Place, Exempt, Unset, Late
  <2>2. heap.used[heap.next[other]]
    BY <2>1 DEF Shape, Good, Real
  <2> QED BY <1>3, <2>1, <2>2 DEF Near
<1>4. CASE main \notin {"f_prev", "b_prev"}
  <2>1. Unset = ram_end
    BY <1>4 DEF Unset
  <2>2. \A b \in Real : b # ram_end
    BY DEF Real
  <2>3. /\ Exempt \subseteq Near /\ (main = "idle" => Exempt = {})
        /\ lost \/ (Late \subseteq Near /\ (main = "idle" => Late = {}))
    BY DEF Exempt, Late, Near
  <2> QED BY <1>1, <2>1, <2>2, <2>3
<1> QED BY <1>2, <1>3, <1>4

(* Where no struct is there is no block that is known not to lie below lfree. *)
LEMMA LowBlocks ==
    ASSUME TypeOK, Shape
    PROVE  Low \subseteq heap.blocks /\ (lost => \A c \in Offsets : c \notin heap.blocks => c \in Late)
<1>1. Place /\ List(heap.next, heap.prev, heap.used, heap.blocks, Unset)
  BY DEF Shape, Good
<1>2. CASE main = "b_next"
  <2>1. /\ mem \in Real /\ other = heap.prev[mem] /\ mem # other /\ Low = {other} /\ Unset = ram_end
    BY <1>1, <1>2 DEF Place, Low, Unset
  <2>2. mem # 0 /\ mem \in heap.blocks \ {ram_end}
    BY <1>1, <2>1 DEF List, Real
  <2>3. other \in heap.blocks
    BY <1>1, <2>1, <2>2, Neighbours
  <2> QED BY <2>1, <2>3 DEF Late
<1>3. CASE main # "b_next"
  <2>1. Low \subseteq heap.blocks
    BY <1>1, <1>3 DEF Place, Low, Real
  <2> QED BY <2>1 DEF Late
<1> QED BY <1>2, <1>3

LEMMA NoClash ==
    ASSUME NEW h, Becomes(h), ~clash'
    PROVE  heap' = h /\ (main = "idle" \/ \A b \in Near : Struct(h, b) = Struct(heap, b))
BY DEF Becomes

(* What the main thread knows stays true when the blocks beside mem are left alone. *)
LEMMA StaysInPlace ==
    ASSUME TypeOK, Place, UNCHANGED <<main, mem, other, lost>>,
           main = "idle" \/ \A b \in Near : Struct(heap', b) = Struct(heap, b),
           main = "f_prev" => heap'.next[other] = heap.next[other]
    PROVE  Place' /\ Unset' = Unset /\ Exempt' = Exempt /\ Late' = Late
<1>1. CASE main = "idle"
  <2>1. main' = "idle" /\ main' = main /\ lost' = lost
    BY <1>1
  <2> QED BY <1>1, <2>1 DEF Place, Unset, Exempt, Late, Low
<1>2. CASE main # "idle"
  <2>1. \A b \in Near : /\ heap'.next[b] = heap.next[b] /\ heap'.prev[b] = heap.prev[b]
                        /\ heap'.used[b] = heap.used[b] /\ (b \in heap'.blocks <=> b \in heap.blocks)
    BY <1>2 DEF Struct
  <2>2. mem \in Near /\ heap.next[mem] \in Near /\ heap.prev[mem] \in Near
    BY DEF Near
  <2>3. /\ main' = main /\ mem' = mem /\ other' = other
        /\ heap'.next[mem] = heap.next[mem] /\ heap'.prev[mem] = heap.prev[mem]
        /\ heap'.used[mem] = heap.used[mem] /\ (mem \in heap'.blocks <=> mem \in heap.blocks)
    BY <2>1, <2>2
  <2>4. Unset' = Unset /\ Exempt' = Exempt /\ Late' = Late
    BY <2>3 DEF Unset, Exempt, Late, Low
  <2>5. ASSUME other \in Near
        PROVE  /\ heap'.used[other] = heap.used[other] /\ heap'.next[other] = heap.next[other]
               /\ (other \in heap'.blocks <=> other \in heap.blocks)
    BY <2>1, <2>5
  <2>6. Place'
    <3>1. main \in {"f_lfree", "f_store", "f_next", "b_lfree", "b_store", "b_next", "b_prev"} =>
             other \in Near
      BY <2>2 DEF Place
    <3>2. CASE main \notin {"f_lfree", "f_store", "f_next", "f_prev", "b_lfree", "b_store", "b_next", "b_prev"}
      BY <2>3, <3>2 DEF Place, Real
    <3>3. CASE main \in {"f_lfree", "f_store", "f_next"}
      BY <2>3, <2>5, <3>1, <3>3 DEF Place, Real
    <3>4. CASE main = "f_prev"
      BY <2>3, <3>4 DEF Place, Real
    <3>5. CASE main \in {"b_lfree", "b_store", "b_next"}
      BY <2>3, <2>5, <3>1, <3>5 DEF Place, Real
    <3>6. CASE main = "b_prev"
      BY <2>3, <2>5, <3>1, <3>6 DEF Place, Real
    <3> QED BY <3>2, <3>3, <3>4, <3>5, <3>6
  <2> QED BY <2>4, <2>6
<1> QED BY <1>1, <1>2

(* A step of the interrupt that leaves the heap alone. *)
LEMMA HeapAlone ==
    ASSUME IInv, ~clash, Becomes(heap), UNCHANGED asked, Scanning', pc' = "adjust" \/ LfreeFree(heap),
           pc' \in {"idle", "scan", "adjust"}, size' \in MIN_SIZE .. MEM_SIZE, ptr' \in Offsets
    PROVE  IInv'
<1>1. heap' = heap /\ UNCHANGED <<main, mem, other, lost>> /\ clash' = FALSE
  BY DEF Becomes
<1>2. TypeOK'
  BY <1>1 DEF IInv, TypeOK
<1>3. Place' /\ Unset' = Unset /\ Exempt' = Exempt /\ Late' = Late
  <2>1. TypeOK /\ Place
    BY DEF IInv, Shape
  <2> QED BY <1>1, <2>1, StaysInPlace
<1>4. Shape'
  BY <1>1, <1>3 DEF IInv, Shape
<1> QED BY <1>2, <1>4 DEF IInv

(* A step of the interrupt that changes the heap. *)
LEMMA HeapChanged ==
    ASSUME IInv, ~clash, NEW h \in Heaps, Becomes(h), asked' \in [Offsets -> Offsets],
           pc' \in {"idle", "scan", "adjust"}, size' \in MIN_SIZE .. MEM_SIZE, ptr' \in Offsets,
           main = "idle" \/ (\A b \in Near : Struct(h, b) = Struct(heap, b)) =>
              /\ Good(h, Unset, Exempt, Late) /\ Held(h, asked')
              /\ pc' # "adjust" => LfreeFree(h)
              /\ main = "f_prev" => h.next[other] = heap.next[other]
              /\ Late' = Late => Scanning'
    PROVE  IInv'
<1>1. heap' = h /\ UNCHANGED <<main, mem, other, lost>> /\ clash' \in BOOLEAN
  BY DEF Becomes
<1>2. TypeOK'
  BY <1>1 DEF IInv, TypeOK, Heaps
<1>3. ASSUME ~clash' PROVE Shape'
  <2>1. main = "idle" \/ \A b \in Near : Struct(h, b) = Struct(heap, b)
    BY <1>3, NoClash
  <2>2. /\ Good(h, Unset, Exempt, Late) /\ Held(h, asked')
        /\ pc' # "adjust" => LfreeFree(h)
        /\ main = "f_prev" => h.next[other] = heap.next[other]
        /\ Late' = Late => Scanning'
    BY <2>1
  <2>3. Place' /\ Unset' = Unset /\ Exempt' = Exempt /\ Late' = Late
    <3>1. TypeOK /\ Place
      BY DEF IInv, Shape
    <3> QED BY <1>1, <2>1, <2>2, <3>1, StaysInPlace
  <2> QED BY <1>1, <2>2, <2>3 DEF Shape
<1> QED BY <1>2, <1>3 DEF IInv
-----------------------------------------------------------------------------
(* The interrupt.                                                           *)

LEMMA Facts ==
    ASSUME IInv, ~clash
    PROVE  /\ TypeOK /\ Shape /\ Good(heap, Unset, Exempt, Late) /\ Held(heap, asked) /\ Place /\ Scanning
           /\ heap \in Heaps /\ List(heap.next, heap.prev, heap.used, heap.blocks, Unset)
           /\ \A b \in Real : b \in heap.blocks \ {ram_end} /\ b \in Offsets /\ b \in Nat /\ b < ram_end
           /\ \A b \in heap.blocks : b \in Offsets /\ b \in Nat /\ b <= ram_end
           /\ ram_end \in heap.blocks /\ ram_end \in Nat /\ heap.used[ram_end]
<1>1. /\ TypeOK /\ Shape /\ Good(heap, Unset, Exempt, Late) /\ Held(heap, asked) /\ Place /\ Scanning
  BY DEF IInv, Shape
<1>2. /\ heap \in Heaps /\ List(heap.next, heap.prev, heap.used, heap.blocks, Unset)
      /\ \A b \in heap.blocks : b \in Offsets /\ b \in Nat /\ b <= ram_end
  BY <1>1, GoodType
<1>3. \A b \in Real : b \in heap.blocks \ {ram_end} /\ b < ram_end
  BY <1>2, Ahead DEF Real
<1>4. ram_end \in heap.blocks /\ ram_end \in Nat /\ heap.used[ram_end]
  BY <1>2, OffsetType DEF List
<1> QED BY <1>1, <1>2, <1>3, <1>4

LEMMA MallocStep ==
    ASSUME IInv, NEW s \in Sizes, mem_malloc(s)
    PROVE  IInv'
<1>1. /\ ~clash /\ pc' = "scan" /\ size' = Aligned(s) /\ ptr' = heap.lfree /\ Becomes(heap)
      /\ asked' = asked /\ heap' = heap /\ main' = main /\ mem' = mem /\ pc = "idle"
  BY DEF mem_malloc, Becomes
<1>2. Good(heap, Unset, Exempt, Late) /\ LfreeFree(heap)
  BY <1>1 DEF IInv, Shape
<1>3. Real' = Real
  BY <1>1 DEF Real
<1>4. heap.lfree \in heap.blocks /\ heap.lfree \in Offsets /\ heap.lfree \in Nat
  BY <1>2, GoodType
<1>5. Scanning'
  <2>1. ASSUME NEW b \in Real', heap'.lfree <= b, b < ptr' PROVE FALSE
    <3>1. b \in Nat /\ heap.lfree <= b /\ b < heap.lfree
      BY <1>1, <1>3, <2>1, Facts
    <3> QED BY <1>4, <3>1
  <2> QED BY <1>1, <1>4, <2>1 DEF Scanning
<1>6. size' \in MIN_SIZE .. MEM_SIZE
  BY <1>1, AlignedSize
<1> QED BY <1>1, <1>2, <1>4, <1>5, <1>6, HeapAlone

LEMMA SkipStep == ASSUME IInv, Skip PROVE IInv'
<1>1. /\ ~clash /\ pc = "scan" /\ ptr < MEM_SIZE - size /\ ~Fits /\ ptr' = heap.next[ptr] /\ Becomes(heap)
      /\ asked' = asked /\ pc' = pc /\ size' = size /\ heap' = heap /\ main' = main /\ mem' = mem
  BY DEF Skip, Becomes, InLoop
<1>2. /\ heap \in Heaps /\ List(heap.next, heap.prev, heap.used, heap.blocks, Unset)
      /\ ptr \in heap.blocks /\ Scanning /\ size \in MIN_SIZE .. MEM_SIZE
  BY <1>1, Facts, TypeHeaps DEF Scanning, IInv
<1>3. ptr \in heap.blocks \ {ram_end} /\ ptr \in Nat
  <2>1. ptr < ram_end /\ ptr \in Nat
    BY <1>1, <1>2, Facts, Consts DEF ram_end
  <2> QED BY <1>2, <2>1, OffsetType
<1>4. heap.next[ptr] \in heap.blocks /\ heap.next[ptr] \in Offsets /\ heap.next[ptr] \in Nat
  BY <1>2, <1>3, Ahead
<1>5. Real' = Real /\ heap'.lfree = heap.lfree
  BY <1>1 DEF Real
<1>6. Scanning'
  <2>1. ASSUME NEW b \in Real', heap'.lfree <= b, ~heap'.used[b], b < ptr'
        PROVE  Room(heap', b) < size'
    <3>1. b \in heap.blocks \ {ram_end} /\ b \in Real /\ b \in Nat /\ heap.lfree <= b /\ ~heap.used[b]
          /\ b < heap.next[ptr]
      BY <1>1, <1>5, <2>1, Facts
    <3>2. b <= ptr
      <4>1. \A c \in heap.blocks : c <= ptr \/ heap.next[ptr] <= c
        BY <1>2, <1>3 DEF List
      <4> QED BY <1>3, <1>4, <3>1, <4>1
    <3>3. CASE b = ptr
      <4>1. ~(Room(heap, ptr) >= size)
        BY <1>1, <3>1, <3>3 DEF Fits
      <4>2. Room(heap, ptr) \in Int /\ size \in Int
        BY <1>2, <1>3, <1>4, Consts DEF Room
      <4> QED BY <1>1, <3>3, <4>1, <4>2
    <3>4. CASE b # ptr
      <4>1. b < ptr
        BY <1>3, <3>1, <3>2, <3>4
      <4> QED BY <1>1, <1>2, <3>1, <4>1 DEF Scanning
    <3> QED BY <3>3, <3>4
  <2>2. heap'.lfree <= ptr'
    <3>1. heap.lfree <= ptr /\ heap.lfree \in Nat
      BY <1>1, <1>2, Facts, GoodType DEF Scanning
    <3>2. ptr < heap.next[ptr]
      BY <1>2, <1>3, Ahead
    <3> QED BY <1>1, <1>3, <1>4, <1>5, <3>1, <3>2
  <2> QED BY <1>1, <1>4, <2>1, <2>2 DEF Scanning
<1>7. LfreeFree(heap)
  BY <1>1 DEF IInv, Shape
<1> QED BY <1>1, <1>2, <1>4, <1>6, <1>7, HeapAlone

LEMMA FailStep == ASSUME IInv, Fail PROVE IInv'
<1>1. /\ ~clash /\ pc = "scan" /\ pc' = "idle" /\ Becomes(heap)
      /\ asked' = asked /\ ptr' = ptr /\ size' = size
  BY DEF Fail, Becomes
<1>2. LfreeFree(heap) /\ size \in MIN_SIZE .. MEM_SIZE /\ ptr \in Offsets
  BY <1>1, TypeHeaps DEF IInv, Shape
<1>3. Scanning'
  BY <1>1 DEF Scanning
<1> QED BY <1>1, <1>2, <1>3, HeapAlone

(* Free blocks beyond one that is not free lie beyond its end. *)
LEMMA AdjustStep == ASSUME IInv, Adjust PROVE IInv'
<1>1. /\ ~clash /\ pc = "adjust" /\ asked' = asked /\ size' = size
      /\ main' = main /\ mem' = mem /\ other' = other /\ lost' = lost
  BY DEF Adjust, Becomes
<1>2. /\ heap \in Heaps /\ List(heap.next, heap.prev, heap.used, heap.blocks, Unset) /\ ptr \in heap.blocks
      /\ Scanning /\ size \in MIN_SIZE .. MEM_SIZE /\ ptr \in Nat /\ ptr \in Offsets
      /\ asked \in [Offsets -> Offsets]
  BY <1>1, Facts, TypeHeaps DEF Scanning, IInv
<1>3. CASE heap.used[ptr] /\ ptr # ram_end
  <2>1. Becomes(heap) /\ ptr' = heap.next[ptr] /\ pc' = pc /\ heap' = heap
    BY <1>3 DEF Adjust, Becomes
  <2>2. heap.next[ptr] \in heap.blocks /\ heap.next[ptr] \in Offsets /\ heap.next[ptr] \in Nat
    BY <1>2, <1>3, Ahead
  <2>3. Late' = Late /\ Real' = Real
    BY <1>1, <2>1 DEF Late, Low, Real
  <2>4. Scanning'
    <3>1. ASSUME NEW b \in Real', b \notin Late', ~heap'.used[b] PROVE ptr' <= b
      <4>1. b \in Real /\ b \notin Late /\ ~heap.used[b] /\ b \in Nat /\ b \in heap.blocks
        BY <1>1, <2>1, <2>3, <3>1, Facts
      <4>2. ptr <= b /\ b # ptr
        BY <1>1, <1>2, <1>3, <4>1 DEF Scanning
      <4>3. b <= ptr \/ heap.next[ptr] <= b
        BY <1>2, <1>3, <4>1 DEF List
      <4> QED BY <1>2, <2>1, <2>2, <4>1, <4>2, <4>3
    <3> QED BY <1>1, <2>1, <2>2, <3>1 DEF Scanning
  <2> QED BY <1>1, <1>2, <2>1, <2>2, <2>4, HeapAlone
<1>4. CASE ~(heap.used[ptr] /\ ptr # ram_end)
  <2>1. PICK h : h = [heap EXCEPT !.lfree = ptr]
    OBVIOUS
  <2>2. Becomes(h) /\ pc' = "idle" /\ ptr' = ptr
    BY <1>4, <2>1 DEF Adjust
  <2>3. /\ h \in Heaps /\ h.next = heap.next /\ h.prev = heap.prev /\ h.used = heap.used
        /\ h.blocks = heap.blocks /\ h.lfree = ptr
    BY <1>2, <2>1 DEF Heaps
  <2>4. Good(h, Unset, Exempt, Late)
    <3>1. Good(heap, Unset, Exempt, Late)
      BY <1>1, Facts
    <3>2. \A b \in h.blocks \ {ram_end} : b \notin Late /\ ~h.used[b] => h.lfree <= b
      BY <1>1, <1>2, <2>3 DEF Scanning, Real
    <3> QED BY <1>2, <2>3, <3>1, <3>2 DEF Good
  <2>5. Held(h, asked')
    <3>1. Held(heap, asked)
      BY <1>1, Facts
    <3> QED BY <1>1, <2>3, <3>1 DEF Held, Room
  <2>6. LfreeFree(h)
    BY <1>4, <2>3 DEF LfreeFree
  <2>7. Scanning'
    BY <2>2 DEF Scanning
  <2> QED BY <1>1, <1>2, <2>2, <2>3, <2>4, <2>5, <2>6, <2>7, HeapChanged
<1> QED BY <1>3, <1>4

LEMMA TakeStep == ASSUME IInv, Take PROVE IInv'
<1>1. /\ ~clash /\ pc = "scan" /\ ptr < MEM_SIZE - size /\ Fits /\ size' = size /\ ptr' = ptr
      /\ asked' = [asked EXCEPT ![ptr] = size] /\ pc' = IF ptr = heap.lfree THEN "adjust" ELSE "idle"
      /\ main' = main /\ mem' = mem
  BY DEF Take, Becomes, InLoop
<1>2. PICK h : h = Taken(heap, ptr, size)
  OBVIOUS
<1>3. Becomes(h)
  BY <1>2 DEF Take, Taken, MarkUsed
<1>4. /\ heap \in Heaps /\ ptr \in heap.blocks /\ Scanning /\ size \in MIN_SIZE .. MEM_SIZE
      /\ Good(heap, Unset, Exempt, Late) /\ Held(heap, asked) /\ ptr \in Offsets
      /\ asked \in [Offsets -> Offsets] /\ LfreeFree(heap)
  BY <1>1, Facts, TypeHeaps DEF Scanning, IInv, Shape
<1>5. ptr \in heap.blocks \ {ram_end} /\ ptr \in Real
  <2>1. ptr < ram_end /\ ptr \in Nat
    BY <1>1, <1>4, Facts, Consts DEF ram_end
  <2> QED BY <1>4, <2>1, OffsetType DEF Real
<1>6. /\ ~heap.used[ptr] /\ size <= Room(heap, ptr) /\ size \in Nat /\ MIN_SIZE <= size /\ size > 0
      /\ size \in Offsets
  <2>1. ~heap.used[ptr] /\ Room(heap, ptr) >= size
    BY <1>1 DEF Fits
  <2>2. size \in Nat /\ MIN_SIZE <= size /\ size > 0 /\ size \in Offsets
    BY <1>4, Consts DEF Offsets
  <2>3. Room(heap, ptr) \in Int
    <3>1. heap.next[ptr] \in Nat /\ ptr \in Nat
      BY <1>4, <1>5, Ahead, GoodType
    <3> QED BY <3>1, Consts DEF Room
  <2> QED BY <2>1, <2>2, <2>3
<1>7. h \in Heaps /\ h.used[ptr]
  BY <1>2, <1>4, <1>5, <1>6, TakeHeap
<1>8. asked' \in [Offsets -> Offsets] /\ pc' \in {"idle", "adjust"}
  BY <1>1, <1>4, <1>6
<1>9. ASSUME main = "idle" \/ \A b \in Near : Struct(h, b) = Struct(heap, b)
      PROVE  /\ Good(h, Unset, Exempt, Late) /\ Held(h, asked')
             /\ pc' # "adjust" => LfreeFree(h)
             /\ main = "f_prev" => h.next[other] = heap.next[other]
             /\ Late' = Late => Scanning'
  <2>1. main = "idle" \/ ptr \notin Near
    <3>1. Struct(h, ptr) # Struct(heap, ptr)
      BY <1>6, <1>7 DEF Struct
    <3> QED BY <1>9, <3>1
  <2>2. ptr \notin Exempt /\ heap.lfree <= ptr
    <3>1. TypeOK /\ Shape
      BY <1>1, Facts
    <3> QED BY <1>1, <1>4, <1>5, <2>1, <3>1, Away DEF Scanning
  <2>3. /\ Good(h, Unset, Exempt, Late) /\ Changed(heap, h, ptr) /\ size <= Room(h, ptr)
        /\ ptr # heap.lfree /\ LfreeFree(heap) => LfreeFree(h)
        /\ h.lfree = heap.lfree
    BY <1>2, <1>4, <1>5, <1>6, <2>2, TakeGood
  <2>4. Held(h, asked')
    BY <1>1, <1>4, <1>5, <1>6, <2>3, HeldChanged
  <2>5. pc' # "adjust" => LfreeFree(h)
    BY <1>1, <1>4, <2>3
  <2>6. ASSUME main = "f_prev" PROVE h.next[other] = heap.next[other]
    <3>1. /\ mem \in Real /\ mem < other /\ other < heap.next[mem] /\ other \in Offsets /\ other \in Nat
          /\ mem # ptr
      BY <1>1, <2>1, <2>6, Facts, TypeHeaps, OffsetType DEF Place, Near
    <3>2. /\ ptr \in Nat /\ heap.next[ptr] \in Nat /\ mem \in Nat /\ heap.next[mem] \in Nat
          /\ mem \in heap.blocks \ {ram_end}
          /\ (mem <= ptr \/ heap.next[ptr] <= mem) /\ (ptr <= mem \/ heap.next[mem] <= ptr)
      <4>1. /\ List(heap.next, heap.prev, heap.used, heap.blocks, Unset)
            /\ mem \in heap.blocks \ {ram_end} /\ mem \in heap.blocks
        BY <1>1, <3>1, Facts DEF Real
      <4>2. /\ mem <= ptr \/ heap.next[ptr] <= mem
            /\ ptr <= mem \/ heap.next[mem] <= ptr
        BY <1>4, <1>5, <4>1 DEF List
      <4> QED BY <1>5, <4>1, <4>2, Ahead
    <3>3. ~(ptr <= other /\ other < heap.next[ptr])
      BY <3>1, <3>2
    <3> QED BY <2>3, <3>1, <3>3 DEF Changed
  <2>7. ASSUME Late' = Late PROVE Scanning'
    <3>1. heap' = h
      BY <1>3 DEF Becomes
    <3>2. CASE ptr = heap.lfree
      <4>1. ptr' \in heap'.blocks
        BY <1>1, <2>3, <3>1 DEF Changed
      <4>2. ASSUME NEW b \in Real', b \notin Late', ~heap'.used[b] PROVE ptr' <= b
        BY <1>1, <2>3, <2>7, <3>1, <3>2, <4>2 DEF Good, Real
      <4> QED BY <1>1, <3>2, <4>1, <4>2 DEF Scanning
    <3>3. CASE ptr # heap.lfree
      BY <1>1, <3>3 DEF Scanning
    <3> QED BY <3>2, <3>3
  <2> QED BY <2>3, <2>4, <2>5, <2>6, <2>7
<1> QED BY <1>1, <1>3, <1>4, <1>7, <1>8, <1>9, HeapChanged

(* A block handed out is a used one; the interrupt frees or shortens it in its whole. *)
LEMMA Handed ==
    ASSUME IInv, ~clash, NEW b \in Offsets, asked[b] > 0
    PROVE  b \in Real /\ heap.used[b] /\ b \in heap.blocks \ {ram_end} /\ b \in Nat
BY Facts DEF Held, Real

LEMMA FreeStep ==
    ASSUME IInv, NEW m \in Offsets, mem_free(m)
    PROVE  IInv'
<1>1. /\ ~clash /\ pc = "idle" /\ asked[m] > 0 /\ asked' = [asked EXCEPT ![m] = 0]
      /\ pc' = pc /\ size' = size /\ ptr' = ptr
  BY DEF mem_free, Becomes, callVars
<1>2. PICK h : h = Freed(heap, m)
  OBVIOUS
<1>3. Becomes(h)
  BY <1>2 DEF mem_free, Freed
<1>4. /\ heap \in Heaps /\ size \in MIN_SIZE .. MEM_SIZE /\ Good(heap, Unset, Exempt, Late)
      /\ Held(heap, asked) /\ ptr \in Offsets /\ asked \in [Offsets -> Offsets] /\ LfreeFree(heap)
      /\ TypeOK /\ Shape /\ List(heap.next, heap.prev, heap.used, heap.blocks, Unset)
  BY <1>1, Facts, TypeHeaps DEF IInv, Shape
<1>5. m \in Real /\ heap.used[m] /\ m \in heap.blocks \ {ram_end} /\ m \in Nat
  BY <1>1, Handed
<1>6. /\ h \in Heaps /\ ~h.used[m] /\ (NextFree(heap, m) => heap.next[m] \notin h.blocks)
  BY <1>2, <1>4, FreeHeap
<1>7. asked' \in [Offsets -> Offsets]
  BY <1>1, <1>4, OffsetType
<1>8. ASSUME main = "idle" \/ \A b \in Near : Struct(h, b) = Struct(heap, b)
      PROVE  /\ Good(h, Unset, Exempt, Late) /\ Held(h, asked') /\ LfreeFree(h)
             /\ main = "f_prev" => h.next[other] = heap.next[other]
  <2>1. main = "idle" \/ m \notin Near
    <3>1. Struct(h, m) # Struct(heap, m)
      BY <1>5, <1>6 DEF Struct
    <3> QED BY <1>8, <3>1
  <2>2. m # Unset /\ m \notin Exempt
    BY <1>4, <1>5, <2>1, Away
  <2>3. NextFree(heap, m) => heap.next[m] # Unset /\ heap.next[m] \notin Exempt
    <3>1. ASSUME NextFree(heap, m) PROVE heap.next[m] # Unset /\ heap.next[m] \notin Exempt
      <4>1. heap.next[m] \in Real /\ ~heap.used[heap.next[m]]
        BY <1>4, <1>5, <3>1, Ahead DEF NextFree, Real
      <4>2. Struct(h, heap.next[m]) # Struct(heap, heap.next[m])
        BY <1>6, <3>1, <4>1 DEF Struct, Real
      <4>3. main = "idle" \/ heap.next[m] \notin Near
        BY <1>8, <4>2
      <4> QED BY <1>4, <4>1, <4>3, Away
    <3> QED BY <3>1
  <2>5. /\ Good(h, Unset, Exempt, Late) /\ (LfreeFree(heap) => LfreeFree(h))
        /\ h.used = [heap.used EXCEPT ![m] = FALSE]
        /\ h.blocks \subseteq heap.blocks
        /\ \A b \in heap.blocks : b \notin h.blocks
              <=> (b = heap.next[m] /\ NextFree(heap, m)) \/ (b = m /\ PrevFree(heap, m))
        /\ \A c \in Offsets : \/ h.next[c] = heap.next[c] \/ c = m
                              \/ c \in heap.blocks \ {ram_end} /\ ~heap.used[c]
    BY <1>2, <1>4, <1>5, <2>2, <2>3, FreeGood
  <2>6. Held(h, asked')
    <3>1. \A c \in Offsets : h.used[c] <=> heap.used[c] /\ c # m
      <4>1. heap.used \in [Offsets -> BOOLEAN]
        BY <1>4, HeapType
      <4> QED BY <2>5, <4>1
    <3>2. \A c \in Offsets : c \in h.blocks => c \in heap.blocks
      BY <2>5
    <3>3. ASSUME NEW c \in heap.blocks, c # m, heap.used[c]
          PROVE  c \in h.blocks /\ h.next[c] = heap.next[c]
      <4>1. c \in Offsets
        BY <1>1, Facts
      <4> QED BY <2>5, <3>3, <4>1 DEF NextFree
    <3> QED BY <1>1, <1>4, <3>1, <3>2, <3>3, HeldLess
  <2>7. ASSUME main = "f_prev" PROVE h.next[other] = heap.next[other]
    <3>1. mem \in Real /\ mem < other /\ other < heap.next[mem] /\ other \in Offsets
      BY <1>1, <2>7, Facts, TypeHeaps DEF Place
    <3>2. other \notin heap.blocks
      <4>1. \A c \in heap.blocks : c <= mem \/ heap.next[mem] <= c
        BY <1>4, <3>1 DEF List, Real
      <4>2. mem \in Nat /\ other \in Nat /\ heap.next[mem] \in Nat
        BY <1>4, <3>1, Ahead, OffsetType DEF Real
      <4> QED BY <3>1, <4>1, <4>2
    <3> QED BY <1>5, <2>5, <3>1, <3>2
  <2> QED BY <1>4, <2>5, <2>6, <2>7
<1>9. Scanning'
  BY <1>1 DEF Scanning
<1> QED BY <1>1, <1>3, <1>4, <1>6, <1>7, <1>8, <1>9, HeapChanged

LEMMA TrimStep ==
    ASSUME IInv, NEW b \in Offsets, NEW s0 \in Sizes, mem_trim(b, s0)
    PROVE  IInv'
<1>1. PICK s : s = Aligned(s0)
  OBVIOUS
<1>2. /\ ~clash /\ pc = "idle" /\ asked[b] > 0 /\ s < Room(heap, b) /\ asked' = [asked EXCEPT ![b] = s]
      /\ pc' = pc /\ size' = size /\ ptr' = ptr
  BY <1>1 DEF mem_trim, Becomes, callVars
<1>3. PICK h : h = Trimmed(heap, b, s)
  OBVIOUS
<1>4. Becomes(h)
  BY <1>1, <1>3 DEF mem_trim, Trimmed
<1>5. /\ heap \in Heaps /\ size \in MIN_SIZE .. MEM_SIZE /\ Good(heap, Unset, Exempt, Late)
      /\ Held(heap, asked) /\ ptr \in Offsets /\ asked \in [Offsets -> Offsets] /\ LfreeFree(heap)
      /\ TypeOK /\ Shape /\ List(heap.next, heap.prev, heap.used, heap.blocks, Unset)
  BY <1>2, Facts, TypeHeaps DEF IInv, Shape
<1>6. b \in Real /\ heap.used[b] /\ b \in heap.blocks \ {ram_end} /\ b \in Nat
  BY <1>2, Handed
<1>7. s \in Nat /\ MIN_SIZE <= s /\ s > 0 /\ s \in Offsets
  <2>1. s \in MIN_SIZE .. MEM_SIZE
    BY <1>1, AlignedSize
  <2> QED BY <2>1, Consts DEF Offsets
<1>8. h \in Heaps /\ (~heap.used[heap.next[b]] => heap.next[b] \notin h.blocks)
  BY <1>2, <1>3, <1>5, <1>6, <1>7, TrimHeap
<1>9. asked' \in [Offsets -> Offsets]
  BY <1>2, <1>5, <1>7
<1>10. ASSUME main = "idle" \/ \A c \in Near : Struct(h, c) = Struct(heap, c)
       PROVE  /\ Good(h, Unset, Exempt, Late) /\ Held(h, asked') /\ LfreeFree(h)
              /\ main = "f_prev" => h.next[other] = heap.next[other]
  <2>1. ~heap.used[heap.next[b]] => /\ heap.next[b] # Unset /\ heap.next[b] \notin Exempt
                                    /\ lost \/ heap.next[b] \notin Late
    <3>1. ASSUME ~heap.used[heap.next[b]]
          PROVE  /\ heap.next[b] # Unset /\ heap.next[b] \notin Exempt
                 /\ lost \/ heap.next[b] \notin Late
      <4>1. heap.next[b] \in Real
        <5>1. heap.used[ram_end]
          BY <1>2, Facts
        <5> QED BY <1>5, <1>6, <3>1, <5>1, Ahead DEF Real
      <4>2. Struct(h, heap.next[b]) # Struct(heap, heap.next[b])
        BY <1>8, <3>1, <4>1 DEF Struct, Real
      <4>3. main = "idle" \/ heap.next[b] \notin Near
        BY <1>10, <4>2
      <4> QED BY <1>5, <4>1, <4>3, Away
    <3> QED BY <3>1
  <2>2. /\ Good(h, Unset, Exempt, Late) /\ Changed(heap, h, b) /\ s <= Room(h, b)
        /\ LfreeFree(heap) => LfreeFree(h)
    <3>1. lost => \A c \in Offsets : c \notin heap.blocks => c \in Late
      BY <1>5, LowBlocks
    <3>2. ~heap.used[heap.next[b]] =>
             /\ heap.next[b] # Unset /\ heap.next[b] \notin Exempt
             /\ heap.next[b] \in Late => \A c \in Offsets : c \notin heap.blocks => c \in Late
      BY <2>1, <3>1
    <3> QED BY <1>2, <1>3, <1>5, <1>6, <1>7, <3>2, TrimGood
  <2>3. Held(h, asked')
    BY <1>2, <1>5, <1>6, <1>7, <2>2, HeldChanged
  <2>4. ASSUME main = "f_prev" PROVE h.next[other] = heap.next[other]
    <3>1. /\ mem \in Real /\ mem < other /\ other < heap.next[mem] /\ other \in Offsets /\ other \in Nat
          /\ mem # b
      BY <1>2, <1>6, <2>4, Facts, TypeHeaps, OffsetType DEF Place
    <3>2. /\ heap.next[b] \in Nat /\ mem \in Nat /\ heap.next[mem] \in Nat
          /\ (mem <= b \/ heap.next[b] <= mem) /\ (b <= mem \/ heap.next[mem] <= b)
      <4>1. mem \in heap.blocks \ {ram_end} /\ mem \in heap.blocks /\ b \in heap.blocks
        BY <1>6, <3>1 DEF Real
      <4>2. /\ mem <= b \/ heap.next[b] <= mem
            /\ b <= mem \/ heap.next[mem] <= b
        BY <1>5, <1>6, <4>1 DEF List
      <4> QED BY <1>5, <1>6, <4>1, <4>2, Ahead
    <3>3. ~(b <= other /\ other < heap.next[b])
      BY <1>6, <3>1, <3>2
    <3> QED BY <2>2, <3>1, <3>3 DEF Changed
  <2> QED BY <1>5, <2>2, <2>3, <2>4
<1>11. Scanning'
  BY <1>2 DEF Scanning
<1> QED BY <1>2, <1>4, <1>5, <1>8, <1>9, <1>10, <1>11, HeapChanged
-----------------------------------------------------------------------------
(* The main thread.                                                         *)

(* Its steps find and leave mem_malloc outside its scan, and no clash. *)
LEMMA MainStep ==
    ASSUME IInv, ~clash, NEW there \in MainPlaces, NEW h, heap' = h,
           pc = "idle", main' = there, UNCHANGED <<callVars, clash>>,
           mem' \in Offsets, other' \in Offsets, asked' \in [Offsets -> Offsets], lost' \in BOOLEAN,
           Good(h, Unset', Exempt', Late'), Held(h, asked'), LfreeFree(h), Place'
    PROVE  IInv'
<1>1. h \in Heaps
  BY GoodType
<1>2. pc' = pc /\ size' = size /\ ptr' = ptr /\ clash' = clash
  BY DEF callVars
<1>3. TypeOK'
  BY <1>1, <1>2 DEF IInv, TypeOK, Heaps
<1>4. Scanning'
  BY <1>2 DEF Scanning
<1>5. Shape'
  BY <1>4 DEF Shape
<1> QED BY <1>3, <1>5 DEF IInv

LEMMA MainFacts ==
    ASSUME IInv, ~clash, pc = "idle"
    PROVE  /\ heap \in Heaps /\ Good(heap, Unset, Exempt, Late) /\ Held(heap, asked) /\ LfreeFree(heap)
           /\ Place /\ mem \in Offsets /\ other \in Offsets /\ asked \in [Offsets -> Offsets]
           /\ heap.used \in [Offsets -> BOOLEAN] /\ heap.next \in [Offsets -> Offsets]
           /\ heap.prev \in [Offsets -> Offsets] /\ heap.lfree \in Offsets /\ heap.lfree \in Nat
           /\ lost \in BOOLEAN
BY Facts, TypeHeaps, HeapType, GoodType DEF IInv, Shape

LEMMA MainFreeStep ==
    ASSUME IInv, NEW b \in Offsets, MainFree(b)
    PROVE  IInv'
<1>1. /\ ~clash /\ pc = "idle" /\ asked[b] > 0 /\ asked' = [asked EXCEPT ![b] = 0] /\ mem' = b
      /\ main = "idle" /\ main' = "lower" /\ UNCHANGED <<callVars, clash>> /\ other' = other
      /\ heap' = MarkFree(heap, b) /\ lost' = lost
  BY DEF MainFree, Step
<1>2. PICK h : h = MarkFree(heap, b)
  OBVIOUS
<1>3. /\ heap \in Heaps /\ Good(heap, ram_end, {}, Late) /\ Held(heap, asked) /\ LfreeFree(heap)
      /\ other \in Offsets /\ asked \in [Offsets -> Offsets] /\ heap.used \in [Offsets -> BOOLEAN]
      /\ heap.lfree \in Offsets /\ lost \in BOOLEAN
  BY <1>1, MainFacts DEF Unset, Exempt
<1>4. b \in Real /\ heap.used[b] /\ b \in heap.blocks \ {ram_end}
  BY <1>1, Handed
<1>5. /\ h.next = heap.next /\ h.prev = heap.prev /\ h.blocks = heap.blocks /\ h.lfree = heap.lfree
      /\ h.used = [heap.used EXCEPT ![b] = FALSE]
  BY <1>2, <1>3, MarkFreeFields
<1>6. \A c \in Offsets : h.used[c] <=> heap.used[c] /\ c # b
  BY <1>3, <1>5
<1>7. Good(h, ram_end, {b, heap.prev[b]}, Late')
  <2>1. Good(h, ram_end, {} \cup {b, heap.prev[b]}, Late \cup {b})
    BY <1>2, <1>3, <1>4, MarkGood
  <2>2. {} \cup {b, heap.prev[b]} = {b, heap.prev[b]}
    OBVIOUS
  <2>3. Late \cup {b} \subseteq Late'
    BY <1>1 DEF Late, Low
  <2> QED BY <2>1, <2>2, <2>3, GoodLower
<1>8. Held(h, asked')
  BY <1>1, <1>3, <1>5, <1>6, HeldLess
<1>9. LfreeFree(h)
  BY <1>3, <1>5, <1>6 DEF LfreeFree
<1>10. Unset' = ram_end /\ Exempt' = {b, heap.prev[b]}
  BY <1>1, <1>2, <1>5 DEF Unset, Exempt
<1>11. Place'
  BY <1>1, <1>2, <1>4, <1>5, <1>6 DEF Place, Real
<1>12. asked' \in [Offsets -> Offsets] /\ "lower" \in MainPlaces
  BY <1>1, <1>3, OffsetType DEF MainPlaces
<1> QED BY <1>1, <1>2, <1>3, <1>7, <1>8, <1>9, <1>10, <1>11, <1>12, MainStep

(* What the step to a place does not change of the heap it does not change of these. *)
LEMMA SameHeap ==
    ASSUME IInv, ~clash, NEW there \in MainPlaces, heap' = heap,
           pc = "idle", main' = there, UNCHANGED <<callVars, clash, lost, asked>>,
           mem' \in Offsets, other' \in Offsets,
           Good(heap, Unset', Exempt', Late'), Place'
    PROVE  IInv'
<1>1. /\ Held(heap, asked) /\ LfreeFree(heap) /\ asked \in [Offsets -> Offsets] /\ lost \in BOOLEAN
  BY MainFacts
<1> QED BY <1>1, MainStep

LEMMA MainLowerStep == ASSUME IInv, MainLower PROVE IInv'
<1>1. /\ ~clash /\ pc = "idle" /\ asked' = asked /\ mem' = mem /\ other' = other /\ lost' = lost
      /\ main = "lower" /\ main' = (IF mem < heap.lfree THEN "lower_store" ELSE "forward")
      /\ UNCHANGED <<callVars, clash, lost, asked>> /\ heap' = heap
  BY DEF MainLower, Step
<1>2. /\ Good(heap, ram_end, {mem, heap.prev[mem]}, Late) /\ heap.lfree \in Nat
      /\ mem \in Offsets /\ other \in Offsets /\ mem \in Real /\ ~heap.used[mem]
  BY <1>1, MainFacts DEF Unset, Exempt, Place
<1>3. CASE mem < heap.lfree
  <2>1. main' = "lower_store" /\ "lower_store" \in MainPlaces
    BY <1>1, <1>3 DEF MainPlaces
  <2>2. Unset' = ram_end /\ Exempt' = {mem, heap.prev[mem]} /\ Late' = Late
    BY <1>1, <2>1 DEF Unset, Exempt, Late, Low
  <2>3. Place'
    BY <1>1, <1>2, <2>1 DEF Place, Real
  <2> QED BY <1>1, <1>2, <2>1, <2>2, <2>3, SameHeap
<1>4. CASE ~(mem < heap.lfree)
  <2>1. main' = "forward" /\ "forward" \in MainPlaces
    BY <1>1, <1>4 DEF MainPlaces
  <2>2. Unset' = ram_end /\ Exempt' = {mem, heap.prev[mem]} /\ Late' = Late \ {mem}
    BY <1>1, <2>1 DEF Unset, Exempt, Late, Low
  <2>3. heap.lfree <= mem
    <3>1. mem \in Nat
      BY <1>2, OffsetType
    <3> QED BY <1>2, <1>4, <3>1
  <2>4. Good(heap, ram_end, {mem, heap.prev[mem]}, Late')
    BY <1>2, <2>2, <2>3, GoodLower
  <2>5. Place'
    BY <1>1, <1>2, <2>1 DEF Place, Real
  <2> QED BY <1>1, <1>2, <2>1, <2>2, <2>4, <2>5, SameHeap
<1> QED BY <1>3, <1>4

(* lfree is set to v: a block that it does not lie above then, and if v lay above it an *)
(* update is lost.                                                                      *)
LEMMA StoreGood ==
    ASSUME NEW h, NEW x, NEW E, NEW L, Good(h, x, E, L), NEW v \in h.blocks \ {ram_end}, ~h.used[v],
           NEW M, h.lfree < v => M = Offsets \ {v}, ~(h.lfree < v) => L \ {v} \subseteq M,
           NEW g, g = [h EXCEPT !.lfree = v]
    PROVE  /\ Good(g, x, E, M) /\ LfreeFree(g)
           /\ g.next = h.next /\ g.prev = h.prev /\ g.used = h.used /\ g.blocks = h.blocks
<1>1. /\ h \in Heaps /\ List(h.next, h.prev, h.used, h.blocks, x) /\ v \in Offsets /\ v \in Nat
      /\ h.lfree \in Nat /\ h.blocks \subseteq Offsets
  BY GoodType
<1>2. /\ g \in Heaps /\ g.next = h.next /\ g.prev = h.prev /\ g.used = h.used /\ g.blocks = h.blocks
      /\ g.lfree = v
  BY <1>1 DEF Heaps
<1>3. ASSUME NEW b \in g.blocks \ {ram_end}, b \notin M, ~g.used[b] PROVE g.lfree <= b
  <2>1. b \in Offsets /\ b \in Nat /\ b \in h.blocks \ {ram_end} /\ ~h.used[b]
    BY <1>1, <1>2, <1>3, OffsetType
  <2>2. CASE h.lfree < v
    BY <1>1, <1>2, <1>3, <2>1, <2>2
  <2>3. CASE ~(h.lfree < v) /\ b # v
    <3>1. h.lfree <= b
      BY <1>3, <2>1, <2>3 DEF Good
    <3> QED BY <1>1, <1>2, <2>1, <2>3, <3>1
  <2>4. CASE b = v
    BY <1>1, <1>2, <2>4
  <2> QED BY <2>2, <2>3, <2>4
<1>4. Good(g, x, E, M)
  BY <1>2, <1>3 DEF Good
<1> QED BY <1>2, <1>4 DEF LfreeFree

LEMMA StoreLfreeStep == ASSUME IInv, StoreLfree PROVE IInv'
<1>1. /\ ~clash /\ pc = "idle" /\ UNCHANGED <<callVars, clash>>
      /\ mem' = mem /\ other' = other /\ asked' = asked
      /\ heap' = [heap EXCEPT !.lfree = Stored] /\ lost' = (lost \/ heap.lfree < Stored)
      /\ \/ main = "lower_store" /\ main' = "forward"
         \/ main = "f_store" /\ main' = "f_next"
         \/ main = "b_store" /\ main' = "b_next"
  BY DEF StoreLfree, Step, Stores
<1>2. /\ heap \in Heaps /\ Good(heap, ram_end, Exempt, Late) /\ Held(heap, asked) /\ Place
      /\ mem \in Offsets /\ other \in Offsets /\ asked \in [Offsets -> Offsets] /\ lost \in BOOLEAN
      /\ mem \in Real /\ ~heap.used[mem]
  BY <1>1, MainFacts DEF Unset, Place
<1>3. PICK v : v = Stored
  OBVIOUS
<1>4. PICK g : g = [heap EXCEPT !.lfree = v]
  OBVIOUS
<1>5. v \in heap.blocks \ {ram_end} /\ ~heap.used[v] /\ v \in Nat
  <2>1. CASE main = "b_store"
    <3>1. v = other /\ other = heap.prev[mem] /\ ~heap.used[other] /\ mem # other
      BY <1>2, <1>3, <2>1 DEF Place, Stored
    <3>2. List(heap.next, heap.prev, heap.used, heap.blocks, ram_end)
      BY <1>2 DEF Good
    <3>3. mem # 0 /\ mem \in heap.blocks \ {ram_end}
      BY <1>2, <3>1, <3>2 DEF List, Real
    <3>4. other \in heap.blocks \ {ram_end}
      BY <3>1, <3>2, <3>3, Neighbours
    <3> QED BY <1>2, <3>1, <3>4, OffsetType
  <2>2. CASE main # "b_store"
    BY <1>2, <1>3, <2>2, OffsetType DEF Stored, Real
  <2> QED BY <2>1, <2>2
<1>6. lost' = (lost \/ heap.lfree < v) /\ lost' \in BOOLEAN /\ heap' = g
  BY <1>1, <1>2, <1>3, <1>4
<1>7. Low' = {v}
  BY <1>1, <1>3 DEF Low, Stored
<1>8. /\ heap.lfree < v => Late' = Offsets \ {v}
      /\ ~(heap.lfree < v) => Late \ {v} \subseteq Late'
  <2>1. lost' => Late' = Offsets \ {v}
    BY <1>7 DEF Late
  <2>2. ~lost => Late \ {v} = {}
    BY <1>1, <1>3 DEF Late, Stored
  <2>3. Late \subseteq Offsets
    BY <1>2 DEF Late
  <2>4. CASE heap.lfree < v
    BY <1>6, <2>1, <2>4
  <2>5. CASE ~(heap.lfree < v) /\ lost
    BY <1>6, <2>1, <2>3, <2>5
  <2>6. CASE ~(heap.lfree < v) /\ ~lost
    BY <2>2, <2>6
  <2> QED BY <2>4, <2>5, <2>6
<1>9. /\ Good(g, ram_end, Exempt, Late') /\ LfreeFree(g)
      /\ g.next = heap.next /\ g.prev = heap.prev /\ g.used = heap.used /\ g.blocks = heap.blocks
  BY <1>2, <1>4, <1>5, <1>8, StoreGood
<1>10. Unset' = ram_end /\ Exempt' = Exempt /\ main' \in MainPlaces
  BY <1>1, <1>6, <1>9 DEF Unset, Exempt, MainPlaces
<1>11. Place'
  BY <1>1, <1>2, <1>6, <1>9 DEF Place, Real
<1>12. Held(g, asked')
  BY <1>1, <1>2, <1>9 DEF Held, Room
<1> QED BY <1>1, <1>2, <1>6, <1>9, <1>10, <1>11, <1>12, MainStep

LEMMA ForwardStep == ASSUME IInv, Forward PROVE IInv'
<1>1. /\ ~clash /\ pc = "idle" /\ asked' = asked /\ mem' = mem /\ other' = heap.next[mem]
      /\ main = "forward" /\ main' = IF NextFree(heap, mem) THEN "f_lfree" ELSE "backward"
      /\ UNCHANGED <<callVars, clash, lost, asked>> /\ heap' = heap /\ lost' = lost
  BY DEF Forward, Step
<1>2. /\ heap \in Heaps /\ Good(heap, ram_end, {mem, heap.prev[mem]}, Late) /\ mem \in Offsets
      /\ mem \in Real /\ ~heap.used[mem] /\ mem \in heap.blocks \ {ram_end}
  BY <1>1, MainFacts DEF Unset, Exempt, Place, Real
<1>3. /\ heap.next[mem] \in heap.blocks /\ heap.next[mem] \in Offsets /\ heap.next[mem] # mem
      /\ heap.used[ram_end]
  <2>1. List(heap.next, heap.prev, heap.used, heap.blocks, ram_end)
    BY <1>2 DEF Good
  <2>2. heap.next[mem] \in Nat /\ mem \in Nat /\ mem < heap.next[mem]
    BY <1>2, <2>1, Ahead
  <2> QED BY <1>2, <2>1, <2>2, Ahead DEF List
<1>4. CASE NextFree(heap, mem)
  <2>1. main' = "f_lfree" /\ "f_lfree" \in MainPlaces
    BY <1>1, <1>4 DEF MainPlaces
  <2>2. Unset' = ram_end /\ Exempt' = {mem, heap.prev[mem]} /\ Late' = Late
    BY <1>1, <2>1 DEF Unset, Exempt, Late, Low
  <2>3. Place'
    BY <1>1, <1>2, <1>3, <1>4, <2>1 DEF Place, Real, NextFree
  <2> QED BY <1>1, <1>2, <1>3, <2>1, <2>2, <2>3, SameHeap
<1>5. CASE ~NextFree(heap, mem)
  <2>1. main' = "backward" /\ "backward" \in MainPlaces
    BY <1>1, <1>5 DEF MainPlaces
  <2>2. Unset' = ram_end /\ Exempt' = {heap.prev[mem]} \ {mem} /\ Late' = Late
    BY <1>1, <2>1 DEF Unset, Exempt, Late, Low
  <2>3. heap.used[heap.next[mem]]
    BY <1>3, <1>5 DEF NextFree
  <2>4. Good(heap, ram_end, {heap.prev[mem]} \ {mem}, Late)
    BY <1>2, <2>3, GoodWeaker
  <2>5. Place'
    BY <1>1, <1>2, <2>1 DEF Place, Real
  <2> QED BY <1>1, <1>2, <1>3, <2>1, <2>2, <2>4, <2>5, SameHeap
<1> QED BY <1>4, <1>5

LEMMA BackwardStep == ASSUME IInv, Backward PROVE IInv'
<1>1. /\ ~clash /\ pc = "idle" /\ asked' = asked /\ mem' = mem /\ other' = heap.prev[mem]
      /\ main = "backward" /\ main' = IF PrevFree(heap, mem) THEN "b_lfree" ELSE "idle"
      /\ UNCHANGED <<callVars, clash, lost, asked>> /\ heap' = heap /\ lost' = lost
  BY DEF Backward, Step
<1>2. /\ heap \in Heaps /\ Good(heap, ram_end, {heap.prev[mem]} \ {mem}, Late) /\ mem \in Offsets
      /\ mem \in Real /\ ~heap.used[mem] /\ heap.prev[mem] \in Offsets
  BY <1>1, MainFacts DEF Unset, Exempt, Place
<1>3. CASE PrevFree(heap, mem)
  <2>1. main' = "b_lfree" /\ "b_lfree" \in MainPlaces
    BY <1>1, <1>3 DEF MainPlaces
  <2>2. Unset' = ram_end /\ Exempt' = {heap.prev[mem]} \ {mem} /\ Late' = Late
    BY <1>1, <2>1 DEF Unset, Exempt, Late, Low
  <2>3. Place'
    BY <1>1, <1>2, <1>3, <2>1 DEF Place, Real, PrevFree
  <2> QED BY <1>1, <1>2, <2>1, <2>2, <2>3, SameHeap
<1>4. CASE ~PrevFree(heap, mem)
  <2>1. main' = "idle" /\ "idle" \in MainPlaces
    BY <1>1, <1>4 DEF MainPlaces
  <2>2. Unset' = ram_end /\ Exempt' = {} /\ Late \subseteq Late'
    BY <1>1, <2>1 DEF Unset, Exempt, Late, Low
  <2>3. heap.used[heap.prev[mem]] \/ heap.prev[mem] = mem
    BY <1>4 DEF PrevFree
  <2>4. Good(heap, ram_end, {}, Late')
    <3>1. Good(heap, ram_end, {}, Late)
      BY <1>2, <2>3, GoodWeaker
    <3> QED BY <2>2, <3>1, GoodLower
  <2>5. Place'
    BY <2>1 DEF Place
  <2> QED BY <1>1, <1>2, <2>1, <2>2, <2>4, <2>5, SameHeap
<1> QED BY <1>3, <1>4

(* The block that goes is not lfree: it was compared, and lies no higher than the one that *)
(* stays.                                                                                  *)
LEMMA JoinLfreeStep == ASSUME IInv, JoinLfree PROVE IInv'
<1>1. /\ ~clash /\ pc = "idle" /\ UNCHANGED <<callVars, clash, lost, asked>> /\ heap' = heap
      /\ mem' = mem /\ other' = other /\ asked' = asked /\ lost' = lost
      /\ \/ main = "f_lfree" /\ main' = IF heap.lfree = other THEN "f_store" ELSE "f_next"
         \/ main = "b_lfree" /\ main' = IF heap.lfree = mem THEN "b_store" ELSE "b_next"
  BY DEF JoinLfree, Step
<1>2. /\ Good(heap, ram_end, Exempt, Late) /\ Place /\ mem \in Offsets /\ other \in Offsets
      /\ mem \in Real /\ ~heap.used[mem]
  BY <1>1, MainFacts DEF Unset, Place
<1>3. Unset' = ram_end /\ Exempt' = Exempt /\ main' \in MainPlaces
  BY <1>1 DEF Unset, Exempt, MainPlaces
<1>4. Place'
  BY <1>1, <1>2 DEF Place, Real
<1>5. CASE main' # "b_next"
  <2>1. Late' = Late
    BY <1>1, <1>5 DEF Late, Low
  <2> QED BY <1>1, <1>2, <1>3, <1>4, <2>1, SameHeap
<1>6. CASE main' = "b_next"
  <2>1. main = "b_lfree" /\ heap.lfree # mem /\ other = heap.prev[mem] /\ mem # other
    BY <1>1, <1>2, <1>6 DEF Place
  <2>2. mem \notin Late /\ Late \ Late' \subseteq {other}
    BY <1>1, <1>6, <2>1 DEF Late, Low
  <2>3. List(heap.next, heap.prev, heap.used, heap.blocks, ram_end) /\ heap.lfree \in heap.blocks
        /\ mem \in heap.blocks \ {ram_end} /\ heap.lfree <= mem /\ heap.lfree \in Nat
    BY <1>2, <2>2, GoodType DEF Good, Real
  <2>4. other \in heap.blocks \ {ram_end} /\ heap.next[other] = mem
    <3>1. mem # 0
      BY <2>1, <2>3 DEF List
    <3> QED BY <2>1, <2>3, <3>1, Neighbours
  <2>5. heap.lfree <= other
    <3>1. heap.lfree <= other \/ mem <= heap.lfree
      BY <2>3, <2>4 DEF List
    <3> QED BY <1>2, <2>1, <2>3, <3>1, OffsetType
  <2>6. Good(heap, ram_end, Exempt, Late')
    BY <1>2, <2>2, <2>5, GoodLower
  <2> QED BY <1>1, <1>2, <1>3, <1>4, <2>6, SameHeap
<1> QED BY <1>5, <1>6

LEMMA JoinStep == ASSUME IInv, Join PROVE IInv'
<1>1. /\ ~clash /\ pc = "idle" /\ UNCHANGED <<callVars, clash>>
      /\ mem' = mem /\ other' = other /\ asked' = asked /\ lost' = lost
  BY DEF Join, Step
<1>2. /\ heap \in Heaps /\ Good(heap, Unset, Exempt, Late) /\ Held(heap, asked) /\ LfreeFree(heap)
      /\ Place /\ mem \in Offsets /\ other \in Offsets /\ asked \in [Offsets -> Offsets]
      /\ heap.used \in [Offsets -> BOOLEAN] /\ heap.lfree \in Nat /\ lost \in BOOLEAN
      /\ List(heap.next, heap.prev, heap.used, heap.blocks, Unset)
  BY <1>1, MainFacts, Facts
<1>5. ASSUME main = "f_next", main' = "f_prev", heap' = MergeNext(heap, mem, other) PROVE IInv'
  <2>1. /\ mem \in Real /\ ~heap.used[mem] /\ other = heap.next[mem] /\ other \in Real /\ ~heap.used[other]
        /\ mem \notin Late /\ Unset = ram_end /\ Exempt = {mem, heap.prev[mem]} /\ "f_prev" \in MainPlaces
    BY <1>2, <1>5 DEF Place, Late, Low, Unset, Exempt, MainPlaces
  <2>2. /\ mem \in heap.blocks \ {ram_end} /\ other # ram_end /\ mem \in Nat /\ other \in Nat /\ mem < other
        /\ mem \in Offsets
    BY <1>2, <2>1, Ahead DEF Real
  <2>3. heap.prev[mem] <= mem /\ heap.prev[mem] \in Nat
    <3>1. mem # 0 => heap.prev[mem] \in heap.blocks \ {ram_end} /\ heap.prev[mem] < mem
      BY <1>2, <2>1, <2>2, Neighbours
    <3>2. mem = 0 => heap.prev[mem] = 0
      BY <1>2 DEF List
    <3> QED BY <1>2, <2>2, <3>1, <3>2, GoodType
  <2>4. other \notin Exempt /\ heap.lfree # other
    <3>1. heap.lfree <= mem
      BY <1>2, <2>1, <2>2 DEF Good
    <3> QED BY <1>2, <2>1, <2>2, <2>3, <3>1
  <2>5. PICK g : g = MergeNext(heap, mem, other)
    OBVIOUS
  <2>6. /\ Good(g, heap.next[other], Exempt \ {mem}, Late)
        /\ other < heap.next[other] /\ heap.next[other] \in heap.blocks
        /\ g.used = heap.used /\ g.prev = heap.prev /\ g.lfree = heap.lfree
        /\ g.blocks = heap.blocks \ {other}
        /\ g.next[mem] = heap.next[other] /\ \A c \in Offsets : c # mem => g.next[c] = heap.next[c]
    <3>1. PICK F : F = Exempt
      OBVIOUS
    <3>2. PICK L : L = Late
      OBVIOUS
    <3>3. Good(heap, ram_end, F, L) /\ other \notin F
      BY <1>2, <2>1, <2>4, <3>1, <3>2
    <3>4. /\ mem \in heap.blocks \ {ram_end} /\ other # ram_end /\ other = heap.next[mem]
          /\ ~heap.used[other] /\ heap.lfree # other
      BY <2>1, <2>2, <2>4
    <3>5. HalfJoined(g, heap, mem, other, F, L)
      BY <2>5, <3>3, <3>4, HalfJoinGood
    <3> QED BY <3>1, <3>2, <3>5 DEF HalfJoined
  <2>7. /\ Late' = Late /\ Unset' = heap.next[other] /\ Exempt' = {heap.prev[mem]} \ {mem}
        /\ Exempt \ {mem} = {heap.prev[mem]} \ {mem}
    BY <1>1, <1>5, <2>1, <2>5, <2>6 DEF Late, Low, Unset, Exempt
  <2>8. Place'
    <3>1. heap'.next[other] = heap.next[other] /\ heap'.next[mem] = heap.next[other]
      BY <1>2, <1>5, <2>2, <2>5, <2>6
    <3>2. mem \in heap'.blocks \ {ram_end} /\ ~heap'.used[mem]
      BY <1>5, <2>1, <2>2, <2>5, <2>6
    <3> QED BY <1>1, <1>5, <2>2, <2>6, <3>1, <3>2 DEF Place, Real
  <2>9. Held(g, asked') /\ LfreeFree(g)
    <3>1. LfreeFree(g)
      BY <1>2, <2>6 DEF LfreeFree
    <3>2. ASSUME NEW c \in Offsets
          PROVE  /\ asked[c] > 0 <=> c \in g.blocks \ {ram_end} /\ g.used[c]
                 /\ asked[c] > 0 => asked[c] <= Room(g, c)
      BY <1>2, <2>1, <2>6 DEF Held, Room
    <3> QED BY <1>1, <3>1, <3>2 DEF Held
  <2> QED BY <1>1, <1>2, <1>5, <2>1, <2>5, <2>6, <2>7, <2>8, <2>9, MainStep
<1>6. ASSUME main = "b_next", main' = "b_prev", heap' = MergeNext(heap, other, mem) PROVE IInv'
  <2>1. /\ mem \in Real /\ ~heap.used[mem] /\ other = heap.prev[mem] /\ ~heap.used[other] /\ mem # other
        /\ other \notin Late /\ Unset = ram_end /\ Exempt = {heap.prev[mem]} \ {mem} /\ "b_prev" \in MainPlaces
    BY <1>2, <1>6 DEF Place, Late, Low, Unset, Exempt, MainPlaces
  <2>2. mem # 0 /\ mem \in heap.blocks \ {ram_end}
    BY <1>2, <2>1 DEF List, Real
  <2>3. other \in heap.blocks \ {ram_end} /\ mem = heap.next[other] /\ other \in Offsets
    BY <1>2, <2>1, <2>2, Neighbours
  <2>4. mem \notin Exempt /\ heap.lfree # mem /\ mem # ram_end
    <3>1. heap.lfree <= other
      BY <1>2, <2>1, <2>3 DEF Good
    <3>2. other < mem /\ other \in Nat /\ mem \in Nat
      BY <1>2, <2>3, Ahead
    <3> QED BY <1>2, <2>1, <2>2, <3>1, <3>2
  <2>5. PICK g : g = MergeNext(heap, other, mem)
    OBVIOUS
  <2>6. /\ Good(g, heap.next[mem], Exempt \ {other}, Late)
        /\ other < mem /\ mem < heap.next[mem] /\ heap.next[mem] \in heap.blocks
        /\ g.used = heap.used /\ g.prev = heap.prev /\ g.lfree = heap.lfree
        /\ g.blocks = heap.blocks \ {mem}
        /\ g.next[other] = heap.next[mem] /\ \A c \in Offsets : c # other => g.next[c] = heap.next[c]
    <3>1. PICK F : F = Exempt
      OBVIOUS
    <3>2. PICK L : L = Late
      OBVIOUS
    <3>3. Good(heap, ram_end, F, L)
      BY <1>2, <2>1, <3>1, <3>2
    <3>4. /\ other \in heap.blocks \ {ram_end} /\ mem = heap.next[other] /\ mem # ram_end
          /\ mem \notin F /\ ~heap.used[mem] /\ heap.lfree # mem
      BY <2>1, <2>3, <2>4, <3>1
    <3>5. HalfJoined(g, heap, other, mem, F, L)
      BY <2>5, <3>3, <3>4, HalfJoinGood
    <3> QED BY <3>1, <3>2, <3>5 DEF HalfJoined
  <2>7. g.next[mem] = heap.next[mem]
    BY <1>2, <2>1, <2>6
  <2>8. Late' = Late /\ Unset' = heap.next[mem] /\ Exempt' = {} /\ Exempt \ {other} = {}
    BY <1>1, <1>6, <2>1, <2>5, <2>7 DEF Late, Low, Unset, Exempt
  <2>9. Place'
    BY <1>1, <1>6, <2>1, <2>3, <2>5, <2>6, <2>7 DEF Place, Real
  <2>10. Held(g, asked') /\ LfreeFree(g)
    <3>1. LfreeFree(g)
      BY <1>2, <2>6 DEF LfreeFree
    <3>2. ASSUME NEW c \in Offsets
          PROVE  /\ asked[c] > 0 <=> c \in g.blocks \ {ram_end} /\ g.used[c]
                 /\ asked[c] > 0 => asked[c] <= Room(g, c)
      BY <1>2, <2>1, <2>6 DEF Held, Room
    <3> QED BY <1>1, <3>1, <3>2 DEF Held
  <2> QED BY <1>1, <1>2, <1>6, <2>1, <2>5, <2>6, <2>8, <2>9, <2>10, MainStep
<1>7. ASSUME main = "f_prev", main' = "backward", heap' = MergePrev(heap, mem, other) PROVE IInv'
  <2>1. /\ mem \in Real /\ ~heap.used[mem] /\ heap.next[other] = heap.next[mem]
        /\ Unset = heap.next[mem] /\ Exempt = {heap.prev[mem]} \ {mem}
        /\ "backward" \in MainPlaces
    BY <1>2, <1>7 DEF Place, Unset, Exempt, MainPlaces
  <2>2. mem \in heap.blocks \ {ram_end} /\ heap.next[mem] # mem
    <3>1. mem \in heap.blocks \ {ram_end}
      BY <2>1 DEF Real
    <3>2. mem \in Nat /\ heap.next[mem] \in Nat /\ mem < heap.next[mem]
      BY <1>2, <3>1, Ahead
    <3> QED BY <3>1, <3>2
  <2>3. PICK g : g = MergePrev(heap, mem, other)
    OBVIOUS
  <2>4. /\ Good(g, ram_end, Exempt, Late)
        /\ g.used = heap.used /\ g.next = heap.next /\ g.lfree = heap.lfree /\ g.blocks = heap.blocks
        /\ \A c \in Offsets : c # heap.next[mem] => g.prev[c] = heap.prev[c]
    <3>1. Good(heap, heap.next[mem], Exempt, Late) /\ other \in Offsets
      BY <1>2, <2>1
    <3>2. heap.next[other] = heap.next[mem]
      BY <2>1
    <3> QED BY <2>2, <2>3, <3>1, <3>2, SetPrevGood
  <2>5. g.prev[mem] = heap.prev[mem]
    BY <1>2, <2>2, <2>4
  <2>6. Late' = Late /\ Unset' = ram_end /\ Exempt' = Exempt
    BY <1>1, <1>7, <2>1, <2>3, <2>5 DEF Late, Low, Unset, Exempt
  <2>7. Place'
    BY <1>1, <1>7, <2>1, <2>2, <2>3, <2>4 DEF Place, Real
  <2>8. Held(g, asked') /\ LfreeFree(g)
    BY <1>1, <1>2, <2>4 DEF Held, Room, LfreeFree
  <2> QED BY <1>1, <1>2, <1>7, <2>1, <2>3, <2>4, <2>6, <2>7, <2>8, MainStep
<1>8. ASSUME main = "b_prev", main' = "idle", heap' = MergePrev(heap, other, mem) PROVE IInv'
  <2>1. /\ other \in Real /\ heap.next[other] = heap.next[mem]
        /\ Unset = heap.next[other] /\ Exempt = {} /\ "idle" \in MainPlaces
    BY <1>2, <1>8 DEF Place, Unset, Exempt, MainPlaces
  <2>2. other \in heap.blocks \ {ram_end}
    BY <2>1 DEF Real
  <2>3. PICK g : g = MergePrev(heap, other, mem)
    OBVIOUS
  <2>4. /\ Good(g, ram_end, {}, Late)
        /\ g.used = heap.used /\ g.next = heap.next /\ g.lfree = heap.lfree /\ g.blocks = heap.blocks
    <3>1. Good(heap, heap.next[other], {}, Late) /\ mem \in Offsets
      BY <1>2, <2>1
    <3>2. heap.next[mem] = heap.next[other]
      BY <2>1
    <3> QED BY <2>2, <2>3, <3>1, <3>2, SetPrevGood
  <2>5. Late \subseteq Late' /\ Unset' = ram_end /\ Exempt' = {} /\ Place'
    BY <1>1, <1>8 DEF Late, Low, Unset, Exempt, Place
  <2>7. Good(g, ram_end, {}, Late')
    BY <2>4, <2>5, GoodLower
  <2>6. Held(g, asked') /\ LfreeFree(g)
    BY <1>1, <1>2, <2>4 DEF Held, Room, LfreeFree
  <2> QED BY <1>1, <1>2, <1>8, <2>1, <2>3, <2>5, <2>6, <2>7, MainStep
<1> QED BY <1>5, <1>6, <1>7, <1>8 DEF Join, Step
-----------------------------------------------------------------------------
LEMMA InitInv == Init => IInv
<1> SUFFICES ASSUME Init PROVE IInv
  OBVIOUS
<1>1. /\ heap.next = [b \in Offsets |-> MEM_SIZE]
      /\ heap.prev = [b \in Offsets |-> IF b = ram_end THEN MEM_SIZE ELSE 0]
      /\ heap.used = [b \in Offsets |-> b = ram_end] /\ heap.lfree = 0 /\ heap.blocks = {0, ram_end}
      /\ heap = [next |-> heap.next, prev |-> heap.prev, used |-> heap.used, lfree |-> heap.lfree,
                 blocks |-> heap.blocks]
  BY DEF Init
<1>2. /\ heap.next \in [Offsets -> Offsets] /\ heap.prev \in [Offsets -> Offsets]
      /\ heap.used \in [Offsets -> BOOLEAN] /\ heap.lfree \in Offsets /\ heap.blocks \in SUBSET Offsets
  BY <1>1, OffsetType
<1>3. heap \in Heaps
  BY <1>1, <1>2 DEF Heaps
<1>4. /\ heap.next[0] = ram_end /\ heap.prev[0] = 0 /\ ~heap.used[0] /\ heap.used[ram_end]
      /\ heap.blocks \ {ram_end} = {0}
  <2>1. 0 \in Offsets /\ ram_end \in Offsets /\ ram_end # 0 /\ ram_end = MEM_SIZE
    BY OffsetType
  <2>2. heap.next[0] = ram_end
    BY <1>1, <2>1
  <2>3. heap.prev[0] = 0 /\ ~heap.used[0] /\ heap.used[ram_end]
    BY <1>1, <2>1
  <2>4. heap.blocks \ {ram_end} = {0}
    BY <1>1, <2>1
  <2> QED BY <2>2, <2>3, <2>4
<1>5. List(heap.next, heap.prev, heap.used, heap.blocks, ram_end)
  <2>1. 0 + SIZEOF + MIN_SIZE <= ram_end /\ 0 <= 0 /\ ram_end <= ram_end
    BY Consts, OffsetType
  <2>2. 0 \in heap.blocks /\ ram_end \in heap.blocks
    BY <1>1
  <2>3. ASSUME NEW b \in heap.blocks \ {ram_end}
        PROVE  /\ heap.next[b] \in heap.blocks /\ b + SIZEOF + MIN_SIZE <= heap.next[b]
               /\ \A c \in heap.blocks : c <= b \/ heap.next[b] <= c
               /\ b # 0 /\ b # ram_end => heap.prev[b] \in heap.blocks \ {ram_end}
                                        /\ heap.next[heap.prev[b]] = b
    <3>1. b = 0 /\ heap.next[b] = ram_end
      BY <1>4
    <3>2. \A c \in heap.blocks : c <= b \/ heap.next[b] <= c
      BY <1>1, <2>1, <3>1
    <3> QED BY <2>1, <2>2, <3>1, <3>2
  <2> QED BY <1>2, <1>4, <2>2, <2>3 DEF List
<1>6. main = "idle" /\ pc = "idle" /\ lost = FALSE /\ Unset = ram_end /\ Exempt = {} /\ Late = {}
  BY DEF Init, Unset, Exempt, Late
<1>7. Good(heap, Unset, Exempt, Late)
  <2>1. 0 <= 0
    OBVIOUS
  <2> QED BY <1>1, <1>3, <1>4, <1>5, <1>6, <2>1 DEF Good
<1>8. Held(heap, asked)
  BY <1>1, <1>4 DEF Init, Held
<1>9. LfreeFree(heap) /\ Place /\ Scanning
  BY <1>1, <1>4, <1>6 DEF LfreeFree, Place, Scanning
<1>10. TypeOK
  <2>1. asked \in [Offsets -> Offsets]
    BY OffsetType DEF Init
  <2>2. size \in MIN_SIZE .. MEM_SIZE
    BY Consts DEF Init
  <2>3. /\ pc \in {"idle", "scan", "adjust"} /\ ptr \in Offsets
        /\ main \in MainPlaces /\ mem \in Offsets /\ other \in Offsets
        /\ clash \in BOOLEAN /\ lost \in BOOLEAN
    BY OffsetType DEF Init, MainPlaces
  <2> QED BY <1>3, <2>1, <2>2, <2>3 DEF TypeOK, Heaps
<1> QED BY <1>7, <1>8, <1>9, <1>10 DEF IInv, Shape

LEMMA StepInv == IInv /\ [Next]_vars => IInv'
<1> SUFFICES ASSUME IInv, [Next]_vars PROVE IInv'
  OBVIOUS
<1>1. CASE Interrupt
  BY <1>1, MallocStep, SkipStep, TakeStep, FailStep, AdjustStep, FreeStep, TrimStep DEF Interrupt
<1>2. CASE Main
  BY <1>2, MainFreeStep, MainLowerStep, JoinLfreeStep, StoreLfreeStep,
     ForwardStep, BackwardStep, JoinStep DEF Main
<1>3. CASE UNCHANGED vars
  BY <1>3 DEF vars, callVars, mainVars, IInv, TypeOK, Shape, Unset, Exempt, Late, Low, Place, Scanning, Real
<1> QED BY <1>1, <1>2, <1>3 DEF Next, Clashed

(* The shape of the heap, of the main thread's call and of the scan is an invariant. *)
THEOREM Invariance == Spec => []IInv
<1> QED BY InitInv, StepInv, PTL DEF Spec

(* Whatever is allocated, freed and trimmed, the list covers the heap, forwards and     *)
(* backwards, no region is handed out twice, no two free blocks follow each other and   *)
(* lfree is a free one, unless the interrupt met the main thread's free block; and it   *)
(* is the lowest, unless the main thread has overwritten what the interrupt stored.     *)
THEOREM HeapKept == Spec => []HeapIntact
<1>1. ASSUME IInv PROVE HeapIntact
  <2>1. TypeOK
    BY <1>1 DEF IInv
  <2>2. HeldExact
    BY <1>1 DEF IInv, Shape, Held, HeldExact, Real
  <2>3. ASSUME Quiet
        PROVE  /\ Good(heap, ram_end, {}, Late) /\ (lost \/ Late = {}) /\ (pc # "adjust" => LfreeFree(heap))
               /\ List(heap.next, heap.prev, heap.used, heap.blocks, ram_end) /\ heap.lfree \in heap.blocks
    <3>1. Shape /\ Unset = ram_end /\ Exempt = {} /\ (lost \/ Late = {})
      BY <1>1, <2>3 DEF Quiet, IInv, Unset, Exempt, Late
    <3> QED BY <3>1 DEF Shape, Good
  <2>4. ListIntact
    <3>1. ASSUME Quiet PROVE {0, ram_end} \subseteq heap.blocks /\ heap.used[ram_end] /\ heap.prev[0] = 0
      BY <2>3, <3>1 DEF List
    <3>2. ASSUME Quiet, NEW b \in Real
          PROVE  /\ heap.next[b] \in heap.blocks /\ Room(heap, b) >= MIN_SIZE
                 /\ \A c \in heap.blocks : ~(b < c /\ c < heap.next[b])
                 /\ heap.next[b] # ram_end => heap.prev[heap.next[b]] = b
      <4>1. b \in heap.blocks \ {ram_end} /\ List(heap.next, heap.prev, heap.used, heap.blocks, ram_end)
        BY <2>3, <3>2 DEF Real
      <4>2. /\ b \in Nat /\ heap.next[b] \in Nat /\ heap.next[b] \in heap.blocks
            /\ b + SIZEOF + MIN_SIZE <= heap.next[b]
        BY <4>1, Ahead
      <4>3. Room(heap, b) >= MIN_SIZE
        BY <4>2, Consts DEF Room
      <4>4. ASSUME NEW c \in heap.blocks PROVE ~(b < c /\ c < heap.next[b])
        <5>1. (c <= b \/ heap.next[b] <= c) /\ c \in Nat
          BY <4>1, OffsetType DEF List
        <5> QED BY <4>2, <5>1
      <4>5. heap.next[b] # ram_end => heap.prev[heap.next[b]] = b
        BY <4>1, Neighbours
      <4> QED BY <4>2, <4>3, <4>4, <4>5
    <3> QED BY <3>1, <3>2 DEF ListIntact
  <2>5. NoTwoFree
    BY <2>3 DEF NoTwoFree, Good, Real
  <2>6. LfreeValid
    BY <2>3 DEF LfreeValid, LfreeFree
  <2>7. lost \/ LfreeLowest
    BY <2>3 DEF LfreeLowest, Good, Real
  <2> QED BY <2>1, <2>2, <2>4, <2>5, <2>6, <2>7 DEF HeapIntact
<1> QED BY Invariance, <1>1, PTL

(* The scan overlooks no block from lfree on, and none at all if no update of lfree was lost. *)
THEOREM FindsTheFirst == Spec => FirstFit
<1>1. ASSUME IInv, Quiet
      PROVE  /\ Fail => \A b \in Searched : TooSmall(b)
             /\ Take => \A b \in Searched : b < ptr => TooSmall(b)
  <2>1. Scanning /\ Good(heap, Unset, Exempt, Late) /\ (lost \/ Late = {}) /\ ~clash
    BY <1>1 DEF IInv, Shape, Quiet, Late
  <2>2. \A b \in Searched : b \in Real /\ (heap.used[b] \/ heap.lfree <= b)
    BY <2>1 DEF Searched, Good, Real
  <2>3. ASSUME pc = "scan", NEW b \in Searched, b < ptr PROVE TooSmall(b)
    BY <2>1, <2>2, <2>3 DEF Scanning, TooSmall
  <2>4. ASSUME Take, NEW b \in Searched, b < ptr PROVE TooSmall(b)
    BY <2>3, <2>4 DEF Take, InLoop
  <2>5. ASSUME Fail, NEW b \in Searched PROVE TooSmall(b)
    <3>1. pc = "scan" /\ ~(ptr < MEM_SIZE - size)
      BY <2>5 DEF Fail, InLoop
    <3>2. /\ List(heap.next, heap.prev, heap.used, heap.blocks, Unset) /\ ptr \in Nat /\ size \in Nat
          /\ b \in heap.blocks \ {ram_end}
      <4>1. List(heap.next, heap.prev, heap.used, heap.blocks, Unset)
        BY <2>1 DEF Good
      <4>2. ptr \in Offsets /\ size \in MIN_SIZE .. MEM_SIZE
        BY <1>1 DEF IInv, TypeOK
      <4>3. ptr \in Nat /\ size \in Nat
        BY <4>2, OffsetType, Consts
      <4> QED BY <2>2, <4>1, <4>3 DEF Real
    <3>3. b \in Nat /\ heap.next[b] \in Nat /\ heap.next[b] <= ram_end
      BY <3>2, Ahead, OffsetType
    <3>4. CASE b < ptr
      BY <2>3, <3>1, <3>4
    <3>5. CASE ~(b < ptr)
      <4>1. heap.next[b] - (b + SIZEOF) < size
        BY <3>1, <3>2, <3>3, <3>5, Consts DEF ram_end
      <4> QED BY <4>1 DEF Room, TooSmall
    <3> QED BY <3>4, <3>5
  <2> QED BY <2>4, <2>5
<1>2. ASSUME IInv, [Next]_vars
      PROVE  [Quiet =>
                /\ Fail => \A b \in Searched : TooSmall(b)
                /\ Take => \A b \in Searched : b < ptr => TooSmall(b)]_vars
  BY <1>1, <1>2
<1> QED BY Invariance, <1>2, PTL DEF Spec, FirstFit
=============================================================================

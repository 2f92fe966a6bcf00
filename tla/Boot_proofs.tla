----------------------------- MODULE Boot_proofs -----------------------------
(***************************************************************************)
(* The start-up never gets its memory wrong, whatever the sizes of the     *)
(* pool and of the buffers and however many attempts have failed before:   *)
(* a buffer is used only when all six are granted and disjoint, and no     *)
(* pointer that is freed has gone stale.  LeakInv says what failed         *)
(* attempts leave behind.                                                  *)
(***************************************************************************)
EXTENDS Firmware, SetLemmas

(* A set of integers with an upper bound has a maximum. *)
LEMMA MaxIsElement ==
    ASSUME NEW S, NEW k \in Int, S # {}, \A b \in S : b \in Int /\ b <= k
    PROVE  Max(S) \in S
<1>1. PICK R : IsWellFoundedOn(R, Nat) /\ \A x, y \in Nat : y < x => <<y, x>> \in R
  BY LessIsWellFounded
<1> DEFINE T == {k - b : b \in S}
<1>2. T \subseteq Nat /\ T # {}
  OBVIOUS
<1>3. PICK x \in T : \A y \in T : ~(<<y, x>> \in R)
  BY <1>1, <1>2, WFMin
<1>4. \A y \in T : x <= y
  <2> TAKE y \in T
  <2>1. x \in Nat /\ y \in Nat
    BY <1>2
  <2>2. ~(y < x)
    BY <1>1, <1>3, <2>1
  <2> QED
    BY <2>1, <2>2
<1>5. PICK b \in S : x = k - b
  OBVIOUS
<1>6. \A c \in S : b >= c
  <2> TAKE c \in S
  <2>1. x <= k - c
    BY <1>4
  <2> QED
    BY <2>1, <1>5
<1> QED
  BY <1>6 DEF Max
-----------------------------------------------------------------------------
AllBuffers == EthBuffers \cup LwipBuffers

Apart(r, s) == r[1] + r[2] <= s[1] \/ s[1] + s[2] <= r[1]

(* The granted regions lie in the pool and do not overlap. *)
PoolInv ==
    /\ pool \subseteq Nat \X (Nat \ {0})
    /\ \A r \in pool : r[1] + r[2] <= size
    /\ \A r, s \in pool : r # s => Apart(r, s)

(* The pointers that this attempt has set, and only they, can be relied on: each is  *)
(* NULL or a region that is granted, and no two are the same.                        *)
PtrInv ==
    /\ ptr \in [AllBuffers -> (0 .. size - 1) \cup {NULL}]
    /\ pc # "delay" =>
          \A i \in 1 .. next - 1 :
             /\ ptr[Buffers[i]] # NULL => Granted(Buffers[i])
             /\ \A j \in 1 .. next - 1 :
                   i # j /\ ptr[Buffers[i]] # NULL => ptr[Buffers[i]] # ptr[Buffers[j]]

(* How far the attempt is, and which pointers have been tested. *)
PhaseInv ==
    /\ next \in 1 .. 7
    /\ pc \in {"alloc", "ethCheck", "lwipCheck", "phy", "netif", "delay", "run"}
    /\ pc = "alloc" => next # 7
    /\ pc = "ethCheck" => next = 5
    /\ pc = "lwipCheck" => next = 7
    /\ pc \notin {"delay", "ethCheck"} /\ next >= 5 => \A i \in 1 .. 4 : ptr[Buffers[i]] # NULL
    /\ pc \in {"phy", "netif", "run"} => next = 7 /\ \A i \in 1 .. 6 : ptr[Buffers[i]] # NULL

BootInv == size \in PoolSizes /\ link \in BOOLEAN /\ PoolInv /\ PtrInv /\ PhaseInv

LEMMA BufferIndex ==
    /\ \A i \in 1 .. 6 : Buffers[i] \in AllBuffers
    /\ \A b \in AllBuffers : \E i \in 1 .. 6 : b = Buffers[i]
    /\ \A b \in EthBuffers : \E i \in 1 .. 4 : b = Buffers[i]
    /\ \A b \in LwipBuffers : \E i \in 5 .. 6 : b = Buffers[i]
  BY DEF AllBuffers, EthBuffers, LwipBuffers

LEMMA BuffersDiffer == \A i, j \in 1 .. 6 : i # j => Buffers[i] # Buffers[j]
  BY DEF Buffers

(* What a request gets is inside the pool and clear of every granted region. *)
LEMMA RoomIsFree ==
    ASSUME BootInv, NEW n \in Nat \ {0}, Room(n) # {}
    PROVE  /\ Max(Room(n)) \in Nat
           /\ Max(Room(n)) + n <= size
           /\ Fits(Max(Room(n)), n)
<1>1. size \in Nat
  BY NeedAssumption DEF BootInv
<1>2. \A b \in Room(n) : b \in Nat /\ b + n <= size /\ Fits(b, n)
  <2> TAKE b \in Room(n)
  <2>1. CASE b = size - n
    BY <1>1, <2>1 DEF Room
  <2>2. ASSUME NEW r \in pool, b = r[1] - n PROVE b \in Nat /\ b + n <= size /\ Fits(b, n)
    <3>1. r[1] \in Nat /\ r[2] \in Nat /\ r[1] + r[2] <= size
      BY DEF BootInv, PoolInv
    <3> QED
      BY <1>1, <2>2, <3>1 DEF Room
  <2> QED
    BY <2>1, <2>2 DEF Room
<1>3. Max(Room(n)) \in Room(n)
  BY <1>1, <1>2, MaxIsElement
<1> QED
  BY <1>2, <1>3
-----------------------------------------------------------------------------
LEMMA InitBoot == Init => BootInv
<1> SUFFICES ASSUME Init PROVE BootInv
  OBVIOUS
<1>1. PoolInv
  BY DEF Init, PoolInv
<1>2. PtrInv
  BY DEF Init, PtrInv, AllBuffers
<1>3. PhaseInv
  BY DEF Init, PhaseInv
<1> QED
  BY <1>1, <1>2, <1>3 DEF Init, BootInv

LEMMA AllocateKeeps ==
    ASSUME BootInv, Allocate
    PROVE  BootInv'
<1> DEFINE b == Buffers[next]
           n == Need[b]
<1>1. next \in 1 .. 6 /\ b \in AllBuffers /\ next' = next + 1
  BY BufferIndex DEF BootInv, PhaseInv, Allocate
<1>2. n \in Nat \ {0} /\ size \in Nat /\ NULL \notin Int
  BY <1>1, NeedAssumption DEF BootInv, AllBuffers
<1>3. PICK base \in Nat \cup {NULL} :
         /\ ptr' = [ptr EXCEPT ![b] = base]
         /\ base = NULL => pool' = pool
         /\ base # NULL => /\ pool' = pool \cup {<<base, n>>}
                           /\ base + n <= size /\ Fits(base, n)
  <2>1. CASE Room(n) = {}
    BY <2>1 DEF Allocate
  <2>2. CASE Room(n) # {}
    BY <1>2, <2>2, RoomIsFree DEF Allocate
  <2> QED
    BY <2>1, <2>2
<1>4. PoolInv'
  <2>1. CASE base = NULL
    BY <1>3, <2>1 DEF BootInv, PoolInv, Apart, Allocate
  <2>2. CASE base # NULL
    <3>1. \A r \in pool : Apart(<<base, n>>, r) /\ Apart(r, <<base, n>>)
      BY <1>3, <2>2 DEF Fits, Apart
    <3>2. \A r \in pool' : r \in pool \/ r = <<base, n>>
      BY <1>3, <2>2
    <3>3. pool' \subseteq Nat \X (Nat \ {0})
      BY <1>2, <1>3, <2>2, <3>2 DEF BootInv, PoolInv
    <3>4. \A r \in pool' : r[1] + r[2] <= size
      BY <1>3, <2>2, <3>2 DEF BootInv, PoolInv
    <3>5. \A r, t \in pool' : r # t => Apart(r, t)
      BY <3>1, <3>2 DEF BootInv, PoolInv
    <3> QED
      BY <3>3, <3>4, <3>5 DEF PoolInv, Apart, Allocate
  <2> QED
    BY <2>1, <2>2
<1>5. ptr' \in [AllBuffers -> (0 .. size - 1) \cup {NULL}]
  BY <1>1, <1>2, <1>3 DEF BootInv, PtrInv
<1>6. ASSUME NEW i \in 1 .. next' - 1
      PROVE  /\ Buffers[i] \in AllBuffers /\ i \in 1 .. 6
             /\ i # next => i \in 1 .. next - 1 /\ ptr'[Buffers[i]] = ptr[Buffers[i]]
             /\ i = next => ptr'[Buffers[i]] = base
  <2>1. i \in 1 .. 6 /\ (i # next => i \in 1 .. next - 1)
    BY <1>1, <1>6
  <2>2. Buffers[i] \in AllBuffers /\ (i # next => Buffers[i] # b)
    BY <1>1, <2>1, BufferIndex, BuffersDiffer
  <2> QED
    BY <1>1, <1>3, <2>1, <2>2 DEF BootInv, PtrInv
<1>7. ASSUME NEW i \in 1 .. next' - 1, ptr'[Buffers[i]] # NULL
      PROVE  Granted(Buffers[i])'
  <2>1. CASE i = next
    BY <1>3, <1>6, <1>7, <2>1 DEF Granted
  <2>2. CASE i # next
    BY <1>3, <1>6, <1>7, <2>2 DEF Granted, BootInv, PtrInv, Allocate
  <2> QED
    BY <2>1, <2>2
<1>8. ASSUME NEW i \in 1 .. next - 1, ptr[Buffers[i]] # NULL
      PROVE  base = NULL \/ ptr[Buffers[i]] # base
  <2>1. <<ptr[Buffers[i]], Need[Buffers[i]]>> \in pool
    BY <1>8 DEF BootInv, PtrInv, Granted, Allocate
  <2>2. ptr[Buffers[i]] \in Nat /\ Need[Buffers[i]] \in Nat \ {0}
    BY <2>1 DEF BootInv, PoolInv
  <2>3. base = NULL \/ base + n <= ptr[Buffers[i]] \/ ptr[Buffers[i]] + Need[Buffers[i]] <= base
    BY <1>3, <2>1 DEF Fits
  <2> QED
    BY <1>2, <2>2, <2>3
<1>9. ASSUME NEW i \in 1 .. next' - 1, NEW j \in 1 .. next' - 1, i # j, ptr'[Buffers[i]] # NULL
      PROVE  ptr'[Buffers[i]] # ptr'[Buffers[j]]
  <2>1. CASE i # next /\ j # next
    <3>1. i \in 1 .. next - 1 /\ ptr[Buffers[i]] = ptr'[Buffers[i]]
      BY <1>6, <2>1
    <3>2. j \in 1 .. next - 1 /\ ptr[Buffers[j]] = ptr'[Buffers[j]]
      BY <1>6, <2>1
    <3> QED
      BY <1>9, <3>1, <3>2 DEF BootInv, PtrInv, Allocate
  <2>2. CASE i = next
    <3>1. ptr'[Buffers[i]] = base /\ j \in 1 .. next - 1 /\ ptr'[Buffers[j]] = ptr[Buffers[j]]
      BY <1>6, <1>9, <2>2
    <3> QED
      BY <1>8, <1>9, <3>1
  <2>3. CASE j = next
    <3>1. ptr'[Buffers[j]] = base /\ i \in 1 .. next - 1 /\ ptr'[Buffers[i]] = ptr[Buffers[i]]
      BY <1>6, <1>9, <2>3
    <3> QED
      BY <1>8, <1>9, <3>1
  <2> QED
    BY <2>1, <2>2, <2>3
<1>10. PtrInv'
  BY <1>5, <1>7, <1>9 DEF PtrInv, Allocate
<1>11. PhaseInv'
  <2>1. ASSUME pc' # "ethCheck", next' >= 5, NEW i \in 1 .. 4 PROVE ptr'[Buffers[i]] # NULL
    <3>1. next \in 5 .. 6 /\ i \in 1 .. next' - 1 /\ i # next
      BY <1>1, <2>1 DEF Allocate
    <3> QED
      BY <1>6, <3>1 DEF BootInv, PhaseInv, Allocate
  <2> QED
    BY <1>1, <2>1 DEF PhaseInv, Allocate
<1> QED
  BY <1>4, <1>10, <1>11 DEF BootInv, Allocate

(* Releasing regions disturbs no other. *)
LEMMA ReleasedSubset ==
    ASSUME BootInv, pool' \subseteq pool, size' = size
    PROVE  PoolInv'
  BY DEF BootInv, PoolInv, Apart

LEMMA EthMallocKeeps ==
    ASSUME BootInv, ETH_Mem_Malloc
    PROVE  BootInv'
<1>1. PoolInv'
  BY ReleasedSubset DEF ETH_Mem_Malloc, Released
<1>2. PtrInv'
  BY DEF ETH_Mem_Malloc, BootInv, PtrInv, Granted
<1>3. pc' = "alloc" => \A i \in 1 .. 4 : ptr[Buffers[i]] # NULL
  <2>1. \A i \in 1 .. 4 : Buffers[i] \in EthBuffers
    BY DEF EthBuffers
  <2> QED
    BY <2>1 DEF ETH_Mem_Malloc
<1>4. PhaseInv'
  BY <1>3 DEF ETH_Mem_Malloc, BootInv, PhaseInv
<1> QED
  BY <1>1, <1>2, <1>4 DEF BootInv, ETH_Mem_Malloc

LEMMA LwipMallocKeeps ==
    ASSUME BootInv, lwip_comm_mem_malloc
    PROVE  BootInv'
<1>1. PoolInv'
  BY ReleasedSubset DEF lwip_comm_mem_malloc, Released
<1>2. PtrInv'
  BY DEF lwip_comm_mem_malloc, BootInv, PtrInv, Granted
<1>3. pc' = "phy" => \A i \in 1 .. 6 : ptr[Buffers[i]] # NULL
  <2>1. \A i \in 5 .. 6 : Buffers[i] \in LwipBuffers
    BY DEF LwipBuffers
  <2>2. next = 7 /\ \A i \in 1 .. 4 : ptr[Buffers[i]] # NULL
    BY DEF lwip_comm_mem_malloc, BootInv, PhaseInv
  <2>3. \A i \in 1 .. 6 : i \in 1 .. 4 \/ i \in 5 .. 6
    OBVIOUS
  <2> QED
    BY <2>1, <2>2, <2>3 DEF lwip_comm_mem_malloc
<1>4. PhaseInv'
  BY <1>3 DEF lwip_comm_mem_malloc, BootInv, PhaseInv
<1> QED
  BY <1>1, <1>2, <1>4 DEF BootInv, lwip_comm_mem_malloc

LEMMA RestKeeps ==
    ASSUME BootInv, mv88e6xx_init \/ netif_add \/ Retry \/ Cable \/ UNCHANGED vars
    PROVE  BootInv'
<1>1. PoolInv'
  BY ReleasedSubset DEF mv88e6xx_init, netif_add, Retry, Cable, vars
<1>2. PtrInv'
  BY DEF mv88e6xx_init, netif_add, Retry, Cable, vars, BootInv, PtrInv, PhaseInv, Granted
<1>3. PhaseInv'
  BY DEF mv88e6xx_init, netif_add, Retry, Cable, vars, BootInv, PhaseInv
<1> QED
  BY <1>1, <1>2, <1>3 DEF BootInv, mv88e6xx_init, netif_add, Retry, Cable, vars

LEMMA BootStep == BootInv /\ [Next]_vars => BootInv'
  BY AllocateKeeps, EthMallocKeeps, LwipMallocKeeps, RestKeeps DEF Next, Main

-----------------------------------------------------------------------------
(* Timer 3 and the main loop leave the start-up as it is: main() does what Boot says. *)
THEOREM FirmwareBoots == FirmwareSpec => Init /\ [][Next]_vars
<1>1. FirmwareInit => Init
  BY DEF FirmwareInit
<1>2. [FirmwareNext]_firmwarevars => [Next]_vars
  BY DEF FirmwareNext, firmwarevars, Start, Loop, Interrupts, Next
<1> QED BY <1>1, <1>2, PTL DEF FirmwareSpec

(* What the start-up does leaves the time as it is: NeverEarly, proved of LocalTime, *)
(* holds of main() too.                                                              *)
THEOREM FirmwareKeepsTime == FirmwareSpec => TimeInit /\ [][TimeNext]_timevars
<1>1. FirmwareInit => TimeInit
  BY DEF FirmwareInit
<1>2. [FirmwareNext]_firmwarevars => [TimeNext]_timevars
  BY DEF FirmwareNext, firmwarevars, Start, Loop, Interrupts, TimeNext
<1> QED BY <1>1, <1>2, PTL DEF FirmwareSpec

(* The pool's regions and the pointers keep their types, for every size of pool. *)
THEOREM TypeCorrect == Spec => []TypeOK
<1>1. BootInv => TypeOK
  <2> SUFFICES ASSUME BootInv PROVE TypeOK
    OBVIOUS
  <2>1. \A r \in pool : r[1] \in 0 .. size - 1 /\ r[1] + r[2] <= size
    BY NeedAssumption DEF BootInv, PoolInv
  <2> QED
    BY <2>1 DEF BootInv, PtrInv, PhaseInv, TypeOK
<1> QED
  BY <1>1, InitBoot, BootStep, PTL DEF Spec

(* Two granted regions with different bases do not overlap. *)
LEMMA GrantedApart ==
    ASSUME BootInv, NEW b \in AllBuffers, NEW c \in AllBuffers,
           Granted(b), Granted(c), ptr[b] # ptr[c]
    PROVE  ptr[b] + Need[b] <= ptr[c] \/ ptr[c] + Need[c] <= ptr[b]
  BY DEF BootInv, PoolInv, Granted, Apart

(* What the PHY, the DMA and the stack are given is granted and disjoint. *)
THEOREM Ready == FirmwareSpec => []BuffersReady
<1>1. BootInv => BuffersReady
  <2> SUFFICES ASSUME BootInv, pc \in {"phy", "netif", "run"}
               PROVE  /\ \A b \in DOMAIN ptr : Granted(b)
                      /\ \A b, c \in DOMAIN ptr :
                            b # c => ptr[b] + Need[b] <= ptr[c] \/ ptr[c] + Need[c] <= ptr[b]
    BY DEF BuffersReady
  <2>1. next = 7 /\ \A i \in 1 .. 6 : ptr[Buffers[i]] # NULL
    BY DEF BootInv, PhaseInv
  <2>2. DOMAIN ptr = AllBuffers
    BY DEF BootInv, PtrInv
  <2>3. \A i \in 1 .. 6 : Granted(Buffers[i])
    BY <2>1 DEF BootInv, PtrInv
  <2>4. \A i, j \in 1 .. 6 : i # j => ptr[Buffers[i]] # ptr[Buffers[j]]
    BY <2>1 DEF BootInv, PtrInv
  <2>5. \A b \in AllBuffers : Granted(b)
    BY <2>3, BufferIndex
  <2>6. \A b, c \in AllBuffers : b # c => ptr[b] # ptr[c]
    BY <2>4, BufferIndex
  <2> QED
    BY <2>2, <2>5, <2>6, GrantedApart
<1> QED
  BY <1>1, InitBoot, BootStep, FirmwareBoots, PTL

(* A failing attempt frees NULL or what is granted, never a stale pointer. *)
THEOREM NoStaleFree == FirmwareSpec => []FreesOnlyGranted
<1>1. BootInv => FreesOnlyGranted
  <2> SUFFICES ASSUME BootInv PROVE FreesOnlyGranted
    OBVIOUS
  <2>1. ASSUME pc = "ethCheck", NEW b \in EthBuffers PROVE ptr[b] = NULL \/ Granted(b)
    <3>1. PICK i \in 1 .. next - 1 : b = Buffers[i]
      BY <2>1, BufferIndex DEF BootInv, PhaseInv
    <3> QED
      BY <2>1, <3>1 DEF BootInv, PtrInv
  <2>2. ASSUME pc = "lwipCheck", NEW b \in LwipBuffers PROVE ptr[b] = NULL \/ Granted(b)
    <3>1. PICK i \in 1 .. next - 1 : b = Buffers[i]
      BY <2>2, BufferIndex DEF BootInv, PhaseInv
    <3> QED
      BY <2>2, <3>1 DEF BootInv, PtrInv
  <2> QED
    BY <2>1, <2>2 DEF FreesOnlyGranted
<1> QED
  BY <1>1, InitBoot, BootStep, FirmwareBoots, PTL
-----------------------------------------------------------------------------
(* What a failed attempt leaves behind. *)

Lengths == [r \in Nat \X (Nat \ {0}) |-> r[2]]

(* The buffers that this attempt has been granted. *)
Got == {Buffers[i] : i \in {j \in 1 .. next - 1 : ptr[Buffers[j]] # NULL}}

Left == lost.phy * SumOf(Need, AllBuffers) + lost.mem * SumOf(Need, EthBuffers)

(* The pool holds what the failed attempts left, and during an attempt what it has *)
(* been granted.                                                                   *)
LeakInv ==
    /\ IsFiniteSet(pool)
    /\ lost \in [mem : Nat, phy : Nat]
    /\ SumOf(Lengths, pool) = Left + (IF pc = "delay" THEN 0 ELSE SumOf(Need, Got))

LEMMA FiniteBuffers ==
    /\ IsFiniteSet(AllBuffers) /\ EthBuffers \subseteq AllBuffers /\ LwipBuffers \subseteq AllBuffers
    /\ EthBuffers = AllBuffers \ LwipBuffers
<1>1. AllBuffers = {Buffers[i] : i \in 1 .. 6}
  BY BufferIndex
<1>2. Buffers \in Surjection(1 .. 6, AllBuffers)
  <2>1. Buffers \in [1 .. 6 -> AllBuffers]
    BY <1>1 DEF Buffers
  <2> QED BY <1>1, <2>1 DEF Surjection
<1>3. IsFiniteSet(1 .. 6)
  <2>1. 1 \in Int /\ 6 \in Int
    OBVIOUS
  <2> QED BY <2>1, FS_Interval, Zenon
<1>4. IsFiniteSet(AllBuffers)
  BY <1>2, <1>3, FS_Surjection
<1>5. \A i \in 1 .. 4, j \in 5 .. 6 : Buffers[i] # Buffers[j]
  BY BuffersDiffer
<1> QED BY <1>4, <1>5 DEF AllBuffers, EthBuffers, LwipBuffers

(* Sums of sizes are natural numbers. *)
LEMMA NeedSums ==
    ASSUME NEW G \in SUBSET AllBuffers
    PROVE  IsFiniteSet(G) /\ NatOn(Need, G) /\ SumOf(Need, G) \in Nat
<1>1. IsFiniteSet(G)
  BY FiniteBuffers, FS_Subset
<1>2. NatOn(Need, G)
  BY NeedAssumption DEF NatOn, AllBuffers
<1> QED BY <1>1, <1>2, SumNat

LEMMA LengthSums ==
    ASSUME PoolInv, IsFiniteSet(pool)
    PROVE  NatOn(Lengths, pool) /\ SumOf(Lengths, pool) \in Nat
<1>1. NatOn(Lengths, pool)
  BY DEF NatOn, PoolInv, Lengths
<1> QED BY <1>1, SumNat

(* The sum of the property is this one. *)
LEMMA PoolSum ==
    ASSUME NEW S \in SUBSET (Nat \X (Nat \ {0})), IsFiniteSet(S)
    PROVE  MapThenSumSet(LAMBDA r : r[2], S) = SumOf(Lengths, S)
<1> DEFINE Rec(g) == g = [s \in SUBSET S |-> IF s = {} THEN 0 ELSE (Pick(s))[2] + g[s \ {Pick(s)}]]
<1>1. MapThenSumSet(LAMBDA r : r[2], S) = (CHOOSE g : Rec(g))[S]
  BY Zenon DEF MapThenSumSet, MapThenFoldSet, Pick
<1>2. ASSUME NEW g PROVE Rec(g) <=> IsSum(g, Lengths, SUBSET S)
  <2>1. \A s \in SUBSET S : s # {} => Lengths[Pick(s)] = (Pick(s))[2]
    BY PickIn DEF Lengths
  <2>2. [s \in SUBSET S |-> IF s = {} THEN 0 ELSE (Pick(s))[2] + g[s \ {Pick(s)}]]
          = [s \in SUBSET S |-> IF s = {} THEN 0 ELSE Lengths[Pick(s)] + g[s \ {Pick(s)}]]
    BY <2>1, Zenon
  <2> QED BY <2>2, Zenon DEF IsSum
<1>3. PICK g : IsSum(g, Lengths, SUBSET S) /\ SumOf(Lengths, S) = g[S]
  BY SumIsSum
<1>4. Rec(CHOOSE h : Rec(h))
  <2>1. Rec(g)
    BY <1>2, <1>3
  <2> HIDE DEF Rec
  <2> QED BY <2>1
<1>5. IsSum(CHOOSE h : Rec(h), Lengths, SUBSET S)
  BY <1>2, <1>4
<1>6. PICK h : h = CHOOSE x : Rec(x)
  OBVIOUS
<1> HIDE DEF Rec
<1>7. IsSum(h, Lengths, SUBSET S)
  BY <1>5, <1>6
<1>8. S \subseteq S /\ \A x \in S : Lengths[x] = Lengths[x]
  OBVIOUS
<1>9. h[S] = g[S]
  BY <1>3, <1>7, <1>8, SumsAgree
<1> QED BY <1>1, <1>3, <1>6, <1>9

(* Releasing the pointers of an attempt takes exactly what they were granted. *)
LEMMA ReleasedSum ==
    ASSUME BootInv, IsFiniteSet(pool), NEW bufs \in SUBSET AllBuffers,
           NEW G, G = {b \in bufs : ptr[b] # NULL}, \A b \in G : Granted(b),
           \A b, c \in G : b # c => ptr[b] # ptr[c]
    PROVE  SumOf(Lengths, Released(bufs)) + SumOf(Need, G) = SumOf(Lengths, pool)
<1>1. PICK m : m = [b \in G |-> <<ptr[b], Need[b]>>]
  OBVIOUS
<1>2. PoolInv /\ NULL \notin Int
  BY NeedAssumption DEF BootInv
<1>3. \A b \in G : m[b] \in pool /\ m[b] = <<ptr[b], Need[b]>>
  BY <1>1 DEF Granted
<1>4. Embeds(m, Need, G, Lengths, pool)
  <2>1. ASSUME NEW b \in G PROVE m[b] \in pool /\ Lengths[m[b]] = Need[b]
    <3>1. m[b] \in Nat \X (Nat \ {0}) /\ m[b][2] = Need[b]
      BY <1>2, <1>3 DEF PoolInv
    <3> QED BY <1>3, <3>1 DEF Lengths
  <2>2. ASSUME NEW b \in G, NEW c \in G, b # c PROVE m[b] # m[c]
    BY <1>3, <2>2
  <2> QED BY <2>1, <2>2 DEF Embeds
<1>5. Released(bufs) = pool \ {m[b] : b \in G}
  <2>1. ASSUME NEW r \in pool, NEW b \in bufs, r[1] = ptr[b] PROVE b \in G /\ r = m[b]
    <3>1. r \in Nat \X (Nat \ {0})
      BY <1>2 DEF PoolInv
    <3>2. b \in G
      BY <1>2, <2>1, <3>1
    <3>3. m[b] \in pool /\ m[b] \in Nat \X (Nat \ {0}) /\ m[b][1] = r[1]
      BY <1>2, <1>3, <2>1, <3>2 DEF PoolInv
    <3>4. r # m[b] => Apart(r, m[b])
      BY <1>2, <3>3 DEF PoolInv
    <3>5. ~Apart(r, m[b])
      BY <3>1, <3>3 DEF Apart
    <3> QED BY <3>2, <3>4, <3>5
  <2>2. ASSUME NEW b \in G PROVE b \in bufs /\ m[b][1] = ptr[b]
    BY <1>3
  <2> QED BY <2>1, <2>2 DEF Released
<1>6. NatOn(Lengths, pool)
  BY <1>2, LengthSums
<1>7. IsFiniteSet(G)
  BY FiniteBuffers, FS_Subset
<1>8. AddsUp(Lengths, pool, Released(bufs), Need, G)
  BY <1>4, <1>5, <1>6, <1>7, SumWithout
<1> QED BY <1>8 DEF AddsUp

(* The buffers granted so far are buffers, distinct and granted. *)
LEMMA GotGranted ==
    ASSUME BootInv, pc # "delay"
    PROVE  /\ Got \subseteq AllBuffers /\ \A b \in Got : Granted(b)
           /\ \A b, c \in Got : b # c => ptr[b] # ptr[c]
<1>1. \A i \in 1 .. next - 1 : i \in 1 .. 6
  BY DEF BootInv, PhaseInv
<1>2. Got \subseteq AllBuffers
  BY <1>1, BufferIndex DEF Got
<1>3. \A b \in Got : Granted(b)
  BY DEF Got, BootInv, PtrInv
<1>4. ASSUME NEW b \in Got, NEW c \in Got, b # c PROVE ptr[b] # ptr[c]
  <2>1. PICK i \in 1 .. next - 1 : b = Buffers[i] /\ ptr[b] # NULL
    BY DEF Got
  <2>2. PICK j \in 1 .. next - 1 : c = Buffers[j]
    BY DEF Got
  <2>3. i # j
    BY <1>4, <2>1, <2>2
  <2> QED BY <2>1, <2>2, <2>3 DEF BootInv, PtrInv
<1> QED BY <1>2, <1>3, <1>4

LEMMA LeakInit == Init => LeakInv
<1> SUFFICES ASSUME Init PROVE LeakInv
  OBVIOUS
<1>1. pool = {} /\ lost = [mem |-> 0, phy |-> 0] /\ pc = "alloc" /\ next = 1
  BY DEF Init
<1>2. Got = {}
  BY <1>1 DEF Got
<1>3. SumOf(Lengths, pool) = 0 /\ SumOf(Need, Got) = 0 /\ IsFiniteSet(pool)
  BY <1>1, <1>2, SumEmpty, FS_EmptySet
<1>4. SumOf(Need, AllBuffers) \in Nat /\ SumOf(Need, EthBuffers) \in Nat
  BY FiniteBuffers, NeedSums
<1>5. Left = 0
  BY <1>1, <1>4 DEF Left
<1> QED BY <1>1, <1>3, <1>5 DEF LeakInv

LEMMA LeftNat == ASSUME LeakInv PROVE Left \in Nat
<1>1. SumOf(Need, AllBuffers) \in Nat /\ SumOf(Need, EthBuffers) \in Nat
  BY FiniteBuffers, NeedSums
<1>2. lost.phy \in Nat /\ lost.mem \in Nat
  BY DEF LeakInv
<1>3. \A a, b, c, d \in Nat : a * b + c * d \in Nat
  OBVIOUS
<1> QED BY <1>1, <1>2, <1>3 DEF Left

(* A request adds its region and its buffer, or nothing. *)
LEMMA AllocateLeak == ASSUME BootInv, LeakInv, Allocate PROVE LeakInv'
<1>1. PICK b, n : b = Buffers[next] /\ n = Need[b]
  OBVIOUS
<1>2. next \in 1 .. 6 /\ b \in AllBuffers /\ next' = next + 1 /\ pc = "alloc" /\ pc' # "delay"
  BY <1>1, BufferIndex DEF BootInv, PhaseInv, Allocate
<1>3. n \in Nat \ {0} /\ NULL \notin Int
  BY <1>1, <1>2, NeedAssumption DEF AllBuffers
<1>4. \A i \in 1 .. next - 1 : i \in 1 .. 6 /\ Buffers[i] # b
  BY <1>1, <1>2, BuffersDiffer
<1>5. b \notin Got
  BY <1>4 DEF Got
<1>6. Got \subseteq AllBuffers
  BY <1>2, GotGranted
<1>7. lost' = lost /\ Left' = Left
  BY DEF Allocate, Left
<1>8. DOMAIN ptr = AllBuffers
  BY DEF BootInv, PtrInv
<1>9. SumOf(Lengths, pool) = Left + SumOf(Need, Got)
  BY <1>2 DEF LeakInv
<1>10. CASE Room(n) = {}
  <2>1. ptr' = [ptr EXCEPT ![b] = NULL] /\ pool' = pool
    BY <1>1, <1>10 DEF Allocate
  <2>2. Got' = Got
    <3>1. \A i \in 1 .. next - 1 : ptr'[Buffers[i]] = ptr[Buffers[i]]
      BY <1>4, <2>1
    <3>2. ptr'[Buffers[next]] = NULL
      BY <1>1, <1>2, <1>8, <2>1
    <3>3. \A i \in 1 .. next' - 1 : i = next \/ i \in 1 .. next - 1
      BY <1>2
    <3>4. \A i \in 1 .. next - 1 : i \in 1 .. next' - 1
      BY <1>2
    <3> QED BY <3>1, <3>2, <3>3, <3>4 DEF Got
  <2> QED BY <1>2, <1>7, <1>9, <2>1, <2>2 DEF LeakInv
<1>11. CASE Room(n) # {}
  <2>1. PICK base : base = Max(Room(n))
    OBVIOUS
  <2>2. base \in Nat /\ Fits(base, n)
    BY <1>3, <1>11, <2>1, RoomIsFree
  <2>3. ptr' = [ptr EXCEPT ![b] = base] /\ pool' = pool \cup {<<base, n>>}
    BY <1>1, <1>11, <2>1 DEF Allocate
  <2>4. <<base, n>> \notin pool
    BY <1>3, <2>2 DEF Fits
  <2>5. Got' = Got \cup {b}
    <3>1. \A i \in 1 .. next - 1 : ptr'[Buffers[i]] = ptr[Buffers[i]]
      BY <1>4, <2>3
    <3>2. ptr'[Buffers[next]] # NULL
      BY <1>1, <1>2, <1>3, <1>8, <2>2, <2>3
    <3>3. \A i \in 1 .. next' - 1 : i = next \/ i \in 1 .. next - 1
      BY <1>2
    <3>4. (\A i \in 1 .. next - 1 : i \in 1 .. next' - 1) /\ next \in 1 .. next' - 1
      BY <1>2
    <3> QED BY <1>1, <3>1, <3>2, <3>3, <3>4 DEF Got
  <2>6. PICK P, G : P = pool \cup {<<base, n>>} /\ G = Got \cup {b}
    OBVIOUS
  <2>7. SplitsOff(Need, G, b, Got) /\ SumOf(Need, Got) \in Nat
    <3>1. G \in SUBSET AllBuffers
      BY <1>2, <1>6, <2>6
    <3> QED BY <1>5, <1>6, <2>6, <3>1, NeedSums, SumAdd
  <2>8. PoolInv /\ IsFiniteSet(pool)
    BY DEF BootInv, LeakInv
  <2>9. IsFiniteSet(P) /\ NatOn(Lengths, P) /\ Lengths[<<base, n>>] = n
    <3>1. IsFiniteSet(P)
      BY <2>6, <2>8, FS_AddElement
    <3>2. <<base, n>> \in Nat \X (Nat \ {0})
      BY <1>3, <2>2
    <3>3. Lengths[<<base, n>>] = n
      BY <3>2 DEF Lengths
    <3>4. NatOn(Lengths, P)
      BY <1>3, <2>6, <2>8, <3>3, LengthSums DEF NatOn
    <3> QED BY <3>1, <3>3, <3>4
  <2>10. PICK y : y = <<base, n>>
    OBVIOUS
  <2>11. SplitsOff(Lengths, P, y, pool)
    BY <2>4, <2>6, <2>8, <2>9, <2>10, SumAdd
  <2>12. SumOf(Lengths, P) = n + SumOf(Lengths, pool) /\ SumOf(Need, G) = n + SumOf(Need, Got)
    BY <1>1, <2>7, <2>9, <2>10, <2>11 DEF SplitsOff
  <2>13. SumOf(Lengths, P) = Left + SumOf(Need, G)
    <3>1. Left \in Nat
      BY LeftNat
    <3> QED BY <1>3, <1>9, <2>7, <2>12, <3>1
  <2>14. pool' = P /\ Got' = G
    BY <2>3, <2>5, <2>6
  <2> HIDE DEF Got, Left
  <2> QED BY <1>2, <1>7, <2>9, <2>13, <2>14 DEF LeakInv
<1> QED BY <1>10, <1>11

(* The driver's four failed: all that this attempt was granted goes back. *)
LEMMA EthMallocLeak == ASSUME BootInv, LeakInv, ETH_Mem_Malloc PROVE LeakInv'
<1>1. pc = "ethCheck" /\ next = 5 /\ next' = next /\ ptr' = ptr /\ lost' = lost
  BY DEF ETH_Mem_Malloc, BootInv, PhaseInv
<1>2. Left' = Left /\ Got' = Got
  BY <1>1 DEF Left, Got
<1>3. SumOf(Lengths, pool) = Left + SumOf(Need, Got)
  BY <1>1 DEF LeakInv
<1>4. IsFiniteSet(pool) /\ lost \in [mem : Nat, phy : Nat]
  BY DEF LeakInv
<1>5. CASE \E b \in EthBuffers : ptr[b] = NULL
  <2>1. pool' = Released(EthBuffers) /\ pc' = "delay"
    BY <1>5 DEF ETH_Mem_Malloc
  <2>2. Got = {b \in EthBuffers : ptr[b] # NULL}
    BY <1>1 DEF Got, EthBuffers
  <2>3. SumOf(Lengths, Released(EthBuffers)) + SumOf(Need, Got) = SumOf(Lengths, pool)
    BY <1>1, <1>4, <2>2, GotGranted, FiniteBuffers, ReleasedSum
  <2>4. IsFiniteSet(Released(EthBuffers)) /\ SumOf(Lengths, Released(EthBuffers)) \in Nat
    <3>1. Released(EthBuffers) \in SUBSET pool
      BY DEF Released
    <3>2. NatOn(Lengths, pool)
      BY <1>4, LengthSums DEF BootInv
    <3>3. NatOn(Lengths, Released(EthBuffers)) /\ IsFiniteSet(Released(EthBuffers))
      BY <1>4, <3>1, <3>2, FS_Subset, NatOnSubset
    <3> QED BY <3>3, SumNat
  <2>5. SumOf(Need, Got) \in Nat /\ Left \in Nat
    BY <1>1, GotGranted, NeedSums, LeftNat
  <2>6. SumOf(Lengths, Released(EthBuffers)) = Left
    BY <1>3, <2>3, <2>4, <2>5
  <2>7. SumOf(Lengths, Released(EthBuffers)) = Left + 0
    BY <2>5, <2>6
  <2> HIDE DEF Left, Got
  <2> QED BY <1>1, <1>2, <1>4, <2>1, <2>4, <2>7 DEF LeakInv
<1>6. CASE ~\E b \in EthBuffers : ptr[b] = NULL
  <2>1. pool' = pool /\ pc' # "delay"
    BY <1>6 DEF ETH_Mem_Malloc
  <2> QED BY <1>1, <1>2, <1>3, <1>4, <2>1 DEF LeakInv
<1> QED BY <1>5, <1>6

(* The stack's two failed: they go back and the driver's four stay. *)
LEMMA LwipMallocLeak == ASSUME BootInv, LeakInv, lwip_comm_mem_malloc PROVE LeakInv'
<1>1. pc = "lwipCheck" /\ next = 7 /\ next' = next /\ ptr' = ptr
  BY DEF lwip_comm_mem_malloc, BootInv, PhaseInv
<1>2. Got' = Got
  BY <1>1 DEF Got
<1>3. SumOf(Lengths, pool) = Left + SumOf(Need, Got)
  BY <1>1 DEF LeakInv
<1>4. IsFiniteSet(pool) /\ lost \in [mem : Nat, phy : Nat]
  BY DEF LeakInv
<1>5. CASE \E b \in LwipBuffers : ptr[b] = NULL
  <2>1. pool' = Released(LwipBuffers) /\ pc' = "delay" /\ lost' = [lost EXCEPT !.mem = @ + 1]
    BY <1>5 DEF lwip_comm_mem_malloc
  <2>2. PICK G : G = {b \in LwipBuffers : ptr[b] # NULL}
    OBVIOUS
  <2>3. Got = EthBuffers \cup G
    <3>1. \A b \in EthBuffers : ptr[b] # NULL
      BY <1>1, BufferIndex DEF BootInv, PhaseInv
    <3>2. ASSUME NEW b \in AllBuffers, ptr[b] # NULL PROVE b \in Got
      <4>1. PICK i \in 1 .. 6 : b = Buffers[i]
        BY BufferIndex
      <4> QED BY <1>1, <3>2, <4>1 DEF Got
    <3>3. ASSUME NEW b \in Got PROVE b \in AllBuffers /\ ptr[b] # NULL
      BY <1>1, GotGranted DEF Got
    <3> QED BY <2>2, <3>1, <3>2, <3>3 DEF AllBuffers
  <2>4. SumOf(Lengths, Released(LwipBuffers)) + SumOf(Need, G) = SumOf(Lengths, pool)
    <3>1. /\ \A b \in Got : Granted(b)
          /\ \A b, c \in Got : b # c => ptr[b] # ptr[c]
      BY <1>1, GotGranted
    <3>2. /\ \A b \in G : Granted(b)
          /\ \A b, c \in G : b # c => ptr[b] # ptr[c]
      BY <2>3, <3>1
    <3> QED BY <1>4, <2>2, <3>2, FiniteBuffers, ReleasedSum
  <2>5. SumOf(Need, EthBuffers) + SumOf(Need, G) = SumOf(Need, Got)
    <3>1. Got \in SUBSET AllBuffers
      BY <1>1, GotGranted
    <3>2. IsFiniteSet(Got) /\ NatOn(Need, Got)
      BY <3>1, NeedSums
    <3>3. G \in SUBSET Got /\ EthBuffers = Got \ G
      BY <2>2, <2>3, FiniteBuffers
    <3>4. AddsUp(Need, Got, EthBuffers, Need, G)
      BY <3>2, <3>3, SumSplit
    <3> QED BY <3>4 DEF AddsUp
  <2>6. IsFiniteSet(Released(LwipBuffers)) /\ SumOf(Lengths, Released(LwipBuffers)) \in Nat
    <3>1. Released(LwipBuffers) \in SUBSET pool
      BY DEF Released
    <3>2. NatOn(Lengths, pool)
      BY <1>4, LengthSums DEF BootInv
    <3>3. NatOn(Lengths, Released(LwipBuffers)) /\ IsFiniteSet(Released(LwipBuffers))
      BY <1>4, <3>1, <3>2, FS_Subset, NatOnSubset
    <3> QED BY <3>3, SumNat
  <2>7. SumOf(Need, G) \in Nat /\ SumOf(Need, EthBuffers) \in Nat /\ Left \in Nat
    <3>1. G \in SUBSET AllBuffers /\ EthBuffers \in SUBSET AllBuffers
      BY <2>2, FiniteBuffers
    <3> QED BY <3>1, NeedSums, LeftNat
  <2>8. SumOf(Lengths, Released(LwipBuffers)) = Left + SumOf(Need, EthBuffers)
    BY <1>3, <2>4, <2>5, <2>6, <2>7
  <2>9. lost' \in [mem : Nat, phy : Nat] /\ lost'.mem = lost.mem + 1 /\ lost'.phy = lost.phy
    BY <1>4, <2>1
  <2>10. Left' = Left + SumOf(Need, EthBuffers)
    <3>1. Left' = lost.phy * SumOf(Need, AllBuffers) + (lost.mem + 1) * SumOf(Need, EthBuffers)
      BY <2>9 DEF Left
    <3>2. SumOf(Need, AllBuffers) \in Nat /\ lost.phy \in Nat /\ lost.mem \in Nat
      BY <1>4, NeedSums
    <3>3. \A a, b, c, d \in Nat : a * b + (c + 1) * d = (a * b + c * d) + d
      BY SMT
    <3>4. lost.phy * SumOf(Need, AllBuffers) + (lost.mem + 1) * SumOf(Need, EthBuffers)
            = (lost.phy * SumOf(Need, AllBuffers) + lost.mem * SumOf(Need, EthBuffers))
                + SumOf(Need, EthBuffers)
      BY <2>7, <3>2, <3>3
    <3> QED BY <3>1, <3>4 DEF Left
  <2>11. SumOf(Lengths, Released(LwipBuffers)) = Left' + 0
    BY <2>7, <2>8, <2>10
  <2> HIDE DEF Left, Got
  <2> QED BY <2>1, <2>6, <2>9, <2>11 DEF LeakInv
<1>6. CASE ~\E b \in LwipBuffers : ptr[b] = NULL
  <2>1. pool' = pool /\ pc' # "delay" /\ lost' = lost
    BY <1>6 DEF lwip_comm_mem_malloc
  <2>2. Left' = Left
    BY <2>1 DEF Left
  <2> QED BY <1>1, <1>2, <1>3, <1>4, <2>1, <2>2 DEF LeakInv
<1> QED BY <1>5, <1>6

(* The PHY failed: all six stay. *)
LEMMA PhyLeak == ASSUME BootInv, LeakInv, mv88e6xx_init PROVE LeakInv'
<1>1. pc = "phy" /\ next = 7 /\ next' = next /\ ptr' = ptr /\ pool' = pool
  BY DEF mv88e6xx_init, BootInv, PhaseInv
<1>2. Got' = Got
  BY <1>1 DEF Got
<1>3. SumOf(Lengths, pool) = Left + SumOf(Need, Got)
  BY <1>1 DEF LeakInv
<1>4. IsFiniteSet(pool) /\ lost \in [mem : Nat, phy : Nat]
  BY DEF LeakInv
<1>5. CASE link
  <2>1. lost' = lost /\ pc' # "delay"
    BY <1>5 DEF mv88e6xx_init
  <2>2. Left' = Left
    BY <2>1 DEF Left
  <2> QED BY <1>1, <1>2, <1>3, <1>4, <2>1, <2>2 DEF LeakInv
<1>6. CASE ~link
  <2>1. lost' = [lost EXCEPT !.phy = @ + 1] /\ pc' = "delay"
    BY <1>6 DEF mv88e6xx_init
  <2>2. Got = AllBuffers
    <3>1. ASSUME NEW b \in AllBuffers PROVE b \in Got
      <4>1. PICK i \in 1 .. 6 : b = Buffers[i]
        BY BufferIndex
      <4>2. ptr[b] # NULL
        BY <1>1, <4>1 DEF BootInv, PhaseInv
      <4> QED BY <1>1, <4>1, <4>2 DEF Got
    <3> QED BY <1>1, <3>1, GotGranted
  <2>3. lost' \in [mem : Nat, phy : Nat] /\ lost'.phy = lost.phy + 1 /\ lost'.mem = lost.mem
    BY <1>4, <2>1
  <2>4. SumOf(Need, AllBuffers) \in Nat /\ SumOf(Need, EthBuffers) \in Nat /\ Left \in Nat
    BY FiniteBuffers, NeedSums, LeftNat
  <2>5. Left' = Left + SumOf(Need, AllBuffers)
    <3>1. Left' = (lost.phy + 1) * SumOf(Need, AllBuffers) + lost.mem * SumOf(Need, EthBuffers)
      BY <2>3 DEF Left
    <3>2. lost.phy \in Nat /\ lost.mem \in Nat
      BY <1>4
    <3>3. \A a, b, c, d \in Nat : (a + 1) * b + c * d = (a * b + c * d) + b
      BY SMT
    <3>4. (lost.phy + 1) * SumOf(Need, AllBuffers) + lost.mem * SumOf(Need, EthBuffers)
            = (lost.phy * SumOf(Need, AllBuffers) + lost.mem * SumOf(Need, EthBuffers))
                + SumOf(Need, AllBuffers)
      BY <2>4, <3>2, <3>3
    <3> QED BY <3>1, <3>4 DEF Left
  <2>6. SumOf(Lengths, pool) = Left' + 0
    BY <1>3, <2>2, <2>4, <2>5
  <2> HIDE DEF Left, Got
  <2> QED BY <1>1, <1>4, <2>1, <2>3, <2>6 DEF LeakInv
<1> QED BY <1>5, <1>6

LEMMA RestLeak == ASSUME BootInv, LeakInv, netif_add \/ Retry \/ Cable \/ UNCHANGED vars PROVE LeakInv'
<1>1. pool' = pool /\ lost' = lost /\ ptr' = ptr
  BY DEF netif_add, Retry, Cable, vars
<1>2. Left' = Left
  BY <1>1 DEF Left
<1>3. CASE Retry
  <2>1. pc = "delay" /\ pc' = "alloc" /\ next' = 1
    BY <1>3 DEF Retry
  <2>2. Got' = {}
    BY <2>1 DEF Got
  <2>3. SumOf(Need, Got') = 0
    BY <2>2, SumEmpty
  <2>4. SumOf(Lengths, pool) = Left + 0
    BY <2>1 DEF LeakInv
  <2> QED BY <1>1, <1>2, <2>1, <2>3, <2>4 DEF LeakInv
<1>4. CASE netif_add \/ Cable \/ UNCHANGED vars
  <2>1. (pc' = "delay") = (pc = "delay") /\ next' = next
    BY <1>4 DEF netif_add, Cable, vars
  <2>2. Got' = Got
    BY <1>1, <2>1 DEF Got
  <2>3. pc' = "delay" <=> pc = "delay"
    BY <2>1
  <2> HIDE DEF Got, Left
  <2> QED BY <1>1, <1>2, <2>2, <2>3 DEF LeakInv
<1> QED BY <1>3, <1>4

LEMMA LeakStep == BootInv /\ LeakInv /\ [Next]_vars => LeakInv'
  BY AllocateLeak, EthMallocLeak, LwipMallocLeak, PhyLeak, RestLeak DEF Next, Main

(* After any number of failed attempts the pool holds exactly what the two leaks *)
(* of lwip_comm_init explain, and nothing else.                                  *)
THEOREM LeaksExplained == FirmwareSpec => []LeakExact
<1>1. BootInv /\ LeakInv => LeakExact
  <2> SUFFICES ASSUME BootInv, LeakInv, pc = "delay"
               PROVE  MapThenSumSet(LAMBDA r : r[2], pool)
                        = lost.phy * Total(DOMAIN ptr) + lost.mem * Total(EthBuffers)
    BY DEF LeakExact
  <2>1. MapThenSumSet(LAMBDA r : r[2], pool) = SumOf(Lengths, pool)
    BY PoolSum DEF LeakInv, BootInv, PoolInv
  <2>2. Total(AllBuffers) = SumOf(Need, AllBuffers) /\ Total(EthBuffers) = SumOf(Need, EthBuffers)
    BY FoldIsSum DEF Total
  <2>3. DOMAIN ptr = AllBuffers
    BY DEF BootInv, PtrInv
  <2>4. SumOf(Lengths, pool) = Left + 0 /\ Left \in Nat
    BY LeftNat DEF LeakInv
  <2>5. SumOf(Lengths, pool) = Left
    BY <2>4
  <2> QED BY <2>1, <2>2, <2>3, <2>5 DEF Left
<1>2. Init => BootInv /\ LeakInv
  BY InitBoot, LeakInit
<1>3. BootInv /\ LeakInv /\ [Next]_vars => (BootInv /\ LeakInv)'
  BY BootStep, LeakStep
<1> QED
  BY <1>1, <1>2, <1>3, FirmwareBoots, PTL
=============================================================================

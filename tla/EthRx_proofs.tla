----------------------------- MODULE EthRx_proofs -----------------------------
(***************************************************************************)
(* The ring of receive descriptors, for any number of descriptors: its     *)
(* shape is invariant, whatever the interleaving of the DMA with the       *)
(* interrupt handler, and with it the handler never meets a NULL           *)
(* descriptor and never reads a buffer that is being written, and          *)
(* reception is a queue of frames (FrameQueue.tla).                        *)
(***************************************************************************)
EXTENDS EthRx, SequenceTheorems, TLAPS

(* The DMA only writes into a buffer whose descriptor is its own. *)
WritesOwn == writing # NoFrame => own[dmaAt] = "dma"

(* The descriptor that the last check found closed is still closed. *)
TakeClosed == pc = "take" => own[DMARxDescToGet] = "cpu"

(* CpuStretch needs to know what the DMA and the handler may take next. *)
IInv == TypeOK /\ CpuStretch /\ WritesOwn /\ TakeClosed /\ NoNullDescriptor

(* The next descriptor is a descriptor, and another one: the ring has two or    *)
(* more.                                                                        *)
LEMMA SuccDesc == \A d \in Desc : Succ(d) \in Desc /\ Succ(d) # d
BY RxAssumption, SMT DEF Desc, Succ

(* No frame is on the way when reception starts, and all is the DMA's. *)
LEMMA InitInv == Init => IInv
<1>1. SUFFICES ASSUME Init PROVE IInv
  OBVIOUS
<1>2. 0 \in Desc
  BY RxAssumption, SMT DEF Desc
<1>3. TypeOK
  BY <1>1, <1>2 DEF Init, TypeOK
<1>4. CpuStretch
  BY <1>1, <1>2 DEF Init, CpuStretch, InHand, Oldest
<1>5. WritesOwn /\ TakeClosed /\ NoNullDescriptor
  BY <1>1 DEF Init, WritesOwn, TakeClosed, NoNullDescriptor
<1> QED BY <1>3, <1>4, <1>5 DEF IInv

(* Every step leaves the variables of their types. *)
LEMMA TypeStep == IInv /\ [Next]_vars => TypeOK'
<1>1. SUFFICES ASSUME IInv, [Next]_vars PROVE TypeOK'
  OBVIOUS
<1>2. TypeOK /\ CpuStretch
  BY <1>1 DEF IInv
<1> USE <1>2 DEF TypeOK
<1>3. CASE Enter
  BY <1>3 DEF Enter, dmaVars
<1>4. CASE Check
  BY <1>4 DEF Check, dmaVars
<1>5. CASE ETH_Rx_Packet
  BY <1>5, SuccDesc DEF ETH_Rx_Packet, dmaVars
<1>6. CASE CopyFrame
  BY <1>6 DEF CopyFrame, dmaVars
<1>7. CASE GiveBack
  BY <1>7 DEF GiveBack, dmaVars
<1>8. CASE ResumeDma
  BY <1>8 DEF ResumeDma, dmaVars
<1>9. CASE Input
  BY <1>9 DEF Input, dmaVars
<1>10. CASE ClearIT
  BY <1>10 DEF ClearIT, dmaVars
<1>11. CASE Arrives
  BY <1>11 DEF Arrives, FrameArrives, isrVars
<1>12. CASE FrameDone
  BY <1>12, SuccDesc DEF FrameDone, isrVars
<1>13. CASE UNCHANGED vars
  BY <1>13 DEF vars, dmaVars, isrVars
<1> QED BY <1>1, <1>3, <1>4, <1>5, <1>6, <1>7, <1>8, <1>9, <1>10, <1>11, <1>12, <1>13 DEF Next, Handler

(* Closing the descriptor the DMA is at lengthens the stretch by one at its end. *)
LEMMA FrameDoneStretch == IInv /\ FrameDone => CpuStretch'
<1>1. SUFFICES ASSUME IInv, FrameDone PROVE CpuStretch'
  OBVIOUS
<1>2. TypeOK /\ CpuStretch /\ WritesOwn
  BY <1>1 DEF IInv
<1>3. /\ own[dmaAt] = "dma"
      /\ own' = [own EXCEPT ![dmaAt] = "cpu"]
      /\ dmaAt' = Succ(dmaAt)
      /\ UNCHANGED isrVars
  BY <1>1, <1>2 DEF FrameDone, WritesOwn
<1>4. InHand' = InHand /\ Oldest' = Oldest
  BY <1>3 DEF InHand, Oldest, isrVars
<1>5. Oldest \in Desc /\ dmaAt \in Desc /\ own \in [Desc -> {"dma", "cpu"}]
  BY <1>2 DEF TypeOK, Oldest
<1>6. InHand' => own'[cur'] = "cpu" /\ DMARxDescToGet' = Succ(cur')
  BY <1>2, <1>3, <1>4, <1>5 DEF CpuStretch, isrVars, TypeOK
<1>7. \A d \in Desc : own'[d] = "cpu" <=> own[d] = "cpu" \/ d = dmaAt
  BY <1>3, <1>5
<1>8. CASE Oldest # dmaAt
  <2>1. \A d \in Desc : own[d] = "cpu" <=> Between(d)
    BY <1>2, <1>8 DEF CpuStretch
  <2>2. ASSUME Oldest # Succ(dmaAt), NEW d \in Desc
        PROVE Between(d) \/ d = dmaAt <=> Between(d)'
    BY <1>3, <1>4, <1>5, <1>8, <2>2, RxAssumption, SMT DEF Between, Desc, Succ
  <2>3. ASSUME Oldest = Succ(dmaAt), NEW d \in Desc
        PROVE Between(d) \/ d = dmaAt
    BY <1>5, <1>8, <2>3, RxAssumption, SMT DEF Between, Desc, Succ
  <2>4. Succ(dmaAt) \in Desc
    BY <1>5, SuccDesc
  <2> QED BY <1>3, <1>4, <1>6, <1>7, <2>1, <2>2, <2>3, <2>4 DEF CpuStretch
<1>9. CASE Oldest = dmaAt
  <2>1. \A d \in Desc : own[d] = "dma"
    BY <1>2, <1>3, <1>5, <1>9 DEF CpuStretch
  <2>2. \A d \in Desc : Between(d)' <=> d = dmaAt
    BY <1>3, <1>4, <1>5, <1>9, RxAssumption, SMT DEF Between, Desc, Succ
  <2>3. Oldest' # dmaAt'
    BY <1>3, <1>4, <1>5, <1>9, SuccDesc
  <2> QED BY <1>6, <1>7, <2>1, <2>2, <2>3 DEF CpuStretch
<1> QED BY <1>8, <1>9

(* Giving back the oldest descriptor shortens the stretch by one at its start. *)
LEMMA GiveBackStretch == IInv /\ GiveBack => CpuStretch'
<1>1. SUFFICES ASSUME IInv, GiveBack PROVE CpuStretch'
  OBVIOUS
<1>2. TypeOK /\ CpuStretch
  BY <1>1 DEF IInv
<1>3. /\ InHand /\ ~InHand'
      /\ own' = [own EXCEPT ![cur] = "dma"]
      /\ UNCHANGED <<dmaAt, DMARxDescToGet, cur>>
  BY <1>1 DEF GiveBack, InHand, dmaVars
<1>4. /\ Oldest = cur /\ Oldest' = Succ(cur)
      /\ own[cur] = "cpu"
  BY <1>2, <1>3 DEF Oldest, CpuStretch
<1>5. cur \in Desc /\ dmaAt \in Desc /\ own \in [Desc -> {"dma", "cpu"}]
  BY <1>2 DEF TypeOK
<1>6. \A d \in Desc : own'[d] = "cpu" <=> own[d] = "cpu" /\ d # cur
  BY <1>3, <1>5
<1>7. CASE cur # dmaAt
  <2>1. \A d \in Desc : own[d] = "cpu" <=> Between(d)
    BY <1>2, <1>4, <1>7 DEF CpuStretch
  <2>2. ASSUME Succ(cur) # dmaAt, NEW d \in Desc
        PROVE Between(d) /\ d # cur <=> Between(d)'
    BY <1>3, <1>4, <1>5, <1>7, <2>2, RxAssumption, SMT DEF Between, Desc, Succ
  <2>3. ASSUME Succ(cur) = dmaAt, NEW d \in Desc
        PROVE Between(d) <=> d = cur
    BY <1>4, <1>5, <1>7, <2>3, RxAssumption, SMT DEF Between, Desc, Succ
  <2>4. own' \in [Desc -> {"dma", "cpu"}]
    BY <1>3, <1>5
  <2> QED BY <1>3, <1>4, <1>5, <1>6, <2>1, <2>2, <2>3, <2>4 DEF CpuStretch
<1>8. CASE cur = dmaAt
  <2>1. \A d \in Desc : own[d] = "cpu"
    BY <1>2, <1>4, <1>8 DEF CpuStretch
  <2>2. \A d \in Desc : Between(d)' <=> d # cur
    BY <1>3, <1>4, <1>5, <1>8, RxAssumption, SMT DEF Between, Desc, Succ
  <2>3. Oldest' # dmaAt'
    BY <1>3, <1>4, <1>5, <1>8, SuccDesc
  <2> QED BY <1>3, <1>6, <2>1, <2>2, <2>3 DEF CpuStretch
<1> QED BY <1>7, <1>8

(* The other steps of the handler leave the stretch where it is; taking a       *)
(* descriptor only passes the start of the stretch from the global to cur.      *)
LEMMA StretchStep == IInv /\ [Next]_vars => CpuStretch'
<1>1. SUFFICES ASSUME IInv, [Next]_vars PROVE CpuStretch'
  OBVIOUS
<1>2. TypeOK /\ CpuStretch /\ TakeClosed
  BY <1>1 DEF IInv
<1>3. ASSUME UNCHANGED <<own, dmaAt, DMARxDescToGet, cur>>, InHand' = InHand
      PROVE CpuStretch'
  BY <1>2, <1>3 DEF CpuStretch, Oldest, Between
<1>4. CASE Enter
  BY <1>3, <1>4 DEF Enter, dmaVars, InHand
<1>5. CASE Check
  BY <1>3, <1>5 DEF Check, dmaVars, InHand
<1>6. CASE ETH_Rx_Packet
  <2>1. CASE own[DMARxDescToGet] = "dma"
    BY <1>3, <1>6, <2>1 DEF ETH_Rx_Packet, dmaVars, InHand
  <2>2. CASE own[DMARxDescToGet] # "dma"
    <3>1. /\ ~InHand /\ InHand'
          /\ UNCHANGED <<own, dmaAt>>
          /\ cur' = DMARxDescToGet /\ DMARxDescToGet' = Succ(DMARxDescToGet)
          /\ own[DMARxDescToGet] = "cpu"
      BY <1>2, <1>6, <2>2 DEF ETH_Rx_Packet, InHand, dmaVars, TakeClosed
    <3>2. Oldest' = Oldest
      BY <3>1 DEF Oldest
    <3> QED BY <1>2, <3>1, <3>2 DEF CpuStretch, Between
  <2> QED BY <2>1, <2>2
<1>7. CASE CopyFrame
  BY <1>3, <1>7 DEF CopyFrame, dmaVars, InHand
<1>8. CASE GiveBack
  BY <1>1, <1>8, GiveBackStretch
<1>9. CASE ResumeDma
  BY <1>3, <1>9 DEF ResumeDma, dmaVars, InHand
<1>10. CASE Input
  BY <1>3, <1>10 DEF Input, dmaVars, InHand
<1>11. CASE ClearIT
  BY <1>3, <1>11 DEF ClearIT, dmaVars, InHand
<1>12. CASE Arrives
  BY <1>3, <1>12 DEF Arrives, FrameArrives, isrVars, InHand
<1>13. CASE FrameDone
  BY <1>1, <1>13, FrameDoneStretch
<1>14. CASE UNCHANGED vars
  BY <1>3, <1>14 DEF vars, dmaVars, isrVars, InHand
<1> QED BY <1>1, <1>4, <1>5, <1>6, <1>7, <1>8, <1>9, <1>10, <1>11, <1>12, <1>13, <1>14 DEF Next, Handler

(* The handler only gives back a descriptor of its own, and the DMA only closes  *)
(* one of its own: neither disturbs what the other has seen.                     *)
LEMMA OwnStep == IInv /\ [Next]_vars => (WritesOwn /\ TakeClosed /\ NoNullDescriptor)'
<1>1. SUFFICES ASSUME IInv, [Next]_vars PROVE (WritesOwn /\ TakeClosed /\ NoNullDescriptor)'
  OBVIOUS
<1>2. TypeOK /\ CpuStretch /\ WritesOwn /\ TakeClosed /\ NoNullDescriptor
  BY <1>1 DEF IInv
<1> USE <1>2 DEF WritesOwn, TakeClosed, NoNullDescriptor, TypeOK
<1>3. CASE Enter
  BY <1>3 DEF Enter, dmaVars
<1>4. CASE Check
  BY <1>4 DEF Check, dmaVars, PktWaiting
<1>5. CASE ETH_Rx_Packet
  BY <1>5 DEF ETH_Rx_Packet, dmaVars
<1>6. CASE CopyFrame
  BY <1>6 DEF CopyFrame, dmaVars
<1>7. CASE GiveBack
  BY <1>7 DEF GiveBack, dmaVars
<1>8. CASE ResumeDma
  BY <1>8 DEF ResumeDma, dmaVars
<1>9. CASE Input
  BY <1>9 DEF Input, dmaVars
<1>10. CASE ClearIT
  BY <1>10 DEF ClearIT, dmaVars
<1>11. CASE Arrives
  BY <1>11 DEF Arrives, FrameArrives, isrVars
<1>12. CASE FrameDone
  BY <1>12 DEF FrameDone, isrVars
<1>13. CASE UNCHANGED vars
  BY <1>13 DEF vars, dmaVars, isrVars
<1> QED BY <1>1, <1>3, <1>4, <1>5, <1>6, <1>7, <1>8, <1>9, <1>10, <1>11, <1>12, <1>13 DEF Next, Handler

(* The inductive invariant holds in every reachable state. *)
THEOREM Invariance == Spec => []IInv
<1>1. IInv /\ [Next]_vars => IInv'
  BY TypeStep, StretchStep, OwnStep DEF IInv
<1> QED BY InitInv, <1>1, PTL DEF Spec

(* Every variable of reception keeps its type. *)
THEOREM TypeCorrect == Spec => []TypeOK
<1>1. IInv => TypeOK
  BY DEF IInv
<1> QED BY Invariance, <1>1, PTL

(* The CPU's descriptors are always one stretch of the ring: EthRx!CpuStretch,  *)
(* for a ring of any size.                                                      *)
THEOREM RingKeepsShape == Spec => []CpuStretch
<1>1. IInv => CpuStretch
  BY DEF IInv
<1> QED BY Invariance, <1>1, PTL

(* low_level_input never writes through the NULL descriptor that ETH_Rx_Packet   *)
(* returns when there is no frame.                                               *)
THEOREM NeverNull == Spec => []NoNullDescriptor
<1>1. IInv => NoNullDescriptor
  BY DEF IInv
<1> QED BY Invariance, <1>1, PTL

(* The handler never copies out of a buffer that the DMA is writing. *)
THEOREM BuffersApart == Spec => []NoSharedBuffer
<1>1. IInv => NoSharedBuffer
  BY DEF IInv, CpuStretch, WritesOwn, InHand, NoSharedBuffer
<1> QED BY Invariance, <1>1, PTL
-----------------------------------------------------------------------------
(* Reception as a queue of frames.                                           *)

Contents == Frames \cup {NoFrame, Torn}

(* How far descriptor d is from g, and which one is k further than g. *)
AheadOf(g, d) == IF g <= d THEN d - g ELSE d + NDesc - g
NthOf(g, k) == IF g + k < NDesc THEN g + k ELSE g + k - NDesc

(* The number of frames in the ring, without the one in hand. *)
Count == IF \A d \in Desc : own[d] = "cpu" THEN NDesc - (IF InHand THEN 1 ELSE 0)
         ELSE AheadOf(DMARxDescToGet, dmaAt)

(* s lists the contents of the n buffers of b from descriptor g on. *)
Lists(s, n, g, b) ==
    /\ s \in Seq(Contents) /\ Len(s) = n /\ n \in 0 .. NDesc
    /\ \A k \in 1 .. n : s[k] = b[NthOf(g, k - 1)]

(* Going around the ring by a distance and measuring it are inverse. *)
LEMMA Around ==
    ASSUME NEW g \in Desc
    PROVE  /\ \A d \in Desc : AheadOf(g, d) \in 0 .. NDesc - 1 /\ NthOf(g, AheadOf(g, d)) = d
           /\ \A k \in 0 .. NDesc - 1 : NthOf(g, k) \in Desc /\ AheadOf(g, NthOf(g, k)) = k
BY RxAssumption DEF Desc, AheadOf, NthOf

(* Waiting, without a choice. *)
LEMMA WaitingLists == TypeOK => Lists(Waiting, Count, DMARxDescToGet, buf)
<1> SUFFICES ASSUME TypeOK PROVE Lists(Waiting, Count, DMARxDescToGet, buf)
  OBVIOUS
<1>. PICK g : g = DMARxDescToGet
  OBVIOUS
<1>. PICK n : n = Count
  OBVIOUS
<1>0. g \in Desc
  BY DEF TypeOK
<1>1. n \in 0 .. NDesc
  <2>1. dmaAt \in Desc /\ AheadOf(g, dmaAt) \in 0 .. NDesc - 1
    BY <1>0, Around DEF TypeOK
  <2> QED BY <2>1, RxAssumption DEF Count
<1> DEFINE at(k) == CHOOSE d \in Desc : AheadOf(g, d) = k - 1
<1>2. ASSUME NEW k \in 1 .. n PROVE at(k) = NthOf(g, k - 1) /\ NthOf(g, k - 1) \in Desc
  <2>1. k - 1 \in 0 .. NDesc - 1
    BY <1>1, RxAssumption
  <2>2. NthOf(g, k - 1) \in Desc /\ AheadOf(g, NthOf(g, k - 1)) = k - 1
    BY <1>0, <2>1, Around
  <2>3. at(k) \in Desc /\ AheadOf(g, at(k)) = k - 1
    BY <2>2
  <2>4. \A d \in Desc : NthOf(g, AheadOf(g, d)) = d
    BY <1>0, Around
  <2> QED BY <2>2, <2>3, <2>4
<1>3. Waiting = [k \in 1 .. n |-> buf[at(k)]]
  BY DEF Waiting, AheadOf, Count
<1> HIDE DEF at
<1>4. \A k \in 1 .. n : buf[at(k)] \in Contents
  BY <1>2 DEF TypeOK, Contents
<1>5. Waiting \in [1 .. n -> Contents]
  BY <1>3, <1>4
<1>6. Waiting \in Seq(Contents) /\ Len(Waiting) = n
  <2>1. n \in Nat
    BY <1>1
  <2> QED BY <1>5, <2>1
<1>7. \A k \in 1 .. n : Waiting[k] = buf[NthOf(g, k - 1)]
  BY <1>2, <1>3
<1> QED BY <1>1, <1>6, <1>7 DEF Lists

LEMMA WaitingNext ==
    ASSUME IInv, [Next]_vars
    PROVE  /\ Lists(Waiting, Count, DMARxDescToGet, buf)
           /\ Lists(Waiting', Count', DMARxDescToGet', buf')
           /\ TypeOK /\ TypeOK' /\ CpuStretch /\ CpuStretch'
<1>1. TypeOK' => Lists(Waiting, Count, DMARxDescToGet, buf)'
  BY WaitingLists, PTL
<1>2. TypeOK' /\ CpuStretch' /\ TypeOK /\ CpuStretch
  BY TypeStep, StretchStep DEF IInv
<1>3. Lists(Waiting, Count, DMARxDescToGet, buf)' => Lists(Waiting', Count', DMARxDescToGet', buf')
  BY DEF Lists, NthOf
<1> QED BY <1>1, <1>2, <1>3, WaitingLists

(* Lists of the same stretch of the ring. *)
LEMMA SameLists ==
    ASSUME NEW s, NEW t, NEW n, NEW g, NEW b, NEW c, Lists(s, n, g, b), Lists(t, n, g, c),
           \A k \in 1 .. n : c[NthOf(g, k - 1)] = b[NthOf(g, k - 1)]
    PROVE  t = s
<1>1. \A k \in 1 .. Len(s) : t[k] = s[k]
  BY DEF Lists
<1> QED BY <1>1, SeqEqual DEF Lists

(* The list of a stretch that is one longer. *)
LEMMA LongerLists ==
    ASSUME NEW s, NEW t, NEW n, NEW m, NEW g \in Desc, NEW b, NEW x, NEW c,
           Lists(s, n, g, b), Lists(t, m, g, c), m = n + 1,
           b \in [Desc -> Contents], NthOf(g, n) \in Desc, c = [b EXCEPT ![NthOf(g, n)] = x]
    PROVE  t = Append(s, x)
<1>1. /\ s \in Seq(Contents) /\ Len(s) = n /\ n \in Nat /\ n + 1 <= NDesc
      /\ t \in Seq(Contents) /\ Len(t) = n + 1
  BY RxAssumption DEF Lists
<1>2. t[n + 1] = x
  <2>1. n + 1 \in 1 .. n + 1 /\ n + 1 - 1 = n
    BY <1>1
  <2> QED BY <2>1 DEF Lists
<1>3. ASSUME NEW k \in 1 .. n PROVE t[k] = s[k]
  <2>1. k - 1 \in 0 .. NDesc - 1 /\ k \in 1 .. n + 1 /\ k - 1 # n /\ n \in 0 .. NDesc - 1
    BY <1>1, RxAssumption
  <2>2. NthOf(g, k - 1) \in Desc /\ NthOf(g, k - 1) # NthOf(g, n)
    BY <2>1, Around
  <2> QED BY <2>1, <2>2 DEF Lists
<1>4. x \in Contents
  BY <1>1, <1>2
<1> DEFINE a == Append(s, x)
<1>5. a \in Seq(Contents) /\ Len(a) = n + 1 /\ a[n + 1] = x /\ \A k \in 1 .. n : a[k] = s[k]
  BY <1>1, <1>4, AppendProperties
<1> HIDE DEF a
<1>6. \A k \in 1 .. n + 1 : t[k] = a[k]
  BY <1>1, <1>2, <1>3, <1>5
<1>7. t = a
  BY <1>1, <1>5, <1>6, SeqEqual
<1> QED BY <1>7 DEF a

(* The list of a stretch that starts one later. *)
LEMMA LaterLists ==
    ASSUME NEW s, NEW t, NEW n \in Nat, NEW g \in Desc, NEW b,
           Lists(s, n + 1, g, b), Lists(t, n, Succ(g), b)
    PROVE  s = <<b[g]>> \o t
<1>1. /\ s \in Seq(Contents) /\ Len(s) = n + 1 /\ n + 1 <= NDesc
      /\ t \in Seq(Contents) /\ Len(t) = n
  BY DEF Lists
<1>2. s[1] = b[g]
  <2>1. 1 \in 1 .. n + 1 /\ NthOf(g, 1 - 1) = g
    BY RxAssumption DEF NthOf, Desc
  <2> QED BY <2>1 DEF Lists
<1>3. ASSUME NEW k \in 1 .. n PROVE s[k + 1] = t[k]
  <2>1. NthOf(Succ(g), k - 1) = NthOf(g, k + 1 - 1) /\ k + 1 \in 1 .. n + 1
    BY <1>1, RxAssumption DEF NthOf, Succ, Desc
  <2> QED BY <2>1 DEF Lists
<1>. PICK x : x = b[g]
  OBVIOUS
<1>4. x \in Contents
  <2>1. 1 \in 1 .. Len(s)
    BY <1>1
  <2> QED BY <1>1, <1>2, <2>1
<1>. PICK u : u = <<x>>
  OBVIOUS
<1>5. u \in Seq(Contents) /\ Len(u) = 1 /\ u[1] = x
  BY <1>4
<1> DEFINE a == u \o t
<1>6. /\ a \in Seq(Contents) /\ Len(a) = 1 + n
      /\ \A i \in 1 .. 1 + n : a[i] = IF i <= 1 THEN u[i] ELSE t[i - 1]
  BY <1>1, <1>5, ConcatProperties
<1> HIDE DEF a
<1>7. ASSUME NEW i \in 1 .. n + 1 PROVE s[i] = a[i]
  <2>1. CASE i = 1
    BY <1>2, <1>5, <1>6, <2>1
  <2>2. CASE i # 1
    <3>1. i - 1 \in 1 .. n /\ i - 1 + 1 = i /\ i \in 1 .. 1 + n /\ ~(i <= 1)
      BY <2>2
    <3>2. s[i - 1 + 1] = t[i - 1]
      BY <1>3, <3>1
    <3> QED BY <1>6, <3>1, <3>2
  <2> QED BY <2>1, <2>2
<1>8. Len(a) = n + 1
  BY <1>6
<1>9. s = a
  BY <1>1, <1>6, <1>7, <1>8, SeqEqual
<1> QED BY <1>9 DEF a
(* What the DMA writes is not in the queue yet. *)
LEMMA ArrivesRing == ASSUME IInv, Arrives PROVE Waiting' = Waiting
<1>. PICK g : g = DMARxDescToGet
  OBVIOUS
<1>. PICK n : n = Count
  OBVIOUS
<1>1. /\ Lists(Waiting, n, g, buf) /\ TypeOK /\ g \in Desc
      /\ Lists(Waiting', Count', DMARxDescToGet', buf')
  BY WaitingNext DEF Next, TypeOK
<1>2. /\ UNCHANGED <<own, dmaAt, DMARxDescToGet, InHand>>
      /\ buf' = buf \/ (own[dmaAt] = "dma" /\ \A d \in Desc : d # dmaAt => buf'[d] = buf[d])
  BY <1>1 DEF Arrives, FrameArrives, isrVars, InHand, TypeOK
<1>3. Count' = n /\ DMARxDescToGet' = g
  BY <1>2 DEF Count
<1>4. ASSUME NEW k \in 1 .. n PROVE buf'[NthOf(g, k - 1)] = buf[NthOf(g, k - 1)]
  <2>1. CASE buf' = buf
    BY <2>1
  <2>2. CASE own[dmaAt] = "dma" /\ \A d \in Desc : d # dmaAt => buf'[d] = buf[d]
    <3>1. n = AheadOf(g, dmaAt) /\ dmaAt \in Desc
      BY <1>1, <2>2 DEF Count, TypeOK
    <3>2. n \in 0 .. NDesc - 1
      BY <1>1, <3>1, Around
    <3>3. k - 1 \in 0 .. NDesc - 1 /\ k - 1 # n
      BY <3>2, RxAssumption
    <3>4. AheadOf(g, NthOf(g, k - 1)) = k - 1 /\ NthOf(g, k - 1) \in Desc
      BY <1>1, <3>3, Around
    <3>5. NthOf(g, k - 1) # dmaAt
      BY <3>1, <3>3, <3>4
    <3> QED BY <2>2, <3>4, <3>5
  <2> QED BY <1>2, <2>1, <2>2
<1>5. Lists(Waiting', n, g, buf')
  BY <1>1, <1>3
<1> QED BY <1>1, <1>4, <1>5, SameLists

(* A descriptor that the DMA closes is the next one of the queue. *)
LEMMA DoneRing ==
    ASSUME IInv, FrameDone
    PROVE  Waiting' = Append(Waiting, writing) /\ Waiting \in Seq(Contents) /\ Len(Waiting) <= NDesc - 1
<1>. PICK g : g = DMARxDescToGet
  OBVIOUS
<1>. PICK n : n = Count
  OBVIOUS
<1>. PICK m : m = Count'
  OBVIOUS
<1>. PICK at : at = dmaAt
  OBVIOUS
<1>1. /\ Lists(Waiting, n, g, buf) /\ Lists(Waiting', m, DMARxDescToGet', buf')
      /\ TypeOK /\ TypeOK' /\ CpuStretch /\ CpuStretch' /\ WritesOwn /\ g \in Desc
  BY WaitingNext DEF Next, IInv, TypeOK
<1>2. /\ own[at] = "dma" /\ writing \in Frames /\ at \in Desc
      /\ own' = [own EXCEPT ![at] = "cpu"] /\ dmaAt' = Succ(at)
      /\ buf' = [buf EXCEPT ![at] = writing]
      /\ DMARxDescToGet' = g /\ UNCHANGED <<InHand, cur, pc>>
  BY <1>1 DEF FrameDone, WritesOwn, TypeOK, isrVars, InHand
<1>3. n = AheadOf(g, at)
  BY <1>2 DEF Count
<1>4. n \in 0 .. NDesc - 1 /\ NthOf(g, n) = at
  BY <1>1, <1>2, <1>3, Around
<1>. PICK o : o = Oldest
  OBVIOUS
<1>5. Oldest' = o /\ o \in Desc /\ Succ(at) \in Desc /\ Succ(at) # at
  BY <1>1, <1>2, RxAssumption DEF Oldest, InHand, TypeOK, Desc, Succ
<1>6. m = n + 1
  <2>1. InHand => cur \in Desc /\ g = Succ(cur) /\ cur # at /\ o = cur
    BY <1>1, <1>2 DEF CpuStretch, TypeOK, Oldest
  <2>2. ~InHand => o = g
    BY DEF Oldest
  <2>3. CASE \A d \in Desc : own'[d] = "cpu"
    <3>1. o = Succ(at)
      <4>1. o # Succ(at) => ~Between(Succ(at))'
        BY <1>2, <1>5 DEF Between, Desc
      <4>2. o # Succ(at) => (own'[Succ(at)] = "cpu" <=> Between(Succ(at))')
        BY <1>1, <1>2, <1>5 DEF CpuStretch
      <4> QED BY <1>5, <2>3, <4>1, <4>2
    <3>2. m = NDesc - (IF InHand THEN 1 ELSE 0)
      BY <1>2, <2>3 DEF Count
    <3>3. CASE InHand
      BY <1>1, <1>2, <1>3, <2>1, <3>1, <3>2, <3>3, RxAssumption DEF Succ, AheadOf, Desc
    <3>4. CASE ~InHand
      BY <1>1, <1>2, <1>3, <2>2, <3>1, <3>2, <3>4, RxAssumption DEF Succ, AheadOf, Desc
    <3> QED BY <3>3, <3>4
  <2>4. CASE ~\A d \in Desc : own'[d] = "cpu"
    <3>1. own'[at] = "cpu"
      BY <1>1, <1>2 DEF TypeOK
    <3>2. g # Succ(at)
      <4>1. CASE InHand
        BY <1>2, <2>1, <4>1, RxAssumption DEF Succ, Desc
      <4>2. CASE ~InHand
        <5>1. o = Succ(at) => \A d \in Desc : own'[d] = own'[Succ(at)]
          BY <1>1, <1>2, <1>5 DEF CpuStretch
        <5>2. o # Succ(at)
          BY <1>2, <2>4, <3>1, <5>1
        <5> QED BY <2>2, <4>2, <5>2
      <4> QED BY <4>1, <4>2
    <3>3. m = AheadOf(g, Succ(at))
      BY <1>2, <2>4 DEF Count
    <3> QED BY <1>1, <1>2, <1>3, <3>2, <3>3, RxAssumption DEF Succ, AheadOf, Desc
  <2> QED BY <2>3, <2>4
<1>7. Lists(Waiting', m, g, buf')
  BY <1>1, <1>2
<1>8. buf' = [buf EXCEPT ![NthOf(g, n)] = writing] /\ NthOf(g, n) \in Desc
  BY <1>2, <1>4
<1>9. Waiting' = Append(Waiting, writing)
  <2>. PICK q, r, b, c, x : q = Waiting /\ r = Waiting' /\ b = buf /\ c = buf' /\ x = writing
    OBVIOUS
  <2>1. /\ Lists(q, n, g, b) /\ Lists(r, m, g, c) /\ g \in Desc /\ m = n + 1
        /\ b \in [Desc -> Contents] /\ NthOf(g, n) \in Desc /\ c = [b EXCEPT ![NthOf(g, n)] = x]
    BY <1>1, <1>6, <1>7, <1>8 DEF TypeOK, Contents
  <2>2. r = Append(q, x)
    BY <2>1, LongerLists
  <2> QED BY <2>2
<1> QED BY <1>1, <1>4, <1>9 DEF Lists

(* The descriptor that is taken is the first of the queue. *)
LEMMA TakeRing ==
    ASSUME IInv, ETH_Rx_Packet
    PROVE  Waiting = <<buf[DMARxDescToGet]>> \o Waiting'
<1>. PICK g : g = DMARxDescToGet
  OBVIOUS
<1>. PICK n : n = Count
  OBVIOUS
<1>. PICK m : m = Count'
  OBVIOUS
<1>1. /\ Lists(Waiting, n, g, buf) /\ Lists(Waiting', m, DMARxDescToGet', buf')
      /\ TypeOK /\ CpuStretch /\ g \in Desc /\ dmaAt \in Desc
  BY WaitingNext DEF Next, Handler, TypeOK
<1>2. /\ own[g] = "cpu" /\ ~InHand /\ InHand' /\ DMARxDescToGet' = Succ(g)
      /\ UNCHANGED <<own, buf, dmaAt>>
  BY <1>1 DEF ETH_Rx_Packet, IInv, TakeClosed, InHand, dmaVars, TypeOK
<1>3. n = m + 1 /\ m \in Nat
  <2>1. CASE \A d \in Desc : own[d] = "cpu"
    BY <1>2, <2>1, RxAssumption DEF Count
  <2>2. CASE ~\A d \in Desc : own[d] = "cpu"
    <3>1. g # dmaAt
      BY <1>1, <1>2, <2>2 DEF CpuStretch, Oldest
    <3>2. n = AheadOf(g, dmaAt) /\ m = AheadOf(Succ(g), dmaAt)
      BY <1>2, <2>2 DEF Count
    <3> QED BY <1>1, <3>1, <3>2, RxAssumption DEF AheadOf, Succ, Desc
  <2> QED BY <2>1, <2>2
<1>4. Lists(Waiting, m + 1, g, buf) /\ Lists(Waiting', m, Succ(g), buf)
  BY <1>1, <1>2, <1>3
<1>5. Waiting = <<buf[g]>> \o Waiting'
  BY <1>1, <1>3, <1>4, LaterLists
<1> QED BY <1>5

(* The descriptor that is given back was no longer of the queue. *)
LEMMA GiveRing == ASSUME IInv, GiveBack PROVE Waiting' = Waiting
<1>. PICK g : g = DMARxDescToGet
  OBVIOUS
<1>. PICK n : n = Count
  OBVIOUS
<1>1. /\ Lists(Waiting, n, g, buf) /\ Lists(Waiting', Count', DMARxDescToGet', buf')
      /\ TypeOK /\ CpuStretch /\ dmaAt \in Desc
  BY WaitingNext DEF Next, Handler, TypeOK
<1>2. /\ InHand /\ ~InHand' /\ cur \in Desc /\ g = Succ(cur)
      /\ own' = [own EXCEPT ![cur] = "dma"]
      /\ UNCHANGED <<buf, dmaAt, DMARxDescToGet>>
  BY <1>1 DEF GiveBack, InHand, dmaVars, CpuStretch, TypeOK
<1>3. Count' = AheadOf(g, dmaAt)
  <2>1. own'[cur] = "dma"
    BY <1>1, <1>2 DEF TypeOK
  <2> QED BY <1>2, <2>1 DEF Count
<1>4. n = AheadOf(g, dmaAt)
  <2>1. CASE \A d \in Desc : own[d] = "cpu"
    <3>1. Oldest = cur
      BY <1>2 DEF Oldest
    <3>2. cur = dmaAt
      <4>1. cur # dmaAt => ~Between(dmaAt)
        BY <1>1, <1>2, <3>1 DEF Between, Desc
      <4> QED BY <1>1, <2>1, <3>1, <4>1 DEF CpuStretch
    <3>3. n = NDesc - 1
      BY <1>2, <2>1 DEF Count
    <3> QED BY <1>2, <3>2, <3>3, RxAssumption DEF AheadOf, Succ, Desc
  <2>2. CASE ~\A d \in Desc : own[d] = "cpu"
    BY <2>2 DEF Count
  <2> QED BY <2>1, <2>2
<1>5. Lists(Waiting', n, g, buf)
  BY <1>1, <1>2, <1>3, <1>4
<1> QED BY <1>1, <1>5, SameLists

(* Every other step leaves the ring as it is. *)
LEMMA IdleRing ==
    ASSUME IInv, UNCHANGED <<own, buf, dmaAt, DMARxDescToGet, InHand>>, [Next]_vars
    PROVE  Waiting' = Waiting
<1>. PICK g : g = DMARxDescToGet
  OBVIOUS
<1>. PICK n : n = Count
  OBVIOUS
<1>1. Lists(Waiting, n, g, buf) /\ Lists(Waiting', Count', DMARxDescToGet', buf')
  BY WaitingNext
<1>2. Count' = n /\ buf' = buf /\ DMARxDescToGet' = g
  BY DEF Count
<1>3. Lists(Waiting', n, g, buf)
  BY <1>1, <1>2
<1> QED BY <1>1, <1>3, SameLists
-----------------------------------------------------------------------------
(* The CPU's descriptors hold whole frames, and only a frame is handed over. *)
FramesInv ==
    /\ \A d \in Desc : own[d] = "cpu" => buf[d] \in Frames
    /\ p \in Frames \cup {NoFrame}
    /\ pc = "input" => p # NoFrame

(* Only FrameDone closes a descriptor, and it writes the frame first. *)
LEMMA FramesStep == IInv /\ FramesInv /\ [Next]_vars => FramesInv'
<1>1. SUFFICES ASSUME IInv, FramesInv, [Next]_vars PROVE FramesInv'
  OBVIOUS
<1>2. TypeOK /\ CpuStretch /\ WritesOwn
  BY <1>1 DEF IInv
<1> USE <1>1, <1>2 DEF FramesInv, TypeOK
<1>3. CASE Enter \/ Check \/ ETH_Rx_Packet \/ ClearIT
  BY <1>3 DEF Enter, Check, ETH_Rx_Packet, ClearIT, dmaVars
<1>4. CASE CopyFrame
  BY <1>4 DEF CopyFrame, CpuStretch, InHand, dmaVars
<1>5. CASE GiveBack
  BY <1>5 DEF GiveBack, dmaVars
<1>6. CASE ResumeDma
  BY <1>6 DEF ResumeDma, dmaVars
<1>7. CASE Input
  BY <1>7 DEF Input, dmaVars
<1>8. CASE Arrives
  BY <1>8 DEF Arrives, FrameArrives, isrVars
<1>9. CASE FrameDone
  BY <1>9 DEF FrameDone, isrVars
<1>10. CASE UNCHANGED vars
  BY <1>10 DEF vars, dmaVars, isrVars
<1> QED BY <1>3, <1>4, <1>5, <1>6, <1>7, <1>8, <1>9, <1>10 DEF Next, Handler

(* A frame appended to the second half of a queue is appended to the queue. *)
LEMMA AppendRight ==
    ASSUME NEW S, NEW a \in Seq(S), NEW b \in Seq(S), NEW x \in S
    PROVE  a \o Append(b, x) = Append(a \o b, x)
<1>1. a \o b \in Seq(S) /\ <<x>> \in Seq(S)
  BY ConcatProperties
<1>2. (a \o b) \o <<x>> = a \o (b \o <<x>>)
  BY <1>1, ConcatAssociative
<1>3. Append(b, x) = b \o <<x>> /\ Append(a \o b, x) = (a \o b) \o <<x>>
  BY <1>1, AppendIsConcat
<1> QED BY <1>2, <1>3

(* A queue of one frame and others is not empty, and the frame is its head. *)
LEMMA ConsParts ==
    ASSUME NEW S, NEW x \in S, NEW t \in Seq(S)
    PROVE  /\ <<x>> \o t \in Seq(S) /\ <<x>> \o t # <<>>
           /\ Head(<<x>> \o t) = x /\ Tail(<<x>> \o t) = t
<1>. PICK u : u = <<x>>
  OBVIOUS
<1>1. u \in Seq(S) /\ Len(u) = 1 /\ u[1] = x
  OBVIOUS
<1>. PICK a : a = u \o t
  OBVIOUS
<1>2. /\ a \in Seq(S) /\ Len(a) = 1 + Len(t) /\ Len(t) \in Nat
      /\ \A i \in 1 .. 1 + Len(t) : a[i] = IF i <= 1 THEN u[i] ELSE t[i - 1]
  BY <1>1, ConcatProperties, LenProperties
<1>3. a # <<>>
  BY <1>2
<1>4. Tail(a) \in Seq(S) /\ Len(Tail(a)) = Len(t) /\ \A i \in 1 .. Len(t) : Tail(a)[i] = a[i + 1]
  BY <1>2, <1>3, HeadTailProperties
<1>5. ASSUME NEW i \in 1 .. Len(t) PROVE Tail(a)[i] = t[i]
  <2>1. i + 1 \in 1 .. 1 + Len(t) /\ ~(i + 1 <= 1) /\ i + 1 - 1 = i
    BY <1>2
  <2> QED BY <1>2, <1>4, <2>1
<1>6. Tail(a) = t
  BY <1>4, <1>5, SeqEqual
<1>7. Head(a) = x
  BY <1>1, <1>2
<1> QED BY <1>2, <1>3, <1>6, <1>7
Queue == InHandler \o Waiting

(* No frame waits when reception starts. *)
LEMMA InitQueue == Init => FramesInv /\ RxQueue!Init
<1> SUFFICES ASSUME Init PROVE FramesInv /\ RxQueue!Init
  OBVIOUS
<1>1. TypeOK /\ 0 \in Desc
  BY InitInv, RxAssumption DEF IInv, Desc
<1>2. Count = 0
  BY <1>1, RxAssumption DEF Init, Count, AheadOf
<1>3. Waiting \in Seq(Contents) /\ Len(Waiting) = 0
  BY <1>1, <1>2, WaitingLists DEF Lists
<1>4. Waiting = <<>>
  BY <1>3, EmptySeq
<1>5. InHandler = <<>>
  BY DEF Init, InHandler
<1>6. InHandler \o Waiting = <<>>
  BY <1>3, <1>4, <1>5, ConcatEmptySeq
<1>7. FramesInv
  BY DEF Init, FramesInv
<1> QED BY <1>6, <1>7 DEF Init, RxQueue!Init

(* What the handler holds and what the ring holds are lists of frames. *)
LEMMA QueueTypes ==
    ASSUME IInv, FramesInv
    PROVE  /\ Waiting \in Seq(Contents) /\ InHandler \in Seq(Contents) /\ Len(InHandler) <= 1
           /\ Queue \in Seq(Contents)
<1>1. Waiting \in Seq(Contents)
  BY WaitingLists DEF IInv, Lists
<1>2. buf[cur] \in Contents /\ p \in Contents
  BY DEF IInv, TypeOK, Contents
<1>3. InHandler \in Seq(Contents) /\ Len(InHandler) <= 1
  BY <1>2 DEF InHandler
<1> QED BY <1>1, <1>3, ConcatProperties DEF Queue

(* The DMA that starts to write a frame and the handler that looks at the ring,  *)
(* takes, gives back or clears leave the queue as it is.                         *)
LEMMA QueueStutter ==
    ASSUME IInv, FramesInv,
           Arrives \/ Enter \/ Check \/ ETH_Rx_Packet \/ GiveBack \/ ResumeDma \/ ClearIT \/ UNCHANGED vars
    PROVE  Queue' = Queue /\ handed' = handed
<1>1. TypeOK /\ CpuStretch
  BY DEF IInv
<1>2. CASE Arrives
  <2>1. Waiting' = Waiting
    BY <1>2, ArrivesRing
  <2>2. InHand => buf'[cur] = buf[cur]
    BY <1>1, <1>2 DEF Arrives, FrameArrives, CpuStretch, TypeOK
  <2>3. InHandler' = InHandler /\ handed' = handed
    BY <1>2, <2>2 DEF Arrives, FrameArrives, InHandler, InHand, isrVars
  <2> QED BY <2>1, <2>3 DEF Queue
<1>3. CASE ETH_Rx_Packet
  <2>1. Waiting = <<buf[DMARxDescToGet]>> \o Waiting'
    BY <1>3, TakeRing
  <2>2. InHandler = <<>> /\ InHandler' = <<buf[DMARxDescToGet]>> /\ handed' = handed
    BY <1>3 DEF ETH_Rx_Packet, InHandler, IInv, TakeClosed
  <2>3. <<>> \o Waiting = Waiting
    BY QueueTypes, ConcatEmptySeq
  <2> QED BY <2>1, <2>2, <2>3 DEF Queue
<1>4. CASE GiveBack
  <2>1. Waiting' = Waiting
    BY <1>4, GiveRing
  <2>2. InHandler' = InHandler /\ handed' = handed
    BY <1>4 DEF GiveBack, InHandler
  <2> QED BY <2>1, <2>2 DEF Queue
<1>5. CASE Enter \/ Check \/ ResumeDma \/ ClearIT \/ UNCHANGED vars
  <2>1. UNCHANGED <<own, buf, dmaAt, DMARxDescToGet, InHand, handed>>
    BY <1>5 DEF Enter, Check, ResumeDma, ClearIT, InHand, dmaVars, isrVars, vars
  <2>2. Waiting' = Waiting
    BY <1>5, <2>1, IdleRing DEF Next, Handler
  <2>3. InHandler' = InHandler
    BY <1>5 DEF Enter, Check, ResumeDma, ClearIT, InHandler, dmaVars, isrVars, vars
  <2> QED BY <2>1, <2>2, <2>3 DEF Queue
<1> QED BY <1>2, <1>3, <1>4, <1>5

(* Every step of reception is a step of the frame queue, or leaves it alone. *)
LEMMA QueueStep == IInv /\ FramesInv /\ [Next]_vars => [RxQueue!Next]_(RxQueue!vars)
<1> SUFFICES ASSUME IInv, FramesInv, [Next]_vars
             PROVE  RxQueue!Next \/ (Queue' = Queue /\ handed' = handed)
  BY DEF RxQueue!vars, Queue
<1>1. TypeOK /\ CpuStretch /\ WritesOwn
  BY DEF IInv
<1>2. /\ Waiting \in Seq(Contents) /\ InHandler \in Seq(Contents) /\ Len(InHandler) <= 1
      /\ <<>> \o Waiting = Waiting
  BY QueueTypes, ConcatEmptySeq
<1>3. CASE CopyFrame
  <2>1. UNCHANGED <<own, buf, dmaAt, DMARxDescToGet, InHand, handed, cur>> /\ pc = "copy" /\ pc' = "give"
    BY <1>3 DEF CopyFrame, InHand, dmaVars
  <2>2. Waiting' = Waiting
    BY <1>3, <2>1, IdleRing DEF Next, Handler
  <2>3. InHandler = <<buf[cur]>> /\ buf[cur] \in Frames /\ buf[cur] # NoFrame /\ buf[cur] \in Contents
    BY <1>1, <2>1, RxAssumption DEF InHandler, FramesInv, CpuStretch, InHand, TypeOK, Contents
  <2>4. CASE p' = NoFrame
    <3>1. InHandler' = <<>>
      BY <2>1, <2>4 DEF InHandler
    <3>2. Queue # <<>> /\ Tail(Queue) = Waiting
      BY <1>2, <2>3, ConsParts DEF Queue
    <3>3. Queue' = Waiting
      BY <1>2, <2>2, <3>1 DEF Queue
    <3>4. RxQueue!Drop
      BY <2>1, <3>2, <3>3 DEF RxQueue!Drop, Queue
    <3> QED BY <3>4 DEF RxQueue!Next
  <2>5. CASE p' = buf[cur]
    <3>1. InHandler' = InHandler
      BY <2>1, <2>3, <2>5 DEF InHandler
    <3> QED BY <2>1, <2>2, <3>1 DEF Queue
  <2> QED BY <1>3, <2>4, <2>5 DEF CopyFrame
<1>4. CASE Input
  <2>1. /\ UNCHANGED <<own, buf, dmaAt, DMARxDescToGet, InHand>>
        /\ pc = "input" /\ pc' = "check" /\ handed' = p /\ p \in Contents /\ p # NoFrame
    BY <1>1, <1>4 DEF Input, InHand, dmaVars, TypeOK, Contents, FramesInv
  <2>2. Waiting' = Waiting
    BY <1>4, <2>1, IdleRing DEF Next, Handler
  <2>3. InHandler = <<p>> /\ InHandler' = <<>>
    BY <2>1 DEF InHandler
  <2>4. Queue # <<>> /\ Head(Queue) = p /\ Tail(Queue) = Waiting
    BY <1>2, <2>1, <2>3, ConsParts DEF Queue
  <2>5. Queue' = Waiting
    BY <1>2, <2>2, <2>3 DEF Queue
  <2>6. RxQueue!Hand
    BY <2>1, <2>4, <2>5 DEF RxQueue!Hand, Queue
  <2> QED BY <2>6 DEF RxQueue!Next
<1>5. CASE FrameDone
  <2>1. Waiting' = Append(Waiting, writing) /\ Len(Waiting) <= NDesc - 1 /\ writing \in Frames
    BY <1>1, <1>5, DoneRing DEF FrameDone, TypeOK
  <2>2. InHand => buf'[cur] = buf[cur]
    BY <1>1, <1>5 DEF FrameDone, CpuStretch, WritesOwn, TypeOK
  <2>3. InHandler' = InHandler /\ handed' = handed
    BY <1>5, <2>2 DEF FrameDone, InHandler, InHand, isrVars
  <2>4. Queue' = Append(Queue, writing)
    BY <1>2, <2>1, <2>3, AppendRight DEF Queue, Contents
  <2>5. Len(Queue) < NDesc + 1
    <3>1. Len(Queue) = Len(InHandler) + Len(Waiting)
      BY <1>2, ConcatProperties DEF Queue
    <3>2. Len(InHandler) \in Nat /\ Len(Waiting) \in Nat
      BY <1>2, LenProperties
    <3> QED BY <1>2, <2>1, <3>1, <3>2, RxAssumption
  <2>6. RxQueue!Accept(writing)
    BY <2>3, <2>4, <2>5 DEF RxQueue!Accept, Queue
  <2> QED BY <2>1, <2>6 DEF RxQueue!Next
<1>6. CASE Arrives \/ Enter \/ Check \/ ETH_Rx_Packet \/ GiveBack \/ ResumeDma \/ ClearIT \/ UNCHANGED vars
  BY <1>6, QueueStutter
<1> QED BY <1>3, <1>4, <1>5, <1>6 DEF Next, Handler

(* Reception is a frame queue, for a ring of any size: every frame that the DMA   *)
(* accepts reaches the stack whole, once and in order, or is dropped on purpose   *)
(* (EthRx!ImplementsFrameQueue).                                                  *)
THEOREM Refinement == Spec => ImplementsFrameQueue
<1>1. IInv /\ FramesInv /\ [Next]_vars => FramesInv'
  BY FramesStep
<1>2. Spec => []FramesInv
  BY Invariance, InitQueue, <1>1, PTL DEF Spec
<1> QED BY Invariance, InitQueue, QueueStep, <1>2, PTL DEF Spec, ImplementsFrameQueue, RxQueue!Spec
===============================================================================

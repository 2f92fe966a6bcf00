---------------------------- MODULE EthTx_proofs ----------------------------
(***************************************************************************)
(* The ring of transmit descriptors, for any number of descriptors, with   *)
(* the interrupt as the only sender (MainSends = 0; with the main thread's *)
(* one frame the shape is lost, which the run ethtx_preempt shows): the    *)
(* DMA's descriptors are one stretch, and a copy into a buffer that is     *)
(* still the DMA's can only hit the oldest frame of a full ring; and       *)
(* transmission is a queue of frames (FrameQueue.tla).                     *)
(***************************************************************************)
EXTENDS EthTx, SequenceTheorems, TLAPS

Full == \A d \in Desc : own[d] = "dma"

(* The descriptor that is filled next. *)
Trail == IF pc["isr"] \in {"resume", "advance"} THEN Succ(DMATxDescToSet) ELSE DMATxDescToSet

LEMMA SuccDesc == \A d \in Desc : Succ(d) \in Desc
  BY TxAssumption DEF Desc, Succ

LEMMA InitTypes == Init => TypeOK
<1> SUFFICES ASSUME Init PROVE TypeOK
  OBVIOUS
<1>1. 0 \in Desc /\ mainLeft \in 0 .. MainSends
  BY TxAssumption DEF Init, Desc
<1> QED
  BY <1>1 DEF Init, TypeOK, Contexts

LEMMA DmaTypes ==
    ASSUME TypeOK, Dma
    PROVE  TypeOK'
<1>1. CASE Fetch
  BY <1>1 DEF Fetch, TypeOK, callVars
<1>2. CASE Transmit
  BY <1>2, SuccDesc DEF Transmit, TypeOK, callVars
<1> QED
  BY <1>1, <1>2 DEF Dma

LEMMA OutputTypes ==
    ASSUME TypeOK, NEW c \in Contexts, low_level_output(c)
    PROVE  TypeOK'
<1> USE DEF TypeOK, At, dmaVars, callVars
<1>1. CASE BeginCopy(c)
  BY <1>1 DEF BeginCopy
<1>2. CASE EndCopy(c)
  <2>1. frame[c] \in Frames \cup {NoFrame} /\ buffer[c] \in Desc
    OBVIOUS
  <2> QED
    BY <1>2, <2>1 DEF EndCopy
<1>3. CASE CheckOwn(c)
  BY <1>3 DEF CheckOwn
<1>4. CASE SetSize(c)
  BY <1>4 DEF SetSize
<1>5. CASE SetOwn(c)
  BY <1>5 DEF SetOwn
<1>6. CASE Resume(c)
  BY <1>6 DEF Resume
<1>7. CASE Advance(c)
  BY <1>7, SuccDesc DEF Advance
<1> QED
  BY <1>1, <1>2, <1>3, <1>4, <1>5, <1>6, <1>7 DEF low_level_output

LEMMA CallTypes ==
    ASSUME TypeOK, NEW c \in Contexts, NEW f \in Frames, Call(c, f)
    PROVE  TypeOK'
<1>1. mainLeft' \in 0 .. MainSends
  BY TxAssumption DEF Call, TypeOK
<1> QED
  BY <1>1 DEF Call, At, TypeOK, dmaVars

LEMMA TypeStep == TypeOK /\ [Next]_vars => TypeOK'
<1> SUFFICES ASSUME TypeOK, [Next]_vars PROVE TypeOK'
  OBVIOUS
<1>1. CASE UNCHANGED vars
  BY <1>1 DEF vars, dmaVars, callVars, TypeOK
<1> QED
  BY <1>1, DmaTypes, OutputTypes, CallTypes DEF Next, Calls

(* The variables of the transmit ring keep their types, for every size of ring, with *)
(* both senders.                                                                     *)
THEOREM TypeCorrect == Spec => []TypeOK
  BY InitTypes, TypeStep, PTL DEF Spec
-----------------------------------------------------------------------------
(* The interrupt as the only sender. *)

Sole == pc["main"] = "idle" /\ mainLeft = 0

(* The shape of the ring: the DMA's descriptors run from where it is to the one that is *)
(* filled next; when that is where the DMA is, all of them are its own, or none.        *)
ShapeInv ==
    /\ ~Full => \A d \in Desc : own[d] = "dma" <=> Ahead(d) < Ahead(Trail)
    /\ Full => Trail = dmaAt
    /\ dma = "read" => own[dmaAt] = "dma"
    /\ pc["isr"] \in {"size", "own"} => own[DMATxDescToSet] = "cpu"

(* What the buffers hold: a descriptor of the DMA has its own frame, but for the oldest *)
(* of a full ring.                                                                      *)
CopyInv ==
    /\ pc["isr"] \in {"copying", "copied", "check"} => buffer["isr"] = DMATxDescToSet
    /\ pc["isr"] = "copied" => buf[DMATxDescToSet] = Torn
    /\ pc["isr"] \in {"check", "size", "own"} => buf[DMATxDescToSet] = frame["isr"]
    /\ pc["isr"] = "own" => size[DMATxDescToSet] = frame["isr"]
    /\ \A d \in Desc : own[d] = "dma" /\ buf[d] # size[d] => Full /\ d = dmaAt
    /\ dma = "read" /\ (got = Torn \/ buf[dmaAt] # got) => Full

TxInv == TypeOK /\ Sole /\ ShapeInv /\ CopyInv

(* Distances along the ring. *)
LEMMA AheadBounds ==
    ASSUME dmaAt \in Desc
    PROVE  /\ \A d \in Desc : Ahead(d) \in 0 .. NDesc - 1
           /\ \A d, e \in Desc : Ahead(d) = Ahead(e) => d = e
           /\ Ahead(dmaAt) = 0
  BY TxAssumption DEF Ahead, Desc

LEMMA AheadSucc ==
    ASSUME dmaAt \in Desc, NEW d \in Desc
    PROVE  IF Ahead(d) = NDesc - 1 THEN Succ(d) = dmaAt ELSE Ahead(Succ(d)) = Ahead(d) + 1
  BY TxAssumption DEF Ahead, Succ, Desc

LEMMA AheadMoves ==
    ASSUME dmaAt \in Desc, dmaAt' = Succ(dmaAt), NEW d \in Desc
    PROVE  Ahead(d)' = IF d = dmaAt THEN NDesc - 1 ELSE Ahead(d) - 1
  BY TxAssumption DEF Ahead, Succ, Desc

LEMMA TailDesc == TypeOK => Trail \in Desc
  BY SuccDesc DEF TypeOK, Trail

(* DmaStretch in the terms of the proof. *)
LEMMA ShapeGivesStretch == TypeOK /\ ShapeInv => DmaStretch
<1> SUFFICES ASSUME TypeOK, ShapeInv, NEW d \in Desc
             PROVE  own[d] = "dma" <=> Ahead(d) < Outstanding
  BY DEF DmaStretch
<1>1. Ahead(d) < NDesc
  BY AheadBounds, TxAssumption DEF TypeOK
<1>2. CASE Full
  BY <1>1, <1>2 DEF Full, Outstanding
<1>3. CASE ~Full
  BY <1>3 DEF ShapeInv, Full, Outstanding, Trail
<1> QED
  BY <1>2, <1>3

LEMMA InitTx == MainSends = 0 /\ Init => TxInv
<1> SUFFICES ASSUME MainSends = 0, Init PROVE TxInv
  OBVIOUS
<1>1. 0 \in Desc /\ dmaAt = 0 /\ Trail = 0
  BY TxAssumption DEF Init, Desc, Trail, Contexts
<1>2. \A d \in Desc : ~(Ahead(d) < Ahead(Trail))
  <2>1. Ahead(Trail) = 0 /\ \A d \in Desc : Ahead(d) \in 0 .. NDesc - 1
    BY <1>1, AheadBounds
  <2> QED
    BY <2>1
<1>3. own[0] = "cpu" /\ (\A d \in Desc : own[d] = "cpu") /\ dma = "run" /\ pc["isr"] = "idle"
  BY <1>1 DEF Init, Contexts
<1>5. ShapeInv
  BY <1>1, <1>2, <1>3 DEF ShapeInv, Full
<1>4. CopyInv
  BY <1>1 DEF Init, CopyInv, Contexts
<1> QED
  BY <1>5, <1>4, InitTypes DEF TxInv, Sole, Init, Contexts

LEMMA FetchKeeps ==
    ASSUME TxInv, Fetch
    PROVE  ShapeInv' /\ CopyInv'
<1>1. UNCHANGED <<own, buf, size, dmaAt, DMATxDescToSet, pc, frame, buffer>>
  BY DEF Fetch, callVars
<1>2. size[dmaAt] # Torn
  BY TxAssumption DEF TxInv, TypeOK
<1>3. dma' = "read" => own[dmaAt] = "dma" /\ (got' = Torn \/ buf[dmaAt] # got' => buf[dmaAt] # size[dmaAt])
  BY <1>2 DEF Fetch
<1>4. ShapeInv'
  BY <1>1, <1>3 DEF TxInv, ShapeInv, Full, Trail, Ahead
<1>5. dma' = "read" /\ (got' = Torn \/ buf[dmaAt] # got') => Full
  BY <1>3 DEF TxInv, TypeOK, CopyInv
<1>6. CopyInv'
  BY <1>1, <1>5 DEF TxInv, CopyInv, Full
<1> QED
  BY <1>4, <1>6

LEMMA TransmitKeeps ==
    ASSUME TxInv, Transmit
    PROVE  ShapeInv' /\ CopyInv'
<1>1. /\ own' = [own EXCEPT ![dmaAt] = "cpu"] /\ dmaAt' = Succ(dmaAt) /\ dma' = "run"
      /\ UNCHANGED <<buf, size, DMATxDescToSet, pc, frame, buffer>>
  BY DEF Transmit, callVars
<1>2. dmaAt \in Desc /\ own \in [Desc -> {"dma", "cpu"}] /\ own[dmaAt] = "dma" /\ NDesc \in Nat /\ Trail \in Desc
  BY TxAssumption, TailDesc DEF TxInv, TypeOK, ShapeInv, Transmit
<1>3. \A d \in Desc : own'[d] = "dma" <=> own[d] = "dma" /\ d # dmaAt
  BY <1>1, <1>2
<1>4. ~Full' /\ Trail' = Trail
  BY <1>1, <1>2, <1>3 DEF Full, Trail
<1>5. PICK t \in Desc : t = Trail /\ t = Trail'
  BY <1>2, <1>4
<1>6. \A d \in Desc : /\ Ahead(d) \in 0 .. NDesc - 1
                      /\ Ahead(d)' = IF d = dmaAt THEN NDesc - 1 ELSE Ahead(d) - 1
  BY <1>1, <1>2, AheadBounds, AheadMoves
<1>7. Ahead(dmaAt) = 0 /\ \A d \in Desc : Ahead(d) = 0 => d = dmaAt
  BY <1>2, AheadBounds
<1>8. ASSUME NEW d \in Desc PROVE own'[d] = "dma" <=> Ahead(d)' < Ahead(t)'
  <2>1. Ahead(d) \in 0 .. NDesc - 1 /\ Ahead(t) \in 0 .. NDesc - 1
    BY <1>6
  <2>2. CASE Full
    <3>1. t = dmaAt /\ own[d] = "dma"
      BY <1>5, <2>2 DEF TxInv, ShapeInv, Full
    <3> QED
      BY <1>2, <1>3, <1>6, <1>7, <2>1, <3>1
  <2>3. CASE ~Full
    <3>1. own[d] = "dma" <=> Ahead(d) < Ahead(t)
      BY <1>5, <2>3 DEF TxInv, ShapeInv
    <3>2. t # dmaAt
      BY <1>2, <1>5, <1>7, <2>3, <2>1, <1>6 DEF TxInv, ShapeInv
    <3> QED
      BY <1>2, <1>3, <1>6, <1>7, <2>1, <3>1, <3>2
  <2> QED
    BY <2>2, <2>3
<1>9. \A d \in Desc : own'[d] = "dma" <=> (Ahead(d) < Ahead(Trail))'
  BY <1>5, <1>8 DEF Ahead
<1>10. ShapeInv'
  BY <1>1, <1>2, <1>4, <1>9 DEF TxInv, ShapeInv, TypeOK
<1>11. CopyInv'
  BY <1>1, <1>3 DEF TxInv, CopyInv
<1> QED
  BY <1>10, <1>11

(* A copy into a buffer of the DMA is one into the oldest frame of a full ring. *)
LEMMA CopyHitsOldest ==
    ASSUME TxInv, pc["isr"] \in {"copying", "copied", "check"}, own[DMATxDescToSet] = "dma"
    PROVE  Full /\ DMATxDescToSet = dmaAt
<1>1. Trail = DMATxDescToSet
  BY DEF Trail
<1>2. Ahead(Trail) \in 0 .. NDesc - 1
  BY TailDesc, AheadBounds DEF TxInv, TypeOK
<1>3. ~(Ahead(Trail) < Ahead(Trail))
  BY <1>2
<1> QED
  BY <1>1, <1>3 DEF TxInv, TypeOK, ShapeInv

LEMMA CopyKeeps ==
    ASSUME TxInv, BeginCopy("isr") \/ EndCopy("isr")
    PROVE  ShapeInv' /\ CopyInv'
<1>1. /\ UNCHANGED <<own, size, dmaAt, dma, got, DMATxDescToSet, frame, buffer>>
      /\ buffer["isr"] = DMATxDescToSet
  BY DEF BeginCopy, EndCopy, At, dmaVars, callVars, TxInv, CopyInv
<1>2. \/ /\ pc["isr"] = "copying" /\ pc'["isr"] = "copied"
         /\ buf' = [buf EXCEPT ![DMATxDescToSet] = Torn]
      \/ /\ pc["isr"] = "copied" /\ pc'["isr"] = "check"
         /\ buf' = [buf EXCEPT ![DMATxDescToSet] = frame["isr"]]
  BY <1>1 DEF BeginCopy, EndCopy, At, TxInv, TypeOK, CopyInv, Contexts
<1>3. Full' = Full /\ Trail' = Trail
  BY <1>1, <1>2 DEF Full, Trail
<1>4. ShapeInv'
  <2>1. pc'["isr"] \notin {"size", "own"}
    BY <1>2
  <2> QED
    BY <1>1, <1>3, <2>1 DEF TxInv, ShapeInv, Ahead
<1>5. buf'[DMATxDescToSet] = Torn \/ (pc'["isr"] = "check" /\ buf'[DMATxDescToSet] = frame["isr"])
  BY <1>2 DEF TxInv, TypeOK
<1>6. \A d \in Desc : d # DMATxDescToSet => buf'[d] = buf[d]
  BY <1>2 DEF TxInv, TypeOK
<1>7. own[DMATxDescToSet] = "dma" => Full /\ DMATxDescToSet = dmaAt
  BY <1>2, CopyHitsOldest
<1>8. ASSUME NEW d \in Desc, own[d] = "dma", buf'[d] # size[d] PROVE Full /\ d = dmaAt
  BY <1>6, <1>7, <1>8 DEF TxInv, CopyInv
<1>9. ASSUME dma = "read", got = Torn \/ buf'[dmaAt] # got PROVE Full
  <2>1. own[dmaAt] = "dma" /\ dmaAt \in Desc
    BY <1>9 DEF TxInv, ShapeInv, TypeOK
  <2>2. CASE dmaAt = DMATxDescToSet
    BY <1>7, <2>1, <2>2
  <2>3. CASE dmaAt # DMATxDescToSet
    BY <1>6, <1>9, <2>1, <2>3 DEF TxInv, CopyInv
  <2> QED
    BY <2>2, <2>3
<1>10. CopyInv'
  <2>1. pc'["isr"] \in {"copied", "check"}
    BY <1>2
  <2>2. pc'["isr"] = "copied" => buf'[DMATxDescToSet] = Torn
    BY <1>2 DEF TxInv, TypeOK
  <2> QED
    BY <1>1, <1>2, <1>3, <1>5, <1>8, <1>9, <2>1, <2>2 DEF CopyInv, TxInv, TypeOK
<1> QED
  BY <1>4, <1>10

LEMMA CheckKeeps ==
    ASSUME TxInv, CheckOwn("isr")
    PROVE  ShapeInv' /\ CopyInv'
<1>1. UNCHANGED <<own, buf, size, dmaAt, dma, got, DMATxDescToSet, frame, buffer>>
  BY DEF CheckOwn, dmaVars, callVars
<1>2. pc["isr"] = "check" /\ pc'["isr"] = IF own[DMATxDescToSet] = "dma" THEN "idle" ELSE "size"
  BY DEF CheckOwn, At, TxInv, TypeOK, Contexts
<1>3. own[DMATxDescToSet] \in {"dma", "cpu"}
  BY DEF TxInv, TypeOK
<1>4. Full' = Full /\ Trail' = Trail
  BY <1>1, <1>2 DEF Full, Trail
<1>5. ShapeInv'
  BY <1>1, <1>2, <1>3, <1>4 DEF TxInv, ShapeInv, Ahead
<1>6. CopyInv'
  BY <1>1, <1>2, <1>4 DEF TxInv, CopyInv
<1> QED
  BY <1>5, <1>6

LEMMA SizeKeeps ==
    ASSUME TxInv, SetSize("isr")
    PROVE  ShapeInv' /\ CopyInv'
<1>1. UNCHANGED <<own, buf, dmaAt, dma, got, DMATxDescToSet, frame, buffer>>
  BY DEF SetSize, dmaVars, callVars
<1>2. /\ pc["isr"] = "size" /\ pc'["isr"] = "own"
      /\ size' = [size EXCEPT ![DMATxDescToSet] = frame["isr"]]
      /\ own[DMATxDescToSet] = "cpu"
  BY DEF SetSize, At, TxInv, TypeOK, Contexts, ShapeInv
<1>3. size'[DMATxDescToSet] = frame["isr"] /\ \A d \in Desc : own[d] = "dma" => size'[d] = size[d]
  BY <1>2 DEF TxInv, TypeOK
<1>4. Full' = Full /\ Trail' = Trail
  BY <1>1, <1>2 DEF Full, Trail
<1>5. ShapeInv'
  BY <1>1, <1>2, <1>4 DEF TxInv, ShapeInv, Ahead
<1>6. CopyInv'
  BY <1>1, <1>2, <1>3, <1>4 DEF TxInv, CopyInv
<1> QED
  BY <1>5, <1>6

LEMMA OwnKeeps ==
    ASSUME TxInv, SetOwn("isr")
    PROVE  ShapeInv' /\ CopyInv'
<1>1. UNCHANGED <<buf, size, dmaAt, dma, got, DMATxDescToSet, frame, buffer>>
  BY DEF SetOwn, dmaVars, callVars
<1>2. /\ pc["isr"] = "own" /\ pc'["isr"] = "resume"
      /\ own' = [own EXCEPT ![DMATxDescToSet] = "dma"]
      /\ own[DMATxDescToSet] = "cpu"
  BY DEF SetOwn, At, TxInv, TypeOK, Contexts, ShapeInv
<1>3. DMATxDescToSet \in Desc /\ dmaAt \in Desc /\ own \in [Desc -> {"dma", "cpu"}] /\ NDesc \in Nat
  BY TxAssumption DEF TxInv, TypeOK
<1>4. \A d \in Desc : own'[d] = "dma" <=> own[d] = "dma" \/ d = DMATxDescToSet
  BY <1>2, <1>3
<1>5. ~Full /\ Trail = DMATxDescToSet /\ Trail' = Succ(DMATxDescToSet)
  BY <1>1, <1>2, <1>3 DEF Full, Trail
<1>6. \A d \in Desc : /\ Ahead(d) \in 0 .. NDesc - 1
                      /\ Ahead(d) = Ahead(DMATxDescToSet) => d = DMATxDescToSet
                      /\ Ahead(d)' = Ahead(d)
  BY <1>1, <1>3, AheadBounds DEF Ahead
<1>7. \A d \in Desc : own'[d] = "dma" <=> Ahead(d) <= Ahead(DMATxDescToSet)
  <2> TAKE d \in Desc
  <2>1. own[d] = "dma" <=> Ahead(d) < Ahead(DMATxDescToSet)
    BY <1>5 DEF TxInv, ShapeInv
  <2>2. Ahead(d) \in Int /\ Ahead(DMATxDescToSet) \in Int
    BY <1>3, <1>6
  <2> QED
    BY <1>4, <1>6, <2>1, <2>2
<1>8. Full' <=> Ahead(DMATxDescToSet) = NDesc - 1
  <2>1. CASE Ahead(DMATxDescToSet) = NDesc - 1
    BY <1>3, <1>6, <1>7, <2>1 DEF Full
  <2>2. CASE Ahead(DMATxDescToSet) # NDesc - 1
    <3>1. Succ(DMATxDescToSet) \in Desc /\ Ahead(Succ(DMATxDescToSet)) = Ahead(DMATxDescToSet) + 1
      BY <1>3, <2>2, AheadSucc, SuccDesc
    <3>2. ~(Ahead(Succ(DMATxDescToSet)) <= Ahead(DMATxDescToSet))
      BY <1>3, <1>6, <3>1
    <3> QED
      BY <1>7, <2>2, <3>1, <3>2 DEF Full
  <2> QED
    BY <2>1, <2>2
<1>9. Full' => Trail' = dmaAt'
  BY <1>1, <1>3, <1>5, <1>8, AheadSucc
<1>10. ASSUME ~Full', NEW d \in Desc PROVE own'[d] = "dma" <=> Ahead(d)' < Ahead(Trail)'
  <2>1. Ahead(Trail)' = Ahead(Succ(DMATxDescToSet))
    BY <1>1, <1>5 DEF Ahead
  <2>2. Ahead(Succ(DMATxDescToSet)) = Ahead(DMATxDescToSet) + 1
    BY <1>3, <1>8, <1>10, AheadSucc
  <2>3. Ahead(d) \in Int /\ Ahead(DMATxDescToSet) \in Int
    BY <1>3, <1>6
  <2> QED
    BY <1>6, <1>7, <2>1, <2>2, <2>3
<1>11. ShapeInv'
  BY <1>1, <1>2, <1>4, <1>9, <1>10, <1>3 DEF TxInv, ShapeInv
<1>12. CopyInv'
  <2>1. buf[DMATxDescToSet] = size[DMATxDescToSet]
    BY <1>2 DEF TxInv, CopyInv
  <2>2. \A d \in Desc : own'[d] = "dma" => buf[d] = size[d]
    BY <1>4, <1>5, <2>1 DEF TxInv, CopyInv
  <2>3. ~(dma = "read" /\ (got = Torn \/ buf[dmaAt] # got))
    BY <1>5 DEF TxInv, CopyInv
  <2> QED
    BY <1>1, <1>2, <2>2, <2>3 DEF CopyInv
<1> QED
  BY <1>11, <1>12

LEMMA ResumeKeeps ==
    ASSUME TxInv, Resume("isr")
    PROVE  ShapeInv' /\ CopyInv'
<1>1. /\ UNCHANGED <<own, buf, size, dmaAt, got, DMATxDescToSet, frame, buffer>>
      /\ dma' = "read" => dma = "read"
  BY DEF Resume, callVars
<1>2. pc["isr"] = "resume" /\ pc'["isr"] = "advance"
  BY DEF Resume, At, TxInv, TypeOK, Contexts
<1>3. Full' = Full /\ Trail' = Trail
  BY <1>1, <1>2 DEF Full, Trail
<1> QED
  BY <1>1, <1>2, <1>3 DEF TxInv, ShapeInv, CopyInv, Ahead

LEMMA AdvanceKeeps ==
    ASSUME TxInv, Advance("isr")
    PROVE  ShapeInv' /\ CopyInv'
<1>1. /\ UNCHANGED <<own, buf, size, dmaAt, dma, got, frame, buffer>>
      /\ DMATxDescToSet' = Succ(DMATxDescToSet)
  BY DEF Advance, callVars, dmaVars
<1>2. pc["isr"] = "advance" /\ pc'["isr"] = "idle"
  BY DEF Advance, At, TxInv, TypeOK, Contexts
<1>3. Full' = Full /\ Trail' = Trail
  BY <1>1, <1>2 DEF Full, Trail
<1> QED
  BY <1>1, <1>2, <1>3 DEF TxInv, ShapeInv, CopyInv, Ahead

LEMMA CallKeeps ==
    ASSUME TxInv, NEW f \in Frames, Call("isr", f)
    PROVE  ShapeInv' /\ CopyInv' /\ Sole'
<1>1. /\ UNCHANGED <<own, buf, size, dmaAt, dma, got, DMATxDescToSet, mainLeft>>
      /\ buffer'["isr"] = DMATxDescToSet
  BY DEF Call, dmaVars, TxInv, TypeOK, Contexts
<1>2. pc["isr"] = "idle" /\ pc'["isr"] = "copying" /\ pc'["main"] = pc["main"]
  BY DEF Call, At, TxInv, TypeOK, Contexts
<1>3. Full' = Full /\ Trail' = Trail
  BY <1>1, <1>2 DEF Full, Trail
<1> QED
  BY <1>1, <1>2, <1>3 DEF TxInv, ShapeInv, CopyInv, Sole, Ahead

LEMMA StutterKeeps ==
    ASSUME TxInv, UNCHANGED vars
    PROVE  TxInv'
<1>1. TypeOK'
  BY TypeStep DEF TxInv
<1>2. UNCHANGED <<own, buf, size, dmaAt, dma, got, DMATxDescToSet, pc, frame, buffer, mainLeft>>
  BY DEF vars, dmaVars, callVars
<1>3. Full' = Full /\ Trail' = Trail
  BY <1>2 DEF Full, Trail
<1> QED
  BY <1>1, <1>2, <1>3 DEF TxInv, ShapeInv, CopyInv, Sole, Ahead

(* The main thread does not send. *)
LEMMA MainSilent == TxInv => ~low_level_output("main") /\ ~Calls("main")
  BY DEF TxInv, TypeOK, Sole, low_level_output, At, BeginCopy, EndCopy, CheckOwn, SetSize, SetOwn,
         Resume, Advance, Calls, Call

LEMMA StaysSole ==
    ASSUME TxInv, Dma \/ low_level_output("isr")
    PROVE  Sole'
  BY DEF TxInv, TypeOK, Sole, Contexts, low_level_output, At, BeginCopy, EndCopy, CheckOwn, SetSize, SetOwn,
         Resume, Advance, Dma, Fetch, Transmit, callVars

LEMMA TxStep == TxInv /\ [Next]_vars => TxInv'
<1> SUFFICES ASSUME TxInv, [Next]_vars PROVE TxInv'
  OBVIOUS
<1>1. TypeOK'
  BY TypeStep DEF TxInv
<1>2. CASE Dma
  BY <1>1, <1>2, FetchKeeps, TransmitKeeps, StaysSole DEF Dma, TxInv
<1>3. CASE low_level_output("isr")
  BY <1>1, <1>3, CopyKeeps, CheckKeeps, SizeKeeps, OwnKeeps, ResumeKeeps, AdvanceKeeps, StaysSole
     DEF low_level_output, TxInv
<1>4. CASE Calls("isr")
  BY <1>1, <1>4, CallKeeps DEF Calls, TxInv
<1>5. CASE UNCHANGED vars
  BY <1>5, StutterKeeps
<1> QED
  BY <1>2, <1>3, <1>4, <1>5, MainSilent DEF Next, Contexts

(* With the interrupt as the only sender the DMA's descriptors stay one stretch, for *)
(* every size of ring.                                                               *)
THEOREM RingKeepsShape ==
    ASSUME MainSends = 0
    PROVE  Spec => []DmaStretch
<1>1. Init => TxInv
  BY InitTx
<1>2. TxInv => DmaStretch
  BY ShapeGivesStretch DEF TxInv
<1> QED
  BY <1>1, <1>2, TxStep, PTL DEF Spec

(* A frame leaves damaged only from a full ring. *)
THEOREM OverrunOnlyWhenFull ==
    ASSUME MainSends = 0
    PROVE  Spec => OverrunExact
<1>1. Init => TxInv
  BY InitTx
<1>2. ASSUME TxInv, [Next]_vars, dmaAt' # dmaAt, damaged' PROVE \A d \in Desc : own[d] = "dma"
  <2>1. dmaAt' # dmaAt => Transmit
    BY <1>2 DEF Next, Dma, Fetch, low_level_output, BeginCopy, EndCopy, CheckOwn, SetSize, SetOwn,
                Resume, Advance, Calls, Call, vars, dmaVars
  <2>2. dma = "read" /\ (got = Torn \/ buf[dmaAt] # got)
    BY <1>2, <2>1 DEF Transmit
  <2> QED
    BY <1>2, <2>2 DEF TxInv, CopyInv, Full
<1>3. TxInv /\ [Next]_vars => [dmaAt' # dmaAt /\ damaged' => \A d \in Desc : own[d] = "dma"]_vars
  BY <1>2
<1> QED
  BY <1>1, <1>3, TxStep, PTL DEF Spec, OverrunExact
-----------------------------------------------------------------------------
(* Transmission as a queue of frames. *)

Contents == Frames \cup {NoFrame}

Queue == [i \in 1 .. Outstanding |-> size[CHOOSE d \in Desc : Ahead(d) = i - 1]]

(* The descriptor that is k further than g, and how far d is from g. *)
NthOf(g, k) == IF g + k < NDesc THEN g + k ELSE g + k - NDesc
AheadOf(g, d) == IF g <= d THEN d - g ELSE d + NDesc - g

(* The lengths of z in the n descriptors from g on. *)
Listed(n, g, z) == [i \in 1 .. n |-> z[NthOf(g, i - 1)]]

LEMMA Around ==
    ASSUME NEW g \in Desc
    PROVE  /\ \A d \in Desc : AheadOf(g, d) \in 0 .. NDesc - 1 /\ NthOf(g, AheadOf(g, d)) = d
           /\ \A k \in 0 .. NDesc - 1 : NthOf(g, k) \in Desc /\ AheadOf(g, NthOf(g, k)) = k
BY TxAssumption DEF Desc, AheadOf, NthOf

LEMMA ListedSeq ==
    ASSUME NEW g \in Desc, NEW n \in 0 .. NDesc, NEW z \in [Desc -> Contents]
    PROVE  Listed(n, g, z) \in Seq(Contents) /\ Len(Listed(n, g, z)) = n
<1>1. n \in Nat
  BY TxAssumption
<1>2. ASSUME NEW i \in 1 .. n PROVE z[NthOf(g, i - 1)] \in Contents
  <2>1. i - 1 \in 0 .. NDesc - 1
    BY TxAssumption
  <2> QED BY <2>1, Around
<1>3. Listed(n, g, z) \in [1 .. n -> Contents]
  BY <1>2 DEF Listed
<1> QED BY <1>1, <1>3

(* One descriptor more at the end. *)
LEMMA ListedLonger ==
    ASSUME NEW g \in Desc, NEW n \in 0 .. NDesc - 1, NEW z \in [Desc -> Contents]
    PROVE  Listed(n + 1, g, z) = Append(Listed(n, g, z), z[NthOf(g, n)])
<1>. PICK s : s = Listed(n, g, z)
  OBVIOUS
<1>. PICK t : t = Listed(n + 1, g, z)
  OBVIOUS
<1>. PICK x : x = z[NthOf(g, n)]
  OBVIOUS
<1>1. n \in Nat /\ n \in 0 .. NDesc /\ n + 1 \in 0 .. NDesc
  BY TxAssumption
<1>2. s \in Seq(Contents) /\ Len(s) = n /\ t \in Seq(Contents) /\ Len(t) = n + 1
  BY <1>1, ListedSeq
<1>3. x \in Contents
  BY Around
<1>4. t[n + 1] = x /\ \A i \in 1 .. n : t[i] = s[i]
  <2>1. n + 1 \in 1 .. n + 1 /\ n + 1 - 1 = n /\ \A i \in 1 .. n : i \in 1 .. n + 1
    BY <1>1
  <2> QED BY <2>1 DEF Listed
<1> DEFINE a == Append(s, x)
<1>5. a \in Seq(Contents) /\ Len(a) = n + 1 /\ a[n + 1] = x /\ \A i \in 1 .. n : a[i] = s[i]
  BY <1>2, <1>3, AppendProperties
<1> HIDE DEF a
<1>6. \A i \in 1 .. n + 1 : t[i] = a[i]
  BY <1>1, <1>4, <1>5
<1>7. t = a
  BY <1>2, <1>5, <1>6, SeqEqual
<1> QED BY <1>7 DEF a

(* One descriptor less at the start. *)
LEMMA ListedTail ==
    ASSUME NEW g \in Desc, NEW n \in 1 .. NDesc, NEW z \in [Desc -> Contents]
    PROVE  /\ Listed(n, g, z) # <<>> /\ Head(Listed(n, g, z)) = z[g]
           /\ Tail(Listed(n, g, z)) = Listed(n - 1, Succ(g), z)
<1>. PICK s : s = Listed(n, g, z)
  OBVIOUS
<1>. PICK t : t = Listed(n - 1, Succ(g), z)
  OBVIOUS
<1>1. n - 1 \in Nat /\ n \in 0 .. NDesc /\ n - 1 \in 0 .. NDesc /\ Succ(g) \in Desc
  BY TxAssumption, SuccDesc
<1>2. s \in Seq(Contents) /\ Len(s) = n /\ t \in Seq(Contents) /\ Len(t) = n - 1
  BY <1>1, ListedSeq
<1>3. s # <<>>
  BY <1>2
<1>4. s[1] = z[g]
  <2>1. NthOf(g, 1 - 1) = g /\ 1 \in 1 .. n
    BY TxAssumption DEF NthOf, Desc
  <2> QED BY <2>1 DEF Listed
<1>5. Tail(s) \in Seq(Contents) /\ Len(Tail(s)) = n - 1 /\ \A i \in 1 .. n - 1 : Tail(s)[i] = s[i + 1]
  BY <1>2, <1>3, HeadTailProperties
<1>6. ASSUME NEW i \in 1 .. n - 1 PROVE Tail(s)[i] = t[i]
  <2>1. i + 1 \in 1 .. n /\ NthOf(Succ(g), i - 1) = NthOf(g, i + 1 - 1)
    BY TxAssumption DEF NthOf, Succ, Desc
  <2> QED BY <1>5, <2>1 DEF Listed
<1>7. Tail(s) = t
  BY <1>2, <1>5, <1>6, SeqEqual
<1>8. Head(s) = z[g]
  BY <1>2, <1>4
<1> QED BY <1>3, <1>7, <1>8

(* The queue, without a choice. *)
LEMMA QueueListed == TypeOK => Outstanding \in 0 .. NDesc /\ Queue = Listed(Outstanding, dmaAt, size)
<1> SUFFICES ASSUME TypeOK
             PROVE  Outstanding \in 0 .. NDesc /\ Queue = Listed(Outstanding, dmaAt, size)
  OBVIOUS
<1>. PICK g : g = dmaAt
  OBVIOUS
<1>. PICK n : n = Outstanding
  OBVIOUS
<1>1. g \in Desc /\ Trail \in Desc /\ \A d : Ahead(d) = AheadOf(g, d)
  BY TailDesc DEF TypeOK, Ahead, AheadOf
<1>2. n \in 0 .. NDesc
  <2>1. AheadOf(g, Trail) \in 0 .. NDesc - 1
    BY <1>1, Around
  <2>2. n = NDesc \/ n = AheadOf(g, Trail)
    BY <1>1 DEF Outstanding, Trail
  <2> QED BY <2>1, <2>2, TxAssumption
<1> DEFINE at(i) == CHOOSE d \in Desc : Ahead(d) = i - 1
<1>3. ASSUME NEW i \in 1 .. n PROVE at(i) = NthOf(g, i - 1)
  <2>1. i - 1 \in 0 .. NDesc - 1
    BY <1>2, TxAssumption
  <2>2. NthOf(g, i - 1) \in Desc /\ AheadOf(g, NthOf(g, i - 1)) = i - 1
    BY <1>1, <2>1, Around
  <2>3. at(i) \in Desc /\ AheadOf(g, at(i)) = i - 1
    BY <1>1, <2>2
  <2>4. \A d \in Desc : NthOf(g, AheadOf(g, d)) = d
    BY <1>1, Around
  <2> HIDE DEF at
  <2> QED BY <2>3, <2>4
<1>4. Queue = [i \in 1 .. n |-> size[at(i)]]
  BY DEF Queue
<1> HIDE DEF at
<1>5. Queue = Listed(n, g, size)
  BY <1>3, <1>4 DEF Listed
<1> QED BY <1>2, <1>5

(* A frame is being sent while low_level_output runs, and the DMA transmits what it has *)
(* read.                                                                                *)
FramesInv ==
    /\ pc["isr"] # "idle" => frame["isr"] \in Frames
    /\ dma = "read" /\ got # Torn => got = size[dmaAt]

LEMMA FramesStep == TxInv /\ FramesInv /\ [Next]_vars => FramesInv'
<1> SUFFICES ASSUME TxInv, FramesInv, [Next]_vars PROVE FramesInv'
  OBVIOUS
<1>1. TypeOK /\ ShapeInv
  BY DEF TxInv
<1>2. CASE Dma
  BY <1>1, <1>2 DEF Dma, Fetch, Transmit, FramesInv, TypeOK, callVars
<1>3. CASE SetSize("isr")
  <2>1. /\ pc["isr"] = "size" /\ UNCHANGED <<frame, dma, got, dmaAt>>
        /\ size' = [size EXCEPT ![DMATxDescToSet] = frame["isr"]]
    BY <1>3 DEF SetSize, At, dmaVars, callVars
  <2>2. dma = "read" => size'[dmaAt] = size[dmaAt]
    BY <1>1, <2>1 DEF ShapeInv, TypeOK
  <2> QED BY <2>1, <2>2 DEF FramesInv
<1>4. CASE low_level_output("isr") /\ ~SetSize("isr")
  BY <1>1, <1>4 DEF low_level_output, At, BeginCopy, EndCopy, CheckOwn, SetOwn, Resume, Advance,
                    FramesInv, TypeOK, dmaVars, callVars, Contexts
<1>5. CASE Calls("isr")
  BY <1>1, <1>5 DEF Calls, Call, At, FramesInv, TypeOK, dmaVars, Contexts
<1>6. CASE UNCHANGED vars
  BY <1>6 DEF vars, dmaVars, callVars, FramesInv
<1> QED BY <1>2, <1>3, <1>4, <1>5, <1>6, MainSilent DEF Next, Contexts

(* The queue before and after a step. *)
LEMMA QueueNext ==
    ASSUME TxInv, [Next]_vars
    PROVE  /\ Outstanding \in 0 .. NDesc /\ Queue = Listed(Outstanding, dmaAt, size)
           /\ Outstanding' \in 0 .. NDesc /\ Queue' = Listed(Outstanding', dmaAt', size')
           /\ size \in [Desc -> Contents] /\ size' \in [Desc -> Contents]
           /\ dmaAt \in Desc /\ TypeOK /\ TypeOK'
<1>1. TypeOK /\ TypeOK'
  BY TxStep DEF TxInv
<1>2. TypeOK' => (Outstanding \in 0 .. NDesc /\ Queue = Listed(Outstanding, dmaAt, size))'
  BY QueueListed, PTL
<1>3. Listed(Outstanding, dmaAt, size)' = Listed(Outstanding', dmaAt', size')
  BY DEF Listed, NthOf
<1> QED BY <1>1, <1>2, <1>3, QueueListed DEF TypeOK, Contents

(* Only SetOwn and Transmit change the number of queued frames. *)
LEMMA QueueStutter ==
    ASSUME TxInv, [Next]_vars, UNCHANGED <<own, dmaAt, Trail>>,
           \A d \in Desc : own[d] = "dma" => size'[d] = size[d]
    PROVE  Queue' = Queue
<1>. PICK g : g = dmaAt
  OBVIOUS
<1>. PICK n : n = Outstanding
  OBVIOUS
<1>1. /\ n \in 0 .. NDesc /\ Queue = Listed(n, g, size) /\ g \in Desc
      /\ Queue' = Listed(Outstanding', g, size') /\ TypeOK /\ ShapeInv
  BY QueueNext DEF TxInv
<1>2. Outstanding' = n
  BY DEF Outstanding, Trail, Ahead
<1>3. DmaStretch /\ \A d : Ahead(d) = AheadOf(g, d)
  BY <1>1, ShapeGivesStretch DEF Ahead, AheadOf
<1>4. ASSUME NEW i \in 1 .. n PROVE size'[NthOf(g, i - 1)] = size[NthOf(g, i - 1)]
  <2>1. i - 1 \in 0 .. NDesc - 1 /\ i - 1 < n
    BY <1>1, TxAssumption
  <2>2. NthOf(g, i - 1) \in Desc /\ AheadOf(g, NthOf(g, i - 1)) = i - 1
    BY <1>1, <2>1, Around
  <2>3. own[NthOf(g, i - 1)] = "dma"
    BY <1>3, <2>1, <2>2 DEF DmaStretch
  <2> QED BY <2>2, <2>3
<1> QED BY <1>1, <1>2, <1>4 DEF Listed

(* SetOwn queues the frame behind all the others, in a ring that is not full. *)
LEMMA QueueAccept ==
    ASSUME TxInv, FramesInv, SetOwn("isr")
    PROVE  TxQueue!Accept(frame["isr"]) /\ frame["isr"] \in Frames
<1>. PICK g : g = dmaAt
  OBVIOUS
<1>. PICK n : n = Outstanding
  OBVIOUS
<1>. PICK m : m = Outstanding'
  OBVIOUS
<1>. PICK t : t = DMATxDescToSet
  OBVIOUS
<1>. PICK f : f = frame["isr"]
  OBVIOUS
<1>1. /\ n \in 0 .. NDesc /\ Queue = Listed(n, g, size) /\ g \in Desc /\ t \in Desc
      /\ Queue' = Listed(m, dmaAt', size') /\ TypeOK /\ ShapeInv /\ size \in [Desc -> Contents]
  BY QueueNext DEF Next, low_level_output, Contexts, TxInv, TypeOK
<1>2. /\ pc["isr"] = "own" /\ pc'["isr"] = "resume" /\ own[t] = "cpu" /\ size[t] = f /\ f \in Frames
      /\ own' = [own EXCEPT ![t] = "dma"] /\ UNCHANGED <<size, dmaAt, DMATxDescToSet, sent>>
  BY <1>1 DEF SetOwn, At, TypeOK, Contexts, ShapeInv, TxInv, CopyInv, FramesInv, dmaVars
<1>3. Ahead(t) = AheadOf(g, t) /\ Ahead(Succ(t)) = AheadOf(g, Succ(t))
  BY DEF Ahead, AheadOf
<1>4. n = AheadOf(g, t) /\ n \in 0 .. NDesc - 1 /\ NthOf(g, n) = t
  <2>1. n = AheadOf(g, t)
    BY <1>1, <1>2, <1>3 DEF Outstanding
  <2> QED BY <1>1, <2>1, Around
<1>5. \A d \in Desc : own'[d] = "dma" <=> AheadOf(g, d) < n \/ d = t
  <2>1. DmaStretch /\ \A d : Ahead(d) = AheadOf(g, d)
    BY <1>1, ShapeGivesStretch DEF Ahead, AheadOf
  <2> QED BY <1>1, <1>2, <2>1 DEF DmaStretch, TypeOK
<1>6. m = n + 1
  <2>1. CASE n = NDesc - 1
    <3>1. ASSUME NEW d \in Desc PROVE own'[d] = "dma"
      <4>1. AheadOf(g, d) \in 0 .. NDesc - 1 /\ NthOf(g, AheadOf(g, d)) = d
        BY <1>1, Around
      <4>2. AheadOf(g, d) = n => d = t
        BY <1>4, <4>1
      <4> QED BY <1>5, <2>1, <4>1, <4>2, TxAssumption
    <3> QED BY <2>1, <3>1, TxAssumption DEF Outstanding
  <2>2. CASE n # NDesc - 1
    <3>1. AheadOf(g, Succ(t)) = n + 1 /\ Succ(t) \in Desc /\ Succ(t) # t
      <4>1. AheadOf(g, Succ(t)) = n + 1
        BY <1>1, <1>4, <2>2, TxAssumption DEF AheadOf, Succ, Desc
      <4>2. n # n + 1
        BY <1>4
      <4> QED BY <1>1, <1>4, <4>1, <4>2, SuccDesc
    <3>2. own'[Succ(t)] # "dma"
      BY <1>4, <1>5, <3>1
    <3>3. m = AheadOf(g, Succ(t))
      BY <1>2, <3>1, <3>2 DEF Outstanding, Ahead, AheadOf
    <3> QED BY <3>1, <3>3
  <2> QED BY <2>1, <2>2
<1>7. Queue' = Append(Queue, f)
  BY <1>1, <1>2, <1>4, <1>6, ListedLonger
<1>8. Len(Queue) < NDesc
  BY <1>1, <1>4, ListedSeq, TxAssumption
<1> QED BY <1>2, <1>7, <1>8 DEF TxQueue!Accept, Queue

(* The DMA takes the oldest frame, transmits it or damages it. *)
LEMMA QueueLeave ==
    ASSUME TxInv, FramesInv, Transmit
    PROVE  TxQueue!Hand \/ TxQueue!Drop
<1>. PICK g : g = dmaAt
  OBVIOUS
<1>. PICK n : n = Outstanding
  OBVIOUS
<1>. PICK m : m = Outstanding'
  OBVIOUS
<1>. PICK t : t = Trail
  OBVIOUS
<1>1. /\ n \in 0 .. NDesc /\ Queue = Listed(n, g, size) /\ g \in Desc /\ t \in Desc
      /\ Queue' = Listed(m, dmaAt', size') /\ TypeOK /\ ShapeInv /\ size \in [Desc -> Contents]
  BY QueueNext, TailDesc DEF Next, Dma, TxInv
<1>2. /\ dma = "read" /\ own[g] = "dma" /\ dmaAt' = Succ(g) /\ own' = [own EXCEPT ![g] = "cpu"]
      /\ UNCHANGED <<size, DMATxDescToSet, pc>>
  BY <1>1 DEF Transmit, ShapeInv, callVars
<1>3. \A d : Ahead(d) = AheadOf(g, d)
  BY DEF Ahead, AheadOf
<1>4. m = AheadOf(Succ(g), t)
  <2>1. own'[g] # "dma"
    BY <1>1, <1>2 DEF TypeOK
  <2> QED BY <1>1, <1>2, <2>1 DEF Outstanding, Trail, Ahead, AheadOf
<1>5. n \in 1 .. NDesc /\ m = n - 1
  <2>1. CASE Full
    <3>1. n = NDesc /\ t = g
      BY <1>1, <2>1 DEF Full, Outstanding, ShapeInv
    <3> QED BY <1>1, <1>4, <3>1, TxAssumption DEF AheadOf, Succ, Desc
  <2>2. CASE ~Full
    <3>1. n = AheadOf(g, t)
      BY <1>3, <2>2 DEF Full, Outstanding, Trail
    <3>2. AheadOf(g, g) < n /\ AheadOf(g, g) = 0
      BY <1>1, <1>2, <1>3, <2>2, <3>1, TxAssumption DEF ShapeInv, AheadOf, Desc
    <3>3. t # g
      BY <3>1, <3>2
    <3> QED BY <1>1, <1>4, <3>1, <3>3, TxAssumption DEF AheadOf, Succ, Desc
  <2> QED BY <2>1, <2>2
<1>6. Queue # <<>> /\ Head(Queue) = size[g] /\ Queue' = Tail(Queue)
  BY <1>1, <1>2, <1>5, ListedTail
<1>7. sent' = size[g] \/ sent' = sent
  BY <1>2 DEF Transmit, FramesInv
<1> QED BY <1>6, <1>7 DEF TxQueue!Hand, TxQueue!Drop, Queue

(* Every other step of the sender and of the DMA leaves the queue alone. *)
LEMMA QueueKeeps ==
    ASSUME TxInv, Fetch \/ (low_level_output("isr") /\ ~SetOwn("isr")) \/ Calls("isr") \/ UNCHANGED vars
    PROVE  Queue' = Queue /\ sent' = sent
<1>1. TypeOK /\ ShapeInv
  BY DEF TxInv
<1>2. UNCHANGED <<own, dmaAt, Trail, sent>>
  BY <1>1 DEF Fetch, low_level_output, At, BeginCopy, EndCopy, CheckOwn, SetSize, Resume, Advance,
              Calls, Call, vars, dmaVars, callVars, Trail, TypeOK, Contexts
<1>3. ASSUME NEW d \in Desc, own[d] = "dma" PROVE size'[d] = size[d]
  <2>1. CASE SetSize("isr")
    BY <1>1, <1>3, <2>1 DEF SetSize, At, ShapeInv, TypeOK
  <2>2. CASE ~SetSize("isr")
    BY <2>2 DEF Fetch, low_level_output, BeginCopy, EndCopy, CheckOwn, Resume, Advance, Calls, Call,
                vars
  <2> QED BY <2>1, <2>2
<1>4. [Next]_vars
  BY DEF Next, Dma, Contexts
<1> QED BY <1>2, <1>3, <1>4, QueueStutter

LEMMA QueueStep == TxInv /\ FramesInv /\ [Next]_vars => [TxQueue!Next]_(TxQueue!vars)
<1> SUFFICES ASSUME TxInv, FramesInv, [Next]_vars
             PROVE  TxQueue!Next \/ (Queue' = Queue /\ sent' = sent)
  BY DEF TxQueue!vars, Queue
<1>1. CASE SetOwn("isr")
  BY <1>1, QueueAccept DEF TxQueue!Next
<1>2. CASE Transmit
  BY <1>2, QueueLeave DEF TxQueue!Next
<1>3. CASE Fetch \/ (low_level_output("isr") /\ ~SetOwn("isr")) \/ Calls("isr") \/ UNCHANGED vars
  BY <1>3, QueueKeeps
<1> QED BY <1>1, <1>2, <1>3, MainSilent DEF Next, Dma, Contexts

(* With the interrupt as the only sender transmission is a frame queue, for every size of *)
(* ring: frames leave in the order in which low_level_output queued them, once each; one  *)
(* that was damaged counts as dropped (EthTx!ImplementsFrameQueue).                       *)
THEOREM Refinement ==
    ASSUME MainSends = 0
    PROVE  Spec => ImplementsFrameQueue
<1>1. Init => TxInv /\ FramesInv
  BY InitTx DEF Init, FramesInv, Contexts
<1>2. Init => TxQueue!Init
  <2> SUFFICES ASSUME Init PROVE TxQueue!Init
    OBVIOUS
  <2>1. TypeOK /\ 0 \in Desc
    BY InitTypes, TxAssumption DEF Desc
  <2>2. Outstanding = 0
    BY <2>1, TxAssumption DEF Init, Outstanding, Ahead, Contexts
  <2>3. Queue \in Seq(Contents) /\ Len(Queue) = 0
    <3>1. dmaAt \in Desc /\ size \in [Desc -> Contents] /\ 0 \in 0 .. NDesc
      BY <2>1, TxAssumption DEF TypeOK, Contents
    <3> QED BY <2>1, <2>2, <3>1, QueueListed, ListedSeq
  <2>4. Queue = <<>>
    BY <2>3, EmptySeq
  <2> QED BY <2>4 DEF Init, TxQueue!Init, Queue
<1>3. Spec => [](TxInv /\ FramesInv)
  BY <1>1, TxStep, FramesStep, PTL DEF Spec
<1> QED BY <1>2, <1>3, QueueStep, PTL DEF Spec, ImplementsFrameQueue, TxQueue!Spec
=============================================================================

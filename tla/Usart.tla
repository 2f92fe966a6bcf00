-------------------------------- MODULE Usart --------------------------------
(***************************************************************************)
(* The serial line: USART3_IRQHandler collects the bytes of one line that  *)
(* ends in CR LF.  USART_RX_STA is one 16-bit word: bit 15 says that the   *)
(* line is complete, bit 14 that a CR was received, bits 13 to 0 count the *)
(* bytes.  The handler is the only writer, and nothing in the program      *)
(* takes a complete line, so the first one stays.                          *)
(***************************************************************************)
EXTENDS Integers, Sequences

CONSTANTS USART_REC_LEN,   \* size of USART_RX_BUF
          Bytes, CR, LF,   \* 0x0d and 0x0a among the bytes
          NoByte           \* a place of the buffer not written yet

Bit15 == 32768
Bit14 == 16384
Word == 65536

ASSUME UsartAssumption ==
    /\ USART_REC_LEN \in Nat \ {0} /\ USART_REC_LEN <= Bit14
    /\ CR \in Bytes /\ LF \in Bytes /\ CR # LF

VARIABLES USART_RX_STA, USART_RX_BUF,
          recent   \* history: what was received until the line was complete,
                   \* the last USART_REC_LEN + 2 bytes of it

usartvars == <<USART_RX_STA, USART_RX_BUF, recent>>

GotLine(sta)  == sta >= Bit15
GotCR(sta)    == sta % Bit15 >= Bit14
Count(sta)    == sta % Bit14

UsartInit ==
    /\ USART_RX_STA = 0
    /\ USART_RX_BUF = [i \in 0 .. USART_REC_LEN - 1 |-> NoByte]
    /\ recent = <<>>

Remember(b) ==
    LET r == Append(recent, b)
    IN  recent' = IF Len(r) > USART_REC_LEN + 2 THEN Tail(r) ELSE r

\* Mutation: a byte other than LF after CR only clears bit 14.
AfterCRKeepsCount(b) ==
    /\ GotCR(USART_RX_STA)
    /\ USART_RX_STA' = IF b = LF THEN USART_RX_STA + Bit15 ELSE USART_RX_STA - Bit14
    /\ UNCHANGED USART_RX_BUF

(* Bit 14 is set: LF completes the line, any other byte starts over. *)
AfterCR(b) ==
    /\ GotCR(USART_RX_STA)
    /\ USART_RX_STA' = IF b = LF THEN USART_RX_STA + Bit15 ELSE 0
    /\ UNCHANGED USART_RX_BUF

CarriageReturn(b) ==
    /\ ~GotCR(USART_RX_STA)
    /\ b = CR
    /\ USART_RX_STA' = USART_RX_STA + Bit14
    /\ UNCHANGED USART_RX_BUF

\* Mutation: the count is compared before it is increased.
StoreLate(b) ==
    /\ ~GotCR(USART_RX_STA)
    /\ b # CR
    /\ USART_RX_BUF' = [USART_RX_BUF EXCEPT ![Count(USART_RX_STA)] = b]
    /\ USART_RX_STA' = IF USART_RX_STA > USART_REC_LEN - 1 THEN 0 ELSE USART_RX_STA + 1

(* A byte of the line; a line that fills the buffer starts over. *)
Store(b) ==
    /\ ~GotCR(USART_RX_STA)
    /\ b # CR
    /\ USART_RX_BUF' = [USART_RX_BUF EXCEPT ![Count(USART_RX_STA)] = b]
    /\ USART_RX_STA' = IF USART_RX_STA + 1 > USART_REC_LEN - 1 THEN 0 ELSE USART_RX_STA + 1

\* Mutation: bit 15 is not tested, and added instead of or-ed.
USART3_IRQHandlerAlways(b) == (AfterCR(b) \/ CarriageReturn(b) \/ Store(b)) /\ Remember(b)

(* One interrupt with RXNE set. *)
USART3_IRQHandler(b) ==
    IF GotLine(USART_RX_STA)
    THEN UNCHANGED usartvars
    ELSE (AfterCR(b) \/ CarriageReturn(b) \/ Store(b)) /\ Remember(b)

UsartNext == \E b \in Bytes : USART3_IRQHandler(b)

UsartSpec == UsartInit /\ [][UsartNext]_usartvars
-----------------------------------------------------------------------------
UsartTypeOK ==
    /\ USART_RX_STA \in 0 .. Word - 1
    /\ USART_RX_BUF \in [0 .. USART_REC_LEN - 1 -> Bytes \cup {NoByte}]
    /\ recent \in Seq(Bytes)

(* The count stays an index of the buffer and never runs into the two flags that *)
(* share its word, and a line is never complete without its CR.                  *)
FlagsApart ==
    /\ Count(USART_RX_STA) < USART_REC_LEN
    /\ GotLine(USART_RX_STA) => GotCR(USART_RX_STA)

(* A complete line is what was received last: its bytes in the buffer, in order   *)
(* and without a CR, then CR LF.  After an overflow or a broken CR LF nothing of  *)
(* the bytes before is in it.                                                     *)
LineExact ==
    GotLine(USART_RX_STA) =>
        LET n == Count(USART_RX_STA)
        IN  /\ Len(recent) >= n + 2
            /\ \A i \in 0 .. n - 1 : /\ USART_RX_BUF[i] = recent[Len(recent) - n - 1 + i]
                                     /\ USART_RX_BUF[i] # CR
            /\ recent[Len(recent) - 1] = CR /\ recent[Len(recent)] = LF
=============================================================================

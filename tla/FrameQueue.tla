----------------------------- MODULE FrameQueue -----------------------------
(***************************************************************************)
(* What a descriptor ring promises, in either direction: a bounded queue   *)
(* of frames between a producer and a consumer.  A frame accepted is       *)
(* handed over unchanged, in order and once, or dropped on purpose by the  *)
(* consumer.  EthRx.tla and EthTx.tla implement it.                        *)
(***************************************************************************)
EXTENDS Integers, Sequences

CONSTANTS Frames,    \* frame contents
          Capacity,  \* frames the queue can hold
          NoFrame

VARIABLES queue,     \* accepted and not yet handed over
          handed     \* the frame handed over last

vars == <<queue, handed>>

Init == queue = <<>> /\ handed = NoFrame

Accept(f) ==
    /\ Len(queue) < Capacity
    /\ queue' = Append(queue, f)
    /\ UNCHANGED handed

Hand ==
    /\ queue # <<>>
    /\ queue' = Tail(queue)
    /\ handed' = Head(queue)

Drop ==
    /\ queue # <<>>
    /\ queue' = Tail(queue)
    /\ UNCHANGED handed

Next == (\E f \in Frames : Accept(f)) \/ Hand \/ Drop

Spec == Init /\ [][Next]_vars
=============================================================================

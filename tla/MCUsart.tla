------------------------------- MODULE MCUsart -------------------------------
(* A buffer of four bytes instead of 200 and two bytes that are neither CR nor *)
(* LF: lines that are empty, short, one too short, exactly too long and too    *)
(* long all occur, with a CR in any place.                                     *)
EXTENDS Usart
MCBytes == {"cr", "lf", "a", "b"}
=============================================================================

------------------------------ MODULE MCPhySmi ------------------------------
(* Two PHY registers and two values tell a value apart from the one before   *)
(* it and a register from its neighbour; a timeout after two polls lets the  *)
(* switch answer before, at and after it.                                    *)
EXTENDS PhySmi
=============================================================================

------------------------------- MODULE MCIpReass -------------------------------
(* Six datagrams: 1 is cut once into four pieces, 2 in two ways, the others     *)
(* never become whole. The limits in the cfg are the program's own.             *)
EXTENDS IpReass

Piece(i, from, to, l) == [id |-> i, start |-> from, end |-> to, last |-> l]

MCFragments ==
    {Piece(1, 0, 1, FALSE), Piece(1, 1, 2, FALSE), Piece(1, 2, 3, FALSE), Piece(1, 3, 4, TRUE),
     Piece(2, 0, 2, FALSE), Piece(2, 2, 3, TRUE), Piece(2, 0, 1, FALSE), Piece(2, 1, 3, TRUE),
     Piece(3, 0, 3, FALSE), Piece(4, 0, 3, FALSE), Piece(5, 0, 1, FALSE), Piece(6, 0, 2, FALSE)}

MCClen(f) == f.end - f.start
=============================================================================

------------------------------ MODULE MCArpTable ------------------------------
(* Three hosts for two entries.  The hosts are alike and so are *)
(* the packets, but with a liveness property no symmetry is declared.           *)
EXTENDS ArpTable
=============================================================================

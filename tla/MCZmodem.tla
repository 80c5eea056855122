------------------------------ MODULE MCZmodem ------------------------------
(***************************************************************************)
(* Files of 1, 3 and 4 bytes in pages of 2 and sectors of 4: a file whose  *)
(* only page the erase leaves out, one with an odd tail in a second page,  *)
(* and one that fills its pages and its sector exactly.                    *)
(***************************************************************************)
EXTENDS ZmodemReceive

MCSizes == {1, 3, 4}
MCFile(n) == [i \in 1..n |-> i]
=============================================================================

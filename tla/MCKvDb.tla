------------------------------- MODULE MCKvDb -------------------------------
(***************************************************************************)
(* Three sectors, as FLASH_SEC_NUM has it, of two records each, and three  *)
(* keys: all records of the sector that is collected may be live, and the  *)
(* one in reserve has just room for them.  With records of 3 none ends     *)
(* where the limits of alloc_kv and find_kv disagree, sec_size - 2 and     *)
(* sec_size - 1.                                                           *)
(***************************************************************************)
EXTENDS KvDbInv

MCLen == [v \in Value |-> 3]
ASSUME MCConditions == Conditions
Sym   == Permutations(Key) \cup Permutations(Value)
=============================================================================

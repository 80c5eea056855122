---------------------------- MODULE MCLineEditor ----------------------------
(* LineEditor with command names for TLC: two that share a prefix longer   *)
(* than one letter, and one that shares none with them.                    *)
EXTENDS LineEditor

MCCommands == { <<"a", "a", "b">>, <<"a", "a", "a">>, <<"b", "b">> }
=============================================================================

---------------------------- MODULE MCKeyRanges ----------------------------
(* KeyRanges for TLC. *)
EXTENDS KeyRanges
=============================================================================

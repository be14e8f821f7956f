---------------------------- MODULE MCPageStore ----------------------------
(* PageStore for TLC. *)
EXTENDS PageStore

ReaderSymmetry == Permutations(Readers)
=============================================================================

------------------------------ MODULE MCKVTX ------------------------------
(* KVTX on a small instance. *)
EXTENDS KVTX

\* Transaction objects are interchangeable.
TxSymmetry == Permutations(Tx)

\* The operations between Save and the end of a statement read and change
\* their own transaction only, so a behaviour in which statements overlap
\* reaches the same states as one in which each runs without interruption.
OneStatement == Cardinality({t \in Tx : tx[t].stmt # "none"}) <= 1
=============================================================================

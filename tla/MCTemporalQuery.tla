-------------------------- MODULE MCTemporalQuery --------------------------
(* Instances of TemporalQuery for TLC.  As in MCMvcc, transactions and     *)
(* property values are never told apart by name.                           *)
EXTENDS TemporalQuery, TLC

TxValueSymmetry == Permutations(Tx) \union Permutations(Value)
=============================================================================

------------------------------- MODULE MCMvcc -------------------------------
(* Instances of Mvcc for TLC.  The model never distinguishes transactions   *)
(* or property values by name.                                              *)
EXTENDS Mvcc, TLC

TxSymmetry == Permutations(Tx)
TxValueSymmetry == Permutations(Tx) \union Permutations(Value)
=============================================================================

--------------------------- MODULE MCHistoryStore ---------------------------
(* Instances of HistoryStore for TLC: the gid of one object is a prefix of *)
(* the other's.                                                            *)
EXTENDS HistoryStore

FieldSymmetry == Permutations(Field)

LookupGids == [k \in Kinds |-> {1, 10}]
=============================================================================

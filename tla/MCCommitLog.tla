----------------------------- MODULE MCCommitLog -----------------------------
(* Instances of CommitLog for TLC: blocks of 4 ids in fields of 2, so that  *)
(* the ids of a run span several blocks and a block several fields.         *)
EXTENDS CommitLog
=============================================================================

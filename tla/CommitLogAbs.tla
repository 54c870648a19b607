---------------------------- MODULE CommitLogAbs ----------------------------
(***************************************************************************)
(* What storage/v2/commit_log.hpp promises: a set which at the beginning   *)
(* contains all ids, from which SetFinished removes an id and of which     *)
(* OldestActive is the minimum.  `finished' is the complement of that set. *)
(***************************************************************************)
EXTENDS Integers

CONSTANTS FirstId,      \* the smallest id of the set
          MaxId         \* the largest id that is ever removed

VARIABLES finished,     \* the ids removed so far
          oldestActive  \* what OldestActive() returns

absVars == <<finished, oldestActive>>

IsMinimum(n, removed) ==
  /\ n \notin removed
  /\ \A i \in FirstId..(n - 1) : i \in removed

AbsInit ==
  /\ finished = {}
  /\ oldestActive = FirstId

SetFinished(id) ==
  /\ finished' = finished \cup {id}
  /\ oldestActive' \in FirstId..(MaxId + 1)
  /\ IsMinimum(oldestActive', finished')

AbsNext == \E id \in FirstId..MaxId : SetFinished(id)

AbsSpec == AbsInit /\ [][AbsNext]_absVars
=============================================================================

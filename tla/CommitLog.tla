------------------------------ MODULE CommitLog ------------------------------
(***************************************************************************)
(* storage/v2/commit_log.{hpp,cpp}: the log of finished transaction ids,   *)
(* and the transaction engine that hands the ids out (CreateTransaction    *)
(* and CommitTimestamp of storage.cpp).                                    *)
(*                                                                         *)
(* The linked list of bitmap blocks is a window headStart..nextStart-1 of  *)
(* ids, a multiple of kIdsInBlock at both ends, and the set `marked' of    *)
(* the ids of that window whose bit is set; head_ is null exactly when the *)
(* window is empty.  MarkFinished and OldestActive run under lock_, hence  *)
(* one action each.                                                        *)
(***************************************************************************)
EXTENDS Integers

CONSTANTS
  kBlockSize,    \* fields in a block (8192 in the code)
  kIdsInField,   \* ids in a field (64 in the code)
  FirstId,       \* timestamp_ when the log is created: 0, or the recovered one
  MaxId,         \* bound: the largest id handed out
  MaxHolders,    \* bound: transactions that share one id (replica only)
  Role           \* replication_role_: "MAIN" or "REPLICA"

ASSUME CommitLogAssumption ==
  /\ kBlockSize \in Nat \ {0}
  /\ kIdsInField \in Nat \ {0}
  /\ FirstId \in Nat
  /\ MaxId \in Nat
  /\ FirstId <= MaxId
  /\ MaxHolders \in Nat \ {0}
  /\ Role \in {"MAIN", "REPLICA"}

VARIABLES
  headStart,     \* head_start_
  nextStart,     \* next_start_
  marked,        \* the set bits, as ids of the window
  oldestActive,  \* oldest_active_
  timestamp,     \* Storage::timestamp_
  holders,       \* how many transactions hold an id they will mark finished
  issued         \* the ids handed out so far

logVars == <<headStart, nextStart, marked, oldestActive>>
vars == <<headStart, nextStart, marked, oldestActive, timestamp, holders, issued>>

kIdsInBlock == kBlockSize * kIdsInField

Id == FirstId..MaxId

(* The first id of the block that the layout gives to id.                  *)
BlockOf(id) == id - (id % kIdsInBlock)

-----------------------------------------------------------------------------
(* CommitLog(): no block.  CommitLog(oldest_active): one block, in which   *)
(* every id before oldest_active is marked.                                *)
InitLog ==
  LET start == BlockOf(FirstId)
  IN  /\ oldestActive = FirstId
      /\ headStart = start
      /\ nextStart = IF FirstId = 0 THEN 0 ELSE start + kIdsInBlock
      /\ marked = start..(FirstId - 1)

(* First id of the block FindOrCreateBlock(id) returns: the head block for *)
(* every id below its end, even one whose own block was freed.             *)
BlockStart(id) ==
  IF id < headStart + kIdsInBlock THEN headStart ELSE BlockOf(id)

(* Mutant: a block is created but next_start_ is not advanced.             *)
EndWithStale(id) == nextStart

(* next_start_ after the blocks up to the one of id have been created.     *)
EndWith(id) ==
  LET end == BlockStart(id) + kIdsInBlock
  IN  IF end > nextStart THEN end ELSE nextStart

(* The first id that the scan of the block at head looks at: the scan      *)
(* starts at the field of oldest_active_ if that is in the block, and at   *)
(* field 0 otherwise.                                                      *)
FirstScanned(head) ==
  IF oldestActive >= head
    THEN oldestActive - ((oldestActive - head) % kIdsInField)
    ELSE head

BlockIsFull(bits, head) ==
  \A i \in FirstScanned(head)..(head + kIdsInBlock - 1) : i \in bits

(* Mutant: the result of ffsl, which counts from 1, is not decremented.    *)
UpdateOldestActiveOffByOne(bits, end) ==
  \E head \in headStart..end :
    /\ (head - headStart) % kIdsInBlock = 0
    /\ \A h \in headStart..(head - 1) :
         (h - headStart) % kIdsInBlock = 0 => BlockIsFull(bits, h)
    /\ \/ head = end /\ oldestActive' = end
       \/ head # end /\ \E n \in FirstScanned(head)..(head + kIdsInBlock - 1) :
            /\ \A i \in FirstScanned(head)..(n - 1) : i \in bits
            /\ n \notin bits
            /\ oldestActive' = n + 1
    /\ headStart' = head
    /\ marked' = {i \in bits : i >= head}

(* Mutant: a full block is freed but head_start_ is not advanced.          *)
UpdateOldestActiveStaleHead(bits, end) ==
  \E head \in headStart..end :
    /\ (head - headStart) % kIdsInBlock = 0
    /\ \A h \in headStart..(head - 1) :
         (h - headStart) % kIdsInBlock = 0 => BlockIsFull(bits, h)
    /\ \/ head = end /\ oldestActive' = end
       \/ head # end /\ \E n \in FirstScanned(head)..(head + kIdsInBlock - 1) :
            /\ \A i \in FirstScanned(head)..(n - 1) : i \in bits
            /\ n \notin bits
            /\ oldestActive' = n
    /\ UNCHANGED headStart
    /\ marked' = {i \in bits : i >= head}

(* UpdateOldestActive, for set bits `bits' in a window that ends at `end'. *)
(* The loop frees the head block and advances head_start_ by kIdsInBlock   *)
(* while the block is full; it ends at the first block that is not, with   *)
(* the first clear bit of that block, or when no block is left.            *)
UpdateOldestActive(bits, end) ==
  \E head \in headStart..end :
    /\ (head - headStart) % kIdsInBlock = 0
    /\ \A h \in headStart..(head - 1) :
         (h - headStart) % kIdsInBlock = 0 => BlockIsFull(bits, h)
    /\ \/ head = end /\ oldestActive' = end
       \/ head # end /\ \E n \in FirstScanned(head)..(head + kIdsInBlock - 1) :
            /\ \A i \in FirstScanned(head)..(n - 1) : i \in bits
            /\ n \notin bits
            /\ oldestActive' = n
    /\ headStart' = head
    /\ marked' = {i \in bits : i >= head}

(* Mutant: the oldest id is not recomputed when a later id is already set. *)
MarkFinishedNoScan(id) ==
  LET bits == marked \cup {BlockStart(id) + (id % kIdsInBlock)}
  IN  /\ nextStart' = EndWith(id)
      /\ IF id = oldestActive /\ id + 1 \notin bits
           THEN UpdateOldestActive(bits, EndWith(id))
           ELSE marked' = bits /\ UNCHANGED <<headStart, oldestActive>>

(* Mutant: the mask of the bit is shifted by one position too many.        *)
MarkFinishedWrongBit(id) ==
  LET bits == marked \cup {BlockStart(id) + (id % kIdsInBlock) + 1}
  IN  /\ nextStart' = EndWith(id)
      /\ IF id = oldestActive
           THEN UpdateOldestActive(bits, EndWith(id))
           ELSE marked' = bits /\ UNCHANGED <<headStart, oldestActive>>

(* Sets the bit of id in its block, and moves on if id was the oldest.     *)
MarkFinished(id) ==
  LET bits == marked \cup {BlockStart(id) + (id % kIdsInBlock)}
  IN  /\ nextStart' = EndWith(id)
      /\ IF id = oldestActive
           THEN UpdateOldestActive(bits, EndWith(id))
           ELSE marked' = bits /\ UNCHANGED <<headStart, oldestActive>>

-----------------------------------------------------------------------------
HandOut(id) ==
  /\ holders' = [holders EXCEPT ![id] = @ + 1]
  /\ issued' = issued \cup {id}
  /\ UNCHANGED logVars

(* The start timestamp: a main increments timestamp_, a replica does not.  *)
CreateTransaction ==
  /\ timestamp <= MaxId
  /\ holders[timestamp] < MaxHolders
  /\ timestamp' = IF Role = "REPLICA" THEN timestamp ELSE timestamp + 1
  /\ HandOut(timestamp)

(* The commit timestamp: the next one, or on a replica the one that the    *)
(* main assigned, which the replica's own clock has not passed.            *)
CommitTimestamp ==
  \E id \in IF Role = "REPLICA" THEN timestamp..MaxId ELSE {timestamp} :
    /\ id <= MaxId
    /\ timestamp' = id + 1
    /\ HandOut(id)

(* A transaction is done with an id it holds.                              *)
Finish(id) ==
  /\ holders[id] > 0
  /\ holders' = [holders EXCEPT ![id] = @ - 1]
  /\ MarkFinished(id)
  /\ UNCHANGED <<timestamp, issued>>

Init ==
  /\ InitLog
  /\ timestamp = FirstId
  /\ holders = [i \in Id |-> 0]
  /\ issued = {}

Next ==
  \/ CreateTransaction
  \/ CommitTimestamp
  \/ \E id \in Id : Finish(id)

(* Every transaction ends: each holder of an id marks it finished.         *)
Fairness == \A id \in Id : WF_vars(Finish(id))

Spec == Init /\ [][Next]_vars
FairSpec == Spec /\ Fairness

-----------------------------------------------------------------------------
(* The window is made of whole blocks, and every bit lies in it.           *)
TypeOK ==
  /\ headStart \in Nat /\ nextStart \in Nat
  /\ headStart <= nextStart
  /\ headStart % kIdsInBlock = 0 /\ nextStart % kIdsInBlock = 0
  /\ marked \subseteq headStart..(nextStart - 1)
  /\ oldestActive \in FirstId..(MaxId + 1)
  /\ timestamp \in FirstId..(MaxId + 1)
  /\ holders \in [Id -> Nat]
  /\ issued \subseteq Id

(* What CollectGarbage relies on when it treats every commit timestamp     *)
(* below OldestActive() as needed by nobody: OldestActive() is the         *)
(* smallest id that is still held, or the next id when none is.            *)
OldestIsSmallestHeld ==
  /\ \A i \in Id : holders[i] > 0 => oldestActive <= i
  /\ oldestActive = timestamp \/ (oldestActive \in Id /\ holders[oldestActive] > 0)

(* The loop of UpdateOldestActive frees a block as soon as its ids are all *)
(* finished and never earlier: the head block, block after block further   *)
(* on, is always the one in whose range oldest_active_ lies.               *)
HeadIsBlockOfOldest == headStart = BlockOf(oldestActive)

(* MarkFinished(id) sets the bit of id and of no other: a bit that is set  *)
(* belongs to an id that was handed out (or precedes the recovered one).   *)
MarkedWereIssued == \A i \in marked : i < FirstId \/ i \in issued

(* The bitmap log implements the set of commit_log.hpp: MarkFinished(id)   *)
(* removes exactly id, and OldestActive() is the minimum of the rest.      *)
Finished == {i \in Id : i < oldestActive \/ i \in marked}
Abs == INSTANCE CommitLogAbs WITH finished <- Finished
ImplementsSet == Abs!AbsSpec

(* An id that is held is passed by OldestActive() eventually, once every   *)
(* transaction marks the ids it holds: no finished id is skipped by the    *)
(* scan, whatever the order in which blocks fill up.                       *)
OldestPassesEveryId == \A i \in Id : i \in issued ~> oldestActive > i
=============================================================================

--------------------------- MODULE CommitLogProofs ---------------------------
(***************************************************************************)
(* Proofs about CommitLog, for every block size, field size, first id and  *)
(* bound.  They concern a main: on a replica, where transactions share     *)
(* start timestamps, MarkedWereIssued is false.                            *)
(*                                                                         *)
(* IInv is the inductive invariant.  It adds to the type invariant that    *)
(* the window starts at the block of oldest_active_, that every id between *)
(* the two is marked and oldest_active_ itself is not, and that an id is   *)
(* held exactly when it was handed out and is not marked.                  *)
(***************************************************************************)
EXTENDS CommitLog, TLAPS

(* A multiple of b strictly between -b and b is 0.                         *)
LEMMA SmallMultiple ==
  ASSUME NEW b \in Nat \ {0}, NEW a \in Int, -b < b * a, b * a < b
  PROVE  a = 0
<1>1. a >= 1 => b * a >= b
  OBVIOUS
<1>2. a <= -1 => b * a <= -b
  OBVIOUS
<1> QED BY <1>1, <1>2

(* Quotient and remainder, as the bit arithmetic of FindOrCreateBlock and  *)
(* UpdateOldestActive uses them.                                           *)
LEMMA DivMod ==
  ASSUME NEW b \in Nat \ {0}, NEW x \in Nat
  PROVE  /\ x % b \in 0..(b - 1)
         /\ x \div b \in Nat
         /\ x = b * (x \div b) + (x % b)
OBVIOUS

(* The block start of x is the only multiple of b within b below x.        *)
LEMMA FloorUnique ==
  ASSUME NEW b \in Nat \ {0}, NEW x \in Nat, NEW s \in Nat,
         s % b = 0, s <= x, x < s + b
  PROVE  x - (x % b) = s
<1> DEFINE q == (x \div b) - (s \div b)
<1>1. /\ x = b * (x \div b) + (x % b)
      /\ s = b * (s \div b)
      /\ x % b \in 0..(b - 1)
      /\ x \div b \in Nat /\ s \div b \in Nat
  BY DivMod
<1>2. b * q = b * (x \div b) - b * (s \div b)
  BY <1>1
<1>3. -b < b * q /\ b * q < b
  BY <1>1, <1>2
<1>4. q = 0
  <2> HIDE DEF q
  <2> q \in Int BY <1>1 DEF q
  <2> QED BY <1>3, SmallMultiple
<1> QED BY <1>1, <1>2, <1>4

(* A multiple of b leaves no remainder.                                    *)
LEMMA MultipleMod ==
  ASSUME NEW b \in Nat \ {0}, NEW k \in Nat
  PROVE  (b * k) % b = 0
<1> DEFINE m == b * k
           q == k - (m \div b)
<1>1. m \in Nat
  OBVIOUS
<1>2. /\ m = b * (m \div b) + (m % b)
      /\ m % b \in 0..(b - 1)
      /\ m \div b \in Nat
  <2> HIDE DEF m
  <2> QED BY <1>1, DivMod
<1>3. b * q = b * k - b * (m \div b)
  <2> HIDE DEF m
  <2> QED BY <1>2
<1>4. b * q = m % b
  BY <1>2, <1>3
<1>5. q = 0
  <2>1. q \in Int BY <1>2
  <2>2. -b < b * q /\ b * q < b
    <3> HIDE DEF q, m
    <3> QED BY <1>2, <1>4
  <2> HIDE DEF q, m
  <2> QED BY <2>1, <2>2, SmallMultiple
<1> QED BY <1>2, <1>4, <1>5

(* Rounding down to a multiple of b, as block starts are computed.         *)
LEMMA FloorMultiple ==
  ASSUME NEW b \in Nat \ {0}, NEW x \in Nat
  PROVE  /\ x - (x % b) \in Nat
         /\ x - (x % b) <= x
         /\ x < x - (x % b) + b
         /\ (x - (x % b)) % b = 0
         /\ (x - (x % b) + b) % b = 0
<1>1. /\ x % b \in 0..(b - 1)
      /\ x \div b \in Nat
      /\ x = b * (x \div b) + (x % b)
  BY DivMod
<1>2. x - (x % b) = b * (x \div b)
  BY <1>1
<1>3. b * (x \div b) + b = b * ((x \div b) + 1)
  BY <1>1
<1>4. (b * (x \div b)) % b = 0
  BY <1>1, MultipleMod
<1>5. (b * ((x \div b) + 1)) % b = 0
  BY <1>1, MultipleMod
<1>6. x % b <= x
  BY <1>1
<1> QED BY <1>1, <1>2, <1>3, <1>4, <1>5, <1>6

(* Multiples of b add up to a multiple of b: head_start_ += kIdsInBlock.   *)
LEMMA SumMultiple ==
  ASSUME NEW b \in Nat \ {0}, NEW x \in Nat, NEW y \in Nat, x % b = 0, y % b = 0
  PROVE  (x + y) % b = 0
<1>1. /\ x = b * (x \div b) /\ x \div b \in Nat
      /\ y = b * (y \div b) /\ y \div b \in Nat
  BY DivMod
<1> DEFINE q == x \div b
           r == y \div b
<1>2. (b * (q + r)) % b = 0
  BY <1>1, MultipleMod
<1>3. x + y = b * (q + r)
  <2> HIDE DEF q, r
  <2>1. x = b * q /\ y = b * r /\ q \in Nat /\ r \in Nat
    BY <1>1 DEF q, r
  <2> QED BY <2>1
<1> QED BY <1>2, <1>3
-----------------------------------------------------------------------------
(* kIdsInBlock of commit_log.hpp is positive.                              *)
LEMMA BlockSizePositive == kIdsInBlock \in Nat \ {0}
BY CommitLogAssumption DEF kIdsInBlock

(* The block of an id starts at a multiple of kIdsInBlock, contains the id *)
(* and finds it again at the offset id % kIdsInBlock.                      *)
LEMMA BlockFacts ==
  ASSUME NEW x \in Nat
  PROVE  /\ BlockOf(x) \in Nat
         /\ BlockOf(x) <= x
         /\ x < BlockOf(x) + kIdsInBlock
         /\ BlockOf(x) % kIdsInBlock = 0
         /\ (BlockOf(x) + kIdsInBlock) % kIdsInBlock = 0
         /\ BlockOf(x) + (x % kIdsInBlock) = x
<1>1. x % kIdsInBlock \in Nat
  BY BlockSizePositive, DivMod
<1> QED BY <1>1, BlockSizePositive, FloorMultiple DEF BlockOf

(* Blocks do not overlap.                                                  *)
LEMMA BlockUnique ==
  ASSUME NEW x \in Nat, NEW s \in Nat,
         s % kIdsInBlock = 0, s <= x, x < s + kIdsInBlock
  PROVE  BlockOf(x) = s
BY BlockSizePositive, FloorUnique DEF BlockOf

(* The inductive invariant of a main.                                      *)
IInv ==
  /\ TypeOK
  /\ HeadIsBlockOfOldest
  /\ oldestActive <= nextStart
  /\ oldestActive <= timestamp
  /\ oldestActive \notin marked
  /\ headStart..(oldestActive - 1) \subseteq marked
  /\ \A i \in marked : i < timestamp
  /\ issued = FirstId..(timestamp - 1)
  /\ \A i \in Id : holders[i] =
       IF oldestActive <= i /\ i < timestamp /\ i \notin marked THEN 1 ELSE 0

(* Both constructors of CommitLog establish the invariant.                 *)
LEMMA InitIInv == Init => IInv
<1> SUFFICES ASSUME Init PROVE IInv
  OBVIOUS
<1> USE CommitLogAssumption, BlockSizePositive
<1>1. /\ BlockOf(FirstId) \in Nat
      /\ BlockOf(FirstId) <= FirstId
      /\ FirstId < BlockOf(FirstId) + kIdsInBlock
      /\ BlockOf(FirstId) % kIdsInBlock = 0
      /\ (BlockOf(FirstId) + kIdsInBlock) % kIdsInBlock = 0
  BY BlockFacts
<1>2. 0 % kIdsInBlock = 0
  OBVIOUS
<1>3. CASE FirstId = 0
  <2>1. BlockOf(FirstId) = 0
    BY <1>1, <1>3
  <2>2. headStart = 0 /\ nextStart = 0 /\ marked = {} /\ oldestActive = 0
    BY <1>3, <2>1 DEF Init, InitLog
  <2> QED BY <1>1, <1>2, <1>3, <2>1, <2>2
          DEF IInv, TypeOK, Init, Id, HeadIsBlockOfOldest
<1>4. CASE FirstId # 0
  <2>1. /\ headStart = BlockOf(FirstId)
        /\ nextStart = BlockOf(FirstId) + kIdsInBlock
        /\ marked = BlockOf(FirstId)..(FirstId - 1)
        /\ oldestActive = FirstId
    BY <1>4 DEF Init, InitLog
  <2> QED BY <1>1, <2>1 DEF IInv, TypeOK, Init, Id, HeadIsBlockOfOldest
<1> QED BY <1>3, <1>4

(* On a main, handing out timestamp_ is the only way to get an id.         *)
LEMMA HandOutIInv ==
  ASSUME Role = "MAIN", IInv, timestamp <= MaxId, timestamp' = timestamp + 1,
         HandOut(timestamp)
  PROVE  IInv'
<1> USE CommitLogAssumption
<1>1. UNCHANGED logVars
  BY DEF HandOut
<1>2. /\ TypeOK' /\ HeadIsBlockOfOldest'
  BY <1>1 DEF IInv, TypeOK, HandOut, logVars, Id, HeadIsBlockOfOldest, BlockOf
<1>3. \A i \in Id : holders'[i] =
        IF oldestActive' <= i /\ i < timestamp' /\ i \notin marked' THEN 1 ELSE 0
  <2>1. timestamp \in Id /\ timestamp \notin marked /\ oldestActive <= timestamp
    BY DEF IInv, TypeOK, Id
  <2>2. holders[timestamp] = 0
    BY <2>1 DEF IInv, TypeOK
  <2>3. holders'[timestamp] = 1
    BY <2>1, <2>2 DEF HandOut, IInv, TypeOK
  <2>4. ASSUME NEW i \in Id, i # timestamp
        PROVE  holders'[i] = holders[i]
    BY <2>4 DEF HandOut, IInv, TypeOK
  <2> QED BY <1>1, <2>1, <2>3, <2>4 DEF logVars, IInv, TypeOK, Id
<1>4. issued' = FirstId..(timestamp' - 1)
  BY DEF IInv, TypeOK, HandOut
<1> QED BY <1>1, <1>2, <1>3, <1>4 DEF IInv, TypeOK, logVars

(* The id that is marked lies in the block that FindOrCreateBlock returns. *)
LEMMA MarkedBitIsId ==
  ASSUME IInv, NEW id \in Id, id >= oldestActive
  PROVE  /\ BlockStart(id) = BlockOf(id)
         /\ BlockStart(id) + (id % kIdsInBlock) = id
         /\ EndWith(id) \in Nat
         /\ EndWith(id) % kIdsInBlock = 0
         /\ id < EndWith(id)
         /\ nextStart <= EndWith(id)
<1> USE CommitLogAssumption, BlockSizePositive
<1>1. /\ id \in Nat /\ oldestActive \in Nat
      /\ headStart \in Nat /\ headStart % kIdsInBlock = 0
      /\ nextStart \in Nat /\ nextStart % kIdsInBlock = 0
  BY DEF Id, IInv, TypeOK
<1>2. headStart <= oldestActive
  BY <1>1, BlockFacts DEF IInv, HeadIsBlockOfOldest
<1>3. BlockStart(id) = BlockOf(id)
  <2>1. CASE id < headStart + kIdsInBlock
    BY <1>1, <1>2, <2>1, BlockUnique DEF BlockStart
  <2> QED BY <2>1 DEF BlockStart
<1>4. /\ BlockOf(id) \in Nat
      /\ BlockOf(id) + (id % kIdsInBlock) = id
      /\ id < BlockOf(id) + kIdsInBlock
      /\ (BlockOf(id) + kIdsInBlock) % kIdsInBlock = 0
  BY <1>1, BlockFacts
<1> QED BY <1>1, <1>3, <1>4 DEF EndWith

(* Where the scan of UpdateOldestActive starts in a block: not after       *)
(* oldest_active_ if that is in the block or behind it, else at the block. *)
LEMMA FirstScannedBounds ==
  ASSUME NEW head \in Nat, oldestActive \in Nat
  PROVE  /\ FirstScanned(head) \in Nat
         /\ head <= FirstScanned(head)
         /\ \A i \in Nat : head <= i /\ oldestActive <= i => FirstScanned(head) <= i
<1>1. CASE oldestActive >= head
  <2> DEFINE x == oldestActive - head
  <2>1. x \in Nat BY <1>1
  <2> HIDE DEF x
  <2>2. /\ x % kIdsInField \in 0..(kIdsInField - 1)
        /\ x \div kIdsInField \in Nat
        /\ x = kIdsInField * (x \div kIdsInField) + (x % kIdsInField)
    BY <2>1, DivMod, CommitLogAssumption
  <2>3. kIdsInField * (x \div kIdsInField) \in Nat
    BY <2>2, CommitLogAssumption
  <2>4. x % kIdsInField \in 0..x
    BY <2>1, <2>2, <2>3
  <2>5. FirstScanned(head) = oldestActive - (x % kIdsInField)
    BY <1>1 DEF FirstScanned, x
  <2> QED BY <1>1, <2>4, <2>5 DEF x
<1>2. CASE oldestActive < head
  BY <1>2 DEF FirstScanned
<1> QED BY <1>1, <1>2

(* The blocks that the loop of UpdateOldestActive frees hold no clear bit  *)
(* from oldest_active_ on: none of them is freed too early.                *)
LEMMA FreedBlocksAreFull ==
  ASSUME NEW bits, NEW head \in Nat, headStart \in Nat, oldestActive \in Nat,
         headStart <= oldestActive,
         \A h \in headStart..(head - 1) :
           (h - headStart) % kIdsInBlock = 0 => BlockIsFull(bits, h)
  PROVE  \A i \in oldestActive..(head - 1) : i \in bits
<1> SUFFICES ASSUME NEW i \in oldestActive..(head - 1) PROVE i \in bits
  OBVIOUS
<1> DEFINE x == i - headStart
           h == headStart + (x - (x % kIdsInBlock))
<1>1. x \in Nat /\ i \in Nat
  OBVIOUS
<1>2. /\ x - (x % kIdsInBlock) \in Nat
      /\ x - (x % kIdsInBlock) <= x
      /\ x < x - (x % kIdsInBlock) + kIdsInBlock
      /\ (x - (x % kIdsInBlock)) % kIdsInBlock = 0
  <2> HIDE DEF x
  <2> QED BY <1>1, BlockSizePositive, FloorMultiple
<1>3. /\ h \in Nat /\ h - headStart = x - (x % kIdsInBlock)
      /\ h <= i /\ i < h + kIdsInBlock
  BY <1>1, <1>2, BlockSizePositive
<1> HIDE DEF h
<1>4. h \in headStart..(head - 1)
  BY <1>2, <1>3
<1>5. BlockIsFull(bits, h)
  BY <1>2, <1>3, <1>4
<1>6. FirstScanned(h) \in Nat /\ FirstScanned(h) <= i
  BY <1>1, <1>3, FirstScannedBounds
<1> QED BY <1>1, <1>3, <1>5, <1>6, BlockSizePositive DEF BlockIsFull

(* UpdateOldestActive moves on to the first clear bit after oldest_active_ *)
(* and leaves the window at the block of that bit.                         *)
LEMMA UpdateFindsFirstClear ==
  ASSUME IInv, NEW end \in Nat, end % kIdsInBlock = 0, oldestActive < end,
         NEW bits, oldestActive \in bits, marked \subseteq bits,
         bits \subseteq headStart..(end - 1),
         UpdateOldestActive(bits, end)
  PROVE  /\ oldestActive' \in Nat /\ oldestActive < oldestActive' /\ oldestActive' <= end
         /\ oldestActive' \notin bits
         /\ \A i \in oldestActive..(oldestActive' - 1) : i \in bits
         /\ headStart' = BlockOf(oldestActive')
         /\ marked' = {i \in bits : i >= headStart'}
<1> USE BlockSizePositive
<1>1. /\ headStart \in Nat /\ headStart % kIdsInBlock = 0 /\ oldestActive \in Nat
      /\ headStart <= oldestActive
      /\ headStart..(oldestActive - 1) \subseteq bits
  <2>1. headStart \in Nat /\ headStart % kIdsInBlock = 0 /\ oldestActive \in Nat
    BY CommitLogAssumption DEF IInv, TypeOK
  <2>2. headStart <= oldestActive
    BY <2>1, BlockFacts DEF IInv, HeadIsBlockOfOldest
  <2> QED BY <2>1, <2>2 DEF IInv
<1>2. PICK head \in headStart..end :
        /\ (head - headStart) % kIdsInBlock = 0
        /\ \A h \in headStart..(head - 1) :
             (h - headStart) % kIdsInBlock = 0 => BlockIsFull(bits, h)
        /\ \/ head = end /\ oldestActive' = end
           \/ head # end /\ \E n \in FirstScanned(head)..(head + kIdsInBlock - 1) :
                /\ \A i \in FirstScanned(head)..(n - 1) : i \in bits
                /\ n \notin bits
                /\ oldestActive' = n
        /\ headStart' = head
        /\ marked' = {i \in bits : i >= head}
  BY DEF UpdateOldestActive
<1>3. head \in Nat /\ headStart <= head /\ head <= end /\ head % kIdsInBlock = 0
  <2>1. head \in Nat /\ headStart <= head /\ head <= end /\ head - headStart \in Nat
    BY <1>1
  <2>2. (headStart + (head - headStart)) % kIdsInBlock = 0
    BY <1>1, <1>2, <2>1, SumMultiple
  <2>3. headStart + (head - headStart) = head
    BY <1>1, <2>1
  <2> QED BY <2>1, <2>2, <2>3
<1>4. \A i \in oldestActive..(head - 1) : i \in bits
  BY <1>1, <1>2, <1>3, FreedBlocksAreFull
<1>5. PICK n : n = oldestActive'
  OBVIOUS
<1>6. /\ n \in Nat /\ head <= n /\ n < head + kIdsInBlock
      /\ n \notin bits
      /\ \A i \in oldestActive..(n - 1) : i \in bits
  <2>1. CASE head = end /\ oldestActive' = end
    BY <1>1, <1>3, <1>4, <1>5, <2>1
  <2>2. CASE head # end /\ \E m \in FirstScanned(head)..(head + kIdsInBlock - 1) :
               /\ \A i \in FirstScanned(head)..(m - 1) : i \in bits
               /\ m \notin bits
               /\ oldestActive' = m
    <3>1. /\ n \in FirstScanned(head)..(head + kIdsInBlock - 1)
          /\ \A i \in FirstScanned(head)..(n - 1) : i \in bits
          /\ n \notin bits
      BY <1>5, <2>2
    <3>2. /\ FirstScanned(head) \in Nat /\ head <= FirstScanned(head)
          /\ \A i \in Nat : head <= i /\ oldestActive <= i => FirstScanned(head) <= i
      BY <1>1, <1>3, FirstScannedBounds
    <3>3. n \in Nat /\ head <= n /\ n < head + kIdsInBlock
      BY <1>3, <3>1, <3>2
    <3>4. ASSUME NEW i \in oldestActive..(n - 1) PROVE i \in bits
      <4>1. i \in Nat
        BY <1>1
      <4>2. CASE i < head
        BY <1>1, <1>3, <1>4, <4>1, <4>2
      <4>3. CASE head <= i
        <5>1. FirstScanned(head) <= i
          BY <1>1, <3>2, <4>1, <4>3
        <5> QED BY <3>1, <3>2, <3>3, <4>1, <5>1
      <4> QED BY <1>3, <4>1, <4>2, <4>3
    <3> QED BY <3>1, <3>3, <3>4
  <2> QED BY <1>2, <2>1, <2>2
<1>7. oldestActive < n
  <2>1. n < oldestActive => n \in bits
    BY <1>1, <1>3, <1>6
  <2> QED BY <1>1, <1>6, <2>1
<1>8. n <= end
  <2>1. n - 1 \in oldestActive..(n - 1)
    BY <1>1, <1>6, <1>7
  <2>2. n - 1 \in bits
    BY <1>6, <2>1
  <2> QED BY <1>1, <1>6, <2>2
<1>9. BlockOf(n) = head
  BY <1>3, <1>6, BlockUnique
<1> QED BY <1>2, <1>5, <1>6, <1>7, <1>8, <1>9

(* MarkFinished preserves the invariant: either it only sets a bit, or the *)
(* id is oldest_active_ and UpdateOldestActive scans to the next clear bit *)
(* and frees the blocks before it.                                         *)
LEMMA FinishIInv ==
  ASSUME IInv, NEW id \in Id, Finish(id)
  PROVE  IInv'
<1> USE CommitLogAssumption, BlockSizePositive
<1> DEFINE bits == marked \cup {id}
           end == EndWith(id)
<1>1. /\ oldestActive <= id /\ id < timestamp /\ id \notin marked
      /\ holders[id] = 1
  BY DEF Finish, IInv
<1>2. /\ BlockStart(id) + (id % kIdsInBlock) = id
      /\ end \in Nat /\ end % kIdsInBlock = 0
      /\ id < end /\ nextStart <= end
  BY <1>1, MarkedBitIsId DEF IInv, TypeOK, Id
<1>3. /\ nextStart' = end
      /\ UNCHANGED <<timestamp, issued>>
      /\ holders' = [holders EXCEPT ![id] = @ - 1]
  BY DEF Finish, MarkFinished
<1>4. /\ holders' \in [Id -> Nat]
      /\ holders'[id] = 0
      /\ \A i \in Id \ {id} : holders'[i] = holders[i]
  BY <1>1, <1>3 DEF IInv, TypeOK
<1>5. CASE id # oldestActive
  <2>1. marked' = bits /\ UNCHANGED <<headStart, oldestActive>>
    BY <1>2, <1>5 DEF Finish, MarkFinished
  <2>2. TypeOK'
    <3>1. bits \subseteq headStart..(end - 1)
      <4>1. headStart <= oldestActive
        BY BlockFacts DEF IInv, TypeOK, HeadIsBlockOfOldest
      <4>2. id \in headStart..(end - 1)
        <5> HIDE DEF end
        <5> QED BY <1>1, <1>2, <4>1 DEF IInv, TypeOK, Id
      <4>3. \A i \in marked : i \in headStart..(end - 1)
        <5> HIDE DEF end
        <5> QED BY <1>2 DEF IInv, TypeOK
      <4> QED BY <4>2, <4>3
    <3> HIDE DEF bits, end
    <3> QED BY <1>2, <1>3, <1>4, <2>1, <3>1 DEF IInv, TypeOK
  <2>3. HeadIsBlockOfOldest'
    BY <2>1 DEF IInv, HeadIsBlockOfOldest, BlockOf
  <2>4. \A i \in Id : holders'[i] =
          IF oldestActive' <= i /\ i < timestamp' /\ i \notin marked' THEN 1 ELSE 0
    BY <1>3, <1>4, <2>1 DEF IInv
  <2> QED BY <1>1, <1>2, <1>3, <1>5, <2>1, <2>2, <2>3, <2>4 DEF IInv, TypeOK, Id
<1>6. CASE id = oldestActive
  <2>1. UpdateOldestActive(bits, end)
    BY <1>2, <1>6 DEF Finish, MarkFinished
  <2>2. headStart \in Nat /\ oldestActive \in Nat /\ headStart <= oldestActive
    BY BlockFacts DEF IInv, TypeOK, HeadIsBlockOfOldest
  <2>3. bits \subseteq headStart..(end - 1)
    <3>1. id \in headStart..(end - 1)
      <4> HIDE DEF end
      <4> QED BY <1>2, <1>6, <2>2
    <3>2. \A i \in marked : i \in headStart..(end - 1)
      <4> HIDE DEF end
      <4> QED BY <1>2 DEF IInv, TypeOK
    <3> QED BY <3>1, <3>2
  <2> PICK n : n = oldestActive'
    OBVIOUS
  <2>4. /\ oldestActive' = n
        /\ n \in Nat /\ oldestActive < n /\ n <= end
        /\ n \notin bits
        /\ \A i \in oldestActive..(n - 1) : i \in bits
        /\ headStart' = BlockOf(n)
        /\ marked' = {i \in bits : i >= headStart'}
    <3>1. oldestActive < end /\ oldestActive \in bits /\ marked \subseteq bits
      BY <1>2, <1>6
    <3> HIDE DEF bits, end
    <3> QED BY <1>2, <2>1, <2>3, <3>1, UpdateFindsFirstClear
  <2>5. \A i \in oldestActive..(n - 1) : i \in bits
    BY <2>4
  <2>6. n <= timestamp
    <3>1. n - 1 \in oldestActive..(n - 1)
      BY <2>2, <2>4
    <3>2. n - 1 \in bits
      BY <2>5, <3>1
    <3>3. \A i \in bits : i < timestamp
      BY <1>1 DEF IInv
    <3>4. n - 1 < timestamp
      BY <3>2, <3>3
    <3> QED BY <2>4, <3>4 DEF IInv, TypeOK
  <2>7. /\ BlockOf(n) \in Nat /\ BlockOf(n) % kIdsInBlock = 0
        /\ BlockOf(n) <= n /\ n < BlockOf(n) + kIdsInBlock
    BY <2>4, BlockFacts
  <2>8. headStart <= BlockOf(n)
    <3> SUFFICES ASSUME BlockOf(n) < headStart PROVE FALSE
      BY <2>2, <2>7
    <3>1. BlockOf(headStart) = headStart
      BY <2>2, BlockUnique DEF IInv, TypeOK
    <3>2. BlockOf(headStart) = BlockOf(n)
      BY <2>2, <2>4, <2>7, BlockUnique
    <3> QED BY <2>2, <2>7, <3>1, <3>2
  <2>9. TypeOK'
    <3>1. \A i \in bits : i \in headStart..(end - 1)
      BY <2>3
    <3>2. marked' \subseteq headStart'..(end - 1)
      BY <1>2, <2>4, <2>7, <3>1
    <3>3. n <= end
      BY <2>4
    <3>4. /\ headStart' \in Nat /\ nextStart' \in Nat /\ headStart' <= nextStart'
          /\ headStart' % kIdsInBlock = 0 /\ nextStart' % kIdsInBlock = 0
      <4> HIDE DEF end
      <4> QED BY <1>2, <1>3, <2>4, <2>7, <3>3
    <3>5. oldestActive' \in FirstId..(MaxId + 1) /\ timestamp' \in FirstId..(MaxId + 1)
      BY <1>3, <2>2, <2>4, <2>6 DEF IInv, TypeOK
    <3>6. issued' \subseteq Id /\ holders' \in [Id -> Nat]
      BY <1>3, <1>4 DEF IInv, TypeOK
    <3> HIDE DEF bits, end
    <3> QED BY <1>3, <3>2, <3>4, <3>5, <3>6 DEF TypeOK
  <2>10. HeadIsBlockOfOldest'
    <3>1. BlockOf(oldestActive') = BlockOf(oldestActive)'
      BY DEF BlockOf
    <3> QED BY <2>4 DEF HeadIsBlockOfOldest, BlockOf
  <2>11. headStart'..(oldestActive' - 1) \subseteq marked'
    <3> SUFFICES ASSUME NEW i \in headStart'..(oldestActive' - 1)
                 PROVE  i \in bits
      BY <2>4, <2>7
    <3>1. CASE i < oldestActive
      BY <2>4, <2>2, <2>7, <2>8, <3>1 DEF IInv
    <3>2. CASE i >= oldestActive
      BY <2>2, <2>4, <2>5, <2>7, <3>2
    <3> QED BY <2>4, <2>2, <2>7, <3>1, <3>2
  <2>12. \A i \in marked' : i < timestamp'
    BY <1>1, <1>3, <2>4 DEF IInv
  <2>13. \A i \in Id : holders'[i] =
          IF oldestActive' <= i /\ i < timestamp' /\ i \notin marked' THEN 1 ELSE 0
    <3> SUFFICES ASSUME NEW i \in Id
                 PROVE  holders'[i] =
                   IF n <= i /\ i < timestamp /\ i \notin bits THEN 1 ELSE 0
      BY <1>3, <2>4, <2>7 DEF Id
    <3>1. CASE i < oldestActive
      BY <1>4, <1>6, <2>2, <2>4, <3>1 DEF IInv, Id
    <3>2. CASE oldestActive <= i /\ i < n
      <4>1. i \in bits
        BY <2>2, <2>4, <2>5, <3>2 DEF Id
      <4> QED BY <1>4, <2>4, <3>2, <4>1 DEF IInv, Id
    <3>3. CASE n <= i
      BY <1>4, <1>6, <2>2, <2>4, <3>3 DEF IInv, Id
    <3> QED BY <2>2, <2>4, <3>1, <3>2, <3>3 DEF Id
  <2>14. oldestActive' <= nextStart' /\ oldestActive' \notin marked'
    BY <1>2, <1>3, <2>4, <2>2
  <2>15. oldestActive' <= timestamp' /\ issued' = FirstId..(timestamp' - 1)
    BY <1>3, <2>4, <2>6 DEF IInv
  <2> QED BY <2>9, <2>10, <2>11, <2>12, <2>13, <2>14, <2>15 DEF IInv
<1> QED BY <1>5, <1>6

(* Every step of a main preserves the invariant.                           *)
LEMMA NextIInv ==
  ASSUME Role = "MAIN" PROVE IInv /\ [Next]_vars => IInv'
<1> SUFFICES ASSUME IInv, [Next]_vars PROVE IInv'
  OBVIOUS
<1>1. CASE CreateTransaction
  BY <1>1, HandOutIInv DEF CreateTransaction
<1>2. CASE CommitTimestamp
  BY <1>2, HandOutIInv DEF CommitTimestamp
<1>3. ASSUME NEW id \in Id, Finish(id) PROVE IInv'
  BY <1>3, FinishIInv
<1>4. CASE UNCHANGED vars
  BY <1>4 DEF IInv, TypeOK, vars, HeadIsBlockOfOldest, BlockOf
<1> QED BY <1>1, <1>2, <1>3, <1>4 DEF Next

(* IInv is an invariant of a main.                                         *)
LEMMA MainInductive ==
  ASSUME Role = "MAIN" PROVE Spec => []IInv
BY InitIInv, NextIInv, PTL DEF Spec

(* On a main, the list of blocks is a window of whole blocks and every set *)
(* bit lies in it, whatever the order in which transactions finish.        *)
THEOREM MainTypeOK ==
  ASSUME Role = "MAIN" PROVE Spec => []TypeOK
<1>1. IInv => TypeOK
  BY DEF IInv
<1> QED BY <1>1, MainInductive, PTL

(* On a main, OldestActive() is the smallest id that some transaction still *)
(* holds, or the next id to be handed out: what CollectGarbage relies on.  *)
THEOREM MainOldestIsSmallestHeld ==
  ASSUME Role = "MAIN" PROVE Spec => []OldestIsSmallestHeld
<1>1. IInv => OldestIsSmallestHeld
  BY CommitLogAssumption DEF IInv, TypeOK, OldestIsSmallestHeld, Id
<1> QED BY <1>1, MainInductive, PTL

(* On a main, blocks are freed exactly when all their ids are finished: the *)
(* head block is the one of OldestActive().                                *)
THEOREM MainHeadIsBlockOfOldest ==
  ASSUME Role = "MAIN" PROVE Spec => []HeadIsBlockOfOldest
<1>1. IInv => HeadIsBlockOfOldest
  BY DEF IInv
<1> QED BY <1>1, MainInductive, PTL

(* On a main, MarkFinished(id) sets the bit of an id that was handed out   *)
(* and never one of an id that a later transaction will get.               *)
THEOREM MainMarkedWereIssued ==
  ASSUME Role = "MAIN" PROVE Spec => []MarkedWereIssued
<1>1. IInv => MarkedWereIssued
  BY CommitLogAssumption DEF IInv, TypeOK, MarkedWereIssued, Id
<1> QED BY <1>1, MainInductive, PTL

(* The ids that the log has removed from the set of commit_log.hpp are the *)
(* ids that were handed out and that nobody holds any more.                *)
LEMMA FinishedAreReleased ==
  ASSUME IInv
  PROVE  Finished = {i \in Id : i < timestamp /\ holders[i] = 0}
BY CommitLogAssumption DEF IInv, TypeOK, Finished, Id

(* An id below which everything is removed, and which is not, is the       *)
(* minimum of the rest.                                                    *)
LEMMA MinimumOfRest ==
  ASSUME NEW n \in FirstId..(MaxId + 1), NEW bits, n \notin bits
  PROVE  /\ n \notin {i \in Id : i < n \/ i \in bits}
         /\ \A i \in FirstId..(n - 1) : i \in {j \in Id : j < n \/ j \in bits}
BY CommitLogAssumption DEF Id

(* On a main, the bitmap log implements the set of commit_log.hpp:         *)
(* MarkFinished(id) removes exactly id, and OldestActive() is the minimum  *)
(* of what is left.                                                        *)
THEOREM MainImplementsSet ==
  ASSUME Role = "MAIN" PROVE Spec => ImplementsSet
<1> USE CommitLogAssumption
<1>1. Init => Abs!AbsInit
  <2> SUFFICES ASSUME Init PROVE Finished = {} /\ oldestActive = FirstId
    BY DEF Abs!AbsInit
  <2>1. BlockOf(FirstId) \in Nat
    BY BlockFacts
  <2> QED BY <2>1 DEF Init, InitLog, Finished, Id
<1>2. ASSUME IInv, IInv', [Next]_vars
      PROVE  [Abs!AbsNext]_(Abs!absVars)
  <2> USE <1>2
  <2>1. CASE UNCHANGED logVars
    BY <2>1 DEF Abs!absVars, Finished, logVars
  <2>2. ASSUME NEW id \in Id, Finish(id)
        PROVE  Abs!SetFinished(id)
    <3>1. /\ timestamp' = timestamp /\ id < timestamp
          /\ holders'[id] = 0
          /\ \A i \in Id \ {id} : holders'[i] = holders[i]
      BY <2>2 DEF Finish, IInv, TypeOK
    <3>2. /\ oldestActive' \in FirstId..(MaxId + 1)
          /\ timestamp' \in FirstId..(MaxId + 1)
          /\ oldestActive' <= timestamp'
          /\ oldestActive' \notin marked'
          /\ \A i \in marked' : i < timestamp'
          /\ \A i \in Id : holders'[i] =
               IF oldestActive' <= i /\ i < timestamp' /\ i \notin marked' THEN 1 ELSE 0
      BY DEF IInv, TypeOK
    <3>3. Finished' = {i \in Id : i < oldestActive' \/ i \in marked'}
      BY DEF Finished
    <3>4. Finished' = {i \in Id : i < timestamp' /\ holders'[i] = 0}
      BY <3>2, <3>3 DEF Id
    <3>5. Finished' = Finished \cup {id}
      BY <3>1, <3>4, FinishedAreReleased
    <3>6. Abs!IsMinimum(oldestActive', Finished')
      BY <3>2, <3>3, MinimumOfRest DEF Abs!IsMinimum
    <3> QED BY <3>2, <3>5, <3>6 DEF Abs!SetFinished
  <2>3. CASE CreateTransaction \/ CommitTimestamp
    BY <2>1, <2>3 DEF CreateTransaction, CommitTimestamp, HandOut
  <2>4. CASE UNCHANGED vars
    BY <2>1, <2>4 DEF vars, logVars
  <2> QED BY <2>2, <2>3, <2>4 DEF Next, Abs!AbsNext, Id
<1> QED BY <1>1, <1>2, MainInductive, PTL DEF Spec, ImplementsSet, Abs!AbsSpec
=============================================================================

---------------------------- MODULE HistoryStore ----------------------------
(***************************************************************************)
(* storage/v2/history_delta.cpp over kvstore/kvstore.cpp: the historical   *)
(* store of superseded versions.  A version [start, commit) of an object   *)
(* is kept as an undo record under the key                                 *)
(*     prefix gid ":" bytes(-start) ":" bytes(-commit)                     *)
(* and sometimes as an anchor, its whole content, under                    *)
(*     prefix gid ":" bytes(start) ":" bytes(start)                        *)
(* The module is about what the lookups find in the order of those keys.   *)
(*                                                                         *)
(* The kind selects which records are stored and which lookup reads them:  *)
(*   "V"   VD: and VA:, GetVertexInfo      (vertices)                      *)
(*   "E"   ED: and EA:, GetEdgeInfo        (edges)                         *)
(*   "VE"  VE:, GetDeleteEdgeInfo          (deleted edges of a vertex)     *)
(* An object has the fields Field (properties, or the ids of the edges of  *)
(* a vertex); the value of a field is the time at which it was set, so     *)
(* that no two writes look alike.                                          *)
(***************************************************************************)
EXTENDS Integers, Sequences, FiniteSets, SequencesExt

CONSTANTS
  Kinds,      \* of "V", "E" and "VE", those that are looked at
  Gids,       \* the gids of the objects of each kind
  Field,      \* properties
  W,          \* bits of a timestamp (64 in the code)
  MaxClock,   \* bound: the last time at which a version is superseded
  RealTime,   \* config realTimeFlag: versions carry the wall clock
  Epoch,      \* the wall clock at the first commit
  MaxTicks,   \* bound: how far the wall clock runs
  Period      \* the retention period, 0 when retention_on_startup is off

ASSUME HistoryStoreAssumption ==
  /\ Kinds \subseteq {"V", "E", "VE"}
  /\ Gids \in [Kinds -> SUBSET Nat] /\ RealTime \in BOOLEAN
  /\ W \in Nat /\ MaxClock \in Nat /\ Epoch \in Nat /\ MaxTicks \in Nat /\ Period \in Nat
  /\ MaxClock < 2^(W - 1) /\ Epoch + MaxTicks < 2^(W - 1)

VARIABLES
  kind,       \* the kind of the objects of this behaviour
  clock,      \* the logical timestamp of the last commit
  wall,       \* the wall clock
  current,    \* the current version of each object: start and content
  deltas,     \* the VD:, ED: or VE: records
  anchors,    \* the VA: or EA: records
  superseded  \* reference: the versions that have been superseded

vars == <<kind, clock, wall, current, deltas, anchors, superseded>>

Gid == Gids[kind]

-----------------------------------------------------------------------------
(* Keys.  A key is the sequence of what bytewise comparison looks at: the  *)
(* decimal digits of the gid, the ":" that sorts after every digit, and    *)
(* the big-endian words that uint_convert_to_string makes.                 *)
Digits[n \in Nat] ==
  IF n < 10 THEN <<n>> ELSE Append(Digits[n \div 10], n % 10)

Colon == 10

(* (int64_t)-time, as an unsigned word.                                    *)
Negated(time) == (2^W - time) % 2^W

GidKey(gid) == Digits[gid] \o <<Colon>>

DeltaKey(d) == GidKey(d.gid) \o <<Negated(d.start), Colon, Negated(d.commit)>>

AnchorKey(a) == GidKey(a.gid) \o <<a.start, Colon, a.start>>

Less(k, l) ==
  \E n \in 0..Len(k) :
    /\ n < Len(l)
    /\ \A i \in 1..n : k[i] = l[i]
    /\ n = Len(k) \/ k[n + 1] < l[n + 1]

DeltaKeys == [d \in deltas |-> DeltaKey(d)]
AnchorKeys == [a \in anchors |-> AnchorKey(a)]

(* storage_.starts(prefix): the records from the first key that is not     *)
(* less than the prefix on, to the last record of the three-letter prefix. *)
Starts(keys, prefix) ==
  LET after == {r \in DOMAIN keys : ~Less(keys[r], prefix)}
  IN  [i \in 1..Cardinality(after) |->
         CHOOSE r \in after :
           Cardinality({s \in after : Less(keys[s], keys[r])}) = i - 1]

-----------------------------------------------------------------------------
(* Lookups.                                                                *)

(* Mutant: an AS OF at the end of a version still finds the version.       *)
TemporalCheckClosed(object_ts, object_te, c_ts, c_te, type) ==
  CASE type = "as of" -> object_ts <= c_ts /\ object_te >= c_te
    [] type = "from to" -> object_ts < c_te /\ object_te >= c_ts
    [] type = "between and" -> object_ts <= c_te /\ object_te > c_ts

TemporalCheck(object_ts, object_te, c_ts, c_te, type) ==
  CASE type = "as of" -> object_ts <= c_ts /\ object_te > c_te
    [] type = "from to" -> object_ts < c_te /\ object_te > c_ts
    [] type = "between and" -> object_ts <= c_te /\ object_te > c_ts

(* Mutant: the newer record wins.                                          *)
CombineNewer(before, data) ==
  [f \in DOMAIN before \cup DOMAIN data |->
     IF f \in DOMAIN before THEN before[f] ELSE data[f]]

(* combineVertex and combineEdge: the fields of the newer records that the *)
(* older one does not mention.                                             *)
Combine(before, data) ==
  [f \in DOMAIN before \cup DOMAIN data |->
     IF f \in DOMAIN data THEN data[f] ELSE before[f]]

(* The loop over the delta records, newest version first, that starts with *)
(* the content `info'.  Past the first match nothing is combined.          *)
Collect(gid, c_ts, c_te, type, records, info) ==
  LET Step(acc, d) ==
        LET found == IF acc.combine THEN Combine(acc.info, d.data) ELSE d.data
            match == TemporalCheck(d.start, d.commit, c_ts, c_te, type)
        IN  IF acc.done \/ d.gid # gid \/ d.commit < c_ts THEN [acc EXCEPT !.done = TRUE]
            ELSE [result |-> IF match
                    THEN Append(acc.result, [start |-> d.start, commit |-> d.commit,
                                             data |-> found])
                    ELSE acc.result,
                  info |-> found,
                  combine |-> acc.combine /\ ~match,
                  done |-> match /\ type = "as of"]
  IN  FoldLeft(Step, [result |-> <<>>, info |-> info, combine |-> TRUE, done |-> FALSE],
               records).result

NoFields == [f \in {} |-> 0]

(* The nearest anchor that does not precede c_te: a set of at most one.    *)
NearestAnchor(gid, c_te) ==
  LET found == Starts(AnchorKeys, GidKey(gid) \o <<c_te>>)
  IN  IF found # <<>> /\ found[1].gid = gid THEN {found[1]} ELSE {}

(* Mutant: the deltas are sought from the query's time on, not from the    *)
(* anchor's.                                                               *)
GetVertexInfoFromQuery(gid, c_ts, c_te, type) ==
  LET anchor == NearestAnchor(gid, c_te)
  IN  Collect(gid, c_ts, c_te, type,
              Starts(DeltaKeys, GidKey(gid) \o <<Negated(c_te)>>),
              IF anchor # {} THEN (CHOOSE a \in anchor : TRUE).content ELSE NoFields)

(* Without an anchor, the records of versions that start after c_te are    *)
(* skipped.                                                                *)
VertexInfoFrom(anchor, gid, c_ts, c_te, type) ==
  LET a == CHOOSE a \in anchor : TRUE
  IN  IF anchor # {}
        THEN Collect(gid, c_ts, c_te, type,
                     Starts(DeltaKeys, GidKey(gid) \o <<Negated(a.start)>>), a.content)
        ELSE Collect(gid, c_ts, c_te, type,
                     Starts(DeltaKeys, GidKey(gid) \o <<Negated(c_te)>>), NoFields)

GetVertexInfo(gid, c_ts, c_te, type) ==
  VertexInfoFrom(NearestAnchor(gid, c_te), gid, c_ts, c_te, type)

(* Without an anchor, the search starts at the digits of the gid, without  *)
(* the colon.                                                              *)
GetEdgeInfo(gid, c_ts, c_te, type) ==
  LET anchor == NearestAnchor(gid, c_te)
      a == CHOOSE a \in anchor : TRUE
  IN  IF anchor # {}
        THEN Collect(gid, c_ts, c_te, type,
                     Starts(DeltaKeys, GidKey(gid) \o <<Negated(a.start)>>), a.content)
        ELSE Collect(gid, c_ts, c_te, type, Starts(DeltaKeys, Digits[gid]), NoFields)

GetDeleteEdgeInfo(gid, c_ts, c_te, type) ==
  Collect(gid, c_ts, c_te, type, Starts(DeltaKeys, Digits[gid]), NoFields)

GetInfo(gid, c_ts, c_te, type) ==
  CASE kind = "V" -> GetVertexInfo(gid, c_ts, c_te, type)
    [] kind = "E" -> GetEdgeInfo(gid, c_ts, c_te, type)
    [] kind = "VE" -> GetDeleteEdgeInfo(gid, c_ts, c_te, type)

-----------------------------------------------------------------------------
FirstTime == IF RealTime THEN Epoch ELSE 1

Init ==
  /\ kind \in Kinds
  /\ clock = 1 /\ wall = Epoch
  /\ current = [g \in Gid |-> [start |-> FirstTime, content |-> [f \in Field |-> FirstTime]]]
  /\ deltas = {} /\ anchors = {}
  /\ superseded = {}

(* A transaction that set the fields of `changed' has committed, and the   *)
(* collector saves its deltas (SaveDelta, SaveDeltaAll) and, if the writer *)
(* made one, the anchor of the superseded version (SaveAnchorAll).  A      *)
(* version of no duration is not saved.                                    *)
Save(gid, changed, anchor) ==
  LET old == current[gid]
      time == IF RealTime THEN wall ELSE clock + 1
  IN  /\ clock < MaxClock
      /\ clock' = clock + 1
      /\ deltas' = IF old.start < time
           THEN deltas \cup {[gid |-> gid, start |-> old.start, commit |-> time,
                              data |-> [f \in changed |-> old.content[f]]]}
           ELSE deltas
      /\ anchors' = IF anchor
           THEN {a \in anchors : a.gid # gid \/ a.start # old.start}
                  \cup {[gid |-> gid, start |-> old.start, content |-> old.content]}
           ELSE anchors
      /\ current' = [current EXCEPT ![gid] =
           [start |-> time,
            content |-> [f \in Field |-> IF f \in changed THEN clock + 1 ELSE @.content[f]]]]
      /\ superseded' = superseded \cup
           {[gid |-> gid, start |-> old.start, commit |-> time, content |-> old.content]}
      /\ UNCHANGED <<kind, wall>>

Tick ==
  /\ wall < Epoch + MaxTicks
  /\ wall' = wall + 1
  /\ UNCHANGED <<kind, clock, current, deltas, anchors, superseded>>

(* Every record whose second time is not after now - period is deleted.    *)
RemoveOldHistory ==
  /\ Period > 0
  /\ deltas' = {d \in deltas : d.commit > wall - Period}
  /\ anchors' = {a \in anchors : a.start > wall - Period}
  /\ UNCHANGED <<kind, clock, wall, current, superseded>>

Next ==
  \/ \E gid \in Gid, changed \in SUBSET Field \ {{}}, anchor \in BOOLEAN :
       (anchor => kind # "VE") /\ Save(gid, changed, anchor)
  \/ Tick
  \/ RemoveOldHistory

Spec == Init /\ [][Next]_vars

-----------------------------------------------------------------------------
(* Times at which a query may be asked.                                    *)
Times == FirstTime..(IF RealTime THEN wall ELSE clock)

Saved == {v \in superseded : v.start < v.commit}

(* The saved versions that retention has not removed.                      *)
Stored ==
  {v \in Saved : \E d \in deltas :
     d.gid = v.gid /\ d.start = v.start /\ d.commit = v.commit}

Overlay(content, data) ==
  [f \in Field |-> IF f \in DOMAIN data THEN data[f] ELSE content[f]]

(* The searches of GetEdgeInfo (without an anchor) and GetDeleteEdgeInfo   *)
(* start at the digits of the gid without the colon: a record of an object *)
(* whose gid has more digits after those sorts first and ends them.        *)
Shadowed(gid, c_te) ==
  /\ kind # "V" /\ NearestAnchor(gid, c_te) = {}
  /\ \E d \in deltas : d.gid # gid /\ IsPrefix(Digits[gid], Digits[d.gid])

(* AS OF c finds the one version that was current at c, if it is in the    *)
(* store: a vertex always, whatever the other vertices are called; an edge *)
(* or a deleted edge unless its search is shadowed.                        *)
AsOfFindsVersion ==
  \A gid \in Gid, c \in Times : ~Shadowed(gid, c) =>
    LET found == GetInfo(gid, c, c, "as of")
        asOf == {v \in Stored : v.gid = gid /\ v.start <= c /\ c < v.commit}
    IN  /\ Len(found) = Cardinality(asOf)
        /\ \A v \in asOf : found[1].start = v.start /\ found[1].commit = v.commit

(* FROM c TO d finds every stored version that overlaps the interval, each *)
(* once and the newest first, unless the search is shadowed.               *)
RangeFindsVersions ==
  \A gid \in Gid, c, d \in Times : c < d /\ ~Shadowed(gid, d) =>
    LET found == GetInfo(gid, c, d, "from to")
        overlap == {v \in Stored : v.gid = gid /\ v.start < d /\ c < v.commit}
    IN  /\ {[start |-> found[i].start, commit |-> found[i].commit] : i \in DOMAIN found}
             = {[start |-> v.start, commit |-> v.commit] : v \in overlap}
        /\ \A i \in 1..(Len(found) - 1) : found[i + 1].commit <= found[i].start

(* Two commits changed the object within one tick of the clock: the undo   *)
(* record of the second has no duration, and is not saved.                 *)
Tied(gid) == \E v \in superseded \ Saved : v.gid = gid

(* AS OF c, read on top of the nearest anchor, is the content at c, unless *)
(* two commits of the object had the same time.                            *)
AnchoredContent ==
  \A gid \in Gid, c \in Times : NearestAnchor(gid, c) # {} /\ ~Tied(gid) =>
    \A v \in Stored :
      v.gid = gid /\ v.start <= c /\ c < v.commit =>
        GetInfo(gid, c, c, "as of")[1].data = v.content

(* What GetEdgeInfo finds AS OF c, read over the current content of the    *)
(* edge, is the content at c: the combined record has every field that     *)
(* changed since, unless two commits of the edge had the same time or the  *)
(* search is shadowed.                                                     *)
EdgeContent ==
  kind = "E" => \A gid \in Gid, c \in Times : ~Tied(gid) /\ ~Shadowed(gid, c) =>
    \A v \in Stored :
      v.gid = gid /\ v.start <= c /\ c < v.commit =>
        Overlay(current[gid].content, GetInfo(gid, c, c, "as of")[1].data) = v.content
=============================================================================

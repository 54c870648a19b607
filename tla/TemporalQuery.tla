--------------------------- MODULE TemporalQuery ---------------------------
(***************************************************************************)
(* A temporal scan (addHistoryVertex of query/plan/operator.cpp, with      *)
(* getDeadInfo2 and GetVertexInfo of storage/v2/history_delta.cpp) on top  *)
(* of the transaction engine of module Mvcc, whose writers, post-commit    *)
(* loops and garbage collector run between any two of its steps.           *)
(*                                                                         *)
(* The scan takes no lock.  It reads the transaction time of the vertex,   *)
(* the head of its chain and the commit time of that delta, then the head  *)
(* once more, the properties, delta after delta of the chain, and last the *)
(* anchors and the records of the historical store (module HistoryStore).  *)
(* Each of these reads is a step.                                          *)
(***************************************************************************)
EXTENDS Mvcc

CONSTANT ScanTimes   \* bound: the times that scans ask for

ASSUME TemporalQueryAssumption == ScanTimes \subseteq Nat

VARIABLE scan    \* the scan in progress: its arguments, locals and result

allVars == <<vars, scan>>

(* tt_te() of a vertex, and commit_timestamp of a delta that has none: the *)
(* largest value of the type.                                              *)
MaxTime == MaxTs + 2

NoScan ==
  [step |-> "idle", tx |-> Nil, vertex |-> Nil, from |-> 0, to |-> 0, current |-> NoValue,
   st |-> 0, delta |-> Nil, val |-> NoValue, anchor |-> {}, result |-> <<>>,
   calm |-> TRUE]

QueryType == IF scan.from = scan.to THEN "as of" ELSE "from to"

-----------------------------------------------------------------------------
(* The records and anchors of a vertex in the terms of module HistoryStore. *)
(* Its one field is the property; records of other gids do not matter here. *)
TheGid == 1

Fields(vals) == [f \in {"val"} \cap {"val" : x \in vals} |-> CHOOSE x \in vals : TRUE]

DeltaRecords(v) ==
  {[gid |-> TheGid, start |-> r.st, commit |-> r.ct, data |-> Fields(r.props)] :
     r \in {h \in history : h.kind = "VD" /\ h.vertex = v}}

AnchorRecords(v) ==
  {[gid |-> TheGid, start |-> a.ts, content |-> Fields({a.val})] :
     a \in {h \in history : h.kind = "VA" /\ h.vertex = v}}

HS(v) == INSTANCE HistoryStore WITH
  Kinds <- {"V"}, Gids <- [k \in {"V"} |-> {TheGid}], Field <- {"val"}, W <- MaxTs + 2,
  MaxClock <- MaxTs, RealTime <- FALSE, Epoch <- 0, MaxTicks <- 0, Period <- 0,
  kind <- "V", clock <- timestamp, wall <- 0, current <- <<>>, superseded <- {},
  deltas <- DeltaRecords(v), anchors <- AnchorRecords(v)

Matches(st, te) == HS(scan.vertex)!TemporalCheck(st, te, scan.from, scan.to, QueryType)

-----------------------------------------------------------------------------
(* Reference: the moments at which a scan may miss a version or misdate it. *)

Writes(u, v) == \E k \in DOMAIN deltas[u] : deltas[u][k].vertex = v
Committed(u) == stamp[u] < TransactionInitialId

(* A commit that transaction t sees is visible but not yet stamped, or has *)
(* left the vertex with the time of an older one.                          *)
Unstamped(t, v) ==
  \/ \E u \in Tx : /\ phase[u] \in {"stored", "stamping", "headStamped"}
                   /\ stamp[u] < start[t] /\ Writes(u, v)
  \/ \E i \in DOMAIN versions[v] : versions[v][i].ts < start[t] /\ vertex[v].st < versions[v][i].ts

(* A writer of v is about to undo its deltas.                              *)
Undoing(v) ==
  \E u \in Tx : phase[u] = "undoing" /\ cursor[u] <= Len(deltas[u]) /\ Writes(u, v)

(* The collector has taken a commit of v before an older one, which        *)
(* FinalizeTransaction has marked finished and not yet appended.           *)
Overtaken(v) ==
  \E t, u \in Tx : /\ Committed(t) /\ Committed(u) /\ Writes(t, v) /\ Writes(u, v)
                   /\ stamp[t] < stamp[u]
                   /\ u \in freedTx \cup {gc.tx} /\ t \notin freedTx \cup {gc.tx}

(* The cursor has got a vertex from the iterator, which yields those that  *)
(* the transaction sees (the reads of module Mvcc, property SnapshotReads). *)
(* FOR TT AS OF from = to, or FROM from TO to, up to the present.  Bound:  *)
(* the transaction of the scan has written nothing.                        *)
ScanBegin(t, v, from, to) ==
  /\ scan.step = "idle"
  /\ phase[t] = "active" /\ read[t] = NoRead /\ deltas[t] = <<>>
  /\ from <= to /\ to <= start[t]
  /\ v \in vertices
  /\ \E seen \in Visible(Expected(t, v, "OLD")) :
       scan' = [NoScan EXCEPT !.step = "time", !.tx = t, !.vertex = v, !.from = from, !.to = to,
                              !.current = seen.val, !.calm = ~Unstamped(t, v)]
  /\ UNCHANGED vars

ScanTime ==
  /\ scan.step = "time"
  /\ scan' = [scan EXCEPT !.step = "head", !.st = vertex[scan.vertex].st]
  /\ UNCHANGED vars

ScanHead ==
  /\ scan.step = "head"
  /\ scan' = [scan EXCEPT !.step = "vertex", !.delta = vertex[scan.vertex].delta]
  /\ UNCHANGED vars

Yield(from, st, te, val) == Append(scan.result, [from |-> from, st |-> st, te |-> te, val |-> val])

(* The vertex itself, unless its newest delta has no commit time.  It is   *)
(* read through its accessor, with the content of the snapshot.            *)
ScanVertex ==
  /\ scan.step = "vertex"
  /\ LET uncommitted == scan.delta # Nil /\ Delta(scan.delta).ct = 0
     IN  scan' = IF ~uncommitted /\ Matches(scan.st, MaxTime)
           THEN [scan EXCEPT !.step = IF QueryType = "as of" THEN "done" ELSE "chain",
                             !.delta = Nil,
                             !.result = Yield("vertex", scan.st, MaxTime, scan.current)]
           ELSE [scan EXCEPT !.step = "chain", !.delta = Nil]
  /\ UNCHANGED vars


(* getDeadInfo2.                                                           *)
ScanChain ==
  /\ scan.step = "chain"
  /\ LET head == vertex[scan.vertex].delta
     IN  scan' = [scan EXCEPT !.step = IF head = Nil THEN "anchor" ELSE "properties",
                              !.delta = head]
  /\ UNCHANGED vars

ScanProperties ==
  /\ scan.step = "properties"
  /\ scan' = [scan EXCEPT !.step = "delta", !.val = vertex[scan.vertex].val]
  /\ UNCHANGED vars


(* One delta: its action is undone, and its start read.                    *)
ScanDelta ==
  /\ scan.step = "delta"
  /\ LET d == Delta(scan.delta)
     IN  scan' = [scan EXCEPT !.step = "commit", !.st = d.st,
                              !.val = IF d.action = "SET_PROPERTY" THEN d.pre.val ELSE @]
  /\ UNCHANGED vars

(* Its commit time is read, and the version taken if the time matches.     *)
ScanCommit ==
  /\ scan.step = "commit"
  /\ LET te == IF Delta(scan.delta).ct # 0 THEN Delta(scan.delta).ct ELSE MaxTime
     IN  scan' = IF Matches(scan.st, te)
           THEN [scan EXCEPT !.result = Yield("chain", scan.st, te, scan.val),
                             !.step = IF QueryType = "as of" THEN "anchor" ELSE "next"]
           ELSE [scan EXCEPT !.step = "next"]
  /\ UNCHANGED vars

ScanNext ==
  /\ scan.step = "next"
  /\ LET next == Delta(scan.delta).next
     IN  scan' = [scan EXCEPT !.step = IF next = Nil THEN "anchor" ELSE "delta",
                              !.delta = next]
  /\ UNCHANGED vars

(* GetVertexInfo, which opens an iterator on the anchors and then one on   *)
(* the records.                                                            *)
ScanAnchor ==
  /\ scan.step = "anchor"
  /\ scan' = [scan EXCEPT !.step = "store", !.delta = Nil, !.st = 0, !.val = NoValue,
                          !.anchor = HS(scan.vertex)!NearestAnchor(TheGid, scan.to)]
  /\ UNCHANGED vars

(* Every record becomes the property delete_info of a copy of the last     *)
(* version that the chain gave or, if it gave none, of the vertex          *)
(* (CreateHistoryVertexFromKV): read here over the property of the copy.   *)
ScanStore ==
  /\ scan.step = "store"
  /\ LET v == scan.vertex
         found == HS(v)!VertexInfoFrom(scan.anchor, TheGid, scan.from, scan.to, QueryType)
         dead == {k \in DOMAIN scan.result : scan.result[k].from = "chain"}
         copied == IF dead = {} THEN vertex[v].val
                   ELSE scan.result[CHOOSE k \in dead : \A j \in dead : j <= k].val
     IN  scan' = [scan EXCEPT !.step = "done",
           !.result = @ \o [i \in DOMAIN found |->
             [from |-> "store", st |-> found[i].start, te |-> found[i].commit,
              val |-> HS(v)!Overlay([f \in {"val"} |-> copied], found[i].data)["val"]]]]
  /\ UNCHANGED vars

ScanEnd ==
  /\ scan.step = "done"
  /\ scan' = NoScan
  /\ UNCHANGED vars

-----------------------------------------------------------------------------
TemporalInit == Init /\ scan = NoScan

(* What the other threads do.  (`calm' is for reference.)                  *)
Others ==
  /\ \/ \E u \in Tx \ {scan.tx} : Begin(u) \/ Operation(u) \/ End(u) \/ Continue(u)
     \/ CollectGarbage
  /\ scan' = IF scan.step = "idle" THEN scan
             ELSE [scan EXCEPT !.calm = @ /\ ~Undoing(scan.vertex) /\ ~Overtaken(scan.vertex)]

TemporalNext ==
  \/ Others
  \/ \E t \in Tx, v \in Vertex, from, to \in ScanTimes : ScanBegin(t, v, from, to)
  \/ ScanTime \/ ScanHead \/ ScanVertex
  \/ ScanChain \/ ScanProperties \/ ScanDelta \/ ScanCommit \/ ScanNext
  \/ ScanAnchor \/ ScanStore \/ ScanEnd

TemporalSpec == TemporalInit /\ [][TemporalNext]_allVars

-----------------------------------------------------------------------------
VersionEnd(v, i) == IF i < Len(versions[v]) THEN versions[v][i + 1].ts ELSE MaxTime

(* The versions of the scan's snapshot that its interval selects.          *)
Selected ==
  LET v == scan.vertex
  IN  {i \in DOMAIN versions[v] : /\ versions[v][i].ts < start[scan.tx]
                                  /\ Matches(versions[v][i].ts, VersionEnd(v, i))}

(* The version that the delta of transaction t supersedes.                 *)
SupersededBy(t, v) ==
  LET own == {i \in DOMAIN versions[v] : versions[v][i].ts = stamp[t]}
  IN  IF own = {} THEN Len(versions[v]) ELSE (CHOOSE i \in own : TRUE) - 1

(* A writer came between a commit and its post-commit loop, and recorded a *)
(* wrong start for the version that it superseded (run mvcc_stamp_race).   *)
WrongStart(v) ==
  \E t \in Tx :
    /\ Committed(t) \/ (vertex[v].delta # Nil /\ vertex[v].delta[1] = t)
    /\ \E k \in DOMAIN deltas[t] : /\ deltas[t][k].vertex = v
                                   /\ deltas[t][k].st # versions[v][SupersededBy(t, v)].ts

(* The scan is over; the commits of its snapshot had been stamped when it  *)
(* began, no writer of the vertex was rolled back under it, none recorded  *)
(* a wrong start, and the collector kept to the order of the commits.      *)
CalmScan ==
  /\ scan.step = "done" /\ scan.calm
  /\ ~WrongStart(scan.vertex) /\ ~Overtaken(scan.vertex)



(* The lock-free walks of the scan are never at a delta whose undo buffer  *)
(* the collector has freed.                                                *)
ScanDeltaKept == scan.delta # Nil => scan.delta[1] \notin freedDeltas

(* AS OF yields the content of a committed version, under the start of     *)
(* that version.                                                           *)
AsOfIsVersion ==
  scan.step = "done" /\ QueryType = "as of" =>
    \A k \in DOMAIN scan.result :
      \E i \in DOMAIN versions[scan.vertex] :
        /\ versions[scan.vertex][i].ts = scan.result[k].st
        /\ versions[scan.vertex][i].content.val = scan.result[k].val
=============================================================================

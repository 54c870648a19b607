-------------------------------- MODULE Mvcc --------------------------------
(***************************************************************************)
(* The transaction engine of storage/v2: vertices with chains of undo      *)
(* deltas (mvcc.hpp, vertex_accessor.cpp), Commit, Abort and               *)
(* FinalizeTransaction, the garbage collector that unlinks the chains and  *)
(* migrates them to the historical store, and the transaction time that    *)
(* the post-commit loop stamps on deltas and vertices (storage.cpp).       *)
(*                                                                         *)
(* A vertex is one property and one label.  A delta is named by its        *)
(* transaction and its position in Transaction::deltas.  A step is what a  *)
(* thread does under one lock, or one lock-free access that others race    *)
(* with.  Transaction ids are larger than every timestamp, and only tell   *)
(* own deltas from foreign ones: the atomic `commit_timestamp' of a        *)
(* transaction holds TransactionInitialId until the commit, and            *)
(* `== transaction_id' is "made by this transaction".                      *)
(***************************************************************************)
EXTENDS Integers, Sequences, FiniteSets, FiniteSetsExt

CONSTANTS
  Tx,                \* transactions, each run once
  Vertex,            \* gids
  Recovered,         \* the gids in the snapshot that was loaded at startup
  Value,             \* property values a client sets
  NoValue,           \* a null PropertyValue: the property is not set
  Nil,               \* a null pointer
  Ops,               \* what the clients of this instance do
  Sessions,          \* bound: transactions alive at the same time
  MaxDeltas,         \* bound: deltas of one transaction
  MaxTs,             \* bound: the largest timestamp handed out
  AnchorNum,         \* config_.AnchorNum
  Isolations,        \* the isolation levels that clients ask for
  Role,              \* replication_role_: "MAIN" or "REPLICA"
  Uninitialized,     \* what Delta::commit_timestamp may hold before it is set
  FreedStamps        \* what a destroyed atomic may read as, besides its last value

ASSUME MvccAssumption ==
  /\ Sessions \in Nat \ {0} /\ MaxDeltas \in Nat \ {0} /\ MaxTs \in Nat
  /\ AnchorNum \in Nat
  /\ Isolations \subseteq {"SNAPSHOT_ISOLATION", "READ_COMMITTED", "READ_UNCOMMITTED"}
  /\ Role \in {"MAIN", "REPLICA"}
  /\ Uninitialized \subseteq Nat /\ FreedStamps \subseteq Nat
  /\ NoValue \notin Value
  /\ Recovered \subseteq Vertex

VARIABLES
  timestamp,     \* Storage::timestamp_
  finished,      \* the ids MarkFinished was called with (module CommitLogAbs)
  vertices,      \* the gids in the skip list vertices_
  vertex,        \* the vertex objects
  phase,         \* where a transaction is in its life
  start,         \* Transaction::start_timestamp
  isolation,     \* Transaction::isolation_level
  stamp,         \* *Transaction::commit_timestamp, the atomic
  commitTs,      \* Accessor::commit_timestamp_, 0 when it is empty
  command,       \* Transaction::command_id
  mustAbort,     \* Transaction::must_abort
  vChanged,      \* Transaction::v_changed
  anchors,       \* Transaction::gid_anchor_vertex_
  deltas,        \* Transaction::deltas, wherever the list has been moved to
  cursor,        \* the loop over deltas of Commit and Abort
  read,          \* the read of a vertex in progress
  committed,     \* committed_transactions_
  undoBuffers,   \* garbage_undo_buffers_: <<mark timestamp, transaction>>
  deletedList,   \* deleted_vertices_
  garbage,       \* garbage_vertices_: <<mark timestamp, gid>>
  gc,            \* the locals of CollectGarbage
  freedTx,       \* transactions that were destroyed, with their atomic
  freedDeltas,   \* transactions whose undo buffer was freed
  history,       \* the historical store: records and anchors
  versions       \* reference: the committed versions of each vertex

engineVars == <<timestamp, finished>>
vertexVars == <<vertices, vertex>>
beginVars == <<start, isolation>>
txVars == <<phase, beginVars, stamp, commitTs, command, mustAbort, vChanged, anchors, cursor>>
gcVars == <<committed, undoBuffers, deletedList, garbage, gc, freedTx, freedDeltas, history>>
vars == <<engineVars, vertexVars, txVars, deltas, read, gcVars, versions>>

TransactionInitialId == MaxTs + 1

Delta(d) == deltas[d[1]][d[2]]

(* The first id that is not finished, as commit_log_->OldestActive().      *)
OldestActive == Min({i \in 0..(MaxTs + 1) : i \notin finished})

Alive(t) == phase[t] \notin {"idle", "listed", "gone"}

(* What a load of the atomic of transaction u may return.                  *)
LoadStamp(u) == {stamp[u]} \cup IF u \in freedTx THEN FreedStamps ELSE {}

Content(v) == [val |-> vertex[v].val, label |-> vertex[v].label,
               deleted |-> vertex[v].deleted]

NoRead == [vertex |-> Nil]
GcIdle == [step |-> "idle", force |-> FALSE, oldest |-> 0, tx |-> Nil, next |-> 0,
           unlinked |-> <<>>, deleted |-> <<>>]
NewVertex == [val |-> NoValue, label |-> FALSE, deleted |-> FALSE,
              num |-> 0, st |-> 0, delta |-> Nil]

-----------------------------------------------------------------------------
(* Recovered vertices were committed at time 1 and have no deltas; the     *)
(* clock continues after them, and the commit log starts at the clock.     *)
RecoveredTs == 1
FirstTs == IF Recovered = {} THEN 0 ELSE RecoveredTs + 1

Init ==
  /\ timestamp = FirstTs /\ finished = 0..(FirstTs - 1)
  /\ vertices = Recovered
  /\ vertex = [v \in Vertex |-> IF v \in Recovered THEN [NewVertex EXCEPT !.st = RecoveredTs]
                                ELSE NewVertex]
  /\ phase = [t \in Tx |-> "idle"]
  /\ start = [t \in Tx |-> 0] /\ isolation = [t \in Tx |-> "SNAPSHOT_ISOLATION"]
  /\ stamp = [t \in Tx |-> TransactionInitialId]
  /\ commitTs = [t \in Tx |-> 0]
  /\ command = [t \in Tx |-> 0]
  /\ mustAbort = [t \in Tx |-> FALSE]
  /\ vChanged = [t \in Tx |-> {}] /\ anchors = [t \in Tx |-> {}]
  /\ deltas = [t \in Tx |-> <<>>]
  /\ cursor = [t \in Tx |-> 0]
  /\ read = [t \in Tx |-> NoRead]
  /\ committed = <<>> /\ undoBuffers = <<>>
  /\ deletedList = <<>> /\ garbage = <<>>
  /\ gc = GcIdle
  /\ freedTx = {} /\ freedDeltas = {}
  /\ history = {}
  /\ versions = [v \in Vertex |-> IF v \in Recovered
       THEN << [ts |-> RecoveredTs, start |-> 0, content |-> Content(v)] >> ELSE <<>>]

(* CreateTransaction: a replica does not advance the clock.  The forced    *)
(* garbage collector holds the main lock exclusively.                      *)
Begin(t) ==
  /\ phase[t] = "idle"
  /\ Cardinality({u \in Tx : Alive(u)}) < Sessions
  /\ ~gc.force
  /\ timestamp <= MaxTs
  /\ phase' = [phase EXCEPT ![t] = "active"]
  /\ start' = [start EXCEPT ![t] = timestamp]
  /\ \E level \in Isolations : isolation' = [isolation EXCEPT ![t] = level]
  /\ timestamp' = IF Role = "REPLICA" THEN timestamp ELSE timestamp + 1
  /\ UNCHANGED <<finished, vertexVars, stamp, commitTs, command, mustAbort, vChanged,
                 anchors, cursor, deltas, read, gcVars, versions>>

AdvanceCommand(t) ==
  /\ "command" \in Ops
  /\ phase[t] = "active" /\ read[t] = NoRead
  /\ deltas[t] # <<>> /\ command[t] = 0
  /\ command' = [command EXCEPT ![t] = @ + 1]
  /\ UNCHANGED <<engineVars, vertexVars, phase, beginVars, stamp, commitTs, mustAbort,
                 vChanged, anchors, cursor, deltas, read, gcVars, versions>>

-----------------------------------------------------------------------------
(* Operations on vertices.  Every one holds the lock of its vertex.        *)

(* Mutant: any committed head is fine, even one newer than the snapshot.   *)
PrepareForWriteAnyCommitted(t, v) ==
  LET head == vertex[v].delta
  IN  head # Nil => head[1] = t \/ stamp[head[1]] < TransactionInitialId

(* PrepareForWrite: first-updater-wins on the head of the chain.           *)
PrepareForWrite(t, v) ==
  LET head == vertex[v].delta
  IN  head # Nil => head[1] = t \/ stamp[head[1]] < start[t]

(* A replica is written only by the thread that applies the main's log.    *)
MayWrite(t) ==
  /\ phase[t] = "active" /\ ~mustAbort[t] /\ read[t] = NoRead
  /\ Len(deltas[t]) < MaxDeltas
  /\ Role = "REPLICA" => \A u \in Tx \ {t} : Alive(u) => deltas[u] = <<>>

CanWrite(t, v) ==
  /\ MayWrite(t)
  /\ v \in vertices /\ PrepareForWrite(t, v)
  /\ ~vertex[v].deleted

(* The version that a write supersedes is the newest one of a committed    *)
(* transaction, not one that this transaction made itself.                 *)
OnCommitted(t, v) == vertex[v].delta # Nil /\ vertex[v].delta[1] # t

(* `ts', the start of the version that a write supersedes: it becomes      *)
(* Delta::transaction_st.  With an anchor it is the commit_timestamp that  *)
(* the post-commit loop has stamped on the head, or not yet.               *)
VersionStart(t, v, anchor) ==
  LET head == vertex[v].delta
  IN  IF head = Nil THEN vertex[v].st
      ELSE IF head[1] = t THEN Delta(head).st
      ELSE IF anchor THEN Delta(head).ct ELSE stamp[head[1]]

(* Mutant: the anchor is filed under the writer's start timestamp.         *)
AddAnchorAtStart(t, v, anchor) ==
  anchors' = IF anchor
    THEN [anchors EXCEPT ![t] = @ \cup {[vertex |-> v, ts |-> start[t],
                                         val |-> vertex[v].val, label |-> vertex[v].label]}]
    ELSE anchors

AddAnchor(t, v, anchor) ==
  anchors' = IF anchor
    THEN [anchors EXCEPT ![t] = {a \in @ : a.vertex # v \/ a.ts # VersionStart(t, v, TRUE)}
           \cup {[vertex |-> v, ts |-> VersionStart(t, v, TRUE),
                  val |-> vertex[v].val, label |-> vertex[v].label]}]
    ELSE anchors

(* CreateAndLinkDelta, and the change of the vertex to `new'.              *)
CreateAndLinkDelta(t, v, action, st, new) ==
  LET head == vertex[v].delta
      d == <<t, Len(deltas[t]) + 1>>
      delta == [vertex |-> v, action |-> action, pre |-> Content(v),
                command |-> command[t], next |-> head, prev |-> v, st |-> st, ct |-> 0]
      appended == [deltas EXCEPT ![t] = Append(@, delta)]
  IN  /\ deltas' = IF head = Nil THEN appended
                   ELSE [appended EXCEPT ![head[1]][head[2]].prev = d]
      /\ vertex' = [vertex EXCEPT ![v] = [new EXCEPT !.delta = d]]

WriteUnchanged == UNCHANGED <<engineVars, vertices, phase, beginVars, stamp, commitTs,
                              command, cursor, read, gcVars, versions>>

(* Another transaction wrote the vertex: SERIALIZATION_ERROR.              *)
WriteConflict(t, v) ==
  /\ MayWrite(t)
  /\ v \in vertices /\ ~PrepareForWrite(t, v)
  /\ mustAbort' = [mustAbort EXCEPT ![t] = TRUE]
  /\ UNCHANGED <<vertex, vChanged, anchors, deltas>>
  /\ WriteUnchanged

(* A new gid, in the skip list with its DELETE_OBJECT delta.               *)
CreateVertex(t, v) ==
  /\ "create" \in Ops /\ MayWrite(t)
  /\ vertex[v] = NewVertex /\ v \notin vertices
  /\ vertices' = vertices \cup {v}
  /\ vertex' = [vertex EXCEPT ![v].delta = <<t, Len(deltas[t]) + 1>>]
  /\ \E g \in Uninitialized :
       deltas' = [deltas EXCEPT ![t] = Append(@,
         [vertex |-> v, action |-> "DELETE_OBJECT", pre |-> Content(v),
          command |-> command[t], next |-> Nil, prev |-> v, st |-> 0, ct |-> g])]
  /\ UNCHANGED <<engineVars, txVars, read, gcVars, versions>>

(* SetProperty stamps the delta with the vertex's transaction_st.          *)
SetProperty(t, v, x) ==
  /\ "set" \in Ops /\ CanWrite(t, v)
  /\ LET anchor == OnCommitted(t, v) /\ vertex[v].num > AnchorNum
     IN  /\ AddAnchor(t, v, anchor)
         /\ CreateAndLinkDelta(t, v, "SET_PROPERTY", vertex[v].st,
              [vertex[v] EXCEPT !.val = x,
                                !.num = IF anchor THEN 2 ELSE @ + 1])
  /\ vChanged' = [vChanged EXCEPT ![t] = @ \cup {v}]
  /\ UNCHANGED mustAbort /\ WriteUnchanged

(* AddLabel, RemoveLabel and ClearProperties count the superseded version  *)
(* before they look whether there is anything to change.                   *)
AnchorIsDue(t, v) == OnCommitted(t, v) /\ vertex[v].num + 1 > AnchorNum

CountVersion(t, v, action, st, new) ==
  LET num == IF AnchorIsDue(t, v) THEN 1
             ELSE IF OnCommitted(t, v) THEN vertex[v].num + 1 ELSE vertex[v].num
  IN  /\ AddAnchor(t, v, AnchorIsDue(t, v))
      /\ IF new # vertex[v]
           THEN CreateAndLinkDelta(t, v, action, st, [new EXCEPT !.num = num])
           ELSE vertex' = [vertex EXCEPT ![v].num = num] /\ UNCHANGED deltas

AddLabel(t, v) ==
  /\ "label" \in Ops /\ CanWrite(t, v)
  /\ CountVersion(t, v, "REMOVE_LABEL", VersionStart(t, v, AnchorIsDue(t, v)),
                  [vertex[v] EXCEPT !.label = TRUE])
  /\ vChanged' = IF vertex[v].label THEN vChanged
                 ELSE [vChanged EXCEPT ![t] = @ \cup {v}]
  /\ UNCHANGED mustAbort /\ WriteUnchanged

RemoveLabel(t, v) ==
  /\ "label" \in Ops /\ CanWrite(t, v)
  /\ LET ts == VersionStart(t, v, AnchorIsDue(t, v))
     IN  CountVersion(t, v, "ADD_LABEL", IF ts # 0 THEN ts ELSE vertex[v].st,
                      [vertex[v] EXCEPT !.label = FALSE])
  /\ vChanged' = IF vertex[v].label THEN [vChanged EXCEPT ![t] = @ \cup {v}]
                 ELSE vChanged
  /\ UNCHANGED mustAbort /\ WriteUnchanged

ClearProperties(t, v) ==
  /\ "clear" \in Ops /\ CanWrite(t, v)
  /\ CountVersion(t, v, "SET_PROPERTY", VersionStart(t, v, AnchorIsDue(t, v)),
                  [vertex[v] EXCEPT !.val = NoValue])
  /\ vChanged' = [vChanged EXCEPT ![t] = @ \cup {v}]
  /\ UNCHANGED mustAbort /\ WriteUnchanged

(* DeleteVertex of a vertex without edges; its content is kept in add_info. *)
DeleteVertex(t, v) ==
  /\ "delete" \in Ops /\ CanWrite(t, v)
  /\ CreateAndLinkDelta(t, v, "RECREATE_OBJECT", VersionStart(t, v, FALSE),
                        [vertex[v] EXCEPT !.deleted = TRUE])
  /\ UNCHANGED <<mustAbort, vChanged, anchors>> /\ WriteUnchanged

-----------------------------------------------------------------------------
(* ApplyDeltasForRead.  A read copies the vertex and its delta pointer     *)
(* under the lock, and then walks the chain without any lock.  (`since' is *)
(* for reference: the number of committed versions when the read began.)   *)
ReadBegin(t, v, view) ==
  /\ view \in Ops
  /\ phase[t] = "active" /\ read[t] = NoRead
  /\ v \in vertices
  /\ read' = [read EXCEPT ![t] =
       [vertex |-> v, view |-> view, delta |-> vertex[v].delta, exists |-> TRUE,
        content |-> Content(v), since |-> Len(versions[v])]]
  /\ UNCHANGED <<engineVars, vertexVars, txVars, deltas, gcVars, versions>>

(* Mutants: SNAPSHOT_ISOLATION stops at any committed delta;               *)
(* READ_COMMITTED stops at every delta; View::OLD sees the current command. *)
StopsAtCommitted(t, ts, own, cid, view) ==
  ts < TransactionInitialId \/ (own /\ cid <= command[t])

StopsAtAny(t, ts, own, cid, view) == TRUE

StopsAtOwn(t, ts, own, cid, view) == ts < start[t] \/ own

StopsAt(t, ts, own, cid, view) ==
  \/ isolation[t] = "SNAPSHOT_ISOLATION" /\ ts < start[t]
  \/ isolation[t] = "READ_COMMITTED" /\ ts < TransactionInitialId
  \/ isolation[t] = "READ_UNCOMMITTED"
  \/ view = "NEW" /\ own /\ cid <= command[t]
  \/ view = "OLD" /\ own /\ cid < command[t]

Undo(content, delta) ==
  CASE delta.action = "SET_PROPERTY" -> [content EXCEPT !.val = delta.pre.val]
    [] delta.action = "ADD_LABEL" -> [content EXCEPT !.label = TRUE]
    [] delta.action = "REMOVE_LABEL" -> [content EXCEPT !.label = FALSE]
    [] delta.action = "RECREATE_OBJECT" -> [content EXCEPT !.deleted = FALSE]
    [] delta.action = "DELETE_OBJECT" -> content

ReadStep(t) ==
  /\ read[t] # NoRead /\ read[t].delta # Nil
  /\ LET d == read[t].delta
         own == d[1] = t
     IN  \E ts \in LoadStamp(d[1]) :
           read' = [read EXCEPT ![t] =
             IF StopsAt(t, ts, own, Delta(d).command, @.view)
               THEN [@ EXCEPT !.delta = Nil]
               ELSE [@ EXCEPT !.content = Undo(@, Delta(d)),
                              !.exists = @ /\ Delta(d).action # "DELETE_OBJECT",
                              !.delta = Delta(d).next]]
  /\ UNCHANGED <<engineVars, vertexVars, txVars, deltas, gcVars, versions>>

ReadEnd(t) ==
  /\ read[t] # NoRead /\ read[t].delta = Nil
  /\ read' = [read EXCEPT ![t] = NoRead]
  /\ UNCHANGED <<engineVars, vertexVars, txVars, deltas, gcVars, versions>>

-----------------------------------------------------------------------------
(* Commit, in the steps between which it holds no lock.                    *)
MovesTo(t, to) == phase' = [phase EXCEPT ![t] = to]

(* No deltas: only the start timestamp is marked.                          *)
CommitReadOnly(t) ==
  /\ phase[t] = "active" /\ ~mustAbort[t] /\ read[t] = NoRead
  /\ deltas[t] = <<>>
  /\ finished' = finished \cup {start[t]}
  /\ MovesTo(t, "inactive")
  /\ UNCHANGED <<timestamp, vertexVars, beginVars, stamp, commitTs, command, mustAbort,
                 vChanged, anchors, cursor, deltas, read, gcVars, versions>>

(* CommitTimestamp: a replica takes the one that the main sends, which may  *)
(* be its own next timestamp or a later one.                               *)
CommitTimestamps ==
  IF Role = "REPLICA" THEN timestamp..MaxTs ELSE {timestamp} \cap 0..MaxTs

CanCommit(t) ==
  /\ phase[t] = "active" /\ ~mustAbort[t] /\ read[t] = NoRead
  /\ deltas[t] # <<>>

(* Mutant: the atomic is not stored.                                       *)
CommitStoreNoStore(t) ==
  /\ CanCommit(t)
  /\ \E ts \in CommitTimestamps :
       /\ commitTs' = [commitTs EXCEPT ![t] = ts]
       /\ timestamp' = ts + 1
  /\ MovesTo(t, "stored")
  /\ UNCHANGED <<finished, vertexVars, beginVars, stamp, command, mustAbort, vChanged, anchors,
                 cursor, deltas, read, gcVars, versions>>

(* Under engine_lock_: the commit timestamp is taken and published.        *)
CommitStore(t) ==
  /\ CanCommit(t)
  /\ \E ts \in CommitTimestamps :
       /\ commitTs' = [commitTs EXCEPT ![t] = ts]
       /\ timestamp' = ts + 1
       /\ stamp' = [stamp EXCEPT ![t] = ts]
       /\ versions' = [v \in Vertex |->
            IF \E k \in DOMAIN deltas[t] : deltas[t][k].vertex = v
              THEN Append(versions[v], [ts |-> ts, start |-> start[t], content |-> Content(v)])
              ELSE versions[v]]
  /\ MovesTo(t, "stored")
  /\ UNCHANGED <<finished, vertexVars, beginVars, command, mustAbort, vChanged, anchors,
                 cursor, deltas, read, gcVars>>

(* A unique constraint is violated: found after the commit timestamp has   *)
(* been taken; the transaction is aborted.                                 *)
CommitUniqueViolation(t) ==
  /\ "unique" \in Ops /\ CanCommit(t)
  /\ \E ts \in CommitTimestamps :
       /\ commitTs' = [commitTs EXCEPT ![t] = ts]
       /\ timestamp' = ts + 1
  /\ MovesTo(t, "undoing") /\ cursor' = [cursor EXCEPT ![t] = 1]
  /\ UNCHANGED <<finished, vertexVars, beginVars, stamp, command, mustAbort, vChanged,
                 anchors, deltas, read, gcVars, versions>>

CommitMarkStart(t) ==
  /\ phase[t] = "stored"
  /\ finished' = finished \cup {start[t]}
  /\ MovesTo(t, "stamping") /\ cursor' = [cursor EXCEPT ![t] = 1]
  /\ UNCHANGED <<timestamp, vertexVars, beginVars, stamp, commitTs, command, mustAbort,
                 vChanged, anchors, deltas, read, gcVars, versions>>

(* The post-commit loop, which holds no lock: the transaction time of one  *)
(* delta, and of its vertex if the delta is still the head of the chain.   *)
StampDelta(t) ==
  /\ phase[t] = "stamping" /\ cursor[t] <= Len(deltas[t])
  /\ LET k == cursor[t]
         v == deltas[t][k].vertex
     IN  /\ deltas' = [deltas EXCEPT
              ![t][k].st = IF @ = 0 THEN stamp[t] + 1 ELSE @,
              ![t][k].ct = stamp[t]]
         /\ IF deltas[t][k].prev = v /\ ~vertex[v].deleted /\ v \in vChanged[t]
              THEN MovesTo(t, "headStamped") /\ UNCHANGED cursor
              ELSE cursor' = [cursor EXCEPT ![t] = @ + 1] /\ UNCHANGED phase
  /\ UNCHANGED <<engineVars, vertexVars, beginVars, stamp, commitTs, command, mustAbort,
                 vChanged, anchors, read, gcVars, versions>>

(* Mutant: the vertex gets the start timestamp.                            *)
StampVertexStart(t) ==
  /\ phase[t] = "headStamped"
  /\ vertex' = [vertex EXCEPT ![deltas[t][cursor[t]].vertex].st = start[t]]
  /\ cursor' = [cursor EXCEPT ![t] = @ + 1]
  /\ MovesTo(t, "stamping")
  /\ UNCHANGED <<engineVars, vertices, beginVars, stamp, commitTs, command, mustAbort,
                 vChanged, anchors, deltas, read, gcVars, versions>>

StampVertex(t) ==
  /\ phase[t] = "headStamped"
  /\ vertex' = [vertex EXCEPT ![deltas[t][cursor[t]].vertex].st = commitTs[t]]
  /\ cursor' = [cursor EXCEPT ![t] = @ + 1]
  /\ MovesTo(t, "stamping")
  /\ UNCHANGED <<engineVars, vertices, beginVars, stamp, commitTs, command, mustAbort,
                 vChanged, anchors, deltas, read, gcVars, versions>>

CommitDone(t) ==
  /\ phase[t] = "stamping" /\ cursor[t] > Len(deltas[t])
  /\ MovesTo(t, "inactive")
  /\ UNCHANGED <<engineVars, vertexVars, beginVars, stamp, commitTs, command, mustAbort,
                 vChanged, anchors, cursor, deltas, read, gcVars, versions>>

(* Mutant: the start timestamp is marked again instead.                    *)
FinalizeMarkStart(t) ==
  /\ phase[t] = "inactive" /\ commitTs[t] # 0
  /\ finished' = finished \cup {start[t]}
  /\ MovesTo(t, "finalizing")
  /\ UNCHANGED <<timestamp, vertexVars, beginVars, stamp, commitTs, command, mustAbort,
                 vChanged, anchors, cursor, deltas, read, gcVars, versions>>

(* FinalizeTransaction, called by the destructor of the accessor.          *)
FinalizeMark(t) ==
  /\ phase[t] = "inactive" /\ commitTs[t] # 0
  /\ finished' = finished \cup {commitTs[t]}
  /\ MovesTo(t, "finalizing")
  /\ UNCHANGED <<timestamp, vertexVars, beginVars, stamp, commitTs, command, mustAbort,
                 vChanged, anchors, cursor, deltas, read, gcVars, versions>>

FinalizeList(t) ==
  /\ phase[t] = "finalizing"
  /\ committed' = Append(committed, t)
  /\ MovesTo(t, "listed")
  /\ UNCHANGED <<engineVars, vertexVars, beginVars, stamp, commitTs, command, mustAbort,
                 vChanged, anchors, cursor, deltas, read, undoBuffers, deletedList,
                 garbage, gc, freedTx, freedDeltas, history, versions>>

(* The accessor of a transaction that has no commit timestamp is destroyed, *)
(* and the transaction with it.                                            *)
Destroy(t) ==
  /\ phase[t] = "inactive" /\ commitTs[t] = 0
  /\ freedTx' = freedTx \cup {t}
  /\ MovesTo(t, "gone")
  /\ UNCHANGED <<engineVars, vertexVars, beginVars, stamp, commitTs, command, mustAbort,
                 vChanged, anchors, cursor, deltas, read, committed, undoBuffers,
                 deletedList, garbage, gc, freedDeltas, history, versions>>

-----------------------------------------------------------------------------
(* Abort: by the client, after an error, or by Commit when an existence    *)
(* constraint is violated.                                                 *)
Abort(t) ==
  /\ phase[t] = "active" /\ read[t] = NoRead
  /\ "abort" \in Ops \/ mustAbort[t]
  /\ MovesTo(t, "undoing") /\ cursor' = [cursor EXCEPT ![t] = 1]
  /\ UNCHANGED <<engineVars, vertexVars, beginVars, stamp, commitTs, command, mustAbort,
                 vChanged, anchors, deltas, read, gcVars, versions>>

(* Under the lock of a vertex whose head delta is own: undo the own deltas *)
(* from the head on.  What is left is the content before the oldest one; a *)
(* vertex that this transaction created becomes deleted.                   *)
UndoDelta(t) ==
  /\ phase[t] = "undoing" /\ cursor[t] <= Len(deltas[t])
  /\ LET v == deltas[t][cursor[t]].vertex
         oldest == Min({k \in DOMAIN deltas[t] : deltas[t][k].vertex = v})
         first == deltas[t][oldest]
         next == first.next
     IN  IF deltas[t][cursor[t]].prev = v
           THEN /\ vertex' = [vertex EXCEPT ![v] =
                     [@ EXCEPT !.val = first.pre.val, !.label = first.pre.label,
                               !.deleted = first.action = "DELETE_OBJECT",
                               !.delta = next]]
                /\ deltas' = IF next = Nil THEN deltas
                             ELSE [deltas EXCEPT ![next[1]][next[2]].prev = v]
           ELSE UNCHANGED <<vertex, deltas>>
  /\ cursor' = [cursor EXCEPT ![t] = @ + 1]
  /\ UNCHANGED <<engineVars, vertices, phase, beginVars, stamp, commitTs, command, mustAbort,
                 vChanged, anchors, read, gcVars, versions>>

(* The undo buffer is marked under engine_lock_ and queued, and so are the *)
(* vertices that this transaction created.                                 *)
AbortQueue(t) ==
  /\ phase[t] = "undoing" /\ cursor[t] > Len(deltas[t])
  /\ undoBuffers' = Append(undoBuffers, <<timestamp, t>>)
  /\ LET created == SelectSeq(deltas[t], LAMBDA d : d.action = "DELETE_OBJECT")
     IN  deletedList' = [i \in DOMAIN created |-> created[i].vertex] \o deletedList
  /\ MovesTo(t, "undone")
  /\ UNCHANGED <<engineVars, vertexVars, beginVars, stamp, commitTs, command, mustAbort,
                 vChanged, anchors, cursor, deltas, read, committed, garbage, gc, freedTx,
                 freedDeltas, history, versions>>

AbortMarkStart(t) ==
  /\ phase[t] = "undone"
  /\ finished' = finished \cup {start[t]}
  /\ MovesTo(t, "inactive")
  /\ UNCHANGED <<timestamp, vertexVars, beginVars, stamp, commitTs, command, mustAbort,
                 vChanged, anchors, cursor, deltas, read, gcVars, versions>>

-----------------------------------------------------------------------------
(* CollectGarbage.                                                         *)

(* Mutant: deleted_vertices_ is copied, not swapped.                       *)
GcBeginCopy(force) ==
  /\ gc.step = "idle"
  /\ force => "force" \in Ops /\ \A t \in Tx : ~Alive(t)
  /\ gc' = [GcIdle EXCEPT !.step = "take", !.force = force, !.oldest = OldestActive,
                          !.deleted = deletedList]
  /\ UNCHANGED <<engineVars, vertexVars, txVars, deltas, read, committed, undoBuffers,
                 deletedList, garbage, freedTx, freedDeltas, history, versions>>

(* Mutant: the collection goes by the current timestamp.                   *)
GcBeginTimestamp(force) ==
  /\ gc.step = "idle"
  /\ force => "force" \in Ops /\ \A t \in Tx : ~Alive(t)
  /\ gc' = [GcIdle EXCEPT !.step = "take", !.force = force, !.oldest = timestamp,
                          !.deleted = deletedList]
  /\ deletedList' = <<>>
  /\ UNCHANGED <<engineVars, vertexVars, txVars, deltas, read, committed, undoBuffers,
                 garbage, freedTx, freedDeltas, history, versions>>

(* Periodic (force = FALSE), or FreeMemory, which waits for no accessor to *)
(* be alive.  gc_lock_ keeps a second collector out.                       *)
GcBegin(force) ==
  /\ gc.step = "idle"
  /\ force => "force" \in Ops /\ \A t \in Tx : ~Alive(t)
  /\ gc' = [GcIdle EXCEPT !.step = "take", !.force = force, !.oldest = OldestActive,
                          !.deleted = deletedList]
  /\ deletedList' = <<>>
  /\ UNCHANGED <<engineVars, vertexVars, txVars, deltas, read, committed, undoBuffers,
                 garbage, freedTx, freedDeltas, history, versions>>

(* Mutant: deletions are not saved.                                        *)
SavedNoRecreate(t) ==
  {k \in DOMAIN deltas[t] : /\ deltas[t][k].st < deltas[t][k].ct
                            /\ deltas[t][k].action \notin {"DELETE_OBJECT", "RECREATE_OBJECT"}}

(* SaveDelta and SaveDeltaAll: the deltas of a transaction that have the   *)
(* same key become one record.  combineVertex keeps the property of the    *)
(* later delta, and lists the labels of the later ones first.              *)
Saved(t) == {k \in DOMAIN deltas[t] : /\ deltas[t][k].st < deltas[t][k].ct
                                      /\ deltas[t][k].action # "DELETE_OBJECT"}

SetsProperty(delta) ==
  \/ delta.action = "SET_PROPERTY"
  \/ delta.action = "RECREATE_OBJECT" /\ delta.pre.val # NoValue

SavedRecord(t, K) ==
  LET some == deltas[t][Min(K)]
      props == {k \in K : SetsProperty(deltas[t][k])}
  IN  [kind |-> "VD", vertex |-> some.vertex, st |-> some.st, ct |-> some.ct,
       props |-> IF props = {} THEN {} ELSE {deltas[t][Max(props)].pre.val},
       recreated |-> \E k \in K : deltas[t][k].action = "RECREATE_OBJECT",
       labels |-> {deltas[t][k].action : k \in K} \cap {"ADD_LABEL", "REMOVE_LABEL"}]

SameKey(t, k) ==
  {j \in Saved(t) : /\ deltas[t][j].vertex = deltas[t][k].vertex
                    /\ deltas[t][j].st = deltas[t][k].st
                    /\ deltas[t][j].ct = deltas[t][k].ct}

SavedRecords(t) == {SavedRecord(t, SameKey(t, k)) : k \in Saved(t)}

SavedAnchors(t) ==
  {[kind |-> "VA", vertex |-> a.vertex, ts |-> a.ts, val |-> a.val, label |-> a.label] :
     a \in anchors[t]}

FrontIsOld == committed # <<>> /\ stamp[Head(committed)] < gc.oldest

(* The front of committed_transactions_ is migrated to the historical store *)
(* if no active transaction can see what it superseded.                    *)
GcTake ==
  /\ gc.step = "take" /\ gc.tx = Nil
  /\ FrontIsOld
  /\ gc' = [gc EXCEPT !.tx = Head(committed), !.next = 1]
  /\ history' = history \cup SavedRecords(Head(committed)) \cup SavedAnchors(Head(committed))
  /\ UNCHANGED <<engineVars, vertexVars, txVars, deltas, read, committed, undoBuffers,
                 deletedList, garbage, freedTx, freedDeltas, versions>>

(* One delta is unlinked under the lock of its vertex.  A delta below one  *)
(* of the same transaction leaves with it.                                 *)
GcUnlink ==
  /\ gc.tx # Nil /\ gc.next <= Len(deltas[gc.tx])
  /\ LET d == <<gc.tx, gc.next>>
         v == Delta(d).vertex
         prev == Delta(d).prev
     IN  \/ /\ prev = v /\ vertex[v].delta = d
            /\ vertex' = [vertex EXCEPT ![v].delta = Nil]
            /\ gc' = [gc EXCEPT !.next = @ + 1,
                                !.deleted = IF vertex[v].deleted THEN Append(@, v) ELSE @]
            /\ UNCHANGED deltas
         \/ /\ prev # v
            /\ \E ts \in LoadStamp(prev[1]) :
                 deltas' = IF ts = stamp[gc.tx] THEN deltas
                           ELSE [deltas EXCEPT ![prev[1]][prev[2]].next = Nil]
            /\ gc' = [gc EXCEPT !.next = @ + 1]
            /\ UNCHANGED vertex
  /\ UNCHANGED <<engineVars, vertices, txVars, read, committed, undoBuffers, deletedList,
                 garbage, freedTx, freedDeltas, history, versions>>

(* pop_front destroys the Transaction, and its atomic with it; the deltas  *)
(* have been moved out.                                                    *)
GcPop ==
  /\ gc.tx # Nil /\ gc.next > Len(deltas[gc.tx])
  /\ committed' = Tail(committed)
  /\ freedTx' = freedTx \cup {gc.tx}
  /\ gc' = [gc EXCEPT !.tx = Nil, !.unlinked = Append(@, gc.tx)]
  /\ UNCHANGED <<engineVars, vertexVars, txVars, deltas, read, undoBuffers, deletedList,
                 garbage, freedDeltas, history, versions>>

(* Mutant: what was unlinked is marked with the oldest active timestamp.   *)
GcMarkOldest ==
  /\ gc.step = "take" /\ gc.tx = Nil
  /\ ~FrontIsOld
  /\ undoBuffers' = undoBuffers \o [i \in DOMAIN gc.unlinked |-> <<gc.oldest, gc.unlinked[i]>>]
  /\ garbage' = garbage \o [i \in DOMAIN gc.deleted |-> <<gc.oldest, gc.deleted[i]>>]
  /\ gc' = [gc EXCEPT !.step = "free"]
  /\ UNCHANGED <<engineVars, vertexVars, txVars, deltas, read, committed, deletedList,
                 freedTx, freedDeltas, history, versions>>

(* Under engine_lock_: what was unlinked is marked with the current time.  *)
GcMark ==
  /\ gc.step = "take" /\ gc.tx = Nil
  /\ ~FrontIsOld
  /\ undoBuffers' = undoBuffers \o [i \in DOMAIN gc.unlinked |-> <<timestamp, gc.unlinked[i]>>]
  /\ garbage' = garbage \o [i \in DOMAIN gc.deleted |-> <<timestamp, gc.deleted[i]>>]
  /\ gc' = [gc EXCEPT !.step = "free"]
  /\ UNCHANGED <<engineVars, vertexVars, txVars, deltas, read, committed, deletedList,
                 freedTx, freedDeltas, history, versions>>

(* The prefix of a queue that the loops pop: marks below the limit, or     *)
(* everything when the collection is forced.                               *)
PrefixLength(queue, limit) ==
  Max({n \in 0..Len(queue) : gc.force \/ \A i \in 1..n : queue[i][1] < limit})

(* Undo buffers are freed up to and including the mark `oldest', vertices  *)
(* are removed from the skip list up to it.                                *)
GcFree ==
  /\ gc.step = "free"
  /\ LET n == PrefixLength(undoBuffers, gc.oldest + 1)
         m == PrefixLength(garbage, gc.oldest)
     IN  /\ freedDeltas' = freedDeltas \cup {undoBuffers[i][2] : i \in 1..n}
         /\ undoBuffers' = SubSeq(undoBuffers, n + 1, Len(undoBuffers))
         /\ vertices' = vertices \ {garbage[i][2] : i \in 1..m}
         /\ garbage' = SubSeq(garbage, m + 1, Len(garbage))
  /\ gc' = GcIdle
  /\ UNCHANGED <<engineVars, vertex, txVars, deltas, read, committed, deletedList,
                 freedTx, history, versions>>

-----------------------------------------------------------------------------
Operation(t) ==
  \/ AdvanceCommand(t)
  \/ \E v \in Vertex :
       \/ CreateVertex(t, v)
       \/ \E x \in Value : SetProperty(t, v, x)
       \/ AddLabel(t, v)
       \/ RemoveLabel(t, v)
       \/ ClearProperties(t, v)
       \/ DeleteVertex(t, v)
       \/ WriteConflict(t, v)
       \/ \E view \in {"OLD", "NEW"} : ReadBegin(t, v, view)

(* The client asks for the end of the transaction.                         *)
End(t) ==
  \/ CommitReadOnly(t)
  \/ CommitStore(t)
  \/ CommitUniqueViolation(t)
  \/ Abort(t)

(* The rest of a call that has begun.                                      *)
Continue(t) ==
  \/ ReadStep(t) \/ ReadEnd(t)
  \/ CommitMarkStart(t) \/ StampDelta(t) \/ StampVertex(t) \/ CommitDone(t)
  \/ UndoDelta(t) \/ AbortQueue(t) \/ AbortMarkStart(t)
  \/ FinalizeMark(t) \/ FinalizeList(t) \/ Destroy(t)

CollectGarbage ==
  \/ \E force \in BOOLEAN : GcBegin(force)
  \/ GcTake \/ GcUnlink \/ GcPop \/ GcMark \/ GcFree

Next ==
  \/ \E t \in Tx : Begin(t) \/ Operation(t) \/ End(t) \/ Continue(t)
  \/ CollectGarbage

Spec == Init /\ [][Next]_vars

(* gc_runner_ calls CollectGarbage periodically; threads make progress; a  *)
(* client ends every transaction that it has begun, and does not go on     *)
(* reading for ever (End is disabled while a read is in progress).         *)
Fairness ==
  /\ WF_vars(CollectGarbage)
  /\ \A t \in Tx : WF_vars(Continue(t)) /\ SF_vars(End(t))

FairSpec == Spec /\ Fairness

-----------------------------------------------------------------------------
Pointer == (Tx \X (1..MaxDeltas)) \cup {Nil}
Contents == [val : Value \cup {NoValue}, label : BOOLEAN, deleted : BOOLEAN]

(* Types: timestamps, pointers and contents stay in range; in particular   *)
(* the post-commit loop never stamps a delta with a transaction id.        *)
TypeOK ==
  /\ timestamp \in 0..(MaxTs + 1) /\ finished \subseteq 0..MaxTs
  /\ vertices \subseteq Vertex
  /\ \A v \in Vertex : Content(v) \in Contents /\ vertex[v].delta \in Pointer
                      /\ vertex[v].num \in Nat
                      /\ vertex[v].st \in 0..MaxTs
  /\ \A t \in Tx :
       /\ start[t] \in 0..MaxTs /\ stamp[t] \in 0..(MaxTs + 1)
       /\ commitTs[t] \in 0..MaxTs
       /\ \A k \in DOMAIN deltas[t] :
            /\ deltas[t][k].next \in Pointer
            /\ deltas[t][k].ct \in 0..MaxTs
            /\ deltas[t][k].prev \in (Pointer \ {Nil}) \cup {deltas[t][k].vertex}

(* The newest version committed before s, as a set of at most one content. *)
SnapshotAt(v, s) ==
  LET older == {i \in DOMAIN versions[v] : versions[v][i].ts < s}
  IN  IF older = {} THEN {} ELSE {versions[v][Max(older)].content}

(* What transaction t must see of v: its own writes (with View::OLD those  *)
(* of earlier commands only) on top of the snapshot it started with.       *)
Expected(t, v, view) ==
  LET own == {k \in DOMAIN deltas[t] : deltas[t][k].vertex = v}
      hidden == {k \in own : view = "OLD" /\ deltas[t][k].command = command[t]}
      first == deltas[t][Min(hidden)]
  IN  IF hidden # {}
        THEN IF first.action = "DELETE_OBJECT" THEN {} ELSE {first.pre}
      ELSE IF own # {} THEN {Content(v)}
      ELSE SnapshotAt(v, start[t])

Visible(contents) == {c \in contents : ~c.deleted}

ReadDone(t) == read[t] # NoRead /\ read[t].delta = Nil

Result(t) == IF read[t].exists THEN {read[t].content} ELSE {}

(* SNAPSHOT_ISOLATION: whatever runs in between, the lock-free walk of     *)
(* ApplyDeltasForRead yields the content that the transaction's snapshot   *)
(* and its own writes determine, or finds the vertex invisible.            *)
SnapshotReads ==
  \A t \in Tx : ReadDone(t) /\ isolation[t] = "SNAPSHOT_ISOLATION" =>
    Visible(Result(t)) = Visible(Expected(t, read[t].vertex, read[t].view))

(* READ_COMMITTED: a transaction that has not written the vertex reads a    *)
(* version that was the newest committed one at some moment of the read.   *)
CommittedReads ==
  \A t \in Tx : ReadDone(t) /\ isolation[t] = "READ_COMMITTED" =>
    LET v == read[t].vertex
    IN  \/ \E k \in DOMAIN deltas[t] : deltas[t][k].vertex = v
        \/ \E i \in read[t].since..Len(versions[v]) :
             Visible(Result(t)) = IF i = 0 THEN {} ELSE Visible({versions[v][i].content})

(* PrepareForWrite: two transactions that overlap never both commit a      *)
(* change of the same vertex, even after the collector has cut its chain.  *)
NoLostUpdate ==
  \A v \in Vertex : \A i \in 1..(Len(versions[v]) - 1) :
    versions[v][i].ts < versions[v][i + 1].start

(* The second phase of CollectGarbage frees no undo buffer that a reader   *)
(* is still walking through, or that a vertex points to.                   *)
NoFreedDeltaInUse ==
  /\ \A t \in Tx : read[t] # NoRead /\ read[t].delta # Nil =>
       read[t].delta[1] \notin freedDeltas
  /\ \A v \in vertices : vertex[v].delta # Nil => vertex[v].delta[1] \notin freedDeltas

(* CollectGarbage removes a deleted vertex from vertices_ only when every  *)
(* transaction that began before the deletion committed has ended, however *)
(* many collections run and whatever begins or commits in between.         *)
VisibleVertexKept ==
  \A t \in Tx : phase[t] = "active" =>
    \A v \in Vertex : Visible(SnapshotAt(v, start[t])) # {} => v \in vertices

(* MG_ASSERT(vertex_acc.remove(...)): a vertex is queued for removal once, *)
(* whether its creation was aborted or its deletion was collected.         *)
RemovedOnce ==
  LET queued == deletedList \o (IF gc.step = "take" THEN gc.deleted ELSE <<>>)
                  \o [i \in DOMAIN garbage |-> garbage[i][2]]
  IN  /\ \A i, j \in DOMAIN queued : queued[i] = queued[j] => i = j
      /\ \A i \in DOMAIN queued : queued[i] \in vertices

(* A record of the historical store is a committed version: it starts at   *)
(* the commit that made the version, ends at the commit that superseded it, *)
(* and holds the value the version had.                                    *)
HistoryExact ==
  \A r \in history : r.kind = "VD" =>
    \E i \in 1..(Len(versions[r.vertex]) - 1) :
      /\ versions[r.vertex][i].ts = r.st
      /\ versions[r.vertex][i + 1].ts = r.ct
      /\ r.props \subseteq {versions[r.vertex][i].content.val}

(* An anchor is the whole content of the version that starts at its time.  *)
AnchorsExact ==
  \A a \in history : a.kind = "VA" =>
    \E i \in DOMAIN versions[a.vertex] :
      /\ versions[a.vertex][i].ts = a.ts
      /\ versions[a.vertex][i].content.val = a.val
      /\ versions[a.vertex][i].content.label = a.label

(* No version is dropped: once the transaction that superseded a version   *)
(* is destroyed, the historical store has a record for that version.       *)
HistoryComplete ==
  \A v \in Vertex : \A i \in 1..(Len(versions[v]) - 1) :
    (\E t \in freedTx : stamp[t] = versions[v][i + 1].ts) =>
      \E r \in history : /\ r.kind = "VD" /\ r.vertex = v
                         /\ r.st = versions[v][i].ts /\ r.ct = versions[v][i + 1].ts

(* Every committed transaction is unlinked and freed by some collection.   *)
EveryCommitCollected ==
  \A t \in Tx : phase[t] = "listed" ~> t \in freedDeltas
=============================================================================

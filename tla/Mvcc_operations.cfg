SPECIFICATION Spec
CONSTANTS
  Tx = {t1, t2}
  Vertex = {v1}
  Recovered = {}
  Value = {a}
  NoValue = NoValue
  Nil = Nil
  Ops = {"create", "label", "delete", "command", "abort", "unique", "force", "OLD", "NEW"}
  Sessions = 2
  MaxDeltas = 2
  MaxTs = 5
  AnchorNum = 1
  Isolations = {"SNAPSHOT_ISOLATION"}
  Role = "MAIN"
  Uninitialized = {0, 3}
  FreedStamps = {}
SYMMETRY TxSymmetry
INVARIANTS SnapshotReads NoFreedDeltaInUse RemovedOnce

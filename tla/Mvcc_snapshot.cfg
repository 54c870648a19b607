SPECIFICATION Spec
CONSTANTS
  Tx = {t1, t2, t3}
  Vertex = {v1}
  Recovered = {v1}
  Value = {a, b}
  NoValue = NoValue
  Nil = Nil
  Ops = {"set", "delete", "NEW"}
  Sessions = 3
  MaxDeltas = 1
  MaxTs = 7
  AnchorNum = 5
  Isolations = {"SNAPSHOT_ISOLATION"}
  Role = "MAIN"
  Uninitialized = {0}
  FreedStamps = {}
SYMMETRY TxValueSymmetry
INVARIANTS TypeOK SnapshotReads NoLostUpdate NoFreedDeltaInUse VisibleVertexKept

SPECIFICATION Spec
CONSTANTS
  Tx = {t1, t2, t3}
  Vertex = {v1}
  Recovered = {v1}
  Value = {a}
  NoValue = NoValue
  Nil = Nil
  Ops = {"set", "label", "clear", "delete", "abort", "force"}
  Sessions = 1
  MaxDeltas = 1
  MaxTs = 8
  AnchorNum = 1
  Isolations = {"SNAPSHOT_ISOLATION"}
  Role = "MAIN"
  Uninitialized = {0}
  FreedStamps = {}
SYMMETRY TxSymmetry
INVARIANTS HistoryExact HistoryComplete AnchorsExact

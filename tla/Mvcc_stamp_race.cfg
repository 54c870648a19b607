SPECIFICATION Spec
CONSTANTS
  Tx = {t1, t2, t3}
  Vertex = {v1}
  Recovered = {v1}
  Value = {a, b}
  NoValue = NoValue
  Nil = Nil
  Ops = {"set"}
  Sessions = 2
  MaxDeltas = 1
  MaxTs = 8
  AnchorNum = 5
  Isolations = {"SNAPSHOT_ISOLATION"}
  Role = "MAIN"
  Uninitialized = {0}
  FreedStamps = {}
SYMMETRY TxSymmetry
INVARIANTS HistoryExact

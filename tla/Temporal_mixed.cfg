SPECIFICATION TemporalSpec
CONSTANTS
  Tx = {t1, t2}
  Vertex = {v1}
  Recovered = {v1}
  Value = {a, b}
  NoValue = NoValue
  Nil = Nil
  Ops = {"set"}
  Sessions = 1
  MaxDeltas = 2
  MaxTs = 5
  ScanTimes = {1, 3, 5}
  AnchorNum = 5
  Isolations = {"SNAPSHOT_ISOLATION"}
  Role = "MAIN"
  Uninitialized = {0}
  FreedStamps = {}
SYMMETRY TxValueSymmetry
INVARIANTS AsOfIsVersion

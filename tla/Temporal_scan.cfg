SPECIFICATION TemporalSpec
CONSTANTS
  Tx = {t1, t2, t3}
  Vertex = {v1}
  Recovered = {v1}
  Value = {a, b}
  NoValue = NoValue
  Nil = Nil
  Ops = {"set", "abort"}
  Sessions = 2
  MaxDeltas = 1
  MaxTs = 6
  ScanTimes = {1, 4}
  AnchorNum = 0
  Isolations = {"SNAPSHOT_ISOLATION"}
  Role = "MAIN"
  Uninitialized = {0}
  FreedStamps = {}
SYMMETRY TxValueSymmetry
INVARIANTS   ScanDeltaKept
CHECK_DEADLOCK FALSE

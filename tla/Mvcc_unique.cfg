SPECIFICATION FairSpec
CONSTANTS
  Tx = {t1, t2}
  Vertex = {v1}
  Recovered = {v1}
  Value = {a}
  NoValue = NoValue
  Nil = Nil
  Ops = {"set", "unique"}
  Sessions = 2
  MaxDeltas = 1
  MaxTs = 6
  AnchorNum = 5
  Isolations = {"SNAPSHOT_ISOLATION"}
  Role = "MAIN"
  Uninitialized = {0}
  FreedStamps = {}
PROPERTIES EveryCommitCollected

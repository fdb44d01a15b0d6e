SPECIFICATION Spec
CONSTANTS
  Node = {1, 2}
  Key = {k1, k2}
  Value = {1}
  Durable = {1}
  Mortal = {1}
  ByValue = {1, 2}
  None = None
  Quiesced = TRUE
  CrashMidWrite = FALSE
  MaxSyncs = 2
  MaxClock = 2
  MaxRestarts = 1
SYMMETRY KeySymmetry
INVARIANTS TypeOK HoldsTheJoin ClockIsLatest StampsUnique DbMirrorsMemory
PROPERTIES NeverRegresses ImplementsReplicatedMap

SPECIFICATION FairSpec
CONSTANTS
  Node = {1, 2}
  Key = {k1}
  Value = {1, 2}
  Durable = {}
  Mortal = {1, 2}
  ByValue = {2}
  None = None
  Quiesced = TRUE
  CrashMidWrite = TRUE
  MaxSyncs = 9
  MaxClock = 1
  MaxRestarts = 1
PROPERTIES EventuallyAgree

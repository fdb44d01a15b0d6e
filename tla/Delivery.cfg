SPECIFICATION FairSpec
CONSTANTS
  MaxMsg = 2
  Conn = {c1, c2}
  NoConn = NoConn
  MaxSize = 1
  MaxBreaks = 1
  MaxOutages = 1
  MaxChurn = 2
CHECK_DEADLOCK FALSE
INVARIANTS TypeOK NothingVanishes OneOwner DuplicateOnlyAfterLoss NeverStranded
PROPERTIES EventuallySettled ImplementsAtLeastOnce

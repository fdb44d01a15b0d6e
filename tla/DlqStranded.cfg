SPECIFICATION FairSpec
CONSTANTS
  MaxMsg = 2
  Conn = {c1, c2}
  NoConn = NoConn
  MaxSize = 2
  MaxBreaks = 0
  MaxOutages = 0
  MaxChurn = 2
CHECK_DEADLOCK FALSE
PROPERTIES AllDelivered

SPECIFICATION FairSpec
CONSTANTS
  Agent = {a1}
  Msg = {}
  All = All
  None = None
  Sender = {a1}
  Flaky = {a1}
  MaxSessions = 2
  Limit = 10
CHECK_DEADLOCK FALSE

PROPERTIES EventuallyRegistered

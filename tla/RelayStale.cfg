SPECIFICATION FairSpec
CONSTANTS
  Agent = {a1, a2}
  Msg = {m1}
  All = All
  None = None
  Sender = {a1}
  Flaky = {a2}
  MaxSessions = 2
  Limit = 10
CHECK_DEADLOCK FALSE

INVARIANTS ConfirmedIsRegistered

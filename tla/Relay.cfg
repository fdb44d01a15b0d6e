SPECIFICATION FairSpec
CONSTANTS
  Agent = {a1, a2, a3}
  Msg = {m1}
  All = All
  None = None
  Sender = {a1}
  Flaky = {a2}
  MaxSessions = 2
  Limit = 2
CHECK_DEADLOCK FALSE
INVARIANTS TypeOK NoDanglingEntry PromptIsRegistered AtMostOnce
PROPERTIES PromptlyRegistered EventuallyRouted

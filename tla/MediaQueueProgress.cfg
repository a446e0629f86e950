\* Every operation with progress, two entries.
SPECIFICATION FairSpec
CONSTANTS
  e1 = e1  e2 = e2  e3 = e3  u1 = u1  u2 = u2
  Entries = {e1, e2}
  NoEntry = NoEntry
  Unknown = Unknown
  Users = {u1}
  RequestedBy <- MCRequestedByTwo
  Unskippables = {e2}
  Endless = {}
  RemovalTokens = 1
  Switches = {}
  LogOutcomes = {TRUE}
  WriteOutcomes = {TRUE}
  Restorable <- MCEmptyQueue
PROPERTIES StoppedHeadLeavesOnUpdate
CHECK_DEADLOCK FALSE

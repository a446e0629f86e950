\* Every operation with three entries and one user, no failures.
SPECIFICATION InMemorySpec
CONSTANTS
  e1 = e1  e2 = e2  e3 = e3  u1 = u1  u2 = u2
  Entries = {e1, e2, e3}
  NoEntry = NoEntry
  Unknown = Unknown
  Users = {u1}
  RequestedBy <- MCRequestedBy
  Unskippables = {e2}
  Endless = {e3}
  RemovalTokens = 0
  Switches = {"skipping"}
  LogOutcomes = {TRUE}
  WriteOutcomes = {TRUE}
  Restorable <- MCEmptyQueue
INVARIANTS TypeOK OnlyHeadPlays RemovedOnce CursorAhead
PROPERTIES HeadLeavesPlayed OrderKept
CHECK_DEADLOCK FALSE

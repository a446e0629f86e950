\* Three lives of the process, two entries of one user; four messages, one of them
\* hidden, and one update in flight; one application that sets two tabs.
SPECIFICATION MCSpec
CONSTANTS
  e1 = e1  e2 = e2  e3 = e3  u1 = u1
  Entries = {e1, e2}
  NoEntry = NoEntry
  Unknown = Unknown
  Users = {u1}
  RequestedBy <- MCRequestedBy
  Unskippables = {}
  Endless = {}
  RemovalTokens = 0
  Switches = {}
  LogOutcomes = {TRUE}
  WriteOutcomes = {TRUE}
  Restorable <- MCRestorable
  Volatile = {e2}
  MaxLives = 3
  Callers = {c1, c2}
  Messages = {1, 2, 3, 4}
  Shadowbanned = {1}
  InitialHistorySize = 1
  MessageHistorySize = 2
  MaxInFlight = 1
  Applications = {a1}
  Tabs <- MCTabs
  Defaults <- MCDefaults
  BeforeTab <- MCBeforeTab
  Own = Own
  NoTab = NoTab
  MaxPages = 1
  MaxChangesInFlight = 1
  tab1 = tab1  tab2 = tab2  siteTab = siteTab
INVARIANTS ViewsTypeOK CountOvershoot ShownOnce ShowsTheChat ShownUnlessMissed SelectedIsShown
PROPERTIES QuietRestartKeepsQueue
CHECK_DEADLOCK FALSE

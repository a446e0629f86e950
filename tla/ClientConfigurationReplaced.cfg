\* One application that sets one tab after the other, and a client.
SPECIFICATION ConfigurationSpec
CONSTANTS
  tab1 = tab1  tab2 = tab2  siteTab = siteTab
  Applications = {a1}
  Tabs <- MCTabs
  Defaults <- MCDefaults
  Own = Own
  BeforeTab <- MCBeforeTab
  NoTab = NoTab
  MaxPages = 0
  MaxInFlight = 1
INVARIANTS RemovalsReachClients
CHECK_DEADLOCK FALSE

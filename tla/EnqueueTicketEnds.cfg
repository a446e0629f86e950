\* One ticket, until the end of its receiver.
SPECIFICATION FairSpec
CONSTANTS
  a1 = a1  r1 = r1  r2 = r2  p1 = p1  p2 = p2
  Accounts = {a1}
  NoAccount = NoAccount
  Receivers = {r1}
  NoReceiver = NoReceiver
  Payments = {p1, p2}
  MaxReverts = 1
  EnqueuePrice = 1
  PlayAfterCurrentPrice = 2
  PlayNowPrice = 2
  Tickets = {r1}
  Forced = {"Enqueue"}
  Concealed = {r1}
INVARIANTS EnqueuedOnce PlayedIsCollected
PROPERTIES TicketsEnd
CHECK_DEADLOCK FALSE

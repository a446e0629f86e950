\* One ticket and one payment, and what is waited for.
SPECIFICATION Spec
CONSTANTS
  a1 = a1  r1 = r1  r2 = r2  p1 = p1  p2 = p2
  Accounts = {a1}
  NoAccount = NoAccount
  Receivers = {r1}
  NoReceiver = NoReceiver
  Payments = {p1}
  MaxReverts = 1
  EnqueuePrice = 1
  PlayAfterCurrentPrice = 2
  PlayNowPrice = 2
  Tickets = {r1}
  Forced = {"Enqueue"}
  Concealed = {r1}
INVARIANTS AwaitedAreRunning
CHECK_DEADLOCK FALSE

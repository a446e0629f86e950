\* Two calls at a time and two users; three drawings and two tickets, or two
\* rewards each, two pending withdrawals, two blocks and a stop of the process;
\* or a ticket and another receiver in turn on one account, two payments;
\* or two flows in turn on the account, two payments.
SPECIFICATION MCSpec
CONSTANTS
  c1 = c1  c2 = c2  u1 = u1  u2 = u2
  Requests = {c1, c2}
  Viewers = {u1, u2}
  Reasons = {"ineligible"}
  Initial = "Initial drawing."
  NoDocument = NoDocument
  Hash <- MCHash
  MaxDrawings = 3
  MaxTickets = 2
  Users = {u1, u2}
  Calls = {c1, c2}
  MaxRewards = 2
  MaxStarted = 2
  MaxBlocks = 2
  MaxStops = 1
  Accounts = {a1}
  NoAccount = NoAccount
  Receivers = {r1, r2}
  NoReceiver = NoReceiver
  Payments = {p1, p2}
  MaxReverts = 1
  EnqueuePrice = 1
  PlayAfterCurrentPrice = 2
  PlayNowPrice = 2
  Tickets = {r1}
  Forced = {}
  Concealed = {}
SYMMETRY MCSymmetry
INVARIANTS MoneyTypeOK DrawingsAreVerifiable LatestIsNotVoided SendsWhatIsPending RecordedOnce ReturnedIsSettled ReceivableIsThere CreditedToOneReceiver PointsFollowPayments
PROPERTIES FreshCommitsFollowArrows OnlyStaleCallsMiscount
CHECK_DEADLOCK FALSE

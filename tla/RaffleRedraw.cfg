\* One call after the other, and what the document says of redraws.
SPECIFICATION RaffleSpec
CONSTANTS
  c1 = c1  c2 = c2  u1 = u1  u2 = u2
  Requests = {c1}
  Viewers = {u1}
  Reasons = {"ineligible"}
  Initial = "Initial drawing."
  NoDocument = NoDocument
  Hash <- MCHash
  MaxDrawings = 3
  MaxTickets = 2
INVARIANTS RedrawsChangeTheDocument

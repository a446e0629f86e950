\* One component with two requests in flight; two loads of a page; three dialogs
\* and two that wait for them to close.
SPECIFICATION MCFairSpec
CONSTANTS
  c1 = c1  s1 = s1  s2 = s2  s3 = s3  s4 = s4  s5 = s5  s6 = s6
  Controllers = {c1}
  Streams = {s1, s2}
  Owner <- MCOwner
  NoStream = NoStream
  MaxStray = 1
  Loads = {1, 2}
  PageStreams = {s3, s4, s5, s6}
  PageOwner <- MCPageOwner
  MaxPosted = 3
  Dialogs = {d1, d2, d3}
  Closers = {k1, k2}
  Nothing = Nothing
INVARIANTS WebClientTypeOK OneStream QuietWhenStopped ConnectedIsWatched ChildIsTold
PROPERTIES Reconnects CallsEnd CallsProceed ResultsSettle
CHECK_DEADLOCK FALSE

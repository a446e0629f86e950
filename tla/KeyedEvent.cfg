\* Three subscribers, two events, deferred notifications; two
\* persisted notifications with one key.
SPECIFICATION MCSpec
CONSTANTS
  s1 = s1  s2 = s2  s3 = s3  ev1 = ev1  ev2 = ev2  ev3 = ev3
  Subscribers = {s1, s2, s3}
  Strategy <- MCStrategy
  Events = {ev1, ev2}
  NoEvent = NoEvent
  Nil = Nil
  Deferral = {TRUE, FALSE}
  MaxMessages = 2
  MaxNotifications = 2  MaxQueued = 3  MaxCleanups = 1
SYMMETRY MCSymmetry
INVARIANTS InOrder ShowsWhatIsUnread
PROPERTIES EventsAreTopics
CHECK_DEADLOCK FALSE

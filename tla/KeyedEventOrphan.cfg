\* The calls the server makes: notifications are never deferred.
SPECIFICATION MCSpec
CONSTANTS
  s1 = s1  s2 = s2  s3 = s3  ev1 = ev1  ev2 = ev2  ev3 = ev3
  Subscribers = {s1, s2}
  Strategy <- MCCallbacks
  Events = {ev1, ev2}
  NoEvent = NoEvent
  Nil = Nil
  Deferral = {FALSE}
  MaxMessages = 2
  MaxNotifications = 0  MaxQueued = 0  MaxCleanups = 0
INVARIANTS SubscriberIsFound
CHECK_DEADLOCK FALSE

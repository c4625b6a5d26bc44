\* Two accepts before the worker runs wake it once; the older socket stays pending.
CONSTANTS
  NumWorkers = 2
  s1 = s1
  s2 = s2
  s3 = s3
  Sockets <- MCSockets
  Timers = FALSE
  ConnectMayFail = FALSE
  FreedLinkNext = {"null"}
  NULL = NULL
SPECIFICATION Spec
CHECK_DEADLOCK FALSE
PROPERTY PendingEventuallyTaken

\* on_shutdown frees only the head client and stops at the freed link.
CONSTANTS
  NumWorkers = 2
  s1 = s1
  s2 = s2
  s3 = s3
  Sockets <- MCSockets
  Timers = FALSE
  ConnectMayFail = FALSE
  FreedLinkNext = {"null"}
  NULL = NULL
SPECIFICATION Spec
CHECK_DEADLOCK FALSE
PROPERTY ShutdownFreesClients

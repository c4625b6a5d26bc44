\* A client whose connect failed stays on client_list and on_shutdown frees it again.
CONSTANTS
  NumWorkers = 2
  s1 = s1
  s2 = s2
  s3 = s3
  Sockets <- MCSockets
  Timers = FALSE
  ConnectMayFail = TRUE
  FreedLinkNext = {"null"}
  NULL = NULL
SPECIFICATION Spec
CHECK_DEADLOCK FALSE
INVARIANT NoUseAfterFree

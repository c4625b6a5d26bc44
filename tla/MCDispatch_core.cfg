\* Two workers, three connections, clients that may fail to connect, and
\* a freed link that reads back NULL; the 72000 s timeouts of the worker
\* events may expire.
\* The event loops may wait forever once every connection is handled.
CONSTANTS
  NumWorkers = 2
  s1 = s1
  s2 = s2
  s3 = s3
  Sockets <- MCSockets
  Timers = TRUE
  ConnectMayFail = TRUE
  FreedLinkNext = {"null"}
  NULL = NULL
SPECIFICATION Spec
CHECK_DEADLOCK FALSE
INVARIANT TypeOK
INVARIANT ListsWellLinked

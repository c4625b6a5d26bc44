\* A failed pthread_create() unwinds the spawned threads and frees the
\* server while serve_forever still writes to it.
CONSTANTS
  ThreadCount = 2
  IniFiles <- MCIniFiles
  SizeModulus <- MCSizeModulus
  RefModulus <- MCRefModulus
  Failures <- MCFailures
  MaxSignals = 2
  MaxAccepts = 2
  RefRace = FALSE
SPECIFICATION Spec
CHECK_DEADLOCK FALSE
INVARIANT NoUseAfterFree

\* Start-up and shutdown with two worker threads and two connections,
\* where every handled call may fail; main's final unref is not raced.
CONSTANTS
  ThreadCount = 2
  IniFiles <- MCIniFiles
  SizeModulus <- MCSizeModulus
  RefModulus <- MCRefModulus
  Failures <- MCFailures
  MaxSignals = 2
  MaxAccepts = 2
  RefRace = FALSE
SPECIFICATION Spec
CHECK_DEADLOCK FALSE
INVARIANT TypeOK
PROPERTY ServesWithConfiguredPool
PROPERTY ShutdownEndsMain

\* Without failing calls, a shutdown signal still does not end the process
\* gracefully.
CONSTANTS
  ThreadCount = 2
  IniFiles <- MCIniFiles
  SizeModulus <- MCSizeModulus
  RefModulus <- MCRefModulus
  Failures = {}
  MaxSignals = 2
  MaxAccepts = 2
  RefRace = FALSE
SPECIFICATION Spec
CHECK_DEADLOCK FALSE
PROPERTY GracefulShutdown

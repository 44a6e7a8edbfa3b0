\* One session, no fault mode: does everybody get on?
CONSTANTS
  NumSensors = 2
  c1 = c1
  c2 = c2
  Sessions = {c1}
  Nobody = Nobody
  NoReading = NoReading
  Readings = {1}
  AutoRange <- MCAutoRange
  Readable <- MCReadable
  FaultRange <- MCFaultRange
  SetModes = {"user", "auto"}
  SetLevels = {}
  LinkFails = TRUE
SPECIFICATION FairSpec
INVARIANT NoLostWakeup
PROPERTIES AutoRefreshes CommandsComplete ToldThreadsEnd
\* The process ends: exited has no successor.
CHECK_DEADLOCK FALSE

\* Two sessions and one sensor, all commands.
CONSTANTS
  NumSensors = 1
  c1 = c1
  c2 = c2
  Sessions = {c1, c2}
  Nobody = Nobody
  NoReading = NoReading
  Readings = {1, 7}
  AutoRange <- MCAutoRange
  Readable <- MCReadable
  FaultRange <- MCFaultRange
  SetModes = {"user", "auto", "fault"}
  SetLevels = {"lnc", "unc"}
  LinkFails = TRUE
SPECIFICATION Spec
SYMMETRY SessionSymmetry
INVARIANT LockDiscipline
\* The process ends: exited has no successor.
CHECK_DEADLOCK FALSE

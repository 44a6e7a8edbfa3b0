\* One client, one sensor.
CONSTANTS
  Clients = {c1}
  MaxConnections = 1
  NumSensors = 1
  Nobody = Nobody
  NoReading = NoReading
  Readings = {1}
  SetModes = {"user"}
  SetLevels = {}
  LinkFails = FALSE
SPECIFICATION FairSpec
PROPERTY OrderlyShutdown
\* The process ends.
CHECK_DEADLOCK FALSE

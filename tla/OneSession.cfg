\* One session.  Console: commands that raise, a sensor that warns.  Control: two
\* sensors, user mode is never asked for, lanserv is up.
CONSTANTS
  c1 = c1
  Sessions = {c1}
  Kinds = {"help", "quiet", "illegal", "history", "raising"}
  Limit = 2
  MaxCommands = 5
  MaxWarnings = 1
  NumSensors = 2
  Readings = {1, 2}
  SetModes = {"auto"}
  SetLevels = {}
  LinkFails = FALSE
  Nobody = Nobody
  NoReading = NoReading
SPECIFICATION OneSpec
INVARIANT BmcAgrees
PROPERTIES CommandsAnswered KeepsPromise
\* All commands are typed in the end, and the process ends.
CHECK_DEADLOCK FALSE

\* Two sessions.  Console: commands that are recorded or not, and a history so
\* short that both can find it full, and one of them then find it empty.  Writes:
\* each has a sensor of its own.
CONSTANTS
  c1 = c1
  c2 = c2
  Sessions = {c1, c2}
  Sensors = {1, 2}
  Discrete = {1}
  Reach <- MCApart
  States = {0, 1}
  Unread = Unread
  Events = {1, 2}
  Known <- MCKnown
  Typed <- MCTyped
  MaxLog = 1
  Nobody = Nobody
  LinkFails = TRUE
  Kinds = {"quiet", "illegal"}
  Limit = 1
  MaxCommands = 4
  MaxWarnings = 0
SPECIFICATION TwoSpec
INVARIANTS HistoryNearlyBounded BitsAgree
PROPERTY EventsKept
\* The commands are bounded, and so is the log.
CHECK_DEADLOCK FALSE

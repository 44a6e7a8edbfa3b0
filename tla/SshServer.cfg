\* Two clients that connect three times, the server used in both ways.
CONSTANTS
  Clients = {c1, c2}
  Nobody = Nobody
  MaxConnections = 3
SPECIFICATION FairSpec
INVARIANTS CountExact
PROPERTIES StopWaits StopReturns ShellsEnd
\* The server is stopped in the end.
CHECK_DEADLOCK FALSE

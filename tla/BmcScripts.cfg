\* Two bridges, two commands, startcmd that tries twice.
CONSTANTS
  Bridges <- MCBridges
  BootValues <- MCBootValues
  MaxRetry = 1
  MaxCommands = 2
  MaxIdentify = 1
  Device = "br0"
  LanArgs <- MCLanArgs
  Files <- MCFiles
SPECIFICATION FairSpec
PROPERTIES BootOrderHonoured HostComesUp LanKeepsPlan
\* Nothing happens after the last command.
CHECK_DEADLOCK FALSE

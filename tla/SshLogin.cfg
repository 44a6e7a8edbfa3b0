\* Three logins, of which two may fail, two channels, and two requests on one.
CONSTANTS
  Offers <- MCOffers
  Accepted = {"password"}
  Methods = {"password", "keyboard-interactive"}
  Kinds = {"session", "direct-tcpip"}
  Requests = {"pty-req", "shell", "exec"}
  Allowed = {"pty-req", "shell"}
  MaxFails = 2
  MaxTries = 3
  MaxOpens = 2
  MaxAsks = 2
  Faulty = {"client", "server"}
SPECIFICATION FairSpec
INVARIANTS EndsAgree NothingRefused
PROPERTY CallsReturn
\* A session that is closed does nothing more.
CHECK_DEADLOCK FALSE

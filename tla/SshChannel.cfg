\* A window of two bytes, of which one is worth no message.
CONSTANTS
  Peers <- MCPeers
  Other <- MCOther
  MaxBytes <- MCMaxBytes
  Window = 2
  Divisor = 2
  MaxPacket = 2
  MaxKex = 1
  Mortal <- MCMortal
SPECIFICATION FairSpec
INVARIANTS WindowConserved KexIsQuiet
PROPERTIES KeepsPromise SendReturns KexEnds
\* A channel that is closed at both ends does nothing more.
CHECK_DEADLOCK FALSE

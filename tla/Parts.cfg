\* Components that share nothing, each from all of its initial states.
CONSTANTS
  Half = 6
  Mantissas = 4096
  Devices <- MCDevices
  FactorsOf <- MCFactorsOf
  Logins <- MCLogins
  Demands <- MCDemands
  MaxFails = 3
  Clients <- MCClients
  PolicyPlans <- MCPolicyPlans
  Hosts = {"h1", "h2"}
  Types = {"rsa", "dss"}
  Keys = {"k1", "k2"}
  Presented <- MCPresented
  Files <- MCFiles
  MaxRekeys = 1
  Bodies = {0, 2}
  RekeyPackets = 3
  OverflowMax = 2
  SeqModulus = 4
  Capacity = 5
  MaxRecv = 3
  MaxSent = 9
  SmallPrimes <- MCSmallPrimes
  Rounds = 6
  Digit = 128
  WordLen = 2
  MaxPad = 8
  KnownCurves <- MCCurves
  DssWidth = 1
  BlockSize = 8
  LineWidth = 6
  Nist256p <- MCNist256p
  FileModes <- MCFileModes
  Streams <- MCStreams
  Texts <- MCTexts
  Sizes <- MCSizes
  DefaultBufsize = 3
  MaxGiven = 3
  Setups <- MCSetups
  GroupP = 23
  GroupG = 5
  MinBits = 4
  PreferredBits = 5
  MaxBits = 7
  Unset = Unset
  MaxX = 3
  MaxKexes = 1
  MaxData = 1
SPECIFICATION PartsSpec
INVARIANTS
  AutoCrossesNothing FaultCrossesLevel UnsignedNeverRaises RoundTrip
  ClientRight HostKeysKept StreamIntact LinesArrive KeysRight
  SignaturesVerify EncodingsInvert
\* A reading or a case is drawn once, a login ends, a stream stops at its bound.
CHECK_DEADLOCK FALSE

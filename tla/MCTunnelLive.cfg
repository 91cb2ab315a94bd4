SPECIFICATION FairSpec
CONSTANTS
  BaseMs = 2
  CeilingMs = 2
  MaxShift = 0
  MaxFailures = 0
  MaxTime = 4
  NsPerMs = 1
  DnsMs = 1
  ConnectMs = 1
  RegisterMs = 1
  ShutdownMs = 1
  StallMs = 1
  MaxHint = 0
  Randoms <- MCRandoms
  Delays <- MCNoDelay
  Versions <- MCNoVersion
  MaxSaves = 0
PROPERTIES
  StopCompletes
  AttemptEnds
  ReloadRevives

SPECIFICATION FairSpec
CONSTANTS
  Sessions <- MCSessions
  ExecMode <- MCExecMode
  Names <- MCNames
  HostNames <- MCHostNames
  First <- MCFirst
  Generated <- MCGenerated
  Beyond <- MCBeyond
  Uids <- MCUids
  Groups <- MCGroups
  MaxExecs = 1
  Leftovers <- MCLeftovers
  MaxFaults = 1
  None = None
INVARIANTS UidExclusive SessionIntact HostKept CleanedUp
PROPERTY AllEnds
CHECK_DEADLOCK FALSE

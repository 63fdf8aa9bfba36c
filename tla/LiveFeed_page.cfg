SPECIFICATION FairSpec
CONSTANTS
  s1 = s1
  s2 = s2
  s3 = s3
  p1 = p1
  p2 = p2
  NoSock = NoSock
  Socks = {s1, s2}
  Pollers = {p1}
  MaxVer = 2
  MaxDown = 1
  MaxUp = 2
  MaxFaults = 2
INVARIANTS
  HeardWhenSeen
  NeverStranded
PROPERTIES
  DeadLinkNoticed
  
CHECK_DEADLOCK FALSE

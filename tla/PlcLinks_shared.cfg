SPECIFICATION LinksSpec
CONSTANTS
  NPlc = 4
  Parses = {1, 2, 3, 4}
  Ip <- Shared_Ip
  Path <- Shared_Path
  NetWork <- Shared_NetWork
  IpStarts <- Shared_IpStarts
  PathStarts <- Shared_PathStarts
  s1 = s1
  s2 = s2
  c1 = c1
  c2 = c2
  c3 = c3
  SessionId = {s1, s2}
  ConnId = {c1, c2, c3}
  Null = Null
  RegisterMayFail = FALSE
SYMMETRY Symmetry
INVARIANTS
  RefCounts
  NothingDangles
  RightDevice
PROPERTIES
  SessionsShared
  ConnectionsShared
CHECK_DEADLOCK FALSE

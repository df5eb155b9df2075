SPECIFICATION FairSpec
CONSTANTS
  NPlc = 1
  Parses = {1}
  Ip <- One_Ip
  Path <- One_Path
  NetWork <- One_NetWork
  IpStarts <- One_Starts
  PathStarts <- One_Starts
  NameStarts <- SameNames
  TagName = {"tag", "tag6"}
  TagStarts <- SameTags
  Client = {cl1}
  UPDATE_RATE = 1
  INACTIVITY_TO = 1
  s1 = s1
  c1 = c1
  c2 = c2
  cl1 = cl1
  SessionId = {s1}
  ConnId = {c1}
  Null = Null
  Logix = {1}
  MaxLate = 0
  RegisterMayFail = FALSE
PROPERTIES
  QuietReleasesLinks
CHECK_DEADLOCK FALSE

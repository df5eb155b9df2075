SPECIFICATION Spec
CONSTANTS
  NPlc = 2
  Parses = {1, 2}
  Ip <- Pair_Ip
  Path <- Pair_Path
  NetWork <- Pair_NetWork
  IpStarts <- Pair_IpStarts
  PathStarts <- Pair_PathStarts
  NameStarts <- SameNames
  TagName = {"tag"}
  TagStarts <- SameTags
  Client = {cl1}
  UPDATE_RATE = 1
  INACTIVITY_TO = 1
  s1 = s1
  c1 = c1
  c2 = c2
  cl1 = cl1
  SessionId = {s1}
  ConnId = {c1, c2}
  Null = Null
  Logix = {2}
  MaxLate = 1
  RegisterMayFail = TRUE
SYMMETRY Symmetry
INVARIANTS
  LinksHeldForTags
  BufferedValueIsGood
  ReplyIsTruthful
PROPERTIES
  UsesLinks
CHECK_DEADLOCK FALSE

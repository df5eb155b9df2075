SPECIFICATION Spec
CONSTANTS
  NPlc = 2
  Parses <- Plc
  Ip <- Nodes_Ip
  Path <- Nodes_Path
  NetWork <- Nodes_NetWork
  Node <- Nodes_Node
  IpStarts <- All
  PathStarts <- All
  NameStarts <- SameNames
  Logix = {}
  MaxLate = 1
  TagName = {"f"}
  Integers = {}
  Unwritable = {}
  Changing = {1}
  Refresh = {1}
  INACTIVITY_TO = 1
  MaxChanges = 1
  s1 = s1
  c1 = c1
  SessionId = {s1}
  ConnId = {c1}
  Null = Null
  RegisterMayFail = FALSE
INVARIANTS
  LinksHeldForTags
  ReplyIsTruthful
  ReadsSeeWrites
PROPERTIES
  UsesLinks
CHECK_DEADLOCK FALSE

SPECIFICATION Spec
CONSTANTS
  c1 = c1
  c2 = c2
  Conn = {c1, c2}
  PacketRange = 3
  FlushCap = 2
  MaxLate = 2
  MaxCalls = 5
INVARIANTS
  FlushedIsNotTaken
  NoCrossTalk
SYMMETRY Symmetry
CHECK_DEADLOCK FALSE

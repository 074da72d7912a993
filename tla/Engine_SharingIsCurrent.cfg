\* The documentation's promise against a replaced peer that was sharing its screen.
SPECIFICATION Spec
CONSTANTS
  u1 = u1
  u2 = u2
  r1 = r1
  Users = {u1, u2}
  Rooms = {r1}
  MaxRoomPeers = 2
  MaxPeerId = 3
CHECK_DEADLOCK FALSE
INVARIANTS
  SharingIsCurrent

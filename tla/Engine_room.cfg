\* One room of two seats, three identities, four peer ids: a full room, a
\* reconnection, and a reconnection racing a departure.
SPECIFICATION Spec
CONSTANTS
  u1 = u1
  u2 = u2
  u3 = u3
  r1 = r1
  Users = {u1, u2, u3}
  Rooms = {r1}
  MaxRoomPeers = 2
  MaxPeerId = 4
SYMMETRY Symmetry
\* The loop really stops on shutdown.
CHECK_DEADLOCK FALSE
INVARIANTS
  TypeOK
  IndexAgrees
  OneSeatPerUser
  RosterAgrees
  ArrivalsRemembered
  ToldOnlyOpenRooms
PROPERTIES
  ImplementsMembership

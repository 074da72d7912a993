\* Two rooms of one seat, two identities, three peer ids: an identity in two
\* rooms at once, and a full room beside an open one; a fair loop, so no
\* symmetry.
SPECIFICATION FairSpec
CONSTANTS
  u1 = u1
  u2 = u2
  r1 = r1
  r2 = r2
  Users = {u1, u2}
  Rooms = {r1, r2}
  MaxRoomPeers = 1
  MaxPeerId = 3
\* The loop really stops on shutdown.
CHECK_DEADLOCK FALSE
PROPERTIES
  DeadPeersLeave
  ArrivalsReported

\* Four frames of the client, two messages of the loop's own, and fair tasks.
SPECIFICATION FairSpec
CONSTANTS
  MaxFrames = 4
  MaxPushes = 2
\* A closed socket has nothing left to do.
CHECK_DEADLOCK FALSE
INVARIANTS
  TypeOK
  LoopRefusalTold
  JoinedFirst
  NoOrphanSeat
PROPERTIES
  EverySocketAnswered
  SeatsReturned

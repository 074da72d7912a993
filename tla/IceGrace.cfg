\* A grace of two turns' length, and time for a connection to go down, come
\* back, go down again and be given up.
SPECIFICATION Spec
CONSTANTS
  Grace = 4
  MaxTurn = 2
  MaxChanges = 2
  MaxNow = 24
\* The peer's seat is gone in the end, and the clock is bounded.
CHECK_DEADLOCK FALSE
INVARIANTS
  TypeOK
  GivenUpOnlyAfterGrace
  GivenUpInTime

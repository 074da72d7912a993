\* Two peers that stay and one that comes or goes; a hold longer than the period
\* of the tick, which is longer than a turn, as in the code.
SPECIFICATION Spec
CONSTANTS
  p1 = p1
  p2 = p2
  p3 = p3
  Peers = {p1, p2, p3}
  Hold = 3
  Period = 2
  MaxTurn = 1
SYMMETRY Symmetry
INVARIANTS
  TypeOK
  ShownInTime
PROPERTIES
  NoFlicker

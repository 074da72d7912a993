\* A client one of whose answers str0m rejects.
SPECIFICATION Spec
CONSTANTS
  t1 = t1
  t2 = t2
  Tracks = {t1, t2}
  Answers = {"good", "rejected"}
  MaxResends = 0
INVARIANTS
  NegotiatedIsLive

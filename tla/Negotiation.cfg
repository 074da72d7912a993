\* Three tracks, and a client that may answer anything and repeat itself once;
\* fair turns, so no symmetry.
SPECIFICATION FairSpec
CONSTANTS
  t1 = t1
  t2 = t2
  t3 = t3
  Tracks = {t1, t2, t3}
  Answers = {"good", "rejected", "garbled"}
  MaxResends = 1
INVARIANTS
  TypeOK
  SubscribedToAll
  AttributionKept
  OpenIsEstablished
  NoOrphanLine
PROPERTIES
  ImplementsSubscription
  OnlyRejectionHarms
  PublishersAreHeard
  DeadLinesStop
  OfferSettles

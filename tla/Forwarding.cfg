\* Three peers, one after the other, with two m-lines each; up to three events in a
\* turn, so that an announcement shares the queue with a packet or a request.  No
\* m-line is video: gaps and their throttle, which no property here is about, would
\* multiply the states.
SPECIFICATION Spec
CONSTANTS
  m0 = m0
  m1 = m1
  Mids = {m0, m1}
  VideoMids = {}
  MaxPeerId = 3
  MaxQueue = 3
INVARIANTS
  TypeOK
  SubscribedOnce
  HeardAsSent
PROPERTIES
  RequestsReachEncoder
  ImplementsSubscriptions

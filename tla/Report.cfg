\* Two subjects, four reports, restarts, and a host that may fail any post.
SPECIFICATION FairSpec
CONSTANTS
  alice = alice
  bob = bob
  Subjects = {alice, bob}
  MaxReports = 4
\* A process that has exited may never be started again.
CHECK_DEADLOCK FALSE
INVARIANTS
  TypeOK
  BooksFollow
PROPERTIES
  ImplementsDelivery
  ReportsSettle

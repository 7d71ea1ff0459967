\* None of these is kept: leave one in to see how.
SPECIFICATION Spec
CONSTANTS
  Buyers = {b1, b2}
  Listings = {"thing"}
  Times = {1, 2, 3}
  Length = 2
  Threads = {t1, t2}
  MaxRequests = 2
  MaxCrossed = 1
INVARIANTS AlwaysOneWaiting AlwaysHeldOnce PromisedOnce
PROPERTIES AlwaysAnsweredOnce AlwaysForward
CHECK_DEADLOCK FALSE

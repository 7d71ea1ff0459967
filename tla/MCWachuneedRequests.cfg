\* Two threads, each running one request at a time.
SPECIFICATION Spec
CONSTANTS
  Buyers = {b1, b2}
  Listings = {"thing"}
  Times = {1, 2, 3}
  Length = 2
  Threads = {t1, t2}
  MaxRequests = 2
  MaxCrossed = 1
SYMMETRY ShopSymmetry
INVARIANTS OneWaiting TimesHeldOnce
PROPERTIES AnsweredOnce ListingMovesForward
CHECK_DEADLOCK FALSE

SPECIFICATION FairSpec
CONSTANTS
  Workers = {w1, w2, w3}
  Requests = {r1, r2}
  NoRequest = NoRequest
  Main = Main
  NoThread = NoThread
  MaxRequests = 2
  MaxInterrupts = 2
INVARIANTS TypeOK TokenBalance QueueLocked QueueBound
PROPERTIES ImplementsRequestQueue EventuallyProcessed

SPECIFICATION FairSpec
CONSTANTS
  ReqBufs = 2
  Clients = {c1}
  Nobody = Nobody
  Null = Null
  Discards = 1
  MaxFrames = 3
  MaxRequests = 2
PROPERTY HangUpNoticed
CHECK_DEADLOCK FALSE

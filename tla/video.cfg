SPECIFICATION ThreadSpec
CONSTANTS
  ReqBufs = 3
  Clients = {c1, c2}
  Nobody = Nobody
  Null = Null
  Discards = 2
  MaxFrames = 5
  MaxRequests = 2
INVARIANTS TypeOK BuffersConserved
PROPERTIES ImplementsPictureService CameraNotHeldUp RequestServed
CHECK_DEADLOCK FALSE

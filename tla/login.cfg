SPECIFICATION Spec
CONSTANTS
  Conns = {c1, c2, c3}
  Fds = {0, 1}
  Workers = {w1, w2}
  Main = Main
  NoConn = NoConn
  NoFd = NoFd
  Listen = Listen
  MaxUsers = 2
  MaxRequests = 1
  MaxBacklog = 2
  MaxSends = 2
  MaxHangUps = 2
SYMMETRY Symmetry
INVARIANTS TypeOK OneParty RequestKeepsConnection OwnDescriptor AbandonedOnlyByKnownCauses CountDrift AtMostOneAnswer
CHECK_DEADLOCK FALSE

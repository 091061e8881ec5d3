SPECIFICATION FairSpec
CONSTANTS
  Conns = {c1, c2, c3}
  Fds = {0, 1, 2}
  Workers = {w1}
  Main = Main
  NoConn = NoConn
  NoFd = NoFd
  Listen = Listen
  MaxUsers = 3
  MaxRequests = 1
  MaxBacklog = 2
  MaxSends = 1
  MaxHangUps = 1
PROPERTY RequestsAnswered
CHECK_DEADLOCK FALSE

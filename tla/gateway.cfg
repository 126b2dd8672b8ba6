SPECIFICATION FairSpec
CONSTANTS
  c1 = c1  c2 = c2  a1 = a1
  Rpcs = {c1}
  Agents = {a1}
  MaxAttempts = 2
  MaxConnects = 2
  MaxDrops = 2
INVARIANTS AwaitedIsTracked ClosedStaysClosed
PROPERTIES CallsSettle ConnectSettles
CHECK_DEADLOCK FALSE

SPECIFICATION Spec
CONSTANTS
  c1 = c1  c2 = c2  a1 = a1
  Rpcs = {c1}
  Agents = {}
  MaxAttempts = 2
  MaxConnects = 2
  MaxDrops = 2
PROPERTY KeepsReconnecting
CHECK_DEADLOCK FALSE

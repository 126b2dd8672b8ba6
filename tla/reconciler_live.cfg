SPECIFICATION FairSpec
CONSTANTS
  i1 = i1  i2 = i2  r1 = r1  r2 = r2  q1 = q1  q2 = q2  h1 = h1  h2 = h2
  Instances = {i1}
  Runs = {r1}
  Requests = {q1}
  RequestKinds = {"stop", "delete"}
  Hashes = {h1}
  NoHash = NoHash
  Nobody = Nobody
  Unmanaged = {}
  LocalDocker = {i1}
  ErrCap = 1
  ContainerCheck = 1
  OrphanCheck = 1
  Budget <- LiveBudget
PROPERTIES TransientStatesEnd GuardIsReleased
CHECK_DEADLOCK FALSE

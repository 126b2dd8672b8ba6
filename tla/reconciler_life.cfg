SPECIFICATION Spec
CONSTANTS
  i1 = i1  i2 = i2  r1 = r1  r2 = r2  q1 = q1  q2 = q2  h1 = h1  h2 = h2
  Instances = {i1}
  Runs = {r1}
  Requests = {q1}
  RequestKinds = {"delete", "upgrade"}
  Hashes = {h1, h2}
  NoHash = NoHash
  Nobody = Nobody
  Unmanaged = {}
  LocalDocker = {i1}
  ErrCap = 1
  ContainerCheck = 1
  OrphanCheck = 1
  Budget <- LifeBudget
INVARIANTS PushedIsLive NeverReprovisionKnown
PROPERTY DeletedStaysDeleted
SYMMETRY HashSymmetry
CHECK_DEADLOCK FALSE

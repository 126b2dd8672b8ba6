SPECIFICATION Spec
CONSTANTS
  i1 = i1  i2 = i2  r1 = r1  r2 = r2  q1 = q1  q2 = q2  h1 = h1  h2 = h2
  Instances = {i1, i2}
  Runs = {r1, r2}
  Requests = {q1}
  RequestKinds = {"delete"}
  Hashes = {h1}
  NoHash = NoHash
  Nobody = Nobody
  Unmanaged = {}
  LocalDocker = {i1, i2}
  ErrCap = 0
  ContainerCheck = 0
  OrphanCheck = 1
  Budget <- PairBudget
INVARIANT GuardExact
PROPERTY ImplementsExclusiveWork
SYMMETRY CallSymmetry
CHECK_DEADLOCK FALSE

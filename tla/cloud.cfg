SPECIFICATION CloudSpec
CONSTANTS
  VmBots = {b1, b2}
  VmTasks = {o1, o2}
  Rg = Rg
  AzureOps = 3
  AzureFaults = 1
  Ec2Bots = {b1, b2}
  Ec2Tasks = {o1, o2}
  Ec2Ids = {i1, i2}
  VpcIds = {n1, n2}
  NoVpc = NoVpc
  Ec2Ops = 3
  Ec2Faults = 1
  GceBots = {b1, b2}
  GceTasks = {o1, o2}
  Zones = {z1, z2}
  Project = Project
  GceOps = 3
  GceFaults = 1
  NoRow = NoRow
  HostCalls = {b1, b2}
  HostMws = {o1, o2}
  HostOps = 3
  HostFaults = 2
  Injections = {b1, b2}
  NoOne = NoOne
  JobCount = 2
  PersonaFaults = 1
SYMMETRY CloudSymmetry
INVARIANTS VmsKeepShared InstanceKeepsShared GroupKeepsNetwork  InjectionsAreWhole
PROPERTIES DestroyLeavesNothing InstallFindsItsNeeds DestroyEndsInstances ResizeComesBack
CHECK_DEADLOCK FALSE

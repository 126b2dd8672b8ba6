SPECIFICATION Ec2Only
CONSTANTS
  VmBots = {b1, b2}
  VmTasks = {o1, o2}
  Rg = Rg
  AzureOps = 3
  AzureFaults = 1
  Ec2Bots = {b1, b2}
  Ec2Tasks = {o1, o2}
  Ec2Ids = {i1, i2}
  VpcIds = {n1, n2}
  NoVpc = NoVpc
  Ec2Ops = 4
  Ec2Faults = 1
  GceBots = {b1, b2}
  GceTasks = {o1, o2}
  Zones = {z1, z2}
  Project = Project
  GceOps = 3
  GceFaults = 1
  NoRow = NoRow
  HostCalls = {k1, k2}
  HostMws = {m1, m2}
  HostOps = 3
  HostFaults = 2
  Injections = {j1, j2}
  NoOne = NoOne
  JobCount = 2
  PersonaFaults = 1
INVARIANT OnlyLastBotDeletes
CHECK_DEADLOCK FALSE

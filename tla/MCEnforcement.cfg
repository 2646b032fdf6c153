SPECIFICATION EnfSpec
CONSTANTS
  Ids = {a, b}
  Pids = {}
  CgroupIds = {c1, c2}
  None = None
  Syscalls = {101}
  Ips = {8, 169}
  MetadataIp = 169
  MaxMonitored = 2
  MaxLoads = 2
  RingSize = 1
  MaxCreates = 2
  MaxUpdates = 1
  PolicyNames = {"strict_python", "json_imported_policy"}
  SyscallNames <- MCNames
  s_syscall_name_map <- MCNameMap
  PolicyFiles <- MCPolicyFiles
  GivenPolicies <- MCGivenPolicies
  StrictAllowed = {}
  StrictBlocked <- MCNames
SYMMETRY Symmetry
INVARIANTS
  EnfTypeOK
  BlockedSyscallIsKilled
  AttachedHasLink
  LinksHaveObject

SPECIFICATION Spec
CONSTANTS
  a = a
  b = b
  t1 = t1
  t2 = t2
  p1 = p1
  p2 = p2
  p3 = p3
  strict = strict
  unlisted = unlisted
  None = None
  Ids = {a, b}
  Threads = {t1, t2}
  Pids = {p1, p2, p3}
  CgroupIds = {c1, c2}
  Taps = {a, b}
  TapName <- MCTapName
  PolicyNames = {strict}
  PolicyTable <- MCPolicyTable
  Syscalls = {101}
  Ips = {metadata}
  MetadataIp = metadata
  MaxMonitored = 1
  MaxLoads = 1
  HasLoader = TRUE
  HasEngine = TRUE
  LoadedFile = "sys_filter"
SYMMETRY MCSymmetry
CHECK_DEADLOCK FALSE
INVARIANTS
  TypeOK
  RecordedPidIsOwnChild
  ResourcesMatchMap
  MarksFollowMap
  RunningGuestIsTracked
  ExecutesEnforced
  ManagerInv
  SocketOwn
PROPERTIES
  ImplementsLifecycle
  OthersUntouched

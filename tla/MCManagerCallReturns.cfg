SPECIFICATION AnsweringSpec
CONSTANTS
  a = a
  b = b
  t1 = t1
  t2 = t2
  p1 = p1
  p2 = p2
  p3 = p3
  strict = strict
  unlisted = unlisted
  None = None
  Ids = {a}
  Threads = {t1, t2}
  Pids = {p1, p2}
  CgroupIds = {1, 2}
  Taps = {a, b}
  TapName <- MCTapName
  PolicyNames = {strict}
  PolicyTable <- MCPolicyTable
  Syscalls = {101}
  Ips = {metadata}
  MetadataIp = metadata
  MaxMonitored = 2
  MaxLoads = 1
  HasLoader = TRUE
  HasEngine = TRUE
  LoadedFile = "sys_filter"
CHECK_DEADLOCK FALSE
PROPERTY CallReturns

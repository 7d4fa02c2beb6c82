\* One runner and a client at once, a crash of the runner, two tasks of one key; nothing can run c.
SPECIFICATION Spec
CONSTANTS
  t1 = t1  t2 = t2  a = a  b = b  c = c
  codex = codex  claude = claude  disklock = disklock  None = None
  Task = {t1, t2}
  Node = {a, b, c}
  Executor = {codex, claude}
  Resource = {codex, claude, disklock}
  Runner = {r1}
  Client = {c1}
  TaskOf <- ChainTaskOf
  Deps <- ChainDeps
  Capable <- IdleCapable
  NamedLock <- ChainNoLock
  Risky = {}
  RiskyTask = {}
  NoFallback = {}
  NeedsWorktree = {}
  SemanticKey <- SameKey
  Registries <- CodexUp
  ConcurrencyLimit = 2
  MaxAttempts = 2
  LeaseTicks = 1
  Threshold = 2
  CooldownTicks = 1
  Overlap = TRUE
  MaxCrash = 1
INVARIANTS
  DependenciesFirst
  RunningIsLeased
  CopiesAreSound

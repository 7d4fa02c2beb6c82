\* Liveness under a crash, with an approval.
SPECIFICATION FairSpec
CONSTANTS
  t1 = t1  t2 = t2  a = a  b = b  c = c
  codex = codex  claude = claude  disklock = disklock  None = None
  Task = {t1}
  Node = {a, b}
  Executor = {codex}
  Resource = {codex, disklock}
  Runner = {r1}
  Client = {c1}
  TaskOf <- PairTaskOf
  Deps <- StepDeps
  Capable <- PairCapable
  NamedLock <- PairLock
  Risky = {b}
  RiskyTask = {}
  NoFallback = {}
  NeedsWorktree = {}
  SemanticKey <- OneKey
  Registries <- AllUp
  ConcurrencyLimit = 2
  MaxAttempts = 2
  LeaseTicks = 1
  Threshold = 2
  CooldownTicks = 1
  Overlap = FALSE
  MaxCrash = 1
PROPERTIES
  EveryTaskSettles
  EveryLockIsFreed

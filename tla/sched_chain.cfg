\* Operations one after another, max_attempts above what retryPlan allows.
SPECIFICATION Spec
CONSTANTS
  t1 = t1  t2 = t2  a = a  b = b  c = c
  codex = codex  claude = claude  disklock = disklock  None = None
  Task = {t1, t2}
  Node = {a, b, c}
  Executor = {codex}
  Resource = {codex, disklock}
  Runner = {r1}
  Client = {c1}
  TaskOf <- ChainTaskOf
  Deps <- ChainDeps
  Capable <- ChainCapable
  NamedLock <- ChainLock
  Risky = {}
  RiskyTask = {}
  NoFallback = {a}
  NeedsWorktree = {a}
  SemanticKey <- OwnKeys
  Registries <- AnyUp
  ConcurrencyLimit = 2
  MaxAttempts = 5
  LeaseTicks = 1
  Threshold = 6
  CooldownTicks = 1
  Overlap = FALSE
  MaxCrash = 0
INVARIANTS
  TypeOK
  RetriesEnd
PROPERTIES
  TerminalIsFinal

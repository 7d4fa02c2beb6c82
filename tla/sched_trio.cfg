\* Three independent nodes, one of which needs approval, under a limit of two.
SPECIFICATION Spec
CONSTANTS
  t1 = t1  t2 = t2  a = a  b = b  c = c
  codex = codex  claude = claude  disklock = disklock  None = None
  Task = {t1, t2}
  Node = {a, b, c}
  Executor = {codex, claude}
  Resource = {codex, claude, disklock}
  Runner = {r1}
  Client = {c1}
  TaskOf <- TrioTaskOf
  Deps <- TrioDeps
  Capable <- TrioCapable
  NamedLock <- TrioLock
  Risky = {b}
  RiskyTask = {}
  NoFallback = {}
  NeedsWorktree = {}
  SemanticKey <- OwnKeys
  Registries <- AllUp
  ConcurrencyLimit = 2
  MaxAttempts = 2
  LeaseTicks = 1
  Threshold = 1
  CooldownTicks = 1
  Overlap = FALSE
  MaxCrash = 0
INVARIANTS
  ResourceExclusive
  WithinLimit

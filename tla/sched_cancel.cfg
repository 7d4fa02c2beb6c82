\* A cancellation during runOnce is overwritten by its saves.
SPECIFICATION Spec
CONSTANTS
  t1 = t1  t2 = t2  a = a  b = b  c = c
  codex = codex  claude = claude  disklock = disklock  None = None
  Task = {t1}
  Node = {a}
  Executor = {codex}
  Resource = {codex, disklock}
  Runner = {r1}
  Client = {c1}
  TaskOf <- SoloTaskOf
  Deps <- SoloDeps
  Capable <- SoloCapable
  NamedLock <- SoloLock
  Risky = {}
  RiskyTask = {}
  NoFallback = {}
  NeedsWorktree = {}
  SemanticKey <- OneKey
  Registries <- AllUp
  ConcurrencyLimit = 2
  MaxAttempts = 1
  LeaseTicks = 1
  Threshold = 2
  CooldownTicks = 1
  Overlap = TRUE
  MaxCrash = 0
PROPERTIES
  CancelSticks

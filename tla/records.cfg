\* The memory, the evidence logs, the context packets, the dashboard numbers, the evaluations, the replays,
\* the job claims and the routing of the cloud fabric, each by itself.
SPECIFICATION Spec
CONSTANTS
  Call = {c1, c2}  None = None  MaxCrash = 1
  Id = {i1, i2}  Given <- Said  TopK = 2  MaxEvents = 3
  Subject = {s1, s2}  RetentionDays = 1  MaxRows = 3  MaxDay = 2  MaxCalls = 3
  Fragment <- Pieces  Chars <- PieceChars  Kind <- PieceKind  Budget = {1, 4}  MaxCompiles = 2
  Task = {"t1"}  Executor = {"codex", "claude"}  CompileSize <- Sizes  Usage <- Costs  Window = 2
  StatsType = {"telemetry", "usage", "alerts"}  MaxStatsEvents = 2  MaxStatsDay = 3  MaxExecutions = 1
  Suite = {u1, u2}  Dataset <- Cases  Baselines <- BaselineLanes  Mcgs <- McgLanes  MIN_DATASET = 2
  Replay = {r1, r2, r3}
  e1 = e1  e2 = e2  w1 = w1  w2 = w2  w3 = w3
  Engine = {e1, e2}  Worker = {w1, w2, w3}  Job = {j1}  EngineOf <- WorkersEngine  MaxAttempts = 2
  RoutingCall = {"call"}  Requirements <- Asked  Quota <- Snapshots  ObservedModel = {"codex-luna"}
  MinSamples = 1  MaxSamples = 1  MaxChanges = 2
SYMMETRY Symmetry
INVARIANTS
  MemoryIsTraceable FilesFollowOneAnother BudgetIsSpentByPriority NumbersAgree ValidatedIsEarned
  OneWorkerPerJob RouteTakesBest
PROPERTIES
  LostOnlyInARace DeltaRebuilds
\* A part stops when its bounds are reached.
CHECK_DEADLOCK FALSE

\* The plans of the cloud fabric, executions, read batches, the feed of Wire and child processes,
\* each by itself.
SPECIFICATION Spec
CONSTANTS
  None = None  Run = {r1, r2}
  taskA = taskA  taskB = taskB
  Task = {taskA, taskB}  Deps <- ChainDeps  Provider = {codex, claude}  Limited = {claude}  Pathless = {}  NeedsOwner = {}  MaxTaskAttempts = 2
  Kinds <- Executions
  fileF = fileF  fileG = fileG
  File = {fileF, fileG}  Piece = {"p", "q"}  Content <- Texts  First <- Contents  Query = "p"
  Batches <- Sent  Worker = {w1, w2}  maxFileBytes = 2  maxSearchResults = 1  maxOutputBytes = 2  MaxGen = 2  MaxWrites = 2
  MaxEpoch = 2  MaxSeq = 2  MaxConn = 2  MaxCalls = 2
  maxKeptBytes = 2  MaxBytes = 3
INVARIANTS
  CompletedIsReviewed AttemptsAddUp ResultsAreTrue
PROPERTIES
  RunsImplementBoard WireCursorBackOnlyByResync EverythingEnds
\* A part stops when its bounds are reached.
CHECK_DEADLOCK FALSE

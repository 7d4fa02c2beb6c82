\* The probe of the MCP servers, the feed of the dashboard and the views of a task, each by itself.
SPECIFICATION Spec
CONSTANTS
  None = None
  Files <- Configurations  Wanted = None
  Page = {p1}  MaxVersion = 2  MaxLoads = 2  MaxFail = 2  MaxPublish = 2
  Waiter = {v1}  Timed = {v1}  Limit = 2  Lengths = {0, 1, 4, 5}  MaxSaves = 3
INVARIANTS
  HealthyIsEarned WaitMissesOnlyInTheGap
PROPERTIES
  WatchersEnd ScreensCatchUp
\* A part stops when its bounds are reached.
CHECK_DEADLOCK FALSE

\* Starts one at a time, a stop command, two deaths.
SPECIFICATION FairSpec
CONSTANTS
  Nobody = Nobody
  Proc = {p1, p2, p3}
  Stopper = {s1}
  SerialStarts = TRUE
  MaxCrash = 2
CHECK_DEADLOCK FALSE
INVARIANTS
  TypeOK
  StopMeansStopped
  CleanExit
PROPERTIES
  OnePlace
  AcceptedStopEnds
  StaleLockRecovered

\* Two starts over the file of a dead daemon.
SPECIFICATION Spec
CONSTANTS
  Nobody = Nobody
  Proc = {p1, p2, p3}
  Stopper = {s1}
  SerialStarts = FALSE
  MaxCrash = 1
SYMMETRY Symmetry
CHECK_DEADLOCK FALSE
INVARIANTS
  AtMostOneDaemon

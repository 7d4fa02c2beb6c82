\* Two calls of consume and one of cancel at once: three files, one crash.
SPECIFICATION MCSpec
CONSTANTS
  f1 = f1  f2 = f2  f3 = f3  k1 = k1
  work = work  done = done  block = block
  None = None
  File = {f1, f2, f3}
  Event = {work, done, block}
  EventIn <- MCEventIn
  Epoch <- MCEpoch
  SeqNo <- MCSeqNo
  Snapshot = {block}
  Status <- MCStatus
  Consumer = {c1, c2}
  Canceller = {k1}
  MaxCrash = 1
CHECK_DEADLOCK FALSE
INVARIANTS
  TypeOK
  RecordsAgree
PROPERTIES
  RemovedWhenReflected
  StateAdvances
  

\* Two calls of consume at once: work, then done.
SPECIFICATION Spec
CONSTANTS
  f1 = f1  f2 = f2  f3 = f3  k1 = k1
  work = work  done = done  block = block
  None = None
  File = {f1, f2}
  Event = {work, done, block}
  EventIn <- PairEventIn
  Epoch <- MCEpoch
  SeqNo <- MCSeqNo
  Snapshot = {block}
  Status <- MCStatus
  Consumer = {c1, c2}
  Canceller = {}
  MaxCrash = 0
CHECK_DEADLOCK FALSE
INVARIANTS
  DoneIsReached

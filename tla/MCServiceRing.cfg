CONSTANTS
  Capacity = 3
  CounterMod = 6
  Threads = {t1, t2}
  Records = {r1, r2}
  NoRecord = NoRecord
SPECIFICATION RingSpec
INVARIANTS RingTypeOK NoSlotShared OverflowIsReported
PROPERTY RingIsFifo

SPECIFICATION FairSpec
CONSTANTS
  Ids = {i1, i2, i3}
  Threads = {t1, t2}
  Writer = writer
  None = none
  QueueSize = 1
  BatchSize = 2
  Retention = 1
  MaxNow = 2
INVARIANTS
  TypeOK
  OneHistory
  IntactVerifies
  AnsweredIsRecorded
  BatchesPartition
  ProofsSpeakTrue
PROPERTIES
  FullQueueClears
CHECK_DEADLOCK FALSE

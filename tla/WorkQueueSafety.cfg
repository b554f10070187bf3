CONSTANTS
  Workers = {w1, w2, w3}
  Items = {j1, j2}
  NoItem = NoItem
  iSize = 3
SPECIFICATION FairSpec
INVARIANTS
  TypeOK
  PendingJobsExact
  NoLostJobSignal
  CallerWillBeWoken
  JobPointersValid
PROPERTIES
  WaitReturnsEmpty
  ImplementsJobPool
  OldestJobTaken
  WaitReturns

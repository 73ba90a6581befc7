SPECIFICATION FairSpec
CONSTANTS
  NoOwner = NoOwner
  Owner = {w1, w2}
  TTL = 2
  MaxWait = 1
  MaxTasks = 2
  MaxEntries = 3
  MaxLate = 1
INVARIANTS TypeOK NoTaskLostOrDuplicated NeverEarly
PROPERTIES KeepsPromise EveryTaskDelivered

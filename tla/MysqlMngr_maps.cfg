\* Queries of two priorities that compete for the slots, or one of them and a sync
\* query; a map change at any point, and a thread that may fail to start.
SPECIFICATION Spec
CONSTANTS
  MaxQueries = 2
  Priorities = {4, 5}
  Tuple = {"callback"}
  MaxThreads = 1
  MaxTuples = 1
  MaxStops = 1
  MaxEach = 1
  MaxSync = 1
INVARIANTS
  TypeOK
  DeletedIsForgotten
  StartedOnce
  TidRegistered
  HandleAlive
  SlotAccounting
  NotStranded
PROPERTIES
  PriorityLimits
  ResultDelivered
  ImplementsService

\* One map change and one query of the next map.
SPECIFICATION Spec
CONSTANTS
  MaxQueries = 2
  Priorities = {5}
  Tuple = {"callback"}
  MaxThreads = 1
  MaxTuples = 1
  MaxStops = 1
  MaxEach = 2
  MaxSync = 0
INVARIANTS
  ThreadsCountAssert

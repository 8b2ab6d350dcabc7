\* One query that fails, within a map.
SPECIFICATION Spec
CONSTANTS
  MaxQueries = 1
  Priorities = {5}
  Tuple = {"callback"}
  MaxThreads = 1
  MaxTuples = 1
  MaxStops = 0
  MaxEach = 1
  MaxSync = 0
INVARIANTS
  FailureReported

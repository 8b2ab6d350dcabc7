\* The map ends while build_queue() runs.
SPECIFICATION FairSpec
CONSTANTS
  MaxTimers = 1
  Groups = {1}
  Delays = {1}
  Millisecond = 2
  Flags = {{}}
  Repeats = {2}
  InitExecuted = {FALSE}
  MaxTime = 2
  MaxChanges = 0
  MaxMaps = 1
  Unloads = FALSE
CHECK_DEADLOCK FALSE
PROPERTIES
  StopAllRemoves

\* Two maps and the unloading of the module: single and repeated timers, set, changed and
\* removed at any point.
SPECIFICATION Spec
CONSTANTS
  MaxTimers = 2
  Groups = {1}
  Delays = {1}
  Millisecond = 2
  Flags = {{}, {"REPEAT"}}
  Repeats = {2}
  InitExecuted = {FALSE, TRUE}
  MaxTime = 3
  MaxChanges = 1
  MaxMaps = 1
  Unloads = TRUE
INVARIANTS
  TypeOK
  NotEarly
  NotLost
  PushedOnce
  RepeatExact
CHECK_DEADLOCK FALSE

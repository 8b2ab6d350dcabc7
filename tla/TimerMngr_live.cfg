\* A timer signalled while the main thread waits or works on its queue;
\* single, repeated and looping timers.
SPECIFICATION FairSpec
CONSTANTS
  MaxTimers = 2
  Groups = {1}
  Delays = {1}
  Millisecond = 2
  Flags = {{}, {"REPEAT"}, {"LOOP", "RELATIVE"}}
  Repeats = {2}
  InitExecuted = {FALSE, TRUE}
  MaxTime = 3
  MaxChanges = 0
  MaxMaps = 0
  Unloads = FALSE
CHECK_DEADLOCK FALSE
PROPERTIES
  SignalledRuns

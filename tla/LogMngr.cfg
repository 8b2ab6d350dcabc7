\* Five lines, a buffer of one line, max_writer_threads of one: the limit is reached
\* before, during and after a map change.
SPECIFICATION FairSpec
CONSTANTS
  MaxLines = 5
  MAX_LOG_BUFFER_SIZE = 1
  max_writer_threads = 1
  MaxMaps = 1
INVARIANTS
  TypeOK
  RunningCounted
  WriterBound
  LineInOnePlace
PROPERTIES
  LineSettled
  CloseReturns
